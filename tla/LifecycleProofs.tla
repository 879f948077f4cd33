-------------------------- MODULE LifecycleProofs --------------------------
(***************************************************************************)
(* How connections are set up, kept and given up, for any number of        *)
(* sockets and clients, any backlog, any timer constants and any sequence  *)
(* of losses, repetitions and delays.                                      *)
(***************************************************************************)
EXTENDS Sockets, Handshake, KeepAlive, FiniteSetTheorems,
        WellFoundedInduction, TLAPS

-----------------------------------------------------------------------------
(* The EXP timer. *)

\* The silence an end has seen is no shorter than the expirations it has counted.
Silence(e) == \/ heard[e] = HeardCap
              \/ heard[e] >= sinceRsp[e] + (expCount[e] - 1) * MinExpInt

KeepInv ==
  /\ expCount \in [Ends -> Nat \ {0}] /\ sinceRsp \in [Ends -> Nat]
  /\ heard \in [Ends -> Nat] /\ broken \in [Ends -> BOOLEAN]
  /\ \A e \in Ends : /\ heard[e] <= HeardCap
                     /\ Silence(e)
                     /\ broken[e] => heard[e] > QuietTime

\* The intervals of checkTimers, as numbers.
LEMMA KeepTypes == QuietTime \in Nat /\ HeardCap = QuietTime + 1 /\ MinExpInt \in Nat \ {0}
                   /\ DeadCount \in Nat /\ DeadTime \in Nat
  BY KeepAliveAssumption DEF HeardCap

\* An expiration more is worth MinExpInt, and more expirations are worth more.
LEMMA Products ==
  ASSUME NEW n \in Nat \ {0}
  PROVE  /\ n * MinExpInt \in Nat
         /\ (n - 1) * MinExpInt \in Nat
         /\ n * MinExpInt = (n - 1) * MinExpInt + MinExpInt
         /\ n > DeadCount => (n - 1) * MinExpInt >= DeadCount * MinExpInt
         /\ DeadCount * MinExpInt \in Nat
  BY KeepTypes

\* The interval before an expiration is at least MinExpInt.
LEMMA IntervalLength ==
  ASSUME KeepInv, NEW e \in Ends, Expired(e)
  PROVE  sinceRsp[e] > expCount[e] * MinExpInt /\ sinceRsp[e] > MinExpInt
  <1> DEFINE n == expCount[e]
             rtt == n * ExpTerm(e) + SYNInterval
             least == n * MinExpInt
  <1>1. n \in Nat \ {0} /\ sinceRsp[e] \in Nat
    BY DEF KeepInv
  <1>2. ExpTerm(e) \in Nat /\ SYNInterval \in Nat
    BY KeepAliveAssumption DEF ExpTerm
  <1>3. rtt \in Nat /\ least \in Nat
    BY <1>1, <1>2, KeepTypes
  <1>4. ExpInt(e) >= least /\ sinceRsp[e] > ExpInt(e) /\ ExpInt(e) \in Nat
    BY <1>3 DEF ExpInt, Expired
  <1>5. least >= MinExpInt
    BY <1>1, KeepTypes, Products
  <1> QED
    BY <1>1, <1>3, <1>4, <1>5, KeepTypes

\* CUDT::open starts the timers with nothing outstanding.
LEMMA KeepInitInv == KeepInit => KeepInv
  BY KeepTypes DEF KeepInit, KeepInv, Silence, Ends

\* The EXP branch of checkTimers: the counter grows only while the silence does.
LEMMA ExpireInv ==
  ASSUME KeepInv, NEW e \in Ends, Expire(e)
  PROVE  KeepInv'
  <1>1. expCount[e] \in Nat \ {0} /\ sinceRsp[e] \in Nat /\ heard[e] \in Nat
    BY DEF KeepInv
  <1>2. sinceRsp[e] > MinExpInt
    BY IntervalLength DEF Expire
  <1>3. heard' = heard
    BY DEF Expire
  <1>4. CASE PeerIsDead(e)
    <2>1. broken' = [broken EXCEPT ![e] = TRUE] /\ expCount' = expCount /\ sinceRsp' = sinceRsp
      BY <1>4 DEF Expire
    <2>2. heard[e] > QuietTime
      <3>1. expCount[e] > DeadCount /\ sinceRsp[e] > DeadTime
        BY <1>4 DEF PeerIsDead
      <3>2. (expCount[e] - 1) * MinExpInt >= DeadCount * MinExpInt
        BY <1>1, <3>1, Products
      <3>3. DeadCount * MinExpInt + DeadTime >= QuietTime
        BY KeepAliveAssumption
      <3> QED
        BY <1>1, <3>1, <3>2, <3>3, Products, KeepTypes DEF KeepInv, Silence
    <2> QED
      BY <1>3, <2>1, <2>2 DEF KeepInv, Silence
  <1>5. CASE ~PeerIsDead(e)
    <2>1. /\ expCount' = [expCount EXCEPT ![e] = @ + 1]
          /\ sinceRsp' = [sinceRsp EXCEPT ![e] = 0] /\ broken' = broken
      BY <1>5 DEF Expire
    <2>2. expCount[e] * MinExpInt = (expCount[e] - 1) * MinExpInt + MinExpInt
      BY <1>1, Products
    <2>3. (expCount[e] - 1) * MinExpInt \in Nat
      BY <1>1, Products
    <2>4. expCount'[e] - 1 = expCount[e] /\ sinceRsp'[e] = 0
      BY <1>1, <2>1 DEF KeepInv
    <2>5. Silence(e)'
      <3>1. CASE heard[e] = HeardCap
        BY <1>3, <3>1 DEF Silence, HeardCap
      <3>2. CASE heard[e] >= sinceRsp[e] + (expCount[e] - 1) * MinExpInt
        <4>1. heard[e] >= 0 + expCount[e] * MinExpInt
          BY <1>1, <1>2, <2>2, <2>3, <3>2, KeepTypes
        <4> QED
          BY <1>3, <2>4, <4>1 DEF Silence
      <3> QED
        BY <3>1, <3>2 DEF KeepInv, Silence
    <2>6. \A f \in Ends : f # e => Silence(f)'
      BY <1>3, <2>1 DEF KeepInv, Silence, HeardCap
    <2> QED
      BY <1>1, <1>3, <2>1, <2>5, <2>6 DEF KeepInv, HeardCap
  <1> QED
    BY <1>4, <1>5

\* Any packet from the peer resets the counter and the silence together.
LEMMA HeardInv ==
  ASSUME KeepInv, NEW e \in Ends, Heard(e), Up(e), UNCHANGED broken
  PROVE  KeepInv'
  <1>1. /\ expCount' = [expCount EXCEPT ![e] = 1] /\ sinceRsp' = [sinceRsp EXCEPT ![e] = 0]
        /\ heard' = [heard EXCEPT ![e] = 0]
    BY DEF Heard
  <1>2. Silence(e)'
    BY <1>1, KeepTypes DEF KeepInv, Silence
  <1>3. \A f \in Ends : f # e => Silence(f)'
    BY <1>1 DEF KeepInv, Silence, HeardCap
  <1> QED
    BY <1>1, <1>2, <1>3, KeepTypes DEF KeepInv, Up, HeardCap

\* Time passes: the silence grows with the clock.
LEMMA PassInv ==
  ASSUME KeepInv, Pass
  PROVE  KeepInv'
  <1>1. /\ sinceRsp' = [e \in Ends |-> IF Up(e) THEN sinceRsp[e] + 1 ELSE sinceRsp[e]]
        /\ heard' = [e \in Ends |-> Later(heard[e], e)]
        /\ expCount' = expCount /\ broken' = broken
    BY DEF Pass
  <1>2. ASSUME NEW e \in Ends
        PROVE  /\ heard'[e] \in Nat /\ heard'[e] <= HeardCap
               /\ Silence(e)'
               /\ broken'[e] => heard'[e] > QuietTime
    <2> DEFINE worth == (expCount[e] - 1) * MinExpInt
    <2>1. worth \in Nat /\ expCount[e] \in Nat \ {0} /\ sinceRsp[e] \in Nat /\ heard[e] \in Nat
      BY Products DEF KeepInv
    <2>2. worth' = worth
      BY <1>1
    <2>3. heard[e] <= HeardCap /\ (heard[e] = HeardCap \/ heard[e] >= sinceRsp[e] + worth)
      BY DEF KeepInv, Silence
    <2> HIDE DEF worth
    <2>4. \/ Up(e) /\ heard[e] < HeardCap /\ heard'[e] = heard[e] + 1 /\ sinceRsp'[e] = sinceRsp[e] + 1
          \/ Up(e) /\ heard[e] = HeardCap /\ heard'[e] = heard[e]
          \/ ~Up(e) /\ heard'[e] = heard[e] /\ sinceRsp'[e] = sinceRsp[e]
      BY <1>1, <2>1, <2>3, KeepTypes DEF Later
    <2>5. heard'[e] = HeardCap \/ heard'[e] >= sinceRsp'[e] + worth
      BY <2>1, <2>3, <2>4, KeepTypes
    <2>6. Silence(e)'
      BY <2>2, <2>5 DEF Silence, worth, HeardCap
    <2> QED
      BY <1>1, <2>1, <2>3, <2>4, <2>6, KeepTypes DEF KeepInv
  <1> QED
    BY <1>1, <1>2 DEF KeepInv, HeardCap

\* An end gives its peer up only after a silence longer than QuietTime, whatever is
\* lost, late or repeated: the EXP count starts anew with every message, and the
\* DeadCount expirations that checkTimers waits for take that long together.
THEOREM SilenceBeforeDeath == KeepSpec => []DeadOnlyAfterSilence
  <1>1. KeepInv /\ [KeepNext]_keepVars => KeepInv'
    <2> SUFFICES ASSUME KeepInv, [KeepNext]_keepVars PROVE KeepInv'
      OBVIOUS
    <2>1. CASE Pass
      BY <2>1, PassInv
    <2>2. ASSUME NEW e \in Ends, Expire(e) PROVE KeepInv'
      BY <2>2, ExpireInv
    <2>3. ASSUME NEW e \in Ends, Deliver(e) PROVE KeepInv'
      <3>1. CASE Up(e)
        BY <2>3, <3>1, HeardInv DEF Deliver
      <3>2. CASE ~Up(e)
        BY <2>3, <3>2 DEF Deliver, KeepInv, Silence, HeardCap
      <3> QED
        BY <3>1, <3>2
    <2>4. ASSUME NEW e \in Ends, Lose(e) \/ SendData(e) \/ EndCrash(e) PROVE KeepInv'
      BY <2>4 DEF Lose, SendData, EndCrash, KeepInv, Silence, HeardCap
    <2>5. CASE UNCHANGED keepVars
      BY <2>5 DEF keepVars, KeepInv, Silence, HeardCap
    <2> QED
      BY <2>1, <2>2, <2>3, <2>4, <2>5 DEF KeepNext
  <1>2. KeepInv => DeadOnlyAfterSilence
    BY DEF KeepInv, DeadOnlyAfterSilence
  <1> QED
    BY <1>1, <1>2, KeepInitInv, PTL DEF KeepSpec
-----------------------------------------------------------------------------
(* The handshake. *)

\* The fields of a client's socket.
ClientFields == {"mode", "pc", "reqType", "cookie", "resType", "echoed", "registered",
                 "connecting", "connected", "expired", "box"}

\* A packet to a client; its type tells what the server has done.
Packets == [to : Clients, type : {1, -1, 1002, 0}, cookie : Int]

HsTypes == /\ wireIn \subseteq Packets
           /\ \A m \in wireOut : m.from \in Clients
           /\ conn \in [Clients -> {"none", "live", "broken"}]
           /\ minute \in Int
           /\ DOMAIN cli = Clients
           /\ \A c \in Clients : DOMAIN cli[c] = ClientFields

\* An acceptance is on the wire only after the connection was made.
AcceptedIsMade == \A m \in wireIn : m.type = -1 => conn[m.to] # "none"

\* What is stored for a blocking connect() has come over the wire.
ToClient(c) == {m \in wireIn : m.to = c}
StoredIsSent == \A c \in Clients : cli[c].box \in Seq(ToClient(c))

\* A socket that was connected by an answer: a refusal, or an acceptance of the server.
Answered(k, c) == k.connected = TRUE =>
                    k.connecting = FALSE /\ (k.resType = 1002 \/ conn[c] # "none")

\* The socket before connect() can still become connecting, so it is not connected.
NotYet(k) == k.pc = "idle" => k.connected = FALSE /\ k.registered = FALSE /\ k.connecting = FALSE

HsInv == /\ HsTypes /\ AcceptedIsMade /\ StoredIsSent
         /\ \A c \in Clients : Answered(cli[c], c) /\ NotYet(cli[c])

\* An empty store holds packets of any kind.
LEMMA EmptyStore == ASSUME NEW T PROVE << >> \in Seq(T)
  OBVIOUS

\* Before any connect() nothing is on the wire and nothing is connected.
LEMMA HsInitInv == HandshakeInit => HsInv
  <1> SUFFICES ASSUME HandshakeInit PROVE HsInv
    OBVIOUS
  <1>1. DOMAIN cli = Clients /\ \A c \in Clients : \E how \in ConnectModes : cli[c] = Fresh(how)
    BY DEF HandshakeInit
  <1>2. \A how \in ConnectModes :
           /\ DOMAIN Fresh(how) = ClientFields
           /\ Fresh(how).box = << >> /\ Fresh(how).connected = FALSE
           /\ Fresh(how).registered = FALSE /\ Fresh(how).connecting = FALSE
    BY DEF Fresh, ClientFields
  <1>3. \A c \in Clients :
           /\ DOMAIN cli[c] = ClientFields
           /\ cli[c].box = << >> /\ cli[c].connected = FALSE
           /\ cli[c].registered = FALSE /\ cli[c].connecting = FALSE
    BY <1>1, <1>2
  <1>4. wireIn = {} /\ wireOut = {} /\ minute = 0 /\ conn = [c \in Clients |-> "none"]
    BY DEF HandshakeInit
  <1>5. conn \in [Clients -> {"none", "live", "broken"}]
    BY <1>4
  <1>6. HsTypes
    BY <1>1, <1>3, <1>4, <1>5 DEF HsTypes
  <1>7. AcceptedIsMade
    BY <1>4 DEF AcceptedIsMade
  <1>8. StoredIsSent
    BY <1>3, EmptyStore DEF StoredIsSent
  <1>9. \A c \in Clients : Answered(cli[c], c) /\ NotYet(cli[c])
    BY <1>3 DEF Answered, NotYet
  <1> QED
    BY <1>6, <1>7, <1>8, <1>9 DEF HsInv

\* What is to be shown when a step changes only the socket of client c.
LEMMA ClientChange ==
  ASSUME HsInv, NEW c \in Clients, NEW k,
         cli' = [cli EXCEPT ![c] = k],
         UNCHANGED <<wireIn, minute, conn>>,
         \A m \in wireOut' : m.from \in Clients,
         DOMAIN k = ClientFields,
         k.box \in Seq(ToClient(c)), Answered(k, c), NotYet(k)
  PROVE  HsInv'
  <1>1. HsTypes'
    BY DEF HsInv, HsTypes
  <1>2. AcceptedIsMade'
    BY DEF HsInv, AcceptedIsMade
  <1>3. \A d \in Clients : cli'[d] = IF d = c THEN k ELSE cli[d]
    BY DEF HsInv, HsTypes
  <1>4. StoredIsSent'
    BY <1>3 DEF HsInv, StoredIsSent, ToClient
  <1>5. \A d \in Clients : Answered(cli[d], d)' /\ NotYet(cli[d])'
    BY <1>3 DEF HsInv, Answered, NotYet
  <1> QED
    BY <1>1, <1>2, <1>4, <1>5 DEF HsInv

\* What a packet m makes of a socket k that handles it.
Handled(k, m, s) ==
  /\ DOMAIN s = ClientFields
  /\ s.pc = k.pc
  /\ s.box = k.box \/ s.box = << >>
  /\ \/ s = k
     \/ s.connected = k.connected /\ s.connecting = k.connecting /\ k.connecting = TRUE
     \/ s.connecting = FALSE /\ s.resType = m.type /\ m.type \in {-1, 1002}

\* connect(response) connects a socket only on an answer, and leaves alone one that does
\* not connect any more.
LEMMA RespondedFacts ==
  ASSUME NEW k, DOMAIN k = ClientFields, NEW m \in Packets
  PROVE  Handled(k, m, Responded(k, m).sock)
  <1> DEFINE s == Responded(k, m).sock
  <1>0. m.type \in {1, -1, 1002, 0}
    BY DEF Packets
  <1>1. CASE ~k.connecting \/ m.type = 0
    <2>1. s = k
      BY <1>1 DEF Responded, Data
    <2> QED
      BY <2>1 DEF Handled
  <1>2. CASE k.connecting /\ m.type = 1
    <2> DEFINE new == [[k EXCEPT !.resType = m.type, !.echoed = TRUE]
                        EXCEPT !.reqType = -1, !.cookie = m.cookie]
    <2>1. s = new
      BY <1>2 DEF Responded, Data
    <2>2. /\ DOMAIN new = ClientFields
          /\ new.pc = k.pc /\ new.box = k.box /\ new.connected = k.connected
          /\ new.connecting = k.connecting
      BY DEF ClientFields
    <2> HIDE DEF new, s
    <2>3. /\ DOMAIN s = ClientFields /\ s.pc = k.pc /\ s.box = k.box
          /\ s.connected = k.connected /\ s.connecting = k.connecting /\ k.connecting = TRUE
      BY <1>2, <2>1, <2>2
    <2>4. Handled(k, m, s)
      BY <2>3 DEF Handled
    <2> QED
      BY <2>4 DEF s
  <1>3. CASE k.connecting /\ m.type \in {-1, 1002}
    <2> DEFINE new == [[k EXCEPT !.resType = m.type, !.echoed = TRUE]
                        EXCEPT !.registered = FALSE, !.box = << >>,
                               !.connecting = FALSE, !.connected = TRUE]
    <2>1. s = new
      BY <1>3 DEF Responded, Data
    <2>2. /\ DOMAIN new = ClientFields
          /\ new.pc = k.pc /\ new.box = << >>
          /\ new.connecting = FALSE /\ new.resType = m.type
      BY DEF ClientFields
    <2> QED
      BY <1>3, <2>1, <2>2 DEF Handled
  <1> QED
    BY <1>0, <1>1, <1>2, <1>3

\* A round of the loop of a blocking connect(), and the worker's handling of a packet for
\* a non-blocking one: connect(response) on a packet that was sent to this client.
LEMMA RespondedInv ==
  ASSUME HsInv, NEW c \in Clients, NEW k, DOMAIN k = ClientFields,
         k.box \in Seq(ToClient(c)), Answered(k, c), k.pc # "idle", NEW m \in ToClient(c)
  PROVE  LET s == Responded(k, m).sock
         IN /\ DOMAIN s = ClientFields /\ s.pc = k.pc
            /\ s.box \in Seq(ToClient(c)) /\ Answered(s, c)
  <1> DEFINE s == Responded(k, m).sock
  <1>1. m \in Packets /\ m \in wireIn /\ m.to = c
    BY DEF HsInv, HsTypes, ToClient
  <1>2. Handled(k, m, s)
    BY <1>1, RespondedFacts
  <1> HIDE DEF s
  <1>3. s.box \in Seq(ToClient(c))
    <2>1. << >> \in Seq(ToClient(c))
      BY EmptyStore
    <2>2. s.box = k.box \/ s.box = << >>
      BY <1>2 DEF Handled
    <2> QED
      BY <2>1, <2>2
  <1>4. m.type = -1 => conn[c] # "none"
    BY <1>1 DEF HsInv, AcceptedIsMade
  <1>5. Answered(s, c)
    <2>1. CASE s = k
      BY <2>1
    <2>2. CASE s.connected = k.connected /\ s.connecting = k.connecting /\ k.connecting = TRUE
      BY <2>2 DEF Answered
    <2>3. CASE s.connecting = FALSE /\ s.resType = m.type /\ m.type \in {-1, 1002}
      BY <2>3, <1>4 DEF Answered
    <2> QED
      BY <1>2, <2>1, <2>2, <2>3 DEF Handled
  <1> QED
    BY <1>2, <1>3, <1>5 DEF s, Handled

\* Every step of a client keeps the invariant.
LEMMA ClientStepInv ==
  ASSUME HsInv, NEW c \in Clients, ClientStep(c)
  PROVE  HsInv'
  <1>0. /\ DOMAIN cli = Clients /\ DOMAIN cli[c] = ClientFields
        /\ cli[c].box \in Seq(ToClient(c)) /\ Answered(cli[c], c) /\ NotYet(cli[c])
        /\ \A m \in wireOut : m.from \in Clients
    BY DEF HsInv, HsTypes, StoredIsSent
  <1>a. \A k : RequestOf(c, k).from \in Clients
    BY DEF RequestOf
  <1>1. CASE ConnectCall(c)
    <2> DEFINE k == [cli[c] EXCEPT !.registered = TRUE, !.connecting = TRUE,
                          !.pc = IF cli[c].mode = "blocking" THEN "loop" ELSE "returned"]
    <2>1. /\ cli' = [cli EXCEPT ![c] = k]
          /\ wireOut' = wireOut \cup {RequestOf(c, k)}
          /\ UNCHANGED <<wireIn, minute, conn>> /\ cli[c].pc = "idle"
      BY <1>1 DEF ConnectCall
    <2>2. /\ DOMAIN k = ClientFields /\ k.box = cli[c].box /\ k.connected = cli[c].connected
          /\ k.pc # "idle"
      BY <1>0 DEF ClientFields
    <2>3. cli[c].connected = FALSE
      BY <1>0, <2>1 DEF NotYet
    <2>4. Answered(k, c) /\ NotYet(k)
      BY <2>2, <2>3 DEF Answered, NotYet
    <2>5. \A m \in wireOut' : m.from \in Clients
      BY <1>0, <1>a, <2>1
    <2> HIDE DEF k
    <2> QED
      BY <1>0, <2>1, <2>2, <2>4, <2>5, ClientChange
  <1>2. CASE Resend(c)
    <2>1. /\ wireOut' = wireOut \cup {RequestOf(c, cli[c])}
          /\ UNCHANGED <<cli, wireIn, minute, conn>>
      BY <1>2 DEF Resend
    <2>2. \A m \in wireOut' : m.from \in Clients
      BY <1>0, <1>a, <2>1
    <2> QED
      BY <2>1, <2>2 DEF HsInv, HsTypes, AcceptedIsMade, StoredIsSent, ToClient, Answered, NotYet
  <1>3. CASE TtlOver(c)
    <2> DEFINE k == [cli[c] EXCEPT !.expired = TRUE]
    <2>1. cli' = [cli EXCEPT ![c] = k] /\ UNCHANGED <<wireOut, wireIn, minute, conn>>
      BY <1>3, <1>0 DEF TtlOver
    <2>2. /\ DOMAIN k = ClientFields /\ k.box = cli[c].box /\ k.connected = cli[c].connected
          /\ k.pc = cli[c].pc /\ k.resType = cli[c].resType
          /\ k.connecting = cli[c].connecting /\ k.registered = cli[c].registered
      BY <1>0 DEF ClientFields
    <2>3. Answered(k, c) /\ NotYet(k)
      BY <2>2, <1>0 DEF Answered, NotYet
    <2> HIDE DEF k
    <2> QED
      BY <1>0, <2>1, <2>2, <2>3, ClientChange
  <1>4. CASE GiveUp(c)
    <2> DEFINE k == [cli[c] EXCEPT !.connecting = FALSE]
    <2>1. cli' = [cli EXCEPT ![c] = k] /\ UNCHANGED <<wireOut, wireIn, minute, conn>>
      BY <1>4, <1>0 DEF GiveUp, AfterTtl
    <2>2. /\ DOMAIN k = ClientFields /\ k.box = cli[c].box /\ k.connected = cli[c].connected
          /\ k.pc = cli[c].pc /\ k.resType = cli[c].resType
          /\ k.connecting = FALSE /\ k.registered = cli[c].registered
      BY <1>0 DEF ClientFields
    <2>3. Answered(k, c) /\ NotYet(k)
      BY <2>2, <1>0 DEF Answered, NotYet
    <2> HIDE DEF k
    <2> QED
      BY <1>0, <2>1, <2>2, <2>3, ClientChange
  <1>5. CASE ConnectLoop(c)
    <2> DEFINE b == cli[c].box
               k == [cli[c] EXCEPT !.box = Tail(b)]
               r == Responded(k, Head(b))
               s == r.sock
               t == IF r.value <= 0 THEN [s EXCEPT !.pc = Verdict(s)]
                    ELSE IF k.expired THEN [s EXCEPT !.pc = "timeout"] ELSE s
    <2>1. cli[c].pc = "loop" /\ b # << >> /\ UNCHANGED <<wireOut, wireIn, minute, conn>>
      BY <1>5 DEF ConnectLoop
    <2>2. cli' = [cli EXCEPT ![c] = t]
      BY <1>5, <1>0 DEF ConnectLoop, ClientFields
    <2>3. /\ DOMAIN k = ClientFields /\ k.box = Tail(b) /\ k.connected = cli[c].connected
          /\ k.pc = cli[c].pc /\ k.resType = cli[c].resType
          /\ k.connecting = cli[c].connecting
      BY <1>0 DEF ClientFields
    <2>4. Tail(b) \in Seq(ToClient(c)) /\ Head(b) \in ToClient(c)
      BY <1>0, <2>1
    <2>5. Answered(k, c) /\ k.pc # "idle"
      BY <2>1, <2>3, <1>0 DEF Answered
    <2> HIDE DEF k, b
    <2>6. /\ DOMAIN s = ClientFields /\ s.pc = k.pc
          /\ s.box \in Seq(ToClient(c)) /\ Answered(s, c)
      BY <2>3, <2>4, <2>5, RespondedInv
    <2>7. s.pc = "loop"
      BY <2>1, <2>3, <2>6
    <2>8. Verdict(s) # "idle"
      BY DEF Verdict
    <2> HIDE DEF s, r
    <2>9. \A p : LET u == [s EXCEPT !.pc = p]
                IN p # "idle" => /\ DOMAIN u = ClientFields /\ u.box \in Seq(ToClient(c))
                                 /\ Answered(u, c) /\ NotYet(u)
      <3> SUFFICES ASSUME NEW p, p # "idle"
                   PROVE LET u == [s EXCEPT !.pc = p]
                         IN /\ DOMAIN u = ClientFields /\ u.box \in Seq(ToClient(c))
                            /\ Answered(u, c) /\ NotYet(u)
        OBVIOUS
      <3> DEFINE u == [s EXCEPT !.pc = p]
      <3>1. /\ DOMAIN u = ClientFields /\ u.box = s.box /\ u.connected = s.connected
            /\ u.pc = p /\ u.resType = s.resType /\ u.connecting = s.connecting
        BY <2>6 DEF ClientFields
      <3> HIDE DEF u
      <3>2. Answered(u, c) /\ NotYet(u)
        BY <3>1, <2>6 DEF Answered, NotYet
      <3>3. u.box \in Seq(ToClient(c))
        BY <3>1, <2>6
      <3> QED
        BY <3>1, <3>2, <3>3 DEF u
    <2>10. NotYet(s)
      BY <2>7 DEF NotYet
    <2>11. /\ DOMAIN t = ClientFields /\ t.box \in Seq(ToClient(c))
           /\ Answered(t, c) /\ NotYet(t)
      BY <2>6, <2>8, <2>9, <2>10
    <2> HIDE DEF t
    <2> QED
      BY <1>0, <2>1, <2>2, <2>11, ClientChange
  <1>6. CASE ConnectTimeout(c)
    <2> DEFINE k == [cli[c] EXCEPT !.pc = "timeout"]
    <2>1. cli' = [cli EXCEPT ![c] = k] /\ UNCHANGED <<wireOut, wireIn, minute, conn>>
      BY <1>6, <1>0 DEF ConnectTimeout
    <2>2. /\ DOMAIN k = ClientFields /\ k.box = cli[c].box /\ k.connected = cli[c].connected
          /\ k.pc = "timeout" /\ k.resType = cli[c].resType
          /\ k.connecting = cli[c].connecting
      BY <1>0 DEF ClientFields
    <2>3. Answered(k, c) /\ NotYet(k)
      BY <2>2, <1>0 DEF Answered, NotYet
    <2> HIDE DEF k
    <2> QED
      BY <1>0, <2>1, <2>2, <2>3, ClientChange
  <1>7. ASSUME NEW m \in wireIn, ClientPacket(c, m)
        PROVE  HsInv'
    <2> DEFINE s == Responded(cli[c], m).sock
               t == Store(cli[c], m)
    <2>1. /\ cli[c].registered /\ m \in ToClient(c)
          /\ cli' = [cli EXCEPT ![c] = s] \/ cli' = [cli EXCEPT ![c] = t]
          /\ UNCHANGED <<wireOut, wireIn, minute, conn>>
      BY <1>7 DEF ClientPacket, ToClient
    <2>2. cli[c].pc # "idle"
      BY <1>0, <2>1 DEF NotYet
    <2>3. /\ DOMAIN s = ClientFields /\ s.pc = cli[c].pc
          /\ s.box \in Seq(ToClient(c)) /\ Answered(s, c)
      BY <1>0, <2>1, <2>2, RespondedInv
    <2>4. NotYet(s)
      BY <2>2, <2>3 DEF NotYet
    <2>5. /\ DOMAIN t = ClientFields /\ t.pc = cli[c].pc
          /\ t.box = cli[c].box \/ t.box = Append(cli[c].box, m)
          /\ t.connected = cli[c].connected /\ t.resType = cli[c].resType
          /\ t.connecting = cli[c].connecting
      BY <1>0 DEF Store, ClientFields
    <2>6. t.box \in Seq(ToClient(c))
      BY <1>0, <2>1, <2>5
    <2>7. Answered(t, c) /\ NotYet(t)
      BY <1>0, <2>2, <2>5 DEF Answered, NotYet
    <2> HIDE DEF s, t
    <2>8. CASE cli' = [cli EXCEPT ![c] = s]
      BY <1>0, <2>8, <2>1, <2>3, <2>4, ClientChange
    <2>9. CASE cli' = [cli EXCEPT ![c] = t]
      BY <1>0, <2>9, <2>1, <2>5, <2>6, <2>7, ClientChange
    <2> QED
      BY <2>1, <2>8, <2>9
  <1> QED
    BY <1>1, <1>2, <1>3, <1>4, <1>5, <1>6, <1>7 DEF ClientStep

\* What is to be shown when the server puts packets on the wire and makes connections:
\* no connection is forgotten, and an acceptance is only sent for a connection made.
LEMMA ServerChange ==
  ASSUME HsInv, UNCHANGED <<cli, wireOut>>, minute' \in Int,
         wireIn \subseteq wireIn', wireIn' \subseteq Packets,
         \A m \in wireIn' : m.type = -1 => conn'[m.to] # "none",
         conn' \in [Clients -> {"none", "live", "broken"}],
         \A c \in Clients : conn[c] # "none" => conn'[c] # "none"
  PROVE  HsInv'
  <1>1. HsTypes'
    BY DEF HsInv, HsTypes
  <1>2. AcceptedIsMade'
    BY DEF AcceptedIsMade
  <1>3. StoredIsSent'
    <2> SUFFICES ASSUME NEW c \in Clients PROVE cli[c].box \in Seq(ToClient(c)')
      BY DEF StoredIsSent
    <2>1. cli[c].box \in Seq(ToClient(c)) /\ ToClient(c) \subseteq ToClient(c)'
      BY DEF HsInv, StoredIsSent, ToClient
    <2> HIDE DEF ToClient
    <2> QED
      BY <2>1
  <1>4. \A c \in Clients : Answered(cli[c], c)' /\ NotYet(cli[c])'
    BY DEF HsInv, Answered, NotYet
  <1> QED
    BY <1>1, <1>2, <1>3, <1>4 DEF HsInv

\* Every step of the server keeps the invariant.
LEMMA ServerStepInv ==
  ASSUME HsInv, ServerStep
  PROVE  HsInv'
  <1>0. /\ wireIn \subseteq Packets /\ minute \in Int
        /\ \A m \in wireOut : m.from \in Clients
        /\ conn \in [Clients -> {"none", "live", "broken"}]
        /\ \A m \in wireIn : m.type = -1 => conn[m.to] # "none"
    BY DEF HsInv, HsTypes, AcceptedIsMade
  <1>1. ASSUME NEW m \in wireOut, GiveCookie(m)
        PROVE  HsInv'
    <2> DEFINE p == [to |-> m.from, type |-> 1, cookie |-> minute]
    <2>1. wireIn' = wireIn \cup {p} /\ UNCHANGED <<cli, wireOut, minute, conn>>
      BY <1>1 DEF GiveCookie
    <2>2. p \in Packets /\ p.type # -1
      BY <1>0 DEF Packets
    <2> HIDE DEF p
    <2> QED
      BY <1>0, <2>1, <2>2, ServerChange
  <1>2. ASSUME NEW m \in wireOut, NewConnection(m)
        PROVE  HsInv'
    <2> DEFINE c == m.from
               yes == [to |-> c, type |-> -1, cookie |-> None]
               no == [to |-> c, type |-> 1002, cookie |-> None]
    <2>1. UNCHANGED <<cli, wireOut, minute>> /\ c \in Clients
      BY <1>0, <1>2 DEF NewConnection
    <2>2. yes \in Packets /\ no \in Packets /\ yes.to = c /\ no.type # -1
      BY <2>1 DEF Packets, None
    <2>3. \/ conn[c] = "live" /\ wireIn' = wireIn \cup {yes} /\ conn' = conn
          \/ wireIn' = wireIn \cup {no} /\ conn' = conn
          \/ wireIn' = wireIn \cup {yes} /\ conn' = [conn EXCEPT ![c] = "live"]
      BY <1>2 DEF NewConnection, Answer
    <2> HIDE DEF yes, no, c
    <2>4. CASE conn[c] = "live" /\ wireIn' = wireIn \cup {yes} /\ conn' = conn
      BY <1>0, <2>1, <2>2, <2>4, ServerChange
    <2>5. CASE wireIn' = wireIn \cup {no} /\ conn' = conn
      BY <1>0, <2>1, <2>2, <2>5, ServerChange
    <2>6. CASE wireIn' = wireIn \cup {yes} /\ conn' = [conn EXCEPT ![c] = "live"]
      <3>1. /\ \A d \in Clients : conn'[d] = IF d = c THEN "live" ELSE conn[d]
            /\ conn' \in [Clients -> {"none", "live", "broken"}]
        BY <1>0, <2>1, <2>6
      <3>2. \A n \in wireIn' : n.to \in Clients
        BY <1>0, <2>1, <2>2, <2>6 DEF Packets
      <3> QED
        BY <1>0, <2>1, <2>2, <2>6, <3>1, <3>2, ServerChange
    <2> QED
      BY <2>3, <2>4, <2>5, <2>6
  <1>3. CASE AcceptOne \/ OtherConnects
    BY <1>0, <1>3, ServerChange DEF AcceptOne, OtherConnects
  <1>4. CASE NextMinute
    BY <1>0, <1>4, ServerChange DEF NextMinute
  <1>5. ASSUME NEW c \in Clients, ServerSends(c)
        PROVE  HsInv'
    <2> DEFINE p == [to |-> c, type |-> 0, cookie |-> None]
    <2>1. wireIn' = wireIn \cup {p} /\ UNCHANGED <<cli, wireOut, minute, conn>>
      BY <1>5 DEF ServerSends, Data
    <2>2. p \in Packets /\ p.type # -1
      BY DEF Packets, None
    <2> HIDE DEF p
    <2> QED
      BY <1>0, <2>1, <2>2, ServerChange
  <1>6. ASSUME NEW c \in Clients, ServerBreaks(c)
        PROVE  HsInv'
    <2>1. conn' = [conn EXCEPT ![c] = "broken"] /\ UNCHANGED <<cli, wireOut, wireIn, minute>>
      BY <1>6 DEF ServerBreaks
    <2>2. /\ \A d \in Clients : conn'[d] = IF d = c THEN "broken" ELSE conn[d]
          /\ conn' \in [Clients -> {"none", "live", "broken"}]
      BY <1>0, <2>1
    <2>3. \A n \in wireIn : n.to \in Clients
      BY <1>0 DEF Packets
    <2> QED
      BY <1>0, <2>1, <2>2, <2>3, ServerChange
  <1> QED
    BY <1>1, <1>2, <1>3, <1>4, <1>5, <1>6 DEF ServerStep

\* However requests, cookies and answers are lost, repeated and overtake each other, and
\* however often connect(response) sees an old packet: a client that connect(response)
\* connected and that was not refused has had a connection made by newConnection.
THEOREM ConnectionAtBothEnds == HandshakeSpec => []ConnectedAtBothEnds
  <1>1. HsInv /\ [HandshakeNext]_hsVars => HsInv'
    <2> SUFFICES ASSUME HsInv, [HandshakeNext]_hsVars PROVE HsInv'
      OBVIOUS
    <2>1. CASE ServerStep
      BY <2>1, ServerStepInv
    <2>2. ASSUME NEW c \in Clients, ClientStep(c) PROVE HsInv'
      BY <2>2, ClientStepInv
    <2>3. CASE UNCHANGED hsVars
      BY <2>3 DEF hsVars, HsInv, HsTypes, AcceptedIsMade, StoredIsSent, ToClient, Answered,
                  NotYet
    <2> QED
      BY <2>1, <2>2, <2>3 DEF HandshakeNext
  <1>2. HsInv => ConnectedAtBothEnds
    BY DEF HsInv, Answered, ConnectedAtBothEnds
  <1> QED
    BY <1>1, <1>2, HsInitInv, PTL DEF HandshakeSpec

-----------------------------------------------------------------------------
(* The socket table.  A handler of CUDTUnited is a chain of operators that  *)
(* pass the whole state on; Keeps says what almost all of them leave alone, *)
(* Good is the invariant.                                                   *)

SockFields == {"status", "opened", "listening", "connecting", "connected", "broken", "closing",
               "lingering", "onList", "old", "mux", "listener", "peer", "hasQueue", "queued",
               "accepted", "uses"}

\* The form of what the handlers pass on.
Shape(s) == /\ DOMAIN s = {"sock", "place", "mux", "peerRec"}
            /\ DOMAIN s.sock = Ids /\ DOMAIN s.place = Ids /\ DOMAIN s.peerRec = Peers
            /\ \A u \in Ids : DOMAIN s.sock[u] = SockFields

\* A handler that opens no socket, mends none and gives no peer a new one.
Keeps(s, t) ==
  /\ Shape(t)
  /\ \A u \in Ids : /\ t.sock[u].queued \subseteq s.sock[u].queued
                    /\ t.place[u] = "none" <=> s.place[u] = "none"
                    /\ t.place[u] = "open" =>
                         s.place[u] = "open" /\ (s.sock[u].broken = TRUE => t.sock[u].broken = TRUE)
  /\ \A p \in Peers : t.peerRec[p] \subseteq s.peerRec[p]

\* One handler after another.
LEMMA KeepsTransitive ==
  ASSUME NEW r, NEW s, NEW t, Keeps(r, s), Keeps(s, t)
  PROVE  Keeps(r, t)
  BY DEF Keeps

\* Nothing happens.
LEMMA KeepsSame == ASSUME NEW s, Shape(s) PROVE Keeps(s, s)
  BY DEF Keeps

\* A socket joins a multiplexer.
LEMMA KeepsJoined ==
  ASSUME NEW s, Shape(s), NEW u \in Ids, NEW m
  PROVE  Keeps(s, Joined(s, u, m))
  BY DEF Keeps, Shape, Joined, SockFields

\* CUDT::open.
LEMMA KeepsOpened ==
  ASSUME NEW s, Shape(s), NEW u \in Ids
  PROVE  Keeps(s, Opened(s, u))
  BY DEF Keeps, Shape, Opened, SockFields

\* updateMux, with a multiplexer of the port or a new one.
LEMMA KeepsUpdateMux ==
  ASSUME NEW s, Shape(s), NEW u \in Ids, NEW port
  PROVE  Keeps(s, UpdateMux(s, u, port))
  <1>1. CASE OnPort(s, port) # {}
    <2> DEFINE m == CHOOSE m \in OnPort(s, port) : TRUE
    <2>1. UpdateMux(s, u, port) = Joined(s, u, m)
      BY <1>1 DEF UpdateMux
    <2> QED
      BY <2>1, KeepsJoined
  <1>2. CASE OnPort(s, port) = {}
    <2> DEFINE with == [m \in DOMAIN s.mux \cup {u} |-> IF m = u THEN NewMux(port) ELSE s.mux[m]]
    <2>1. UpdateMux(s, u, port) = [s EXCEPT !.mux = with, !.sock[u].mux = u]
      BY <1>2 DEF UpdateMux, Shape
    <2> HIDE DEF with
    <2>2. Keeps(s, [s EXCEPT !.mux = with, !.sock[u].mux = u])
      BY DEF Keeps, Shape, SockFields
    <2> QED
      BY <2>1, <2>2
  <1> QED
    BY <1>1, <1>2

\* newConnection takes a broken connection off its listener's queues.
LEMMA KeepsDequeued ==
  ASSUME NEW s, Shape(s), NEW u, NEW l
  PROVE  Keeps(s, Dequeued(s, l, u))
  BY DEF Keeps, Shape, Dequeued, SockFields

\* A connected socket is handed to the worker.
LEMMA KeepsRegistered ==
  ASSUME NEW s, Shape(s), NEW u \in Ids
  PROVE  Keeps(s, Registered(s, u))
  BY DEF Keeps, Shape, Registered, SockFields

\* CRendezvousQueue::remove.
LEMMA KeepsUnregistered ==
  ASSUME NEW s, Shape(s), NEW U
  PROVE  Keeps(s, Unregistered(s, U))
  BY DEF Keeps, Shape, Unregistered, SockFields

\* CUDT::close.
LEMMA KeepsShut ==
  ASSUME NEW s, Shape(s), NEW U
  PROVE  Keeps(s, Shut(s, U))
  <1> DEFINE listeners == {u \in U : s.sock[u].opened /\ s.sock[u].listening}
             others == {u \in U : s.sock[u].opened /\ ~s.sock[u].listening}
             shut(k) == [k EXCEPT !.closing = TRUE, !.listening = FALSE, !.connected = FALSE,
                                  !.opened = FALSE]
             left(m) == IF s.mux[m].listener \in listeners THEN Nobody ELSE s.mux[m].listener
             deaf == [s EXCEPT !.mux = [m \in DOMAIN s.mux |-> [s.mux[m] EXCEPT !.listener = left(m)]]]
             a == Unregistered(deaf, others)
             W == listeners \cup others
  <1>1. Keeps(s, deaf) /\ Shape(deaf)
    BY DEF Keeps, Shape
  <1> HIDE DEF deaf, others
  <1>2. Keeps(deaf, a) /\ Shape(a)
    BY <1>1, KeepsUnregistered DEF Keeps
  <1>3. Shut(s, U) = Each(a, W, shut)
    BY DEF Shut, deaf, others
  <1> HIDE DEF a, W
  <1>4. Keeps(a, Each(a, W, shut))
    BY <1>2 DEF Keeps, Shape, Each, SockFields
  <1> HIDE DEF shut
  <1> QED
    BY <1>1, <1>2, <1>3, <1>4, KeepsTransitive

\* Sockets go to m_ClosedSockets.
LEMMA KeepsToClosed ==
  ASSUME NEW s, Shape(s), NEW U, \A u \in U \cap Ids : s.place[u] # "none"
  PROVE  Keeps(s, ToClosed(s, U))
  BY DEF Keeps, Shape, ToClosed, Each, SockFields

\* checkBrokenSockets collects broken sockets.
LEMMA KeepsCollected ==
  ASSUME NEW s, Shape(s), NEW U, \A u \in U \cap Ids : s.place[u] # "none"
  PROVE  Keeps(s, Collected(s, U))
  <1> DEFINE a == ToClosed(s, U)
             W == {s.sock[u].listener : u \in U}
             without(k) == [k EXCEPT !.queued = @ \ U, !.accepted = @ \ U]
  <1>1. Keeps(s, a) /\ Shape(a)
    BY KeepsToClosed DEF Keeps
  <1>2. Collected(s, U) = Each(a, W, without)
    BY DEF Collected
  <1> HIDE DEF a, W
  <1>3. Keeps(a, Each(a, W, without))
    BY <1>1 DEF Keeps, Shape, Each, SockFields
  <1> HIDE DEF without
  <1> QED
    BY <1>1, <1>2, <1>3, KeepsTransitive

\* The lingering of an asynchronous close ends.
LEMMA KeepsLingerOver ==
  ASSUME NEW s, Shape(s), NEW U
  PROVE  Keeps(s, LingerOver(s, U))
  BY DEF Keeps, Shape, LingerOver, Each, SockFields

\* Sockets are marked broken.
LEMMA KeepsBroken ==
  ASSUME NEW s, Shape(s), NEW U
  PROVE  LET break(k) == [k EXCEPT !.broken = TRUE] IN Keeps(s, Each(s, U, break))
  BY DEF Keeps, Shape, Each, SockFields

\* removeSocket closes what waits in the queue of a listener.
LEMMA KeepsOrphaned ==
  ASSUME NEW s, Shape(s), NEW U, \A l \in U, u \in Ids : u \in s.sock[l].queued => s.place[u] # "none"
  PROVE  Keeps(s, Orphaned(s, U))
  <1> DEFINE orphans == UNION {s.sock[l].queued : l \in U}
             break(k) == [k EXCEPT !.broken = TRUE]
             a == Each(s, orphans, break)
             b == Shut(a, orphans)
  <1>1. \A u \in orphans \cap Ids : s.place[u] # "none"
    OBVIOUS
  <1> HIDE DEF orphans
  <1>2. Keeps(s, a) /\ Shape(a)
    BY KeepsBroken DEF Keeps
  <1> HIDE DEF a
  <1>3. Keeps(a, b) /\ Shape(b)
    BY <1>2, KeepsShut DEF Keeps
  <1> HIDE DEF b
  <1>4. Keeps(s, b) /\ \A u \in orphans \cap Ids : b.place[u] # "none"
    BY <1>1, <1>2, <1>3, KeepsTransitive DEF Keeps
  <1>5. Keeps(b, ToClosed(b, orphans))
    BY <1>3, <1>4, KeepsToClosed
  <1>6. Orphaned(s, U) = ToClosed(b, orphans)
    BY DEF Orphaned, b, a, orphans
  <1> QED
    BY <1>4, <1>5, <1>6, KeepsTransitive

\* A multiplexer loses references.
LEMMA KeepsReleased ==
  ASSUME NEW s, Shape(s), NEW U
  PROVE  Keeps(s, Released(s, U))
  BY DEF Keeps, Shape, Released

\* removeSocket frees the sockets and forgets their peers.
LEMMA KeepsRemoveSocket ==
  ASSUME NEW s, Shape(s), NEW U, \A u \in U \cap Ids : s.place[u] # "none"
  PROVE  Keeps(s, RemoveSocket(s, U))
  <1> DEFINE a == Shut(s, U)
             b == Released(a, U)
             gone(k) == [NoSocket EXCEPT !.uses = k.uses]
  <1>1. Keeps(s, a) /\ Shape(a)
    BY KeepsShut DEF Keeps
  <1> HIDE DEF a
  <1>2. Keeps(a, b) /\ Shape(b)
    BY <1>1, KeepsReleased DEF Keeps
  <1> HIDE DEF b
  <1>3. Keeps(s, b) /\ \A u \in U \cap Ids : b.place[u] # "none"
    BY <1>1, <1>2, KeepsTransitive DEF Keeps
  <1> DEFINE t == [Each(b, U, gone)
                    EXCEPT !.place = [u \in Ids |-> IF u \in U THEN "freed" ELSE @[u]],
                           !.peerRec = [p \in Peers |-> @[p] \ U]]
  <1>4. RemoveSocket(s, U) = t
    BY DEF RemoveSocket, a, b
  <1>5. Keeps(b, t)
    BY <1>2, <1>3 DEF Keeps, Shape, Each, NoSocket, SockFields
  <1> HIDE DEF t
  <1> QED
    BY <1>3, <1>4, <1>5, KeepsTransitive

\* The ids in use are the first ones; all that is recorded of a peer or queued is in use;
\* and of the open sockets of a peer only the newest may be unbroken.
Good(s) ==
  /\ Shape(s)
  /\ \E k \in 0 .. MaxSocket : \A u \in Ids : s.place[u] # "none" <=> u <= k
  /\ \A p \in Peers : \A u \in s.peerRec[p] : u \in Ids /\ s.place[u] # "none"
  /\ \A l, u \in Ids : u \in s.sock[l].queued => s.place[u] # "none"
  /\ \A p \in Peers : \A u, v \in s.peerRec[p] :
       u < v /\ s.place[u] = "open" => s.sock[u].broken = TRUE

\* Such handlers keep the invariant.
LEMMA GoodKept ==
  ASSUME NEW s, NEW t, Good(s), Keeps(s, t)
  PROVE  Good(t)
  <1>1. PICK k \in 0 .. MaxSocket : \A u \in Ids : s.place[u] # "none" <=> u <= k
    BY DEF Good
  <1>2. \A u \in Ids : t.place[u] # "none" <=> u <= k
    BY <1>1 DEF Keeps
  <1>3. \A p \in Peers : \A u \in t.peerRec[p] : u \in Ids /\ t.place[u] # "none"
    BY DEF Keeps, Good
  <1>4. \A l, u \in Ids : u \in t.sock[l].queued => t.place[u] # "none"
    BY DEF Keeps, Good
  <1>5. ASSUME NEW p \in Peers, NEW u \in t.peerRec[p], NEW v \in t.peerRec[p], u < v,
               t.place[u] = "open"
        PROVE  t.sock[u].broken = TRUE
    BY <1>3, <1>5 DEF Keeps, Good
  <1> QED
    BY <1>2, <1>3, <1>4, <1>5 DEF Good, Keeps

\* The invariant of what a handler passes on is that of the next state.
LEMMA GoodBecomes ==
  ASSUME NEW t, Good(t), Becomes(t)
  PROVE  Good(S)'
  <1>1. sock' = t.sock /\ place' = t.place /\ peerRec' = t.peerRec
    BY DEF Becomes
  <1>2. S' = [sock |-> sock', place |-> place', mux |-> mux', peerRec |-> peerRec']
    BY DEF S
  <1> DEFINE n == [sock |-> sock', place |-> place', mux |-> mux', peerRec |-> peerRec']
  <1>3. /\ DOMAIN n = {"sock", "place", "mux", "peerRec"}
        /\ n.sock = t.sock /\ n.place = t.place /\ n.peerRec = t.peerRec
    BY <1>1
  <1> HIDE DEF n
  <1>4. Good(n)
    BY <1>3 DEF Good, Shape
  <1> QED
    BY <1>2, <1>4 DEF n, Good, Shape, Ids, SockFields

\* newSocket and newConnection take an id above all those in use.
LEMMA NextIdFresh ==
  ASSUME Good(S)
  PROVE  /\ NextId \in Nat \ {0}
         /\ \A u \in Ids : place[u] # "none" <=> u < NextId
  <1>1. PICK k \in 0 .. MaxSocket : \A u \in Ids : place[u] # "none" <=> u <= k
    BY DEF Good, S
  <1>2. {u \in Ids : place[u] # "none"} = 1 .. k
    BY <1>1, SocketsAssumption DEF Ids
  <1>3. Cardinality(1 .. k) = k
    BY SocketsAssumption, FS_Interval
  <1>4. NextId = k + 1
    BY <1>2, <1>3 DEF NextId
  <1> QED
    BY <1>1, <1>4, SocketsAssumption DEF Ids

\* A non-empty set of ids has a newest one: the first of a std::set.
LEMMA NewestIsNewest ==
  ASSUME NEW T \in SUBSET Ids, T # {}
  PROVE  Newest(T) \in T /\ \A v \in T : Newest(T) >= v
  <1> DEFINE R == {n \in Nat : \E u \in T : n = MaxSocket - u}
  <1>1. R # {} /\ R \subseteq Nat
    <2>1. PICK u \in T : TRUE
      OBVIOUS
    <2>2. MaxSocket - u \in Nat
      BY SocketsAssumption DEF Ids
    <2> QED
      BY <2>1, <2>2
  <1>2. IsWellFoundedOn(OpToRel(<, Nat), Nat)
    BY NatLessThanWellFounded
  <1> HIDE DEF R
  <1>3. PICK n \in R : \A y \in R : ~(<<y, n>> \in OpToRel(<, Nat))
    BY <1>1, <1>2, WFMin, Zenon
  <1>4. \A y \in R : ~(y < n)
    BY <1>1, <1>3 DEF OpToRel
  <1>5. PICK u \in T : n = MaxSocket - u
    BY <1>3 DEF R
  <1>6. ASSUME NEW v \in T PROVE u >= v
    <2>1. MaxSocket - v \in R
      BY SocketsAssumption DEF Ids, R
    <2>2. ~(MaxSocket - v < n)
      BY <1>4, <2>1
    <2> QED
      BY <1>5, <2>2, SocketsAssumption DEF Ids
  <1> QED
    BY <1>6 DEF Newest

\* newConnection adds the newest socket of a peer whose others are broken.
LEMMA GoodConnection ==
  ASSUME NEW s, Good(s), NEW l, NEW p \in Peers, NEW u \in Ids,
         \A v \in Ids : s.place[v] # "none" <=> v < u,
         \A v \in s.peerRec[p] : s.place[v] = "open" => s.sock[v].broken = TRUE
  PROVE  Good(Connection(s, l, u, p))
  <1> DEFINE a == Opened(s, u)
             mx == s.sock[l].mux
             b == Joined(a, u, mx)
             made == Registered(b, u)
             t == [made EXCEPT !.place[u] = "open", !.sock[u].status = "CONNECTED",
                               !.sock[u].listener = l, !.sock[u].peer = p,
                               !.peerRec[p] = @ \cup {u},
                               !.sock[l].queued = @ \cup {u}]
  <1>1. Keeps(s, a) /\ Shape(a)
    BY KeepsOpened DEF Good, Keeps
  <1> HIDE DEF a, mx
  <1>2. Keeps(a, b) /\ Shape(b)
    BY <1>1, KeepsJoined DEF Keeps
  <1> HIDE DEF b
  <1>3. Keeps(b, made) /\ Shape(made)
    BY <1>2, KeepsRegistered DEF Keeps
  <1>4. Connection(s, l, u, p) = t
    BY DEF Connection, a, b, mx
  <1> HIDE DEF made
  <1>5. Keeps(s, made) /\ Good(made)
    BY <1>1, <1>2, <1>3, KeepsTransitive, GoodKept
  <1>6. /\ Shape(t)
        /\ t.place = [made.place EXCEPT ![u] = "open"]
        /\ t.peerRec = [made.peerRec EXCEPT ![p] = @ \cup {u}]
        /\ \A v \in Ids : t.sock[v].broken = made.sock[v].broken
        /\ \A v \in Ids : t.sock[v].queued \subseteq made.sock[v].queued \cup {u}
    <2>1. Shape(t)
      BY <1>3 DEF Shape, SockFields
    <2>2. /\ t.place = [made.place EXCEPT ![u] = "open"]
          /\ t.peerRec = [made.peerRec EXCEPT ![p] = @ \cup {u}]
      BY <1>3 DEF Shape
    <2>3. \A v \in Ids : t.sock[v].broken = made.sock[v].broken
      BY <1>3 DEF Shape, SockFields
    <2>4. \A v \in Ids : t.sock[v].queued \subseteq made.sock[v].queued \cup {u}
      BY <1>3 DEF Shape, SockFields
    <2> QED
      BY <2>1, <2>2, <2>3, <2>4
  <1> HIDE DEF t
  <1>7. \A v \in Ids : made.place[v] # "none" <=> v < u
    BY <1>5 DEF Keeps
  <1>8. u \in 0 .. MaxSocket /\ \A v \in Ids : t.place[v] # "none" <=> v <= u
    BY <1>3, <1>6, <1>7, SocketsAssumption DEF Ids, Shape
  <1>9. \A q \in Peers : \A v \in t.peerRec[q] : v \in Ids /\ t.place[v] # "none"
    BY <1>3, <1>5, <1>6 DEF Good, Shape
  <1>10. ASSUME NEW k \in Ids, NEW v \in Ids, v \in t.sock[k].queued PROVE t.place[v] # "none"
    <2>1. v = u \/ v \in made.sock[k].queued
      BY <1>6, <1>10
    <2>2. v \in made.sock[k].queued => made.place[v] # "none"
      BY <1>5 DEF Good
    <2> QED
      BY <1>3, <1>6, <2>1, <2>2 DEF Shape
  <1>11. ASSUME NEW q \in Peers, NEW v \in t.peerRec[q], NEW w \in t.peerRec[q], v < w,
                t.place[v] = "open"
         PROVE  t.sock[v].broken = TRUE
    <2>1. v \in Ids /\ w \in Ids /\ v # u
      <3>1. v \in Ids /\ w \in Ids /\ t.place[w] # "none"
        BY <1>9
      <3> QED
        BY <1>8, <1>11, <3>1 DEF Ids
    <2>2. v \in made.peerRec[q] /\ made.place[v] = "open"
      BY <1>3, <1>6, <1>11, <2>1 DEF Shape
    <2>3. CASE w \in made.peerRec[q]
      BY <1>5, <1>6, <1>11, <2>1, <2>2, <2>3 DEF Good
    <2>4. CASE w \notin made.peerRec[q]
      <3>1. q = p
        BY <1>3, <1>6, <2>4 DEF Shape
      <3> QED
        BY <1>5, <1>6, <2>1, <2>2, <3>1 DEF Keeps
    <2> QED
      BY <2>3, <2>4
  <1>12. \E k \in 0 .. MaxSocket : \A v \in Ids : t.place[v] # "none" <=> v <= k
    BY <1>8
  <1>13. Shape(t)
    BY <1>6
  <1> QED
    BY <1>4, <1>9, <1>10, <1>11, <1>12, <1>13 DEF Good

\* A request: if the newest connection of the peer is broken, all of them are.
LEMMA RequestGood ==
  ASSUME Good(S), NEW m, NEW p \in Peers, Request(m, p)
  PROVE  Good(S)'
  <1> DEFINE l == mux[m].listener
             old == FromPeer(p)
             o == Newest(old)
             cleared == IF old = {} THEN S
                        ELSE Dequeued([S EXCEPT !.sock[o].status = "CLOSED", !.sock[o].old = FALSE], l, o)
  <1>1. /\ old # {} => sock[o].broken
        /\ IF Cardinality(cleared.sock[l].queued) >= BackLog THEN Becomes(cleared)
           ELSE NextId \in Ids /\ Becomes(Connection(cleared, l, NextId, p))
    BY DEF Request, Stale
  <1>2. old \in SUBSET Ids
    BY DEF Good, S, FromPeer
  <1>3. Keeps(S, cleared)
    <2>1. CASE old = {}
      BY <2>1, KeepsSame DEF Good
    <2>2. CASE old # {}
      <3> DEFINE a == [S EXCEPT !.sock[o].status = "CLOSED", !.sock[o].old = FALSE]
      <3>1. Keeps(S, a) /\ Shape(a)
        BY DEF Good, Keeps, Shape, SockFields
      <3>2. cleared = Dequeued(a, l, o)
        BY <2>2
      <3> HIDE DEF a
      <3> QED
        BY <3>1, <3>2, KeepsDequeued, KeepsTransitive
    <2> QED
      BY <2>1, <2>2
  <1>4. \A v \in cleared.peerRec[p] : cleared.place[v] = "open" => cleared.sock[v].broken = TRUE
    <2> SUFFICES ASSUME NEW v \in cleared.peerRec[p], cleared.place[v] = "open"
                 PROVE  cleared.sock[v].broken = TRUE
      OBVIOUS
    <2>1. v \in peerRec[p] /\ v \in Ids
      BY <1>3 DEF Keeps, Good, S
    <2>2. place[v] = "open" /\ (sock[v].broken = TRUE => cleared.sock[v].broken = TRUE)
      BY <1>3, <2>1 DEF Keeps, S
    <2>3. v \in old
      BY <2>1, <2>2 DEF FromPeer
    <2>4. o \in old /\ o >= v
      BY <1>2, <2>3, NewestIsNewest
    <2>5. sock[v].broken = TRUE
      <3>1. o \in peerRec[p] /\ o \in Ids
        BY <2>4, <1>2 DEF FromPeer
      <3> HIDE DEF o, old, cleared
      <3>4. o \in Int /\ v \in Int
        BY <2>1, <3>1, SocketsAssumption DEF Ids
      <3>2. CASE o = v
        BY <1>1, <2>3, <3>2
      <3>3. CASE v < o
        BY <2>1, <2>2, <3>1, <3>3 DEF Good, S
      <3>5. o = v \/ v < o
        BY <2>4, <3>4
      <3> QED
        BY <3>2, <3>3, <3>5
    <2> QED
      BY <2>2, <2>5
  <1> HIDE DEF cleared, l
  <1>5. Good(cleared)
    BY <1>3, GoodKept
  <1>6. CASE Becomes(cleared)
    BY <1>5, <1>6, GoodBecomes
  <1>7. CASE NextId \in Ids /\ Becomes(Connection(cleared, l, NextId, p))
    <2>1. \A v \in Ids : cleared.place[v] # "none" <=> v < NextId
      BY <1>3, NextIdFresh DEF Keeps, S
    <2>2. Good(Connection(cleared, l, NextId, p))
      BY <1>4, <1>5, <1>7, <2>1, GoodConnection
    <2> QED
      BY <1>7, <2>2, GoodBecomes
  <1> QED
    BY <1>1, <1>6, <1>7

\* A step that consists of such handlers.
LEMMA KeptBecomes ==
  ASSUME Good(S), NEW t, Keeps(S, t), Becomes(t)
  PROVE  Good(S)'
  BY GoodKept, GoodBecomes

\* newSocket: no peer knows the new id.
LEMMA NewSocketGood ==
  ASSUME Good(S), NewSocket
  PROVE  Good(S)'
  <1> DEFINE n == NextId
             t == [S EXCEPT !.place[n] = "open"]
  <1>1. n \in Ids /\ Becomes(t)
    BY NextIdFresh, SocketsAssumption DEF NewSocket, Ids
  <1>2. \A u \in Ids : place[u] # "none" <=> u < n
    BY NextIdFresh
  <1> HIDE DEF n
  <1>3. /\ Shape(t) /\ t.sock = sock /\ t.peerRec = peerRec
        /\ t.place = [place EXCEPT ![n] = "open"] /\ DOMAIN place = Ids
    BY DEF Good, Shape, S
  <1> HIDE DEF t
  <1>4. n \in 0 .. MaxSocket /\ \A u \in Ids : t.place[u] # "none" <=> u <= n
    BY <1>1, <1>2, <1>3, SocketsAssumption DEF Ids
  <1>5. \A p \in Peers : \A u \in peerRec[p] : u \in Ids /\ place[u] # "none" /\ u # n
    <2>1. \A p \in Peers : \A u \in peerRec[p] : u \in Ids /\ place[u] # "none"
      BY DEF Good, S
    <2>2. place[n] = "none"
      BY <1>1, <1>2 DEF Ids
    <2> QED
      BY <2>1, <2>2
  <1>6. \A p \in Peers : \A u \in t.peerRec[p] : u \in Ids /\ t.place[u] # "none"
    BY <1>3, <1>5
  <1>7. \A l, u \in Ids : u \in t.sock[l].queued => t.place[u] # "none"
    BY <1>3 DEF Good, S
  <1>8. \A p \in Peers : \A u, v \in t.peerRec[p] :
          u < v /\ t.place[u] = "open" => t.sock[u].broken = TRUE
    BY <1>3, <1>5 DEF Good, S
  <1>9. Good(t)
    BY <1>3, <1>4, <1>6, <1>7, <1>8 DEF Good
  <1> QED
    BY <1>1, <1>9, GoodBecomes

\* The calls of the application.
LEMMA CallsGood ==
  ASSUME Good(S), NEW u \in Ids,
         \/ \E port \in Ports : Bind(u, port)
         \/ Listen(u) \/ Accept(u) \/ Connect(u) \/ ConnectFails(u) \/ Close(u)
  PROVE  Good(S)'
  <1>1. Shape(S)
    BY DEF Good
  <1>2. ASSUME NEW port, Bind(u, port) PROVE Good(S)'
    <2> DEFINE a == Opened(S, u)
               t == UpdateMux(a, u, port)
    <2>1. Keeps(S, a) /\ Shape(a)
      BY <1>1, KeepsOpened DEF Keeps
    <2> HIDE DEF a
    <2>2. Keeps(S, t)
      BY <2>1, KeepsUpdateMux, KeepsTransitive
    <2>3. Becomes(t)
      BY <1>2 DEF Bind, a
    <2> HIDE DEF t
    <2> QED
      BY <2>2, <2>3, KeptBecomes
  <1>3. CASE Listen(u)
    <2> DEFINE m == sock[u].mux
               queue == [S EXCEPT !.sock[u].hasQueue = TRUE, !.sock[u].uses = @ + 1]
               t == [queue EXCEPT !.sock[u].status = "LISTENING", !.sock[u].listening = TRUE,
                                  !.mux[m].listener = u]
    <2>1. Keeps(S, queue) /\ Shape(queue)
      BY <1>1 DEF Keeps, Shape, SockFields
    <2>2. Becomes(queue) \/ Becomes(t)
      BY <1>3 DEF Listen
    <2> HIDE DEF queue, m
    <2>3. Keeps(queue, t)
      BY <2>1 DEF Keeps, Shape, SockFields
    <2> HIDE DEF t
    <2> QED
      BY <2>1, <2>2, <2>3, KeepsTransitive, KeptBecomes
  <1>4. CASE Accept(u)
    <2> DEFINE v == Newest(sock[u].queued)
               t == [S EXCEPT !.sock[u].queued = @ \ {v}, !.sock[u].accepted = @ \cup {v}]
    <2>1. Becomes(t)
      BY <1>4 DEF Accept
    <2> HIDE DEF v
    <2>2. Keeps(S, t)
      BY <1>1 DEF Keeps, Shape, SockFields
    <2> HIDE DEF t
    <2> QED
      BY <2>1, <2>2, KeptBecomes
  <1>5. CASE Connect(u)
    <2> DEFINE a == Opened(S, u)
               ready == IF sock[u].status = "INIT" THEN UpdateMux(Opened(S, u), u, -u) ELSE S
               m == ready.sock[u].mux
               t == [ready EXCEPT !.sock[u].status = "CONNECTING", !.sock[u].connecting = TRUE,
                                  !.sock[u].uses = @ + 1, !.mux[m].rdv[u] = @ + 1]
    <2>1. Keeps(S, a) /\ Shape(a)
      BY <1>1, KeepsOpened DEF Keeps
    <2> HIDE DEF a
    <2> DEFINE port == -u
    <2> HIDE DEF port
    <2>2. Keeps(S, UpdateMux(a, u, port))
      BY <2>1, KeepsUpdateMux, KeepsTransitive
    <2>3. Keeps(S, S)
      BY <1>1, KeepsSame
    <2>4. ready = UpdateMux(a, u, port) \/ ready = S
      BY DEF a, port
    <2>5. Becomes(t)
      BY <1>5 DEF Connect
    <2> HIDE DEF ready, m
    <2>6. Keeps(S, ready) /\ Shape(ready)
      BY <2>2, <2>3, <2>4 DEF Keeps
    <2>7. Keeps(ready, t)
      BY <2>6 DEF Keeps, Shape, SockFields
    <2> HIDE DEF t
    <2> QED
      BY <2>5, <2>6, <2>7, KeepsTransitive, KeptBecomes
  <1>6. CASE ConnectFails(u)
    <2> DEFINE t == [S EXCEPT !.sock[u].status = "OPENED"]
    <2>1. Becomes(t)
      BY <1>6 DEF ConnectFails
    <2>2. Keeps(S, t)
      BY <1>1 DEF Keeps, Shape, SockFields
    <2> HIDE DEF t
    <2> QED
      BY <2>1, <2>2, KeptBecomes
  <1>7. CASE Close(u)
    <2> DEFINE a == Shut(S, {u})
               b == [S EXCEPT !.sock[u].lingering = TRUE]
               c == [S EXCEPT !.sock[u].broken = TRUE, !.sock[u].old = FALSE]
    <2>1. Becomes(c) \/ Becomes(ToClosed(a, {u})) \/ Becomes(ToClosed(b, {u}))
      BY <1>7 DEF Close
    <2>2. place[u] = "open"
      BY <1>7 DEF Close, Located
    <2>3. Keeps(S, a) /\ Shape(a)
      BY <1>1, KeepsShut DEF Keeps
    <2>4. Keeps(S, b) /\ Shape(b)
      BY <1>1 DEF Keeps, Shape, SockFields
    <2>5. Keeps(S, c)
      BY <1>1 DEF Keeps, Shape, SockFields
    <2> HIDE DEF a, b, c
    <2>6. a.place[u] # "none" /\ b.place[u] # "none"
      BY <2>2, <2>3, <2>4 DEF Keeps, S
    <2>7. Keeps(S, ToClosed(a, {u})) /\ Keeps(S, ToClosed(b, {u}))
      BY <2>3, <2>4, <2>6, KeepsToClosed, KeepsTransitive
    <2> QED
      BY <2>1, <2>5, <2>7, KeptBecomes
  <1> QED
    BY <1>2, <1>3, <1>4, <1>5, <1>6, <1>7

\* The receive worker, apart from requests, and the delays.
LEMMA WorkerGood ==
  ASSUME Good(S), NEW m, NEW u \in Ids,
         Response(m, u) \/ TtlExpired(m, u) \/ TakeNewEntries(m) \/ TimerCheck(m, u) \/ Break(u)
         \/ Aging(u)
  PROVE  Good(S)'
  <1>1. Shape(S)
    BY DEF Good
  <1>2. CASE Response(m, u)
    <2> DEFINE a == Unregistered(S, {u})
               done == Registered(a, u)
               t == [done EXCEPT !.sock[u].status = "CONNECTED"]
    <2>1. Keeps(S, a) /\ Shape(a)
      BY <1>1, KeepsUnregistered DEF Keeps
    <2>2. Becomes(t) \/ Becomes(done)
      BY <1>2 DEF Response
    <2> HIDE DEF a
    <2>3. Keeps(S, done) /\ Shape(done)
      BY <2>1, KeepsRegistered, KeepsTransitive DEF Keeps
    <2> HIDE DEF done
    <2>4. Keeps(done, t)
      BY <2>3 DEF Keeps, Shape, SockFields
    <2> HIDE DEF t
    <2> QED
      BY <2>2, <2>3, <2>4, KeepsTransitive, KeptBecomes
  <1>3. CASE TtlExpired(m, u)
    <2> DEFINE t == [S EXCEPT !.sock[u].connecting = FALSE]
    <2>1. Becomes(t) /\ Keeps(S, t)
      BY <1>1, <1>3 DEF TtlExpired, Keeps, Shape, SockFields
    <2> HIDE DEF t
    <2> QED
      BY <2>1, KeptBecomes
  <1>4. CASE TakeNewEntries(m)
    <2> DEFINE t == [S EXCEPT !.mux[m].list = @ \cup mux[m].fresh, !.mux[m].fresh = {}]
    <2>1. Becomes(t) /\ Keeps(S, t)
      BY <1>1, <1>4 DEF TakeNewEntries, Keeps, Shape
    <2> HIDE DEF t
    <2> QED
      BY <2>1, KeptBecomes
  <1>5. CASE TimerCheck(m, u)
    <2> DEFINE t == Unlisted(m, u)
    <2>1. Becomes(t) /\ Keeps(S, t)
      BY <1>1, <1>5 DEF TimerCheck, Unlisted, Keeps, Shape, SockFields
    <2> HIDE DEF t
    <2> QED
      BY <2>1, KeptBecomes
  <1>6. CASE Break(u)
    <2> DEFINE t == [S EXCEPT !.sock[u].broken = TRUE, !.sock[u].closing = TRUE]
    <2>1. Becomes(t) /\ Keeps(S, t)
      BY <1>1, <1>6 DEF Break, Keeps, Shape, SockFields
    <2> HIDE DEF t
    <2> QED
      BY <2>1, KeptBecomes
  <1>7. CASE Aging(u)
    <2> DEFINE t == [S EXCEPT !.sock[u].old = TRUE]
    <2>1. Becomes(t) /\ Keeps(S, t)
      BY <1>1, <1>7 DEF Aging, Keeps, Shape, SockFields
    <2> HIDE DEF t
    <2> QED
      BY <2>1, KeptBecomes
  <1> QED
    BY <1>2, <1>3, <1>4, <1>5, <1>6, <1>7

\* The garbage collector.
LEMMA CollectorGood ==
  ASSUME Good(S), NEW wait, NEW linger, CheckBrokenSockets(wait, linger)
  PROVE  Good(S)'
  <1> DEFINE dead == {u \in Ids : /\ place[u] = "open" /\ sock[u].broken
                                  /\ sock[u].status = "LISTENING" => sock[u].old} \ wait
             removed == {u \in Ids : place[u] = "closed" /\ sock[u].old /\ ~sock[u].onList} \ linger
             a == Collected(S, dead)
             b == LingerOver(a, linger)
             c == Orphaned(b, removed)
             d == RemoveSocket(c, removed)
  <1>1. Becomes(d)
    BY DEF CheckBrokenSockets
  <1>2. /\ \A u \in dead \cap Ids : S.place[u] # "none"
        /\ \A u \in removed : u \in Ids /\ S.place[u] # "none"
    BY DEF S
  <1> HIDE DEF dead, removed
  <1>3. Keeps(S, a) /\ Shape(a)
    BY <1>2, KeepsCollected DEF Good, Keeps
  <1> HIDE DEF a
  <1>4. Keeps(S, b) /\ Shape(b)
    BY <1>3, KeepsLingerOver, KeepsTransitive DEF Keeps
  <1> HIDE DEF b
  <1>5. \A l \in removed, u \in Ids : u \in b.sock[l].queued => b.place[u] # "none"
    BY <1>2, <1>4, GoodKept DEF Good
  <1>6. Keeps(S, c) /\ Shape(c)
    BY <1>4, <1>5, KeepsOrphaned, KeepsTransitive DEF Keeps
  <1> HIDE DEF c
  <1>7. \A u \in removed \cap Ids : c.place[u] # "none"
    BY <1>2, <1>6 DEF Keeps
  <1>8. Keeps(S, d)
    BY <1>6, <1>7, KeepsRemoveSocket, KeepsTransitive
  <1> HIDE DEF d
  <1> QED
    BY <1>1, <1>8, KeptBecomes

\* cleanup().
LEMMA CleanupGood ==
  ASSUME Good(S), Cleanup
  PROVE  Good(S)'
  <1> DEFINE open == {u \in Ids : place[u] = "open"}
             break(k) == [k EXCEPT !.broken = TRUE]
             a == Each(S, open, break)
             b == Shut(a, open)
             c == Collected(b, open)
  <1>1. /\ sock' = [u \in Ids |-> [c.sock[u] EXCEPT !.old = c.place[u] = "closed"]]
        /\ place' = c.place /\ peerRec' = c.peerRec
    BY DEF Cleanup
  <1>2. \A u \in open \cap Ids : S.place[u] # "none"
    BY DEF S
  <1> HIDE DEF open
  <1>3. Keeps(S, a) /\ Shape(a)
    BY KeepsBroken DEF Good, Keeps
  <1> HIDE DEF a
  <1>4. Keeps(S, b) /\ Shape(b)
    BY <1>3, KeepsShut, KeepsTransitive DEF Keeps
  <1> HIDE DEF b
  <1>5. \A u \in open \cap Ids : b.place[u] # "none"
    BY <1>2, <1>4 DEF Keeps
  <1>6. Keeps(S, c)
    BY <1>4, <1>5, KeepsCollected, KeepsTransitive
  <1> HIDE DEF c
  <1> DEFINE t == [sock |-> sock', place |-> place', mux |-> mux', peerRec |-> peerRec']
  <1>7. Keeps(c, t)
    BY <1>1, <1>6 DEF Keeps, Shape, SockFields
  <1>8. Good(t)
    BY <1>6, <1>7, GoodKept
  <1> QED
    BY <1>8 DEF S, Good, Shape, Ids, SockFields

\* startup().
LEMMA GoodInit == SocketsInit => Good(S)
  <1> SUFFICES ASSUME SocketsInit PROVE Good(S)
    OBVIOUS
  <1>1. Shape(S)
    BY DEF SocketsInit, S, Shape, NoSocket, SockFields
  <1>2. 0 \in 0 .. MaxSocket /\ \A u \in Ids : S.place[u] # "none" <=> u <= 0
    BY SocketsAssumption DEF SocketsInit, S, Ids
  <1>3. \A l \in Ids : S.sock[l].queued = {}
    BY DEF SocketsInit, S, NoSocket
  <1>4. \A p \in Peers : S.peerRec[p] = {}
    BY DEF SocketsInit, S
  <1> QED
    BY <1>1, <1>2, <1>3, <1>4 DEF Good

\* Every step keeps the invariant.
LEMMA GoodNext == Good(S) /\ [SocketsNext]_socketVars => Good(S)'
  <1> SUFFICES ASSUME Good(S), [SocketsNext]_socketVars PROVE Good(S)'
    OBVIOUS
  <1>1. CASE App
    BY <1>1, NewSocketGood, CallsGood, CleanupGood DEF App
  <1>2. CASE Worker
    <2>1. 1 \in Ids
      BY SocketsAssumption DEF Ids
    <2> QED
      BY <1>2, <2>1, RequestGood, WorkerGood DEF Worker
  <1>3. CASE Gc
    BY <1>3, CollectorGood DEF Gc
  <1>4. ASSUME NEW u \in Ids, Aging(u) PROVE Good(S)'
    BY <1>4, WorkerGood
  <1>5. CASE UNCHANGED socketVars
    BY <1>5 DEF socketVars, Good, Shape, S, Ids, SockFields
  <1> QED
    BY <1>1, <1>2, <1>3, <1>4, <1>5 DEF SocketsNext

\* However often a request arrives, is repeated or comes late, and whatever breaks, is
\* closed or is collected meanwhile: newConnection gives a peer at most one live
\* connection, for any number of sockets, listeners, ports and peers.
THEOREM OneLiveConnectionPerPeer == SocketsSpec => []OneConnectionPerPeer
  <1>1. Good(S) /\ [SocketsNext]_socketVars => Good(S)'
    BY GoodNext
  <1>2. Good(S) => OneConnectionPerPeer
    <2> SUFFICES ASSUME Good(S), NEW p \in Peers
                 PROVE  Cardinality({u \in FromPeer(p) : ~sock[u].broken}) <= 1
      BY DEF OneConnectionPerPeer
    <2> DEFINE T == {u \in FromPeer(p) : ~sock[u].broken}
    <2>1. \A u, v \in T : u = v
      <3> SUFFICES ASSUME NEW u \in T, NEW v \in T, u # v PROVE FALSE
        OBVIOUS
      <3>1. /\ u \in peerRec[p] /\ v \in peerRec[p] /\ place[u] = "open" /\ place[v] = "open"
            /\ ~sock[u].broken /\ ~sock[v].broken
        BY DEF FromPeer
      <3>2. u \in Ids /\ v \in Ids
        BY <3>1 DEF Good, S
      <3>3. u < v \/ v < u
        BY <3>2, SocketsAssumption DEF Ids
      <3> QED
        BY <3>1, <3>3 DEF Good, S
    <2> HIDE DEF T
    <2>2. CASE T = {}
      BY <2>2, FS_EmptySet DEF T
    <2>3. CASE T # {}
      <3>1. PICK u : T = {u}
        BY <2>1, <2>3
      <3>2. Cardinality(T) = 1
        BY <3>1, FS_Singleton
      <3> QED
        BY <3>2 DEF T
    <2> QED
      BY <2>2, <2>3
  <1> QED
    BY <1>1, <1>2, GoodInit, PTL DEF SocketsSpec

-----------------------------------------------------------------------------
(* The pointers of the socket table.  Core is what holds of sockets and      *)
(* multiplexers between the operators a handler consists of; X holds the     *)
(* sockets that CUDT::close has shut and that are still in m_Sockets.        *)

MuxFields == {"port", "refs", "listener", "rdv", "fresh", "list"}

\* The form of the multiplexers.
MuxShape(s) ==
  \A m \in DOMAIN s.mux :
    /\ m \in Ids /\ DOMAIN s.mux[m] = MuxFields
    /\ DOMAIN s.mux[m].rdv = Ids /\ \A u \in Ids : s.mux[m].rdv[u] \in Nat

\* In m_Sockets or m_ClosedSockets.
Alive(s, u) == s.place[u] \in {"open", "closed"}

\* The sockets that m_iRefCount of a multiplexer counts.
Users(s, m) == {u \in Ids : Alive(s, u) /\ s.sock[u].mux = m}

\* A socket not yet made or freed holds nothing.
EmptyOk(s) ==
  \A u \in Ids : ~Alive(s, u) => /\ s.sock[u].mux = Nobody /\ s.sock[u].connecting # TRUE
                                 /\ s.sock[u].queued = {} /\ s.sock[u].status = "INIT"

\* A multiplexer has the id of the socket it was made for, which has left INIT.
MuxIdsOk(s) ==
  \A m \in DOMAIN s.mux : s.place[m] # "none" /\ (s.place[m] = "open" => s.sock[m].status # "INIT")

\* Multiplexers stay as long as they are used, and count their users.
RefsOk(s) ==
  /\ \A u \in Ids : s.sock[u].mux # Nobody => s.sock[u].mux \in DOMAIN s.mux
  /\ \A m \in DOMAIN s.mux : s.mux[m].refs = Cardinality(Users(s, m))

\* m_pListener is a listening socket of this multiplexer.
Hears(s, m, l) == /\ l \in Ids /\ Alive(s, l) /\ s.sock[l].mux = m
                  /\ s.sock[l].opened = TRUE /\ s.sock[l].listening = TRUE

ListenerOk(s) ==
  \A m \in DOMAIN s.mux : s.mux[m].listener # Nobody => Hears(s, m, s.mux[m].listener)

\* What the worker has on its list, or will have, says so (m_bOnList).  A socket on the
\* list does not connect again.
Listed(s, X, m, u) == /\ u \in Ids /\ Alive(s, u) /\ s.sock[u].mux = m
                      /\ s.sock[u].onList = TRUE /\ s.sock[u].connecting # TRUE
                      /\ s.place[u] = "open" /\ u \notin X => s.sock[u].connected = TRUE

ListsOk(s, X) ==
  \A m \in DOMAIN s.mux :
    /\ s.mux[m].list \cap s.mux[m].fresh = {}
    /\ \A u \in s.mux[m].list \cup s.mux[m].fresh : Listed(s, X, m, u)

\* The entry of the only call of connect() goes when the socket is shut.
Entered(s, m, u) == /\ Alive(s, u) /\ s.sock[u].mux = m
                    /\ s.sock[u].opened = TRUE /\ s.sock[u].listening # TRUE

RdvOk(s) ==
  \A m \in DOMAIN s.mux : \A u \in Ids :
    /\ s.mux[m].rdv[u] <= s.sock[u].uses
    /\ s.mux[m].rdv[u] > 0 /\ s.sock[u].uses <= 1 => Entered(s, m, u)

\* What the status of a socket says.
Consistent(s, X, u) ==
  /\ s.sock[u].uses \in Nat
  /\ s.sock[u].status = "INIT" => s.sock[u].mux = Nobody
  /\ s.place[u] = "open" /\ s.sock[u].status # "INIT" =>
       s.sock[u].mux # Nobody /\ (u \notin X => s.sock[u].opened = TRUE)
  /\ s.sock[u].status \in {"INIT", "OPENED", "CONNECTING"} => s.sock[u].listening # TRUE
  /\ s.sock[u].connecting = TRUE => s.sock[u].mux # Nobody

StatusOk(s, X) == \A u \in Ids : Consistent(s, X, u)

\* newConnection records a socket when it is connected.
PeersOk(s) == \A p \in Peers : \A u \in s.peerRec[p] : u \in Ids /\ s.sock[u].status # "INIT"

Core(s, X) == /\ Shape(s) /\ MuxShape(s) /\ EmptyOk(s) /\ MuxIdsOk(s) /\ RefsOk(s) /\ ListenerOk(s)
              /\ ListsOk(s, X) /\ RdvOk(s) /\ StatusOk(s, X) /\ PeersOk(s)

\* What waits to be accepted is open and knows its listener; X holds listeners about to go.
QueuesOk(s, X) ==
  \A l \in Ids \ X : \A u \in s.sock[l].queued :
    u \in Ids /\ s.place[u] = "open" /\ s.sock[u].listener = l

\* The users of a multiplexer, when sockets neither come, go nor move.
LEMMA SameUsers ==
  ASSUME NEW s, NEW t, NEW m,
         \A u \in Ids : (Alive(t, u) <=> Alive(s, u)) /\ t.sock[u].mux = s.sock[u].mux
  PROVE  Users(t, m) = Users(s, m)
  BY DEF Users

\* A step that changes none of what Core reads, except that sockets leave queues.
Still(s, t) ==
  /\ Shape(t) /\ t.place = s.place /\ t.mux = s.mux /\ t.peerRec = s.peerRec
  /\ \A u \in Ids :
       /\ t.sock[u].status = s.sock[u].status /\ t.sock[u].opened = s.sock[u].opened
       /\ t.sock[u].listening = s.sock[u].listening /\ t.sock[u].connecting = s.sock[u].connecting
       /\ t.sock[u].connected = s.sock[u].connected /\ t.sock[u].onList = s.sock[u].onList
       /\ t.sock[u].mux = s.sock[u].mux /\ t.sock[u].listener = s.sock[u].listener
       /\ t.sock[u].uses = s.sock[u].uses /\ t.sock[u].queued \subseteq s.sock[u].queued

\* Such a step keeps Core and the queues.
LEMMA StillCore ==
  ASSUME NEW s, NEW t, NEW X, Core(s, X), Still(s, t)
  PROVE  Core(t, X) /\ (QueuesOk(s, X) => QueuesOk(t, X))
  <1>1. Shape(t) /\ MuxShape(t)
    BY DEF Core, Still, MuxShape
  <1>2. EmptyOk(t) /\ MuxIdsOk(t)
    <2>1. EmptyOk(t)
      <3>1. EmptyOk(s)
        BY DEF Core
      <3>2. \A u \in Ids : /\ t.place[u] = s.place[u] /\ t.sock[u].mux = s.sock[u].mux
                           /\ t.sock[u].connecting = s.sock[u].connecting
                           /\ t.sock[u].status = s.sock[u].status
                           /\ t.sock[u].queued \subseteq s.sock[u].queued
        BY DEF Still
      <3> QED
        BY <3>1, <3>2 DEF EmptyOk, Alive
    <2>2. MuxIdsOk(t)
      BY DEF Core, Still, MuxIdsOk, MuxShape
    <2> QED
      BY <2>1, <2>2
  <1>3. RefsOk(t)
    <2>1. \A m : Users(t, m) = Users(s, m)
      BY SameUsers DEF Still, Alive
    <2> QED
      BY <2>1 DEF Core, Still, RefsOk
  <1>9. DOMAIN t.mux = DOMAIN s.mux /\ \A m \in DOMAIN s.mux : t.mux[m] = s.mux[m]
    BY DEF Still
  <1>4. ListenerOk(t)
    <2>1. \A m, l : Hears(s, m, l) => Hears(t, m, l)
      BY DEF Still, Hears, Alive
    <2> QED
      BY <1>9, <2>1 DEF Core, ListenerOk
  <1>5. ListsOk(t, X)
    <2>1. \A m, u : Listed(s, X, m, u) => Listed(t, X, m, u)
      BY DEF Still, Listed, Alive
    <2> QED
      BY <1>9, <2>1 DEF Core, ListsOk
  <1>6. RdvOk(t)
    <2>1. \A m : \A u \in Ids : Entered(s, m, u) => Entered(t, m, u)
      BY DEF Still, Entered, Alive
    <2>2. \A u \in Ids : t.sock[u].uses = s.sock[u].uses
      BY DEF Still
    <2> QED
      BY <1>9, <2>1, <2>2 DEF Core, RdvOk
  <1>7. StatusOk(t, X) /\ PeersOk(t)
    <2>1. \A u \in Ids : Consistent(s, X, u) => Consistent(t, X, u)
      BY DEF Still, Consistent
    <2>2. StatusOk(t, X)
      BY <2>1 DEF Core, StatusOk
    <2>3. PeersOk(t)
      BY DEF Core, Still, PeersOk
    <2> QED
      BY <2>2, <2>3
  <1>8. QueuesOk(s, X) => QueuesOk(t, X)
    BY DEF Still, QueuesOk
  <1> QED
    BY <1>1, <1>2, <1>3, <1>4, <1>5, <1>6, <1>7, <1>8 DEF Core

\* What CUDT::close does to the sockets U: those that are opened are shut, a listener
\* leaves its multiplexer, another one loses an entry of the rendezvous queue.
ShutTo(s, U, t) ==
  /\ Shape(t) /\ t.place = s.place /\ t.peerRec = s.peerRec
  /\ \A u \in Ids :
       /\ t.sock[u].status = s.sock[u].status
       /\ t.sock[u].connecting = s.sock[u].connecting
       /\ t.sock[u].onList = s.sock[u].onList
       /\ t.sock[u].mux = s.sock[u].mux /\ t.sock[u].listener = s.sock[u].listener
       /\ t.sock[u].uses = s.sock[u].uses /\ t.sock[u].queued = s.sock[u].queued
       /\ u \in U => t.sock[u].opened # TRUE
       /\ u \notin U => /\ t.sock[u].opened = s.sock[u].opened
                        /\ t.sock[u].connected = s.sock[u].connected
       /\ t.sock[u].opened = TRUE => t.sock[u].listening = s.sock[u].listening
       /\ t.sock[u].listening = TRUE => s.sock[u].listening = TRUE
  /\ DOMAIN t.mux = DOMAIN s.mux
  /\ \A m \in DOMAIN s.mux :
       /\ DOMAIN t.mux[m] = MuxFields /\ t.mux[m].refs = s.mux[m].refs
       /\ t.mux[m].fresh = s.mux[m].fresh /\ t.mux[m].list = s.mux[m].list
       /\ t.mux[m].listener = IF /\ s.mux[m].listener \in U
                                 /\ s.sock[s.mux[m].listener].opened = TRUE
                                 /\ s.sock[s.mux[m].listener].listening = TRUE
                              THEN Nobody ELSE s.mux[m].listener
       /\ DOMAIN t.mux[m].rdv = Ids
       /\ \A u \in Ids :
            /\ t.mux[m].rdv[u] \in Nat /\ t.mux[m].rdv[u] <= s.mux[m].rdv[u]
            /\ u \in U /\ s.sock[u].opened = TRUE /\ s.sock[u].listening # TRUE
                 /\ s.sock[u].mux = m /\ s.mux[m].rdv[u] > 0 => t.mux[m].rdv[u] < s.mux[m].rdv[u]

\* That is what Shut does.
LEMMA ShutEffect ==
  ASSUME NEW s, Shape(s), MuxShape(s), NEW U, NEW t, t = Shut(s, U)
  PROVE  ShutTo(s, U, t)
  <1> DEFINE listeners == {u \in U : s.sock[u].opened /\ s.sock[u].listening}
             others == {u \in U : s.sock[u].opened /\ ~s.sock[u].listening}
             shut(k) == [k EXCEPT !.closing = TRUE, !.listening = FALSE, !.connected = FALSE,
                                  !.opened = FALSE]
             left(m) == IF s.mux[m].listener \in listeners THEN Nobody ELSE s.mux[m].listener
             deaf == [s EXCEPT !.mux = [m \in DOMAIN s.mux |-> [s.mux[m] EXCEPT !.listener = left(m)]]]
             a == Unregistered(deaf, others)
             W == listeners \cup others
  <1>1. t = Each(a, W, shut)
    BY DEF Shut
  <1>2. \A u : /\ u \in listeners <=> u \in U /\ s.sock[u].opened = TRUE /\ s.sock[u].listening = TRUE
               /\ u \in others <=> u \in U /\ s.sock[u].opened = TRUE /\ s.sock[u].listening # TRUE
               /\ u \in W <=> u \in U /\ s.sock[u].opened = TRUE
    OBVIOUS
  <1> HIDE DEF listeners, others, W
  <1>3. /\ Shape(deaf) /\ deaf.place = s.place /\ deaf.peerRec = s.peerRec /\ deaf.sock = s.sock
        /\ DOMAIN deaf.mux = DOMAIN s.mux
    BY DEF Shape
  <1>4. \A m \in DOMAIN s.mux :
          /\ DOMAIN deaf.mux[m] = MuxFields /\ deaf.mux[m].refs = s.mux[m].refs
          /\ deaf.mux[m].fresh = s.mux[m].fresh /\ deaf.mux[m].list = s.mux[m].list
          /\ deaf.mux[m].rdv = s.mux[m].rdv
          /\ deaf.mux[m].listener = IF s.mux[m].listener \in listeners THEN Nobody
                                    ELSE s.mux[m].listener
    BY DEF Shape, MuxShape, MuxFields
  <1> HIDE DEF deaf
  <1>5. /\ Shape(a) /\ a.place = s.place /\ a.peerRec = s.peerRec /\ a.sock = s.sock
        /\ DOMAIN a.mux = DOMAIN s.mux
    BY <1>3 DEF Shape, Unregistered
  <1>6. \A m \in DOMAIN s.mux :
          /\ DOMAIN a.mux[m] = MuxFields /\ a.mux[m].refs = s.mux[m].refs
          /\ a.mux[m].fresh = s.mux[m].fresh /\ a.mux[m].list = s.mux[m].list
          /\ a.mux[m].listener = deaf.mux[m].listener
    BY <1>3, <1>4 DEF Shape, Unregistered, MuxFields
  <1>18. \A m \in DOMAIN s.mux :
          /\ DOMAIN a.mux[m].rdv = Ids
          /\ \A u \in Ids : a.mux[m].rdv[u] =
               IF u \in others /\ s.mux[m].rdv[u] > 0 /\ s.sock[u].mux = m
               THEN s.mux[m].rdv[u] - 1 ELSE s.mux[m].rdv[u]
    BY <1>3, <1>4 DEF Shape, Unregistered, MuxFields
  <1> HIDE DEF a
  <1> DEFINE r == Each(a, W, shut)
  <1>19. Shape(r) /\ r.place = s.place /\ r.peerRec = s.peerRec /\ r.mux = a.mux
    BY <1>5 DEF Shape, Each, SockFields
  <1>20. \A u \in Ids : r.sock[u] = IF u \in W THEN shut(s.sock[u]) ELSE s.sock[u]
    BY <1>5 DEF Shape, Each
  <1>21. t = r
    BY <1>1
  <1> HIDE DEF r
  <1>7. Shape(t) /\ t.place = s.place /\ t.peerRec = s.peerRec /\ t.mux = a.mux
    BY <1>19, <1>21
  <1>8. \A u \in Ids : t.sock[u] = IF u \in W THEN shut(s.sock[u]) ELSE s.sock[u]
    BY <1>20, <1>21
  <1>9. \A u \in Ids : DOMAIN s.sock[u] = SockFields
    BY DEF Shape
  <1>10. \A u \in Ids :
           /\ t.sock[u].status = s.sock[u].status
           /\ t.sock[u].connecting = s.sock[u].connecting
           /\ t.sock[u].onList = s.sock[u].onList
           /\ t.sock[u].mux = s.sock[u].mux /\ t.sock[u].listener = s.sock[u].listener
           /\ t.sock[u].uses = s.sock[u].uses /\ t.sock[u].queued = s.sock[u].queued
    BY <1>8, <1>9 DEF SockFields
  <1>11. \A u \in Ids : IF u \in W
                        THEN t.sock[u].opened = FALSE /\ t.sock[u].listening = FALSE
                        ELSE /\ t.sock[u].opened = s.sock[u].opened
                             /\ t.sock[u].connected = s.sock[u].connected
                             /\ t.sock[u].listening = s.sock[u].listening
    BY <1>8, <1>9 DEF SockFields
  <1>12. \A u \in Ids :
           /\ u \in U => t.sock[u].opened # TRUE
           /\ u \notin U => /\ t.sock[u].opened = s.sock[u].opened
                            /\ t.sock[u].connected = s.sock[u].connected
           /\ t.sock[u].opened = TRUE => t.sock[u].listening = s.sock[u].listening
           /\ t.sock[u].listening = TRUE => s.sock[u].listening = TRUE
    BY <1>2, <1>11
  <1>17. \A m \in DOMAIN s.mux : t.mux[m] = a.mux[m]
    BY <1>7
  <1>13. ASSUME NEW m \in DOMAIN s.mux
         PROVE  t.mux[m].listener = IF /\ s.mux[m].listener \in U
                                       /\ s.sock[s.mux[m].listener].opened = TRUE
                                       /\ s.sock[s.mux[m].listener].listening = TRUE
                                    THEN Nobody ELSE s.mux[m].listener
    <2> DEFINE l == s.mux[m].listener
    <2>1. t.mux[m].listener = IF l \in listeners THEN Nobody ELSE l
      BY <1>4, <1>6, <1>17
    <2> HIDE DEF l
    <2>2. t.mux[m].listener = IF /\ l \in U /\ s.sock[l].opened = TRUE
                                 /\ s.sock[l].listening = TRUE
                              THEN Nobody ELSE l
      BY <1>2, <2>1
    <2> QED
      BY <2>2 DEF l
  <1>14. ASSUME NEW m \in DOMAIN s.mux
         PROVE  /\ DOMAIN t.mux[m].rdv = Ids
                /\ \A u \in Ids :
                     /\ t.mux[m].rdv[u] \in Nat /\ t.mux[m].rdv[u] <= s.mux[m].rdv[u]
                     /\ u \in U /\ s.sock[u].opened = TRUE /\ s.sock[u].listening # TRUE
                          /\ s.sock[u].mux = m /\ s.mux[m].rdv[u] > 0 =>
                             t.mux[m].rdv[u] < s.mux[m].rdv[u]
    <2>1. DOMAIN t.mux[m].rdv = Ids
      BY <1>17, <1>18
    <2>2. ASSUME NEW u \in Ids, NEW n, n = s.mux[m].rdv[u], NEW k, k = t.mux[m].rdv[u]
          PROVE  /\ k \in Nat /\ k <= n
                 /\ u \in U /\ s.sock[u].opened = TRUE /\ s.sock[u].listening # TRUE
                      /\ s.sock[u].mux = m /\ n > 0 => k < n
      <3>1. n \in Nat
        BY <2>2 DEF MuxShape
      <3>2. k = IF u \in others /\ n > 0 /\ s.sock[u].mux = m THEN n - 1 ELSE n
        BY <1>17, <1>18, <2>2
      <3>3. k \in Nat /\ k <= n /\ (u \in others /\ n > 0 /\ s.sock[u].mux = m => k < n)
        BY <3>1, <3>2
      <3> QED
        BY <1>2, <3>3
    <2> QED
      BY <2>1, <2>2
  <1>15. \A m \in DOMAIN s.mux :
           /\ DOMAIN t.mux[m] = MuxFields /\ t.mux[m].refs = s.mux[m].refs
           /\ t.mux[m].fresh = s.mux[m].fresh /\ t.mux[m].list = s.mux[m].list
    BY <1>6, <1>17
  <1>16. DOMAIN t.mux = DOMAIN s.mux
    BY <1>5, <1>7
  <1> QED
    BY <1>7, <1>10, <1>12, <1>13, <1>14, <1>15, <1>16 DEF ShutTo

\* CUDT::close leaves no listener and no entry of the only call of connect() behind.
LEMMA ShutCore ==
  ASSUME NEW s, Core(s, {}), NEW U, NEW t, t = Shut(s, U)
  PROVE  Core(t, U) /\ (\A X : QueuesOk(s, X) => QueuesOk(t, X))
  <1> ShutTo(s, U, t)
    BY ShutEffect DEF Core
  <1>1. /\ Shape(t) /\ t.place = s.place /\ t.peerRec = s.peerRec
        /\ \A u \in Ids :
             /\ t.sock[u].status = s.sock[u].status
             /\ t.sock[u].connecting = s.sock[u].connecting
             /\ t.sock[u].onList = s.sock[u].onList
             /\ t.sock[u].mux = s.sock[u].mux /\ t.sock[u].listener = s.sock[u].listener
             /\ t.sock[u].uses = s.sock[u].uses /\ t.sock[u].queued = s.sock[u].queued
        /\ DOMAIN t.mux = DOMAIN s.mux
    BY DEF ShutTo
  <1>2. \A u \in Ids :
          /\ u \in U => t.sock[u].opened # TRUE
          /\ u \notin U => /\ t.sock[u].opened = s.sock[u].opened
                           /\ t.sock[u].connected = s.sock[u].connected
          /\ t.sock[u].opened = TRUE => t.sock[u].listening = s.sock[u].listening
          /\ t.sock[u].listening = TRUE => s.sock[u].listening = TRUE
    BY DEF ShutTo
  <1>3. \A m \in DOMAIN s.mux :
          /\ DOMAIN t.mux[m] = MuxFields /\ t.mux[m].refs = s.mux[m].refs
          /\ t.mux[m].fresh = s.mux[m].fresh /\ t.mux[m].list = s.mux[m].list
    BY DEF ShutTo
  <1>4. \A m \in DOMAIN s.mux :
          t.mux[m].listener = IF /\ s.mux[m].listener \in U
                                 /\ s.sock[s.mux[m].listener].opened = TRUE
                                 /\ s.sock[s.mux[m].listener].listening = TRUE
                              THEN Nobody ELSE s.mux[m].listener
    BY DEF ShutTo
  <1>5. \A m \in DOMAIN s.mux :
          /\ DOMAIN t.mux[m].rdv = Ids
          /\ \A u \in Ids :
               /\ t.mux[m].rdv[u] \in Nat /\ t.mux[m].rdv[u] <= s.mux[m].rdv[u]
               /\ u \in U /\ s.sock[u].opened = TRUE /\ s.sock[u].listening # TRUE
                    /\ s.sock[u].mux = m /\ s.mux[m].rdv[u] > 0 =>
                       t.mux[m].rdv[u] < s.mux[m].rdv[u]
    BY DEF ShutTo
  <1>6. /\ MuxShape(s) /\ EmptyOk(s) /\ MuxIdsOk(s) /\ RefsOk(s) /\ ListenerOk(s)
        /\ ListsOk(s, {}) /\ RdvOk(s) /\ StatusOk(s, {}) /\ PeersOk(s)
    BY DEF Core
  <1>7. \A u : Alive(t, u) <=> Alive(s, u)
    BY <1>1 DEF Alive
  <1>8. MuxShape(t)
    BY <1>1, <1>3, <1>5, <1>6 DEF MuxShape
  <1>9. EmptyOk(t)
    BY <1>1, <1>6, <1>7 DEF EmptyOk
  <1>10. MuxIdsOk(t)
    BY <1>1, <1>6 DEF MuxIdsOk, MuxShape
  <1>11. RefsOk(t)
    <2>1. \A m : Users(t, m) = Users(s, m)
      BY <1>1, <1>7, SameUsers
    <2> QED
      BY <1>1, <1>3, <1>6, <2>1 DEF RefsOk
  <1>12. ListenerOk(t)
    <2> SUFFICES ASSUME NEW m \in DOMAIN s.mux, NEW l, l = t.mux[m].listener, l # Nobody
                 PROVE  Hears(t, m, l)
      BY <1>1 DEF ListenerOk
    <2>1. l = s.mux[m].listener
      BY <1>4
    <2>2. Hears(s, m, l)
      BY <1>6, <2>1 DEF ListenerOk
    <2>3. l \notin U
      BY <1>4, <2>1, <2>2 DEF Hears
    <2> QED
      BY <1>1, <1>2, <1>7, <2>2, <2>3 DEF Hears
  <1>13. ListsOk(t, U)
    <2>1. \A m, u : Listed(s, {}, m, u) => Listed(t, U, m, u)
      BY <1>1, <1>2, <1>7 DEF Listed
    <2> QED
      BY <1>1, <1>3, <1>6, <2>1 DEF ListsOk
  <1>14. RdvOk(t)
    <2> SUFFICES ASSUME NEW m \in DOMAIN s.mux, NEW u \in Ids
                 PROVE  /\ t.mux[m].rdv[u] <= t.sock[u].uses
                        /\ t.mux[m].rdv[u] > 0 /\ t.sock[u].uses <= 1 => Entered(t, m, u)
      BY <1>1 DEF RdvOk
    <2>1. s.mux[m].rdv[u] \in Nat /\ s.sock[u].uses \in Nat
      BY <1>6 DEF MuxShape, StatusOk, Consistent
    <2>2. /\ s.mux[m].rdv[u] <= s.sock[u].uses
          /\ s.mux[m].rdv[u] > 0 /\ s.sock[u].uses <= 1 => Entered(s, m, u)
      BY <1>6 DEF RdvOk
    <2>3. /\ t.mux[m].rdv[u] \in Nat /\ t.mux[m].rdv[u] <= s.mux[m].rdv[u]
          /\ u \in U /\ Entered(s, m, u) /\ s.mux[m].rdv[u] > 0 =>
               t.mux[m].rdv[u] < s.mux[m].rdv[u]
      BY <1>5 DEF Entered
    <2>4. t.sock[u].uses = s.sock[u].uses
      BY <1>1
    <2>5. t.mux[m].rdv[u] <= t.sock[u].uses
      BY <2>1, <2>2, <2>3, <2>4
    <2>6. ASSUME t.mux[m].rdv[u] > 0, t.sock[u].uses <= 1
          PROVE  Entered(t, m, u)
      <3>1. Entered(s, m, u) /\ u \notin U
        BY <2>1, <2>2, <2>3, <2>4, <2>6
      <3> QED
        BY <1>1, <1>2, <1>7, <3>1 DEF Entered
    <2> QED
      BY <2>5, <2>6
  <1>15. StatusOk(t, U)
    <2>1. \A u \in Ids : Consistent(s, {}, u) => Consistent(t, U, u)
      BY <1>1, <1>2 DEF Consistent
    <2> QED
      BY <1>6, <2>1 DEF StatusOk
  <1>16. PeersOk(t)
    BY <1>1, <1>6 DEF PeersOk
  <1>17. \A X : QueuesOk(s, X) => QueuesOk(t, X)
    BY <1>1 DEF QueuesOk
  <1> QED
    BY <1>1, <1>8, <1>9, <1>10, <1>11, <1>12, <1>13, <1>14, <1>15, <1>16, <1>17 DEF Core

\* What going to m_ClosedSockets does.
ClosedTo(s, U, t) ==
  /\ Shape(t) /\ t.mux = s.mux /\ t.peerRec = s.peerRec
  /\ \A u \in Ids :
       /\ t.place[u] = IF u \in U THEN "closed" ELSE s.place[u]
       /\ t.sock[u].status = IF u \in U THEN "CLOSED" ELSE s.sock[u].status
       /\ t.sock[u].opened = s.sock[u].opened
       /\ t.sock[u].listening = s.sock[u].listening
       /\ t.sock[u].connecting = s.sock[u].connecting
       /\ t.sock[u].connected = s.sock[u].connected /\ t.sock[u].onList = s.sock[u].onList
       /\ t.sock[u].mux = s.sock[u].mux /\ t.sock[u].listener = s.sock[u].listener
       /\ t.sock[u].uses = s.sock[u].uses /\ t.sock[u].queued = s.sock[u].queued

\* That is what ToClosed does.
LEMMA ToClosedEffect ==
  ASSUME NEW s, Shape(s), NEW U, NEW t, t = ToClosed(s, U)
  PROVE  ClosedTo(s, U, t)
  <1> DEFINE closed(k) == [k EXCEPT !.status = "CLOSED", !.old = FALSE]
             r == ToClosed(s, U)
  <1>1. Shape(r) /\ r.mux = s.mux /\ r.peerRec = s.peerRec
    BY DEF Shape, Each, ToClosed, SockFields
  <1>2. \A u \in Ids : /\ r.place[u] = IF u \in U THEN "closed" ELSE s.place[u]
                       /\ r.sock[u] = IF u \in U THEN closed(s.sock[u]) ELSE s.sock[u]
    BY DEF Shape, Each, ToClosed
  <1>3. \A u \in Ids : DOMAIN s.sock[u] = SockFields
    BY DEF Shape
  <1> HIDE DEF r
  <1>4. \A u \in Ids :
          /\ r.sock[u].status = IF u \in U THEN "CLOSED" ELSE s.sock[u].status
          /\ r.sock[u].opened = s.sock[u].opened
          /\ r.sock[u].listening = s.sock[u].listening
          /\ r.sock[u].connecting = s.sock[u].connecting
          /\ r.sock[u].connected = s.sock[u].connected /\ r.sock[u].onList = s.sock[u].onList
          /\ r.sock[u].mux = s.sock[u].mux /\ r.sock[u].listener = s.sock[u].listener
          /\ r.sock[u].uses = s.sock[u].uses /\ r.sock[u].queued = s.sock[u].queued
    BY <1>2, <1>3 DEF SockFields
  <1>5. t = r
    BY DEF r
  <1>6. ClosedTo(s, U, r)
    BY <1>1, <1>2, <1>4 DEF ClosedTo
  <1> QED
    BY <1>5, <1>6

\* Once in m_ClosedSockets, a socket that was shut is no exception any more.
LEMMA ClosedCore ==
  ASSUME NEW s, NEW X, Core(s, X), NEW U, X \cap Ids \subseteq U,
         \A u \in U \cap Ids : Alive(s, u), NEW t, t = ToClosed(s, U)
  PROVE  Core(t, {})
  <1> ClosedTo(s, U, t)
    BY ToClosedEffect DEF Core
  <1>1. /\ Shape(t) /\ t.mux = s.mux /\ t.peerRec = s.peerRec
        /\ \A u \in Ids :
             /\ t.place[u] = IF u \in U THEN "closed" ELSE s.place[u]
             /\ t.sock[u].status = IF u \in U THEN "CLOSED" ELSE s.sock[u].status
    BY DEF ClosedTo
  <1>2. \A u \in Ids :
          /\ t.sock[u].opened = s.sock[u].opened
          /\ t.sock[u].listening = s.sock[u].listening
          /\ t.sock[u].connecting = s.sock[u].connecting
          /\ t.sock[u].connected = s.sock[u].connected /\ t.sock[u].onList = s.sock[u].onList
          /\ t.sock[u].mux = s.sock[u].mux
          /\ t.sock[u].uses = s.sock[u].uses /\ t.sock[u].queued = s.sock[u].queued
    BY DEF ClosedTo
  <1>3. /\ MuxShape(s) /\ EmptyOk(s) /\ MuxIdsOk(s) /\ RefsOk(s) /\ ListenerOk(s)
        /\ ListsOk(s, X) /\ RdvOk(s) /\ StatusOk(s, X) /\ PeersOk(s)
    BY DEF Core
  <1>4. \A u \in Ids : Alive(t, u) <=> Alive(s, u)
    BY <1>1 DEF Alive
  <1>5. MuxShape(t)
    BY <1>1, <1>3 DEF MuxShape
  <1>6. EmptyOk(t)
    <2>1. \A u \in Ids : ~Alive(t, u) => t.sock[u].status = s.sock[u].status
      BY <1>1, <1>4
    <2> QED
      BY <1>2, <1>3, <1>4, <2>1 DEF EmptyOk
  <1>7. MuxIdsOk(t)
    <2> SUFFICES ASSUME NEW m \in DOMAIN s.mux
                 PROVE  t.place[m] # "none" /\ (t.place[m] = "open" => t.sock[m].status # "INIT")
      BY <1>1 DEF MuxIdsOk
    <2>1. m \in Ids /\ s.place[m] # "none" /\ (s.place[m] = "open" => s.sock[m].status # "INIT")
      BY <1>3 DEF MuxIdsOk, MuxShape
    <2> QED
      BY <1>1, <2>1
  <1>8. RefsOk(t)
    <2>1. \A m : Users(t, m) = Users(s, m)
      BY <1>2, <1>4, SameUsers
    <2> QED
      BY <1>1, <1>2, <1>3, <2>1 DEF RefsOk
  <1>14. DOMAIN t.mux = DOMAIN s.mux /\ \A m \in DOMAIN s.mux : t.mux[m] = s.mux[m]
    BY <1>1
  <1>9. ListenerOk(t)
    <2>1. \A m, l : Hears(s, m, l) => Hears(t, m, l)
      BY <1>2, <1>4 DEF Hears
    <2> QED
      BY <1>3, <1>14, <2>1 DEF ListenerOk
  <1>10. ListsOk(t, {})
    <2>1. \A u \in Ids : t.place[u] = "open" => s.place[u] = "open" /\ u \notin X
      BY <1>1
    <2>2. \A m, u : Listed(s, X, m, u) => Listed(t, {}, m, u)
      BY <1>2, <1>4, <2>1 DEF Listed
    <2> QED
      BY <1>3, <1>14, <2>2 DEF ListsOk
  <1>11. RdvOk(t)
    <2>1. \A m : \A u \in Ids : Entered(s, m, u) => Entered(t, m, u)
      BY <1>2, <1>4 DEF Entered
    <2>2. \A u \in Ids : t.sock[u].uses = s.sock[u].uses
      BY <1>2
    <2> QED
      BY <1>3, <1>14, <2>1, <2>2 DEF RdvOk
  <1>12. StatusOk(t, {})
    <2>1. ASSUME NEW u \in Ids, Consistent(s, X, u) PROVE Consistent(t, {}, u)
      <3>1. CASE u \in U
        BY <1>1, <1>2, <2>1, <3>1 DEF Consistent
      <3>2. CASE u \notin U
        <4>1. u \notin X /\ t.place[u] = s.place[u] /\ t.sock[u].status = s.sock[u].status
          BY <1>1, <3>2
        <4> QED
          BY <1>2, <2>1, <4>1 DEF Consistent
      <3> QED
        BY <3>1, <3>2
    <2> QED
      BY <1>3, <2>1 DEF StatusOk
  <1>13. PeersOk(t)
    <2>1. \A p \in Peers : \A u \in s.peerRec[p] : u \in Ids /\ s.sock[u].status # "INIT"
      BY <1>3 DEF PeersOk
    <2> QED
      BY <1>1, <2>1 DEF PeersOk
  <1> QED
    BY <1>1, <1>5, <1>6, <1>7, <1>8, <1>9, <1>10, <1>11, <1>12, <1>13 DEF Core

\* Marks that Core does not read.
LEMMA MarksStill ==
  ASSUME NEW s, Shape(s), NEW U
  PROVE  /\ LET break(k) == [k EXCEPT !.broken = TRUE] IN Still(s, Each(s, U, break))
         /\ Still(s, LingerOver(s, U))
  <1> DEFINE break(k) == [k EXCEPT !.broken = TRUE]
             over(k) == [k EXCEPT !.lingering = FALSE, !.closing = TRUE, !.old = FALSE]
             r == Each(s, U, break)
             q == Each(s, U, over)
  <1>1. \A u \in Ids : DOMAIN s.sock[u] = SockFields
    BY DEF Shape
  <1>2. /\ Shape(r) /\ r.place = s.place /\ r.mux = s.mux /\ r.peerRec = s.peerRec
        /\ \A u \in Ids : r.sock[u] = IF u \in U THEN break(s.sock[u]) ELSE s.sock[u]
    BY DEF Shape, Each, SockFields
  <1>3. /\ Shape(q) /\ q.place = s.place /\ q.mux = s.mux /\ q.peerRec = s.peerRec
        /\ \A u \in Ids : q.sock[u] = IF u \in U THEN over(s.sock[u]) ELSE s.sock[u]
    BY DEF Shape, Each, SockFields
  <1>4. LingerOver(s, U) = q
    BY DEF LingerOver
  <1> HIDE DEF r, q
  <1>5. Still(s, r)
    BY <1>1, <1>2 DEF Still, SockFields
  <1>6. Still(s, q)
    BY <1>1, <1>3 DEF Still, SockFields
  <1> QED
    BY <1>4, <1>5, <1>6 DEF r

\* What is collected leaves the queue of the listener it knows.
LEMMA CollectedCore ==
  ASSUME NEW s, NEW X, Core(s, X), QueuesOk(s, {}), NEW U, X \cap Ids \subseteq U,
         \A u \in U \cap Ids : Alive(s, u), NEW t, t = Collected(s, U)
  PROVE  /\ Core(t, {}) /\ QueuesOk(t, {})
         /\ \A u \in Ids : /\ t.place[u] = IF u \in U THEN "closed" ELSE s.place[u]
                           /\ t.sock[u].onList = s.sock[u].onList
  <1> DEFINE a == ToClosed(s, U)
             W == {s.sock[u].listener : u \in U}
             without(k) == [k EXCEPT !.queued = @ \ U, !.accepted = @ \ U]
             r == Each(a, W, without)
  <1>1. ClosedTo(s, U, a)
    BY ToClosedEffect DEF Core
  <1>2. Core(a, {})
    BY ClosedCore
  <1>3. t = r
    BY DEF Collected
  <1> HIDE DEF a
  <1>4. \A u \in U : s.sock[u].listener \in W
    OBVIOUS
  <1> HIDE DEF W
  <1>5. Shape(a) /\ \A u \in Ids : DOMAIN a.sock[u] = SockFields
    BY <1>2 DEF Core, Shape
  <1>6. /\ Shape(r) /\ r.place = a.place /\ r.mux = a.mux /\ r.peerRec = a.peerRec
        /\ \A u \in Ids : r.sock[u] = IF u \in W THEN without(a.sock[u]) ELSE a.sock[u]
    BY <1>5 DEF Shape, Each, SockFields
  <1> HIDE DEF r
  <1>7. Still(a, r)
    <2>1. ASSUME NEW u \in Ids
          PROVE  /\ r.sock[u].status = a.sock[u].status /\ r.sock[u].opened = a.sock[u].opened
                 /\ r.sock[u].listening = a.sock[u].listening
                 /\ r.sock[u].connecting = a.sock[u].connecting
                 /\ r.sock[u].connected = a.sock[u].connected /\ r.sock[u].onList = a.sock[u].onList
                 /\ r.sock[u].mux = a.sock[u].mux /\ r.sock[u].listener = a.sock[u].listener
                 /\ r.sock[u].uses = a.sock[u].uses /\ r.sock[u].queued \subseteq a.sock[u].queued
      <3> DEFINE x == a.sock[u]
                 y == r.sock[u]
      <3>1. (y = x \/ y = [x EXCEPT !.queued = @ \ U, !.accepted = @ \ U]) /\ DOMAIN x = SockFields
        BY <1>5, <1>6
      <3> HIDE DEF x, y
      <3>2. /\ y.status = x.status /\ y.opened = x.opened /\ y.listening = x.listening
            /\ y.connecting = x.connecting /\ y.connected = x.connected /\ y.onList = x.onList
            /\ y.mux = x.mux /\ y.listener = x.listener /\ y.uses = x.uses
            /\ y.queued \subseteq x.queued
        BY <3>1 DEF SockFields
      <3> QED
        BY <3>2 DEF x, y
    <2>2. Shape(r) /\ r.place = a.place /\ r.mux = a.mux /\ r.peerRec = a.peerRec
      BY <1>6
    <2> QED
      BY <2>1, <2>2 DEF Still
  <1>8. Core(r, {})
    BY <1>2, <1>7, StillCore
  <1>9. \A l \in Ids : /\ l \in W => r.sock[l].queued = a.sock[l].queued \ U
                       /\ a.sock[l].queued = s.sock[l].queued
                       /\ r.sock[l].queued \subseteq a.sock[l].queued
                       /\ r.sock[l].listener = s.sock[l].listener
                       /\ r.place[l] = IF l \in U THEN "closed" ELSE s.place[l]
                       /\ r.sock[l].onList = s.sock[l].onList
    <2>1. \A l \in Ids : l \in W => r.sock[l].queued = a.sock[l].queued \ U
      BY <1>5, <1>6 DEF SockFields
    <2>2. \A l \in Ids : /\ a.sock[l].queued = s.sock[l].queued
                         /\ a.sock[l].listener = s.sock[l].listener
                         /\ a.sock[l].onList = s.sock[l].onList
                         /\ a.place[l] = IF l \in U THEN "closed" ELSE s.place[l]
      BY <1>1 DEF ClosedTo
    <2> QED
      BY <1>7, <2>1, <2>2 DEF Still
  <1>10. QueuesOk(r, {})
    <2> SUFFICES ASSUME NEW l \in Ids, NEW u \in r.sock[l].queued
                 PROVE  u \in Ids /\ r.place[u] = "open" /\ r.sock[u].listener = l
      BY DEF QueuesOk
    <2>1. u \in s.sock[l].queued
      BY <1>9
    <2>2. u \in Ids /\ s.place[u] = "open" /\ s.sock[u].listener = l
      BY <2>1 DEF QueuesOk
    <2>3. u \notin U
      <3>1. u \in U => l \in W
        BY <1>4, <2>2
      <3> QED
        BY <1>9, <3>1
    <2> QED
      BY <1>9, <2>2, <2>3
  <1> QED
    BY <1>3, <1>8, <1>9, <1>10

\* removeSocket, first half: what waits in the queue of a socket about to go is open.
LEMMA OrphanedCore ==
  ASSUME NEW s, Core(s, {}), QueuesOk(s, {}), NEW U \in SUBSET Ids,
         \A u \in U : s.place[u] = "closed", NEW t, t = Orphaned(s, U)
  PROVE  /\ Core(t, {}) /\ QueuesOk(t, U)
         /\ \A u \in U : t.place[u] = "closed"
         /\ \A u \in Ids : t.sock[u].onList = s.sock[u].onList
  <1> DEFINE orphans == UNION {s.sock[l].queued : l \in U}
             break(k) == [k EXCEPT !.broken = TRUE]
             a == Each(s, orphans, break)
             b == Shut(a, orphans)
             r == ToClosed(b, orphans)
  <1>1. \A u : u \in orphans => u \in Ids /\ s.place[u] = "open" /\ s.sock[u].listener \in U
    BY DEF QueuesOk
  <1>2. t = r
    BY DEF Orphaned
  <1> HIDE DEF orphans
  <1>3. Still(s, a)
    BY MarksStill DEF Core
  <1> HIDE DEF a
  <1>4. Core(a, {}) /\ QueuesOk(a, {})
    BY <1>3, StillCore
  <1>5. Core(b, orphans) /\ QueuesOk(b, {}) /\ ShutTo(a, orphans, b)
    <2>1. Core(b, orphans) /\ QueuesOk(b, {})
      BY <1>4, ShutCore
    <2>2. Shape(a) /\ MuxShape(a)
      BY <1>4 DEF Core
    <2>3. ShutTo(a, orphans, b)
      BY <2>2, ShutEffect
    <2> QED
      BY <2>1, <2>3
  <1> HIDE DEF b
  <1>6. b.place = s.place /\ \A u \in Ids : /\ b.sock[u].listener = s.sock[u].listener
                                            /\ b.sock[u].onList = s.sock[u].onList
    <2>1. a.place = s.place /\ \A u \in Ids : /\ a.sock[u].listener = s.sock[u].listener
                                              /\ a.sock[u].onList = s.sock[u].onList
      BY <1>3 DEF Still
    <2>2. b.place = a.place /\ \A u \in Ids : /\ b.sock[u].listener = a.sock[u].listener
                                              /\ b.sock[u].onList = a.sock[u].onList
      BY <1>5 DEF ShutTo
    <2> QED
      BY <2>1, <2>2
  <1>7. Core(r, {})
    <2>1. \A u \in orphans \cap Ids : Alive(b, u)
      BY <1>1, <1>6 DEF Alive
    <2>2. orphans \cap Ids \subseteq orphans
      OBVIOUS
    <2> QED
      BY <1>5, <2>1, <2>2, ClosedCore
  <1>8. ClosedTo(b, orphans, r)
    BY <1>5, ToClosedEffect DEF Core
  <1> HIDE DEF r
  <1>9. \A u \in Ids : /\ r.place[u] = IF u \in orphans THEN "closed" ELSE s.place[u]
                       /\ r.sock[u].listener = s.sock[u].listener
                       /\ r.sock[u].onList = s.sock[u].onList
                       /\ r.sock[u].queued = b.sock[u].queued
    BY <1>6, <1>8 DEF ClosedTo
  <1>10. QueuesOk(r, U)
    <2> SUFFICES ASSUME NEW l \in Ids \ U, NEW u \in r.sock[l].queued
                 PROVE  u \in Ids /\ r.place[u] = "open" /\ r.sock[u].listener = l
      BY DEF QueuesOk
    <2>1. u \in Ids /\ b.place[u] = "open" /\ b.sock[u].listener = l
      BY <1>5, <1>9 DEF QueuesOk
    <2>2. u \notin orphans
      BY <1>1, <1>6, <2>1
    <2> QED
      BY <1>6, <1>9, <2>1, <2>2
  <1>11. \A u \in U : r.place[u] = "closed"
    BY <1>9
  <1> QED
    BY <1>2, <1>7, <1>9, <1>10, <1>11

\* The sockets of a multiplexer are finitely many.
LEMMA UsersFinite ==
  ASSUME NEW s, NEW m
  PROVE  IsFiniteSet(Users(s, m)) /\ Cardinality(Users(s, m)) \in Nat
  <1>1. IsFiniteSet(Ids)
    BY SocketsAssumption, FS_Interval DEF Ids
  <1>2. Users(s, m) \in SUBSET Ids
    BY DEF Users
  <1> QED
    BY <1>1, <1>2, FS_Subset, FS_CardinalityType

\* A multiplexer that loses the references of U has its other users left, and goes when
\* there are none.
ReleasedTo(s, U, t) ==
  /\ Shape(t) /\ t.place = s.place /\ t.peerRec = s.peerRec /\ t.sock = s.sock
  /\ DOMAIN t.mux = {m \in DOMAIN s.mux : Users(s, m) \ U # {}}
  /\ \A m \in DOMAIN t.mux :
       /\ DOMAIN t.mux[m] = MuxFields
       /\ t.mux[m].refs = Cardinality(Users(s, m) \ U)
       /\ t.mux[m].fresh = s.mux[m].fresh /\ t.mux[m].list = s.mux[m].list
       /\ t.mux[m].listener = s.mux[m].listener /\ t.mux[m].rdv = s.mux[m].rdv

\* That is what Released does.
LEMMA ReleasedEffect ==
  ASSUME NEW s, Shape(s), MuxShape(s), RefsOk(s), NEW U \in SUBSET Ids,
         \A u \in U : Alive(s, u), NEW t, t = Released(s, U)
  PROVE  ReleasedTo(s, U, t)
  <1> DEFINE left(m) == s.mux[m].refs - Cardinality({u \in U : s.sock[u].mux = m})
             r == Released(s, U)
  <1>1. ASSUME NEW m \in DOMAIN s.mux
        PROVE  /\ left(m) = Cardinality(Users(s, m) \ U)
               /\ left(m) > 0 <=> Users(s, m) \ U # {}
    <2>1. {u \in U : s.sock[u].mux = m} = Users(s, m) \cap U
      BY DEF Users
    <2>2. IsFiniteSet(Users(s, m))
      BY UsersFinite
    <2>3. /\ IsFiniteSet(Users(s, m) \ U)
          /\ Cardinality(Users(s, m) \ U) = Cardinality(Users(s, m)) - Cardinality(Users(s, m) \cap U)
      BY <2>2, FS_Difference
    <2>4. left(m) = Cardinality(Users(s, m) \ U)
      BY <2>1, <2>3 DEF RefsOk
    <2> HIDE DEF left
    <2>5. Cardinality(Users(s, m) \ U) \in Nat
      BY <2>3, FS_CardinalityType
    <2>6. Cardinality(Users(s, m) \ U) = 0 <=> Users(s, m) \ U = {}
      BY <2>3, FS_EmptySet
    <2> QED
      BY <2>4, <2>5, <2>6
  <1>2. r = [s EXCEPT !.mux = [m \in {k \in DOMAIN s.mux : left(k) > 0} |->
                                 [s.mux[m] EXCEPT !.refs = left(m)]]]
    BY DEF Released
  <1> HIDE DEF left
  <1>3. Shape(r) /\ r.place = s.place /\ r.peerRec = s.peerRec /\ r.sock = s.sock
    BY <1>2 DEF Shape
  <1>4. /\ DOMAIN r.mux = {m \in DOMAIN s.mux : left(m) > 0}
        /\ \A m \in DOMAIN r.mux : r.mux[m] = [s.mux[m] EXCEPT !.refs = left(m)]
    BY <1>2 DEF Shape
  <1>5. \A m \in DOMAIN s.mux : DOMAIN s.mux[m] = MuxFields
    BY DEF MuxShape
  <1> HIDE DEF r
  <1>6. DOMAIN r.mux = {m \in DOMAIN s.mux : Users(s, m) \ U # {}}
    BY <1>1, <1>4
  <1>7. \A m \in DOMAIN r.mux :
          /\ DOMAIN r.mux[m] = MuxFields /\ r.mux[m].refs = left(m)
          /\ r.mux[m].fresh = s.mux[m].fresh /\ r.mux[m].list = s.mux[m].list
          /\ r.mux[m].listener = s.mux[m].listener /\ r.mux[m].rdv = s.mux[m].rdv
    BY <1>4, <1>5 DEF MuxFields
  <1>8. \A m \in DOMAIN r.mux : r.mux[m].refs = Cardinality(Users(s, m) \ U)
    BY <1>1, <1>4, <1>7
  <1>9. t = r
    BY DEF r
  <1>10. ReleasedTo(s, U, r)
    BY <1>3, <1>6, <1>7, <1>8 DEF ReleasedTo
  <1> QED
    BY <1>9, <1>10

\* removeSocket, second half: nothing points to what is freed.
LEMMA RemoveCore ==
  ASSUME NEW s, Core(s, {}), NEW U \in SUBSET Ids, QueuesOk(s, U),
         \A u \in U : s.place[u] = "closed" /\ s.sock[u].onList # TRUE,
         NEW t, t = RemoveSocket(s, U)
  PROVE  Core(t, {}) /\ QueuesOk(t, {})
  <1> DEFINE a == Shut(s, U)
             b == Released(a, U)
             gone(k) == [NoSocket EXCEPT !.uses = k.uses]
             r == [Each(b, U, gone)
                    EXCEPT !.place = [u \in Ids |-> IF u \in U THEN "freed" ELSE @[u]],
                           !.peerRec = [p \in Peers |-> @[p] \ U]]
  <1>1. t = r
    BY DEF RemoveSocket
  <1>2. Core(a, U) /\ QueuesOk(a, U)
    BY ShutCore
  <1>3. ShutTo(s, U, a)
    BY ShutEffect DEF Core
  <1> HIDE DEF a
  <1>4. /\ MuxShape(a) /\ EmptyOk(a) /\ MuxIdsOk(a) /\ RefsOk(a) /\ ListenerOk(a)
        /\ ListsOk(a, U) /\ RdvOk(a) /\ StatusOk(a, U) /\ PeersOk(a) /\ Shape(a)
    BY <1>2 DEF Core
  <1>5. \A u \in U : /\ a.place[u] = "closed" /\ a.sock[u].onList # TRUE
                     /\ a.sock[u].opened # TRUE /\ Alive(a, u)
    <2>1. a.place = s.place /\ \A u \in Ids : /\ a.sock[u].onList = s.sock[u].onList
                                              /\ u \in U => a.sock[u].opened # TRUE
      BY <1>3 DEF ShutTo
    <2> QED
      BY <2>1 DEF Alive
  <1>27. ReleasedTo(a, U, b)
    BY <1>4, <1>5, ReleasedEffect
  <1> HIDE DEF b
  <1>6. /\ Shape(b) /\ b.place = a.place /\ b.peerRec = a.peerRec /\ b.sock = a.sock
        /\ DOMAIN b.mux = {m \in DOMAIN a.mux : Users(a, m) \ U # {}}
        /\ \A m \in DOMAIN b.mux :
             /\ DOMAIN b.mux[m] = MuxFields
             /\ b.mux[m].refs = Cardinality(Users(a, m) \ U)
             /\ b.mux[m].fresh = a.mux[m].fresh /\ b.mux[m].list = a.mux[m].list
             /\ b.mux[m].listener = a.mux[m].listener /\ b.mux[m].rdv = a.mux[m].rdv
    BY <1>27 DEF ReleasedTo
  <1>7. Shape(r)
    BY <1>6 DEF Shape, Each, NoSocket, SockFields
  <1>8. /\ r.mux = b.mux
        /\ \A p \in Peers : r.peerRec[p] = a.peerRec[p] \ U
        /\ \A u \in Ids : r.place[u] = IF u \in U THEN "freed" ELSE a.place[u]
    BY <1>6 DEF Shape, Each
  <1>9. \A u \in Ids : r.sock[u] = IF u \in U THEN gone(a.sock[u]) ELSE a.sock[u]
    BY <1>6 DEF Shape, Each
  <1> HIDE DEF r
  <1>10. \A u \in U : /\ r.sock[u].status = "INIT" /\ r.sock[u].mux = Nobody
                      /\ r.sock[u].connecting = FALSE /\ r.sock[u].listening = FALSE
                      /\ r.sock[u].queued = {} /\ r.sock[u].uses = a.sock[u].uses
    <2> TAKE u \in U
    <2> DEFINE k == r.sock[u]
               n == a.sock[u].uses
    <2>1. k = [NoSocket EXCEPT !.uses = n]
      BY <1>9
    <2> HIDE DEF k, n
    <2>2. /\ k.status = "INIT" /\ k.mux = Nobody /\ k.connecting = FALSE
          /\ k.listening = FALSE /\ k.queued = {} /\ k.uses = n
      BY <2>1 DEF NoSocket
    <2> QED
      BY <2>2 DEF k, n
  <1>11. \A u \in Ids \ U : r.sock[u] = a.sock[u] /\ r.place[u] = a.place[u]
    BY <1>8, <1>9
  <1>12. \A u \in U : r.place[u] = "freed" /\ ~Alive(r, u)
    BY <1>8 DEF Alive
  <1>13. \A u \in Ids \ U : Alive(r, u) <=> Alive(a, u)
    BY <1>11 DEF Alive
  <1>14. \A m \in DOMAIN r.mux : /\ m \in DOMAIN a.mux /\ Users(a, m) \ U # {}
                                 /\ r.mux[m].refs = Cardinality(Users(a, m) \ U)
                                 /\ r.mux[m].fresh = a.mux[m].fresh /\ r.mux[m].list = a.mux[m].list
                                 /\ r.mux[m].listener = a.mux[m].listener
                                 /\ r.mux[m].rdv = a.mux[m].rdv
    BY <1>6, <1>8
  <1>15. MuxShape(r)
    BY <1>4, <1>6, <1>8, <1>14 DEF MuxShape
  <1>16. EmptyOk(r)
    <2> SUFFICES ASSUME NEW u \in Ids, ~Alive(r, u)
                 PROVE  /\ r.sock[u].mux = Nobody /\ r.sock[u].connecting # TRUE
                        /\ r.sock[u].queued = {} /\ r.sock[u].status = "INIT"
      BY DEF EmptyOk
    <2>1. CASE u \in U
      BY <1>10, <2>1
    <2>2. CASE u \notin U
      BY <1>4, <1>11, <1>13, <2>2 DEF EmptyOk
    <2> QED
      BY <2>1, <2>2
  <1>17. MuxIdsOk(r)
    <2> SUFFICES ASSUME NEW m \in DOMAIN r.mux
                 PROVE  r.place[m] # "none" /\ (r.place[m] = "open" => r.sock[m].status # "INIT")
      BY DEF MuxIdsOk
    <2>1. m \in Ids /\ a.place[m] # "none" /\ (a.place[m] = "open" => a.sock[m].status # "INIT")
      BY <1>4, <1>14 DEF MuxIdsOk, MuxShape
    <2> QED
      BY <1>11, <1>12, <2>1
  <1>18. RefsOk(r)
    <2>1. ASSUME NEW m \in DOMAIN r.mux PROVE Users(r, m) = Users(a, m) \ U
      BY <1>11, <1>12, <1>13 DEF Users
    <2>2. ASSUME NEW u \in Ids, r.sock[u].mux # Nobody PROVE r.sock[u].mux \in DOMAIN r.mux
      <3>1. u \notin U
        BY <1>10, <2>2
      <3>2. a.sock[u].mux # Nobody /\ r.sock[u].mux = a.sock[u].mux
        BY <1>11, <2>2, <3>1
      <3>3. Alive(a, u) /\ a.sock[u].mux \in DOMAIN a.mux
        BY <1>4, <3>2 DEF EmptyOk, RefsOk
      <3>4. u \in Users(a, a.sock[u].mux) \ U
        BY <3>1, <3>3 DEF Users
      <3> QED
        BY <1>6, <1>8, <3>2, <3>3, <3>4
    <2> QED
      BY <1>14, <2>1, <2>2 DEF RefsOk
  <1>19. ListenerOk(r)
    <2>1. \A m, l : Hears(a, m, l) => Hears(r, m, l)
      BY <1>5, <1>11, <1>13 DEF Hears
    <2> QED
      BY <1>4, <1>14, <2>1 DEF ListenerOk
  <1>20. ListsOk(r, {})
    <2>1. \A m, u : Listed(a, U, m, u) => Listed(r, {}, m, u)
      BY <1>5, <1>11, <1>13 DEF Listed
    <2> QED
      BY <1>4, <1>14, <2>1 DEF ListsOk
  <1>21. \A u \in Ids : r.sock[u].uses = a.sock[u].uses
    BY <1>10, <1>11
  <1>22. RdvOk(r)
    <2>1. \A m : \A u \in Ids : Entered(a, m, u) => Entered(r, m, u)
      BY <1>5, <1>11, <1>13 DEF Entered
    <2> QED
      BY <1>4, <1>14, <1>21, <2>1 DEF RdvOk
  <1>23. StatusOk(r, {})
    <2>1. ASSUME NEW u \in Ids PROVE Consistent(r, {}, u)
      <3>1. Consistent(a, U, u)
        BY <1>4 DEF StatusOk
      <3>2. CASE u \in U
        BY <1>10, <1>12, <1>21, <3>1, <3>2 DEF Consistent
      <3>3. CASE u \notin U
        BY <1>11, <3>1, <3>3 DEF Consistent
      <3> QED
        BY <3>2, <3>3
    <2> QED
      BY <2>1 DEF StatusOk
  <1>24. PeersOk(r)
    BY <1>4, <1>8, <1>11 DEF PeersOk
  <1>25. QueuesOk(r, {})
    <2> SUFFICES ASSUME NEW l \in Ids, NEW u \in r.sock[l].queued
                 PROVE  u \in Ids /\ r.place[u] = "open" /\ r.sock[u].listener = l
      BY DEF QueuesOk
    <2>1. l \notin U /\ u \in a.sock[l].queued
      BY <1>10, <1>11
    <2>2. u \in Ids /\ a.place[u] = "open" /\ a.sock[u].listener = l
      BY <1>2, <2>1 DEF QueuesOk
    <2> QED
      BY <1>5, <1>11, <2>2
  <1>26. Core(r, {})
    BY <1>7, <1>15, <1>16, <1>17, <1>18, <1>19, <1>20, <1>22, <1>23, <1>24 DEF Core
  <1> QED
    BY <1>1, <1>25, <1>26

\* A socket a step does not touch, except that its queue may change while it is alive.
Same(s, t, v) ==
  /\ t.place[v] = s.place[v]
  /\ t.sock[v].status = s.sock[v].status /\ t.sock[v].opened = s.sock[v].opened
  /\ t.sock[v].listening = s.sock[v].listening /\ t.sock[v].connecting = s.sock[v].connecting
  /\ t.sock[v].connected = s.sock[v].connected /\ t.sock[v].onList = s.sock[v].onList
  /\ t.sock[v].mux = s.sock[v].mux /\ t.sock[v].uses = s.sock[v].uses
  /\ Alive(s, v) \/ t.sock[v].queued \subseteq s.sock[v].queued

\* A multiplexer after a step of the socket u: what is new in it is u, with a right to be there.
MuxAfter(s, t, u, m) ==
  /\ \/ t.mux[m].listener \in {Nobody, u}
     \/ m \in DOMAIN s.mux /\ t.mux[m].listener = s.mux[m].listener
  /\ t.mux[m].listener = u => Hears(t, m, u)
  /\ t.mux[m].list \cap t.mux[m].fresh = {}
  /\ \A v \in t.mux[m].list \cup t.mux[m].fresh :
       v = u \/ (m \in DOMAIN s.mux /\ v \in s.mux[m].list \cup s.mux[m].fresh)
  /\ u \in t.mux[m].list \cup t.mux[m].fresh => Listed(t, {}, m, u)
  /\ \A v \in Ids \ {u} : t.mux[m].rdv[v] = 0 \/ (m \in DOMAIN s.mux /\ t.mux[m].rdv[v] = s.mux[m].rdv[v])
  /\ t.mux[m].rdv[u] <= t.sock[u].uses
  /\ t.mux[m].rdv[u] > 0 /\ t.sock[u].uses <= 1 => Entered(t, m, u)

\* A step of one socket keeps Core if it does so for this socket and the multiplexers.
LEMMA OneCore ==
  ASSUME NEW s, NEW t, NEW u \in Ids, Core(s, {}), Shape(t), MuxShape(t), Alive(t, u),
         \A v \in Ids \ {u} : Same(s, t, v),
         MuxIdsOk(t), RefsOk(t),
         \A m \in DOMAIN t.mux : MuxAfter(s, t, u, m),
         Consistent(t, {}, u),
         \A p \in Peers : /\ t.peerRec[p] \subseteq s.peerRec[p] \cup {u}
                          /\ u \in t.peerRec[p] => t.sock[u].status # "INIT"
  PROVE  Core(t, {})
  <1>1. /\ EmptyOk(s) /\ ListenerOk(s) /\ ListsOk(s, {}) /\ RdvOk(s) /\ StatusOk(s, {}) /\ PeersOk(s)
    BY DEF Core
  <1>2. \A v \in Ids \ {u} : Alive(t, v) <=> Alive(s, v)
    BY DEF Same, Alive
  <1>3. EmptyOk(t)
    <2> SUFFICES ASSUME NEW v \in Ids, ~Alive(t, v)
                 PROVE  /\ t.sock[v].mux = Nobody /\ t.sock[v].connecting # TRUE
                        /\ t.sock[v].queued = {} /\ t.sock[v].status = "INIT"
      BY DEF EmptyOk
    <2>1. v # u /\ ~Alive(s, v)
      BY <1>2
    <2>2. /\ s.sock[v].mux = Nobody /\ s.sock[v].connecting # TRUE
          /\ s.sock[v].queued = {} /\ s.sock[v].status = "INIT"
      BY <1>1, <2>1 DEF EmptyOk
    <2> QED
      BY <2>1, <2>2 DEF Same
  <1>4. ListenerOk(t)
    <2> SUFFICES ASSUME NEW m \in DOMAIN t.mux, t.mux[m].listener # Nobody
                 PROVE  Hears(t, m, t.mux[m].listener)
      BY DEF ListenerOk
    <2> DEFINE l == t.mux[m].listener
    <2>1. CASE l = u
      BY <2>1 DEF MuxAfter
    <2>2. CASE l # u
      <3>1. m \in DOMAIN s.mux /\ l = s.mux[m].listener
        BY <2>2 DEF MuxAfter
      <3>2. Hears(s, m, l)
        BY <1>1, <3>1 DEF ListenerOk
      <3> HIDE DEF l
      <3>3. Hears(t, m, l)
        BY <1>2, <2>2, <3>2 DEF Hears, Same
      <3> QED
        BY <3>3 DEF l
    <2> QED
      BY <2>1, <2>2
  <1>5. ListsOk(t, {})
    <2>1. ASSUME NEW m \in DOMAIN t.mux, NEW v \in t.mux[m].list \cup t.mux[m].fresh
          PROVE  Listed(t, {}, m, v)
      <3>1. CASE v = u
        BY <3>1 DEF MuxAfter
      <3>2. CASE v # u
        <4>1. m \in DOMAIN s.mux /\ v \in s.mux[m].list \cup s.mux[m].fresh
          BY <3>2 DEF MuxAfter
        <4>2. Listed(s, {}, m, v)
          BY <1>1, <4>1 DEF ListsOk
        <4> QED
          BY <1>2, <3>2, <4>2 DEF Listed, Same
      <3> QED
        BY <3>1, <3>2
    <2> QED
      BY <2>1 DEF ListsOk, MuxAfter
  <1>6. RdvOk(t)
    <2> SUFFICES ASSUME NEW m \in DOMAIN t.mux, NEW v \in Ids
                 PROVE  /\ t.mux[m].rdv[v] <= t.sock[v].uses
                        /\ t.mux[m].rdv[v] > 0 /\ t.sock[v].uses <= 1 => Entered(t, m, v)
      BY DEF RdvOk
    <2>1. CASE v = u
      BY <2>1 DEF MuxAfter
    <2>2. CASE v # u
      <3>1. s.sock[v].uses \in Nat /\ t.sock[v].uses = s.sock[v].uses
        BY <1>1, <2>2 DEF StatusOk, Consistent, Same
      <3>2. t.mux[m].rdv[v] = 0 \/ (m \in DOMAIN s.mux /\ t.mux[m].rdv[v] = s.mux[m].rdv[v])
        BY <2>2 DEF MuxAfter
      <3>3. CASE t.mux[m].rdv[v] = 0
        BY <3>1, <3>3
      <3>4. CASE m \in DOMAIN s.mux /\ t.mux[m].rdv[v] = s.mux[m].rdv[v]
        <4>1. /\ s.mux[m].rdv[v] <= s.sock[v].uses
              /\ s.mux[m].rdv[v] > 0 /\ s.sock[v].uses <= 1 => Entered(s, m, v)
          BY <1>1, <3>4 DEF RdvOk
        <4>2. Entered(s, m, v) => Entered(t, m, v)
          BY <1>2, <2>2 DEF Entered, Same
        <4> QED
          BY <3>1, <3>4, <4>1, <4>2
      <3> QED
        BY <3>2, <3>3, <3>4
    <2> QED
      BY <2>1, <2>2
  <1>7. StatusOk(t, {})
    <2>1. ASSUME NEW v \in Ids PROVE Consistent(t, {}, v)
      <3>1. Consistent(s, {}, v)
        BY <1>1 DEF StatusOk
      <3>2. CASE v # u
        BY <3>1, <3>2 DEF Consistent, Same
      <3> QED
        BY <3>2
    <2> QED
      BY <2>1 DEF StatusOk
  <1>8. PeersOk(t)
    <2> SUFFICES ASSUME NEW p \in Peers, NEW v \in t.peerRec[p]
                 PROVE  v \in Ids /\ t.sock[v].status # "INIT"
      BY DEF PeersOk
    <2>1. CASE v # u
      <3>1. v \in Ids /\ s.sock[v].status # "INIT"
        BY <1>1, <2>1 DEF PeersOk
      <3> QED
        BY <2>1, <3>1 DEF Same
    <2> QED
      BY <2>1
  <1> QED
    BY <1>3, <1>4, <1>5, <1>6, <1>7, <1>8 DEF Core

\* The queues, when nothing open is closed and nobody gets another listener.
LEMMA QueuesKept ==
  ASSUME NEW s, NEW t, QueuesOk(s, {}),
         \A v \in Ids : /\ t.sock[v].queued \subseteq s.sock[v].queued
                        /\ t.sock[v].listener = s.sock[v].listener
                        /\ s.place[v] = "open" => t.place[v] = "open"
  PROVE  QueuesOk(t, {})
  BY DEF QueuesOk

\* The references, when no socket joins or leaves.
LEMMA RefsKept ==
  ASSUME NEW s, NEW t, RefsOk(s), DOMAIN t.mux = DOMAIN s.mux,
         \A m \in DOMAIN s.mux : t.mux[m].refs = s.mux[m].refs,
         \A v \in Ids : t.sock[v].mux = s.sock[v].mux /\ (Alive(t, v) <=> Alive(s, v))
  PROVE  RefsOk(t)
  <1>1. \A m : Users(t, m) = Users(s, m)
    BY SameUsers
  <1> QED
    BY <1>1 DEF RefsOk

\* The references, when u joins the multiplexer k, which may be new.
LEMMA RefsJoined ==
  ASSUME NEW s, NEW t, Core(s, {}), NEW u \in Ids, NEW k \in Ids,
         s.sock[u].mux = Nobody, t.sock[u].mux = k, Alive(t, u),
         DOMAIN t.mux = DOMAIN s.mux \cup {k},
         t.mux[k].refs = IF k \in DOMAIN s.mux THEN s.mux[k].refs + 1 ELSE 1,
         \A m \in DOMAIN s.mux \ {k} : t.mux[m].refs = s.mux[m].refs,
         \A v \in Ids \ {u} : t.sock[v].mux = s.sock[v].mux /\ (Alive(t, v) <=> Alive(s, v))
  PROVE  RefsOk(t)
  <1>1. RefsOk(s) /\ MuxShape(s)
    BY DEF Core
  <1>2. k # Nobody /\ \A m \in DOMAIN s.mux : m # Nobody
    BY <1>1, SocketsAssumption DEF MuxShape, Ids, Nobody
  <1>3. \A m \in DOMAIN s.mux \ {k} : Users(t, m) = Users(s, m)
    BY <1>2 DEF Users
  <1>4. Users(t, k) = Users(s, k) \cup {u} /\ u \notin Users(s, k)
    BY <1>2 DEF Users
  <1>5. IsFiniteSet(Users(s, k)) /\ Cardinality(Users(s, k)) \in Nat
    BY UsersFinite
  <1>6. Cardinality(Users(t, k)) = Cardinality(Users(s, k)) + 1
    BY <1>4, <1>5, FS_AddElement
  <1>7. t.mux[k].refs = Cardinality(Users(t, k))
    <2>1. CASE k \in DOMAIN s.mux
      BY <1>1, <1>6, <2>1 DEF RefsOk
    <2>2. CASE k \notin DOMAIN s.mux
      <3>1. Users(s, k) = {}
        BY <1>1, <1>2, <2>2 DEF Users, RefsOk
      <3>2. Cardinality(Users(s, k)) = 0
        BY <3>1, FS_EmptySet
      <3> QED
        BY <1>6, <2>2, <3>2
    <2> QED
      BY <2>1, <2>2
  <1>8. \A m \in DOMAIN t.mux : t.mux[m].refs = Cardinality(Users(t, m))
    BY <1>1, <1>3, <1>7 DEF RefsOk
  <1>9. \A v \in Ids : t.sock[v].mux # Nobody => t.sock[v].mux \in DOMAIN t.mux
    BY <1>1 DEF RefsOk
  <1> QED
    BY <1>8, <1>9 DEF RefsOk

\* What opening a socket and updateMux do: u joins a multiplexer, or makes one of its id.
OpenedTo(s, u, t) ==
  LET k == t.sock[u].mux
  IN /\ Shape(t) /\ t.place = s.place /\ t.peerRec = s.peerRec
     /\ \A v \in Ids \ {u} : t.sock[v] = s.sock[v]
     /\ t.sock[u].status = "OPENED" /\ t.sock[u].opened = TRUE /\ t.sock[u].onList # TRUE
     /\ t.sock[u].listening = s.sock[u].listening /\ t.sock[u].connecting = s.sock[u].connecting
     /\ t.sock[u].connected = s.sock[u].connected /\ t.sock[u].listener = s.sock[u].listener
     /\ t.sock[u].uses = s.sock[u].uses /\ t.sock[u].queued = s.sock[u].queued
     /\ k = u \/ k \in DOMAIN s.mux
     /\ DOMAIN t.mux = DOMAIN s.mux \cup {k}
     /\ \A m \in DOMAIN s.mux \ {k} : t.mux[m] = s.mux[m]
     /\ DOMAIN t.mux[k] = MuxFields
     /\ k \in DOMAIN s.mux =>
          /\ t.mux[k].refs = s.mux[k].refs + 1
          /\ t.mux[k].listener = s.mux[k].listener /\ t.mux[k].rdv = s.mux[k].rdv
          /\ t.mux[k].fresh = s.mux[k].fresh /\ t.mux[k].list = s.mux[k].list
     /\ k \notin DOMAIN s.mux =>
          /\ t.mux[k].refs = 1 /\ t.mux[k].listener = Nobody
          /\ t.mux[k].rdv = [v \in Ids |-> 0] /\ t.mux[k].fresh = {} /\ t.mux[k].list = {}

\* That is what UpdateMux does.
LEMMA OpenedEffect ==
  ASSUME NEW s, Shape(s), MuxShape(s), NEW u \in Ids, u \notin DOMAIN s.mux, NEW port,
         NEW t, t = UpdateMux(Opened(s, u), u, port)
  PROVE  OpenedTo(s, u, t)
  <1> DEFINE a == Opened(s, u)
  <1>1. /\ Shape(a) /\ a.place = s.place /\ a.peerRec = s.peerRec /\ a.mux = s.mux
        /\ \A v \in Ids \ {u} : a.sock[v] = s.sock[v]
        /\ a.sock[u] = [s.sock[u] EXCEPT !.opened = TRUE, !.onList = FALSE, !.status = "OPENED"]
    BY DEF Shape, Opened, SockFields
  <1>2. DOMAIN s.sock[u] = SockFields /\ DOMAIN a.sock[u] = SockFields
    BY <1>1 DEF Shape
  <1> HIDE DEF a
  <1>3. /\ a.sock[u].status = "OPENED" /\ a.sock[u].opened = TRUE /\ a.sock[u].onList = FALSE
        /\ a.sock[u].listening = s.sock[u].listening /\ a.sock[u].connecting = s.sock[u].connecting
        /\ a.sock[u].connected = s.sock[u].connected /\ a.sock[u].listener = s.sock[u].listener
        /\ a.sock[u].uses = s.sock[u].uses /\ a.sock[u].queued = s.sock[u].queued
    BY <1>1, <1>2 DEF SockFields
  <1>4. ASSUME NEW r, NEW k, r.sock[u] = [a.sock[u] EXCEPT !.mux = k]
        PROVE  /\ r.sock[u].mux = k
               /\ r.sock[u].status = "OPENED" /\ r.sock[u].opened = TRUE /\ r.sock[u].onList # TRUE
               /\ r.sock[u].listening = s.sock[u].listening
               /\ r.sock[u].connecting = s.sock[u].connecting
               /\ r.sock[u].connected = s.sock[u].connected
               /\ r.sock[u].listener = s.sock[u].listener
               /\ r.sock[u].uses = s.sock[u].uses /\ r.sock[u].queued = s.sock[u].queued
    BY <1>2, <1>3, <1>4 DEF SockFields
  <1>5. CASE OnPort(a, port) # {}
    <2> DEFINE k == CHOOSE m \in OnPort(a, port) : TRUE
               r == Joined(a, u, k)
    <2>1. t = r
      BY <1>5 DEF UpdateMux, a
    <2>2. k \in DOMAIN s.mux
      BY <1>1, <1>5 DEF OnPort
    <2> HIDE DEF k
    <2>3. /\ Shape(r) /\ r.place = s.place /\ r.peerRec = s.peerRec
          /\ r.sock[u] = [a.sock[u] EXCEPT !.mux = k]
          /\ \A v \in Ids \ {u} : r.sock[v] = s.sock[v]
      BY <1>1 DEF Joined, Shape, SockFields
    <2>4. /\ DOMAIN r.mux = DOMAIN s.mux
          /\ \A m \in DOMAIN s.mux \ {k} : r.mux[m] = s.mux[m]
          /\ r.mux[k] = [s.mux[k] EXCEPT !.refs = @ + 1]
      BY <1>1, <2>2 DEF Joined, Shape
    <2> HIDE DEF r
    <2>5. DOMAIN s.mux[k] = MuxFields
      BY <2>2 DEF MuxShape
    <2>6. /\ DOMAIN r.mux[k] = MuxFields /\ r.mux[k].refs = s.mux[k].refs + 1
          /\ r.mux[k].listener = s.mux[k].listener /\ r.mux[k].rdv = s.mux[k].rdv
          /\ r.mux[k].fresh = s.mux[k].fresh /\ r.mux[k].list = s.mux[k].list
      BY <2>4, <2>5 DEF MuxFields
    <2>7. /\ r.sock[u].mux = k
          /\ r.sock[u].status = "OPENED" /\ r.sock[u].opened = TRUE /\ r.sock[u].onList # TRUE
          /\ r.sock[u].listening = s.sock[u].listening
          /\ r.sock[u].connecting = s.sock[u].connecting
          /\ r.sock[u].connected = s.sock[u].connected
          /\ r.sock[u].listener = s.sock[u].listener
          /\ r.sock[u].uses = s.sock[u].uses /\ r.sock[u].queued = s.sock[u].queued
      BY <1>4, <2>3
    <2>8. OpenedTo(s, u, r)
      BY <2>2, <2>3, <2>4, <2>6, <2>7 DEF OpenedTo
    <2> QED
      BY <2>1, <2>8
  <1>6. CASE OnPort(a, port) = {}
    <2> DEFINE with == [m \in DOMAIN a.mux \cup {u} |-> IF m = u THEN NewMux(port) ELSE a.mux[m]]
               r == [a EXCEPT !.mux = with, !.sock[u].mux = u]
    <2>1. t = r
      BY <1>1, <1>6 DEF UpdateMux, Shape, a
    <2>2. /\ DOMAIN with = DOMAIN s.mux \cup {u} /\ with[u] = NewMux(port)
          /\ \A m \in DOMAIN s.mux \ {u} : with[m] = s.mux[m]
      BY <1>1
    <2> HIDE DEF with
    <2>3. /\ Shape(r) /\ r.place = s.place /\ r.peerRec = s.peerRec /\ r.mux = with
          /\ r.sock[u] = [a.sock[u] EXCEPT !.mux = u]
          /\ \A v \in Ids \ {u} : r.sock[v] = s.sock[v]
      BY <1>1 DEF Shape, SockFields
    <2> HIDE DEF r
    <2>4. /\ DOMAIN NewMux(port) = MuxFields /\ NewMux(port).refs = 1
          /\ NewMux(port).listener = Nobody /\ NewMux(port).rdv = [v \in Ids |-> 0]
          /\ NewMux(port).fresh = {} /\ NewMux(port).list = {}
      BY DEF NewMux, MuxFields
    <2>7. /\ r.sock[u].mux = u
          /\ r.sock[u].status = "OPENED" /\ r.sock[u].opened = TRUE /\ r.sock[u].onList # TRUE
          /\ r.sock[u].listening = s.sock[u].listening
          /\ r.sock[u].connecting = s.sock[u].connecting
          /\ r.sock[u].connected = s.sock[u].connected
          /\ r.sock[u].listener = s.sock[u].listener
          /\ r.sock[u].uses = s.sock[u].uses /\ r.sock[u].queued = s.sock[u].queued
      BY <1>4, <2>3
    <2>8. OpenedTo(s, u, r)
      BY <2>2, <2>3, <2>4, <2>7 DEF OpenedTo
    <2> QED
      BY <2>1, <2>8
  <1> QED
    BY <1>5, <1>6

\* bind, and connect() of an unbound socket.
LEMMA OpenedCore ==
  ASSUME NEW s, Core(s, {}), QueuesOk(s, {}), NEW u \in Ids, s.place[u] = "open",
         s.sock[u].status = "INIT", NEW port, NEW t, t = UpdateMux(Opened(s, u), u, port)
  PROVE  /\ Core(t, {}) /\ QueuesOk(t, {}) /\ t.place[u] = "open"
         /\ t.sock[u].status = "OPENED" /\ t.sock[u].uses = s.sock[u].uses
         /\ t.sock[u].connected = s.sock[u].connected
  <1>1. /\ Shape(s) /\ MuxShape(s) /\ EmptyOk(s) /\ MuxIdsOk(s) /\ RefsOk(s) /\ ListenerOk(s)
        /\ ListsOk(s, {}) /\ RdvOk(s) /\ StatusOk(s, {}) /\ PeersOk(s)
    BY DEF Core
  <1>2. u \notin DOMAIN s.mux
    BY <1>1 DEF MuxIdsOk
  <1>3. OpenedTo(s, u, t)
    BY <1>1, <1>2, OpenedEffect
  <1> DEFINE k == t.sock[u].mux
  <1>4. /\ Shape(t) /\ t.place = s.place /\ t.peerRec = s.peerRec
        /\ \A v \in Ids \ {u} : t.sock[v] = s.sock[v]
    BY <1>3 DEF OpenedTo
  <1>5. /\ t.sock[u].status = "OPENED" /\ t.sock[u].opened = TRUE /\ t.sock[u].onList # TRUE
        /\ t.sock[u].listening = s.sock[u].listening /\ t.sock[u].connecting = s.sock[u].connecting
        /\ t.sock[u].connected = s.sock[u].connected /\ t.sock[u].listener = s.sock[u].listener
        /\ t.sock[u].uses = s.sock[u].uses /\ t.sock[u].queued = s.sock[u].queued
    BY <1>3 DEF OpenedTo
  <1>6. /\ k = u \/ k \in DOMAIN s.mux
        /\ DOMAIN t.mux = DOMAIN s.mux \cup {k}
        /\ \A m \in DOMAIN s.mux \ {k} : t.mux[m] = s.mux[m]
        /\ DOMAIN t.mux[k] = MuxFields
    BY <1>3 DEF OpenedTo
  <1>7. k \in DOMAIN s.mux =>
          /\ t.mux[k].refs = s.mux[k].refs + 1
          /\ t.mux[k].listener = s.mux[k].listener /\ t.mux[k].rdv = s.mux[k].rdv
          /\ t.mux[k].fresh = s.mux[k].fresh /\ t.mux[k].list = s.mux[k].list
    BY <1>3 DEF OpenedTo
  <1>8. k \notin DOMAIN s.mux =>
          /\ t.mux[k].refs = 1 /\ t.mux[k].listener = Nobody
          /\ t.mux[k].rdv = [v \in Ids |-> 0] /\ t.mux[k].fresh = {} /\ t.mux[k].list = {}
    BY <1>3 DEF OpenedTo
  <1>9. t.sock[u].mux = k
    OBVIOUS
  <1> HIDE DEF k
  <1>10. k \in Ids /\ k # Nobody /\ Nobody \notin DOMAIN s.mux
    BY <1>1, <1>6, SocketsAssumption DEF MuxShape, Ids, Nobody
  <1>11. Alive(s, u) /\ \A v : Alive(t, v) <=> Alive(s, v)
    BY <1>4 DEF Alive
  <1>12. s.sock[u].mux = Nobody /\ s.sock[u].listening # TRUE /\ s.sock[u].connecting # TRUE
         /\ s.sock[u].uses \in Nat
    BY <1>1 DEF StatusOk, Consistent
  <1>13. MuxShape(t)
    <2>1. \A m \in DOMAIN t.mux : m \in Ids /\ DOMAIN t.mux[m] = MuxFields
      BY <1>1, <1>6, <1>10 DEF MuxShape
    <2>2. ASSUME NEW m \in DOMAIN t.mux
          PROVE  t.mux[m].rdv = [v \in Ids |-> 0] \/ (m \in DOMAIN s.mux /\ t.mux[m].rdv = s.mux[m].rdv)
      BY <1>6, <1>7, <1>8
    <2>3. \A m \in DOMAIN t.mux : DOMAIN t.mux[m].rdv = Ids /\ \A v \in Ids : t.mux[m].rdv[v] \in Nat
      BY <1>1, <2>2 DEF MuxShape
    <2> QED
      BY <2>1, <2>3 DEF MuxShape
  <1>14. MuxIdsOk(t)
    <2>1. \A m \in DOMAIN s.mux : m # u /\ t.place[m] # "none"
                                  /\ (t.place[m] = "open" => t.sock[m].status # "INIT")
      BY <1>1, <1>2, <1>4 DEF MuxIdsOk, MuxShape
    <2> QED
      BY <1>4, <1>5, <1>6, <2>1 DEF MuxIdsOk
  <1>15. RefsOk(t)
    <2>1. t.mux[k].refs = IF k \in DOMAIN s.mux THEN s.mux[k].refs + 1 ELSE 1
      BY <1>7, <1>8
    <2>2. \A m \in DOMAIN s.mux \ {k} : t.mux[m].refs = s.mux[m].refs
      BY <1>6
    <2>3. \A v \in Ids \ {u} : t.sock[v].mux = s.sock[v].mux /\ (Alive(t, v) <=> Alive(s, v))
      BY <1>4, <1>11
    <2> QED
      BY <1>6, <1>9, <1>10, <1>11, <1>12, <2>1, <2>2, <2>3, RefsJoined
  <1>16. \A v \in Ids \ {u} : Same(s, t, v)
    BY <1>4 DEF Same
  <1>17. Consistent(t, {}, u)
    BY <1>5, <1>9, <1>10, <1>12 DEF Consistent
  <1>18. ASSUME NEW m \in DOMAIN t.mux PROVE MuxAfter(s, t, u, m)
    <2>1. CASE m \in DOMAIN s.mux
      <3>1. /\ t.mux[m].listener = s.mux[m].listener /\ t.mux[m].rdv = s.mux[m].rdv
            /\ t.mux[m].fresh = s.mux[m].fresh /\ t.mux[m].list = s.mux[m].list
        BY <1>6, <1>7, <2>1
      <3>2. ~Hears(s, m, u) /\ ~Listed(s, {}, m, u) /\ ~Entered(s, m, u)
        BY <1>10, <1>12, <2>1 DEF Hears, Listed, Entered
      <3>3. s.mux[m].listener # u /\ u \notin s.mux[m].list \cup s.mux[m].fresh
        BY <1>1, <2>1, <3>2, <1>10 DEF ListenerOk, ListsOk, Ids, Nobody
      <3>4. /\ s.mux[m].rdv[u] <= s.sock[u].uses
            /\ ~(s.mux[m].rdv[u] > 0 /\ s.sock[u].uses <= 1)
        BY <1>1, <2>1, <3>2 DEF RdvOk
      <3>5. s.mux[m].list \cap s.mux[m].fresh = {}
        BY <1>1, <2>1 DEF ListsOk
      <3> QED
        BY <1>5, <2>1, <3>1, <3>3, <3>4, <3>5 DEF MuxAfter
    <2>2. CASE m \notin DOMAIN s.mux
      <3>1. /\ t.mux[m].listener = Nobody /\ \A v \in Ids : t.mux[m].rdv[v] = 0
            /\ t.mux[m].fresh = {} /\ t.mux[m].list = {}
        BY <1>6, <1>8, <2>2
      <3>2. u # Nobody
        BY SocketsAssumption DEF Ids, Nobody
      <3> QED
        BY <1>5, <1>12, <3>1, <3>2 DEF MuxAfter
    <2> QED
      BY <2>1, <2>2
  <1>19. Core(t, {})
    <2>1. Alive(t, u)
      BY <1>11
    <2>2. \A p \in Peers : /\ t.peerRec[p] \subseteq s.peerRec[p] \cup {u}
                           /\ u \in t.peerRec[p] => t.sock[u].status # "INIT"
      BY <1>4, <1>5
    <2> QED
      BY <1>4, <1>13, <1>14, <1>15, <1>16, <1>17, <1>18, <2>1, <2>2, OneCore
  <1>20. QueuesOk(t, {})
    <2>1. \A v \in Ids : /\ t.sock[v].queued \subseteq s.sock[v].queued
                         /\ t.sock[v].listener = s.sock[v].listener
                         /\ s.place[v] = "open" => t.place[v] = "open"
      BY <1>4, <1>5
    <2> QED
      BY <2>1, QueuesKept
  <1> QED
    BY <1>4, <1>5, <1>19, <1>20

\* A step of u that leaves the multiplexers' other sockets alone and takes nobody away.
LEMMA TouchCore ==
  ASSUME NEW s, NEW t, NEW u \in Ids, Core(s, {}), QueuesOk(s, {}), Alive(s, u),
         Shape(t), MuxShape(t), t.place = s.place, t.peerRec = s.peerRec,
         \A v \in Ids \ {u} : t.sock[v] = s.sock[v],
         t.sock[u].mux = s.sock[u].mux, t.sock[u].listener = s.sock[u].listener,
         t.sock[u].queued \subseteq s.sock[u].queued,
         t.sock[u].status = "INIT" => s.sock[u].status = "INIT",
         DOMAIN t.mux = DOMAIN s.mux,
         \A m \in DOMAIN s.mux : t.mux[m].refs = s.mux[m].refs /\ MuxAfter(s, t, u, m),
         Consistent(t, {}, u)
  PROVE  Core(t, {}) /\ QueuesOk(t, {})
  <1>1. RefsOk(s) /\ MuxIdsOk(s) /\ PeersOk(s) /\ MuxShape(s)
    BY DEF Core
  <1>2. \A v \in Ids : Alive(t, v) <=> Alive(s, v)
    BY DEF Alive
  <1>3. \A v \in Ids \ {u} : Same(s, t, v)
    BY DEF Same
  <1>4. RefsOk(t)
    <2>1. \A v \in Ids : t.sock[v].mux = s.sock[v].mux
      OBVIOUS
    <2> QED
      BY <1>1, <1>2, <2>1, RefsKept
  <1>5. MuxIdsOk(t)
    <2>1. \A v \in Ids : t.sock[v].status = "INIT" => s.sock[v].status = "INIT"
      OBVIOUS
    <2> QED
      BY <1>1, <2>1 DEF MuxIdsOk, MuxShape
  <1>6. \A p \in Peers : /\ t.peerRec[p] \subseteq s.peerRec[p] \cup {u}
                         /\ u \in t.peerRec[p] => t.sock[u].status # "INIT"
    BY <1>1 DEF PeersOk
  <1>7. Core(t, {})
    BY <1>2, <1>3, <1>4, <1>5, <1>6, OneCore
  <1>8. QueuesOk(t, {})
    <2>1. \A v \in Ids : /\ t.sock[v].queued \subseteq s.sock[v].queued
                         /\ t.sock[v].listener = s.sock[v].listener
                         /\ s.place[v] = "open" => t.place[v] = "open"
      OBVIOUS
    <2> QED
      BY <2>1, QueuesKept
  <1> QED
    BY <1>7, <1>8

\* A multiplexer that is left alone, when u may stay wherever it is.
LEMMA MuxLeft ==
  ASSUME NEW s, NEW t, NEW u \in Ids, Core(s, {}), NEW m \in DOMAIN s.mux,
         t.mux[m] = s.mux[m], t.sock[u].uses = s.sock[u].uses,
         Hears(s, m, u) => Hears(t, m, u), Listed(s, {}, m, u) => Listed(t, {}, m, u),
         Entered(s, m, u) => Entered(t, m, u)
  PROVE  MuxAfter(s, t, u, m)
  <1>1. ListenerOk(s) /\ ListsOk(s, {}) /\ RdvOk(s)
    BY DEF Core
  <1>2. u # Nobody
    BY SocketsAssumption DEF Ids, Nobody
  <1>3. s.mux[m].listener = u => Hears(s, m, u)
    BY <1>1, <1>2 DEF ListenerOk
  <1>4. /\ s.mux[m].list \cap s.mux[m].fresh = {}
        /\ u \in s.mux[m].list \cup s.mux[m].fresh => Listed(s, {}, m, u)
    BY <1>1 DEF ListsOk
  <1>5. /\ s.mux[m].rdv[u] <= s.sock[u].uses
        /\ s.mux[m].rdv[u] > 0 /\ s.sock[u].uses <= 1 => Entered(s, m, u)
    BY <1>1 DEF RdvOk
  <1> QED
    BY <1>3, <1>4, <1>5 DEF MuxAfter

\* The status of a socket that has left INIT changes, and its record otherwise keeps what
\* Core reads, except that it may stop to connect.
LEMMA StatusCore ==
  ASSUME NEW s, NEW t, NEW u \in Ids, Core(s, {}), QueuesOk(s, {}), Alive(s, u),
         Shape(t), t.place = s.place, t.peerRec = s.peerRec, t.mux = s.mux,
         \A v \in Ids \ {u} : t.sock[v] = s.sock[v],
         t.sock[u].mux = s.sock[u].mux, t.sock[u].listener = s.sock[u].listener,
         t.sock[u].queued = s.sock[u].queued, t.sock[u].uses = s.sock[u].uses,
         t.sock[u].opened = s.sock[u].opened, t.sock[u].listening = s.sock[u].listening,
         t.sock[u].connected = s.sock[u].connected, t.sock[u].onList = s.sock[u].onList,
         t.sock[u].connecting = TRUE => s.sock[u].connecting = TRUE,
         \/ t.sock[u].status = s.sock[u].status
         \/ /\ s.sock[u].status # "INIT" /\ t.sock[u].status # "INIT"
            /\ t.sock[u].status \in {"OPENED", "CONNECTING"} => s.sock[u].listening # TRUE
  PROVE  Core(t, {}) /\ QueuesOk(t, {})
  <1>1. Alive(t, u) <=> Alive(s, u)
    BY DEF Alive
  <1>2. \A m : /\ Hears(s, m, u) => Hears(t, m, u)
               /\ Listed(s, {}, m, u) => Listed(t, {}, m, u)
               /\ Entered(s, m, u) => Entered(t, m, u)
    BY <1>1 DEF Hears, Listed, Entered
  <1>3. \A m \in DOMAIN s.mux : t.mux[m].refs = s.mux[m].refs /\ MuxAfter(s, t, u, m)
    BY <1>2, MuxLeft
  <1>4. Consistent(t, {}, u)
    <2>1. Consistent(s, {}, u)
      BY DEF Core, StatusOk
    <2> QED
      BY <2>1 DEF Consistent
  <1>5. MuxShape(t)
    BY DEF Core, MuxShape
  <1>6. t.sock[u].status = "INIT" => s.sock[u].status = "INIT"
    OBVIOUS
  <1>7. t.sock[u].queued \subseteq s.sock[u].queued
    OBVIOUS
  <1> QED
    BY <1>3, <1>4, <1>5, <1>6, <1>7, TouchCore

\* What listen() does.
ListenTo(s, u, t) ==
  /\ Shape(t) /\ t.place = s.place /\ t.peerRec = s.peerRec
  /\ \A v \in Ids \ {u} : t.sock[v] = s.sock[v]
  /\ t.sock[u].mux = s.sock[u].mux /\ t.sock[u].listener = s.sock[u].listener
  /\ t.sock[u].queued = s.sock[u].queued /\ t.sock[u].uses = s.sock[u].uses + 1
  /\ t.sock[u].opened = s.sock[u].opened /\ t.sock[u].connected = s.sock[u].connected
  /\ t.sock[u].onList = s.sock[u].onList /\ t.sock[u].connecting = s.sock[u].connecting
  /\ \/ t.sock[u].status = s.sock[u].status /\ t.sock[u].listening = s.sock[u].listening
     \/ t.sock[u].status = "LISTENING" /\ t.sock[u].listening = TRUE
  /\ DOMAIN t.mux = DOMAIN s.mux
  /\ \A k \in DOMAIN s.mux :
       /\ DOMAIN t.mux[k] = MuxFields
       /\ t.mux[k].refs = s.mux[k].refs /\ t.mux[k].rdv = s.mux[k].rdv
       /\ t.mux[k].list = s.mux[k].list /\ t.mux[k].fresh = s.mux[k].fresh
       /\ \/ t.mux[k].listener = s.mux[k].listener
          \/ /\ k = s.sock[u].mux /\ t.mux[k].listener = u
             /\ t.sock[u].status = "LISTENING" /\ t.sock[u].listening = TRUE

\* listen(): the queues are made; the socket becomes the listener if there is none.
LEMMA ListenCore ==
  ASSUME NEW s, Core(s, {}), QueuesOk(s, {}), NEW u \in Ids, s.place[u] = "open",
         s.sock[u].status = "OPENED", NEW t,
         ListenTo(s, u, t)
  PROVE  Core(t, {}) /\ QueuesOk(t, {})
  <1> /\ Shape(t) /\ t.place = s.place /\ t.peerRec = s.peerRec
      /\ \A v \in Ids \ {u} : t.sock[v] = s.sock[v]
      /\ t.sock[u].mux = s.sock[u].mux /\ t.sock[u].listener = s.sock[u].listener
      /\ t.sock[u].queued = s.sock[u].queued /\ t.sock[u].uses = s.sock[u].uses + 1
      /\ t.sock[u].opened = s.sock[u].opened /\ t.sock[u].connected = s.sock[u].connected
      /\ t.sock[u].onList = s.sock[u].onList /\ t.sock[u].connecting = s.sock[u].connecting
      /\ \/ t.sock[u].status = s.sock[u].status /\ t.sock[u].listening = s.sock[u].listening
         \/ t.sock[u].status = "LISTENING" /\ t.sock[u].listening = TRUE
      /\ DOMAIN t.mux = DOMAIN s.mux
      /\ \A k \in DOMAIN s.mux :
           /\ DOMAIN t.mux[k] = MuxFields
           /\ t.mux[k].refs = s.mux[k].refs /\ t.mux[k].rdv = s.mux[k].rdv
           /\ t.mux[k].list = s.mux[k].list /\ t.mux[k].fresh = s.mux[k].fresh
           /\ \/ t.mux[k].listener = s.mux[k].listener
              \/ /\ k = s.sock[u].mux /\ t.mux[k].listener = u
                 /\ t.sock[u].status = "LISTENING" /\ t.sock[u].listening = TRUE
    BY DEF ListenTo
  <1>1. /\ Shape(s) /\ MuxShape(s) /\ RefsOk(s) /\ ListenerOk(s) /\ ListsOk(s, {}) /\ RdvOk(s)
        /\ Consistent(s, {}, u)
    BY DEF Core, StatusOk
  <1>2. /\ s.sock[u].uses \in Nat /\ s.sock[u].opened = TRUE
        /\ s.sock[u].listening # TRUE /\ Alive(s, u) /\ Alive(t, u)
        /\ s.sock[u].mux # Nobody
    BY <1>1 DEF Consistent, Alive
  <1>3. Consistent(t, {}, u)
    <2>1. t.sock[u].uses \in Nat
      BY <1>2
    <2>2. /\ t.sock[u].mux # Nobody /\ t.sock[u].opened = TRUE /\ t.sock[u].status # "INIT"
          /\ t.sock[u].status \in {"OPENED", "CONNECTING"} => t.sock[u].listening # TRUE
      BY <1>2
    <2> QED
      BY <2>1, <2>2 DEF Consistent
  <1>4. u # Nobody
    BY SocketsAssumption DEF Ids, Nobody
  <1>5. ASSUME NEW k \in DOMAIN s.mux PROVE MuxAfter(s, t, u, k)
    <2>1. /\ s.mux[k].list \cap s.mux[k].fresh = {}
          /\ u \in s.mux[k].list \cup s.mux[k].fresh => Listed(s, {}, k, u)
      BY <1>1 DEF ListsOk
    <2>2. Listed(s, {}, k, u) => Listed(t, {}, k, u)
      BY <1>2 DEF Listed
    <2>3. s.mux[k].listener # u
      BY <1>1, <1>2, <1>4 DEF ListenerOk, Hears
    <2>4. t.mux[k].listener = u => Hears(t, k, u)
      BY <1>2, <2>3 DEF Hears
    <2>5. s.mux[k].rdv[u] \in Nat /\ s.mux[k].rdv[u] <= s.sock[u].uses
      BY <1>1 DEF MuxShape, RdvOk
    <2>6. /\ s.mux[k].rdv[u] <= t.sock[u].uses
          /\ ~(s.mux[k].rdv[u] > 0 /\ t.sock[u].uses <= 1)
      BY <1>2, <2>5
    <2>7. /\ t.mux[k].rdv = s.mux[k].rdv /\ t.mux[k].list = s.mux[k].list
          /\ t.mux[k].fresh = s.mux[k].fresh
          /\ t.mux[k].listener = s.mux[k].listener \/ t.mux[k].listener = u
      OBVIOUS
    <2> QED
      BY <2>1, <2>2, <2>4, <2>6, <2>7 DEF MuxAfter
  <1>6. MuxShape(t)
    BY <1>1 DEF MuxShape
  <1>7. /\ \A k \in DOMAIN s.mux : t.mux[k].refs = s.mux[k].refs /\ MuxAfter(s, t, u, k)
        /\ t.sock[u].queued \subseteq s.sock[u].queued
        /\ t.sock[u].status = "INIT" => s.sock[u].status = "INIT"
    BY <1>5
  <1> QED
    BY <1>2, <1>3, <1>6, <1>7, TouchCore

\* What connect() does.
ConnectTo(s, u, t) ==
  /\ Shape(t) /\ t.place = s.place /\ t.peerRec = s.peerRec
  /\ \A v \in Ids \ {u} : t.sock[v] = s.sock[v]
  /\ t.sock[u].mux = s.sock[u].mux /\ t.sock[u].listener = s.sock[u].listener
  /\ t.sock[u].queued = s.sock[u].queued /\ t.sock[u].uses = s.sock[u].uses + 1
  /\ t.sock[u].opened = s.sock[u].opened /\ t.sock[u].listening = s.sock[u].listening
  /\ t.sock[u].status = "CONNECTING"
  /\ DOMAIN t.mux = DOMAIN s.mux
  /\ \A k \in DOMAIN s.mux :
       /\ DOMAIN t.mux[k] = MuxFields
       /\ t.mux[k].refs = s.mux[k].refs /\ t.mux[k].listener = s.mux[k].listener
       /\ t.mux[k].list = s.mux[k].list /\ t.mux[k].fresh = s.mux[k].fresh
       /\ DOMAIN t.mux[k].rdv = Ids
       /\ \A v \in Ids : t.mux[k].rdv[v] = IF v = u /\ k = s.sock[u].mux
                                          THEN s.mux[k].rdv[v] + 1 ELSE s.mux[k].rdv[v]

\* connect(): a socket that is not connected is on no list of the worker.
LEMMA ConnectCore ==
  ASSUME NEW s, Core(s, {}), QueuesOk(s, {}), NEW u \in Ids, s.place[u] = "open",
         s.sock[u].status = "OPENED", s.sock[u].connected # TRUE, NEW t,
         ConnectTo(s, u, t)
  PROVE  Core(t, {}) /\ QueuesOk(t, {})
  <1> /\ Shape(t) /\ t.place = s.place /\ t.peerRec = s.peerRec
      /\ \A v \in Ids \ {u} : t.sock[v] = s.sock[v]
      /\ t.sock[u].mux = s.sock[u].mux /\ t.sock[u].listener = s.sock[u].listener
      /\ t.sock[u].queued = s.sock[u].queued /\ t.sock[u].uses = s.sock[u].uses + 1
      /\ t.sock[u].opened = s.sock[u].opened /\ t.sock[u].listening = s.sock[u].listening
      /\ t.sock[u].status = "CONNECTING"
      /\ DOMAIN t.mux = DOMAIN s.mux
      /\ \A k \in DOMAIN s.mux :
           /\ DOMAIN t.mux[k] = MuxFields
           /\ t.mux[k].refs = s.mux[k].refs /\ t.mux[k].listener = s.mux[k].listener
           /\ t.mux[k].list = s.mux[k].list /\ t.mux[k].fresh = s.mux[k].fresh
           /\ DOMAIN t.mux[k].rdv = Ids
           /\ \A v \in Ids : t.mux[k].rdv[v] = IF v = u /\ k = s.sock[u].mux
                                              THEN s.mux[k].rdv[v] + 1 ELSE s.mux[k].rdv[v]
    BY DEF ConnectTo
  <1>1. /\ Shape(s) /\ MuxShape(s) /\ RefsOk(s) /\ ListenerOk(s) /\ ListsOk(s, {}) /\ RdvOk(s)
        /\ Consistent(s, {}, u)
    BY DEF Core, StatusOk
  <1>2. /\ s.sock[u].uses \in Nat /\ s.sock[u].opened = TRUE
        /\ s.sock[u].listening # TRUE /\ Alive(s, u) /\ Alive(t, u)
        /\ s.sock[u].mux # Nobody
    BY <1>1 DEF Consistent, Alive
  <1>3. Consistent(t, {}, u)
    <2>1. t.sock[u].uses \in Nat
      BY <1>2
    <2>2. /\ t.sock[u].mux # Nobody /\ t.sock[u].opened = TRUE /\ t.sock[u].status # "INIT"
          /\ t.sock[u].status \in {"OPENED", "CONNECTING"} => t.sock[u].listening # TRUE
      BY <1>2
    <2> QED
      BY <2>1, <2>2 DEF Consistent
  <1>4. u # Nobody
    BY SocketsAssumption DEF Ids, Nobody
  <1>5. ASSUME NEW k \in DOMAIN s.mux
        PROVE  /\ \A v \in Ids : t.mux[k].rdv[v] \in Nat
               /\ \A v \in Ids \ {u} : t.mux[k].rdv[v] = s.mux[k].rdv[v]
               /\ t.mux[k].rdv[u] <= t.sock[u].uses
               /\ t.mux[k].rdv[u] > 0 /\ t.sock[u].uses <= 1 => k = s.sock[u].mux
    <2>1. /\ \A v \in Ids : s.mux[k].rdv[v] \in Nat
          /\ s.mux[k].rdv[u] <= s.sock[u].uses
      BY <1>1 DEF MuxShape, RdvOk
    <2>2. \A v \in Ids \ {u} : t.mux[k].rdv[v] = s.mux[k].rdv[v]
      OBVIOUS
    <2> DEFINE n == s.mux[k].rdv[u]
               r == t.mux[k].rdv[u]
    <2>3. n \in Nat /\ n <= s.sock[u].uses
      BY <2>1
    <2>4. r = IF k = s.sock[u].mux THEN n + 1 ELSE n
      OBVIOUS
    <2> HIDE DEF n, r
    <2>5. /\ r \in Nat /\ r <= t.sock[u].uses
          /\ r > 0 /\ t.sock[u].uses <= 1 => k = s.sock[u].mux
      BY <1>2, <2>3, <2>4
    <2> QED
      BY <2>1, <2>2, <2>5 DEF r
  <1>6. ASSUME NEW k \in DOMAIN s.mux PROVE MuxAfter(s, t, u, k)
    <2>1. s.mux[k].list \cap s.mux[k].fresh = {} /\ u \notin s.mux[k].list \cup s.mux[k].fresh
      BY <1>1 DEF ListsOk, Listed
    <2>2. s.mux[k].listener # u
      BY <1>1, <1>2, <1>4 DEF ListenerOk, Hears
    <2>3. k = s.sock[u].mux => Entered(t, k, u)
      BY <1>2 DEF Entered
    <2>4. /\ t.mux[k].list = s.mux[k].list
          /\ t.mux[k].fresh = s.mux[k].fresh /\ t.mux[k].listener = s.mux[k].listener
      OBVIOUS
    <2> QED
      BY <1>5, <2>1, <2>2, <2>3, <2>4 DEF MuxAfter
  <1>7. MuxShape(t)
    BY <1>1, <1>5 DEF MuxShape
  <1>8. /\ \A k \in DOMAIN s.mux : t.mux[k].refs = s.mux[k].refs /\ MuxAfter(s, t, u, k)
        /\ t.sock[u].queued \subseteq s.sock[u].queued
        /\ t.sock[u].status = "INIT" => s.sock[u].status = "INIT"
    BY <1>6
  <1> QED
    BY <1>2, <1>3, <1>7, <1>8, TouchCore

\* What the last response does.
ResponseTo(s, u, t) ==
  /\ Shape(t) /\ t.place = s.place /\ t.peerRec = s.peerRec
  /\ \A v \in Ids \ {u} : t.sock[v] = s.sock[v]
  /\ t.sock[u].mux = s.sock[u].mux /\ t.sock[u].listener = s.sock[u].listener
  /\ t.sock[u].queued = s.sock[u].queued /\ t.sock[u].uses = s.sock[u].uses
  /\ t.sock[u].opened = s.sock[u].opened /\ t.sock[u].listening = s.sock[u].listening
  /\ t.sock[u].connected = TRUE /\ t.sock[u].connecting # TRUE /\ t.sock[u].onList = TRUE
  /\ t.sock[u].status \in {s.sock[u].status, "CONNECTED"}
  /\ DOMAIN t.mux = DOMAIN s.mux
  /\ \A k \in DOMAIN s.mux :
       /\ DOMAIN t.mux[k] = MuxFields
       /\ t.mux[k].refs = s.mux[k].refs /\ t.mux[k].listener = s.mux[k].listener
       /\ t.mux[k].list = s.mux[k].list
       /\ t.mux[k].fresh = IF k = s.sock[u].mux THEN s.mux[k].fresh \cup {u} ELSE s.mux[k].fresh
       /\ DOMAIN t.mux[k].rdv = Ids
       /\ \A v \in Ids \ {u} : t.mux[k].rdv[v] = s.mux[k].rdv[v]
       /\ t.mux[k].rdv[u] \in Nat /\ t.mux[k].rdv[u] <= s.mux[k].rdv[u]

\* The last response: what connects is on no list, so it can be handed to the worker.
LEMMA ResponseCore ==
  ASSUME NEW s, Core(s, {}), QueuesOk(s, {}), NEW u \in Ids, Alive(s, u),
         s.sock[u].connecting = TRUE, NEW t,
         ResponseTo(s, u, t)
  PROVE  Core(t, {}) /\ QueuesOk(t, {})
  <1> /\ Shape(t) /\ t.place = s.place /\ t.peerRec = s.peerRec
      /\ \A v \in Ids \ {u} : t.sock[v] = s.sock[v]
      /\ t.sock[u].mux = s.sock[u].mux /\ t.sock[u].listener = s.sock[u].listener
      /\ t.sock[u].queued = s.sock[u].queued /\ t.sock[u].uses = s.sock[u].uses
      /\ t.sock[u].opened = s.sock[u].opened /\ t.sock[u].listening = s.sock[u].listening
      /\ t.sock[u].connected = TRUE /\ t.sock[u].connecting # TRUE /\ t.sock[u].onList = TRUE
      /\ t.sock[u].status \in {s.sock[u].status, "CONNECTED"}
      /\ DOMAIN t.mux = DOMAIN s.mux
      /\ \A k \in DOMAIN s.mux :
           /\ DOMAIN t.mux[k] = MuxFields
           /\ t.mux[k].refs = s.mux[k].refs /\ t.mux[k].listener = s.mux[k].listener
           /\ t.mux[k].list = s.mux[k].list
           /\ t.mux[k].fresh = IF k = s.sock[u].mux THEN s.mux[k].fresh \cup {u} ELSE s.mux[k].fresh
           /\ DOMAIN t.mux[k].rdv = Ids
           /\ \A v \in Ids \ {u} : t.mux[k].rdv[v] = s.mux[k].rdv[v]
           /\ t.mux[k].rdv[u] \in Nat /\ t.mux[k].rdv[u] <= s.mux[k].rdv[u]
    BY DEF ResponseTo
  <1>1. /\ Shape(s) /\ MuxShape(s) /\ RefsOk(s) /\ ListenerOk(s) /\ ListsOk(s, {}) /\ RdvOk(s)
        /\ Consistent(s, {}, u)
    BY DEF Core, StatusOk
  <1>2. s.sock[u].mux # Nobody /\ s.sock[u].status # "INIT" /\ s.sock[u].uses \in Nat
    BY <1>1 DEF Consistent
  <1>3. Alive(t, u)
    BY DEF Alive
  <1>4. Consistent(t, {}, u)
    BY <1>1, <1>2 DEF Consistent
  <1>5. u # Nobody
    BY SocketsAssumption DEF Ids, Nobody
  <1>6. ASSUME NEW k \in DOMAIN s.mux PROVE MuxAfter(s, t, u, k)
    <2>1. s.mux[k].list \cap s.mux[k].fresh = {} /\ u \notin s.mux[k].list \cup s.mux[k].fresh
      BY <1>1 DEF ListsOk, Listed
    <2>2. k = s.sock[u].mux => Listed(t, {}, k, u)
      BY <1>3 DEF Listed
    <2>3. s.mux[k].listener = u => Hears(t, k, u)
      <3>1. s.mux[k].listener = u => Hears(s, k, u)
        BY <1>1, <1>5 DEF ListenerOk
      <3> QED
        BY <1>3, <3>1 DEF Hears
    <2>4. /\ t.mux[k].list \cap t.mux[k].fresh = {}
          /\ \A v \in t.mux[k].list \cup t.mux[k].fresh : v = u \/ v \in s.mux[k].list \cup s.mux[k].fresh
          /\ u \in t.mux[k].list \cup t.mux[k].fresh => k = s.sock[u].mux
      <3>1. t.mux[k].list = s.mux[k].list
        OBVIOUS
      <3>2. \/ k = s.sock[u].mux /\ t.mux[k].fresh = s.mux[k].fresh \cup {u}
            \/ t.mux[k].fresh = s.mux[k].fresh
        OBVIOUS
      <3> QED
        BY <2>1, <3>1, <3>2
    <2>5. /\ s.mux[k].rdv[u] \in Nat /\ s.mux[k].rdv[u] <= s.sock[u].uses
          /\ s.mux[k].rdv[u] > 0 /\ s.sock[u].uses <= 1 => Entered(s, k, u)
      BY <1>1 DEF RdvOk, MuxShape
    <2>6. Entered(s, k, u) => Entered(t, k, u)
      BY <1>3 DEF Entered
    <2>7. t.mux[k].rdv[u] \in Nat /\ t.mux[k].rdv[u] <= s.mux[k].rdv[u]
      OBVIOUS
    <2>8. /\ t.mux[k].rdv[u] <= t.sock[u].uses
          /\ t.mux[k].rdv[u] > 0 /\ t.sock[u].uses <= 1 => Entered(t, k, u)
      BY <1>2, <2>5, <2>6, <2>7
    <2>9. /\ t.mux[k].listener = s.mux[k].listener
          /\ \A v \in Ids \ {u} : t.mux[k].rdv[v] = s.mux[k].rdv[v]
      OBVIOUS
    <2> QED
      BY <2>2, <2>3, <2>4, <2>8, <2>9 DEF MuxAfter
  <1>7. MuxShape(t)
    <2> SUFFICES ASSUME NEW k \in DOMAIN s.mux
                 PROVE  /\ k \in Ids /\ DOMAIN t.mux[k] = MuxFields /\ DOMAIN t.mux[k].rdv = Ids
                        /\ \A v \in Ids : t.mux[k].rdv[v] \in Nat
      BY DEF MuxShape
    <2>1. k \in Ids /\ \A v \in Ids : s.mux[k].rdv[v] \in Nat
      BY <1>1 DEF MuxShape
    <2>2. /\ DOMAIN t.mux[k] = MuxFields /\ DOMAIN t.mux[k].rdv = Ids /\ t.mux[k].rdv[u] \in Nat
          /\ \A v \in Ids \ {u} : t.mux[k].rdv[v] = s.mux[k].rdv[v]
      OBVIOUS
    <2> QED
      BY <2>1, <2>2
  <1>8. /\ \A k \in DOMAIN s.mux : t.mux[k].refs = s.mux[k].refs /\ MuxAfter(s, t, u, k)
        /\ t.sock[u].queued \subseteq s.sock[u].queued
        /\ t.sock[u].status = "INIT" => s.sock[u].status = "INIT"
    BY <1>2, <1>6
  <1> QED
    BY <1>4, <1>7, <1>8, TouchCore

\* What the worker does to its list.
ListTo(s, m, u, t) ==
  /\ Shape(t) /\ t.place = s.place /\ t.peerRec = s.peerRec
  /\ \A v \in Ids \ {u} : t.sock[v] = s.sock[v]
  /\ t.sock[u].mux = s.sock[u].mux /\ t.sock[u].listener = s.sock[u].listener
  /\ t.sock[u].queued = s.sock[u].queued /\ t.sock[u].uses = s.sock[u].uses
  /\ t.sock[u].opened = s.sock[u].opened /\ t.sock[u].listening = s.sock[u].listening
  /\ t.sock[u].connected = s.sock[u].connected
  /\ t.sock[u].connecting = s.sock[u].connecting /\ t.sock[u].status = s.sock[u].status
  /\ DOMAIN t.mux = DOMAIN s.mux
  /\ \A k \in DOMAIN s.mux :
       /\ DOMAIN t.mux[k] = MuxFields
       /\ t.mux[k].refs = s.mux[k].refs /\ t.mux[k].listener = s.mux[k].listener
       /\ t.mux[k].rdv = s.mux[k].rdv
       /\ k # m => t.mux[k].list = s.mux[k].list /\ t.mux[k].fresh = s.mux[k].fresh
  /\ t.mux[m].list \cap t.mux[m].fresh = {}
  /\ t.mux[m].list \cup t.mux[m].fresh \subseteq s.mux[m].list \cup s.mux[m].fresh
  /\ u \in t.mux[m].list \cup t.mux[m].fresh => t.sock[u].onList = s.sock[u].onList

\* The worker moves sockets from the new entries to the list, or takes u off it.
LEMMA ListCore ==
  ASSUME NEW s, Core(s, {}), QueuesOk(s, {}), NEW m \in DOMAIN s.mux,
         NEW u \in s.mux[m].list \cup s.mux[m].fresh, NEW t,
         ListTo(s, m, u, t)
  PROVE  Core(t, {}) /\ QueuesOk(t, {})
  <1> /\ Shape(t) /\ t.place = s.place /\ t.peerRec = s.peerRec
      /\ \A v \in Ids \ {u} : t.sock[v] = s.sock[v]
      /\ t.sock[u].mux = s.sock[u].mux /\ t.sock[u].listener = s.sock[u].listener
      /\ t.sock[u].queued = s.sock[u].queued /\ t.sock[u].uses = s.sock[u].uses
      /\ t.sock[u].opened = s.sock[u].opened /\ t.sock[u].listening = s.sock[u].listening
      /\ t.sock[u].connected = s.sock[u].connected
      /\ t.sock[u].connecting = s.sock[u].connecting /\ t.sock[u].status = s.sock[u].status
      /\ DOMAIN t.mux = DOMAIN s.mux
      /\ \A k \in DOMAIN s.mux :
           /\ DOMAIN t.mux[k] = MuxFields
           /\ t.mux[k].refs = s.mux[k].refs /\ t.mux[k].listener = s.mux[k].listener
           /\ t.mux[k].rdv = s.mux[k].rdv
           /\ k # m => t.mux[k].list = s.mux[k].list /\ t.mux[k].fresh = s.mux[k].fresh
      /\ t.mux[m].list \cap t.mux[m].fresh = {}
      /\ t.mux[m].list \cup t.mux[m].fresh \subseteq s.mux[m].list \cup s.mux[m].fresh
      /\ u \in t.mux[m].list \cup t.mux[m].fresh => t.sock[u].onList = s.sock[u].onList
    BY DEF ListTo
  <1>1. /\ Shape(s) /\ MuxShape(s) /\ RefsOk(s) /\ ListenerOk(s) /\ ListsOk(s, {}) /\ RdvOk(s)
    BY DEF Core
  <1>2. Listed(s, {}, m, u)
    BY <1>1 DEF ListsOk
  <1>3. u \in Ids /\ Alive(s, u) /\ Alive(t, u) /\ s.sock[u].mux = m
    BY <1>2 DEF Listed, Alive
  <1>4. Consistent(t, {}, u)
    <2>1. Consistent(s, {}, u)
      BY <1>3 DEF Core, StatusOk
    <2> QED
      BY <2>1 DEF Consistent
  <1>5. u # Nobody
    BY <1>3, SocketsAssumption DEF Ids, Nobody
  <1>6. ASSUME NEW k \in DOMAIN s.mux PROVE MuxAfter(s, t, u, k)
    <2>1. t.mux[k].listener = u => Hears(t, k, u)
      <3>1. s.mux[k].listener = u => Hears(s, k, u)
        BY <1>1, <1>5 DEF ListenerOk
      <3> QED
        BY <1>3, <3>1 DEF Hears
    <2>2. /\ s.mux[k].rdv[u] <= s.sock[u].uses
          /\ s.mux[k].rdv[u] > 0 /\ s.sock[u].uses <= 1 => Entered(s, k, u)
      BY <1>1, <1>3 DEF RdvOk
    <2>3. Entered(s, k, u) => Entered(t, k, u)
      BY <1>3 DEF Entered
    <2>4. /\ t.mux[k].rdv[u] <= t.sock[u].uses
          /\ t.mux[k].rdv[u] > 0 /\ t.sock[u].uses <= 1 => Entered(t, k, u)
      BY <2>2, <2>3
    <2>5. /\ t.mux[k].list \cap t.mux[k].fresh = {}
          /\ t.mux[k].list \cup t.mux[k].fresh \subseteq s.mux[k].list \cup s.mux[k].fresh
      BY <1>1 DEF ListsOk
    <2>6. u \in t.mux[k].list \cup t.mux[k].fresh => Listed(t, {}, k, u)
      <3>1. CASE k = m
        BY <1>2, <1>3, <3>1 DEF Listed
      <3>2. CASE k # m
        BY <1>1, <1>3, <2>5, <3>2 DEF ListsOk, Listed
      <3> QED
        BY <3>1, <3>2
    <2>7. t.mux[k].listener = s.mux[k].listener /\ t.mux[k].rdv = s.mux[k].rdv
      OBVIOUS
    <2> QED
      BY <2>1, <2>4, <2>5, <2>6, <2>7 DEF MuxAfter
  <1>7. MuxShape(t)
    BY <1>1 DEF MuxShape
  <1>8. /\ \A k \in DOMAIN s.mux : t.mux[k].refs = s.mux[k].refs /\ MuxAfter(s, t, u, k)
        /\ t.sock[u].queued \subseteq s.sock[u].queued
        /\ t.sock[u].status = "INIT" => s.sock[u].status = "INIT"
    BY <1>6
  <1> QED
    BY <1>3, <1>4, <1>7, <1>8, TouchCore

\* Nothing of a multiplexer or a queue is a socket that is not alive.
LEMMA NotAliveNowhere ==
  ASSUME NEW s, Core(s, {}), NEW u \in Ids, ~Alive(s, u)
  PROVE  /\ s.sock[u].mux = Nobody /\ s.sock[u].connecting # TRUE /\ s.sock[u].queued = {}
         /\ s.sock[u].status = "INIT" /\ s.sock[u].listening # TRUE /\ s.sock[u].uses \in Nat
         /\ \A m \in DOMAIN s.mux :
              /\ s.mux[m].listener # u /\ u \notin s.mux[m].list \cup s.mux[m].fresh
              /\ s.mux[m].list \cap s.mux[m].fresh = {}
              /\ s.mux[m].rdv[u] <= s.sock[u].uses
              /\ ~(s.mux[m].rdv[u] > 0 /\ s.sock[u].uses <= 1)
  <1>1. EmptyOk(s) /\ ListenerOk(s) /\ ListsOk(s, {}) /\ RdvOk(s) /\ Consistent(s, {}, u)
    BY DEF Core, StatusOk
  <1>2. u # Nobody
    BY SocketsAssumption DEF Ids, Nobody
  <1>3. /\ s.sock[u].mux = Nobody /\ s.sock[u].connecting # TRUE /\ s.sock[u].queued = {}
        /\ s.sock[u].status = "INIT"
    BY <1>1 DEF EmptyOk
  <1>4. s.sock[u].listening # TRUE /\ s.sock[u].uses \in Nat
    BY <1>1, <1>3 DEF Consistent
  <1>5. \A m : ~Hears(s, m, u) /\ ~Listed(s, {}, m, u) /\ ~Entered(s, m, u)
    BY DEF Hears, Listed, Entered
  <1>6. \A m \in DOMAIN s.mux : s.mux[m].listener # u
    BY <1>1, <1>2, <1>5 DEF ListenerOk
  <1>7. \A m \in DOMAIN s.mux : /\ u \notin s.mux[m].list \cup s.mux[m].fresh
                                /\ s.mux[m].list \cap s.mux[m].fresh = {}
    BY <1>1, <1>5 DEF ListsOk
  <1>8. \A m \in DOMAIN s.mux : /\ s.mux[m].rdv[u] <= s.sock[u].uses
                                /\ ~(s.mux[m].rdv[u] > 0 /\ s.sock[u].uses <= 1)
    BY <1>1, <1>5 DEF RdvOk
  <1> QED
    BY <1>3, <1>4, <1>6, <1>7, <1>8

\* newSocket.
LEMMA NewCore ==
  ASSUME NEW s, Core(s, {}), QueuesOk(s, {}), NEW u \in Ids, s.place[u] = "none", NEW t,
         Shape(t), t.sock = s.sock, t.mux = s.mux, t.peerRec = s.peerRec, t.place[u] = "open",
         \A v \in Ids \ {u} : t.place[v] = s.place[v]
  PROVE  Core(t, {}) /\ QueuesOk(t, {})
  <1>1. MuxShape(s) /\ MuxIdsOk(s) /\ RefsOk(s) /\ PeersOk(s)
    BY DEF Core
  <1>2. ~Alive(s, u) /\ Alive(t, u)
    BY DEF Alive
  <1>3. /\ s.sock[u].mux = Nobody /\ s.sock[u].connecting # TRUE /\ s.sock[u].queued = {}
        /\ s.sock[u].status = "INIT" /\ s.sock[u].listening # TRUE /\ s.sock[u].uses \in Nat
        /\ \A m \in DOMAIN s.mux :
              /\ s.mux[m].listener # u /\ u \notin s.mux[m].list \cup s.mux[m].fresh
              /\ s.mux[m].list \cap s.mux[m].fresh = {}
              /\ s.mux[m].rdv[u] <= s.sock[u].uses
              /\ ~(s.mux[m].rdv[u] > 0 /\ s.sock[u].uses <= 1)
    BY <1>2, NotAliveNowhere
  <1>4. \A v \in Ids \ {u} : Same(s, t, v)
    BY DEF Same
  <1>5. MuxIdsOk(t)
    <2>1. \A m \in DOMAIN s.mux : m \in Ids /\ m # u
      BY <1>1 DEF MuxShape, MuxIdsOk
    <2> QED
      BY <1>1, <2>1 DEF MuxIdsOk
  <1>6. RefsOk(t)
    <2>1. ASSUME NEW m \in DOMAIN s.mux PROVE Users(t, m) = Users(s, m)
      <3>1. m # Nobody
        BY <1>1, SocketsAssumption DEF MuxShape, Ids, Nobody
      <3>2. \A v \in Ids \ {u} : Alive(t, v) <=> Alive(s, v)
        BY DEF Alive
      <3> QED
        BY <1>3, <3>1, <3>2 DEF Users
    <2> QED
      BY <1>1, <2>1 DEF RefsOk
  <1>7. \A m \in DOMAIN t.mux : MuxAfter(s, t, u, m)
    BY <1>3 DEF MuxAfter
  <1>8. Consistent(t, {}, u)
    BY <1>3 DEF Consistent
  <1>9. \A p \in Peers : /\ t.peerRec[p] \subseteq s.peerRec[p] \cup {u}
                         /\ u \in t.peerRec[p] => t.sock[u].status # "INIT"
    BY <1>1 DEF PeersOk
  <1>10. MuxShape(t)
    BY <1>1 DEF MuxShape
  <1>11. Core(t, {})
    BY <1>2, <1>4, <1>5, <1>6, <1>7, <1>8, <1>9, <1>10, OneCore
  <1>12. QueuesOk(t, {})
    <2>1. \A v \in Ids : /\ t.sock[v].queued \subseteq s.sock[v].queued
                         /\ t.sock[v].listener = s.sock[v].listener
                         /\ s.place[v] = "open" => t.place[v] = "open"
      OBVIOUS
    <2> QED
      BY <2>1, QueuesKept
  <1> QED
    BY <1>11, <1>12

\* What newConnection makes: a socket u that shares the multiplexer k of the listener l.
ConnectionTo(s, l, u, k, t) ==
  /\ Shape(t) /\ t.place[u] = "open"
  /\ \A v \in Ids \ {u} :
       /\ t.place[v] = s.place[v]
       /\ t.sock[v].status = s.sock[v].status /\ t.sock[v].opened = s.sock[v].opened
       /\ t.sock[v].listening = s.sock[v].listening /\ t.sock[v].connecting = s.sock[v].connecting
       /\ t.sock[v].connected = s.sock[v].connected /\ t.sock[v].onList = s.sock[v].onList
       /\ t.sock[v].mux = s.sock[v].mux /\ t.sock[v].uses = s.sock[v].uses
       /\ t.sock[v].listener = s.sock[v].listener
       /\ t.sock[v].queued = IF v = l THEN s.sock[v].queued \cup {u} ELSE s.sock[v].queued
  /\ t.sock[u].status = "CONNECTED" /\ t.sock[u].opened = TRUE /\ t.sock[u].onList = TRUE
  /\ t.sock[u].connected = TRUE /\ t.sock[u].connecting # TRUE
  /\ t.sock[u].mux = k /\ t.sock[u].listener = l
  /\ t.sock[u].listening = s.sock[u].listening /\ t.sock[u].uses = s.sock[u].uses
  /\ t.sock[u].queued = s.sock[u].queued
  /\ DOMAIN t.mux = DOMAIN s.mux
  /\ \A m \in DOMAIN s.mux \ {k} : t.mux[m] = s.mux[m]
  /\ DOMAIN t.mux[k] = MuxFields
  /\ t.mux[k].refs = s.mux[k].refs + 1 /\ t.mux[k].listener = s.mux[k].listener
  /\ t.mux[k].rdv = s.mux[k].rdv /\ t.mux[k].list = s.mux[k].list
  /\ t.mux[k].fresh = s.mux[k].fresh \cup {u}
  /\ \A q \in Peers : t.peerRec[q] \subseteq s.peerRec[q] \cup {u}

\* That is what Connection does.
LEMMA ConnectionEffect ==
  ASSUME NEW s, Shape(s), MuxShape(s), NEW u \in Ids, NEW l \in Ids, l # u, NEW p \in Peers,
         NEW k, k = s.sock[l].mux, k \in DOMAIN s.mux, NEW t, t = Connection(s, l, u, p)
  PROVE  ConnectionTo(s, l, u, k, t)
  <1> DEFINE a == Opened(s, u)
             b == Joined(a, u, k)
             made == Registered(b, u)
             r == [made EXCEPT !.place[u] = "open", !.sock[u].status = "CONNECTED",
                               !.sock[u].listener = l, !.sock[u].peer = p,
                               !.peerRec[p] = @ \cup {u},
                               !.sock[l].queued = @ \cup {u}]
  <1>1. t = r
    BY DEF Connection
  <1>2. /\ Shape(a) /\ a.place = s.place /\ a.peerRec = s.peerRec /\ a.mux = s.mux
        /\ \A v \in Ids \ {u} : a.sock[v] = s.sock[v]
        /\ a.sock[u] = [s.sock[u] EXCEPT !.opened = TRUE, !.onList = FALSE, !.status = "OPENED"]
    BY DEF Shape, Opened, SockFields
  <1> HIDE DEF a
  <1>3. /\ Shape(b) /\ b.place = s.place /\ b.peerRec = s.peerRec
        /\ \A v \in Ids \ {u} : b.sock[v] = s.sock[v]
        /\ b.sock[u] = [a.sock[u] EXCEPT !.mux = k]
    BY <1>2 DEF Joined, Shape, SockFields
  <1>4. /\ DOMAIN b.mux = DOMAIN s.mux
        /\ \A m \in DOMAIN s.mux \ {k} : b.mux[m] = s.mux[m]
        /\ b.mux[k] = [s.mux[k] EXCEPT !.refs = @ + 1]
    BY <1>2 DEF Joined, Shape
  <1> HIDE DEF b
  <1>5. \A v \in Ids : DOMAIN s.sock[v] = SockFields /\ DOMAIN a.sock[v] = SockFields
                       /\ DOMAIN b.sock[v] = SockFields
    BY <1>2, <1>3 DEF Shape
  <1>6. DOMAIN s.mux[k] = MuxFields
    BY DEF MuxShape
  <1>7. /\ a.sock[u].opened = TRUE
        /\ a.sock[u].listening = s.sock[u].listening /\ a.sock[u].uses = s.sock[u].uses
        /\ a.sock[u].queued = s.sock[u].queued
    BY <1>2, <1>5 DEF SockFields
  <1>8. /\ b.sock[u].opened = TRUE /\ b.sock[u].mux = k
        /\ b.sock[u].listening = s.sock[u].listening /\ b.sock[u].uses = s.sock[u].uses
        /\ b.sock[u].queued = s.sock[u].queued
    BY <1>3, <1>5, <1>7 DEF SockFields
  <1>9. /\ DOMAIN b.mux[k] = MuxFields
        /\ b.mux[k].refs = s.mux[k].refs + 1 /\ b.mux[k].listener = s.mux[k].listener
        /\ b.mux[k].rdv = s.mux[k].rdv /\ b.mux[k].list = s.mux[k].list
        /\ b.mux[k].fresh = s.mux[k].fresh
    BY <1>4, <1>6 DEF MuxFields
  <1>10. /\ Shape(made) /\ made.place = s.place /\ made.peerRec = s.peerRec
         /\ \A v \in Ids \ {u} : made.sock[v] = s.sock[v]
         /\ made.sock[u] = [b.sock[u] EXCEPT !.connected = TRUE, !.connecting = FALSE,
                                             !.onList = TRUE]
    BY <1>3 DEF Registered, Shape, SockFields
  <1>11. /\ DOMAIN made.mux = DOMAIN s.mux
         /\ \A m \in DOMAIN s.mux \ {k} : made.mux[m] = s.mux[m]
         /\ made.mux[k] = [b.mux[k] EXCEPT !.fresh = @ \cup {u}]
    <2> DEFINE x == b.sock[u].mux
    <2>1. Registered(b, u) = [b EXCEPT !.sock[u].connected = TRUE, !.sock[u].connecting = FALSE,
                                       !.sock[u].onList = TRUE, !.mux[x].fresh = @ \cup {u}]
      BY DEF Registered
    <2>2. x = k
      BY <1>8
    <2> HIDE DEF x
    <2>3. made.mux = [b.mux EXCEPT ![x].fresh = @ \cup {u}]
      BY <1>3, <2>1 DEF Shape
    <2> HIDE DEF made
    <2> QED
      BY <1>4, <2>2, <2>3
  <1> HIDE DEF made
  <1>11a. DOMAIN made.mux = DOMAIN s.mux /\ \A m \in DOMAIN s.mux \ {k} : made.mux[m] = s.mux[m]
    BY <1>11
  <1>12. /\ DOMAIN made.mux[k] = MuxFields
         /\ made.mux[k].refs = s.mux[k].refs + 1 /\ made.mux[k].listener = s.mux[k].listener
         /\ made.mux[k].rdv = s.mux[k].rdv /\ made.mux[k].list = s.mux[k].list
         /\ made.mux[k].fresh = s.mux[k].fresh \cup {u}
    BY <1>9, <1>11 DEF MuxFields
  <1>13. /\ made.sock[u].opened = TRUE /\ made.sock[u].mux = k /\ made.sock[u].onList = TRUE
         /\ made.sock[u].connected = TRUE /\ made.sock[u].connecting = FALSE
         /\ made.sock[u].listening = s.sock[u].listening /\ made.sock[u].uses = s.sock[u].uses
         /\ made.sock[u].queued = s.sock[u].queued
    BY <1>5, <1>8, <1>10 DEF SockFields
  <1>14. Shape(r) /\ r.mux = made.mux /\ r.place = [made.place EXCEPT ![u] = "open"]
         /\ r.peerRec = [made.peerRec EXCEPT ![p] = @ \cup {u}]
    BY <1>10 DEF Shape, SockFields
  <1>15. /\ \A v \in Ids \ {u, l} : r.sock[v] = s.sock[v]
         /\ r.sock[l] = [s.sock[l] EXCEPT !.queued = @ \cup {u}]
         /\ r.sock[u] = [made.sock[u] EXCEPT !.status = "CONNECTED", !.listener = l, !.peer = p]
    BY <1>10 DEF Shape, SockFields
  <1>14a. r.mux = made.mux
    BY <1>14
  <1>16. DOMAIN made.sock[u] = SockFields /\ DOMAIN made.place = Ids /\ DOMAIN made.peerRec = Peers
    BY <1>10 DEF Shape
  <1> HIDE DEF r
  <1>17. /\ r.sock[u].status = "CONNECTED" /\ r.sock[u].opened = TRUE /\ r.sock[u].onList = TRUE
         /\ r.sock[u].connected = TRUE /\ r.sock[u].connecting # TRUE
         /\ r.sock[u].mux = k /\ r.sock[u].listener = l
         /\ r.sock[u].listening = s.sock[u].listening /\ r.sock[u].uses = s.sock[u].uses
         /\ r.sock[u].queued = s.sock[u].queued
    <2> DEFINE c == made.sock[u]
               d == r.sock[u]
    <2>1. d = [c EXCEPT !.status = "CONNECTED", !.listener = l, !.peer = p] /\ DOMAIN c = SockFields
      BY <1>15, <1>16
    <2> HIDE DEF c, d
    <2>2. /\ d.status = "CONNECTED" /\ d.listener = l /\ d.opened = c.opened /\ d.onList = c.onList
          /\ d.connected = c.connected /\ d.connecting = c.connecting /\ d.mux = c.mux
          /\ d.listening = c.listening /\ d.uses = c.uses /\ d.queued = c.queued
      BY <2>1 DEF SockFields
    <2> QED
      BY <1>13, <2>2 DEF c, d
  <1>18. /\ r.sock[l].status = s.sock[l].status /\ r.sock[l].opened = s.sock[l].opened
         /\ r.sock[l].listening = s.sock[l].listening /\ r.sock[l].connecting = s.sock[l].connecting
         /\ r.sock[l].connected = s.sock[l].connected /\ r.sock[l].onList = s.sock[l].onList
         /\ r.sock[l].mux = s.sock[l].mux /\ r.sock[l].uses = s.sock[l].uses
         /\ r.sock[l].listener = s.sock[l].listener
         /\ r.sock[l].queued = s.sock[l].queued \cup {u}
    BY <1>5, <1>15 DEF SockFields
  <1>19. ASSUME NEW v \in Ids \ {u}
         PROVE  /\ r.place[v] = s.place[v]
                /\ r.sock[v].status = s.sock[v].status /\ r.sock[v].opened = s.sock[v].opened
                /\ r.sock[v].listening = s.sock[v].listening
                /\ r.sock[v].connecting = s.sock[v].connecting
                /\ r.sock[v].connected = s.sock[v].connected /\ r.sock[v].onList = s.sock[v].onList
                /\ r.sock[v].mux = s.sock[v].mux /\ r.sock[v].uses = s.sock[v].uses
                /\ r.sock[v].listener = s.sock[v].listener
                /\ r.sock[v].queued = IF v = l THEN s.sock[v].queued \cup {u} ELSE s.sock[v].queued
    <2>1. r.place[v] = s.place[v]
      BY <1>10, <1>14, <1>16
    <2>2. CASE v = l
      BY <1>18, <2>1, <2>2
    <2>3. CASE v # l
      BY <1>15, <2>1, <2>3
    <2> QED
      BY <2>2, <2>3
  <1>20. r.place[u] = "open" /\ \A q \in Peers : r.peerRec[q] \subseteq s.peerRec[q] \cup {u}
    BY <1>10, <1>14, <1>16
  <1>21. /\ DOMAIN r.mux = DOMAIN s.mux
         /\ \A m \in DOMAIN s.mux \ {k} : r.mux[m] = s.mux[m]
         /\ DOMAIN r.mux[k] = MuxFields
         /\ r.mux[k].refs = s.mux[k].refs + 1 /\ r.mux[k].listener = s.mux[k].listener
         /\ r.mux[k].rdv = s.mux[k].rdv /\ r.mux[k].list = s.mux[k].list
         /\ r.mux[k].fresh = s.mux[k].fresh \cup {u}
    BY <1>11a, <1>12, <1>14a
  <1>22. ConnectionTo(s, l, u, k, r)
    BY <1>14, <1>17, <1>19, <1>20, <1>21 DEF ConnectionTo
  <1> QED
    BY <1>1, <1>22

\* newConnection: the new socket is counted, listed and queued.
LEMMA ConnectionCore ==
  ASSUME NEW s, Core(s, {}), QueuesOk(s, {}), NEW u \in Ids, s.place[u] = "none",
         NEW l \in Ids, Alive(s, l), NEW p \in Peers,
         NEW k \in DOMAIN s.mux, k = s.sock[l].mux, NEW t, t = Connection(s, l, u, p)
  PROVE  Core(t, {}) /\ QueuesOk(t, {})
  <1>1. Shape(s) /\ MuxShape(s) /\ MuxIdsOk(s) /\ RefsOk(s) /\ PeersOk(s)
    BY DEF Core
  <1>2. ~Alive(s, u) /\ l # u
    BY DEF Alive
  <1>3. ConnectionTo(s, l, u, k, t)
    BY <1>1, <1>2, ConnectionEffect
  <1>4. /\ s.sock[u].mux = Nobody /\ s.sock[u].connecting # TRUE /\ s.sock[u].queued = {}
        /\ s.sock[u].status = "INIT" /\ s.sock[u].listening # TRUE /\ s.sock[u].uses \in Nat
        /\ \A m \in DOMAIN s.mux :
              /\ s.mux[m].listener # u /\ u \notin s.mux[m].list \cup s.mux[m].fresh
              /\ s.mux[m].list \cap s.mux[m].fresh = {}
              /\ s.mux[m].rdv[u] <= s.sock[u].uses
              /\ ~(s.mux[m].rdv[u] > 0 /\ s.sock[u].uses <= 1)
    BY <1>2, NotAliveNowhere
  <1>5. k \in Ids /\ k # Nobody
    BY <1>1, SocketsAssumption DEF MuxShape, Ids, Nobody
  <1>6. /\ Shape(t) /\ t.place[u] = "open" /\ \A v \in Ids \ {u} : t.place[v] = s.place[v]
    BY <1>3 DEF ConnectionTo
  <1>7. Alive(t, u) /\ \A v \in Ids \ {u} : Alive(t, v) <=> Alive(s, v)
    BY <1>6 DEF Alive
  <1>8. /\ t.sock[u].status = "CONNECTED" /\ t.sock[u].opened = TRUE /\ t.sock[u].onList = TRUE
        /\ t.sock[u].connected = TRUE /\ t.sock[u].connecting # TRUE
        /\ t.sock[u].mux = k /\ t.sock[u].listener = l
        /\ t.sock[u].listening = s.sock[u].listening /\ t.sock[u].uses = s.sock[u].uses
        /\ t.sock[u].queued = s.sock[u].queued
    BY <1>3 DEF ConnectionTo
  <1>9. /\ DOMAIN t.mux = DOMAIN s.mux
        /\ \A m \in DOMAIN s.mux \ {k} : t.mux[m] = s.mux[m]
        /\ DOMAIN t.mux[k] = MuxFields
        /\ t.mux[k].refs = s.mux[k].refs + 1 /\ t.mux[k].listener = s.mux[k].listener
        /\ t.mux[k].rdv = s.mux[k].rdv /\ t.mux[k].list = s.mux[k].list
        /\ t.mux[k].fresh = s.mux[k].fresh \cup {u}
    BY <1>3 DEF ConnectionTo
  <1>10. \A v \in Ids \ {u} : Same(s, t, v)
    <2> TAKE v \in Ids \ {u}
    <2>1. Alive(s, v) \/ t.sock[v].queued \subseteq s.sock[v].queued
      BY <1>3 DEF ConnectionTo
    <2> QED
      BY <1>3, <2>1 DEF ConnectionTo, Same
  <1>11. MuxShape(t)
    <2>1. \A m \in DOMAIN s.mux : DOMAIN t.mux[m] = MuxFields /\ t.mux[m].rdv = s.mux[m].rdv
      BY <1>1, <1>9 DEF MuxShape
    <2> QED
      BY <1>1, <1>9, <2>1 DEF MuxShape
  <1>12. MuxIdsOk(t)
    <2> SUFFICES ASSUME NEW m \in DOMAIN s.mux
                 PROVE  t.place[m] # "none" /\ (t.place[m] = "open" => t.sock[m].status # "INIT")
      BY <1>9 DEF MuxIdsOk
    <2>1. m \in Ids \ {u} /\ s.place[m] # "none" /\ (s.place[m] = "open" => s.sock[m].status # "INIT")
      BY <1>1 DEF MuxIdsOk, MuxShape
    <2> QED
      BY <1>10, <2>1 DEF Same
  <1>13. RefsOk(t)
    <2>1. \A v \in Ids \ {u} : t.sock[v].mux = s.sock[v].mux /\ (Alive(t, v) <=> Alive(s, v))
      BY <1>7, <1>10 DEF Same
    <2>2. /\ DOMAIN t.mux = DOMAIN s.mux \cup {k}
          /\ t.mux[k].refs = IF k \in DOMAIN s.mux THEN s.mux[k].refs + 1 ELSE 1
          /\ \A m \in DOMAIN s.mux \ {k} : t.mux[m].refs = s.mux[m].refs
      BY <1>9
    <2> QED
      BY <1>4, <1>5, <1>7, <1>8, <2>1, <2>2, RefsJoined
  <1>14. ASSUME NEW m \in DOMAIN s.mux PROVE MuxAfter(s, t, u, m)
    <2>1. /\ t.mux[m].listener = s.mux[m].listener /\ t.mux[m].rdv = s.mux[m].rdv
          /\ t.mux[m].list = s.mux[m].list
          /\ \/ m = k /\ t.mux[m].fresh = s.mux[m].fresh \cup {u}
             \/ t.mux[m].fresh = s.mux[m].fresh
      BY <1>9
    <2>2. Listed(t, {}, k, u)
      BY <1>7, <1>8 DEF Listed
    <2>3. /\ s.mux[m].listener # u /\ u \notin s.mux[m].list \cup s.mux[m].fresh
          /\ s.mux[m].list \cap s.mux[m].fresh = {}
      BY <1>4
    <2>4. /\ t.mux[m].rdv[u] <= t.sock[u].uses
          /\ ~(t.mux[m].rdv[u] > 0 /\ t.sock[u].uses <= 1)
      BY <1>4, <1>8, <2>1
    <2>5. /\ t.mux[m].list \cap t.mux[m].fresh = {}
          /\ \A v \in t.mux[m].list \cup t.mux[m].fresh : v = u \/ v \in s.mux[m].list \cup s.mux[m].fresh
          /\ u \in t.mux[m].list \cup t.mux[m].fresh => m = k
      BY <2>1, <2>3
    <2> QED
      BY <2>1, <2>2, <2>3, <2>4, <2>5 DEF MuxAfter
  <1>15. Consistent(t, {}, u)
    BY <1>4, <1>5, <1>8 DEF Consistent
  <1>16. \A q \in Peers : /\ t.peerRec[q] \subseteq s.peerRec[q] \cup {u}
                          /\ u \in t.peerRec[q] => t.sock[u].status # "INIT"
    BY <1>3, <1>8 DEF ConnectionTo
  <1>17. Core(t, {})
    BY <1>6, <1>7, <1>9, <1>10, <1>11, <1>12, <1>13, <1>14, <1>15, <1>16, OneCore
  <1>18. QueuesOk(t, {})
    <2> SUFFICES ASSUME NEW x \in Ids, NEW v \in t.sock[x].queued
                 PROVE  v \in Ids /\ t.place[v] = "open" /\ t.sock[v].listener = x
      BY DEF QueuesOk
    <2>1. CASE v = u /\ x = l
      BY <1>6, <1>8, <2>1
    <2>2. CASE ~(v = u /\ x = l)
      <3>0. \/ x = u /\ t.sock[x].queued = s.sock[x].queued
            \/ x = l /\ t.sock[x].queued = s.sock[x].queued \cup {u}
            \/ t.sock[x].queued = s.sock[x].queued
        BY <1>3, <1>8 DEF ConnectionTo
      <3>1. v \in s.sock[x].queued
        BY <2>2, <3>0
      <3>2. v \in Ids /\ s.place[v] = "open" /\ s.sock[v].listener = x
        BY <3>1 DEF QueuesOk
      <3>3. v # u
        BY <3>2
      <3> QED
        BY <1>3, <3>2, <3>3 DEF ConnectionTo
    <2> QED
      BY <2>1, <2>2
  <1> QED
    BY <1>17, <1>18

\* The invariant, between two handlers.
Firm(s) == Core(s, {}) /\ QueuesOk(s, {})

\* The parts of the state.
LEMMA Parts == S.sock = sock /\ S.place = place /\ S.mux = mux /\ S.peerRec = peerRec
  BY DEF S

\* What a handler passes on is the next state.
LEMMA FirmBecomes ==
  ASSUME NEW t, Firm(t), Becomes(t)
  PROVE  Firm(S)'
  <1> DEFINE n == [sock |-> sock', place |-> place', mux |-> mux', peerRec |-> peerRec']
  <1>1. sock' = t.sock /\ place' = t.place /\ mux' = t.mux /\ peerRec' = t.peerRec
    BY DEF Becomes
  <1>2. S' = n
    BY DEF S
  <1>3. /\ DOMAIN n = {"sock", "place", "mux", "peerRec"}
        /\ n.sock = t.sock /\ n.place = t.place /\ n.mux = t.mux /\ n.peerRec = t.peerRec
    BY <1>1
  <1> HIDE DEF n
  <1>4. Shape(n)
    BY <1>3 DEF Firm, Core, Shape
  <1>5. Still(t, n)
    BY <1>3, <1>4 DEF Still
  <1>6. Firm(n)
    BY <1>5, StillCore DEF Firm
  <1> QED
    BY <1>2, <1>6

\* Steps that only mark a socket.
LEMMA FirmStill ==
  ASSUME Firm(S), NEW t, Still(S, t), Becomes(t)
  PROVE  Firm(S)'
  BY StillCore, FirmBecomes DEF Firm

\* newSocket.
LEMMA NewSocketFirm ==
  ASSUME Good(S), Firm(S), NewSocket
  PROVE  Firm(S)'
  <1> DEFINE n == NextId
             t == [S EXCEPT !.place[n] = "open"]
  <1>1. n \in Ids /\ Becomes(t)
    BY NextIdFresh, SocketsAssumption DEF NewSocket, Ids
  <1>2. S.place[n] = "none"
    BY <1>1, NextIdFresh DEF S, Ids
  <1> HIDE DEF n
  <1>3. Shape(S)
    BY DEF Good
  <1>4. /\ Shape(t) /\ t.sock = S.sock /\ t.mux = S.mux /\ t.peerRec = S.peerRec
        /\ t.place[n] = "open" /\ \A v \in Ids \ {n} : t.place[v] = S.place[v]
    BY <1>1, <1>3 DEF Shape
  <1> HIDE DEF t
  <1>5. Firm(t)
    BY <1>1, <1>2, <1>4, NewCore DEF Firm
  <1> QED
    BY <1>1, <1>5, FirmBecomes

\* bind().
LEMMA BindFirm ==
  ASSUME Firm(S), NEW u \in Ids, NEW port, Bind(u, port)
  PROVE  Firm(S)'
  <1> DEFINE t == UpdateMux(Opened(S, u), u, port)
  <1>1. Becomes(t) /\ S.place[u] = "open" /\ S.sock[u].status = "INIT"
    BY Parts DEF Bind, Located
  <1> HIDE DEF t
  <1>2. Firm(t)
    BY <1>1, OpenedCore DEF Firm, t
  <1> QED
    BY <1>1, <1>2, FirmBecomes

\* The fields of a socket that listen() changes.
LEMMA ListenFields ==
  ASSUME NEW c, DOMAIN c = SockFields, NEW d, NEW e,
         d = [c EXCEPT !.hasQueue = TRUE, !.uses = @ + 1],
         e = [d EXCEPT !.status = "LISTENING", !.listening = TRUE]
  PROVE  /\ d.mux = c.mux /\ d.listener = c.listener /\ d.queued = c.queued /\ d.uses = c.uses + 1
         /\ d.opened = c.opened /\ d.connected = c.connected /\ d.onList = c.onList
         /\ d.connecting = c.connecting /\ d.status = c.status /\ d.listening = c.listening
         /\ e.mux = c.mux /\ e.listener = c.listener /\ e.queued = c.queued /\ e.uses = c.uses + 1
         /\ e.opened = c.opened /\ e.connected = c.connected /\ e.onList = c.onList
         /\ e.connecting = c.connecting /\ e.status = "LISTENING" /\ e.listening = TRUE
         /\ DOMAIN d = SockFields /\ DOMAIN e = SockFields
  <1>1. /\ d.mux = c.mux /\ d.listener = c.listener /\ d.queued = c.queued /\ d.uses = c.uses + 1
        /\ d.opened = c.opened /\ d.connected = c.connected /\ d.onList = c.onList
        /\ d.connecting = c.connecting /\ d.status = c.status /\ d.listening = c.listening
        /\ DOMAIN d = SockFields
    BY DEF SockFields
  <1>2. /\ e.mux = d.mux /\ e.listener = d.listener /\ e.queued = d.queued /\ e.uses = d.uses
        /\ e.opened = d.opened /\ e.connected = d.connected /\ e.onList = d.onList
        /\ e.connecting = d.connecting /\ e.status = "LISTENING" /\ e.listening = TRUE
        /\ DOMAIN e = SockFields
    BY <1>1 DEF SockFields
  <1> QED
    BY <1>1, <1>2

\* listen(), refused because the port has a listener, or not.
LEMMA ListenFirm ==
  ASSUME Firm(S), NEW u \in Ids, Listen(u)
  PROVE  Firm(S)'
  <1> DEFINE m == sock[u].mux
             q == [S EXCEPT !.sock[u].hasQueue = TRUE, !.sock[u].uses = @ + 1]
             t == [q EXCEPT !.sock[u].status = "LISTENING", !.sock[u].listening = TRUE,
                            !.mux[m].listener = u]
             c == S.sock[u]
             d == [c EXCEPT !.hasQueue = TRUE, !.uses = @ + 1]
             e == [d EXCEPT !.status = "LISTENING", !.listening = TRUE]
  <1>1. Becomes(q) \/ Becomes(t)
    BY DEF Listen
  <1>2. S.place[u] = "open" /\ S.sock[u].status = "OPENED" /\ m = S.sock[u].mux
    BY Parts DEF Listen, Located
  <1>3. Shape(S) /\ DOMAIN c = SockFields
    BY DEF Firm, Core, Shape
  <1>4. \A k \in DOMAIN S.mux : DOMAIN S.mux[k] = MuxFields
    BY DEF Firm, Core, MuxShape
  <1>5. /\ DOMAIN q = {"sock", "place", "mux", "peerRec"}
        /\ q.place = S.place /\ q.peerRec = S.peerRec /\ q.mux = S.mux
        /\ DOMAIN q.sock = Ids /\ q.sock[u] = d /\ \A v \in Ids \ {u} : q.sock[v] = S.sock[v]
    BY <1>3 DEF Shape
  <1> HIDE DEF m, q
  <1>6. /\ DOMAIN t = {"sock", "place", "mux", "peerRec"}
        /\ t.place = S.place /\ t.peerRec = S.peerRec
        /\ t.mux = [S.mux EXCEPT ![m].listener = u]
        /\ DOMAIN t.sock = Ids /\ t.sock[u] = e /\ \A v \in Ids \ {u} : t.sock[v] = S.sock[v]
    BY <1>5
  <1> HIDE DEF t, c, d, e
  <1>7. /\ d.mux = c.mux /\ d.listener = c.listener /\ d.queued = c.queued /\ d.uses = c.uses + 1
        /\ d.opened = c.opened /\ d.connected = c.connected /\ d.onList = c.onList
        /\ d.connecting = c.connecting /\ d.status = c.status /\ d.listening = c.listening
        /\ e.mux = c.mux /\ e.listener = c.listener /\ e.queued = c.queued /\ e.uses = c.uses + 1
        /\ e.opened = c.opened /\ e.connected = c.connected /\ e.onList = c.onList
        /\ e.connecting = c.connecting /\ e.status = "LISTENING" /\ e.listening = TRUE
        /\ DOMAIN d = SockFields /\ DOMAIN e = SockFields
    BY <1>3, ListenFields DEF d, e
  <1>8. Shape(q) /\ Shape(t)
    BY <1>3, <1>5, <1>6, <1>7 DEF Shape
  <1>9. Firm(q)
    <2>1. \A k \in DOMAIN S.mux :
            /\ DOMAIN q.mux[k] = MuxFields
            /\ q.mux[k].refs = S.mux[k].refs /\ q.mux[k].rdv = S.mux[k].rdv
            /\ q.mux[k].list = S.mux[k].list /\ q.mux[k].fresh = S.mux[k].fresh
            /\ q.mux[k].listener = S.mux[k].listener
      BY <1>4, <1>5
    <2>6. /\ q.sock[u].mux = S.sock[u].mux /\ q.sock[u].listener = S.sock[u].listener
          /\ q.sock[u].queued = S.sock[u].queued /\ q.sock[u].uses = S.sock[u].uses + 1
          /\ q.sock[u].opened = S.sock[u].opened /\ q.sock[u].connected = S.sock[u].connected
          /\ q.sock[u].onList = S.sock[u].onList /\ q.sock[u].connecting = S.sock[u].connecting
          /\ q.sock[u].status = S.sock[u].status /\ q.sock[u].listening = S.sock[u].listening
      BY <1>7, <1>5 DEF c
    <2>7. Shape(q) /\ q.place = S.place /\ q.peerRec = S.peerRec /\ DOMAIN q.mux = DOMAIN S.mux
          /\ \A v \in Ids \ {u} : q.sock[v] = S.sock[v]
      BY <1>5, <1>8
    <2>8. Core(S, {}) /\ QueuesOk(S, {})
      BY DEF Firm
    <2>9. ListenTo(S, u, q)
      BY <2>1, <2>6, <2>7 DEF ListenTo
    <2>10. Core(q, {}) /\ QueuesOk(q, {})
      BY <1>2, <2>8, <2>9, ListenCore
    <2> QED
      BY <2>10 DEF Firm
  <1>10. Firm(t)
    <2>1. \A k \in DOMAIN S.mux : t.mux[k] = IF k = m THEN [S.mux[k] EXCEPT !.listener = u] ELSE S.mux[k]
      BY <1>6
    <2>2. ASSUME NEW k \in DOMAIN S.mux
          PROVE  /\ DOMAIN t.mux[k] = MuxFields
                 /\ t.mux[k].refs = S.mux[k].refs /\ t.mux[k].rdv = S.mux[k].rdv
                 /\ t.mux[k].list = S.mux[k].list /\ t.mux[k].fresh = S.mux[k].fresh
                 /\ \/ t.mux[k].listener = S.mux[k].listener
                    \/ k = m /\ t.mux[k].listener = u
      <3> DEFINE x == S.mux[k]
                 y == t.mux[k]
      <3>1. DOMAIN x = MuxFields /\ (y = x \/ (k = m /\ y = [x EXCEPT !.listener = u]))
        BY <1>4, <2>1
      <3> HIDE DEF x, y
      <3>2. /\ DOMAIN y = MuxFields /\ y.refs = x.refs /\ y.rdv = x.rdv /\ y.list = x.list
            /\ y.fresh = x.fresh /\ (y.listener = x.listener \/ (k = m /\ y.listener = u))
        BY <3>1 DEF MuxFields
      <3> QED
        BY <3>2 DEF x, y
    <2>3. t.sock[u].status = "LISTENING" /\ t.sock[u].listening = TRUE /\ DOMAIN t.mux = DOMAIN S.mux
      BY <1>6, <1>7
    <2>4. \A k \in DOMAIN S.mux :
            /\ DOMAIN t.mux[k] = MuxFields
            /\ t.mux[k].refs = S.mux[k].refs /\ t.mux[k].rdv = S.mux[k].rdv
            /\ t.mux[k].list = S.mux[k].list /\ t.mux[k].fresh = S.mux[k].fresh
            /\ \/ t.mux[k].listener = S.mux[k].listener
               \/ /\ k = S.sock[u].mux /\ t.mux[k].listener = u
                  /\ t.sock[u].status = "LISTENING" /\ t.sock[u].listening = TRUE
      BY <1>2, <2>2, <2>3
    <2>5. /\ t.place = S.place /\ t.peerRec = S.peerRec
          /\ t.sock[u] = e /\ \A v \in Ids \ {u} : t.sock[v] = S.sock[v]
      BY <1>6
    <2>6. /\ t.sock[u].mux = S.sock[u].mux /\ t.sock[u].listener = S.sock[u].listener
          /\ t.sock[u].queued = S.sock[u].queued /\ t.sock[u].uses = S.sock[u].uses + 1
          /\ t.sock[u].opened = S.sock[u].opened /\ t.sock[u].connected = S.sock[u].connected
          /\ t.sock[u].onList = S.sock[u].onList /\ t.sock[u].connecting = S.sock[u].connecting
          /\ t.sock[u].status = "LISTENING" /\ t.sock[u].listening = TRUE
      BY <1>7, <2>5 DEF c
    <2>7. Shape(t) /\ t.place = S.place /\ t.peerRec = S.peerRec /\ DOMAIN t.mux = DOMAIN S.mux
          /\ \A v \in Ids \ {u} : t.sock[v] = S.sock[v]
      BY <2>5, <1>8, <2>3
    <2>8. Core(S, {}) /\ QueuesOk(S, {})
      BY DEF Firm
    <2>9. ListenTo(S, u, t)
      BY <2>4, <2>6, <2>7 DEF ListenTo
    <2>10. Core(t, {}) /\ QueuesOk(t, {})
      BY <1>2, <2>8, <2>9, ListenCore
    <2> QED
      BY <2>10 DEF Firm
  <1> QED
    BY <1>1, <1>9, <1>10, FirmBecomes

\* accept(), ConnectFails, Break and Aging change one socket.
LEMMA MarkStill ==
  ASSUME NEW s, Shape(s), NEW u \in Ids, NEW t, Shape(t), t.place = s.place, t.mux = s.mux,
         t.peerRec = s.peerRec, \A v \in Ids \ {u} : t.sock[v] = s.sock[v],
         t.sock[u].status = s.sock[u].status, t.sock[u].opened = s.sock[u].opened,
         t.sock[u].listening = s.sock[u].listening, t.sock[u].connecting = s.sock[u].connecting,
         t.sock[u].connected = s.sock[u].connected, t.sock[u].onList = s.sock[u].onList,
         t.sock[u].mux = s.sock[u].mux, t.sock[u].listener = s.sock[u].listener,
         t.sock[u].uses = s.sock[u].uses, t.sock[u].queued \subseteq s.sock[u].queued
  PROVE  Still(s, t)
  <1> SUFFICES ASSUME NEW v \in Ids
               PROVE  /\ t.sock[v].status = s.sock[v].status /\ t.sock[v].opened = s.sock[v].opened
                      /\ t.sock[v].listening = s.sock[v].listening
                      /\ t.sock[v].connecting = s.sock[v].connecting
                      /\ t.sock[v].connected = s.sock[v].connected
                      /\ t.sock[v].onList = s.sock[v].onList
                      /\ t.sock[v].mux = s.sock[v].mux /\ t.sock[v].listener = s.sock[v].listener
                      /\ t.sock[v].uses = s.sock[v].uses /\ t.sock[v].queued \subseteq s.sock[v].queued
    BY DEF Still
  <1>1. CASE v = u
    BY <1>1
  <1>2. CASE v # u
    BY <1>2
  <1> QED
    BY <1>1, <1>2

\* accept().
LEMMA AcceptFirm ==
  ASSUME Firm(S), NEW u \in Ids, Accept(u)
  PROVE  Firm(S)'
  <1> DEFINE w == Newest(sock[u].queued)
             t == [S EXCEPT !.sock[u].queued = @ \ {w}, !.sock[u].accepted = @ \cup {w}]
             c == S.sock[u]
             d == t.sock[u]
  <1>1. Becomes(t)
    BY DEF Accept
  <1>2. Shape(S) /\ DOMAIN c = SockFields
    BY DEF Firm, Core, Shape
  <1> HIDE DEF w
  <1>3. /\ Shape(t) /\ t.place = S.place /\ t.mux = S.mux /\ t.peerRec = S.peerRec
        /\ \A v \in Ids \ {u} : t.sock[v] = S.sock[v]
        /\ d = [c EXCEPT !.queued = @ \ {w}, !.accepted = @ \cup {w}]
    BY <1>2 DEF Shape, SockFields
  <1> HIDE DEF t, c, d
  <1>4. /\ d.status = c.status /\ d.opened = c.opened /\ d.listening = c.listening
        /\ d.connecting = c.connecting /\ d.connected = c.connected /\ d.onList = c.onList
        /\ d.mux = c.mux /\ d.listener = c.listener /\ d.uses = c.uses /\ d.queued \subseteq c.queued
    BY <1>2, <1>3 DEF SockFields
  <1>5. Still(S, t)
    BY <1>2, <1>3, <1>4, MarkStill DEF c, d
  <1> QED
    BY <1>1, <1>5, FirmStill

\* The flags of a socket that Core does not read.
LEMMA FlagsStill ==
  ASSUME NEW s, Shape(s), NEW u \in Ids
  PROVE  /\ Still(s, [s EXCEPT !.sock[u].old = TRUE])
         /\ Still(s, [s EXCEPT !.sock[u].lingering = TRUE])
         /\ Still(s, [s EXCEPT !.sock[u].broken = TRUE, !.sock[u].old = FALSE])
         /\ Still(s, [s EXCEPT !.sock[u].broken = TRUE, !.sock[u].closing = TRUE])
  <1> DEFINE c == s.sock[u]
  <1>1. DOMAIN c = SockFields
    BY DEF Shape
  <1>2. ASSUME NEW t, Shape(t), t.place = s.place, t.mux = s.mux, t.peerRec = s.peerRec,
               \A v \in Ids \ {u} : t.sock[v] = s.sock[v],
               \/ t.sock[u] = [c EXCEPT !.old = TRUE]
               \/ t.sock[u] = [c EXCEPT !.lingering = TRUE]
               \/ t.sock[u] = [c EXCEPT !.broken = TRUE, !.old = FALSE]
               \/ t.sock[u] = [c EXCEPT !.broken = TRUE, !.closing = TRUE]
        PROVE  Still(s, t)
    <2> DEFINE d == t.sock[u]
    <2>1. \/ d = [c EXCEPT !.old = TRUE]
          \/ d = [c EXCEPT !.lingering = TRUE]
          \/ d = [c EXCEPT !.broken = TRUE, !.old = FALSE]
          \/ d = [c EXCEPT !.broken = TRUE, !.closing = TRUE]
      BY <1>2
    <2> HIDE DEF c, d
    <2>2. /\ d.status = c.status /\ d.opened = c.opened /\ d.listening = c.listening
          /\ d.connecting = c.connecting /\ d.connected = c.connected /\ d.onList = c.onList
          /\ d.mux = c.mux /\ d.listener = c.listener /\ d.uses = c.uses /\ d.queued = c.queued
      BY <1>1, <2>1 DEF SockFields
    <2> QED
      BY <1>2, <2>2, MarkStill DEF c, d
  <1> DEFINE t1 == [s EXCEPT !.sock[u].old = TRUE]
             t2 == [s EXCEPT !.sock[u].lingering = TRUE]
             t3 == [s EXCEPT !.sock[u].broken = TRUE, !.sock[u].old = FALSE]
             t4 == [s EXCEPT !.sock[u].broken = TRUE, !.sock[u].closing = TRUE]
  <1>3. /\ Shape(t1) /\ t1.place = s.place /\ t1.mux = s.mux /\ t1.peerRec = s.peerRec
        /\ \A v \in Ids \ {u} : t1.sock[v] = s.sock[v]
        /\ t1.sock[u] = [c EXCEPT !.old = TRUE]
    BY DEF Shape, SockFields
  <1>4. /\ Shape(t2) /\ t2.place = s.place /\ t2.mux = s.mux /\ t2.peerRec = s.peerRec
        /\ \A v \in Ids \ {u} : t2.sock[v] = s.sock[v]
        /\ t2.sock[u] = [c EXCEPT !.lingering = TRUE]
    BY DEF Shape, SockFields
  <1>5. /\ Shape(t3) /\ t3.place = s.place /\ t3.mux = s.mux /\ t3.peerRec = s.peerRec
        /\ \A v \in Ids \ {u} : t3.sock[v] = s.sock[v]
        /\ t3.sock[u] = [c EXCEPT !.broken = TRUE, !.old = FALSE]
    BY DEF Shape, SockFields
  <1>6. /\ Shape(t4) /\ t4.place = s.place /\ t4.mux = s.mux /\ t4.peerRec = s.peerRec
        /\ \A v \in Ids \ {u} : t4.sock[v] = s.sock[v]
        /\ t4.sock[u] = [c EXCEPT !.broken = TRUE, !.closing = TRUE]
    BY DEF Shape, SockFields
  <1> HIDE DEF c, t1, t2, t3, t4
  <1>7. Still(s, t1) /\ Still(s, t2)
    BY <1>2, <1>3, <1>4
  <1>8. Still(s, t3) /\ Still(s, t4)
    BY <1>2, <1>5, <1>6
  <1> QED
    BY <1>7, <1>8 DEF t1, t2, t3, t4

\* The end of a connection, and the end of a delay.
LEMMA MarksFirm ==
  ASSUME Firm(S), NEW u \in Ids, Break(u) \/ Aging(u)
  PROVE  Firm(S)'
  <1>1. Shape(S)
    BY DEF Firm, Core
  <1>2. CASE Break(u)
    <2> DEFINE t == [S EXCEPT !.sock[u].broken = TRUE, !.sock[u].closing = TRUE]
    <2>1. Becomes(t) /\ Still(S, t)
      BY <1>1, <1>2, FlagsStill DEF Break
    <2> HIDE DEF t
    <2> QED
      BY <2>1, FirmStill
  <1>3. CASE Aging(u)
    <2> DEFINE t == [S EXCEPT !.sock[u].old = TRUE]
    <2>1. Becomes(t) /\ Still(S, t)
      BY <1>1, <1>3, FlagsStill DEF Aging
    <2> HIDE DEF t
    <2> QED
      BY <2>1, FirmStill
  <1> QED
    BY <1>2, <1>3

\* connect() without an answer, and the time to live of an entry.
LEMMA EndsFirm ==
  ASSUME Firm(S), NEW u \in Ids, NEW m, ConnectFails(u) \/ TtlExpired(m, u)
  PROVE  Firm(S)'
  <1> DEFINE c == S.sock[u]
             t == [S EXCEPT !.sock[u].status = "OPENED"]
             r == [S EXCEPT !.sock[u].connecting = FALSE]
  <1>1. /\ Core(S, {}) /\ QueuesOk(S, {}) /\ Shape(S) /\ EmptyOk(S) /\ Consistent(S, {}, u)
        /\ DOMAIN c = SockFields
    BY DEF Firm, Core, Shape, StatusOk
  <1>2. /\ Shape(t) /\ t.place = S.place /\ t.peerRec = S.peerRec /\ t.mux = S.mux
        /\ \A v \in Ids \ {u} : t.sock[v] = S.sock[v]
        /\ t.sock[u] = [c EXCEPT !.status = "OPENED"]
    BY <1>1 DEF Shape, SockFields
  <1>3. /\ Shape(r) /\ r.place = S.place /\ r.peerRec = S.peerRec /\ r.mux = S.mux
        /\ \A v \in Ids \ {u} : r.sock[v] = S.sock[v]
        /\ r.sock[u] = [c EXCEPT !.connecting = FALSE]
    BY <1>1 DEF Shape, SockFields
  <1>4. ConnectFails(u) => Becomes(t) /\ S.place[u] = "open" /\ c.status = "CONNECTING"
    BY Parts DEF ConnectFails, Located
  <1>5. TtlExpired(m, u) => Becomes(r) /\ c.connecting
    BY Parts DEF TtlExpired
  <1> HIDE DEF c, t, r
  <1>6. CASE ConnectFails(u)
    <2> DEFINE d == t.sock[u]
    <2>1. d = [c EXCEPT !.status = "OPENED"] /\ DOMAIN c = SockFields
      BY <1>1, <1>2
    <2> HIDE DEF d
    <2>2. /\ d.mux = c.mux /\ d.listener = c.listener /\ d.queued = c.queued /\ d.uses = c.uses
          /\ d.opened = c.opened /\ d.listening = c.listening /\ d.connected = c.connected
          /\ d.onList = c.onList /\ d.connecting = c.connecting /\ d.status = "OPENED"
      BY <2>1 DEF SockFields
    <2>3. Alive(S, u) /\ c.status = "CONNECTING" /\ c.listening # TRUE
      BY <1>1, <1>4, <1>6 DEF Alive, Consistent, c
    <2>4. Core(t, {}) /\ QueuesOk(t, {})
      BY <1>1, <1>2, <2>2, <2>3, StatusCore DEF c, d
    <2> QED
      BY <1>4, <1>6, <2>4, FirmBecomes DEF Firm
  <1>7. CASE TtlExpired(m, u)
    <2> DEFINE d == r.sock[u]
    <2>1. d = [c EXCEPT !.connecting = FALSE] /\ DOMAIN c = SockFields
      BY <1>1, <1>3
    <2> HIDE DEF d
    <2>2. /\ d.mux = c.mux /\ d.listener = c.listener /\ d.queued = c.queued /\ d.uses = c.uses
          /\ d.opened = c.opened /\ d.listening = c.listening /\ d.connected = c.connected
          /\ d.onList = c.onList /\ d.connecting # TRUE /\ d.status = c.status
      BY <2>1 DEF SockFields
    <2>3. Alive(S, u)
      BY <1>1, <1>5, <1>7 DEF EmptyOk, c
    <2>4. Core(r, {}) /\ QueuesOk(r, {})
      BY <1>1, <1>3, <2>2, <2>3, StatusCore DEF c, d
    <2> QED
      BY <1>5, <1>7, <2>4, FirmBecomes DEF Firm
  <1> QED
    BY <1>6, <1>7

\* connect() of an opened socket.
LEMMA ConnectStep ==
  ASSUME NEW s, Core(s, {}), QueuesOk(s, {}), NEW u \in Ids, s.place[u] = "open",
         s.sock[u].status = "OPENED", s.sock[u].connected # TRUE, NEW k, k = s.sock[u].mux, NEW t,
         t = [s EXCEPT !.sock[u].status = "CONNECTING", !.sock[u].connecting = TRUE,
                       !.sock[u].uses = @ + 1, !.mux[k].rdv[u] = @ + 1]
  PROVE  Core(t, {}) /\ QueuesOk(t, {})
  <1> DEFINE r == [s EXCEPT !.sock[u].status = "CONNECTING", !.sock[u].connecting = TRUE,
                            !.sock[u].uses = @ + 1, !.mux[k].rdv[u] = @ + 1]
             c == s.sock[u]
             d == r.sock[u]
  <1>1. Shape(s) /\ DOMAIN c = SockFields
    BY DEF Core, Shape
  <1>2. \A m \in DOMAIN s.mux : DOMAIN s.mux[m] = MuxFields /\ DOMAIN s.mux[m].rdv = Ids
    BY DEF Core, MuxShape
  <1>3. /\ Shape(r) /\ r.place = s.place /\ r.peerRec = s.peerRec
        /\ \A v \in Ids \ {u} : r.sock[v] = s.sock[v]
    BY <1>1 DEF Shape, SockFields
  <1>4. d = [c EXCEPT !.status = "CONNECTING", !.connecting = TRUE, !.uses = @ + 1]
    BY <1>1 DEF Shape
  <1>5. r.mux = [s.mux EXCEPT ![k].rdv[u] = @ + 1]
    BY <1>1 DEF Shape
  <1>6. t = r
    OBVIOUS
  <1> HIDE DEF r, c, d
  <1>7. /\ d.mux = c.mux /\ d.listener = c.listener /\ d.queued = c.queued /\ d.uses = c.uses + 1
        /\ d.opened = c.opened /\ d.listening = c.listening /\ d.status = "CONNECTING"
    BY <1>1, <1>4 DEF SockFields
  <1>8. DOMAIN r.mux = DOMAIN s.mux
    BY <1>5
  <1>9. ASSUME NEW m \in DOMAIN s.mux
        PROVE  /\ DOMAIN r.mux[m] = MuxFields
               /\ r.mux[m].refs = s.mux[m].refs /\ r.mux[m].listener = s.mux[m].listener
               /\ r.mux[m].list = s.mux[m].list /\ r.mux[m].fresh = s.mux[m].fresh
               /\ DOMAIN r.mux[m].rdv = Ids
               /\ \A v \in Ids : r.mux[m].rdv[v] = IF v = u /\ m = k
                                                  THEN s.mux[m].rdv[v] + 1 ELSE s.mux[m].rdv[v]
    <2> DEFINE x == s.mux[m]
               y == r.mux[m]
               f == x.rdv
    <2>1. (m # k /\ y = x) \/ (m = k /\ y = [x EXCEPT !.rdv = [f EXCEPT ![u] = @ + 1]])
      BY <1>5
    <2>2. DOMAIN x = MuxFields /\ DOMAIN f = Ids
      BY <1>2
    <2> HIDE DEF x, y
    <2>3. /\ DOMAIN y = MuxFields /\ y.refs = x.refs /\ y.listener = x.listener
          /\ y.list = x.list /\ y.fresh = x.fresh
          /\ (m # k /\ y.rdv = f) \/ (m = k /\ y.rdv = [f EXCEPT ![u] = @ + 1])
      BY <2>1, <2>2 DEF MuxFields
    <2> HIDE DEF f
    <2>4. DOMAIN y.rdv = Ids /\ \A v \in Ids : y.rdv[v] = IF v = u /\ m = k THEN f[v] + 1 ELSE f[v]
      BY <2>2, <2>3
    <2> QED
      BY <2>3, <2>4 DEF x, y, f
  <1>10. /\ r.sock[u].mux = s.sock[u].mux /\ r.sock[u].listener = s.sock[u].listener
         /\ r.sock[u].queued = s.sock[u].queued /\ r.sock[u].uses = s.sock[u].uses + 1
         /\ r.sock[u].opened = s.sock[u].opened /\ r.sock[u].listening = s.sock[u].listening
         /\ r.sock[u].status = "CONNECTING"
    BY <1>7 DEF c, d
  <1>11. ConnectTo(s, u, r)
    BY <1>3, <1>8, <1>9, <1>10 DEF ConnectTo
  <1>12. Core(r, {}) /\ QueuesOk(r, {})
    BY <1>11, ConnectCore
  <1> QED
    BY <1>6, <1>12

\* connect(), of a socket that is bound or not.
LEMMA ConnectFirm ==
  ASSUME Firm(S), NEW u \in Ids, Connect(u)
  PROVE  Firm(S)'
  <1> DEFINE port == -u
             a == UpdateMux(Opened(S, u), u, port)
             ready == IF sock[u].status = "INIT" THEN UpdateMux(Opened(S, u), u, -u) ELSE S
             k == ready.sock[u].mux
             t == [ready EXCEPT !.sock[u].status = "CONNECTING", !.sock[u].connecting = TRUE,
                                !.sock[u].uses = @ + 1, !.mux[k].rdv[u] = @ + 1]
  <1>1. Becomes(t)
    BY DEF Connect
  <1>2. /\ S.place[u] = "open" /\ S.sock[u].status \in {"INIT", "OPENED"}
        /\ S.sock[u].connected # TRUE
    BY Parts DEF Connect, Located
  <1>3. \/ S.sock[u].status = "INIT" /\ ready = a
        \/ S.sock[u].status = "OPENED" /\ ready = S
    BY <1>2, Parts
  <1> HIDE DEF port, a, ready
  <1>4. /\ Core(ready, {}) /\ QueuesOk(ready, {}) /\ ready.place[u] = "open"
        /\ ready.sock[u].status = "OPENED" /\ ready.sock[u].connected # TRUE
    <2>1. CASE S.sock[u].status = "INIT" /\ ready = a
      <3>1. /\ Core(a, {}) /\ QueuesOk(a, {}) /\ a.place[u] = "open" /\ a.sock[u].status = "OPENED"
            /\ a.sock[u].connected = S.sock[u].connected
        BY <1>2, <2>1, OpenedCore DEF Firm, a
      <3> QED
        BY <1>2, <2>1, <3>1
    <2>2. CASE S.sock[u].status = "OPENED" /\ ready = S
      BY <1>2, <2>2 DEF Firm
    <2> QED
      BY <1>3, <2>1, <2>2
  <1> HIDE DEF k
  <1>5. Core(t, {}) /\ QueuesOk(t, {})
    BY <1>4, ConnectStep DEF k
  <1> HIDE DEF t
  <1> QED
    BY <1>1, <1>5, FirmBecomes DEF Firm

\* What a listener has queued nobody closes; a closed socket leaves no queue behind.
LEMMA ClosedQueues ==
  ASSUME NEW s, Shape(s), NEW u \in Ids, QueuesOk(s, {}), \A l \in Ids : u \notin s.sock[l].queued,
         NEW t, t = ToClosed(s, {u})
  PROVE  QueuesOk(t, {})
  <1>1. ClosedTo(s, {u}, t)
    BY ToClosedEffect
  <1>2. \A v \in Ids : /\ t.place[v] = IF v \in {u} THEN "closed" ELSE s.place[v]
                       /\ t.sock[v].queued = s.sock[v].queued /\ t.sock[v].listener = s.sock[v].listener
    BY <1>1 DEF ClosedTo
  <1> SUFFICES ASSUME NEW l \in Ids, NEW v \in t.sock[l].queued
               PROVE  v \in Ids /\ t.place[v] = "open" /\ t.sock[v].listener = l
    BY DEF QueuesOk
  <1>3. v \in s.sock[l].queued
    BY <1>2
  <1>4. v \in Ids /\ s.place[v] = "open" /\ s.sock[v].listener = l /\ v # u
    BY <1>3 DEF QueuesOk
  <1> QED
    BY <1>2, <1>4

\* close().
LEMMA CloseFirm ==
  ASSUME Firm(S), NEW u \in Ids, Close(u)
  PROVE  Firm(S)'
  <1> DEFINE U == {u}
             a == Shut(S, U)
             b == [S EXCEPT !.sock[u].lingering = TRUE]
             c == [S EXCEPT !.sock[u].broken = TRUE, !.sock[u].old = FALSE]
  <1>1. Becomes(c) \/ Becomes(ToClosed(a, U)) \/ Becomes(ToClosed(b, U))
    BY DEF Close
  <1>2. S.place[u] = "open" /\ \A l \in Ids : u \notin S.sock[l].queued
    BY Parts DEF Close, Located, Known
  <1>3. Core(S, {}) /\ QueuesOk(S, {}) /\ Shape(S)
    BY DEF Firm, Core
  <1>4. Still(S, b) /\ Still(S, c)
    BY <1>3, FlagsStill
  <1> HIDE DEF a, b, c
  <1>5. CASE Becomes(c)
    BY <1>4, <1>5, FirmStill
  <1>6. CASE Becomes(ToClosed(a, U))
    <2>1. Core(a, U) /\ QueuesOk(a, {}) /\ ShutTo(S, U, a)
      BY <1>3, ShutCore, ShutEffect DEF a, Core
    <2>2. Shape(a) /\ a.place = S.place /\ \A l \in Ids : a.sock[l].queued = S.sock[l].queued
      BY <2>1 DEF ShutTo
    <2>3. \A v \in U \cap Ids : Alive(a, v)
      BY <1>2, <2>2 DEF Alive
    <2>4. Core(ToClosed(a, U), {})
      BY <2>1, <2>3, ClosedCore
    <2>5. QueuesOk(ToClosed(a, U), {})
      BY <1>2, <2>1, <2>2, ClosedQueues
    <2> QED
      BY <1>6, <2>4, <2>5, FirmBecomes DEF Firm
  <1>7. CASE Becomes(ToClosed(b, U))
    <2>1. Core(b, {}) /\ QueuesOk(b, {})
      BY <1>3, <1>4, StillCore
    <2>2. Shape(b) /\ b.place = S.place /\ \A l \in Ids : b.sock[l].queued \subseteq S.sock[l].queued
      BY <1>4 DEF Still
    <2>3. \A v \in U \cap Ids : Alive(b, v)
      BY <1>2, <2>2 DEF Alive
    <2>4. Core(ToClosed(b, U), {})
      BY <2>1, <2>3, ClosedCore
    <2>5. QueuesOk(ToClosed(b, U), {})
      BY <1>2, <2>1, <2>2, ClosedQueues
    <2> QED
      BY <1>7, <2>4, <2>5, FirmBecomes DEF Firm
  <1> QED
    BY <1>1, <1>5, <1>6, <1>7

\* What CRendezvousQueue::remove does.
UnregisteredTo(s, u, t) ==
  /\ Shape(t) /\ t.place = s.place /\ t.peerRec = s.peerRec /\ t.sock = s.sock
  /\ DOMAIN t.mux = DOMAIN s.mux
  /\ \A m \in DOMAIN s.mux :
       /\ DOMAIN t.mux[m] = MuxFields
       /\ t.mux[m].refs = s.mux[m].refs /\ t.mux[m].listener = s.mux[m].listener
       /\ t.mux[m].list = s.mux[m].list /\ t.mux[m].fresh = s.mux[m].fresh
       /\ DOMAIN t.mux[m].rdv = Ids
       /\ \A v \in Ids \ {u} : t.mux[m].rdv[v] = s.mux[m].rdv[v]
       /\ t.mux[m].rdv[u] \in Nat /\ t.mux[m].rdv[u] <= s.mux[m].rdv[u]

\* CRendezvousQueue::remove takes at most one entry.
LEMMA UnregisteredEffect ==
  ASSUME NEW s, Shape(s), MuxShape(s), NEW u \in Ids, NEW t, t = Unregistered(s, {u})
  PROVE  UnregisteredTo(s, u, t)
  <1> DEFINE left(m) == [v \in Ids |-> IF v \in {u} /\ s.mux[m].rdv[v] > 0 /\ s.sock[v].mux = m
                                       THEN s.mux[m].rdv[v] - 1 ELSE s.mux[m].rdv[v]]
             r == Unregistered(s, {u})
  <1>1. /\ Shape(r) /\ r.place = s.place /\ r.peerRec = s.peerRec /\ r.sock = s.sock
        /\ r.mux = [m \in DOMAIN s.mux |-> [s.mux[m] EXCEPT !.rdv = left(m)]]
    BY DEF Unregistered, Shape
  <1> HIDE DEF r
  <1>2. DOMAIN r.mux = DOMAIN s.mux
    BY <1>1
  <1>3. ASSUME NEW m \in DOMAIN s.mux
        PROVE  /\ DOMAIN r.mux[m] = MuxFields
               /\ r.mux[m].refs = s.mux[m].refs /\ r.mux[m].listener = s.mux[m].listener
               /\ r.mux[m].list = s.mux[m].list /\ r.mux[m].fresh = s.mux[m].fresh
               /\ DOMAIN r.mux[m].rdv = Ids
               /\ \A v \in Ids \ {u} : r.mux[m].rdv[v] = s.mux[m].rdv[v]
               /\ r.mux[m].rdv[u] \in Nat /\ r.mux[m].rdv[u] <= s.mux[m].rdv[u]
    <2> DEFINE x == s.mux[m]
               y == r.mux[m]
               f == left(m)
    <2>1. y = [x EXCEPT !.rdv = f] /\ DOMAIN x = MuxFields
      BY <1>1 DEF MuxShape
    <2>2. /\ DOMAIN f = Ids /\ \A v \in Ids \ {u} : f[v] = s.mux[m].rdv[v]
          /\ f[u] \in Nat /\ f[u] <= s.mux[m].rdv[u]
      BY DEF MuxShape
    <2> HIDE DEF x, y, f
    <2>3. /\ DOMAIN y = MuxFields /\ y.refs = x.refs /\ y.listener = x.listener
          /\ y.list = x.list /\ y.fresh = x.fresh /\ y.rdv = f
      BY <2>1 DEF MuxFields
    <2> QED
      BY <2>2, <2>3 DEF x, y
  <1>4. Shape(r) /\ r.place = s.place /\ r.peerRec = s.peerRec /\ r.sock = s.sock
    BY <1>1
  <1>5. UnregisteredTo(s, u, r)
    BY <1>2, <1>3, <1>4 DEF UnregisteredTo
  <1> QED
    BY <1>5 DEF r

\* The last response to a socket that still connects.
LEMMA ResponseStep ==
  ASSUME NEW s, Shape(s), MuxShape(s), NEW u \in Ids, NEW t, NEW done,
         done = Registered(Unregistered(s, {u}), u),
         t = done \/ t = [done EXCEPT !.sock[u].status = "CONNECTED"]
  PROVE  ResponseTo(s, u, t)
  <1> DEFINE a == Unregistered(s, {u})
             k == s.sock[u].mux
             b == [a EXCEPT !.sock[u].connected = TRUE, !.sock[u].connecting = FALSE,
                            !.sock[u].onList = TRUE, !.mux[k].fresh = @ \cup {u}]
             q == [b EXCEPT !.sock[u].status = "CONNECTED"]
             c == s.sock[u]
             d == [c EXCEPT !.connected = TRUE, !.connecting = FALSE, !.onList = TRUE]
             e == [d EXCEPT !.status = "CONNECTED"]
  <1>1. /\ Shape(a) /\ a.place = s.place /\ a.peerRec = s.peerRec /\ a.sock = s.sock
        /\ DOMAIN a.mux = DOMAIN s.mux
        /\ \A m \in DOMAIN s.mux :
             /\ DOMAIN a.mux[m] = MuxFields
             /\ a.mux[m].refs = s.mux[m].refs /\ a.mux[m].listener = s.mux[m].listener
             /\ a.mux[m].list = s.mux[m].list /\ a.mux[m].fresh = s.mux[m].fresh
             /\ DOMAIN a.mux[m].rdv = Ids
             /\ \A v \in Ids \ {u} : a.mux[m].rdv[v] = s.mux[m].rdv[v]
             /\ a.mux[m].rdv[u] \in Nat /\ a.mux[m].rdv[u] <= s.mux[m].rdv[u]
    <2>1. UnregisteredTo(s, u, a)
      BY UnregisteredEffect
    <2> HIDE DEF a
    <2> QED
      BY <2>1 DEF UnregisteredTo
  <1>2. Registered(a, u) = b
    <2>1. a.sock[u].mux = k
      BY <1>1
    <2> HIDE DEF a, k
    <2> QED
      BY <2>1 DEF Registered
  <1> HIDE DEF a
  <1>3. done = b
    BY <1>2 DEF a
  <1>4. DOMAIN c = SockFields
    BY DEF Shape
  <1>5. /\ DOMAIN b = {"sock", "place", "mux", "peerRec"}
        /\ b.place = s.place /\ b.peerRec = s.peerRec /\ b.mux = [a.mux EXCEPT ![k].fresh = @ \cup {u}]
        /\ DOMAIN b.sock = Ids /\ \A v \in Ids \ {u} : b.sock[v] = s.sock[v]
        /\ b.sock[u] = d
    <2> HIDE DEF k
    <2>1. DOMAIN a = {"sock", "place", "mux", "peerRec"} /\ DOMAIN a.sock = Ids
      BY <1>1 DEF Shape
    <2>2. a.place = s.place /\ a.peerRec = s.peerRec /\ a.sock = s.sock
      BY <1>1
    <2> QED
      BY <2>1, <2>2
  <1> HIDE DEF b
  <1>6. /\ DOMAIN q = {"sock", "place", "mux", "peerRec"}
        /\ q.place = s.place /\ q.peerRec = s.peerRec /\ q.mux = b.mux
        /\ DOMAIN q.sock = Ids /\ \A v \in Ids \ {u} : q.sock[v] = s.sock[v]
        /\ q.sock[u] = e
    <2> HIDE DEF d
    <2> QED
      BY <1>5
  <1>7. t = b \/ t = q
    BY <1>3
  <1> HIDE DEF q, c, d, e
  <1>8. /\ DOMAIN d = SockFields /\ d.mux = c.mux /\ d.listener = c.listener /\ d.queued = c.queued
        /\ d.uses = c.uses /\ d.opened = c.opened /\ d.listening = c.listening
        /\ d.connected = TRUE /\ d.connecting = FALSE /\ d.onList = TRUE /\ d.status = c.status
    BY <1>4 DEF SockFields, d
  <1>9. /\ DOMAIN e = SockFields /\ e.mux = d.mux /\ e.listener = d.listener /\ e.queued = d.queued
        /\ e.uses = d.uses /\ e.opened = d.opened /\ e.listening = d.listening
        /\ e.connected = d.connected /\ e.connecting = d.connecting /\ e.onList = d.onList
        /\ e.status = "CONNECTED"
    BY <1>8 DEF SockFields, e
  <1>10. Shape(b) /\ Shape(q)
    <2>1. \A v \in Ids : DOMAIN b.sock[v] = SockFields /\ DOMAIN q.sock[v] = SockFields
      BY <1>5, <1>6, <1>8, <1>9 DEF Shape
    <2>2. DOMAIN s.place = Ids /\ DOMAIN s.peerRec = Peers
      BY DEF Shape
    <2> QED
      BY <1>5, <1>6, <2>1, <2>2 DEF Shape
  <1>11. ASSUME NEW m \in DOMAIN s.mux
         PROVE  /\ DOMAIN b.mux[m] = MuxFields
                /\ b.mux[m].refs = s.mux[m].refs /\ b.mux[m].listener = s.mux[m].listener
                /\ b.mux[m].list = s.mux[m].list
                /\ b.mux[m].fresh = IF m = s.sock[u].mux THEN s.mux[m].fresh \cup {u} ELSE s.mux[m].fresh
                /\ b.mux[m].rdv = a.mux[m].rdv
    <2> DEFINE x == a.mux[m]
               y == b.mux[m]
    <2>1. (m # k /\ y = x) \/ (m = k /\ y = [x EXCEPT !.fresh = @ \cup {u}])
      BY <1>1, <1>5
    <2>2. DOMAIN x = MuxFields
      BY <1>1
    <2> HIDE DEF x, y, k
    <2>3. /\ DOMAIN y = MuxFields /\ y.refs = x.refs /\ y.listener = x.listener
          /\ y.list = x.list /\ y.rdv = x.rdv
          /\ y.fresh = IF m = k THEN x.fresh \cup {u} ELSE x.fresh
      BY <2>1, <2>2 DEF MuxFields
    <2>4. x.refs = s.mux[m].refs /\ x.listener = s.mux[m].listener /\ x.list = s.mux[m].list
          /\ x.fresh = s.mux[m].fresh
      BY <1>1 DEF x
    <2> QED
      BY <2>3, <2>4 DEF x, y, k
  <1>12. t.mux = b.mux /\ t.place = s.place /\ t.peerRec = s.peerRec /\ Shape(t)
         /\ \A v \in Ids \ {u} : t.sock[v] = s.sock[v]
    BY <1>5, <1>6, <1>7, <1>10
  <1>13. /\ DOMAIN t.mux = DOMAIN s.mux
         /\ \A m \in DOMAIN s.mux :
              /\ DOMAIN t.mux[m] = MuxFields
              /\ t.mux[m].refs = s.mux[m].refs /\ t.mux[m].listener = s.mux[m].listener
              /\ t.mux[m].list = s.mux[m].list
              /\ t.mux[m].fresh = IF m = s.sock[u].mux THEN s.mux[m].fresh \cup {u} ELSE s.mux[m].fresh
              /\ DOMAIN t.mux[m].rdv = Ids
              /\ \A v \in Ids \ {u} : t.mux[m].rdv[v] = s.mux[m].rdv[v]
              /\ t.mux[m].rdv[u] \in Nat /\ t.mux[m].rdv[u] <= s.mux[m].rdv[u]
    <2>1. t.mux = b.mux /\ DOMAIN b.mux = DOMAIN s.mux
      BY <1>1, <1>5, <1>12
    <2>2. ASSUME NEW m \in DOMAIN s.mux
          PROVE  /\ DOMAIN t.mux[m] = MuxFields
                 /\ t.mux[m].refs = s.mux[m].refs /\ t.mux[m].listener = s.mux[m].listener
                 /\ t.mux[m].list = s.mux[m].list
                 /\ t.mux[m].fresh = IF m = s.sock[u].mux THEN s.mux[m].fresh \cup {u}
                                                          ELSE s.mux[m].fresh
                 /\ t.mux[m].rdv = a.mux[m].rdv
      BY <1>11, <2>1
    <2>3. \A m \in DOMAIN s.mux :
              /\ DOMAIN a.mux[m].rdv = Ids
              /\ \A v \in Ids \ {u} : a.mux[m].rdv[v] = s.mux[m].rdv[v]
              /\ a.mux[m].rdv[u] \in Nat /\ a.mux[m].rdv[u] <= s.mux[m].rdv[u]
      BY <1>1
    <2>4. ASSUME NEW m \in DOMAIN s.mux
          PROVE  /\ DOMAIN t.mux[m].rdv = Ids
                 /\ \A v \in Ids \ {u} : t.mux[m].rdv[v] = s.mux[m].rdv[v]
                 /\ t.mux[m].rdv[u] \in Nat /\ t.mux[m].rdv[u] <= s.mux[m].rdv[u]
      <3>1. t.mux[m].rdv = a.mux[m].rdv
        BY <2>2
      <3> QED
        BY <2>3, <3>1
    <2>5. DOMAIN t.mux = DOMAIN s.mux
      BY <2>1
    <2> QED
      BY <2>2, <2>4, <2>5
  <1>14. /\ t.sock[u].mux = s.sock[u].mux /\ t.sock[u].listener = s.sock[u].listener
         /\ t.sock[u].queued = s.sock[u].queued /\ t.sock[u].uses = s.sock[u].uses
         /\ t.sock[u].opened = s.sock[u].opened /\ t.sock[u].listening = s.sock[u].listening
         /\ t.sock[u].connected = TRUE /\ t.sock[u].connecting # TRUE /\ t.sock[u].onList = TRUE
         /\ t.sock[u].status \in {s.sock[u].status, "CONNECTED"}
    <2>1. t.sock[u] = d \/ t.sock[u] = e
      BY <1>5, <1>6, <1>7
    <2> QED
      BY <1>8, <1>9, <2>1 DEF c
  <1> QED
    BY <1>12, <1>13, <1>14 DEF ResponseTo

\* The last response.
LEMMA ResponseFirm ==
  ASSUME Firm(S), NEW m, NEW u \in Ids, Response(m, u)
  PROVE  Firm(S)'
  <1> DEFINE done == Registered(Unregistered(S, {u}), u)
             t == IF Located(u) THEN [done EXCEPT !.sock[u].status = "CONNECTED"] ELSE done
  <1>1. Becomes(t) /\ S.sock[u].connecting
    BY Parts DEF Response
  <1>2. t = done \/ t = [done EXCEPT !.sock[u].status = "CONNECTED"]
    OBVIOUS
  <1> HIDE DEF t
  <1>3. Core(S, {}) /\ QueuesOk(S, {}) /\ Shape(S) /\ MuxShape(S) /\ EmptyOk(S)
    BY DEF Firm, Core
  <1>4. Alive(S, u) /\ S.sock[u].connecting = TRUE
    BY <1>1, <1>3 DEF EmptyOk
  <1>5. ResponseTo(S, u, t)
    BY <1>2, <1>3, ResponseStep
  <1>6. Core(t, {}) /\ QueuesOk(t, {})
    BY <1>3, <1>4, <1>5, ResponseCore
  <1> QED
    BY <1>1, <1>6, FirmBecomes DEF Firm

\* The worker takes its new entries over.
LEMMA TakeFirm ==
  ASSUME Firm(S), NEW m \in DOMAIN mux, TakeNewEntries(m)
  PROVE  Firm(S)'
  <1> DEFINE new == mux[m].fresh
             t == [S EXCEPT !.mux[m].list = @ \cup new, !.mux[m].fresh = {}]
  <1>1. Becomes(t) /\ new # {} /\ m \in DOMAIN S.mux /\ new = S.mux[m].fresh
    BY Parts DEF TakeNewEntries
  <1>2. PICK u \in S.mux[m].fresh : TRUE
    BY <1>1
  <1>3. Core(S, {}) /\ QueuesOk(S, {}) /\ Shape(S) /\ MuxShape(S) /\ ListsOk(S, {})
    BY DEF Firm, Core
  <1>4. u \in S.mux[m].list \cup S.mux[m].fresh
    BY <1>2
  <1> HIDE DEF new
  <1>5. /\ Shape(t) /\ t.place = S.place /\ t.peerRec = S.peerRec /\ t.sock = S.sock
        /\ t.mux = [S.mux EXCEPT ![m].list = @ \cup new, ![m].fresh = {}]
    BY <1>3 DEF Shape
  <1> HIDE DEF t
  <1>6. /\ DOMAIN t.mux = DOMAIN S.mux /\ \A k \in DOMAIN S.mux \ {m} : t.mux[k] = S.mux[k]
        /\ t.mux[m] = [S.mux[m] EXCEPT !.list = @ \cup new, !.fresh = {}]
    BY <1>1, <1>5
  <1>7. \A k \in DOMAIN S.mux : DOMAIN S.mux[k] = MuxFields
    BY <1>3 DEF MuxShape
  <1>8. /\ DOMAIN t.mux[m] = MuxFields /\ t.mux[m].refs = S.mux[m].refs
        /\ t.mux[m].listener = S.mux[m].listener /\ t.mux[m].rdv = S.mux[m].rdv
        /\ t.mux[m].list = S.mux[m].list \cup new /\ t.mux[m].fresh = {}
    <2> DEFINE x == S.mux[m]
               y == t.mux[m]
    <2>1. y = [x EXCEPT !.list = @ \cup new, !.fresh = {}] /\ DOMAIN x = MuxFields
      BY <1>1, <1>6, <1>7
    <2> HIDE DEF x, y
    <2>2. /\ DOMAIN y = MuxFields /\ y.refs = x.refs /\ y.listener = x.listener /\ y.rdv = x.rdv
          /\ y.list = x.list \cup new /\ y.fresh = {}
      BY <2>1 DEF MuxFields
    <2> QED
      BY <2>2 DEF x, y
  <1>9. /\ DOMAIN t.mux = DOMAIN S.mux
        /\ \A k \in DOMAIN S.mux :
             /\ DOMAIN t.mux[k] = MuxFields
             /\ t.mux[k].refs = S.mux[k].refs /\ t.mux[k].listener = S.mux[k].listener
             /\ t.mux[k].rdv = S.mux[k].rdv
             /\ k # m => t.mux[k].list = S.mux[k].list /\ t.mux[k].fresh = S.mux[k].fresh
    <2>1. DOMAIN t.mux = DOMAIN S.mux /\ \A k \in DOMAIN S.mux \ {m} : t.mux[k] = S.mux[k]
      BY <1>6
    <2> QED
      BY <1>7, <1>8, <2>1
  <1>10. /\ t.mux[m].list \cap t.mux[m].fresh = {}
         /\ t.mux[m].list \cup t.mux[m].fresh \subseteq S.mux[m].list \cup S.mux[m].fresh
    BY <1>1, <1>8
  <1>11. Shape(t) /\ t.place = S.place /\ t.peerRec = S.peerRec /\ t.sock = S.sock
    BY <1>5
  <1>12. ListTo(S, m, u, t)
    BY <1>9, <1>10, <1>11 DEF ListTo
  <1>13. Core(t, {}) /\ QueuesOk(t, {})
    BY <1>1, <1>3, <1>4, <1>12, ListCore
  <1> QED
    BY <1>1, <1>13, FirmBecomes DEF Firm

\* The timer check takes a socket off the list.
LEMMA TimerFirm ==
  ASSUME Firm(S), NEW m \in DOMAIN mux, NEW u \in Ids, TimerCheck(m, u)
  PROVE  Firm(S)'
  <1> DEFINE t == [S EXCEPT !.mux[m].list = @ \ {u}, !.sock[u].onList = FALSE]
  <1>1. Becomes(t) /\ u \in S.mux[m].list /\ m \in DOMAIN S.mux
    BY Parts DEF TimerCheck, Unlisted
  <1>3. Core(S, {}) /\ QueuesOk(S, {}) /\ Shape(S) /\ MuxShape(S) /\ ListsOk(S, {})
    BY DEF Firm, Core
  <1>4. u \in S.mux[m].list \cup S.mux[m].fresh
    BY <1>1
  <1>5. /\ Shape(t) /\ t.place = S.place /\ t.peerRec = S.peerRec
        /\ t.mux = [S.mux EXCEPT ![m].list = @ \ {u}]
        /\ \A v \in Ids \ {u} : t.sock[v] = S.sock[v]
        /\ t.sock[u] = [S.sock[u] EXCEPT !.onList = FALSE]
    BY <1>3 DEF Shape, SockFields
  <1> HIDE DEF t
  <1>6. /\ DOMAIN t.mux = DOMAIN S.mux /\ \A k \in DOMAIN S.mux \ {m} : t.mux[k] = S.mux[k]
        /\ t.mux[m] = [S.mux[m] EXCEPT !.list = @ \ {u}]
    BY <1>1, <1>5
  <1>7. \A k \in DOMAIN S.mux : DOMAIN S.mux[k] = MuxFields
    BY <1>3 DEF MuxShape
  <1>8. /\ DOMAIN t.mux[m] = MuxFields /\ t.mux[m].refs = S.mux[m].refs
        /\ t.mux[m].listener = S.mux[m].listener /\ t.mux[m].rdv = S.mux[m].rdv
        /\ t.mux[m].list = S.mux[m].list \ {u} /\ t.mux[m].fresh = S.mux[m].fresh
    <2> DEFINE x == S.mux[m]
               y == t.mux[m]
    <2>1. y = [x EXCEPT !.list = @ \ {u}] /\ DOMAIN x = MuxFields
      BY <1>1, <1>6, <1>7
    <2> HIDE DEF x, y
    <2>2. /\ DOMAIN y = MuxFields /\ y.refs = x.refs /\ y.listener = x.listener /\ y.rdv = x.rdv
          /\ y.list = x.list \ {u} /\ y.fresh = x.fresh
      BY <2>1 DEF MuxFields
    <2> QED
      BY <2>2 DEF x, y
  <1>9. /\ DOMAIN t.mux = DOMAIN S.mux
        /\ \A k \in DOMAIN S.mux :
             /\ DOMAIN t.mux[k] = MuxFields
             /\ t.mux[k].refs = S.mux[k].refs /\ t.mux[k].listener = S.mux[k].listener
             /\ t.mux[k].rdv = S.mux[k].rdv
             /\ k # m => t.mux[k].list = S.mux[k].list /\ t.mux[k].fresh = S.mux[k].fresh
    <2>1. DOMAIN t.mux = DOMAIN S.mux /\ \A k \in DOMAIN S.mux \ {m} : t.mux[k] = S.mux[k]
      BY <1>6
    <2> QED
      BY <1>7, <1>8, <2>1
  <1>10. /\ t.mux[m].list \cap t.mux[m].fresh = {}
         /\ t.mux[m].list \cup t.mux[m].fresh \subseteq S.mux[m].list \cup S.mux[m].fresh
         /\ u \notin t.mux[m].list \cup t.mux[m].fresh
    <2>1. S.mux[m].list \cap S.mux[m].fresh = {}
      BY <1>1, <1>3 DEF ListsOk
    <2> QED
      BY <1>1, <1>8, <2>1
  <1>11. /\ t.sock[u].mux = S.sock[u].mux /\ t.sock[u].listener = S.sock[u].listener
         /\ t.sock[u].queued = S.sock[u].queued /\ t.sock[u].uses = S.sock[u].uses
         /\ t.sock[u].opened = S.sock[u].opened /\ t.sock[u].listening = S.sock[u].listening
         /\ t.sock[u].connected = S.sock[u].connected
         /\ t.sock[u].connecting = S.sock[u].connecting /\ t.sock[u].status = S.sock[u].status
    <2> DEFINE c == S.sock[u]
               d == t.sock[u]
    <2>1. d = [c EXCEPT !.onList = FALSE] /\ DOMAIN c = SockFields
      BY <1>3, <1>5 DEF Shape
    <2> HIDE DEF c, d
    <2>2. /\ d.mux = c.mux /\ d.listener = c.listener /\ d.queued = c.queued /\ d.uses = c.uses
          /\ d.opened = c.opened /\ d.listening = c.listening /\ d.connected = c.connected
          /\ d.connecting = c.connecting /\ d.status = c.status
      BY <2>1 DEF SockFields
    <2> QED
      BY <2>2 DEF c, d
  <1>12. /\ Shape(t) /\ t.place = S.place /\ t.peerRec = S.peerRec
         /\ \A v \in Ids \ {u} : t.sock[v] = S.sock[v]
    BY <1>5
  <1>13. ListTo(S, m, u, t)
    BY <1>9, <1>10, <1>11, <1>12 DEF ListTo
  <1>14. Core(t, {}) /\ QueuesOk(t, {})
    BY <1>1, <1>3, <1>4, <1>13, ListCore
  <1> QED
    BY <1>1, <1>14, FirmBecomes DEF Firm

\* newConnection marks the peer's last connection.
Marked(s, o) == [s EXCEPT !.sock[o].status = "CLOSED", !.sock[o].old = FALSE]

\* The peer's last connection, which is broken, is closed and leaves its listener's queues.
LEMMA ClearedStep ==
  ASSUME NEW s, Core(s, {}), QueuesOk(s, {}), NEW o \in Ids, s.place[o] = "open",
         s.sock[o].status # "INIT", NEW l \in Ids, NEW t,
         t = Dequeued(Marked(s, o), l, o)
  PROVE  Core(t, {}) /\ QueuesOk(t, {}) /\ t.place = s.place /\ t.mux = s.mux
         /\ t.sock[l].mux = s.sock[l].mux
  <1> DEFINE a == [s EXCEPT !.sock[o].status = "CLOSED", !.sock[o].old = FALSE]
             b == [a EXCEPT !.sock[l].queued = @ \ {o}, !.sock[l].accepted = @ \ {o}]
             c == s.sock[o]
             d == a.sock[o]
  <1>1. Shape(s) /\ DOMAIN c = SockFields
    BY DEF Core, Shape
  <1>2. /\ Shape(a) /\ a.place = s.place /\ a.peerRec = s.peerRec /\ a.mux = s.mux
        /\ \A v \in Ids \ {o} : a.sock[v] = s.sock[v]
        /\ d = [c EXCEPT !.status = "CLOSED", !.old = FALSE]
    BY <1>1 DEF Shape, SockFields
  <1>3. t = b
    BY DEF Dequeued, Marked
  <1> HIDE DEF a, c, d
  <1>4. /\ d.mux = c.mux /\ d.listener = c.listener /\ d.queued = c.queued /\ d.uses = c.uses
        /\ d.opened = c.opened /\ d.listening = c.listening /\ d.connected = c.connected
        /\ d.onList = c.onList /\ d.connecting = c.connecting /\ d.status = "CLOSED"
    BY <1>1, <1>2 DEF SockFields
  <1>5. Alive(s, o)
    BY DEF Alive
  <1>6. Core(a, {}) /\ QueuesOk(a, {})
    BY <1>2, <1>4, <1>5, StatusCore DEF c, d
  <1> DEFINE e == a.sock[l]
             f == b.sock[l]
  <1>7. /\ Shape(b) /\ b.place = a.place /\ b.peerRec = a.peerRec /\ b.mux = a.mux
        /\ \A v \in Ids \ {l} : b.sock[v] = a.sock[v]
        /\ f = [e EXCEPT !.queued = @ \ {o}, !.accepted = @ \ {o}]
    BY <1>2 DEF Shape, SockFields
  <1>8. DOMAIN e = SockFields
    BY <1>2 DEF Shape
  <1> HIDE DEF b, e, f
  <1>9. /\ f.status = e.status /\ f.opened = e.opened /\ f.listening = e.listening
        /\ f.connecting = e.connecting /\ f.connected = e.connected /\ f.onList = e.onList
        /\ f.mux = e.mux /\ f.listener = e.listener /\ f.uses = e.uses /\ f.queued \subseteq e.queued
    BY <1>7, <1>8 DEF SockFields
  <1>10. Still(a, b)
    BY <1>2, <1>7, <1>9, MarkStill DEF e, f
  <1>11. Core(b, {}) /\ QueuesOk(b, {})
    BY <1>6, <1>10, StillCore
  <1>12. b.place = s.place /\ b.mux = s.mux
    BY <1>2, <1>7
  <1>13. b.sock[l].mux = s.sock[l].mux
    BY <1>2, <1>4, <1>9 DEF c, d, e, f
  <1> QED
    BY <1>3, <1>11, <1>12, <1>13

\* A request.
LEMMA RequestFirm ==
  ASSUME Good(S), Firm(S), NEW m \in DOMAIN mux, NEW p \in Peers, Request(m, p)
  PROVE  Firm(S)'
  <1> DEFINE l == mux[m].listener
             old == FromPeer(p)
             o == Newest(old)
             cleared == IF old = {} THEN S
                        ELSE Dequeued([S EXCEPT !.sock[o].status = "CLOSED", !.sock[o].old = FALSE], l, o)
             n == NextId
  <1>1. /\ l # Nobody
        /\ \/ Becomes(cleared)
           \/ n \in Ids /\ Becomes(Connection(cleared, l, n, p))
    BY DEF Request
  <1>2. /\ Core(S, {}) /\ QueuesOk(S, {}) /\ ListenerOk(S) /\ PeersOk(S)
    BY DEF Firm, Core
  <1>3. m \in DOMAIN S.mux /\ l = S.mux[m].listener
    BY Parts
  <1>4. l \in Ids /\ Alive(S, l) /\ S.sock[l].mux = m
    BY <1>1, <1>2, <1>3 DEF ListenerOk, Hears
  <1>5. \A u \in old : u \in Ids /\ S.place[u] = "open" /\ S.sock[u].status # "INIT"
    BY <1>2, Parts DEF PeersOk, FromPeer
  <1>6. old # {} => o \in old
    <2>1. old \in SUBSET Ids
      BY <1>5
    <2> HIDE DEF old
    <2> QED
      BY <2>1, NewestIsNewest
  <1>7. n \in Ids => S.place[n] = "none"
    BY NextIdFresh, Parts DEF Ids
  <1>8. old = {} => cleared = S
    OBVIOUS
  <1>9. old # {} => cleared = Dequeued(Marked(S, o), l, o)
    BY DEF Marked
  <1> HIDE DEF l, old, o, cleared, n
  <1>10. /\ Core(cleared, {}) /\ QueuesOk(cleared, {}) /\ cleared.place = S.place
         /\ cleared.mux = S.mux /\ cleared.sock[l].mux = m
    <2>1. CASE old = {}
      BY <1>2, <1>4, <1>8, <2>1
    <2>2. CASE old # {}
      <3>1. o \in Ids /\ S.place[o] = "open" /\ S.sock[o].status # "INIT"
        BY <1>5, <1>6, <2>2
      <3> QED
        BY <1>2, <1>4, <1>9, <2>2, <3>1, ClearedStep
    <2> QED
      BY <2>1, <2>2
  <1>11. CASE Becomes(cleared)
    BY <1>10, <1>11, FirmBecomes DEF Firm
  <1>12. CASE n \in Ids /\ Becomes(Connection(cleared, l, n, p))
    <2>1. cleared.place[n] = "none" /\ Alive(cleared, l) /\ m \in DOMAIN cleared.mux
      BY <1>3, <1>4, <1>7, <1>10, <1>12 DEF Alive
    <2>2. Core(Connection(cleared, l, n, p), {}) /\ QueuesOk(Connection(cleared, l, n, p), {})
      BY <1>4, <1>10, <1>12, <2>1, ConnectionCore
    <2> QED
      BY <1>12, <2>2, FirmBecomes DEF Firm
  <1> QED
    BY <1>1, <1>11, <1>12

\* The garbage collector.
LEMMA CollectorFirm ==
  ASSUME Firm(S), NEW wait, NEW linger, CheckBrokenSockets(wait, linger)
  PROVE  Firm(S)'
  <1> DEFINE dead == {u \in Ids : /\ place[u] = "open" /\ sock[u].broken
                                  /\ sock[u].status = "LISTENING" => sock[u].old} \ wait
             removed == {u \in Ids : place[u] = "closed" /\ sock[u].old /\ ~sock[u].onList} \ linger
             a == Collected(S, dead)
             b == LingerOver(a, linger)
             c == Orphaned(b, removed)
             d == RemoveSocket(c, removed)
  <1>1. Becomes(d)
    BY DEF CheckBrokenSockets
  <1>2. /\ \A u \in dead \cap Ids : Alive(S, u)
        /\ removed \in SUBSET Ids
        /\ \A u \in removed : S.place[u] = "closed" /\ S.sock[u].onList # TRUE /\ u \notin dead
    BY Parts DEF Alive
  <1> HIDE DEF dead, removed
  <1>3. Core(S, {}) /\ QueuesOk(S, {})
    BY DEF Firm
  <1>4. /\ Core(a, {}) /\ QueuesOk(a, {})
        /\ \A u \in Ids : /\ a.place[u] = IF u \in dead THEN "closed" ELSE S.place[u]
                          /\ a.sock[u].onList = S.sock[u].onList
    <2>1. {} \cap Ids \subseteq dead
      OBVIOUS
    <2> QED
      BY <1>2, <1>3, <2>1, CollectedCore
  <1> HIDE DEF a
  <1>5. Still(a, b)
    BY <1>4, MarksStill DEF Core
  <1> HIDE DEF b
  <1>6. Core(b, {}) /\ QueuesOk(b, {})
    BY <1>4, <1>5, StillCore
  <1>7. \A u \in removed : b.place[u] = "closed" /\ b.sock[u].onList # TRUE
    <2>1. b.place = a.place /\ \A u \in Ids : b.sock[u].onList = a.sock[u].onList
      BY <1>5 DEF Still
    <2> QED
      BY <1>2, <1>4, <2>1
  <1>8. /\ Core(c, {}) /\ QueuesOk(c, removed)
        /\ \A u \in removed : c.place[u] = "closed" /\ c.sock[u].onList # TRUE
    <2>1. /\ Core(c, {}) /\ QueuesOk(c, removed) /\ \A u \in removed : c.place[u] = "closed"
          /\ \A u \in Ids : c.sock[u].onList = b.sock[u].onList
      <3>1. \A u \in removed : b.place[u] = "closed"
        BY <1>7
      <3> QED
        BY <1>2, <1>6, <3>1, OrphanedCore
    <2> QED
      BY <1>2, <1>7, <2>1
  <1> HIDE DEF c
  <1>9. Core(d, {}) /\ QueuesOk(d, {})
    BY <1>2, <1>8, RemoveCore
  <1> HIDE DEF d
  <1> QED
    BY <1>1, <1>9, FirmBecomes DEF Firm

\* cleanup().
LEMMA CleanupFirm ==
  ASSUME Firm(S), Cleanup
  PROVE  Firm(S)'
  <1> DEFINE open == {u \in Ids : place[u] = "open"}
             break(k) == [k EXCEPT !.broken = TRUE]
             a == Each(S, open, break)
             b == Shut(a, open)
             c == Collected(b, open)
             n == [sock |-> sock', place |-> place', mux |-> mux', peerRec |-> peerRec']
  <1>1. /\ sock' = [u \in Ids |-> [c.sock[u] EXCEPT !.old = c.place[u] = "closed"]]
        /\ place' = c.place /\ mux' = c.mux /\ peerRec' = c.peerRec
    BY DEF Cleanup
  <1>2. \A u \in open \cap Ids : Alive(S, u)
    BY Parts DEF Alive
  <1> HIDE DEF open
  <1>3. Core(S, {}) /\ QueuesOk(S, {}) /\ Shape(S)
    BY DEF Firm, Core
  <1>4. Still(S, a)
    BY <1>3, MarksStill
  <1> HIDE DEF a
  <1>5. Core(a, {}) /\ QueuesOk(a, {}) /\ a.place = S.place
    BY <1>3, <1>4, StillCore DEF Still
  <1>6. Core(b, open) /\ QueuesOk(b, {})
    BY <1>5, ShutCore
  <1>7. b.place = a.place
    <2>1. Shape(a) /\ MuxShape(a)
      BY <1>5 DEF Core
    <2>2. ShutTo(a, open, b)
      BY <2>1, ShutEffect
    <2> QED
      BY <2>2 DEF ShutTo
  <1> HIDE DEF b
  <1>8. \A u \in open \cap Ids : Alive(b, u)
    BY <1>2, <1>5, <1>7 DEF Alive
  <1>9. Core(c, {}) /\ QueuesOk(c, {}) /\ Shape(c)
    <2>1. open \cap Ids \subseteq open
      OBVIOUS
    <2>2. Core(c, {}) /\ QueuesOk(c, {})
      BY <1>6, <1>8, <2>1, CollectedCore
    <2> QED
      BY <2>2 DEF Core
  <1> HIDE DEF c
  <1>10. S' = n
    BY DEF S
  <1>11. /\ DOMAIN n = {"sock", "place", "mux", "peerRec"}
         /\ n.place = c.place /\ n.mux = c.mux /\ n.peerRec = c.peerRec /\ DOMAIN n.sock = Ids
         /\ \A u \in Ids : n.sock[u] = [c.sock[u] EXCEPT !.old = c.place[u] = "closed"]
    BY <1>1
  <1> HIDE DEF n
  <1>12. ASSUME NEW u \in Ids
         PROVE  /\ DOMAIN n.sock[u] = SockFields
                /\ n.sock[u].status = c.sock[u].status /\ n.sock[u].opened = c.sock[u].opened
                /\ n.sock[u].listening = c.sock[u].listening
                /\ n.sock[u].connecting = c.sock[u].connecting
                /\ n.sock[u].connected = c.sock[u].connected /\ n.sock[u].onList = c.sock[u].onList
                /\ n.sock[u].mux = c.sock[u].mux /\ n.sock[u].listener = c.sock[u].listener
                /\ n.sock[u].uses = c.sock[u].uses /\ n.sock[u].queued = c.sock[u].queued
    <2> DEFINE x == c.sock[u]
               y == n.sock[u]
               z == c.place[u] = "closed"
    <2>1. y = [x EXCEPT !.old = z] /\ DOMAIN x = SockFields
      BY <1>9, <1>11 DEF Shape
    <2> HIDE DEF x, y, z
    <2>2. /\ DOMAIN y = SockFields /\ y.status = x.status /\ y.opened = x.opened
          /\ y.listening = x.listening /\ y.connecting = x.connecting
          /\ y.connected = x.connected /\ y.onList = x.onList /\ y.mux = x.mux
          /\ y.listener = x.listener /\ y.uses = x.uses /\ y.queued = x.queued
      BY <2>1 DEF SockFields
    <2> QED
      BY <2>2 DEF x, y
  <1>13. Shape(n)
    BY <1>9, <1>11, <1>12 DEF Shape
  <1>14. n.place = c.place /\ n.mux = c.mux /\ n.peerRec = c.peerRec
    BY <1>11
  <1>15. Still(c, n)
    BY <1>12, <1>13, <1>14 DEF Still
  <1>16. Firm(n)
    BY <1>9, <1>15, StillCore DEF Firm
  <1> QED
    BY <1>10, <1>16

\* startup().
LEMMA FirmInit == SocketsInit => Firm(S)
  <1> SUFFICES ASSUME SocketsInit PROVE Firm(S)
    OBVIOUS
  <1>1. Shape(S)
    BY GoodInit DEF Good
  <1>2. DOMAIN S.mux = {}
    BY Parts DEF SocketsInit
  <1>3. \A u \in Ids : S.sock[u] = NoSocket /\ S.place[u] = "none"
    BY Parts DEF SocketsInit
  <1>4. \A p \in Peers : S.peerRec[p] = {}
    BY Parts DEF SocketsInit
  <1>5. \A u \in Ids : /\ S.sock[u].mux = Nobody /\ S.sock[u].connecting # TRUE
                       /\ S.sock[u].listening # TRUE /\ S.sock[u].status = "INIT"
                       /\ S.sock[u].queued = {} /\ S.sock[u].uses \in Nat
    <2>1. /\ NoSocket.mux = Nobody /\ NoSocket.connecting # TRUE /\ NoSocket.listening # TRUE
          /\ NoSocket.status = "INIT" /\ NoSocket.queued = {} /\ NoSocket.uses \in Nat
      BY DEF NoSocket
    <2> QED
      BY <1>3, <2>1
  <1>6. MuxShape(S) /\ MuxIdsOk(S) /\ ListenerOk(S) /\ ListsOk(S, {}) /\ RdvOk(S)
    BY <1>2 DEF MuxShape, MuxIdsOk, ListenerOk, ListsOk, RdvOk
  <1>7. EmptyOk(S) /\ RefsOk(S)
    BY <1>2, <1>5 DEF EmptyOk, RefsOk
  <1>8. StatusOk(S, {})
    <2> SUFFICES ASSUME NEW u \in Ids PROVE Consistent(S, {}, u)
      BY DEF StatusOk
    <2>1. /\ S.sock[u].mux = Nobody /\ S.sock[u].connecting # TRUE
          /\ S.sock[u].listening # TRUE /\ S.sock[u].status = "INIT" /\ S.sock[u].uses \in Nat
      BY <1>5
    <2> QED
      BY <2>1 DEF Consistent
  <1>9. PeersOk(S) /\ QueuesOk(S, {})
    BY <1>4, <1>5 DEF PeersOk, QueuesOk
  <1> QED
    BY <1>1, <1>6, <1>7, <1>8, <1>9 DEF Firm, Core

\* The invariant says that nobody follows a pointer to something freed.
LEMMA FirmNoDangling == Firm(S) => NoDangling
  <1> SUFFICES ASSUME Firm(S) PROVE NoDangling
    OBVIOUS
  <1>1. /\ RefsOk(S) /\ ListenerOk(S) /\ ListsOk(S, {}) /\ RdvOk(S) /\ QueuesOk(S, {})
        /\ EmptyOk(S) /\ StatusOk(S, {})
    BY DEF Firm, Core
  <1>2. WorkerPointersAlive
    <2> SUFFICES ASSUME NEW m \in DOMAIN mux
                 PROVE  /\ mux[m].listener # Nobody => ~Freed(mux[m].listener)
                        /\ \A u \in mux[m].list \cup mux[m].fresh : ~Freed(u)
                        /\ \A u \in Ids : mux[m].rdv[u] > 0 /\ Freed(u) => sock[u].uses > 1
      BY DEF WorkerPointersAlive
    <2>1. m \in DOMAIN S.mux
      BY Parts
    <2>2. mux[m].listener # Nobody => ~Freed(mux[m].listener)
      BY <1>1, <2>1, Parts DEF ListenerOk, Hears, Alive, Freed
    <2>3. \A u \in mux[m].list \cup mux[m].fresh : ~Freed(u)
      BY <1>1, <2>1, Parts DEF ListsOk, Listed, Alive, Freed
    <2>4. ASSUME NEW u \in Ids, mux[m].rdv[u] > 0, Freed(u) PROVE sock[u].uses > 1
      <3>1. ~Entered(S, m, u)
        BY <2>4, Parts DEF Entered, Alive, Freed
      <3>2. sock[u].uses \in Nat
        BY <1>1, Parts DEF StatusOk, Consistent
      <3>3. ~(sock[u].uses <= 1)
        BY <1>1, <2>1, <2>4, <3>1, Parts DEF RdvOk
      <3> QED
        BY <3>2, <3>3
    <2> QED
      BY <2>2, <2>3, <2>4
  <1>3. MuxAlive
    <2>1. ASSUME NEW m \in DOMAIN mux
          PROVE  mux[m].refs = Cardinality({u \in Ids : place[u] \in {"open", "closed"} /\ sock[u].mux = m})
      <3>1. Users(S, m) = {u \in Ids : place[u] \in {"open", "closed"} /\ sock[u].mux = m}
        BY Parts DEF Users, Alive
      <3> QED
        BY <1>1, <3>1, Parts DEF RefsOk
    <2>2. \A u \in Ids : ~Freed(u) /\ sock[u].mux # Nobody => sock[u].mux \in DOMAIN mux
      BY <1>1, Parts DEF RefsOk
    <2> QED
      BY <2>1, <2>2 DEF MuxAlive
  <1>4. QueuedAreOpen
    BY <1>1, Parts DEF QueuesOk, QueuedAreOpen
  <1> QED
    BY <1>2, <1>3, <1>4 DEF NoDangling

\* Whatever the application, the workers and the garbage collector do in any order:
\* no multiplexer keeps a listener, a listed or new entry, or the entry of the only
\* connect() of a freed socket; no multiplexer goes before its last user, and m_iRefCount
\* counts its users; and removeSocket finds the waiting connections of a listener in
\* m_Sockets.  For any number of sockets, ports, peers and calls, and any backlog.
THEOREM NothingDangles == SocketsSpec => []NoDangling
  <1> DEFINE Inv == Good(S) /\ Firm(S)
  <1>1. Inv /\ [SocketsNext]_socketVars => Firm(S)'
    <2> SUFFICES ASSUME Good(S), Firm(S), [SocketsNext]_socketVars PROVE Firm(S)'
      OBVIOUS
    <2>1. CASE App
      BY <2>1, NewSocketFirm, BindFirm, ListenFirm, AcceptFirm, ConnectFirm, EndsFirm, CloseFirm,
         CleanupFirm DEF App
    <2>2. CASE Worker
      BY <2>2, RequestFirm, ResponseFirm, EndsFirm, TakeFirm, TimerFirm, MarksFirm DEF Worker
    <2>3. CASE Gc
      BY <2>3, CollectorFirm DEF Gc
    <2>4. ASSUME NEW u \in Ids, Aging(u) PROVE Firm(S)'
      BY <2>4, MarksFirm
    <2>5. CASE UNCHANGED socketVars
      <3>1. S' = S
        BY <2>5 DEF socketVars, S
      <3> QED
        BY <3>1
    <2> QED
      BY <2>1, <2>2, <2>3, <2>4, <2>5 DEF SocketsNext
  <1>2. Good(S) /\ [SocketsNext]_socketVars => Good(S)'
    BY GoodNext
  <1>3. SocketsInit => Inv
    BY GoodInit, FirmInit
  <1>4. Inv => NoDangling
    BY FirmNoDangling
  <1> HIDE DEF Inv
  <1>5. Inv /\ [SocketsNext]_socketVars => Inv'
    BY <1>1, <1>2 DEF Inv
  <1> QED
    BY <1>3, <1>4, <1>5, PTL DEF SocketsSpec
=============================================================================
