----------------------------- MODULE Handshake -----------------------------
(***************************************************************************)
(* Setting up a connection: connect() of some clients, blocking or not     *)
(* (core.cpp), the rendezvous queue and the packets the worker stores for  *)
(* a blocking connect() (queue.cpp), the listener with its cookies, and    *)
(* newConnection with its backlog (api.cpp), over a network that loses,    *)
(* repeats and reorders.  A client calls connect() once.  Its initial      *)
(* sequence number and socket id identify the client, so they are the      *)
(* client here.                                                            *)
(***************************************************************************)
EXTENDS Integers, Sequences, FiniteSets

CONSTANTS Clients,
          ConnectModes,   \* m_bSynRecving of a client: "blocking", "nonblocking"
          QueueLimit,     \* m_uiBackLog
          StoreLimit,     \* the 16 packets of storePkt
          MaxMinute       \* bound: how often the secret of the cookies changes

ASSUME HandshakeAssumption == /\ QueueLimit \in Nat \ {0} /\ StoreLimit \in Nat
                              /\ MaxMinute \in Nat

VARIABLES cli,       \* the clients' sockets: see Fresh
          wireOut,   \* requests ever sent to the listener
          wireIn,    \* packets ever sent to the clients
          minute,    \* the clock of the cookies
          backlog,   \* m_pQueuedSockets
          conn       \* the server's socket for a client: "none", "live" or "broken"

hsVars == <<cli, wireOut, wireIn, minute, backlog, conn>>

None == -1     \* no cookie
Data == 0      \* in place of the request type: not a handshake packet

\* A socket before connect(): m_ConnReq is made there, m_ConnRes is all zero.
Fresh(how) == [mode |-> how, pc |-> "idle",
               reqType |-> 1, cookie |-> None,   \* m_ConnReq
               resType |-> 0, echoed |-> FALSE,  \* m_ConnRes: m_iReqType; m_iISN is mine
               registered |-> FALSE,             \* in the rendezvous queue
               connecting |-> FALSE, connected |-> FALSE,
               expired |-> FALSE,                \* the time to live is over
               box |-> << >>]                    \* m_mBuffer: stored packets

HandshakeInit == /\ cli \in [Clients -> {Fresh(how) : how \in ConnectModes}]
                 /\ wireOut = {} /\ wireIn = {}
                 /\ minute = 0 /\ backlog = {}
                 /\ conn = [c \in Clients |-> "none"]

(***************************************************************************)
(* The client.                                                             *)
(***************************************************************************)
RequestOf(c, k) == [from |-> c, type |-> k.reqType, cookie |-> k.cookie]

\* connect(serv_addr): register, send the first request, wait unless non-blocking.
ConnectCall(c) ==
  LET k == [cli[c] EXCEPT !.registered = TRUE, !.connecting = TRUE,
                          !.pc = IF cli[c].mode = "blocking" THEN "loop" ELSE "returned"]
  IN /\ cli[c].pc = "idle"
     /\ cli' = [cli EXCEPT ![c] = k]
     /\ wireOut' = wireOut \cup {RequestOf(c, k)}
     /\ UNCHANGED <<wireIn, minute, backlog, conn>>

\* Every 250 ms: by the loop of connect(), and by updateConnStatus for every entry of
\* the rendezvous queue whose time to live is not over.
Resend(c) ==
  /\ cli[c].pc = "loop" \/ (cli[c].registered /\ ~cli[c].expired)
  /\ wireOut' = wireOut \cup {RequestOf(c, cli[c])}
  /\ UNCHANGED <<cli, wireIn, minute, backlog, conn>>

TtlOver(c) == /\ cli[c].pc # "idle" /\ cli[c].registered /\ ~cli[c].expired
              /\ cli' = [cli EXCEPT ![c].expired = TRUE]
              /\ UNCHANGED <<wireOut, wireIn, minute, backlog, conn>>

\* Mutant of AfterTtl: the entry is only left alone.
MutAfterTtl(k) == k

AfterTtl(k) == [k EXCEPT !.connecting = FALSE]

\* updateConnStatus: the time to live of an entry is over.
GiveUp(c) == /\ cli[c].registered /\ cli[c].expired
             /\ cli[c] # AfterTtl(cli[c])
             /\ cli' = [cli EXCEPT ![c] = AfterTtl(@)]
             /\ UNCHANGED <<wireOut, wireIn, minute, backlog, conn>>

\* Mutant of Responded: a cookie is taken for the answer to the request.
MutResponded(k, m) ==
  IF ~k.connecting \/ m.type = Data THEN [sock |-> k, value |-> -1]
  ELSE [sock |-> [k EXCEPT !.resType = m.type, !.echoed = TRUE, !.registered = FALSE,
                           !.box = << >>, !.connecting = FALSE, !.connected = TRUE],
        value |-> 0]

\* connect(response): the socket it leaves, and what it returns.  A refusal (1002) goes
\* through POST_CONNECT like an acceptance.
Responded(k, m) ==
  LET known == [k EXCEPT !.resType = m.type, !.echoed = TRUE]
  IN CASE ~k.connecting \/ m.type = Data -> [sock |-> k, value |-> -1]
       [] k.connecting /\ m.type = 1 ->
            [sock |-> [known EXCEPT !.reqType = -1, !.cookie = m.cookie], value |-> 1]
       [] k.connecting /\ m.type \in {-1, 1002} ->
            [sock |-> [known EXCEPT !.registered = FALSE, !.box = << >>,
                                    !.connecting = FALSE, !.connected = TRUE],
             value |-> 0]

\* What connect() does once its loop is over without a timeout.
Verdict(k) == IF k.resType = 1002 THEN "refused"
              ELSE IF ~k.echoed THEN "insecure" ELSE "success"

\* One round of the loop with a stored packet: anything but "needs more" ends it.
\* A new request is sent at once (the next Resend).
ConnectLoop(c) ==
  LET k == [cli[c] EXCEPT !.box = Tail(@)]
      r == Responded(k, Head(cli[c].box))
  IN /\ cli[c].pc = "loop" /\ cli[c].box # << >>
     /\ cli' = [cli EXCEPT ![c] =
          IF r.value <= 0 THEN [r.sock EXCEPT !.pc = Verdict(r.sock)]
          ELSE IF k.expired THEN [r.sock EXCEPT !.pc = "timeout"] ELSE r.sock]
     /\ UNCHANGED <<wireOut, wireIn, minute, backlog, conn>>

\* A round without a packet: recvfrom returns after a second at the latest.
ConnectTimeout(c) ==
  /\ cli[c].pc = "loop" /\ cli[c].box = << >> /\ cli[c].expired
  /\ cli' = [cli EXCEPT ![c].pc = "timeout"]
  /\ UNCHANGED <<wireOut, wireIn, minute, backlog, conn>>

\* storePkt: the first packet is always stored, another one if the store is not full.
Store(k, m) == IF k.box # << >> /\ Len(k.box) > StoreLimit THEN k
               ELSE [k EXCEPT !.box = Append(@, m)]

\* The client's worker gets a packet for a socket that is not connected: it is handled
\* at once, or stored for the blocking call, whether or not that still waits.
ClientPacket(c, m) ==
  /\ m \in wireIn /\ m.to = c /\ cli[c].registered
  /\ cli' = [cli EXCEPT ![c] = IF cli[c].mode = "nonblocking" THEN Responded(@, m).sock
                               ELSE Store(@, m)]
  /\ UNCHANGED <<wireOut, wireIn, minute, backlog, conn>>

(***************************************************************************)
(* The server.                                                             *)
(***************************************************************************)
Answer(c, type) == wireIn' = wireIn \cup {[to |-> c, type |-> type, cookie |-> None]}

\* listen(addr, packet) with a first request: the cookie, and no state.
GiveCookie(m) ==
  /\ m \in wireOut /\ m.type = 1
  /\ wireIn' = wireIn \cup {[to |-> m.from, type |-> 1, cookie |-> minute]}
  /\ UNCHANGED <<cli, wireOut, minute, backlog, conn>>

\* The string for the minute before is appended to the one for this minute, so the
\* second comparison never succeeds.
CookieAccepted(m) == m.cookie = minute

\* newConnection: the successor of a broken connection takes it off the queue.
FromBacklog(c) == IF conn[c] = "broken" THEN backlog \ {c} ELSE backlog

\* listen(addr, packet) with a valid cookie: a repeated request is answered again, a
\* full backlog refuses, otherwise there is a new connection.
NewConnection(m) ==
  LET c == m.from
      waiting == FromBacklog(c)
  IN /\ m \in wireOut /\ m.type = -1 /\ CookieAccepted(m)
     /\ IF conn[c] = "live" THEN Answer(c, -1) /\ UNCHANGED <<backlog, conn>>
        ELSE IF Cardinality(waiting) >= QueueLimit
        THEN Answer(c, 1002) /\ backlog' = waiting /\ UNCHANGED conn
        ELSE /\ Answer(c, -1)
             /\ backlog' = waiting \cup {c}
             /\ conn' = [conn EXCEPT ![c] = "live"]
     /\ UNCHANGED <<cli, wireOut, minute>>

\* A client that is not looked at more closely takes a place in the queue.
OtherConnects == /\ Cardinality(backlog) < QueueLimit
                 /\ backlog' = backlog \cup {"other"} /\ backlog' # backlog
                 /\ UNCHANGED <<cli, wireOut, wireIn, minute, conn>>

AcceptOne == /\ \E c \in backlog : backlog' = backlog \ {c}
             /\ UNCHANGED <<cli, wireOut, wireIn, minute, conn>>

\* The server's socket sends data or a keep-alive.
ServerSends(c) == /\ conn[c] = "live"
                  /\ wireIn' = wireIn \cup {[to |-> c, type |-> Data, cookie |-> None]}
                  /\ UNCHANGED <<cli, wireOut, minute, backlog, conn>>

\* The server's socket breaks: EXP, or a shutdown of the client.
ServerBreaks(c) == /\ conn[c] = "live"
                   /\ conn' = [conn EXCEPT ![c] = "broken"]
                   /\ UNCHANGED <<cli, wireOut, wireIn, minute, backlog>>

NextMinute == /\ minute < MaxMinute
              /\ minute' = minute + 1
              /\ UNCHANGED <<cli, wireOut, wireIn, backlog, conn>>

ClientStep(c) == \/ ConnectCall(c) \/ Resend(c) \/ TtlOver(c) \/ GiveUp(c)
                 \/ ConnectLoop(c) \/ ConnectTimeout(c)
                 \/ \E m \in wireIn : ClientPacket(c, m)

ServerStep == \/ \E m \in wireOut : GiveCookie(m) \/ NewConnection(m)
              \/ AcceptOne \/ OtherConnects \/ NextMinute
              \/ \E c \in Clients : ServerSends(c) \/ ServerBreaks(c)

HandshakeNext == ServerStep \/ \E c \in Clients : ClientStep(c)

\* Time goes on, the worker and the blocked thread run.
HandshakeFairness ==
  \A c \in Clients : /\ WF_hsVars(TtlOver(c)) /\ WF_hsVars(GiveUp(c))
                     /\ WF_hsVars(ConnectLoop(c) \/ ConnectTimeout(c))

HandshakeSpec == HandshakeInit /\ [][HandshakeNext]_hsVars /\ HandshakeFairness

(***************************************************************************)
(* Properties.                                                             *)
(***************************************************************************)
\* A blocking connect() returns, and a non-blocking one is decided, whatever the network
\* does: the time to live ends the wait although the worker and the blocked thread both
\* watch it, and one of them makes the other's packets void.  (A client connects once.)
ConnectEnds ==
  []<>(\A c \in Clients : cli[c].pc # "loop" /\ ~cli[c].connecting)

\* A client that is connected and was not refused has had a connection at the server,
\* whatever was lost, repeated or overtaken on the way.
ConnectedAtBothEnds ==
  \A c \in Clients : cli[c].connected /\ cli[c].resType # 1002 => conn[c] # "none"
=============================================================================
