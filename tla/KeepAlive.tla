----------------------------- MODULE KeepAlive -----------------------------
(***************************************************************************)
(* The EXP timer of an established connection (CUDT::checkTimers, its last *)
(* part) at both ends, and the messages that reset it (processCtrl,        *)
(* processData).  Time passes in ticks; the worker looks at the timer of   *)
(* every socket at least every 100 ms, less than a tick, so no time passes *)
(* while an expired timer waits for its handler.                           *)
(***************************************************************************)
EXTENDS Integers, FiniteSets

CONSTANTS ExpTermA, ExpTermB,   \* m_iRTT + 4 * m_iRTTVar at either end, in ticks
          SYNInterval,          \* m_iSYNInterval
          MinExpInt,            \* m_ullMinExpInt
          DeadCount,            \* the 16 expirations
          DeadTime,             \* the 5 seconds
          QuietTime,            \* the 10 seconds of the comment
          MaxDelay,             \* the network delivers within this many ticks
          LossModes             \* {FALSE}: nothing is lost and nobody crashes

ASSUME KeepAliveAssumption ==
  /\ {ExpTermA, ExpTermB, DeadCount, DeadTime, QuietTime, MaxDelay} \subseteq Nat
  /\ SYNInterval \in Nat \ {0} /\ MinExpInt \in Nat \ {0} /\ LossModes \subseteq BOOLEAN
  /\ DeadCount * MinExpInt + DeadTime >= QuietTime   \* in the code 16 * 0.41 s + 5 s >= 10 s

Ends == {"A", "B"}
Peer(e) == IF e = "A" THEN "B" ELSE "A"
ExpTerm(e) == IF e = "A" THEN ExpTermA ELSE ExpTermB

VARIABLES expCount,   \* m_iEXPCount
          sinceRsp,   \* time since m_ullLastRspTime
          broken,     \* m_bBroken
          crashed,    \* the process is gone
          air,        \* messages on their way to an end: <<kind, age>>
          heard,      \* history: time since a message of the peer came in
          sendsData,  \* the end whose application sends, if any
          lossy       \* messages may be lost, ends may crash

keepVars == <<expCount, sinceRsp, broken, crashed, air, heard, sendsData, lossy>>

Up(e) == ~broken[e] /\ ~crashed[e]

\* The history counts no further than it takes to tell that QuietTime is over.
HeardCap == QuietTime + 1

KeepInit == /\ expCount = [e \in Ends |-> 1]
            /\ sinceRsp = [e \in Ends |-> 0]
            /\ broken = [e \in Ends |-> FALSE]
            /\ crashed = [e \in Ends |-> FALSE]
            /\ air = [e \in Ends |-> {}]
            /\ heard = [e \in Ends |-> 0]
            /\ sendsData \in Ends \cup {"none"}
            /\ lossy \in LossModes

ExpInt(e) == LET rtt == expCount[e] * ExpTerm(e) + SYNInterval
                 least == expCount[e] * MinExpInt
             IN IF rtt < least THEN least ELSE rtt

Expired(e) == Up(e) /\ sinceRsp[e] > ExpInt(e)

PeerIsDead(e) == expCount[e] > DeadCount /\ sinceRsp[e] > DeadTime

\* Mutant of Expire: the expirations are not counted.
MutExpire(e) ==
  /\ Expired(e)
  /\ IF PeerIsDead(e)
     THEN broken' = [broken EXCEPT ![e] = TRUE] /\ UNCHANGED <<expCount, sinceRsp, air>>
     ELSE /\ air' = [air EXCEPT ![Peer(e)] = @ \cup {<<"keep-alive", 0>>}]
          /\ sinceRsp' = [sinceRsp EXCEPT ![e] = 0]
          /\ UNCHANGED <<expCount, broken>>
  /\ UNCHANGED <<crashed, heard, sendsData, lossy>>

\* checkTimers: declare the peer dead, or send a keep-alive and count.
Expire(e) ==
  /\ Expired(e)
  /\ IF PeerIsDead(e)
     THEN broken' = [broken EXCEPT ![e] = TRUE] /\ UNCHANGED <<expCount, sinceRsp, air>>
     ELSE /\ air' = [air EXCEPT ![Peer(e)] = @ \cup {<<"keep-alive", 0>>}]
          /\ expCount' = [expCount EXCEPT ![e] = @ + 1]
          /\ sinceRsp' = [sinceRsp EXCEPT ![e] = 0]
          /\ UNCHANGED broken
  /\ UNCHANGED <<crashed, heard, sendsData, lossy>>

\* Mutant of Heard: processCtrl leaves the count alone.
MutHeard(e) == /\ sinceRsp' = [sinceRsp EXCEPT ![e] = 0]
               /\ heard' = [heard EXCEPT ![e] = 0]
               /\ UNCHANGED expCount

\* "Just heard from the peer, reset the expiration count."
Heard(e) == /\ expCount' = [expCount EXCEPT ![e] = 1]
            /\ sinceRsp' = [sinceRsp EXCEPT ![e] = 0]
            /\ heard' = [heard EXCEPT ![e] = 0]

\* A keep-alive is only heard; a data packet is acknowledged.
Deliver(e) ==
  \E m \in air[e] :
    /\ LET rest == [air EXCEPT ![e] = @ \ {m}]
       IN IF m[1] = "data" /\ Up(e)
          THEN air' = [rest EXCEPT ![Peer(e)] = @ \cup {<<"ack", 0>>}]
          ELSE air' = rest
    /\ IF Up(e) THEN Heard(e) ELSE UNCHANGED <<expCount, sinceRsp, heard>>
    /\ UNCHANGED <<broken, crashed, sendsData, lossy>>

Lose(e) == /\ lossy
           /\ \E m \in air[e] : air' = [air EXCEPT ![e] = @ \ {m}]
           /\ UNCHANGED <<expCount, sinceRsp, broken, crashed, heard, sendsData, lossy>>

\* The application of one end sends now and then, one packet at a time.
SendData(e) == /\ sendsData = e /\ Up(e)
               /\ \A f \in Ends : air[f] = {}
               /\ air' = [air EXCEPT ![Peer(e)] = {<<"data", 0>>}]
               /\ UNCHANGED <<expCount, sinceRsp, broken, crashed, heard, sendsData, lossy>>

EndCrash(e) == /\ lossy /\ Up(e)
               /\ crashed' = [crashed EXCEPT ![e] = TRUE]
               /\ UNCHANGED <<expCount, sinceRsp, broken, air, heard, sendsData, lossy>>

Later(n, e) == IF Up(e) /\ n < HeardCap THEN n + 1 ELSE n

Pass == /\ \A e \in Ends : ~Expired(e) /\ \A m \in air[e] : m[2] < MaxDelay
        /\ \E e \in Ends : Up(e)
        /\ sinceRsp' = [e \in Ends |-> IF Up(e) THEN sinceRsp[e] + 1 ELSE sinceRsp[e]]
        /\ heard' = [e \in Ends |-> Later(heard[e], e)]
        /\ air' = [e \in Ends |-> {<<m[1], m[2] + 1>> : m \in air[e]}]
        /\ UNCHANGED <<expCount, broken, crashed, sendsData, lossy>>

KeepNext == Pass \/ \E e \in Ends : Expire(e) \/ Deliver(e) \/ Lose(e) \/ SendData(e) \/ EndCrash(e)

\* The worker runs, messages arrive or are lost, and time goes on.
KeepFairness == /\ WF_keepVars(Pass)
                /\ \A e \in Ends : WF_keepVars(Expire(e)) /\ WF_keepVars(Deliver(e))

KeepSpec == KeepInit /\ [][KeepNext]_keepVars /\ KeepFairness

\* A connection is given up only when nothing was heard of the peer for "greater than
\* 10 seconds", although the code waits for 5: the expirations before add up.
DeadOnlyAfterSilence == \A e \in Ends : broken[e] => heard[e] > QuietTime

\* The end left over notices that its peer is gone, although every message that is
\* still on its way starts the count again.
SilentPeerDetected == []<>(\A e \in Ends : crashed[e] => ~Up(Peer(e)))

\* While both processes run and the network loses nothing, neither end gives the
\* other up, however long the applications have nothing to say.
LivePeerKept == ~lossy => \A e \in Ends : ~broken[e]
=============================================================================
