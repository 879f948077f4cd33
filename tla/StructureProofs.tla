-------------------------- MODULE StructureProofs --------------------------
(***************************************************************************)
(* The structures of the transport: the operators of CSeqNo for every size *)
(* of the sequence space, the code's 2^31 included; what an epoll reports, *)
(* for any number of polls; and the pool of packet buffers.                *)
(***************************************************************************)
EXTENDS MCSeqNo, Epoll, UnitQueue, FiniteSetTheorems, FunctionTheorems,
        SequenceTheorems, WellFoundedInduction, TLAPS

-----------------------------------------------------------------------------
(* Sequence numbers. *)

USE SeqNoAssumption

\* The cursor is dist steps from the origin, modulo the size of the space.
Congruent ==
  /\ origin \in SeqNos /\ cursor \in SeqNos /\ dist \in Int
  /\ 0 - SeqNoTH < dist /\ dist < SeqNoTH
  /\ \/ cursor = origin + dist
     \/ cursor = origin + dist - (MaxSeqNo + 1)
     \/ cursor = origin + dist + (MaxSeqNo + 1)

\* Handing out numbers keeps each congruent to its position in the stream.
LEMMA CongruentHolds == Spec => []Congruent
  <1>1. Init => Congruent
    BY DEF Init, Congruent, SeqNos
  <1>2. Congruent /\ [Next]_vars => Congruent'
    <2> SUFFICES ASSUME Congruent, [Next]_vars PROVE Congruent'
      OBVIOUS
    <2> USE DEF Congruent, SeqNos
    <2>1. CASE Advance
      BY <2>1 DEF Advance, incseq
    <2>2. CASE Retreat
      BY <2>2 DEF Retreat, decseq
    <2>3. ASSUME NEW n \in 0 .. SeqNoTH, Jump(n) PROVE Congruent'
      BY <2>3 DEF Jump, incseqBy
    <2>4. CASE UNCHANGED vars
      BY <2>4 DEF vars
    <2> QED
      BY <2>1, <2>2, <2>3, <2>4 DEF Next
  <1> QED
    BY <1>1, <1>2, PTL DEF Spec

\* seqoff inverts incseq, decseq and the two-argument incseq in a sequence space of
\* any size, as long as the two numbers are less than m_iSeqNoTH steps apart.
THEOREM OffsetExact == Spec => []OffsetIsDistance
  <1>1. Congruent => OffsetIsDistance
    BY DEF Congruent, SeqNos, OffsetIsDistance, seqoff, SeqDist
  <1> QED
    BY <1>1, CongruentHolds, PTL

\* seqcmp orders numbers less than m_iSeqNoTH steps apart as they were handed out.
THEOREM CompareExact == Spec => []CompareIsOrder
  <1>1. Congruent => CompareIsOrder
    BY DEF Congruent, SeqNos, CompareIsOrder, Sign, seqcmp, SeqDist
  <1> QED
    BY <1>1, CongruentHolds, PTL

\* seqlen counts the numbers of a range that starts at the first argument.
THEOREM LengthExact == Spec => []LengthIsCount
  <1>1. Congruent => LengthIsCount
    BY DEF Congruent, SeqNos, LengthIsCount, seqlen
  <1> QED
    BY <1>1, CongruentHolds, PTL
-----------------------------------------------------------------------------
(* Epoll. *)

PollFields == {"in", "out", "reads", "writes"}

\* A poll names only sockets it watches.
PollOk(p) == /\ DOMAIN p = PollFields
             /\ p.reads \subseteq p.in /\ p.writes \subseteq p.out

\* The listener is named as long as connections wait, with the exceptions of ReportsExact.
ListenerNamed ==
  \A e \in DOMAIN polls :
    (/\ waiting > 0 /\ reporting = FALSE
     /\ e \in pollId[Listener] /\ e \notin late /\ Listener \in polls[e].in)
    => Listener \in polls[e].reads

EpollInv == /\ \A e \in DOMAIN polls : PollOk(polls[e])
            /\ DOMAIN pollId = Watched
            /\ waiting \in Nat /\ reporting \in BOOLEAN
            /\ adding # Idle_ => adding[2] \in Watched
            /\ ListenerNamed

\* What update_events does to a poll when socket u reports: nothing is named that is not
\* watched, no other socket is touched, and a listener that reports is named.
LEMMA SetFacts ==
  ASSUME NEW u \in Watched, NEW field, NEW on,
         field \in {"read", "write", "both"},
         NEW e \in DOMAIN polls, PollOk(polls[e])
  PROVE  /\ DOMAIN Set(u, field, on) = DOMAIN polls
         /\ PollOk(Set(u, field, on)[e])
         /\ Set(u, field, on)[e].in = polls[e].in
         /\ \A v : v # u /\ v \in polls[e].reads => v \in Set(u, field, on)[e].reads
         /\ (field = "both" /\ e \in pollId[u] /\ u \in polls[e].in)
              => u \in Set(u, field, on)[e].reads
  <1> DEFINE p == polls[e]
             q == Set(u, field, on)[e]
             more == [p EXCEPT !.reads = @ \cup ({u} \cap p.in)]
             moreOut == [p EXCEPT !.writes = @ \cup ({u} \cap p.out)]
             less == [p EXCEPT !.reads = @ \ {u}]
             lessOut == [p EXCEPT !.writes = @ \ {u}]
             both == [p EXCEPT !.reads = @ \cup ({u} \cap p.in), !.writes = @ \cup ({u} \cap p.out)]
  <1>1. DOMAIN Set(u, field, on) = DOMAIN polls
    BY DEF Set
  <1>2. q = IF e \notin pollId[u] THEN p
            ELSE IF field = "read" /\ on THEN more
            ELSE IF field = "write" /\ on THEN moreOut
            ELSE IF field = "read" THEN less
            ELSE IF field = "write" THEN lessOut ELSE both
    BY DEF Set
  <1>3. /\ DOMAIN p = PollFields /\ p.reads \subseteq p.in /\ p.writes \subseteq p.out
    BY DEF PollOk
  <1>4. /\ DOMAIN more = PollFields /\ more.reads = p.reads \cup ({u} \cap p.in)
        /\ more.writes = p.writes /\ more.in = p.in /\ more.out = p.out
    BY <1>3 DEF PollFields
  <1>5. /\ DOMAIN moreOut = PollFields /\ moreOut.writes = p.writes \cup ({u} \cap p.out)
        /\ moreOut.reads = p.reads /\ moreOut.in = p.in /\ moreOut.out = p.out
    BY <1>3 DEF PollFields
  <1>6. /\ DOMAIN less = PollFields /\ less.reads = p.reads \ {u}
        /\ less.writes = p.writes /\ less.in = p.in /\ less.out = p.out
    BY <1>3 DEF PollFields
  <1>7. /\ DOMAIN lessOut = PollFields /\ lessOut.writes = p.writes \ {u}
        /\ lessOut.reads = p.reads /\ lessOut.in = p.in /\ lessOut.out = p.out
    BY <1>3 DEF PollFields
  <1>8. /\ DOMAIN both = PollFields /\ both.reads = p.reads \cup ({u} \cap p.in)
        /\ both.writes = p.writes \cup ({u} \cap p.out) /\ both.in = p.in /\ both.out = p.out
    BY <1>3 DEF PollFields
  <1> HIDE DEF p, q, more, moreOut, less, lessOut, both
  <1>9. /\ PollOk(q) /\ q.in = p.in
        /\ \A v : v # u /\ v \in p.reads => v \in q.reads
        /\ (field = "both" /\ e \in pollId[u] /\ u \in p.in) => u \in q.reads
    <2>1. CASE q = p
      BY <2>1, <1>2, <1>3, <1>8 DEF PollOk
    <2>2. CASE q = more
      BY <2>2, <1>3, <1>4 DEF PollOk
    <2>3. CASE q = moreOut /\ field # "both"
      BY <2>3, <1>3, <1>5 DEF PollOk
    <2>4. CASE q = less /\ field # "both"
      BY <2>4, <1>3, <1>6 DEF PollOk
    <2>5. CASE q = lessOut /\ field # "both"
      BY <2>5, <1>3, <1>7 DEF PollOk
    <2>6. CASE q = both
      BY <2>6, <1>3, <1>8 DEF PollOk
    <2> QED
      BY <1>2, <2>1, <2>2, <2>3, <2>4, <2>5, <2>6
  <1> QED
    BY <1>1, <1>9 DEF p, q

\* A report of the connected socket says nothing about the listener.
LEMMA StreamReport ==
  ASSUME EpollInv, NEW field, NEW on,
         field \in {"read", "write", "both"},
         Report(Stream, field, on),
         UNCHANGED <<waiting, reporting, adding, late>>
  PROVE  EpollInv'
  <1>1. polls' = Set(Stream, field, on) /\ pollId' = [pollId EXCEPT ![Stream] = @ \cap DOMAIN polls]
    BY DEF Report
  <1>2. Stream \in Watched /\ Listener \in Watched /\ Listener # Stream
    BY DEF Watched, Stream, Listener
  <1>3. DOMAIN polls' = DOMAIN polls
    BY <1>1 DEF Set
  <1>4. \A e \in DOMAIN polls : /\ PollOk(polls'[e]) /\ polls'[e].in = polls[e].in
                                /\ Listener \in polls[e].reads => Listener \in polls'[e].reads
    <2> SUFFICES ASSUME NEW e \in DOMAIN polls
                 PROVE  /\ PollOk(polls'[e]) /\ polls'[e].in = polls[e].in
                        /\ Listener \in polls[e].reads => Listener \in polls'[e].reads
      OBVIOUS
    <2>1. PollOk(polls[e])
      BY DEF EpollInv
    <2>2. /\ PollOk(Set(Stream, field, on)[e])
          /\ Set(Stream, field, on)[e].in = polls[e].in
          /\ \A v : v # Stream /\ v \in polls[e].reads => v \in Set(Stream, field, on)[e].reads
      BY <1>2, <2>1, SetFacts
    <2> QED
      BY <1>1, <1>2, <2>2
  <1>5. DOMAIN pollId' = Watched /\ pollId'[Listener] = pollId[Listener]
    BY <1>1, <1>2 DEF EpollInv
  <1>6. ListenerNamed'
    BY <1>3, <1>4, <1>5 DEF EpollInv, ListenerNamed
  <1> QED
    BY <1>3, <1>4, <1>5, <1>6 DEF EpollInv

\* Every step of the application and of the worker keeps the invariant.
LEMMA EpollStep ==
  ASSUME EpollInv, EpollNext
  PROVE  EpollInv'
  <1>0. Stream \in Watched /\ Listener \in Watched /\ Listener # Stream
    BY DEF Watched, Stream, Listener
  <1>1. CASE EpollCreate
    <2>1. PICK e \in PollIds :
            /\ polls' = [f \in DOMAIN polls \cup {e} |-> IF f = e THEN NoPoll ELSE polls[f]]
            /\ UNCHANGED <<pollId, waiting, reporting, adding, late>>
      BY <1>1 DEF EpollCreate
    <2>2. PollOk(NoPoll) /\ NoPoll.in = {}
      BY DEF PollOk, NoPoll, PollFields
    <2>3. /\ DOMAIN polls' = DOMAIN polls \cup {e} /\ polls'[e] = NoPoll
          /\ \A f \in DOMAIN polls' : f = e \/ (f \in DOMAIN polls /\ polls'[f] = polls[f])
      BY <2>1
    <2> HIDE DEF NoPoll
    <2>4. ListenerNamed'
      BY <2>1, <2>2, <2>3 DEF EpollInv, ListenerNamed
    <2> QED
      BY <2>1, <2>2, <2>3, <2>4 DEF EpollInv
  <1>2. ASSUME NEW e \in PollIds, EpollRelease(e) PROVE EpollInv'
    <2>1. /\ DOMAIN polls' \subseteq DOMAIN polls
          /\ \A f \in DOMAIN polls' : polls'[f] = polls[f]
          /\ UNCHANGED <<pollId, waiting, reporting, adding, late>>
      BY <1>2 DEF EpollRelease
    <2> QED
      BY <2>1 DEF EpollInv, ListenerNamed
  <1>3. ASSUME NEW e \in PollIds, NEW u \in Watched, RemoveEPoll(e, u) PROVE EpollInv'
    <2> DEFINE rest == pollId[u] \ {e}
               less(f) == [polls[f] EXCEPT !.reads = @ \ {u}, !.writes = @ \ {u}]
    <2>1. /\ pollId' = [pollId EXCEPT ![u] = rest \cap DOMAIN polls]
          /\ polls' = [f \in DOMAIN polls |-> IF f \in rest THEN less(f) ELSE polls[f]]
          /\ late' = IF u = Listener THEN late \cup rest ELSE late
          /\ UNCHANGED <<waiting, reporting, adding>>
      BY <1>3 DEF RemoveEPoll
    <2>2. \A f \in DOMAIN polls :
             /\ DOMAIN less(f) = PollFields /\ less(f).in = polls[f].in
             /\ less(f).out = polls[f].out /\ less(f).reads = polls[f].reads \ {u}
             /\ less(f).writes = polls[f].writes \ {u}
      BY DEF EpollInv, PollOk, PollFields
    <2> HIDE DEF less
    <2>3. \A f \in DOMAIN polls : PollOk(less(f)) /\ less(f).in = polls[f].in
      BY <2>2 DEF EpollInv, PollOk
    <2>4. DOMAIN polls' = DOMAIN polls /\ \A f \in DOMAIN polls : PollOk(polls'[f])
      BY <2>1, <2>3 DEF EpollInv
    <2>5. DOMAIN pollId' = Watched
      BY <2>1 DEF EpollInv
    <2>6. ListenerNamed'
      <3>1. CASE u = Listener
        <4>1. \A f \in pollId'[Listener] : f \in late'
          BY <3>1, <2>1, <1>0 DEF EpollInv
        <4> QED
          BY <4>1 DEF ListenerNamed
      <3>2. CASE u # Listener
        <4>1. pollId'[Listener] = pollId[Listener] /\ late' = late
          BY <3>2, <2>1, <1>0 DEF EpollInv
        <4>2. \A f \in DOMAIN polls : /\ polls'[f].in = polls[f].in
                                      /\ Listener \in polls[f].reads => Listener \in polls'[f].reads
          BY <3>2, <2>1, <2>2
        <4> QED
          BY <4>1, <4>2, <2>1, <2>4 DEF EpollInv, ListenerNamed
      <3> QED
        BY <3>1, <3>2
    <2> QED
      BY <2>1, <2>4, <2>5, <2>6 DEF EpollInv
  <1>4. ASSUME NEW e \in PollIds, NEW u \in Watched, RemoveUsock(e, u) PROVE EpollInv'
    <2>1. /\ e \in DOMAIN polls /\ polls' = [polls EXCEPT ![e] = Erased(polls[e], u)]
          /\ UNCHANGED <<pollId, waiting, reporting, adding, late>>
      BY <1>4 DEF RemoveUsock
    <2>2. /\ DOMAIN Erased(polls[e], u) = PollFields
          /\ Erased(polls[e], u).in = polls[e].in \ {u}
          /\ Erased(polls[e], u).out = polls[e].out \ {u}
          /\ Erased(polls[e], u).reads = polls[e].reads \ {u}
          /\ Erased(polls[e], u).writes = polls[e].writes \ {u}
      BY <2>1 DEF EpollInv, PollOk, PollFields, Erased
    <2>3. PollOk(Erased(polls[e], u))
      BY <2>1, <2>2 DEF EpollInv, PollOk
    <2>4. /\ DOMAIN polls' = DOMAIN polls /\ polls'[e] = Erased(polls[e], u)
          /\ \A f \in DOMAIN polls : f # e => polls'[f] = polls[f]
      BY <2>1
    <2>5. ListenerNamed'
      BY <2>1, <2>2, <2>4 DEF EpollInv, ListenerNamed
    <2> QED
      BY <2>1, <2>3, <2>4, <2>5 DEF EpollInv
  <1>5. ASSUME NEW e \in PollIds, NEW u \in Watched, NEW events \in EventSets,
               AddUsock(e, u, events)
        PROVE  EpollInv'
    <2> DEFINE more == [polls[e] EXCEPT !.in = @ \cup (IF "in" \in events THEN {u} ELSE {}),
                                        !.out = @ \cup (IF "out" \in events THEN {u} ELSE {})]
    <2>1. /\ e \in DOMAIN polls /\ adding' = <<e, u>> /\ late' = AddedLate(e, u)
          /\ UNCHANGED <<pollId, waiting, reporting>>
      BY <1>5 DEF AddUsock
    <2>2. polls' = [polls EXCEPT ![e] = more]
      BY <1>5 DEF AddUsock, EpollInv, PollOk, PollFields
    <2>3. /\ DOMAIN more = PollFields /\ more.reads = polls[e].reads
          /\ more.writes = polls[e].writes
          /\ polls[e].in \subseteq more.in /\ polls[e].out \subseteq more.out
          /\ u # Listener /\ Listener \in more.in => Listener \in polls[e].in
      BY <2>1 DEF EpollInv, PollOk, PollFields
    <2> HIDE DEF more
    <2>4. PollOk(more)
      BY <2>1, <2>3 DEF EpollInv, PollOk
    <2>5. /\ DOMAIN polls' = DOMAIN polls /\ polls'[e] = more
          /\ \A f \in DOMAIN polls : f # e => polls'[f] = polls[f]
      BY <2>1, <2>2
    <2>6. /\ late \subseteq late'
          /\ u = Listener /\ waiting > 0 => e \in late'
      BY <2>1 DEF AddedLate
    <2>7. ListenerNamed'
      BY <2>1, <2>3, <2>5, <2>6 DEF EpollInv, ListenerNamed
    <2> QED
      BY <2>1, <2>4, <2>5, <2>7 DEF EpollInv
  <1>6. ASSUME NEW some \in BOOLEAN, NEW room \in BOOLEAN, AddEPoll(some, room) PROVE EpollInv'
    <2> DEFINE e == adding[1]
               u == adding[2]
               known == [pollId EXCEPT ![u] = @ \cup {e}]
               more(f) == [polls[f] EXCEPT !.reads = @ \cup (IF some THEN {u} \cap polls[f].in ELSE {}),
                                           !.writes = @ \cup (IF room THEN {u} \cap polls[f].out ELSE {})]
    <2>1. /\ adding # Idle_ /\ adding' = Idle_ /\ pollId' = known /\ late' = AddedLate(e, u)
          /\ UNCHANGED <<waiting, reporting>>
          /\ \/ polls' = [f \in DOMAIN polls |-> IF f \in known[u] THEN more(f) ELSE polls[f]]
             \/ polls' = polls
      BY <1>6 DEF AddEPoll
    <2>2. u \in Watched
      BY <2>1 DEF EpollInv
    <2>3. \A f \in DOMAIN polls :
             /\ DOMAIN more(f) = PollFields /\ more(f).in = polls[f].in
             /\ more(f).out = polls[f].out
             /\ polls[f].reads \subseteq more(f).reads
             /\ more(f).reads \subseteq polls[f].reads \cup polls[f].in
             /\ more(f).writes \subseteq polls[f].writes \cup polls[f].out
      BY DEF EpollInv, PollOk, PollFields
    <2> HIDE DEF more
    <2>4. \A f \in DOMAIN polls : PollOk(more(f))
      BY <2>3 DEF EpollInv, PollOk
    <2>5. /\ DOMAIN polls' = DOMAIN polls
          /\ \A f \in DOMAIN polls : polls'[f] = polls[f] \/ polls'[f] = more(f)
      BY <2>1
    <2>6. /\ DOMAIN pollId' = Watched
          /\ u # Listener => pollId'[Listener] = pollId[Listener]
          /\ \A f \in pollId'[Listener] : f # e => f \in pollId[Listener]
      BY <1>0, <2>1, <2>2 DEF EpollInv
    <2>7. /\ late \subseteq late'
          /\ u = Listener /\ waiting > 0 => e \in late'
      BY <2>1 DEF AddedLate
    <2> HIDE DEF e, u
    <2>8. ListenerNamed'
      BY <2>1, <2>3, <2>5, <2>6, <2>7 DEF EpollInv, ListenerNamed
    <2> QED
      BY <2>1, <2>4, <2>5, <2>6, <2>8 DEF EpollInv
  <1>7. CASE Queued
    BY <1>7 DEF Queued, EpollInv, ListenerNamed
  <1>8. CASE Reported
    <2>1. /\ reporting' = FALSE
          /\ polls' = Set(Listener, "both", TRUE)
          /\ pollId' = [pollId EXCEPT ![Listener] = @ \cap DOMAIN polls]
          /\ UNCHANGED <<waiting, adding>>
      BY <1>8 DEF Reported, Report
    <2>2. DOMAIN polls' = DOMAIN polls
      BY <2>1 DEF Set
    <2>3. \A e \in DOMAIN polls : /\ PollOk(polls'[e]) /\ polls'[e].in = polls[e].in
                                  /\ e \in pollId[Listener] /\ Listener \in polls[e].in
                                       => Listener \in polls'[e].reads
      <3> SUFFICES ASSUME NEW e \in DOMAIN polls
                   PROVE  /\ PollOk(polls'[e]) /\ polls'[e].in = polls[e].in
                          /\ e \in pollId[Listener] /\ Listener \in polls[e].in
                               => Listener \in polls'[e].reads
        OBVIOUS
      <3> DEFINE on == TRUE
      <3>1. PollOk(polls[e]) /\ polls' = Set(Listener, "both", on)
        BY <2>1 DEF EpollInv
      <3> HIDE DEF on
      <3> QED
        BY <1>0, <3>1, SetFacts
    <2>4. DOMAIN pollId' = Watched /\ pollId'[Listener] \subseteq pollId[Listener]
      BY <2>1, <1>0 DEF EpollInv
    <2>5. ListenerNamed'
      BY <2>2, <2>3, <2>4 DEF ListenerNamed
    <2> QED
      BY <2>1, <2>2, <2>3, <2>4, <2>5 DEF EpollInv
  <1>9. CASE EpollAccept
    <2>1. waiting' \in Nat /\ (waiting' > 0 => waiting > 0) /\ UNCHANGED <<reporting, adding>>
      BY <1>9 DEF EpollAccept, EpollInv
    <2>2. CASE Emptied(waiting')
      <3>1. /\ waiting' = 0 /\ polls' = Set(Listener, "read", FALSE)
            /\ pollId' = [pollId EXCEPT ![Listener] = @ \cap DOMAIN polls]
        BY <1>9, <2>2 DEF EpollAccept, Report, Emptied
      <3>2. DOMAIN polls' = DOMAIN polls
        BY <3>1 DEF Set
      <3>3. \A e \in DOMAIN polls : PollOk(polls'[e])
        <4> DEFINE on == FALSE
        <4>1. polls' = Set(Listener, "read", on)
          BY <3>1
        <4> HIDE DEF on
        <4> QED
          BY <4>1, <1>0, SetFacts DEF EpollInv
      <3>4. DOMAIN pollId' = Watched
        BY <3>1 DEF EpollInv
      <3>5. ListenerNamed'
        BY <3>1 DEF ListenerNamed
      <3> QED
        BY <2>1, <3>2, <3>3, <3>4, <3>5 DEF EpollInv
    <2>3. CASE ~Emptied(waiting')
      <3>1. UNCHANGED <<polls, pollId, late>>
        BY <1>9, <2>3 DEF EpollAccept
      <3> QED
        BY <2>1, <3>1 DEF EpollInv, ListenerNamed
    <2> QED
      BY <2>2, <2>3
  <1>10. CASE Connected
    <2> DEFINE on == TRUE
    <2>1. Report(Stream, "write", on) /\ UNCHANGED <<waiting, reporting, adding, late>>
      BY <1>10 DEF Connected
    <2> HIDE DEF on
    <2> QED
      BY <2>1, StreamReport
  <1>11. CASE EpollBroken
    <2> DEFINE on == TRUE
    <2>1. Report(Stream, "both", on) /\ UNCHANGED <<waiting, reporting, adding, late>>
      BY <1>11 DEF EpollBroken
    <2> HIDE DEF on
    <2> QED
      BY <2>1, StreamReport
  <1>12. CASE EpollClose
    <2>1. PICK gone \in SUBSET pollId[Stream] :
            polls' = [e \in DOMAIN polls |->
                        IF e \in gone THEN Erased(polls[e], Stream) ELSE polls[e]]
      BY <1>12 DEF EpollClose
    <2>2. UNCHANGED <<pollId, waiting, reporting, adding, late>>
      BY <1>12 DEF EpollClose
    <2>3. \A e \in DOMAIN polls :
            LET q == Erased(polls[e], Stream)
            IN /\ DOMAIN q = PollFields
               /\ q.in = polls[e].in \ {Stream} /\ q.out = polls[e].out \ {Stream}
               /\ q.reads = polls[e].reads \ {Stream} /\ q.writes = polls[e].writes \ {Stream}
      BY DEF EpollInv, PollOk, PollFields, Erased
    <2>4. /\ DOMAIN polls' = DOMAIN polls
          /\ \A e \in DOMAIN polls : polls'[e] = polls[e] \/ polls'[e] = Erased(polls[e], Stream)
      BY <2>1
    <2>5. \A e \in DOMAIN polls :
             /\ PollOk(polls'[e])
             /\ Listener \in polls'[e].in <=> Listener \in polls[e].in
             /\ Listener \in polls'[e].reads <=> Listener \in polls[e].reads
      BY <1>0, <2>3, <2>4 DEF EpollInv, PollOk
    <2>6. ListenerNamed'
      BY <2>2, <2>4, <2>5 DEF EpollInv, ListenerNamed
    <2> QED
      BY <2>2, <2>4, <2>5, <2>6 DEF EpollInv
  <1>13. ASSUME NEW field \in {"read", "write"}, UsedUp(field) PROVE EpollInv'
    <2> DEFINE on == FALSE
    <2>1. Report(Stream, field, on) /\ UNCHANGED <<waiting, reporting, adding, late>>
      BY <1>13 DEF UsedUp
    <2> HIDE DEF on
    <2> QED
      BY <2>1, StreamReport
  <1> QED
    BY <1>1, <1>2, <1>3, <1>4, <1>5, <1>6, <1>7, <1>8, <1>9, <1>10, <1>11, <1>12, <1>13
       DEF EpollNext

\* Whatever add_usock, remove_usock, accept() and newConnection do between each other's
\* halves, for any number of polls: CEPoll::wait names only watched sockets, and names a
\* listener with waiting connections once newConnection has reported it.
THEOREM PollReportsExact == EpollSpec => []ReportsExact
  <1>1. EpollInit => EpollInv
    <2> SUFFICES ASSUME EpollInit PROVE EpollInv
      OBVIOUS
    <2>1. /\ DOMAIN polls = {} /\ DOMAIN pollId = Watched /\ waiting = 0 /\ reporting = FALSE
          /\ adding = Idle_
      BY DEF EpollInit
    <2> QED
      BY <2>1 DEF EpollInv, ListenerNamed
  <1>2. EpollInv /\ [EpollNext]_epollVars => EpollInv'
    <2> SUFFICES ASSUME EpollInv, [EpollNext]_epollVars PROVE EpollInv'
      OBVIOUS
    <2>1. CASE EpollNext
      BY <2>1, EpollStep
    <2>2. CASE UNCHANGED epollVars
      BY <2>2 DEF epollVars, EpollInv, ListenerNamed
    <2> QED
      BY <2>1, <2>2
  <1>3. EpollInv => ReportsExact
    BY DEF EpollInv, ListenerNamed, PollOk, ReportsExact, WaitReads, WaitWrites
  <1> QED
    BY <1>1, <1>2, <1>3, PTL DEF EpollSpec

-----------------------------------------------------------------------------
(* The unit queue. *)

\* The units of a pool of n arrays that are handed out: all but the last of each.
Usable(n) == {i \in Nat : \E q \in 0 .. n - 1, r \in 0 .. UnitsPerQueue - 2 :
                              i = q * UnitsPerQueue + 1 + r}
Room(n) == n * UnitsPerQueue - n
Taken(f) == {i \in DOMAIN f : f[i] # 0}

\* An array more is UnitsPerQueue units more.
LEMMA ArraysGrow ==
  ASSUME NEW a \in Nat, NEW b \in Nat, a < b
  PROVE  /\ a * UnitsPerQueue \in Nat /\ b * UnitsPerQueue \in Nat
         /\ a * UnitsPerQueue + UnitsPerQueue <= b * UnitsPerQueue
  <1> DEFINE u == UnitsPerQueue
  <1>1. u \in Nat /\ b - a - 1 \in Nat
    BY UnitAssumption
  <1>2. (b - a - 1) * u \in Nat
    BY <1>1
  <1>3. b * u = a * u + u + (b - a - 1) * u
    BY <1>1
  <1>4. a * u \in Nat /\ b * u \in Nat
    BY <1>1
  <1> QED
    BY <1>1, <1>2, <1>3, <1>4

\* A unit's array and its place there.
LEMMA PlaceOf ==
  ASSUME NEW n \in Nat, NEW i \in 1 .. n * UnitsPerQueue
  PROVE  \E q \in 0 .. n - 1, r \in 0 .. UnitsPerQueue - 1 : i = q * UnitsPerQueue + 1 + r
  <1> DEFINE u == UnitsPerQueue
             q == (i - 1) \div u
             r == (i - 1) % u
  <1>1. u \in Nat \ {0} /\ n * u \in Nat
    BY UnitAssumption
  <1>2. q \in Nat /\ r \in 0 .. u - 1 /\ i - 1 = q * u + r
    BY <1>1
  <1>3. q < n
    <2> SUFFICES ASSUME q >= n PROVE FALSE
      BY <1>2
    <2>1. n * u <= q * u
      BY <1>1, <1>2, ArraysGrow
    <2> QED
      BY <1>1, <1>2, <2>1
  <1>4. q * u \in Nat
    BY <1>1, <1>2
  <1> HIDE DEF q, r
  <1>5. i = q * u + 1 + r
    BY <1>2, <1>4
  <1> QED
    BY <1>1, <1>2, <1>3, <1>5

\* QueueOf finds the array.
LEMMA QueueOfUnit ==
  ASSUME NEW q \in Nat, NEW r \in 0 .. UnitsPerQueue - 1
  PROVE  QueueOf(q * UnitsPerQueue + 1 + r) = q
  <1> DEFINE u == UnitsPerQueue
  <1>1. u \in Nat \ {0} /\ q * u \in Nat /\ r \in Nat /\ r < u
    BY UnitAssumption
  <1>2. (q * u + r) \div u = q
    BY <1>1
  <1>3. (q * u + 1 + r) - 1 = q * u + r
    BY <1>1
  <1>4. QueueOf(q * u + 1 + r) = ((q * u + 1 + r) - 1) \div u
    BY DEF QueueOf
  <1> QED
    BY <1>2, <1>3, <1>4

\* All units but one per array are usable.
LEMMA UsableUnits ==
  ASSUME NEW n \in Nat
  PROVE  /\ Usable(n) \subseteq 1 .. n * UnitsPerQueue
         /\ IsFiniteSet(Usable(n)) /\ Cardinality(Usable(n)) = Room(n)
         /\ Room(n) \in Nat
         /\ n > 0 => Room(n) < n * UnitsPerQueue
  <1> DEFINE u == UnitsPerQueue
             all == 1 .. n * u
             last == {i \in all : \E q \in 0 .. n - 1 : i = q * u + u}
             f == [q \in 0 .. n - 1 |-> q * u + u]
  <1>0. u \in Nat /\ u >= 2 /\ n * u \in Nat
    BY UnitAssumption
  <1>1. \A q \in 0 .. n - 1 : q * u \in Nat /\ q * u + u <= n * u
    BY <1>0, ArraysGrow
  <1>2. Usable(n) \subseteq all
    BY <1>0, <1>1 DEF Usable
  <1>3. f \in Bijection(0 .. n - 1, last)
    <2>1. f \in [0 .. n - 1 -> last]
      BY <1>0, <1>1
    <2>2. \A a, b \in 0 .. n - 1 : f[a] = f[b] => a = b
      <3> SUFFICES ASSUME NEW a \in 0 .. n - 1, NEW b \in 0 .. n - 1, f[a] = f[b], a < b PROVE FALSE
        OBVIOUS
      <3> QED
        BY <1>0, <1>1, ArraysGrow
    <2>3. \A i \in last : \E q \in 0 .. n - 1 : f[q] = i
      OBVIOUS
    <2> QED
      BY <2>1, <2>2, <2>3, Fun_IsBij
  <1>4. IsFiniteSet(last) /\ Cardinality(last) = n
    <2>1. IsFiniteSet(0 .. n - 1) /\ Cardinality(0 .. n - 1) = n
      BY FS_Interval
    <2> HIDE DEF f, last
    <2>2. ExistsBijection(0 .. n - 1, last)
      BY <1>3 DEF ExistsBijection
    <2> QED
      BY <2>1, <2>2, FS_Bijection
  <1>5. Usable(n) = all \ last
    <2>1. ASSUME NEW i \in Usable(n), i \in last PROVE FALSE
      <3>1. PICK q \in 0 .. n - 1, r \in 0 .. u - 2 : i = q * u + 1 + r
        BY DEF Usable
      <3>2. PICK p \in 0 .. n - 1 : i = p * u + u
        BY <2>1
      <3>6. q \in Nat /\ r \in 0 .. u - 1
        BY <1>0
      <3>3. QueueOf(i) = q
        BY <3>1, <3>6, QueueOfUnit
      <3>4. i = p * u + 1 + (u - 1) /\ u - 1 \in 0 .. u - 1 /\ p \in Nat
        BY <3>2, <1>0, <1>1
      <3>5. QueueOf(i) = p
        BY <3>4, QueueOfUnit
      <3> QED
        BY <3>1, <3>4, <3>3, <3>5, <1>0, <1>1
    <2>2. ASSUME NEW i \in all, i \notin Usable(n) PROVE i \in last
      <3>1. PICK q \in 0 .. n - 1, r \in 0 .. u - 1 : i = q * u + 1 + r
        BY PlaceOf
      <3>2. r = u - 1
        BY <2>2, <3>1, <1>0 DEF Usable
      <3> QED
        BY <3>1, <3>2, <1>0, <1>1
    <2> QED
      BY <1>2, <2>1, <2>2
  <1>6. IsFiniteSet(all) /\ Cardinality(all) = n * u
    <2> DEFINE k == n * u
    <2>1. k \in Nat
      BY <1>0
    <2> HIDE DEF k
    <2>2. IsFiniteSet(1 .. k) /\ Cardinality(1 .. k) = k
      BY <2>1, FS_Interval
    <2> QED
      BY <2>2 DEF k
  <1>7. Cardinality(all \ last) = n * u - n /\ IsFiniteSet(all \ last)
    <2>1. last \subseteq all
      OBVIOUS
    <2> HIDE DEF all, last
    <2>2. all \cap last = last
      BY <2>1
    <2>3. Cardinality(all \ last) = Cardinality(all) - Cardinality(all \cap last) /\ IsFiniteSet(all \ last)
      BY <1>6, FS_Difference
    <2> QED
      BY <1>4, <1>6, <2>2, <2>3
  <1>8. n * u - n \in Nat /\ (n > 0 => n * u - n < n * u)
    <2>1. n * u - n = n * (u - 1) /\ n * (u - 1) \in Nat
      BY <1>0
    <2> QED
      BY <2>1, <1>0
  <1> QED
    BY <1>2, <1>5, <1>7, <1>8 DEF Room

\* The units in use fit beside the last ones of the arrays, and if no usable unit is
\* free then increase() grows the pool.
LEMMA InUseBound ==
  ASSUME NEW n \in Nat, NEW f, Taken(f) \subseteq Usable(n)
  PROVE  /\ InUse(f) \in Nat /\ InUse(f) <= Room(n)
         /\ Usable(n) \subseteq Taken(f) => InUse(f) * GrowDen >= (n * UnitsPerQueue) * GrowNum
  <1> DEFINE u == UnitsPerQueue
             c == InUse(f)
  <1>1. IsFiniteSet(Taken(f)) /\ Cardinality(Taken(f)) <= Room(n)
    BY UsableUnits, FS_Subset
  <1>2. c = Cardinality(Taken(f)) /\ c \in Nat
    BY <1>1, FS_CardinalityType DEF InUse, Taken
  <1>3. ASSUME Usable(n) \subseteq Taken(f) PROVE c * GrowDen >= (n * u) * GrowNum
    <2> HIDE DEF c
    <2>1. Usable(n) = Taken(f)
      BY <1>3
    <2>2. c = n * u - n
      BY <2>1, <1>2, UsableUnits DEF Room
    <2>3. /\ u \in Nat /\ GrowDen \in Nat /\ GrowNum \in Nat
          /\ (u - 1) * GrowDen - u * GrowNum \in Nat
      BY UnitAssumption
    <2>4. n * ((u - 1) * GrowDen - u * GrowNum) \in Nat
      BY <2>3
    <2>5. n * ((u - 1) * GrowDen - u * GrowNum) = (n * u - n) * GrowDen - (n * u) * GrowNum
      BY <2>3
    <2>6. (n * u - n) * GrowDen \in Int /\ (n * u) * GrowNum \in Int
      BY <2>3
    <2> QED
      BY <2>2, <2>4, <2>5, <2>6
  <1> QED
    BY <1>1, <1>2, <1>3

\* The least element, where there is one.
LEMMA FirstIsIn ==
  ASSUME NEW T, T \subseteq Nat, T # {}
  PROVE  First(T) \in T
  <1>1. \E i \in T : \A j \in T : i <= j
    <2>1. PICK x \in T : TRUE
      OBVIOUS
    <2>2. IsWellFoundedOn(OpToRel(<, Nat), Nat)
      BY NatLessThanWellFounded
    <2>3. PICK m \in T : \A j \in T : ~(<<j, m>> \in OpToRel(<, Nat))
      BY <2>1, <2>2, WFMin
    <2>4. \A j \in T : ~(j < m)
      BY <2>3 DEF OpToRel
    <2> QED
      BY <2>4
  <1> QED
    BY <1>1 DEF First

\* The shape of the pool: n arrays, the search begins at a unit that may be handed out.
PoolShape(n) ==
  /\ n \in Nat \ {0} /\ flags \in Seq({0, 1}) /\ Len(flags) = n * UnitsPerQueue
  /\ avail \in Usable(n) /\ Taken(flags) \subseteq Usable(n)

\* The k-th array of a search is one of the pool, and what is found there is free and
\* not the last.
LEMMA FoundUnit ==
  ASSUME NEW n, PoolShape(n), Searched # {}
  PROVE  /\ First(FreeIn(First(Searched))) \in Usable(n)
         /\ flags[First(FreeIn(First(Searched)))] = 0
  <1> DEFINE u == UnitsPerQueue
             k == First(Searched)
             a == QueueOf(avail)
             q == NthQueue(k)
  <1>1. u \in Nat /\ u >= 2 /\ n \in Nat /\ n > 0
    BY UnitAssumption DEF PoolShape
  <1>2. Queues = n
    <2>1. (n * u) \div u = n
      BY <1>1
    <2> QED
      BY <2>1 DEF Queues, PoolShape
  <1>3. k \in 0 .. n - 1 /\ FreeIn(k) # {}
    <2>1. Searched \subseteq Nat
      BY <1>1, <1>2 DEF Searched
    <2>2. k \in Searched
      BY <2>1, FirstIsIn
    <2> QED
      BY <2>2, <1>2 DEF Searched
  <1>4. PICK p \in 0 .. n - 1, r \in 0 .. u - 2 : avail = p * u + 1 + r
    BY DEF PoolShape, Usable
  <1>5. a = p
    <2>1. p \in Nat /\ r \in 0 .. u - 1
      BY <1>1
    <2> QED
      BY <1>4, <2>1, QueueOfUnit
  <1>6. q \in 0 .. n - 1 /\ (k = 0 => q = p)
    BY <1>1, <1>2, <1>3, <1>5 DEF NthQueue
  <1> HIDE DEF q, a, k
  <1>7. q * u \in Nat /\ p * u \in Nat /\ FirstOf(q) = q * u + 1
    BY <1>1, <1>6 DEF FirstOf
  <1>8. From(k) \in q * u + 1 .. q * u + u - 1
    BY <1>1, <1>3, <1>4, <1>6, <1>7 DEF From, q
  <1>9. \A x \in q * u + 1 .. q * u + u - 1 : x \in Usable(n)
    <2> TAKE x \in q * u + 1 .. q * u + u - 1
    <2>1. x - q * u - 1 \in 0 .. u - 2 /\ x = q * u + 1 + (x - q * u - 1) /\ x \in Nat
      BY <1>1, <1>7
    <2> QED
      BY <2>1, <1>6 DEF Usable
  <1>10. \A x \in FreeIn(k) : x \in q * u + 1 .. q * u + u - 1 /\ flags[x] = 0
    <2>1. \A x \in Ahead(k) : x \in q * u + 1 .. q * u + u - 1 /\ flags[x] = 0
      BY <1>1, <1>7, <1>8 DEF Ahead, q
    <2>2. FirstOf(q) \in q * u + 1 .. q * u + u - 1
      BY <1>1, <1>7
    <2> QED
      BY <2>1, <2>2 DEF FreeIn, q
  <1>11. First(FreeIn(k)) \in FreeIn(k)
    <2>1. FreeIn(k) \subseteq Nat
      BY <1>1, <1>7, <1>10
    <2> QED
      BY <2>1, <1>3, FirstIsIn
  <1> QED
    BY <1>9, <1>10, <1>11 DEF k

\* From the head of an array on, the search misses no free unit but the last ones.
LEMMA HeadSearch ==
  ASSUME NEW n, PoolShape(n), NEW p \in 0 .. n - 1, avail = p * UnitsPerQueue + 1,
         NEW x \in Usable(n), flags[x] = 0
  PROVE  Searched # {}
  <1> DEFINE u == UnitsPerQueue
  <1>1. u \in Nat /\ u >= 2 /\ n \in Nat /\ n > 0
    BY UnitAssumption DEF PoolShape
  <1>2. Queues = n
    <2>1. (n * u) \div u = n
      BY <1>1
    <2> QED
      BY <2>1 DEF Queues, PoolShape
  <1>3. PICK q \in 0 .. n - 1, r \in 0 .. u - 2 : x = q * u + 1 + r
    BY DEF Usable
  <1>4. QueueOf(avail) = p
    <2>1. p \in Nat /\ 0 \in 0 .. u - 1 /\ p * u \in Nat
      BY <1>1
    <2>2. avail = p * u + 1 + 0
      BY <2>1
    <2> QED
      BY <2>1, <2>2, QueueOfUnit
  <1> DEFINE k == IF q >= p THEN q - p ELSE q - p + n
  <1>5. k \in 0 .. n - 1 /\ (p + k = q \/ p + k = q + n) /\ (k = 0 => q = p)
    BY <1>1
  <1>6. NthQueue(k) = q
    <2>1. (p + k) % n = q
      BY <1>1, <1>5
    <2> QED
      BY <2>1, <1>2, <1>4 DEF NthQueue
  <1> HIDE DEF k
  <1>7. From(k) = q * u + 1 /\ FirstOf(q) = q * u + 1 /\ q * u \in Nat
    BY <1>1, <1>5, <1>6 DEF From, FirstOf
  <1>8. x \in Ahead(k)
    BY <1>1, <1>3, <1>6, <1>7 DEF Ahead
  <1>9. FreeIn(k) # {}
    BY <1>8 DEF FreeIn
  <1> QED
    BY <1>2, <1>5, <1>9 DEF Searched

GetPcs == {"get", "grow", "scan", "missed", "recv", "add"}

\* m_iCount, however many updates are lost, exceeds the units that can be in use by one
\* at most, and by none where the worker relies on it.
CountBound(n) ==
  /\ count \in Int /\ readTmp \in Int /\ addTmp \in Int /\ real \in Nat
  /\ count <= Room(n) + 1 /\ readTmp <= Room(n) + 1
  /\ getPc \in {"scan", "recv", "add"} => count <= Room(n)
  /\ getPc = "add" => addTmp <= Room(n)
  /\ getPc \in {"grow", "missed"} => real <= Room(n)

\* Who holds which unit.
UnitsHeld(n) ==
  /\ getPc = "recv" => hand \in Usable(n) /\ flags[hand] = 0
  /\ getPc = "add" => hand \in Usable(n) /\ flags[hand] # 0 /\ hand \notin stored
  /\ stored \subseteq Taken(flags)
  /\ readPc = "copy" => readUnit \in stored
  /\ readPc # "copy" => readUnit = 0

\* After a refusal the search begins at the head of an array and will find a unit.
Recovers(n) ==
  /\ getPc \in {"get", "grow", "scan", "missed"}
  /\ \E p \in 0 .. n - 1 : avail = p * UnitsPerQueue + 1
  /\ \/ \E x \in Usable(n) : flags[x] = 0
     \/ getPc = "missed" /\ real * GrowDen >= Len(flags) * GrowNum

UnitsOf(n) ==
  /\ PoolShape(n) /\ getPc \in GetPcs
  /\ CountBound(n) /\ UnitsHeld(n)
  /\ refusals \in {0, 1} /\ (refusals = 1 => Recovers(n))

UnitInv == \E n : UnitsOf(n)

\* increase() sets m_iCount to what it counted and may add an array.
LEMMA IncreaseKeeps ==
  ASSUME NEW n, UnitsOf(n), getPc \in {"grow", "missed"}, Increase,
         getPc' \in {"get", "scan"}, real' = 0,
         UNCHANGED <<avail, hand, addTmp, stored, readPc, readUnit, readTmp, refusals>>
  PROVE  UnitInv'
  <1> DEFINE u == UnitsPerQueue
             fresh == [i \in 1 .. u |-> 0]
  <1>1. u \in Nat /\ u >= 2 /\ n \in Nat /\ n > 0 /\ n * u \in Nat /\ (n + 1) * u = n * u + u
    BY UnitAssumption DEF UnitsOf, PoolShape
  <1>2. Room(n) \in Nat /\ real <= Room(n) /\ real \in Nat /\ count' = real
    BY <1>1, UsableUnits DEF UnitsOf, CountBound, Increase
  <1>3. Len(flags) = n * u /\ flags \in Seq({0, 1}) /\ DOMAIN flags = 1 .. n * u
    BY DEF UnitsOf, PoolShape
  <1>4. CASE real * GrowDen < Len(flags) * GrowNum
    <2>1. flags' = flags
      BY <1>4 DEF Increase
    <2>2. PoolShape(n)' /\ UnitsHeld(n)'
      BY <2>1 DEF UnitsOf, PoolShape, UnitsHeld
    <2>3. CountBound(n)'
      BY <1>2 DEF UnitsOf, CountBound
    <2>4. refusals' = 1 => Recovers(n)'
      <3>1. n * u \in Nat /\ GrowNum \in Nat /\ GrowDen \in Nat /\ real \in Nat
        BY <1>1, <1>2, UnitAssumption
      <3>2. (n * u) * GrowNum \in Nat /\ real * GrowDen \in Nat
        BY <3>1
      <3>3. ~(real * GrowDen >= Len(flags) * GrowNum)
        BY <1>3, <1>4, <3>2
      <3> QED
        BY <2>1, <3>3 DEF UnitsOf, Recovers
    <2> QED
      BY <2>2, <2>3, <2>4 DEF UnitsOf, UnitInv, GetPcs
  <1>5. CASE ~(real * GrowDen < Len(flags) * GrowNum)
    <2>0. PICK m \in Nat : m = n + 1
      BY <1>1
    <2>13. m > 0 /\ m * u = n * u + u /\ 0 .. n - 1 \subseteq 0 .. m - 1 /\ n \in 0 .. m - 1
      BY <1>1, <2>0
    <2>1. flags' = flags \o fresh
      BY <1>5 DEF Increase
    <2>2. fresh \in Seq({0, 1}) /\ Len(fresh) = u
      BY <1>1
    <2> HIDE DEF fresh
    <2>3. /\ flags' \in Seq({0, 1}) /\ Len(flags') = n * u + u
          /\ \A i \in 1 .. n * u : flags'[i] = flags[i]
      <3> DEFINE w == n * u
      <3>1. w \in Nat /\ Len(flags) = w
        BY <1>1, <1>3
      <3> HIDE DEF w
      <3>2. /\ flags \o fresh \in Seq({0, 1}) /\ Len(flags \o fresh) = w + u
            /\ \A i \in 1 .. w + u : (flags \o fresh)[i] = IF i <= w THEN flags[i] ELSE fresh[i - w]
        <4>1. /\ flags \o fresh \in Seq({0, 1}) /\ Len(flags \o fresh) = Len(flags) + Len(fresh)
              /\ \A i \in 1 .. Len(flags) + Len(fresh) :
                   (flags \o fresh)[i] = IF i <= Len(flags) THEN flags[i] ELSE fresh[i - Len(flags)]
          BY <1>3, <2>2, ConcatProperties
        <4> QED
          BY <2>2, <3>1, <4>1
      <3>3. \A i \in 1 .. w : (flags \o fresh)[i] = flags[i]
        BY <1>1, <3>1, <3>2
      <3> QED
        BY <2>1, <3>2, <3>3 DEF w
    <2>4. \A i \in n * u + 1 .. n * u + u : flags'[i] = 0
      <3> TAKE i \in n * u + 1 .. n * u + u
      <3>1. flags'[i] = fresh[i - n * u] /\ i - n * u \in 1 .. u
        BY <1>1, <1>3, <2>1, <2>2, ConcatProperties
      <3> QED
        BY <3>1 DEF fresh
    <2>5. Usable(n) \subseteq Usable(m) /\ Usable(n) \subseteq 1 .. n * u
      <3>2. Usable(n) \subseteq Usable(m)
        BY <2>13 DEF Usable
      <3> QED
        BY <1>1, <3>2, UsableUnits
    <2>6. Taken(flags') = Taken(flags)
      <3>1. DOMAIN flags' = 1 .. n * u + u
        BY <1>1, <2>3
      <3> QED
        BY <1>1, <1>3, <2>3, <2>4, <3>1 DEF Taken
    <2>7. PoolShape(m)'
      BY <1>1, <2>3, <2>5, <2>6, <2>13 DEF UnitsOf, PoolShape
    <2>8. UnitsHeld(m)'
      BY <2>6 DEF UnitsOf, UnitsHeld
    <2>9. Room(m) \in Nat /\ Room(n) <= Room(m)
      BY <1>1, <2>0, <2>13 DEF Room
    <2>10. CountBound(m)'
      BY <1>2, <2>9 DEF UnitsOf, CountBound
    <2>11. n * u + 1 \in Usable(m) /\ flags'[n * u + 1] = 0
      <3>1. n * u + 1 = n * u + 1 + 0 /\ 0 \in 0 .. u - 2 /\ n * u + 1 \in Nat
        BY <1>1
      <3> QED
        BY <1>1, <2>4, <2>13, <3>1 DEF Usable
    <2>12. refusals' = 1 => Recovers(m)'
      <3> SUFFICES ASSUME refusals = 1 PROVE Recovers(m)'
        OBVIOUS
      <3>1. \E p \in 0 .. n - 1 : avail = p * u + 1
        BY DEF UnitsOf, Recovers
      <3>2. \E p \in 0 .. m - 1 : avail = p * u + 1
        BY <2>13, <3>1
      <3>3. \E x \in Usable(m) : flags'[x] = 0
        BY <2>11
      <3>4. getPc' \in {"get", "grow", "scan", "missed"} /\ avail' = avail
        OBVIOUS
      <3> QED
        BY <3>2, <3>3, <3>4 DEF Recovers
    <2> QED
      BY <2>7, <2>8, <2>10, <2>12 DEF UnitsOf, UnitInv, GetPcs
  <1> QED
    BY <1>4, <1>5

\* getNextAvailUnit() refuses only when the search finds nothing.
LEMMA GetScanKeeps ==
  ASSUME NEW n, UnitsOf(n), GetScan
  PROVE  UnitInv'
  <1> DEFINE u == UnitsPerQueue
             unit == First(FreeIn(First(Searched)))
  <1>1. u \in Nat /\ u >= 2 /\ n \in Nat /\ n > 0 /\ n * u \in Nat
    BY UnitAssumption DEF UnitsOf, PoolShape
  <1>2. PoolShape(n) /\ getPc = "scan" /\ CountBound(n) /\ UnitsHeld(n)
    BY DEF UnitsOf, GetScan
  <1>3. Room(n) \in Nat /\ Room(n) < n * u /\ count \in Int /\ count <= Room(n)
    BY <1>1, <1>2, UsableUnits DEF CountBound
  <1>4. ~(count >= Len(flags))
    BY <1>1, <1>2, <1>3 DEF PoolShape
  <1>5. UNCHANGED <<flags, count, addTmp, stored, readPc, readUnit, readTmp>>
    BY DEF GetScan
  <1>6. CASE Searched # {}
    <2>1. avail' = unit /\ hand' = unit /\ getPc' = "recv" /\ refusals' = 0 /\ real' = real
      BY <1>4, <1>6 DEF GetScan
    <2>2. unit \in Usable(n) /\ flags[unit] = 0
      BY <1>2, <1>6, FoundUnit
    <2> HIDE DEF unit
    <2>3. PoolShape(n)'
      BY <1>2, <1>5, <2>1, <2>2 DEF PoolShape
    <2>4. UnitsHeld(n)'
      BY <1>2, <1>5, <2>1, <2>2 DEF UnitsHeld
    <2>5. CountBound(n)'
      BY <1>2, <1>3, <1>5, <2>1 DEF CountBound
    <2> QED
      BY <2>1, <2>3, <2>4, <2>5 DEF UnitsOf, UnitInv, GetPcs
  <1>7. CASE Searched = {}
    <2>1. /\ avail' = FirstOf(QueueOf(avail)) /\ real' = InUse(flags) /\ getPc' = "missed"
          /\ refusals' = refusals + 1 /\ hand' = hand
      BY <1>4, <1>7 DEF GetScan
    <2>2. PICK p \in 0 .. n - 1, r \in 0 .. u - 2 : avail = p * u + 1 + r
      BY <1>2 DEF PoolShape, Usable
    <2>3. QueueOf(avail) = p /\ p * u \in Nat
      <3>1. p \in Nat /\ r \in 0 .. u - 1 /\ p * u \in Nat
        BY <1>1
      <3>2. QueueOf(p * u + 1 + r) = p
        BY <3>1, QueueOfUnit
      <3> QED
        BY <2>2, <3>1, <3>2
    <2>4. avail' = p * u + 1
      BY <2>1, <2>3 DEF FirstOf
    <2>5. avail' \in Usable(n)
      <3>1. p * u + 1 = p * u + 1 + 0 /\ 0 \in 0 .. u - 2 /\ p * u + 1 \in Nat
        BY <1>1, <2>3
      <3> QED
        BY <2>4, <3>1 DEF Usable
    <2>6. PoolShape(n)'
      BY <1>2, <1>5, <2>5 DEF PoolShape
    <2>7. UnitsHeld(n)'
      BY <1>2, <1>5, <2>1 DEF UnitsHeld
    <2>8. /\ Taken(flags) \subseteq Usable(n)
          /\ real' \in Nat /\ real' <= Room(n)
          /\ Usable(n) \subseteq Taken(flags) => real' * GrowDen >= Len(flags) * GrowNum
      BY <1>1, <1>2, <2>1, InUseBound DEF PoolShape
    <2>9. CountBound(n)'
      BY <1>2, <1>5, <2>1, <2>8 DEF CountBound
    <2>10. refusals = 0
      <3> SUFFICES ASSUME refusals # 0 PROVE FALSE
        OBVIOUS
      <3>1. Recovers(n)
        BY DEF UnitsOf
      <3>2. PICK a \in 0 .. n - 1 : avail = a * u + 1
        BY <3>1 DEF Recovers
      <3>3. PICK x \in Usable(n) : flags[x] = 0
        BY <1>2, <3>1 DEF Recovers
      <3> QED
        BY <1>2, <1>7, <3>2, <3>3, HeadSearch
    <2>11. Recovers(n)'
      <3>1. CASE Usable(n) \subseteq Taken(flags)
        BY <1>5, <2>1, <2>4, <2>8, <3>1 DEF Recovers
      <3>2. CASE ~(Usable(n) \subseteq Taken(flags))
        <4>1. PICK x \in Usable(n) : x \notin Taken(flags)
          BY <3>2
        <4>2. x \in DOMAIN flags
          BY <1>1, <1>2, UsableUnits DEF PoolShape
        <4>3. flags[x] = 0
          BY <4>1, <4>2 DEF Taken
        <4> QED
          BY <1>5, <2>1, <2>4, <4>3 DEF Recovers
      <3> QED
        BY <3>1, <3>2
    <2> QED
      BY <2>1, <2>6, <2>7, <2>9, <2>10, <2>11 DEF UnitsOf, UnitInv, GetPcs
  <1> QED
    BY <1>6, <1>7

\* The search begins: m_iCount is at most what nine tenths of the pool are, or the pool
\* is counted first.
LEMMA GetBeginKeeps ==
  ASSUME NEW n, UnitsOf(n), GetBegin
  PROVE  UnitInv'
  <1> DEFINE u == UnitsPerQueue
  <1>1. u \in Nat /\ u >= 2 /\ n \in Nat /\ n > 0 /\ n * u \in Nat
    BY UnitAssumption DEF UnitsOf, PoolShape
  <1>2. /\ PoolShape(n) /\ getPc = "get" /\ CountBound(n) /\ UnitsHeld(n)
        /\ refusals \in {0, 1} /\ (refusals = 1 => Recovers(n))
    BY DEF UnitsOf, GetBegin
  <1>3. Len(flags) = n * u /\ Taken(flags) \subseteq Usable(n) /\ count \in Int
    BY <1>2 DEF PoolShape, CountBound
  <1>4. CASE count * GrowDen > Len(flags) * GrowNum
    <2>1. /\ real' = InUse(flags) /\ getPc' = "grow"
          /\ UNCHANGED <<flags, avail, count, hand, addTmp, stored, readPc, readUnit, readTmp, refusals>>
      BY <1>4 DEF GetBegin, IncreaseScan
    <2>2. real' \in Nat /\ real' <= Room(n)
      BY <1>1, <1>3, <2>1, InUseBound
    <2>3. PoolShape(n)' /\ UnitsHeld(n)'
      BY <1>2, <2>1 DEF PoolShape, UnitsHeld
    <2>4. CountBound(n)'
      BY <1>2, <2>1, <2>2 DEF CountBound
    <2>5. refusals' = 1 => Recovers(n)'
      BY <1>2, <2>1 DEF Recovers
    <2> QED
      BY <1>2, <2>1, <2>3, <2>4, <2>5 DEF UnitsOf, UnitInv, GetPcs
  <1>5. CASE ~(count * GrowDen > Len(flags) * GrowNum)
    <2>1. /\ getPc' = "scan"
          /\ UNCHANGED <<flags, avail, count, real, hand, addTmp, stored, readPc, readUnit, readTmp, refusals>>
      BY <1>5 DEF GetBegin
    <2>2. count <= Room(n)
      <3> DEFINE room == n * u - n
      <3>1. GrowDen \in Nat /\ GrowDen >= 1 /\ GrowNum \in Nat /\ (u - 1) * GrowDen - u * GrowNum \in Nat
        BY <1>1, UnitAssumption
      <3>2. n * ((u - 1) * GrowDen - u * GrowNum) = room * GrowDen - (n * u) * GrowNum
        BY <1>1, <3>1
      <3>3. n * ((u - 1) * GrowDen - u * GrowNum) \in Nat
        BY <1>1, <3>1
      <3>4. room \in Int /\ room * GrowDen \in Int /\ (n * u) * GrowNum \in Int /\ count * GrowDen \in Int
        BY <1>1, <1>3, <3>1
      <3>5. count * GrowDen <= (n * u) * GrowNum
        BY <1>3, <1>5, <3>4
      <3>6. count * GrowDen <= room * GrowDen
        BY <3>2, <3>3, <3>4, <3>5
      <3>7. ASSUME count > room PROVE FALSE
        <4> HIDE DEF room
        <4>1. count - room - 1 \in Nat
          BY <1>3, <3>4, <3>7
        <4>2. (count - room - 1) * GrowDen \in Nat
          BY <4>1, <3>1
        <4>3. count * GrowDen = room * GrowDen + GrowDen + (count - room - 1) * GrowDen
          BY <1>3, <3>1, <3>4
        <4> QED
          BY <3>1, <3>4, <3>6, <4>2, <4>3
      <3> QED
        BY <1>3, <3>4, <3>7 DEF Room
    <2>3. PoolShape(n)' /\ UnitsHeld(n)'
      BY <1>2, <2>1 DEF PoolShape, UnitsHeld
    <2>4. CountBound(n)'
      BY <1>2, <2>1, <2>2 DEF CountBound
    <2>5. refusals' = 1 => Recovers(n)'
      BY <1>2, <2>1 DEF Recovers
    <2> QED
      BY <1>2, <2>1, <2>3, <2>4, <2>5 DEF UnitsOf, UnitInv, GetPcs
  <1> QED
    BY <1>4, <1>5

\* The worker drops the packet, or gives the unit to the receive buffer.
LEMMA HandKeeps ==
  ASSUME NEW n, UnitsOf(n), Discard \/ Store \/ StoreCount
  PROVE  UnitInv'
  <1>1. n \in Nat /\ Usable(n) \subseteq 1 .. n * UnitsPerQueue /\ Room(n) \in Nat
    BY UsableUnits DEF UnitsOf, PoolShape
  <1>2. refusals = 0
    BY DEF UnitsOf, Recovers, Discard, Store, StoreCount
  <1>3. CASE Discard
    <2>1. PoolShape(n)' /\ UnitsHeld(n)' /\ CountBound(n)'
      BY <1>1, <1>3 DEF Discard, UnitsOf, PoolShape, UnitsHeld, CountBound
    <2> QED
      BY <1>2, <1>3, <2>1 DEF Discard, UnitsOf, UnitInv, GetPcs
  <1>4. CASE Store
    <2>1. /\ hand \in Usable(n) /\ flags[hand] = 0 /\ hand \in DOMAIN flags
          /\ flags' = [flags EXCEPT ![hand] = 1]
      BY <1>1, <1>4 DEF Store, UnitsOf, UnitsHeld, PoolShape
    <2>2. hand \notin stored /\ hand' = hand /\ flags'[hand] = 1
      BY <1>4, <2>1 DEF Store, UnitsOf, UnitsHeld, Taken
    <2>3. Taken(flags') = Taken(flags) \cup {hand}
      BY <2>1 DEF Taken
    <2>4. PoolShape(n)'
      <3>1. flags' \in Seq({0, 1}) /\ Len(flags') = Len(flags)
        BY <2>1 DEF UnitsOf, PoolShape
      <3> QED
        BY <1>4, <2>1, <2>3, <3>1 DEF Store, UnitsOf, PoolShape
    <2>5. UnitsHeld(n)'
      <3>1. UNCHANGED <<stored, readPc, readUnit>> /\ getPc' = "add"
        BY <1>4 DEF Store
      <3>2. stored \subseteq Taken(flags')
        BY <2>3 DEF UnitsOf, UnitsHeld
      <3>3. (readPc = "copy" => readUnit \in stored) /\ (readPc # "copy" => readUnit = 0)
        BY DEF UnitsOf, UnitsHeld
      <3>4. hand' \in Usable(n) /\ flags'[hand'] # 0 /\ hand' \notin stored'
        BY <2>1, <2>2, <3>1
      <3> QED
        BY <3>1, <3>2, <3>3, <3>4 DEF UnitsHeld
    <2>6. CountBound(n)'
      BY <1>1, <1>4 DEF Store, UnitsOf, CountBound
    <2> QED
      BY <1>2, <1>4, <2>4, <2>5, <2>6 DEF Store, UnitsOf, UnitInv, GetPcs
  <1>5. CASE StoreCount
    <2>1. hand \in Taken(flags)
      BY <1>1, <1>5 DEF StoreCount, UnitsOf, UnitsHeld, PoolShape, Taken
    <2>2. PoolShape(n)' /\ UnitsHeld(n)'
      BY <1>5, <2>1 DEF StoreCount, UnitsOf, PoolShape, UnitsHeld
    <2>3. CountBound(n)'
      BY <1>1, <1>5 DEF StoreCount, UnitsOf, CountBound
    <2> QED
      BY <1>2, <1>5, <2>2, <2>3 DEF StoreCount, UnitsOf, UnitInv, GetPcs
  <1> QED
    BY <1>3, <1>4, <1>5

\* recv() gives units back; what the search of the worker has found stays free.
LEMMA ReadKeeps ==
  ASSUME NEW n, UnitsOf(n), (\E x \in DOMAIN flags : ReadStart(x)) \/ ReadRelease \/ ReadCount
  PROVE  UnitInv'
  <1>1. n \in Nat /\ Usable(n) \subseteq 1 .. n * UnitsPerQueue /\ Room(n) \in Nat
    BY UsableUnits DEF UnitsOf, PoolShape
  <1>2. CASE \E x \in DOMAIN flags : ReadStart(x)
    <2>1. PoolShape(n)' /\ UnitsHeld(n)' /\ CountBound(n)'
      BY <1>2 DEF ReadStart, UnitsOf, PoolShape, UnitsHeld, CountBound
    <2>2. refusals' = 1 => Recovers(n)'
      BY <1>2 DEF ReadStart, UnitsOf, Recovers
    <2> QED
      BY <1>2, <2>1, <2>2 DEF ReadStart, UnitsOf, UnitInv, GetPcs
  <1>3. CASE ReadRelease
    <2>1. /\ readUnit \in stored /\ readUnit \in Taken(flags) /\ readUnit \in DOMAIN flags
          /\ flags' = [flags EXCEPT ![readUnit] = 0]
      BY <1>3 DEF ReadRelease, UnitsOf, UnitsHeld, Taken
    <2>2. Taken(flags') = Taken(flags) \ {readUnit}
      BY <2>1 DEF Taken
    <2>3. /\ flags' \in Seq({0, 1}) /\ Len(flags') = Len(flags)
          /\ \A x \in Usable(n) : flags[x] = 0 => flags'[x] = 0
      BY <1>1, <2>1 DEF UnitsOf, PoolShape
    <2>4. PoolShape(n)'
      BY <1>3, <2>2, <2>3 DEF ReadRelease, UnitsOf, PoolShape
    <2>5. UnitsHeld(n)'
      <3>1. getPc = "add" => flags'[hand] # 0
        BY <1>1, <2>1 DEF UnitsOf, UnitsHeld, PoolShape
      <3> QED
        BY <1>3, <2>1, <2>2, <2>3, <3>1 DEF ReadRelease, UnitsOf, UnitsHeld
    <2>6. CountBound(n)'
      BY <1>3 DEF ReadRelease, UnitsOf, CountBound
    <2>7. refusals' = 1 => Recovers(n)'
      BY <1>3, <2>3 DEF ReadRelease, UnitsOf, Recovers
    <2> QED
      BY <1>3, <2>4, <2>5, <2>6, <2>7 DEF ReadRelease, UnitsOf, UnitInv, GetPcs
  <1>4. CASE ReadCount
    <2>1. PoolShape(n)' /\ UnitsHeld(n)'
      BY <1>4 DEF ReadCount, UnitsOf, PoolShape, UnitsHeld
    <2>2. CountBound(n)'
      BY <1>1, <1>4 DEF ReadCount, UnitsOf, CountBound
    <2>3. refusals' = 1 => Recovers(n)'
      BY <1>4 DEF ReadCount, UnitsOf, Recovers
    <2> QED
      BY <1>4, <2>1, <2>2, <2>3 DEF ReadCount, UnitsOf, UnitInv, GetPcs
  <1> QED
    BY <1>2, <1>3, <1>4

\* The pool of packet buffers, whose counter the two threads update without a lock and
\* may leave wrong: the unit the worker receives into is never one that recv() still
\* needs, and no two packets in a row are dropped for want of a unit.  For any size of
\* the arrays and any threshold that an array without its last unit reaches.
THEOREM PoolStaysSound == UnitSpec => []PoolSound
  <1>1. UnitInit => UnitInv
    <2> SUFFICES ASSUME UnitInit PROVE UnitInv
      OBVIOUS
    <2> DEFINE u == UnitsPerQueue
    <2>1. u \in Nat /\ u >= 2 /\ 1 * u = u /\ Room(1) \in Nat
      BY UnitAssumption, UsableUnits
    <2>2. flags \in Seq({0, 1}) /\ Len(flags) = 1 * u /\ Taken(flags) = {}
      BY <2>1 DEF UnitInit, Taken
    <2>3. avail \in Usable(1)
      <3>1. 1 = 0 * u + 1 + 0 /\ 0 \in 0 .. u - 2 /\ 0 \in 0 .. 1 - 1
        BY <2>1
      <3> QED
        BY <3>1 DEF UnitInit, Usable
    <2>4. PoolShape(1) /\ UnitsHeld(1) /\ CountBound(1)
      BY <2>1, <2>2, <2>3 DEF UnitInit, PoolShape, UnitsHeld, CountBound
    <2> QED
      BY <2>4 DEF UnitInit, UnitInv, UnitsOf, GetPcs
  <1>2. UnitInv /\ [UnitNext]_unitVars => UnitInv'
    <2> SUFFICES ASSUME UnitInv, [UnitNext]_unitVars PROVE UnitInv'
      OBVIOUS
    <2>1. PICK n : UnitsOf(n)
      BY DEF UnitInv
    <2>2. CASE GetBegin
      BY <2>1, <2>2, GetBeginKeeps
    <2>3. CASE GetGrow \/ GetMissed
      BY <2>1, <2>3, IncreaseKeeps DEF GetGrow, GetMissed
    <2>4. CASE GetScan
      BY <2>1, <2>4, GetScanKeeps
    <2>5. CASE Discard \/ Store \/ StoreCount
      BY <2>1, <2>5, HandKeeps
    <2>6. CASE (\E x \in DOMAIN flags : ReadStart(x)) \/ ReadRelease \/ ReadCount
      BY <2>1, <2>6, ReadKeeps
    <2>7. CASE UNCHANGED unitVars
      <3>1. PoolShape(n)' /\ UnitsHeld(n)' /\ CountBound(n)' /\ (refusals' = 1 => Recovers(n)')
        BY <2>1, <2>7 DEF unitVars, UnitsOf, PoolShape, UnitsHeld, CountBound, Recovers
      <3> QED
        BY <2>1, <2>7, <3>1 DEF unitVars, UnitsOf, UnitInv
    <2> QED
      BY <2>2, <2>3, <2>4, <2>5, <2>6, <2>7 DEF UnitNext
  <1>3. UnitInv => PoolSound
    <2> SUFFICES ASSUME NEW n, UnitsOf(n) PROVE PoolSound
      BY DEF UnitInv
    <2>1. ASSUME getPc = "recv" PROVE hand \notin stored \cup {readUnit}
      <3>1. hand \in Usable(n) /\ flags[hand] = 0 /\ n \in Nat
        BY <2>1 DEF UnitsOf, UnitsHeld, PoolShape
      <3>2. hand # 0 /\ hand \notin stored
        BY <3>1, UsableUnits DEF UnitsOf, UnitsHeld, Taken
      <3> QED
        BY <3>2 DEF UnitsOf, UnitsHeld
    <2> QED
      BY <2>1 DEF PoolSound, UnitsOf
  <1> QED
    BY <1>1, <1>2, <1>3, PTL DEF UnitSpec
=============================================================================
