------------------------------ MODULE MCSeqNo ------------------------------
(***************************************************************************)
(* The operators of CSeqNo against the distance they stand for: a cursor   *)
(* walks around the sequence space from a fixed origin, and dist counts    *)
(* its steps as a plain integer.                                           *)
(***************************************************************************)
EXTENDS SeqNo

VARIABLES origin, cursor, dist

vars == <<origin, cursor, dist>>

Init == /\ origin \in SeqNos
        /\ cursor = origin
        /\ dist = 0

Advance == /\ dist < SeqNoTH - 1
           /\ cursor' = incseq(cursor)
           /\ dist' = dist + 1
           /\ UNCHANGED origin

Retreat == /\ dist > 1 - SeqNoTH
           /\ cursor' = decseq(cursor)
           /\ dist' = dist - 1
           /\ UNCHANGED origin

Jump(n) == /\ dist + n < SeqNoTH
           /\ cursor' = incseqBy(cursor, n)
           /\ dist' = dist + n
           /\ UNCHANGED origin

Next == Advance \/ Retreat \/ \E n \in 0 .. SeqNoTH : Jump(n)

Spec == Init /\ [][Next]_vars

Sign(n) == IF n > 0 THEN 1 ELSE IF n < 0 THEN -1 ELSE 0

\* seqoff recovers the signed number of steps from origin to cursor, whichever
\* side of the wrap either of them is on (processData and ProcessAck rely on it).
OffsetIsDistance == seqoff(origin, cursor) = dist

\* The order seqcmp gives two sequence numbers less than SeqNoTH apart is the
\* order in which they were handed out, across the wrap too (the loss lists and
\* the message-drop handler compare with it).
CompareIsOrder == Sign(seqcmp(cursor, origin)) = Sign(dist)

\* seqlen counts the sequence numbers from the first to the second, both included.
LengthIsCount == dist >= 0 => seqlen(origin, cursor) = dist + 1
=============================================================================
