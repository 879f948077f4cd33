--------------------------- MODULE MCStructures ----------------------------
(***************************************************************************)
(* The data structures of the transport, each driven through all that may  *)
(* happen to it: a behaviour belongs to one of them.                       *)
(***************************************************************************)
EXTENDS MCSeqNo, LossLists, UnitQueue, SndBuffer, SndUList, Epoll, TLC

VARIABLE part   \* the structure a behaviour is about

Parts == {"seqno", "sndLoss", "rcvLoss", "units", "blocks", "schedule", "epoll"}

allVars == <<part, vars, lossVars, unitVars, blockVars, scheduleVars, epollVars>>

StructInit == /\ part \in Parts
              /\ Init /\ LossInit /\ UnitInit /\ BlockInit /\ ScheduleInit /\ EpollInit
              /\ part # "seqno" => origin = 0

StructNext ==
  /\ \/ /\ part = "seqno" /\ Next
        /\ UNCHANGED <<lossVars, unitVars, blockVars, scheduleVars, epollVars>>
     \/ /\ \/ part = "sndLoss" /\ SndLossNext
           \/ part = "rcvLoss" /\ RcvLossNext
        /\ UNCHANGED <<vars, unitVars, blockVars, scheduleVars, epollVars>>
     \/ /\ part = "units" /\ UnitNext
        /\ UNCHANGED <<vars, lossVars, blockVars, scheduleVars, epollVars>>
     \/ /\ part = "blocks" /\ BlockNext
        /\ UNCHANGED <<vars, lossVars, unitVars, scheduleVars, epollVars>>
     \/ /\ part = "schedule" /\ ScheduleNext
        /\ UNCHANGED <<vars, lossVars, unitVars, blockVars, epollVars>>
     \/ /\ part = "epoll" /\ EpollNext
        /\ UNCHANGED <<vars, lossVars, unitVars, blockVars, scheduleVars>>
  /\ UNCHANGED part

StructSpec == StructInit /\ [][StructNext]_allVars

\* Sockets and poll ids are interchangeable.
Symmetry == Permutations(Senders) \cup Permutations(PollIds)
=============================================================================
