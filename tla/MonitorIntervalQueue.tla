------------------------ MODULE MonitorIntervalQueue ------------------------
(***************************************************************************)
(* PccMonitorIntervalQueue (src/pcc/pcc_monitor_interval_queue.cpp): the   *)
(* queue of monitor intervals, each with the packets sent while it was     *)
(* current and the fates of these packets that PCC has heard of.           *)
(*                                                                         *)
(* Packet numbers are the tracker's packet ids.  All packets have the same *)
(* size, so bytes count packets and acked is also the number of RTT        *)
(* samples.  Of the RTT and ACK-interval arithmetic the model keeps what   *)
(* decides whether a sample is reliable: an ACK interval is zero or not,   *)
(* and the average of the interval ratios is unset, finite or infinite (a  *)
(* division by a zero ACK interval).  The acknowledgement of an event is   *)
(* counted one event later, from pending_acked_packets_.                   *)
(***************************************************************************)
EXTENDS PccModes, Sequences, FiniteSets

CONSTANT MinReliableRtt    \* kMinReliableRtt

ASSUME MinReliableRttAssumption == MinReliableRtt \in Nat /\ MinReliableRtt >= 2

VARIABLES intervals,      \* monitor_intervals_
          numUseful,      \* num_useful_intervals_
          pendingAcked,   \* pending_acked_packets_
          pendingGap,     \* pending_ack_interval_: "zero" or "positive"
          burstFlag,      \* burst_flag_
          avgRatio        \* avg_interval_ratio_: "unset", "finite" or "inf"

queueVars == <<intervals, numUseful, pendingAcked, pendingGap, burstFlag, avgRatio>>

Gaps == {"zero", "positive"}

QueueInit ==
  /\ intervals = << >> /\ numUseful = 0
  /\ pendingAcked = {} /\ pendingGap = "zero"
  /\ burstFlag = FALSE /\ avgRatio = "unset"

\* EnqueueNewMonitorInterval, and OnPacketSent for the first packet.
NewInterval(useful, p, rttKnown) ==
  [useful |-> useful, first |-> p, last |-> p, sent |-> 1, acked |-> 0, lost |-> 0,
   reliable |-> 0, enough |-> FALSE, extended |-> FALSE, rttKnown |-> rttKnown]

Current == intervals[Len(intervals)]

UsefulIn(q) == {i \in DOMAIN q : q[i].useful}

EnqueueNewMonitorInterval(useful, p, rttKnown) ==
  /\ intervals' = Append(intervals, NewInterval(useful, p, rttKnown))
  /\ numUseful' = IF useful THEN numUseful + 1 ELSE numUseful
  /\ UNCHANGED <<pendingAcked, pendingGap, burstFlag, avgRatio>>

\* OnPacketSent for a further packet of the current interval.
AddPacket(p, extend) ==
  /\ intervals' = [intervals EXCEPT ![Len(intervals)].last = p,
                                    ![Len(intervals)].sent = @ + 1,
                                    ![Len(intervals)].extended = @ \/ extend]
  /\ UNCHANGED <<numUseful, pendingAcked, pendingGap, burstFlag, avgRatio>>

IsUtilityAvailable(iv) == iv.enough /\ iv.acked + iv.lost = iv.sent

\* Mutant of IntervalContainsPacket: the last packet is taken to be the next
\* interval's.
MutIntervalContainsPacket(iv, p) == p >= iv.first /\ p < iv.last

IntervalContainsPacket(iv, p) == p >= iv.first /\ p <= iv.last

\* The first and the last packet were sent at the same time: the clock advances
\* between two packets, so they are one.
HasInvalidUtility(iv) == iv.first = iv.last

Open(iv) == iv.useful /\ ~IsUtilityAvailable(iv)

-----------------------------------------------------------------------------
(* OnCongestionEvent for one packet p: fate is "acked" or "lost", gap is    *)
(* the ACK interval of the event.  bursty: the ratio of the ACK intervals   *)
(* exceeds 50 times its average; calm: the RTTs say that a burst is over.   *)

Ratio(gap) == IF pendingGap = "zero" THEN "none" ELSE IF gap = "zero" THEN "inf" ELSE "finite"

AvgBefore(gap) == IF avgRatio = "unset" THEN Ratio(gap) ELSE avgRatio

IsBurst(gap, bursty) ==
  \/ Ratio(gap) = "inf" /\ AvgBefore(gap) = "finite"
  \/ Ratio(gap) = "finite" /\ avgRatio = "finite" /\ bursty

IsReliable(gap, bursty) == Ratio(gap) # "none" /\ ~IsBurst(gap, bursty) /\ ~burstFlag

UpdateBurst(gap, bursty, calm) ==
  /\ burstFlag' = IF Ratio(gap) = "none" THEN burstFlag
                  ELSE IsBurst(gap, bursty) \/ (burstFlag /\ ~calm)
  /\ avgRatio' = IF Ratio(gap) = "none" THEN avgRatio
                 ELSE IF "inf" \in {Ratio(gap), AvgBefore(gap)} THEN "inf" ELSE "finite"

\* What the event adds to an interval: the loss of p at once, and the pending
\* acknowledgement.
Counted(iv, p, fate, reliable) ==
  LET lost == IF fate = "lost" /\ IntervalContainsPacket(iv, p) THEN 1 ELSE 0
      acked == IF \E q \in pendingAcked : IntervalContainsPacket(iv, q) THEN 1 ELSE 0
      total == iv.reliable + (IF reliable THEN acked ELSE 0)
  IN  IF ~Open(iv) THEN iv
      ELSE [iv EXCEPT !.lost = @ + lost, !.acked = @ + acked, !.reliable = total,
                      !.enough = @ \/ (acked = 1 /\ total >= MinReliableRtt)]

\* Intervals whose utility becomes available by the event and is invalid: the loop
\* over the intervals ends there.
InvalidIn(updated) ==
  {i \in DOMAIN updated : /\ Open(intervals[i]) /\ IsUtilityAvailable(updated[i])
                          /\ HasInvalidUtility(updated[i])}

NumAvailable(updated) == Cardinality({i \in UsefulIn(updated) : IsUtilityAvailable(updated[i])})

Complete(updated) == NumAvailable(updated) >= numUseful

\* Mutant of RemoveUseful: only the useful intervals are removed.
MutRemoveUseful(updated) ==
  /\ intervals' = SelectSeq(updated, LAMBDA iv : ~iv.useful)
  /\ numUseful' = 0

\* Intervals are removed from the head until all useful ones are gone.
RemoveUseful(updated) ==
  /\ \E k \in UsefulIn(updated) :
       /\ Cardinality({i \in UsefulIn(updated) : i <= k}) = numUseful
       /\ intervals' = SubSeq(updated, k + 1, Len(updated))
  /\ numUseful' = 0

KeepPending(p, fate) == pendingAcked' = IF fate = "acked" THEN {p} ELSE {}

UpdatedBy(p, fate, gap, bursty) ==
  [i \in DOMAIN intervals |-> Counted(intervals[i], p, fate, IsReliable(gap, bursty))]

\* The event calls the delegate's OnUtilityAvailable.
Decides(p, fate, gap, bursty) ==
  LET updated == UpdatedBy(p, fate, gap, bursty)
  IN  numUseful > 0 /\ InvalidIn(updated) = {} /\ Complete(updated)

QueueCongestionEvent(p, fate, gap, bursty, calm) ==
  LET updated == UpdatedBy(p, fate, gap, bursty)
      sampled == \E i \in DOMAIN intervals :
                   /\ Open(intervals[i])
                   /\ \A k \in InvalidIn(updated) : i <= k
                   /\ \E q \in pendingAcked : IntervalContainsPacket(intervals[i], q)
  IN  IF numUseful = 0
      THEN UNCHANGED queueVars
      ELSE /\ KeepPending(p, fate)
           /\ pendingGap' = gap
           /\ IF sampled THEN UpdateBurst(gap, bursty, calm) ELSE UNCHANGED <<burstFlag, avgRatio>>
           /\ IF InvalidIn(updated) # {} \/ Complete(updated)
              THEN RemoveUseful(updated)
              ELSE intervals' = updated /\ UNCHANGED numUseful

OnRttInflationInStarting ==
  /\ intervals' = << >> /\ numUseful' = 0
  /\ UNCHANGED <<pendingAcked, pendingGap, burstFlag, avgRatio>>
=============================================================================
