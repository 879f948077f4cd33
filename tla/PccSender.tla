----------------------------- MODULE PccSender -----------------------------
(***************************************************************************)
(* How a PCC sender drives its monitor intervals (src/pcc/pcc_sender.cpp): *)
(* OnPacketSent opens, extends or continues an interval, OnCongestionEvent *)
(* reports the fate of a packet, and OnUtilityAvailable changes the mode   *)
(* when the utilities of all useful intervals are known.  Which mode comes *)
(* next depends on the utilities and is left open here, within NextModes;  *)
(* Vivace has the rates and shows that its mode changes are of this kind.  *)
(*                                                                         *)
(* The caller is the sender of module Sender: packet ids go up by one with *)
(* every transmission, and PCC is told the fate of a packet at most once   *)
(* (PccToldOnce), in any order.                                            *)
(***************************************************************************)
EXTENDS MonitorIntervalQueue

CONSTANTS GroupSizes,   \* the values of GetNumIntervalGroupsInProbing
          MaxPackets,   \* bound: packets sent
          MaxOpen       \* bound: packets sent whose fate PCC has not been told

ASSUME PccSenderAssumption ==
  /\ GroupSizes \subseteq Nat \ {0} /\ GroupSizes # {}
  /\ MaxPackets \in Nat /\ MaxOpen \in Nat

VARIABLES mode,      \* mode_
          groups,    \* GetNumIntervalGroupsInProbing, set by the effective utility tag
          haveRtt,   \* latest_rtt_ and avg_rtt_ are not zero
          seenRtt,   \* has_seen_valid_rtt_
          nextId,    \* the id of the next packet
          told       \* history: the packets whose fate PCC has been told

pvars == <<queueVars, mode, groups, haveRtt, seenRtt, nextId, told>>

Fates == {"acked", "lost"}

PInit ==
  /\ QueueInit
  /\ mode = "STARTING"
  /\ groups \in GroupSizes
  /\ haveRtt = FALSE /\ seenRtt = FALSE
  /\ nextId = 1 /\ told = {}

\* setOpt(UDT_UTAG) is called before the first packet, as pccclient does.
SetUtilityTag(g) ==
  /\ nextId = 1
  /\ groups' = g
  /\ UNCHANGED <<queueVars, mode, haveRtt, seenRtt, nextId, told>>

-----------------------------------------------------------------------------
(* OnPacketSent. *)

\* packData asks CanSend before it sends.
CanSend == Len(intervals) - numUseful <= 4

\* Mutant of CurrentIsDone: the interval ends when its time is over.
MutCurrentIsDone(elapsed) == elapsed

\* The current interval has enough reliable samples and lasted long enough.
CurrentIsDone(elapsed) == Current.enough /\ elapsed

\* num_reliable_rtt / samples > kMinReliabilityRatio, which is 0.8.
MostlyReliable == 5 * Current.reliable > 4 * Current.acked

CreateNewInterval(elapsed) ==
  \/ intervals = << >>
  \/ haveRtt /\ numUseful = 0
  \/ /\ intervals # << >> /\ haveRtt /\ Current.useful /\ CurrentIsDone(elapsed)
     /\ MostlyReliable \/ Current.extended

ExtendsInterval(elapsed) ==
  /\ intervals # << >> /\ haveRtt /\ numUseful # 0
  /\ Current.useful /\ CurrentIsDone(elapsed) /\ ~MostlyReliable /\ ~Current.extended

\* Mutant of CreateUsefulInterval: one interval more than a decision uses.
MutCreateUsefulInterval == haveRtt /\ numUseful <= MaxUseful(mode, groups)

CreateUsefulInterval == haveRtt /\ numUseful < MaxUseful(mode, groups)

Sending == /\ CanSend
           /\ nextId <= MaxPackets /\ Cardinality((1 .. nextId - 1) \ told) < MaxOpen
           /\ nextId' = nextId + 1
           /\ UNCHANGED <<mode, groups, haveRtt, seenRtt, told>>

StartInterval(elapsed) ==
  /\ Sending
  /\ CreateNewInterval(elapsed)
  /\ EnqueueNewMonitorInterval(CreateUsefulInterval, nextId, haveRtt)

ExtendInterval(elapsed) ==
  /\ Sending
  /\ ExtendsInterval(elapsed)
  /\ AddPacket(nextId, TRUE)

ContinueInterval(elapsed) ==
  /\ Sending
  /\ ~CreateNewInterval(elapsed) /\ ~ExtendsInterval(elapsed)
  /\ AddPacket(nextId, FALSE)

-----------------------------------------------------------------------------
(* OnCongestionEvent. *)

\* EnterProbing chooses the effective tag of the "Hybrid" utility function anew.
ChangeMode(m) ==
  /\ mode' = m
  /\ groups' \in IF m = "PROBING" /\ mode # "PROBING" THEN GroupSizes ELSE {groups}

\* The ACK interval of a loss event, and of the first event, is zero.
GapsOf(fate) == IF fate = "acked" /\ seenRtt THEN Gaps ELSE {"zero"}

\* bursty and calm matter to a ratio with a finite average and to a burst.
Bursts == IF avgRatio = "finite" THEN BOOLEAN ELSE {FALSE}
Calms == IF burstFlag THEN BOOLEAN ELSE {FALSE}

Told(p, fate) ==
  /\ p \in 1 .. nextId - 1 /\ p \notin told
  /\ told' = told \cup {p}
  /\ haveRtt' = (haveRtt \/ fate = "acked")
  /\ seenRtt' = TRUE
  /\ UNCHANGED nextId

\* CheckForRttInflation ends STARTING early.  It needs an interval at the head
\* that began with a known RTT.
RttInflation(p, fate) ==
  /\ Told(p, fate)
  /\ mode = "STARTING" /\ intervals # << >> /\ intervals[1].rttKnown
  /\ OnRttInflationInStarting
  /\ ChangeMode("PROBING")

CongestionEvent(p, fate, gap, bursty, calm) ==
  /\ Told(p, fate)
  /\ QueueCongestionEvent(p, fate, gap, bursty, calm)
  /\ IF Decides(p, fate, gap, bursty)
     THEN \E m \in NextModes(mode) : ChangeMode(m)
     ELSE UNCHANGED <<mode, groups>>

PNext ==
  \/ \E g \in GroupSizes : SetUtilityTag(g)
  \/ \E elapsed \in BOOLEAN : \/ StartInterval(elapsed)
                              \/ ExtendInterval(elapsed)
                              \/ ContinueInterval(elapsed)
  \/ \E p \in 1 .. MaxPackets, fate \in Fates :
       \/ RttInflation(p, fate)
       \/ \E gap \in GapsOf(fate), bursty \in Bursts, calm \in Calms :
            CongestionEvent(p, fate, gap, bursty, calm)

PSpec == PInit /\ [][PNext]_pvars

-----------------------------------------------------------------------------
(* Properties. *)

PacketsOf(iv) == iv.first .. iv.last

\* No fate is lost or counted twice, although acknowledgements are counted one event
\* late and events come in any order: what a useful interval has counted, together
\* with the pending acknowledgement, is what PCC was told of its packets.  One fate
\* too few or too many, and the utility would never become available.
FatesCounted ==
  \A i \in UsefulIn(intervals) :
    LET iv == intervals[i]
    IN  /\ iv.sent = iv.last - iv.first + 1
        /\ iv.acked + iv.lost + Cardinality(pendingAcked \cap PacketsOf(iv))
             = Cardinality(told \cap PacketsOf(iv))

\* A useful interval is left for the next one only with enough reliable samples, so
\* it becomes available once the fates of its packets are known; and the queue never
\* keeps useful intervals that are all available: no decision is missed.
NoIntervalStuck ==
  /\ \A i \in UsefulIn(intervals) : i < Len(intervals) => intervals[i].enough
  /\ numUseful > 0 => \E i \in UsefulIn(intervals) : ~IsUtilityAvailable(intervals[i])

\* Useful intervals are next to each other, with at most one non-useful interval
\* before and one after them.  So CanSend is always true: PCC never stops the
\* sender, whatever is in flight.
NeverThrottled ==
  /\ Len(intervals) - numUseful <= 2
  /\ \A i, j \in UsefulIn(intervals) : \A k \in i .. j : k \in UsefulIn(intervals)

\* The assertions of OnCongestionEvent, CreateUsefulInterval and OnUtilityAvailable:
\* the counter agrees with the queue, a decision sees no more intervals than its mode
\* works with, and only a sender in STARTING has no RTT.
AssertionsHold ==
  /\ numUseful = Cardinality(UsefulIn(intervals))
  /\ numUseful <= MaxUseful(mode, groups)
  /\ haveRtt \/ mode = "STARTING"

\* has_seen_valid_rtt_ is set when the first acknowledgement has brought an RTT.
SeenRttIsValid == seenRtt => haveRtt
=============================================================================
