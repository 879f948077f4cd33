--------------------------- MODULE PacketTracker ---------------------------
(***************************************************************************)
(* The sender's packet tracker (src/core/packet_tracker.h): a record per   *)
(* packet that is not yet acknowledged, three priority queues and a map    *)
(* from sent times to sequence numbers.  Each operator below with primed   *)
(* variables is one section of a method that holds the mutex lock_; the    *)
(* one piece of tracker state the code also touches without the lock,      *)
(* cur_min_seq_, has steps of its own.                                     *)
(*                                                                         *)
(* A PacketRecord is split into two functions: packetState, where "NONE"   *)
(* says that packet_record_map_ has no entry, and msgRecords, whose m-th   *)
(* element is the packet id of the transmission with msg_no m (packData    *)
(* numbers the transmissions of a packet 1, 2, ...).  A packet id also     *)
(* stands for the sent time of its transmission: OnPacketSent draws both   *)
(* under lock_ and CLOCK_MONOTONIC is taken to advance between two         *)
(* transmissions, so ids and times are ordered alike.                      *)
(***************************************************************************)
EXTENDS SeqNo, Sequences, FiniteSets

CONSTANT PacketLimit      \* arbitrary_packet_limit_ (kArbitraryPacketLimit)

ASSUME PacketLimitAssumption == PacketLimit \in Nat \ {0}

VARIABLES packetState,           \* packet_record_map_: packet_state_
          msgRecords,            \* packet_record_map_: msg_records_
          sendQueue,             \* send_queue_, smallest number on top
          retransmittableQueue,  \* retransmittable_queue_, smallest number on top
          sentQueue,             \* sent_queue_: sent times, the oldest on top
          sentTimeMap,           \* sent_time_map_: pairs <<sent time, seq_no>>
          prevPacketId,          \* prev_packet_id_
          curMinSeq,             \* *cur_min_seq_, NULL when there is none
          fatal                  \* how the process ended: "no", "exit" or "segv"

queueVars == <<sendQueue, retransmittableQueue, sentQueue, sentTimeMap>>
trackerVars == <<packetState, msgRecords, queueVars, prevPacketId, curMinSeq, fatal>>

NULL == -1

PacketStates == {"NONE", "QUEUED", "SENT", "ACKED", "LOST"}

TrackerInit ==
  /\ packetState = [s \in SeqNos |-> "NONE"]
  /\ msgRecords = [s \in SeqNos |-> << >>]
  /\ sendQueue = {} /\ retransmittableQueue = {}
  /\ sentQueue = {} /\ sentTimeMap = {}
  /\ prevPacketId = 0
  /\ curMinSeq = NULL
  /\ fatal = "no"

-----------------------------------------------------------------------------
(* Queries. *)

Recorded == {s \in SeqNos : packetState[s] # "NONE"}

\* cur_num_packets_ changes with packet_record_map_ under lock_, so it is the
\* number of records.
CanEnqueuePacket == Cardinality(Recorded) < PacketLimit

\* GetPacketLastMsgNo: 0 for a packet without a record or never sent.
GetPacketLastMsgNo(s) == Len(msgRecords[s])

\* SafeGetMessageRecord finds the message; otherwise it ends the process.
HasMessage(s, m) == m \in 1 .. Len(msgRecords[s])

GetPacketId(s, m) == IF s \in Recorded THEN msgRecords[s][m] ELSE 0

IsTop(x, Q) == x \in Q /\ \A y \in Q : x <= y

\* What is left of a queue of sequence numbers after the pop loop of the
\* Has.../GetLowest... methods: tops without a record are dropped.
Purged(Q) == {s \in Q : \E t \in Q : t <= s /\ t \in Recorded}

\* Mutant of SentPurged: the pop loop also drops the first live entry.
MutSentPurged == {i \in sentQueue : \E p \in sentTimeMap : p[1] \in sentQueue /\ p[1] < i}

\* The same for sent_queue_: GetOldestSentSeqNo drops tops that are no longer
\* in sent_time_map_.
SentPurged == {i \in sentQueue : \E p \in sentTimeMap : p[1] \in sentQueue /\ p[1] <= i}

ExitProcess == /\ fatal' = "exit"
               /\ UNCHANGED <<packetState, msgRecords, queueVars, prevPacketId, curMinSeq>>

Segfault == /\ fatal' = "segv"
            /\ UNCHANGED <<packetState, msgRecords, queueVars, prevPacketId, curMinSeq>>

-----------------------------------------------------------------------------
(* EnqueuePacket.  The update of cur_min_seq_ runs before lock_ is taken:   *)
(* the test for NULL, the comparison and the locked section are three       *)
(* steps that other threads' steps can separate.                            *)

EnqueueMinAbsent(seq) == /\ curMinSeq = NULL
                         /\ curMinSeq' = seq
                         /\ UNCHANGED <<packetState, msgRecords, queueVars, prevPacketId, fatal>>

EnqueueMinPresent == /\ curMinSeq # NULL
                     /\ UNCHANGED trackerVars

\* The pointer tested above may have been deleted since: the read is then of
\* freed memory, which may go unnoticed or end the process.
EnqueueMinCompare(seq) ==
  \/ /\ curMinSeq # NULL
     /\ curMinSeq' = IF curMinSeq > seq THEN seq ELSE curMinSeq
     /\ UNCHANGED <<packetState, msgRecords, queueVars, prevPacketId, fatal>>
  \/ /\ curMinSeq = NULL
     /\ UNCHANGED trackerVars \/ Segfault

EnqueueRecord(seq) ==
  \/ /\ seq \in Recorded
     /\ ExitProcess
  \/ /\ seq \notin Recorded
     /\ packetState' = [packetState EXCEPT ![seq] = "QUEUED"]
     /\ msgRecords' = [msgRecords EXCEPT ![seq] = << >>]
     /\ sendQueue' = sendQueue \cup {seq}
     /\ UNCHANGED <<retransmittableQueue, sentQueue, sentTimeMap, prevPacketId, curMinSeq, fatal>>

-----------------------------------------------------------------------------
(* OnPacketSent, with msg_no = GetPacketLastMsgNo + 1. *)

SentInOrder(seq) ==
  IF packetState[seq] = "QUEUED" THEN IsTop(seq, sendQueue)
                                 ELSE IsTop(seq, retransmittableQueue)

OnPacketSent(seq) ==
  \/ /\ seq \notin Recorded \/ ~SentInOrder(seq)
     /\ ExitProcess
  \/ /\ seq \in Recorded /\ SentInOrder(seq)
     /\ IF packetState[seq] = "QUEUED"
        THEN /\ sendQueue' = sendQueue \ {seq}
             /\ UNCHANGED retransmittableQueue
        ELSE /\ retransmittableQueue' = retransmittableQueue \ {seq}
             /\ UNCHANGED sendQueue
     /\ prevPacketId' = prevPacketId + 1
     /\ packetState' = [packetState EXCEPT ![seq] = "SENT"]
     /\ msgRecords' = [msgRecords EXCEPT ![seq] = Append(@, prevPacketId')]
     /\ sentQueue' = sentQueue \cup {prevPacketId'}
     /\ sentTimeMap' = sentTimeMap \cup {<<prevPacketId', seq>>}
     /\ UNCHANGED <<curMinSeq, fatal>>

-----------------------------------------------------------------------------
(* OnPacketAck and OnPacketLoss: the timer of transmission msg is cancelled *)
(* and the record takes the new state when msg is its latest transmission.  *)

\* Mutant of CancelTimer: the timer stays armed.
MutCancelTimer(id) == sentTimeMap' = sentTimeMap

CancelTimer(id) == sentTimeMap' = {p \in sentTimeMap : p[1] # id}

UpdateRecord(seq, msg, new) ==
  packetState' = IF msg = GetPacketLastMsgNo(seq)
                 THEN [packetState EXCEPT ![seq] = new]
                 ELSE packetState

OnPacketAck(seq, msg) ==
  \/ /\ seq \notin Recorded
     /\ UNCHANGED trackerVars
  \/ /\ seq \in Recorded /\ ~HasMessage(seq, msg)
     /\ ExitProcess
  \/ /\ seq \in Recorded /\ HasMessage(seq, msg)
     /\ CancelTimer(msgRecords[seq][msg])
     /\ UpdateRecord(seq, msg, "ACKED")
     /\ UNCHANGED <<msgRecords, sendQueue, retransmittableQueue, sentQueue,
                    prevPacketId, curMinSeq, fatal>>

\* Mutant of OnPacketLoss: the packet is marked lost and not queued again.
MutOnPacketLoss(seq, msg) ==
  /\ CancelTimer(GetPacketId(seq, msg))
  /\ UpdateRecord(seq, msg, IF seq \in Recorded THEN "LOST" ELSE "NONE")
  /\ UNCHANGED <<msgRecords, sendQueue, retransmittableQueue, sentQueue, prevPacketId,
                 curMinSeq, fatal>>

OnPacketLoss(seq, msg) ==
  \/ /\ seq \notin Recorded
     /\ UNCHANGED trackerVars
  \/ /\ seq \in Recorded /\ ~HasMessage(seq, msg)
     /\ ExitProcess
  \/ /\ seq \in Recorded /\ HasMessage(seq, msg)
     /\ CancelTimer(msgRecords[seq][msg])
     /\ UpdateRecord(seq, msg, "LOST")
     /\ retransmittableQueue' = retransmittableQueue \cup {seq}
     /\ UNCHANGED <<msgRecords, sendQueue, sentQueue, prevPacketId, curMinSeq, fatal>>

-----------------------------------------------------------------------------
(* DeletePacketRecord.  When the deleted packet was the minimum, the code   *)
(* counts *cur_min_seq_ up until it meets a record.  With no record above,  *)
(* the 32-bit counter overflows and comes back from below.                  *)

NextMin(seq, R, m) ==
  LET above == {s \in R : s > seq}
  IN  IsTop(m, IF above = {} THEN R ELSE above)

DeletePacketRecord(seq) ==
  \/ /\ seq \notin Recorded
     /\ ExitProcess
  \/ /\ seq \in Recorded /\ curMinSeq = NULL
     /\ Segfault
  \/ /\ seq \in Recorded /\ curMinSeq # NULL
     /\ packetState' = [packetState EXCEPT ![seq] = "NONE"]
     /\ msgRecords' = [msgRecords EXCEPT ![seq] = << >>]
     /\ LET left == Recorded \ {seq}
        IN  \/ curMinSeq # seq /\ curMinSeq' = curMinSeq
            \/ curMinSeq = seq /\ left = {} /\ curMinSeq' = NULL
            \/ curMinSeq = seq /\ \E m \in left : NextMin(seq, left, m) /\ curMinSeq' = m
     /\ UNCHANGED <<queueVars, prevPacketId, fatal>>
=============================================================================
