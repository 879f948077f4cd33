---------------------------- MODULE SenderProofs ----------------------------
(***************************************************************************)
(* Safety of the sender, for every sequence space, buffer size, packet     *)
(* limit and bound on the length of a behaviour.  NoPacketForgotten,       *)
(* NoStaleTimer and PayloadAlive are not inductive; Allocation, TrackerInv *)
(* and MinSeqPresent add what the threads rely on.  BytesCovered needs     *)
(* BytesInv on top of these.                                               *)
(***************************************************************************)
EXTENDS SenderTypeProofs, FiniteSetTheorems

USE SeqNoAssumption, PacketLimitAssumption, SenderAssumption

\* How far a sequence number is behind m_iISN in the circular order.
Pos(s) == IF s >= ISN THEN s - ISN ELSE s - ISN + MaxSeqNo + 1

\* m_iSndCurrSeqNo is the last of the sequence numbers handed out so far, and the
\* call of send() in progress stays within the sequence space.
Allocation ==
  /\ enqueued <= MaxEnqueued
  /\ appPc # "idle" => enqueued + appLen - appQueued <= MaxEnqueued
  /\ appPc \notin {"idle", "finish"} => appQueued < appLen
  /\ IF appPc \in {"compare", "record"}
     THEN Pos(sndCurrSeqNo) = enqueued
     ELSE Pos(incseq(sndCurrSeqNo)) = enqueued

\* There is no trace yet of a sequence number not handed out.
FreshUnused ==
  \A s \in SeqNos : Pos(s) >= enqueued =>
    /\ packetState[s] = "NONE"
    /\ s \notin sendQueue /\ s \notin retransmittableQueue
    /\ \A p \in wire : p[1] # s

\* The queues and the state of a record agree, and the record of a packet that
\* was sent has a message.
RecordShape ==
  \A s \in SeqNos :
    /\ s \in sendQueue <=> packetState[s] = "QUEUED"
    /\ Len(msgRecords[s]) = 0 <=> packetState[s] \in {"NONE", "QUEUED"}
    /\ s \in retransmittableQueue => packetState[s] \in {"NONE", "LOST", "ACKED"}

\* A packet id names one transmission.
IdsUnique ==
  \A s, t \in SeqNos :
    \A i \in 1 .. Len(msgRecords[s]), j \in 1 .. Len(msgRecords[t]) :
      /\ msgRecords[s][i] \in 1 .. prevPacketId
      /\ msgRecords[s][i] = msgRecords[t][j] => s = t /\ i = j

\* A transmission that has left is one of those its packet's record lists.
WireRecorded ==
  \A p \in wire : p[2] >= 1 /\ (p[1] \in Recorded => p[2] <= Len(msgRecords[p[1]]))

AckPcs == {"delete", "minseq", "signal", "report"}

\* Where the two workers are, as long as the process runs.
WorkersInv ==
  fatal = "no" =>
    /\ sndPc = "picked" => packetState[sndSeq] \in {"QUEUED", "LOST"} /\ rcvPc \notin AckPcs
    /\ sndPc = "sendto" => /\ Len(msgRecords[sndSeq]) >= 1
                           /\ <<sndSeq, Len(msgRecords[sndSeq])>> \notin wire
                           /\ ~(rcvPc = "delete" /\ rcvSeq = sndSeq)
    /\ rcvPc = "delete" => packetState[rcvSeq] = "ACKED"

TrackerInv == /\ FreshUnused /\ RecordShape /\ IdsUnique /\ WireRecorded /\ WorkersInv
              /\ NoPacketForgotten /\ NoStaleTimer /\ PayloadAlive

\* cur_min_seq_ is NULL only before the first packet, or just after the last record
\* was deleted, in which case ProcessAck is about to dereference it.
MinSeqPresent ==
  fatal = "no" /\ rcvPc # "minseq" /\ curMinSeq = NULL =>
    Recorded = {} /\ appPc \notin {"compare", "record"}

SafeInv == TypeInv /\ Allocation /\ TrackerInv /\ MinSeqPresent

\* The strengthened invariant holds when connect() has just set up the sender.
LEMMA InitSafeInv == Init => SafeInv
  <1> SUFFICES ASSUME Init PROVE SafeInv
    OBVIOUS
  <1>1. TypeInv
    BY InitTypeInv
  <1>2. Allocation
    BY DEF Init, Allocation, Pos, incseq, SeqNos
  <1>3. TrackerInv
    BY DEF Init, TrackerInit, TrackerInv, FreshUnused, RecordShape, IdsUnique, WireRecorded,
           WorkersInv, NoPacketForgotten, NoStaleTimer, PayloadAlive
  <1>4. MinSeqPresent
    BY DEF Init, TrackerInit, MinSeqPresent, Recorded
  <1> QED
    BY <1>1, <1>2, <1>3, <1>4 DEF SafeInv

-----------------------------------------------------------------------------
(* Sequence numbers are handed out one after the other. *)

\* incseq goes to the next position after ISN, and a position determines its number.
LEMMA PosStep ==
  ASSUME NEW s \in SeqNos
  PROVE  /\ Pos(s) \in 0 .. MaxSeqNo
         /\ Pos(s) < MaxSeqNo => Pos(incseq(s)) = Pos(s) + 1
         /\ \A t \in SeqNos : Pos(s) = Pos(t) => s = t
  BY DEF Pos, incseq, SeqNos

\* Steps outside GetNextSeqNo and send() keep the allocation of numbers.
LEMMA AllocationFrame ==
  Allocation /\ UNCHANGED <<appVars, sndCurrSeqNo, enqueued>> => Allocation'
  BY DEF Allocation, appVars

\* send() hands out every sequence number once, in order.
LEMMA AppAllocation == TypeInv /\ Allocation /\ App => Allocation'
  <1> SUFFICES ASSUME TypeInv, Allocation, App PROVE Allocation'
    OBVIOUS
  <1> USE DEF Allocation, AppAt
  <1>1. appLen \in Nat /\ appQueued \in Nat /\ enqueued \in Nat /\ MaxEnqueued \in Nat
    BY DEF TypeInv, AppType, HistType
  <1>2. ASSUME NEW len \in SendLens, NEW mode \in SendModes, SendCall(len, mode) PROVE Allocation'
    BY <1>1, <1>2 DEF SendCall, udtVars, histVars
  <1>3. CASE SendEntry \/ SendLoop \/ SendWait \/ SendTimeout \/ SendRecheck
    <2>1. UNCHANGED <<appLen, appQueued, sndCurrSeqNo, enqueued>>
      BY <1>3 DEF SendEntry, SendLoop, SendWait, SendTimeout, SendRecheck, SendGoto, SendThrow,
                  udtVars, histVars
    <2>2. /\ appPc \in {"entry", "loop", "prewait", "waiting", "recheck"}
          /\ appPc' \in {"idle", "loop", "prewait", "waiting", "recheck", "next"}
      BY <1>3 DEF SendEntry, SendLoop, SendWait, SendTimeout, SendRecheck, SendGoto, SendThrow
    <2> QED
      BY <2>1, <2>2
  <1>4. CASE SendNext
    <2>1. UNCHANGED <<appLen, appQueued, enqueued>> /\ sndCurrSeqNo' = incseq(sndCurrSeqNo)
      BY <1>4 DEF SendNext, SendGoto, histVars
    <2>2. appPc = "next" /\ appPc' \in {"compare", "record"}
      BY <1>4 DEF SendNext, SendGoto
    <2> QED
      BY <2>1, <2>2
  <1>5. CASE SendCompare
    <2>1. UNCHANGED <<appLen, appQueued, enqueued, sndCurrSeqNo>>
      BY <1>5 DEF SendCompare, SendGoto, histVars, udtVars
    <2>2. appPc = "compare" /\ appPc' = "record"
      BY <1>5 DEF SendCompare, SendGoto
    <2> QED
      BY <2>1, <2>2
  <1>6. CASE SendRecord
    <2>1. sndCurrSeqNo \in SeqNos /\ UNCHANGED sndCurrSeqNo
      BY <1>6 DEF SendRecord, TypeInv, NextAllocated, udtVars
    <2>2. enqueued < MaxSeqNo
      BY <1>1, <1>6 DEF SendRecord
    <2>3. Pos(incseq(sndCurrSeqNo)) = enqueued + 1
      BY <1>6, <2>1, <2>2, PosStep DEF SendRecord
    <2> QED
      BY <1>1, <1>6, <2>1, <2>3 DEF SendRecord
  <1>7. CASE SendFinish
    BY <1>7, <1>1 DEF SendFinish, histVars
  <1> QED
    BY <1>2, <1>3, <1>4, <1>5, <1>6, <1>7 DEF App

-----------------------------------------------------------------------------
(* Steps that leave the tracker's records and queues alone. *)

\* A step that keeps the records and queues keeps the tracker's invariant.
LEMMA TrackerFrame ==
  ASSUME TrackerInv,
         UNCHANGED <<packetState, msgRecords, queueVars, prevPacketId, sndVars, wire, enqueued>>,
         fatal' = "no" => fatal = "no",
         \/ UNCHANGED <<rcvPc, rcvSeq>>
         \/ /\ rcvPc # "delete" /\ rcvPc' # "delete"
            /\ rcvPc' \in AckPcs => rcvPc \in AckPcs
  PROVE  TrackerInv'
  <1> USE DEF TrackerInv, queueVars, sndVars, Recorded
  <1>1. FreshUnused' /\ RecordShape'
    BY DEF FreshUnused, RecordShape
  <1>2. IdsUnique'
    BY DEF IdsUnique
  <1>3. WireRecorded'
    BY DEF WireRecorded
  <1>4. WorkersInv'
    BY DEF WorkersInv
  <1>5. NoPacketForgotten'
    BY DEF NoPacketForgotten, LastId
  <1>6. NoStaleTimer' /\ PayloadAlive'
    BY DEF NoStaleTimer, PayloadAlive, LastId
  <1> QED
    BY <1>1, <1>2, <1>3, <1>4, <1>5, <1>6

-----------------------------------------------------------------------------
(* The application thread. *)

\* EnqueuePacket adds a QUEUED record under a number that was free.
LEMMA RecordTracker == SafeInv /\ SendRecord => TrackerInv'
  <1> SUFFICES ASSUME SafeInv, SendRecord PROVE TrackerInv'
    OBVIOUS
  <1> DEFINE seq == sndCurrSeqNo
  <1>1. seq \in SeqNos /\ Pos(seq) = enqueued /\ enqueued' = enqueued + 1 /\ enqueued \in Nat
    BY DEF SafeInv, TypeInv, NextAllocated, Allocation, SendRecord, AppAt, HistType
  <1>2. seq \notin Recorded
    BY <1>1 DEF SafeInv, TrackerInv, FreshUnused, Recorded
  <1>3. /\ packetState' = [packetState EXCEPT ![seq] = "QUEUED"]
        /\ msgRecords' = [msgRecords EXCEPT ![seq] = << >>]
        /\ sendQueue' = sendQueue \cup {seq}
        /\ UNCHANGED <<retransmittableQueue, sentQueue, sentTimeMap, prevPacketId, fatal>>
        /\ UNCHANGED <<sndPc, sndSeq, rcvPc, rcvSeq, wire>>
    BY <1>2 DEF SendRecord, EnqueueRecord, sndVars, rcvVars
  <1>4. \A s \in SeqNos : Pos(s) \in Nat /\ (s # seq => Pos(s) # Pos(seq))
    BY <1>1, PosStep
  <1>5. /\ packetState[seq] = "NONE" /\ seq \notin sendQueue /\ seq \notin retransmittableQueue
        /\ \A p \in wire : p[1] # seq
    BY <1>1 DEF SafeInv, TrackerInv, FreshUnused
  <1>6. /\ packetState \in [SeqNos -> PacketStates] /\ msgRecords \in [SeqNos -> Seq(Nat)]
        /\ sndSeq \in SeqNos /\ rcvSeq \in SeqNos /\ wire \subseteq SeqNos \X Nat
        /\ sentTimeMap \subseteq (1 .. prevPacketId) \X SeqNos
    BY DEF SafeInv, TypeInv, TrackerType, SndType, RcvType, HistType
  <1>7. TrackerInv
    BY DEF SafeInv
  <1>8. /\ \A s \in SeqNos \ {seq} : packetState'[s] = packetState[s] /\ msgRecords'[s] = msgRecords[s]
        /\ packetState'[seq] = "QUEUED" /\ msgRecords'[seq] = << >> /\ Len(msgRecords'[seq]) = 0
    BY <1>1, <1>3, <1>6
  <1> HIDE DEF seq
  <1> USE DEF TrackerInv
  <1>9. FreshUnused'
    BY <1>1, <1>3, <1>4, <1>7, <1>8 DEF FreshUnused
  <1>10. RecordShape'
    BY <1>3, <1>5, <1>7, <1>8 DEF RecordShape
  <1>11. IdsUnique'
    BY <1>3, <1>7, <1>8 DEF IdsUnique
  <1>12. WireRecorded'
    BY <1>3, <1>5, <1>6, <1>7, <1>8 DEF WireRecorded, Recorded
  <1>13. WorkersInv'
    BY <1>3, <1>5, <1>6, <1>7, <1>8 DEF WorkersInv, PayloadAlive, RecordShape
  <1>14. NoPacketForgotten'
    BY <1>3, <1>5, <1>7, <1>8 DEF NoPacketForgotten, LastId
  <1>15. NoStaleTimer'
    BY <1>3, <1>5, <1>6, <1>7, <1>8 DEF NoStaleTimer, LastId
  <1>16. PayloadAlive'
    BY <1>3, <1>6, <1>7, <1>8 DEF PayloadAlive
  <1> QED
    BY <1>9, <1>10, <1>11, <1>12, <1>13, <1>14, <1>15, <1>16

\* No step of send() breaks the tracker's books.
LEMMA AppTracker == SafeInv /\ App => TrackerInv'
  <1> SUFFICES ASSUME SafeInv, App PROVE TrackerInv'
    OBVIOUS
  <1>1. CASE SendRecord
    BY <1>1, RecordTracker
  <1>2. CASE ~SendRecord
    <2>1. UNCHANGED <<packetState, msgRecords, queueVars, prevPacketId, sndVars, rcvVars, wire, enqueued>>
      BY <1>2 DEF App, SendCall, SendEntry, SendLoop, SendWait, SendTimeout, SendRecheck, SendNext,
                  SendCompare, SendFinish, EnqueueMinAbsent, EnqueueMinPresent, EnqueueMinCompare,
                  Segfault, trackerVars, histVars
    <2>2. fatal = "no"
      BY <1>2 DEF App, SendCall, SendEntry, SendLoop, SendWait, SendTimeout, SendRecheck, SendNext,
                  SendCompare, SendFinish, AppAt
    <2>3. TrackerInv
      BY DEF SafeInv
    <2> QED
      BY <2>1, <2>2, <2>3, TrackerFrame DEF rcvVars
  <1> QED
    BY <1>1, <1>2

-----------------------------------------------------------------------------
(* The send-queue worker. *)

\* The pop loops of packData drop only entries without a record, and what they
\* leave on top has one.
LEMMA PurgedKeeps ==
  ASSUME TypeInv, NEW Q \in SUBSET SeqNos
  PROVE  /\ Purged(Q) \subseteq Q
         /\ \A s \in Q : s \in Recorded => s \in Purged(Q)
         /\ \A s \in Purged(Q) : IsTop(s, Purged(Q)) => s \in Recorded
  <1>1. Purged(Q) \subseteq Q
    BY DEF Purged
  <1>2. \A s \in Q : s \in Int /\ s <= s
    BY DEF SeqNos
  <1>3. \A s \in Q : s \in Recorded => s \in Purged(Q)
    BY <1>2 DEF Purged
  <1>4. ASSUME NEW s \in Purged(Q), IsTop(s, Purged(Q)) PROVE s \in Recorded
    <2>1. PICK t \in Q : t <= s /\ t \in Recorded
      BY <1>4 DEF Purged
    <2>2. s <= t
      BY <2>1, <1>3, <1>4 DEF IsTop
    <2> QED
      BY <2>1, <2>2, <1>1, <1>2
  <1> QED
    BY <1>1, <1>3, <1>4

\* The pop loops and the choice of packData lose no packet.
LEMMA PickTracker == SafeInv /\ (PackRetransmission \/ PackNewPacket) => TrackerInv'
  <1> SUFFICES ASSUME SafeInv, PackRetransmission \/ PackNewPacket PROVE TrackerInv'
    OBVIOUS
  <1>1. TrackerInv /\ TypeInv
    BY DEF SafeInv
  <1>2. /\ UNCHANGED <<packetState, msgRecords, sentQueue, sentTimeMap, prevPacketId, fatal,
                       rcvVars, histVars>>
        /\ sndPc' = "picked"
        /\ rcvPc \notin AckPcs
    BY DEF PackRetransmission, PackNewPacket, PccLockFree, AckPcs
  <1>3. retransmittableQueue \in SUBSET SeqNos /\ sendQueue \in SUBSET SeqNos
    BY <1>1 DEF TypeInv, TrackerType
  <1>4. /\ sendQueue' \subseteq sendQueue /\ retransmittableQueue' \subseteq retransmittableQueue
        /\ \A s \in Recorded : /\ s \in sendQueue => s \in sendQueue'
                               /\ s \in retransmittableQueue => s \in retransmittableQueue'
    BY <1>1, <1>3, PurgedKeeps DEF PackRetransmission, PackNewPacket
  <1>5. /\ sndSeq' \in Recorded /\ sndSeq' \in SeqNos
        /\ packetState[sndSeq'] \in {"QUEUED", "LOST", "ACKED"}
    <2>1. CASE PackRetransmission
      <3>1. sndSeq' \in Recorded /\ sndSeq' \in retransmittableQueue
        BY <2>1, <1>1, <1>3, PurgedKeeps DEF PackRetransmission
      <3> QED
        BY <3>1, <1>1 DEF TrackerInv, RecordShape, Recorded
    <2>2. CASE PackNewPacket
      <3>1. sndSeq' \in Recorded /\ sndSeq' \in sendQueue
        BY <2>2, <1>1, <1>3, PurgedKeeps DEF PackNewPacket
      <3> QED
        BY <3>1, <1>1 DEF TrackerInv, RecordShape, Recorded
    <2> QED
      BY <2>1, <2>2
  <1>6. packetState[sndSeq'] \in {"QUEUED", "LOST"}
    BY <1>1, <1>2, <1>5 DEF TrackerInv, NoPacketForgotten, AckPcs
  <1> USE DEF TrackerInv, rcvVars, histVars
  <1>7. FreshUnused' /\ IdsUnique' /\ WireRecorded'
    BY <1>1, <1>2, <1>4 DEF FreshUnused, IdsUnique, WireRecorded, Recorded
  <1>8. RecordShape'
    BY <1>1, <1>2, <1>4 DEF RecordShape, Recorded
  <1>9. WorkersInv'
    BY <1>1, <1>2, <1>6 DEF WorkersInv
  <1>10. NoPacketForgotten'
    BY <1>1, <1>2, <1>4 DEF NoPacketForgotten, Recorded, LastId
  <1>11. NoStaleTimer' /\ PayloadAlive'
    BY <1>1, <1>2, <1>6 DEF NoStaleTimer, PayloadAlive, LastId
  <1> QED
    BY <1>7, <1>8, <1>9, <1>10, <1>11

\* OnPacketSent replaces the old transmission of the packet by the new one, with its timer.
LEMMA CommitTracker == SafeInv /\ PackCommit => TrackerInv'
  <1> SUFFICES ASSUME SafeInv, PackCommit PROVE TrackerInv'
    OBVIOUS
  <1>1. /\ TrackerInv /\ TypeInv
        /\ fatal = "no" /\ sndPc = "picked" /\ sndPc' = "sendto"
        /\ UNCHANGED <<sndSeq, rcvVars, enqueued, wire>>
    BY DEF SafeInv, PackCommit, SndAt
  <1> USE DEF TrackerInv, rcvVars
  <1>2. CASE ExitProcess
    <2>1. /\ UNCHANGED <<packetState, msgRecords, queueVars, prevPacketId>>
          /\ fatal' = "exit"
      BY <1>2 DEF ExitProcess
    <2>2. FreshUnused' /\ RecordShape' /\ IdsUnique' /\ WireRecorded' /\ WorkersInv'
      BY <1>1, <2>1 DEF FreshUnused, RecordShape, IdsUnique, WireRecorded, WorkersInv, queueVars,
                        Recorded
    <2>3. NoPacketForgotten' /\ NoStaleTimer' /\ PayloadAlive'
      BY <1>1, <2>1 DEF NoPacketForgotten, NoStaleTimer, PayloadAlive, queueVars, LastId
    <2> QED
      BY <2>2, <2>3
  <1>3. CASE ~ExitProcess
    <2> DEFINE seq == sndSeq
               id == prevPacketId + 1
    <2>1. /\ prevPacketId' = id
          /\ packetState' = [packetState EXCEPT ![seq] = "SENT"]
          /\ msgRecords' = [msgRecords EXCEPT ![seq] = Append(@, id)]
          /\ sentQueue' = sentQueue \cup {id}
          /\ sentTimeMap' = sentTimeMap \cup {<<id, seq>>}
          /\ IF packetState[seq] = "QUEUED"
             THEN sendQueue' = sendQueue \ {seq} /\ UNCHANGED retransmittableQueue
             ELSE retransmittableQueue' = retransmittableQueue \ {seq} /\ UNCHANGED sendQueue
          /\ UNCHANGED fatal
      BY <1>3 DEF PackCommit, OnPacketSent
    <2>2. /\ packetState \in [SeqNos -> PacketStates] /\ msgRecords \in [SeqNos -> Seq(Nat)]
          /\ seq \in SeqNos /\ rcvSeq \in SeqNos /\ wire \subseteq SeqNos \X Nat
          /\ sentTimeMap \subseteq (1 .. prevPacketId) \X SeqNos
          /\ prevPacketId \in Nat /\ enqueued \in Nat
      BY <1>1 DEF TypeInv, TrackerType, SndType, RcvType, HistType
    <2>3. packetState[seq] \in {"QUEUED", "LOST"} /\ rcvPc \notin AckPcs
      BY <1>1 DEF WorkersInv
    <2>4. /\ \A s \in SeqNos \ {seq} : packetState'[s] = packetState[s] /\ msgRecords'[s] = msgRecords[s]
          /\ packetState'[seq] = "SENT"
          /\ msgRecords'[seq] = Append(msgRecords[seq], id)
      BY <2>1, <2>2
    <2>5. /\ \A s \in SeqNos : Len(msgRecords[s]) \in Nat
          /\ Len(msgRecords'[seq]) = Len(msgRecords[seq]) + 1
          /\ msgRecords'[seq][Len(msgRecords[seq]) + 1] = id
          /\ \A i \in 1 .. Len(msgRecords[seq]) : msgRecords'[seq][i] = msgRecords[seq][i]
      BY <2>2, <2>4
    <2>6. \A s \in SeqNos : s # seq => (s \in sendQueue' <=> s \in sendQueue) /\
                                       (s \in retransmittableQueue' <=> s \in retransmittableQueue)
      BY <2>1
    <2>7. seq \notin sendQueue' /\ seq \notin retransmittableQueue'
      BY <2>1, <2>2, <2>3, <1>1 DEF RecordShape
    <2>8. Pos(seq) < enqueued
      <3>1. Pos(seq) \in Nat
        BY <2>2, PosStep
      <3>2. ~(Pos(seq) >= enqueued)
        BY <1>1, <2>2, <2>3 DEF FreshUnused
      <3> QED
        BY <2>2, <3>1, <3>2
    <2> HIDE DEF seq, id
    <2>9. FreshUnused'
      <3> SUFFICES ASSUME NEW s \in SeqNos, Pos(s) >= enqueued
                   PROVE  /\ packetState'[s] = "NONE"
                          /\ s \notin sendQueue' /\ s \notin retransmittableQueue'
                          /\ \A p \in wire : p[1] # s
        BY <1>1 DEF FreshUnused
      <3>1. s # seq
        BY <2>2, <2>8, PosStep
      <3> QED
        BY <3>1, <1>1, <2>4, <2>6 DEF FreshUnused
    <2>10. RecordShape'
      BY <1>1, <2>2, <2>4, <2>5, <2>6, <2>7 DEF RecordShape
    <2>11. IdsUnique'
      <3> DEFINE New(s, i) == s = seq /\ i = Len(msgRecords[seq]) + 1 /\ msgRecords'[s][i] = id
                 Old(s, i) == i \in 1 .. Len(msgRecords[s]) /\ msgRecords'[s][i] = msgRecords[s][i]
      <3>1. ASSUME NEW s \in SeqNos, NEW i \in 1 .. Len(msgRecords'[s])
            PROVE  New(s, i) \/ Old(s, i)
        <4>1. CASE s # seq
          BY <4>1, <2>4
        <4>2. CASE s = seq
          <5>1. i \in 1 .. Len(msgRecords[seq]) + 1
            BY <4>2, <2>5
          <5>2. i = Len(msgRecords[seq]) + 1 \/ i \in 1 .. Len(msgRecords[seq])
            BY <5>1, <2>2, <2>5
          <5> QED
            BY <5>2, <4>2, <2>5
        <4> QED
          BY <4>1, <4>2
      <3> SUFFICES ASSUME NEW s \in SeqNos, NEW t \in SeqNos,
                          NEW i \in 1 .. Len(msgRecords'[s]), NEW j \in 1 .. Len(msgRecords'[t])
                   PROVE  /\ msgRecords'[s][i] \in 1 .. prevPacketId'
                          /\ msgRecords'[s][i] = msgRecords'[t][j] => s = t /\ i = j
        BY DEF IdsUnique
      <3>2. (New(s, i) \/ Old(s, i)) /\ (New(t, j) \/ Old(t, j))
        BY <3>1
      <3>3. /\ Old(s, i) => msgRecords'[s][i] \in 1 .. prevPacketId
            /\ Old(t, j) => msgRecords'[t][j] \in 1 .. prevPacketId
            /\ Old(s, i) /\ Old(t, j) /\ msgRecords'[s][i] = msgRecords'[t][j] => s = t /\ i = j
        BY <1>1 DEF IdsUnique
      <3>4. id \in 1 .. prevPacketId' /\ id \notin 1 .. prevPacketId
            /\ \A k \in 1 .. prevPacketId : k \in 1 .. prevPacketId'
        BY <2>1, <2>2 DEF id
      <3>5. New(s, i) => msgRecords'[s][i] = id
        OBVIOUS
      <3>6. New(t, j) => msgRecords'[t][j] = id
        OBVIOUS
      <3>7. New(s, i) /\ New(t, j) => s = t /\ i = j
        OBVIOUS
      <3> HIDE DEF New, Old
      <3> QED
        BY <3>2, <3>3, <3>4, <3>5, <3>6, <3>7
    <2>12. WireRecorded'
      <3>1. ASSUME NEW s \in SeqNos
            PROVE  Len(msgRecords'[s]) \in Nat /\ Len(msgRecords'[s]) >= Len(msgRecords[s])
        <4>1. Len(msgRecords'[s]) \in {Len(msgRecords[s]), Len(msgRecords[s]) + 1}
          BY <2>4, <2>5
        <4>2. Len(msgRecords[s]) \in Nat
          BY <2>5
        <4> QED
          BY <4>1, <4>2
      <3>2. seq \in Recorded /\ \A s \in SeqNos : s \in Recorded' => s \in Recorded
        BY <2>2, <2>3, <2>4 DEF Recorded
      <3> SUFFICES ASSUME NEW p \in wire
                   PROVE  p[2] >= 1 /\ (p[1] \in Recorded' => p[2] <= Len(msgRecords'[p[1]]))
        BY <1>1 DEF WireRecorded
      <3>3. p[1] \in SeqNos /\ p[2] \in Nat
        BY <2>2
      <3>4. p[2] >= 1 /\ (p[1] \in Recorded => p[2] <= Len(msgRecords[p[1]]))
        BY <1>1 DEF WireRecorded
      <3> QED
        BY <3>1, <3>2, <3>3, <3>4, <2>5
    <2>13. <<seq, Len(msgRecords'[seq])>> \notin wire
      <3> SUFFICES ASSUME <<seq, Len(msgRecords'[seq])>> \in wire PROVE FALSE
        OBVIOUS
      <3>1. seq \in Recorded
        BY <2>2, <2>3 DEF Recorded
      <3>2. Len(msgRecords'[seq]) <= Len(msgRecords[seq])
        BY <1>1, <3>1 DEF WireRecorded
      <3> QED
        BY <3>2, <2>2, <2>5
    <2>14. WorkersInv'
      BY <1>1, <2>2, <2>3, <2>5, <2>13 DEF WorkersInv, AckPcs, seq
    <2>15. NoPacketForgotten'
      BY <1>1, <2>1, <2>2, <2>3, <2>4, <2>5, <2>6 DEF NoPacketForgotten, LastId
    <2>16. NoStaleTimer'
      <3> SUFFICES ASSUME NEW p \in sentTimeMap'
                   PROVE  packetState'[p[2]] = "SENT" /\ p[1] = LastId(p[2])'
        BY DEF NoStaleTimer
      <3>1. CASE p = <<id, seq>>
        BY <3>1, <2>2, <2>4, <2>5 DEF LastId
      <3>2. CASE p \in sentTimeMap
        <4>1. p[2] \in SeqNos /\ packetState[p[2]] = "SENT" /\ p[1] = LastId(p[2])
          BY <3>2, <1>1, <2>2 DEF NoStaleTimer
        <4>2. p[2] # seq
          BY <4>1, <2>3
        <4> QED
          BY <4>1, <4>2, <2>4 DEF LastId
      <3> QED
        BY <3>1, <3>2, <2>1
    <2>17. PayloadAlive'
      BY <1>1, <2>4 DEF PayloadAlive, seq
    <2> QED
      BY <2>9, <2>10, <2>11, <2>12, <2>14, <2>15, <2>16, <2>17
  <1> QED
    BY <1>2, <1>3

\* The datagram leaves after packData; nothing in the tracker changes.
LEMMA TransmitTracker == SafeInv /\ Transmit => TrackerInv'
  <1> SUFFICES ASSUME SafeInv, Transmit PROVE TrackerInv'
    OBVIOUS
  <1> DEFINE last == Len(msgRecords[sndSeq])
  <1>1. /\ TrackerInv /\ TypeInv
        /\ fatal = "no" /\ sndPc = "sendto" /\ sndPc' = "idle"
        /\ wire' = wire \cup {<<sndSeq, last>>}
        /\ UNCHANGED <<trackerVars, rcvVars, sndSeq, enqueued>>
    BY DEF SafeInv, Transmit, SndAt, GetPacketLastMsgNo
  <1>2. sndSeq \in SeqNos /\ last \in Nat /\ last >= 1 /\ packetState[sndSeq] # "NONE" /\ enqueued \in Nat
    BY <1>1 DEF TypeInv, TrackerType, SndType, HistType, TrackerInv, WorkersInv, PayloadAlive
  <1> HIDE DEF last
  <1> USE DEF TrackerInv, trackerVars, queueVars, rcvVars
  <1>3. FreshUnused'
    BY <1>1, <1>2 DEF FreshUnused
  <1>4. RecordShape' /\ IdsUnique'
    BY <1>1 DEF RecordShape, IdsUnique
  <1>5. WireRecorded'
    BY <1>1, <1>2 DEF WireRecorded, Recorded, last
  <1>6. WorkersInv' /\ PayloadAlive'
    BY <1>1 DEF WorkersInv, PayloadAlive
  <1>7. NoPacketForgotten' /\ NoStaleTimer'
    BY <1>1 DEF NoPacketForgotten, NoStaleTimer, LastId
  <1> QED
    BY <1>3, <1>4, <1>5, <1>6, <1>7

\* No step of the send-queue worker breaks the tracker's books.
LEMMA SndTracker == SafeInv /\ Snd => TrackerInv'
  BY PickTracker, CommitTracker, TransmitTracker DEF Snd

-----------------------------------------------------------------------------
(* The receive-queue worker. *)

\* OnPacketAck disarms the timer of the acknowledged transmission and of no other.
LEMMA AckTracker ==
  ASSUME SafeInv, NEW p \in wire, ProcessAck(p[1], p[2])
  PROVE  TrackerInv'
  <1> DEFINE seq == p[1]
             msg == p[2]
  <1>1. /\ TrackerInv /\ TypeInv
        /\ fatal = "no" /\ rcvPc = "recv" /\ sndPc # "picked"
        /\ UNCHANGED <<sndVars, enqueued, wire>>
    BY DEF SafeInv, ProcessAck, RcvAt, PccLockFree, histVars
  <1>2. seq \in SeqNos /\ msg \in Nat
    BY <1>1 DEF TypeInv, HistType
  <1>3. CASE seq \notin Recorded
    <2>1. GetPacketLastMsgNo(seq) = 0
      BY <1>1, <1>2, <1>3 DEF TrackerInv, RecordShape, Recorded, GetPacketLastMsgNo
    <2>2. msg # GetPacketLastMsgNo(seq)
      BY <1>1, <1>2, <2>1 DEF TrackerInv, WireRecorded
    <2>3. UNCHANGED trackerVars /\ rcvPc' = "timers"
      BY <1>3, <2>2 DEF ProcessAck, OnPacketAck, RcvGoto
    <2> QED
      BY <1>1, <2>3, TrackerFrame DEF trackerVars, AckPcs
  <1>4. CASE seq \in Recorded
    <2>1. HasMessage(seq, msg)
      BY <1>1, <1>2, <1>4 DEF HasMessage, TrackerInv, WireRecorded
    <2> DEFINE id == msgRecords[seq][msg]
               last == Len(msgRecords[seq])
    <2>2. /\ sentTimeMap' = {q \in sentTimeMap : q[1] # id}
          /\ packetState' = IF msg = last THEN [packetState EXCEPT ![seq] = "ACKED"] ELSE packetState
          /\ UNCHANGED <<msgRecords, sendQueue, retransmittableQueue, sentQueue, prevPacketId, fatal>>
          /\ IF msg = last THEN rcvPc' = "delete" /\ rcvSeq' = seq ELSE rcvPc' = "timers"
      BY <1>1, <1>4, <2>1 DEF ProcessAck, OnPacketAck, CancelTimer, UpdateRecord, GetPacketLastMsgNo,
                              RcvGoto
    <2>3. /\ packetState \in [SeqNos -> PacketStates] /\ msgRecords \in [SeqNos -> Seq(Nat)]
          /\ sndSeq \in SeqNos /\ wire \subseteq SeqNos \X Nat
          /\ sentTimeMap \subseteq (1 .. prevPacketId) \X SeqNos
          /\ enqueued \in Nat /\ last \in Nat /\ msg \in 1 .. last
      BY <1>1, <1>2, <2>1 DEF TypeInv, TrackerType, SndType, RcvType, HistType, HasMessage
    <2>4. packetState[seq] \in {"SENT", "LOST"}
      <3>1. packetState[seq] \in PacketStates /\ Len(msgRecords[seq]) # 0
        BY <1>2, <2>3
      <3>2. packetState[seq] \notin {"NONE", "QUEUED"}
        BY <1>1, <1>2, <3>1 DEF TrackerInv, RecordShape
      <3>3. packetState[seq] # "ACKED"
        BY <1>1, <1>2 DEF TrackerInv, NoPacketForgotten
      <3> QED
        BY <3>1, <3>2, <3>3 DEF PacketStates
    <2>5. /\ \A s \in SeqNos \ {seq} : packetState'[s] = packetState[s]
          /\ packetState'[seq] = IF msg = last THEN "ACKED" ELSE packetState[seq]
      BY <1>2, <2>2, <2>3
    <2>6. Recorded' = Recorded
      BY <1>2, <2>4, <2>5 DEF Recorded
    <2>7. \A s \in SeqNos, i \in Nat : i \in 1 .. Len(msgRecords[s]) /\ msgRecords[s][i] = id => s = seq /\ i = msg
      BY <1>1, <1>2, <2>3 DEF TrackerInv, IdsUnique
    <2>8. p \in wire /\ p = <<seq, msg>>
      BY <2>3
    <2> HIDE DEF seq, msg, id, last
    <2> USE DEF TrackerInv, sndVars
    <2>9. FreshUnused'
      BY <1>1, <1>2, <2>2, <2>4, <2>5 DEF FreshUnused
    <2>10. RecordShape'
      BY <1>1, <1>2, <2>2, <2>4, <2>5 DEF RecordShape
    <2>11. IdsUnique' /\ WireRecorded'
      BY <1>1, <2>2, <2>6 DEF IdsUnique, WireRecorded
    <2>12. WorkersInv'
      <3>1. sndPc = "sendto" /\ sndSeq = seq => msg # last
        BY <1>1, <2>8 DEF WorkersInv, last
      <3> QED
        BY <1>1, <1>2, <2>2, <2>5, <3>1 DEF WorkersInv
    <2>13. NoPacketForgotten'
      <3> SUFFICES ASSUME NEW s \in SeqNos
                   PROVE  /\ packetState'[s] = "QUEUED" => s \in sendQueue'
                          /\ packetState'[s] = "LOST" => s \in retransmittableQueue'
                          /\ packetState'[s] = "SENT" => LastId(s)' \in sentQueue' /\ <<LastId(s)', s>> \in sentTimeMap'
                          /\ packetState'[s] = "ACKED" => rcvPc' = "delete" /\ rcvSeq' = s
        BY DEF NoPacketForgotten
      <3>1. packetState'[s] = packetState[s] \/ (s = seq /\ msg = last /\ packetState'[s] = "ACKED")
        <4>1. CASE s = seq
          BY <4>1, <2>5
        <4>2. CASE s # seq
          BY <4>2, <2>5
        <4> QED
          BY <4>1, <4>2
      <3>2. packetState[s] # "ACKED"
        BY <1>1 DEF NoPacketForgotten
      <3>3. ASSUME packetState'[s] = "SENT"
            PROVE  LastId(s)' \in sentQueue' /\ <<LastId(s)', s>> \in sentTimeMap'
        <4>1. packetState[s] = "SENT" /\ ~(s = seq /\ msg = last)
          BY <3>3, <3>1, <2>5
        <4>2. LastId(s)' = LastId(s) /\ LastId(s) \in sentQueue /\ <<LastId(s), s>> \in sentTimeMap
          BY <4>1, <1>1, <2>2 DEF NoPacketForgotten, LastId
        <4>3. Len(msgRecords[s]) \in 1 .. Len(msgRecords[s]) /\ Len(msgRecords[s]) \in Nat
          <5>1. Len(msgRecords[s]) \in Nat
            BY <2>3
          <5>2. Len(msgRecords[s]) # 0
            BY <4>1, <1>1 DEF RecordShape
          <5> QED
            BY <5>1, <5>2
        <4>4. LastId(s) # id
          BY <4>1, <4>3, <2>7 DEF LastId, last
        <4> QED
          BY <4>2, <4>4, <2>2
      <3> QED
        BY <3>1, <3>2, <3>3, <1>1, <2>2 DEF NoPacketForgotten
    <2>14. NoStaleTimer'
      <3> SUFFICES ASSUME NEW q \in sentTimeMap'
                   PROVE  packetState'[q[2]] = "SENT" /\ q[1] = LastId(q[2])'
        BY DEF NoStaleTimer
      <3>1. /\ q \in sentTimeMap /\ q[2] \in SeqNos /\ q[1] # id
            /\ packetState[q[2]] = "SENT" /\ q[1] = LastId(q[2]) /\ LastId(q[2])' = LastId(q[2])
        BY <1>1, <2>2, <2>3 DEF NoStaleTimer, LastId
      <3>2. ~(q[2] = seq /\ msg = last)
        BY <3>1 DEF LastId, id, last
      <3> QED
        BY <3>1, <3>2, <2>5
    <2>15. PayloadAlive'
      BY <1>1, <2>3, <2>4, <2>5 DEF PayloadAlive
    <2> QED
      BY <2>9, <2>10, <2>11, <2>12, <2>13, <2>14, <2>15
  <1> QED
    BY <1>3, <1>4

\* ProcessAck deletes a record that exists, and cur_min_seq_ is not NULL then.
LEMMA DeleteSucceeds ==
  ASSUME SafeInv, AckDelete
  PROVE  /\ fatal = "no" /\ fatal' = "no" /\ rcvPc = "delete" /\ rcvPc' = "minseq"
         /\ rcvSeq \in SeqNos /\ packetState[rcvSeq] = "ACKED"
         /\ packetState' = [packetState EXCEPT ![rcvSeq] = "NONE"]
         /\ msgRecords' = [msgRecords EXCEPT ![rcvSeq] = << >>]
         /\ UNCHANGED <<queueVars, prevPacketId, rcvSeq, sndVars, enqueued, wire>>
  <1>1. fatal = "no" /\ rcvPc = "delete" /\ DeletePacketRecord(rcvSeq)
        /\ UNCHANGED <<sndVars, histVars, rcvSeq>> /\ rcvPc' = "minseq"
    BY DEF AckDelete, RcvAt, RcvGoto
  <1>2. rcvSeq \in SeqNos /\ packetState[rcvSeq] = "ACKED" /\ rcvSeq \in Recorded
    BY <1>1 DEF SafeInv, TypeInv, RcvType, TrackerInv, WorkersInv, Recorded
  <1>3. curMinSeq # NULL
    BY <1>1, <1>2 DEF SafeInv, MinSeqPresent
  <1> QED
    BY <1>1, <1>2, <1>3 DEF DeletePacketRecord, histVars

\* DeletePacketRecord removes the packet that was just acknowledged and no other.
LEMMA DeleteTracker == SafeInv /\ AckDelete => TrackerInv'
  <1> SUFFICES ASSUME SafeInv, AckDelete PROVE TrackerInv'
    OBVIOUS
  <1> DEFINE seq == rcvSeq
  <1>1. /\ fatal = "no" /\ fatal' = "no" /\ rcvPc = "delete" /\ rcvPc' = "minseq"
        /\ seq \in SeqNos /\ packetState[seq] = "ACKED"
        /\ packetState' = [packetState EXCEPT ![seq] = "NONE"]
        /\ msgRecords' = [msgRecords EXCEPT ![seq] = << >>]
        /\ UNCHANGED <<queueVars, prevPacketId, rcvSeq, sndVars, enqueued, wire>>
    BY DeleteSucceeds
  <1>2. TrackerInv /\ TypeInv
    BY DEF SafeInv
  <1>3. /\ packetState \in [SeqNos -> PacketStates] /\ msgRecords \in [SeqNos -> Seq(Nat)]
        /\ sndSeq \in SeqNos /\ wire \subseteq SeqNos \X Nat
        /\ sentTimeMap \subseteq (1 .. prevPacketId) \X SeqNos
    BY <1>2 DEF TypeInv, TrackerType, SndType, HistType
  <1>4. /\ \A s \in SeqNos \ {seq} : packetState'[s] = packetState[s] /\ msgRecords'[s] = msgRecords[s]
        /\ packetState'[seq] = "NONE" /\ msgRecords'[seq] = << >> /\ Len(msgRecords'[seq]) = 0
    BY <1>1, <1>3
  <1>5. sndPc # "picked" /\ ~(sndPc = "sendto" /\ sndSeq = seq)
    BY <1>1, <1>2 DEF TrackerInv, WorkersInv, AckPcs
  <1> HIDE DEF seq
  <1> USE DEF TrackerInv, queueVars, sndVars
  <1>6. FreshUnused'
    BY <1>1, <1>2, <1>4 DEF FreshUnused
  <1>7. RecordShape'
    BY <1>1, <1>2, <1>4 DEF RecordShape
  <1>8. IdsUnique'
    BY <1>1, <1>2, <1>4 DEF IdsUnique
  <1>9. WireRecorded'
    <2> SUFFICES ASSUME NEW p \in wire
                 PROVE  p[2] >= 1 /\ (p[1] \in Recorded' => p[2] <= Len(msgRecords'[p[1]]))
      BY <1>1 DEF WireRecorded
    <2>1. p[1] \in SeqNos /\ p[2] >= 1 /\ (p[1] \in Recorded => p[2] <= Len(msgRecords[p[1]]))
      BY <1>2, <1>3 DEF WireRecorded
    <2>2. p[1] \in Recorded' => p[1] # seq /\ p[1] \in Recorded
      BY <1>4 DEF Recorded
    <2> QED
      BY <2>1, <2>2, <1>4
  <1>10. WorkersInv'
    BY <1>1, <1>2, <1>3, <1>4, <1>5 DEF WorkersInv
  <1>11. NoPacketForgotten'
    BY <1>1, <1>2, <1>4 DEF NoPacketForgotten, LastId, seq
  <1>12. NoStaleTimer'
    <2> SUFFICES ASSUME NEW q \in sentTimeMap
                 PROVE  packetState'[q[2]] = "SENT" /\ q[1] = LastId(q[2])'
      BY <1>1 DEF NoStaleTimer
    <2>1. q[2] \in SeqNos /\ packetState[q[2]] = "SENT" /\ q[1] = LastId(q[2])
      BY <1>2, <1>3 DEF NoStaleTimer
    <2> QED
      BY <2>1, <1>1, <1>4 DEF LastId
  <1>13. PayloadAlive'
    BY <1>1, <1>2, <1>3, <1>4, <1>5 DEF PayloadAlive
  <1> QED
    BY <1>6, <1>7, <1>8, <1>9, <1>10, <1>11, <1>12, <1>13

\* The pop loop of GetOldestSentSeqNo keeps every armed timer.
LEMMA OldestTracker == SafeInv /\ OldestSent => TrackerInv'
  <1> SUFFICES ASSUME SafeInv, OldestSent PROVE TrackerInv'
    OBVIOUS
  <1>1. /\ TrackerInv /\ TypeInv
        /\ rcvPc = "timers" /\ rcvPc' = "oldest"
        /\ sentQueue' = SentPurged
        /\ UNCHANGED <<packetState, msgRecords, sendQueue, retransmittableQueue, sentTimeMap,
                       prevPacketId, fatal, sndVars, enqueued, wire>>
    BY DEF SafeInv, OldestSent, RcvAt, histVars
  <1>2. \A i \in sentQueue : i \in Nat
    BY <1>1 DEF TypeInv, TrackerType
  <1> USE DEF TrackerInv, sndVars
  <1>3. \A s \in SeqNos : LastId(s) \in sentQueue /\ <<LastId(s), s>> \in sentTimeMap => LastId(s) \in SentPurged
    <2> SUFFICES ASSUME NEW s \in SeqNos, LastId(s) \in sentQueue, <<LastId(s), s>> \in sentTimeMap
                 PROVE  LastId(s) \in SentPurged
      OBVIOUS
    <2>1. LastId(s) <= LastId(s)
      BY <1>2
    <2>2. <<LastId(s), s>>[1] = LastId(s)
      OBVIOUS
    <2> QED
      BY <2>1, <2>2 DEF SentPurged
  <1>4. FreshUnused' /\ RecordShape' /\ IdsUnique' /\ WireRecorded'
    BY <1>1 DEF FreshUnused, RecordShape, IdsUnique, WireRecorded, Recorded
  <1>5. WorkersInv'
    BY <1>1 DEF WorkersInv, AckPcs
  <1>6. NoPacketForgotten'
    BY <1>1, <1>3 DEF NoPacketForgotten, LastId
  <1>7. NoStaleTimer' /\ PayloadAlive'
    BY <1>1 DEF NoStaleTimer, PayloadAlive, LastId
  <1> QED
    BY <1>4, <1>5, <1>6, <1>7

\* add_to_loss_record moves a packet whose timer has expired to the retransmission queue.
LEMMA LossTracker == SafeInv /\ AddToLossRecord => TrackerInv'
  <1> SUFFICES ASSUME SafeInv, AddToLossRecord PROVE TrackerInv'
    OBVIOUS
  <1> DEFINE seq == rcvSeq
             last == Len(msgRecords[seq])
             id == msgRecords[seq][last]
  <1>1. /\ TrackerInv /\ TypeInv
        /\ fatal = "no" /\ rcvPc = "lost" /\ rcvPc' = "timers" /\ sndPc # "picked"
        /\ OnPacketLoss(seq, last)
        /\ UNCHANGED <<sndVars, enqueued, wire>>
    BY DEF SafeInv, AddToLossRecord, RcvAt, RcvGoto, PccLockFree, GetPacketLastMsgNo
  <1>2. CASE UNCHANGED trackerVars \/ ExitProcess
    BY <1>1, <1>2, TrackerFrame DEF trackerVars, AckPcs, ExitProcess
  <1>3. CASE ~(UNCHANGED trackerVars \/ ExitProcess)
    <2>1. /\ seq \in Recorded /\ last \in 1 .. Len(msgRecords[seq])
          /\ sentTimeMap' = {q \in sentTimeMap : q[1] # id}
          /\ packetState' = [packetState EXCEPT ![seq] = "LOST"]
          /\ retransmittableQueue' = retransmittableQueue \cup {seq}
          /\ UNCHANGED <<msgRecords, sendQueue, sentQueue, prevPacketId, fatal>>
      BY <1>1, <1>3 DEF OnPacketLoss, HasMessage, CancelTimer, UpdateRecord, GetPacketLastMsgNo
    <2>2. /\ packetState \in [SeqNos -> PacketStates] /\ msgRecords \in [SeqNos -> Seq(Nat)]
          /\ seq \in SeqNos /\ sndSeq \in SeqNos /\ wire \subseteq SeqNos \X Nat
          /\ sentTimeMap \subseteq (1 .. prevPacketId) \X SeqNos
          /\ enqueued \in Nat /\ last \in Nat
      BY <1>1 DEF TypeInv, TrackerType, SndType, RcvType, HistType
    <2>3. packetState[seq] \in {"SENT", "LOST"}
      <3>1. packetState[seq] \in PacketStates /\ Len(msgRecords[seq]) # 0
        BY <2>1, <2>2
      <3>2. packetState[seq] \notin {"NONE", "QUEUED"}
        BY <1>1, <2>2, <3>1 DEF TrackerInv, RecordShape
      <3>3. packetState[seq] # "ACKED"
        BY <1>1, <2>2 DEF TrackerInv, NoPacketForgotten
      <3> QED
        BY <3>1, <3>2, <3>3 DEF PacketStates
    <2>4. /\ \A s \in SeqNos \ {seq} : packetState'[s] = packetState[s]
          /\ packetState'[seq] = "LOST"
      BY <2>1, <2>2
    <2>5. Recorded' = Recorded
      BY <2>1, <2>2, <2>4 DEF Recorded
    <2>6. \A s \in SeqNos, i \in Nat : i \in 1 .. Len(msgRecords[s]) /\ msgRecords[s][i] = id => s = seq
      BY <1>1, <2>1, <2>2 DEF TrackerInv, IdsUnique
    <2>7. Pos(seq) < enqueued
      <3>1. Pos(seq) \in Nat
        BY <2>2, PosStep
      <3>2. ~(Pos(seq) >= enqueued)
        BY <1>1, <2>2, <2>3 DEF TrackerInv, FreshUnused
      <3> QED
        BY <2>2, <3>1, <3>2
    <2> HIDE DEF seq, last, id
    <2> USE DEF TrackerInv, sndVars
    <2>8. FreshUnused'
      <3> SUFFICES ASSUME NEW s \in SeqNos, Pos(s) >= enqueued
                   PROVE  /\ packetState'[s] = "NONE"
                          /\ s \notin sendQueue' /\ s \notin retransmittableQueue'
                          /\ \A p \in wire : p[1] # s
        BY <1>1 DEF FreshUnused
      <3>1. s # seq
        BY <2>2, <2>7, PosStep
      <3> QED
        BY <3>1, <1>1, <2>1, <2>4 DEF FreshUnused
    <2>9. RecordShape'
      BY <1>1, <2>1, <2>2, <2>3, <2>4 DEF RecordShape
    <2>10. IdsUnique' /\ WireRecorded'
      BY <1>1, <2>1, <2>5 DEF IdsUnique, WireRecorded
    <2>11. WorkersInv'
      BY <1>1, <2>1 DEF WorkersInv, AckPcs
    <2>12. NoPacketForgotten'
      <3> SUFFICES ASSUME NEW s \in SeqNos
                   PROVE  /\ packetState'[s] = "QUEUED" => s \in sendQueue'
                          /\ packetState'[s] = "LOST" => s \in retransmittableQueue'
                          /\ packetState'[s] = "SENT" => LastId(s)' \in sentQueue' /\ <<LastId(s)', s>> \in sentTimeMap'
                          /\ packetState'[s] = "ACKED" => rcvPc' = "delete" /\ rcvSeq' = s
        BY DEF NoPacketForgotten
      <3>1. CASE s = seq
        BY <3>1, <2>1, <2>4
      <3>2. CASE s # seq
        <4>1. packetState'[s] = packetState[s] /\ LastId(s)' = LastId(s)
          BY <3>2, <2>1, <2>4 DEF LastId
        <4>2. packetState[s] = "SENT" => LastId(s) # id
          <5>1. Len(msgRecords[s]) \in Nat
            BY <2>2
          <5>2. packetState[s] = "SENT" => Len(msgRecords[s]) # 0
            BY <1>1 DEF RecordShape
          <5>3. packetState[s] = "SENT" => Len(msgRecords[s]) \in 1 .. Len(msgRecords[s])
            BY <5>1, <5>2
          <5> QED
            BY <5>1, <5>3, <3>2, <2>6 DEF LastId
        <4> QED
          BY <4>1, <4>2, <1>1, <2>1 DEF NoPacketForgotten
      <3> QED
        BY <3>1, <3>2
    <2>13. NoStaleTimer'
      <3> SUFFICES ASSUME NEW q \in sentTimeMap'
                   PROVE  packetState'[q[2]] = "SENT" /\ q[1] = LastId(q[2])'
        BY DEF NoStaleTimer
      <3>1. /\ q \in sentTimeMap /\ q[2] \in SeqNos /\ q[1] # id
            /\ packetState[q[2]] = "SENT" /\ q[1] = LastId(q[2]) /\ LastId(q[2])' = LastId(q[2])
        BY <1>1, <2>1, <2>2 DEF NoStaleTimer, LastId
      <3>2. q[2] # seq
        BY <3>1 DEF LastId, id, last
      <3> QED
        BY <3>1, <3>2, <2>4
    <2>14. PayloadAlive'
      BY <1>1, <2>2, <2>4 DEF PayloadAlive
    <2> QED
      BY <2>8, <2>9, <2>10, <2>11, <2>12, <2>13, <2>14
  <1> QED
    BY <1>2, <1>3

\* No step of the receive-queue worker breaks the tracker's books.
LEMMA RcvTracker == SafeInv /\ Rcv => TrackerInv'
  <1> SUFFICES ASSUME SafeInv, Rcv PROVE TrackerInv'
    OBVIOUS
  <1>1. ASSUME NEW p \in wire, ProcessAck(p[1], p[2]) PROVE TrackerInv'
    BY <1>1, AckTracker
  <1>2. CASE AckDelete
    BY <1>2, DeleteTracker
  <1>3. CASE OldestSent
    BY <1>3, OldestTracker
  <1>4. CASE AddToLossRecord
    BY <1>4, LossTracker
  <1>5. CASE AckMinSeq \/ AckSignal \/ AckReport \/ NoDatagram \/ TimersDone \/ OldestGone
             \/ OldestOverdue \/ OldestNotOverdue
    <2>1. /\ fatal = "no" /\ rcvPc # "delete" /\ rcvPc' # "delete"
          /\ rcvPc' \in AckPcs => rcvPc \in AckPcs
      BY <1>5 DEF AckMinSeq, AckSignal, AckReport, NoDatagram, TimersDone, OldestGone, OldestOverdue,
                  OldestNotOverdue, RcvAt, RcvGoto, AckPcs
    <2>2. UNCHANGED <<packetState, msgRecords, queueVars, prevPacketId, sndVars, wire, enqueued>>
      BY <1>5 DEF AckMinSeq, AckSignal, AckReport, NoDatagram, TimersDone, OldestGone, OldestOverdue,
                  OldestNotOverdue, Segfault, ExitProcess, trackerVars, histVars
    <2> QED
      BY <2>1, <2>2, TrackerFrame DEF SafeInv
  <1> QED
    BY <1>1, <1>2, <1>3, <1>4, <1>5 DEF Rcv

-----------------------------------------------------------------------------
(* cur_min_seq_. *)

\* cur_min_seq_ is affected only by new and deleted records.
LEMMA MinSeqFrame ==
  ASSUME MinSeqPresent, UNCHANGED curMinSeq, Recorded' \subseteq Recorded,
         fatal' = "no" => fatal = "no",
         rcvPc' # "minseq" => rcvPc # "minseq" \/ curMinSeq # NULL,
         appPc' \in {"compare", "record"} => appPc' = appPc
  PROVE  MinSeqPresent'
  BY DEF MinSeqPresent

\* EnqueuePacket sets cur_min_seq_, outside lock_, before it adds the record.
LEMMA AppMinSeq == SafeInv /\ App => MinSeqPresent'
  <1> SUFFICES ASSUME SafeInv, App PROVE MinSeqPresent'
    OBVIOUS
  <1>1. MinSeqPresent /\ TypeInv
    BY DEF SafeInv
  <1>2. CASE SendNext
    <2>1. sndCurrSeqNo' # NULL
      BY <1>1, <1>2 DEF TypeInv, UdtType, SendNext, incseq, SeqNos, NULL
    <2> QED
      BY <1>2, <2>1 DEF SendNext, EnqueueMinAbsent, EnqueueMinPresent, trackerVars, MinSeqPresent
  <1>3. CASE SendCompare
    <2>1. sndCurrSeqNo # NULL /\ appPc = "compare" /\ fatal = "no" /\ rcvPc' = rcvPc
      BY <1>1, <1>3 DEF TypeInv, NextAllocated, SendCompare, AppAt, SeqNos, NULL, rcvVars
    <2>2. CASE curMinSeq = NULL
      <3>1. rcvPc = "minseq"
        BY <1>1, <2>1, <2>2 DEF MinSeqPresent
      <3> QED
        BY <2>1, <3>1 DEF MinSeqPresent
    <2>3. CASE curMinSeq # NULL
      <3>1. curMinSeq' # NULL
        BY <1>3, <2>1, <2>3 DEF SendCompare, EnqueueMinCompare
      <3> QED
        BY <3>1 DEF MinSeqPresent
    <2> QED
      BY <2>2, <2>3
  <1>4. CASE SendRecord
    <2>1. appPc = "record" /\ fatal = "no" /\ rcvPc' = rcvPc /\ curMinSeq' = curMinSeq
      BY <1>4 DEF SendRecord, AppAt, rcvVars, EnqueueRecord, ExitProcess
    <2> QED
      BY <1>1, <2>1 DEF MinSeqPresent
  <1>5. CASE ~SendNext /\ ~SendCompare /\ ~SendRecord
    <2>1. /\ UNCHANGED <<trackerVars, rcvVars>>
          /\ appPc' \notin {"compare", "record"}
      BY <1>5 DEF App, SendCall, SendEntry, SendLoop, SendWait, SendTimeout, SendRecheck, SendFinish,
                  SendGoto, SendThrow
    <2> QED
      BY <1>1, <2>1, MinSeqFrame DEF trackerVars, rcvVars, Recorded
  <1> QED
    BY <1>2, <1>3, <1>4, <1>5

\* The send-queue worker leaves cur_min_seq_ alone.
LEMMA SndMinSeq == SafeInv /\ Snd => MinSeqPresent'
  <1> SUFFICES ASSUME SafeInv, Snd PROVE MinSeqPresent'
    OBVIOUS
  <1>1. MinSeqPresent /\ TypeInv
    BY DEF SafeInv
  <1>2. UNCHANGED <<curMinSeq, rcvPc, appPc>> /\ fatal = "no"
    BY DEF Snd, PackRetransmission, PackNewPacket, PackCommit, Transmit, OnPacketSent, ExitProcess,
           SndAt, trackerVars, rcvVars, appVars
  <1>3. Recorded' \subseteq Recorded
    <2>1. CASE PackCommit
      <3>1. packetState \in [SeqNos -> PacketStates]
        BY <1>1 DEF TypeInv, TrackerType
      <3> QED
        BY <2>1, <3>1 DEF PackCommit, OnPacketSent, ExitProcess, Recorded
    <2>2. CASE ~PackCommit
      BY <2>2 DEF Snd, PackRetransmission, PackNewPacket, Transmit, trackerVars, Recorded
    <2> QED
      BY <2>1, <2>2
  <1> QED
    BY <1>1, <1>2, <1>3, MinSeqFrame

\* DeletePacketRecord leaves cur_min_seq_ at a packet as long as there is one.
LEMMA RcvMinSeq == SafeInv /\ Rcv => MinSeqPresent'
  <1> SUFFICES ASSUME SafeInv, Rcv PROVE MinSeqPresent'
    OBVIOUS
  <1>1. MinSeqPresent /\ TypeInv /\ packetState \in [SeqNos -> PacketStates]
    BY DEF SafeInv, TypeInv, TrackerType
  <1>2. ASSUME NEW p \in wire, ProcessAck(p[1], p[2]) PROVE MinSeqPresent'
    <2>1. Recorded' \subseteq Recorded /\ UNCHANGED curMinSeq
      BY <1>1, <1>2 DEF ProcessAck, OnPacketAck, UpdateRecord, ExitProcess, Recorded, trackerVars
    <2>2. fatal = "no" /\ rcvPc = "recv" /\ UNCHANGED appPc
      BY <1>2 DEF ProcessAck, RcvAt, appVars
    <2> QED
      BY <1>1, <2>1, <2>2, MinSeqFrame
  <1>3. CASE AckDelete
    BY <1>3 DEF AckDelete, RcvGoto, MinSeqPresent
  <1>4. CASE AckMinSeq
    BY <1>1, <1>4 DEF AckMinSeq, Segfault, MinSeqPresent, RcvGoto, RcvAt, trackerVars, appVars, Recorded
  <1>5. CASE AddToLossRecord
    <2>1. Recorded' \subseteq Recorded /\ UNCHANGED curMinSeq
      BY <1>1, <1>5 DEF AddToLossRecord, OnPacketLoss, UpdateRecord, ExitProcess, Recorded, trackerVars
    <2>2. fatal = "no" /\ rcvPc = "lost" /\ UNCHANGED appPc
      BY <1>5 DEF AddToLossRecord, RcvAt, appVars
    <2> QED
      BY <1>1, <2>1, <2>2, MinSeqFrame
  <1>6. CASE AckSignal \/ AckReport \/ NoDatagram \/ TimersDone \/ OldestSent \/ OldestGone
             \/ OldestOverdue \/ OldestNotOverdue
    <2>1. UNCHANGED <<packetState, curMinSeq>> /\ fatal = "no" /\ rcvPc # "minseq"
      BY <1>6 DEF AckSignal, AckReport, NoDatagram, TimersDone, OldestSent, OldestGone, OldestOverdue,
                  OldestNotOverdue, ExitProcess, RcvAt, trackerVars
    <2>2. appPc' \in {"compare", "record"} => appPc' = appPc
      BY <1>6 DEF AckSignal, AckReport, NoDatagram, TimersDone, OldestSent, OldestGone, OldestOverdue,
                  OldestNotOverdue, Signal, SendGoto, appVars
    <2> QED
      BY <1>1, <2>1, <2>2, MinSeqFrame DEF Recorded
  <1> QED
    BY <1>2, <1>3, <1>4, <1>5, <1>6 DEF Rcv

-----------------------------------------------------------------------------
(* The theorems. *)

\* A step of the other threads leaves the position of send() in its loop alone,
\* or moves it from "waiting" to "loop".
LEMMA WorkersAllocation == TypeInv /\ Allocation /\ (Snd \/ Rcv) => Allocation'
  <1> SUFFICES ASSUME TypeInv, Allocation, Snd \/ Rcv PROVE Allocation'
    OBVIOUS
  <1>1. CASE UNCHANGED <<appVars, sndCurrSeqNo, enqueued>>
    BY <1>1, AllocationFrame
  <1>2. CASE (AckDelete \/ AckSignal) /\ appPc = "waiting" /\ SendGoto("loop")
    <2>1. UNCHANGED <<sndCurrSeqNo, enqueued>>
      BY <1>2 DEF AckDelete, AckSignal, udtVars, histVars
    <2> QED
      BY <1>2, <2>1 DEF SendGoto, Allocation
  <1>3. CASE Snd
    BY <1>1, <1>3 DEF Snd, PackRetransmission, PackNewPacket, PackCommit, Transmit, udtVars, histVars
  <1>4. CASE Rcv
    <2>1. UNCHANGED <<sndCurrSeqNo, enqueued>>
      BY <1>4 DEF Rcv, ProcessAck, AckDelete, AckMinSeq, AckSignal, AckReport, NoDatagram, TimersDone,
                  OldestSent, OldestGone, OldestOverdue, OldestNotOverdue, AddToLossRecord, udtVars,
                  histVars
    <2>2. UNCHANGED appVars \/ ((AckDelete \/ AckSignal) /\ appPc = "waiting" /\ SendGoto("loop"))
      BY <1>4 DEF Rcv, ProcessAck, AckDelete, AckMinSeq, AckSignal, AckReport, NoDatagram, TimersDone,
                  OldestSent, OldestGone, OldestOverdue, OldestNotOverdue, AddToLossRecord, Signal
    <2> QED
      BY <1>1, <1>2, <2>1, <2>2
  <1> QED
    BY <1>3, <1>4

\* The strengthened invariant is inductive.
LEMMA SafeInvStep == SafeInv /\ [Next]_vars => SafeInv'
  <1> SUFFICES ASSUME SafeInv, [Next]_vars PROVE SafeInv'
    OBVIOUS
  <1>1. TypeInv'
    BY TypeInvStep DEF SafeInv
  <1>2. CASE App
    BY <1>1, <1>2, AppAllocation, AppTracker, AppMinSeq DEF SafeInv
  <1>3. CASE Snd
    BY <1>1, <1>3, WorkersAllocation, SndTracker, SndMinSeq DEF SafeInv
  <1>4. CASE Rcv
    BY <1>1, <1>4, WorkersAllocation, RcvTracker, RcvMinSeq DEF SafeInv
  <1>5. CASE UNCHANGED vars
    <2>1. Allocation'
      BY <1>5, AllocationFrame DEF SafeInv, vars, udtVars, histVars
    <2>2. TrackerInv'
      BY <1>5, TrackerFrame DEF SafeInv, vars, trackerVars, rcvVars, histVars
    <2>3. MinSeqPresent'
      BY <1>5, MinSeqFrame DEF SafeInv, vars, trackerVars, rcvVars, appVars, Recorded
    <2> QED
      BY <1>1, <2>1, <2>2, <2>3 DEF SafeInv
  <1> QED
    BY <1>2, <1>3, <1>4, <1>5 DEF Next

\* The strengthened invariant holds in every reachable state.
LEMMA SafeInvHolds == Spec => []SafeInv
  BY InitSafeInv, SafeInvStep, PTL DEF Spec

\* However send(), packData(), ProcessAck() and checkTimers() interleave, and also
\* when the sequence numbers wrap, a packet in the tracker waits in a queue or has
\* an armed timer.
THEOREM PacketsNeverForgotten == Spec => []NoPacketForgotten
  <1>1. SafeInv => NoPacketForgotten
    BY DEF SafeInv, TrackerInv
  <1> QED
    BY <1>1, SafeInvHolds, PTL

\* checkTimers never finds the timer of a transmission that was acknowledged, that
\* was declared lost before or that has been superseded by a retransmission.
THEOREM TimersNeverStale == Spec => []NoStaleTimer
  <1>1. SafeInv => NoStaleTimer
    BY DEF SafeInv, TrackerInv
  <1> QED
    BY <1>1, SafeInvHolds, PTL

\* The record whose payload CSndQueue::worker hands to the channel after packData
\* has released its locks is not deleted before that.
THEOREM PayloadOutlivesSend == Spec => []PayloadAlive
  <1>1. SafeInv => PayloadAlive
    BY DEF SafeInv, TrackerInv
  <1> QED
    BY <1>1, SafeInvHolds, PTL

-----------------------------------------------------------------------------
(* BytesInFlight.  packData counts a new packet before OnPacketSent takes   *)
(* it out of the send queue, and ProcessAck discounts one after its record  *)
(* is deleted; the invariant has a term for each of the two gaps.           *)

\* A new packet that packData has counted and not yet recorded as sent.
CountedEarly == IF sndPc = "picked" /\ packetState[sndSeq] = "QUEUED" THEN 1 ELSE 0

\* An acknowledged packet whose record is deleted and that is still counted.
DiscountedLate == IF rcvPc \in {"minseq", "signal", "report"} /\ rcvState # "LOST" THEN 1 ELSE 0

BytesInv == bytesInFlight >= Cardinality(InFlight) + CountedEarly + DiscountedLate

\* Sets of sequence numbers are finite.
LEMMA SeqNosFinite ==
  ASSUME NEW T \in SUBSET SeqNos
  PROVE  IsFiniteSet(T) /\ Cardinality(T) \in Nat
  <1>1. IsFiniteSet(SeqNos)
    BY FS_Interval DEF SeqNos
  <1>2. IsFiniteSet(T)
    BY <1>1, FS_Subset
  <1> QED
    BY <1>2, FS_CardinalityType

\* What is in flight is a set of sequence numbers, before and after a step.
LEMMA InFlightFinite ==
  /\ IsFiniteSet(InFlight) /\ Cardinality(InFlight) \in Nat
  /\ IsFiniteSet(InFlight') /\ Cardinality(InFlight') \in Nat
  <1>1. InFlight \in SUBSET SeqNos /\ InFlight' \in SUBSET SeqNos
    BY DEF InFlight
  <1> QED
    BY <1>1, SeqNosFinite

\* A step that puts nothing in flight and leaves both gaps as they are.
LEMMA FlightFrame ==
  ASSUME BytesInv, InFlight' = InFlight, bytesInFlight' = bytesInFlight,
         CountedEarly' = CountedEarly, DiscountedLate' = DiscountedLate
  PROVE  BytesInv'
  BY DEF BytesInv

\* send() puts packets into the tracker, none in flight.
LEMMA AppFlight ==
  ASSUME SafeInv, BytesInv, App
  PROVE  BytesInv'
  <1>1. UNCHANGED <<bytesInFlight, sndVars, rcvVars>>
    BY DEF App, SendCall, SendEntry, SendLoop, SendWait, SendTimeout, SendRecheck, SendNext,
           SendCompare, SendRecord, SendFinish, udtVars
  <1>2. DiscountedLate' = DiscountedLate
    BY <1>1 DEF DiscountedLate, rcvVars
  <1>3. CASE packetState' = packetState
    <2>1. InFlight' = InFlight /\ CountedEarly' = CountedEarly
      BY <1>1, <1>3 DEF InFlight, CountedEarly, sndVars
    <2> QED
      BY <1>1, <1>2, <2>1, FlightFrame
  <1>4. CASE SendRecord /\ sndCurrSeqNo \notin Recorded
    <2> DEFINE seq == sndCurrSeqNo
    <2>1. /\ packetState' = [packetState EXCEPT ![seq] = "QUEUED"] /\ fatal = "no"
          /\ seq \in SeqNos /\ packetState[seq] = "NONE"
      BY <1>4 DEF SendRecord, EnqueueRecord, AppAt, SafeInv, TypeInv, NextAllocated, Recorded
    <2>2. packetState \in [SeqNos -> PacketStates]
      BY DEF SafeInv, TypeInv, TrackerType
    <2>3. InFlight' = InFlight
      BY <2>1, <2>2 DEF InFlight
    <2>4. sndPc = "picked" => sndSeq # seq
      BY <2>1 DEF SafeInv, TrackerInv, PayloadAlive
    <2>5. CountedEarly' = CountedEarly
      BY <1>1, <2>1, <2>2, <2>4 DEF CountedEarly, sndVars, SafeInv, TypeInv, SndType
    <2> QED
      BY <1>1, <1>2, <2>3, <2>5, FlightFrame
  <1>5. packetState' = packetState \/ (SendRecord /\ sndCurrSeqNo \notin Recorded)
    BY DEF App, SendCall, SendEntry, SendLoop, SendWait, SendTimeout, SendRecheck, SendNext,
           SendCompare, SendRecord, SendFinish, trackerVars, EnqueueMinAbsent, EnqueueMinPresent,
           EnqueueMinCompare, EnqueueRecord, Segfault, ExitProcess
  <1> QED
    BY <1>3, <1>4, <1>5

\* packData counts exactly the packets it sends for the first time.
LEMMA SndFlight ==
  ASSUME SafeInv, BytesInv, Snd
  PROVE  BytesInv'
  <1>1. /\ packetState \in [SeqNos -> PacketStates] /\ sndSeq \in SeqNos /\ bytesInFlight \in Int
        /\ retransmittableQueue \in SUBSET SeqNos /\ sendQueue \in SUBSET SeqNos
        /\ TypeInv /\ RecordShape
    BY DEF SafeInv, TypeInv, TrackerType, SndType, UdtType, TrackerInv
  <1>2. UNCHANGED rcvVars
    BY DEF Snd, PackRetransmission, PackNewPacket, PackCommit, Transmit
  <1>3. DiscountedLate' = DiscountedLate
    BY <1>2 DEF DiscountedLate, rcvVars
  <1>4. CountedEarly \in {0, 1} /\ DiscountedLate \in {0, 1}
    BY DEF CountedEarly, DiscountedLate
  <1>5. CASE PackRetransmission
    <2>1. /\ UNCHANGED <<packetState, bytesInFlight>> /\ sndPc # "picked"
          /\ sndSeq' \in Recorded /\ sndSeq' \in retransmittableQueue
      BY <1>1, <1>5, PurgedKeeps DEF PackRetransmission, SndAt, udtVars
    <2>2. packetState'[sndSeq'] # "QUEUED"
      BY <1>1, <2>1 DEF RecordShape, Recorded
    <2>3. InFlight' = InFlight /\ CountedEarly' = 0 /\ CountedEarly = 0
      BY <2>1, <2>2 DEF InFlight, CountedEarly
    <2> QED
      BY <1>3, <2>1, <2>3, FlightFrame
  <1>6. CASE PackNewPacket
    <2>1. /\ UNCHANGED packetState /\ bytesInFlight' = bytesInFlight + 1 /\ sndPc # "picked"
      BY <1>6 DEF PackNewPacket, SndAt
    <2>2. InFlight' = InFlight /\ CountedEarly' \in {0, 1} /\ CountedEarly = 0
      BY <2>1 DEF InFlight, CountedEarly
    <2> QED
      BY <1>1, <1>3, <1>4, <2>1, <2>2, InFlightFinite DEF BytesInv
  <1>7. CASE PackCommit
    <2>1. sndPc = "picked" /\ sndPc' = "sendto" /\ UNCHANGED <<sndSeq, bytesInFlight>>
      BY <1>7 DEF PackCommit, SndAt, udtVars
    <2>2. CountedEarly' = 0
      BY <2>1 DEF CountedEarly
    <2>3. CASE packetState' = packetState
      <3>1. InFlight' = InFlight
        BY <2>3 DEF InFlight
      <3> QED
        BY <1>1, <1>3, <1>4, <2>1, <2>2, <3>1, InFlightFinite DEF BytesInv
    <2>4. CASE packetState' = [packetState EXCEPT ![sndSeq] = "SENT"]
      <3>1. InFlight' = InFlight \cup {sndSeq}
        BY <1>1, <2>4 DEF InFlight
      <3>2. packetState[sndSeq] \in {"QUEUED", "LOST"}
        BY <1>7, <2>1 DEF PackCommit, SndAt, SafeInv, TrackerInv, WorkersInv
      <3>3. Cardinality(InFlight') <= Cardinality(InFlight) + CountedEarly
        <4>1. CASE packetState[sndSeq] = "QUEUED"
          <5>1. CountedEarly = 1
            BY <2>1, <4>1 DEF CountedEarly
          <5>2. Cardinality(InFlight') \in {Cardinality(InFlight), Cardinality(InFlight) + 1}
            BY <3>1, InFlightFinite, FS_AddElement
          <5> QED
            BY <5>1, <5>2, InFlightFinite
        <4>2. CASE packetState[sndSeq] = "LOST"
          <5>1. InFlight' = InFlight
            BY <1>1, <3>1, <4>2 DEF InFlight
          <5> QED
            BY <1>4, <5>1, InFlightFinite
        <4> QED
          BY <3>2, <4>1, <4>2
      <3> QED
        BY <1>1, <1>3, <1>4, <2>1, <2>2, <3>3, InFlightFinite DEF BytesInv
    <2> QED
      BY <1>7, <2>3, <2>4 DEF PackCommit, OnPacketSent, ExitProcess
  <1>8. CASE Transmit
    <2>1. UNCHANGED <<packetState, bytesInFlight>> /\ sndPc = "sendto" /\ sndPc' = "idle"
      BY <1>8 DEF Transmit, trackerVars, udtVars, SndAt
    <2>2. InFlight' = InFlight /\ CountedEarly' = CountedEarly
      BY <2>1 DEF InFlight, CountedEarly
    <2> QED
      BY <1>3, <2>1, <2>2, FlightFrame
  <1> QED
    BY <1>5, <1>6, <1>7, <1>8 DEF Snd

\* A record with a message is in flight whichever of the three states it takes.
LEMMA MessageInFlight ==
  ASSUME SafeInv, NEW seq \in SeqNos, NEW msg, HasMessage(seq, msg), NEW new \in {"ACKED", "LOST"},
         UpdateRecord(seq, msg, new)
  PROVE  /\ InFlight' = InFlight
         /\ \A s \in SeqNos : packetState'[s] = "QUEUED" <=> packetState[s] = "QUEUED"
  <1>1. /\ packetState \in [SeqNos -> PacketStates] /\ msgRecords \in [SeqNos -> Seq(Nat)]
        /\ RecordShape
    BY DEF SafeInv, TypeInv, TrackerType, TrackerInv
  <1>2. Len(msgRecords[seq]) # 0
    BY <1>1 DEF HasMessage
  <1>3. packetState[seq] \in {"SENT", "ACKED", "LOST"}
    BY <1>1, <1>2 DEF RecordShape, PacketStates
  <1> QED
    BY <1>1, <1>3 DEF UpdateRecord, InFlight

\* ProcessAck discounts a packet after its record is gone, checkTimers none.
LEMMA RcvFlight ==
  ASSUME SafeInv, BytesInv, Rcv
  PROVE  BytesInv'
  <1>1. /\ packetState \in [SeqNos -> PacketStates] /\ sndSeq \in SeqNos /\ bytesInFlight \in Int
        /\ rcvSeq \in SeqNos /\ wire \subseteq SeqNos \X Nat
    BY DEF SafeInv, TypeInv, TrackerType, SndType, UdtType, RcvType, HistType
  <1>2. UNCHANGED sndVars
    BY DEF Rcv, ProcessAck, AckDelete, AckMinSeq, AckSignal, AckReport, NoDatagram, TimersDone,
           OldestSent, OldestGone, OldestOverdue, OldestNotOverdue, AddToLossRecord
  <1>3. CountedEarly \in {0, 1} /\ DiscountedLate \in {0, 1}
    BY DEF CountedEarly, DiscountedLate
  <1>4. ASSUME \A s \in SeqNos : packetState'[s] = "QUEUED" <=> packetState[s] = "QUEUED"
        PROVE  CountedEarly' = CountedEarly
    BY <1>1, <1>2, <1>4 DEF CountedEarly, sndVars
  <1>5. ASSUME NEW p \in wire, ProcessAck(p[1], p[2]) PROVE BytesInv'
    <2>1. /\ rcvPc = "recv" /\ rcvPc' \in {"delete", "timers"} /\ UNCHANGED bytesInFlight
          /\ p[1] \in SeqNos
      BY <1>1, <1>5 DEF ProcessAck, RcvAt, RcvGoto, udtVars
    <2>2. DiscountedLate' = DiscountedLate
      BY <2>1 DEF DiscountedLate
    <2>3. CASE packetState' = packetState
      BY <1>4, <2>1, <2>2, <2>3, FlightFrame DEF InFlight
    <2>4. CASE HasMessage(p[1], p[2]) /\ UpdateRecord(p[1], p[2], "ACKED")
      BY <1>4, <2>1, <2>2, <2>4, MessageInFlight, FlightFrame
    <2> QED
      BY <1>5, <2>3, <2>4 DEF ProcessAck, OnPacketAck, ExitProcess, trackerVars
  <1>6. CASE AckDelete
    <2>1. /\ rcvPc = "delete" /\ rcvPc' = "minseq" /\ packetState[rcvSeq] = "ACKED"
          /\ packetState' = [packetState EXCEPT ![rcvSeq] = "NONE"]
      BY <1>6, DeleteSucceeds
    <2>2. UNCHANGED bytesInFlight
      BY <1>6 DEF AckDelete, udtVars
    <2>3. CountedEarly' = CountedEarly
      BY <1>1, <1>4, <2>1
    <2>4. DiscountedLate = 0 /\ DiscountedLate' \in {0, 1}
      BY <2>1 DEF DiscountedLate
    <2>5. InFlight' = InFlight \ {rcvSeq} /\ rcvSeq \in InFlight
      BY <1>1, <2>1 DEF InFlight
    <2>6. Cardinality(InFlight') = Cardinality(InFlight) - 1
      BY <2>5, InFlightFinite, FS_RemoveElement
    <2> QED
      BY <1>1, <1>3, <2>2, <2>3, <2>4, <2>6, InFlightFinite DEF BytesInv
  <1>7. CASE AckReport
    <2>1. /\ rcvPc = "report" /\ rcvPc' = "timers" /\ UNCHANGED packetState
          /\ \/ UNCHANGED bytesInFlight
             \/ rcvState # "LOST" /\ bytesInFlight' = bytesInFlight - 1
      BY <1>7 DEF AckReport, RcvAt, RcvGoto, trackerVars
    <2>2. InFlight' = InFlight /\ CountedEarly' = CountedEarly /\ DiscountedLate' = 0
      BY <1>4, <2>1 DEF InFlight, DiscountedLate
    <2>3. rcvState # "LOST" => DiscountedLate = 1
      BY <2>1 DEF DiscountedLate
    <2> QED
      BY <1>1, <1>3, <2>1, <2>2, <2>3, InFlightFinite DEF BytesInv
  <1>8. CASE AddToLossRecord
    <2>1. rcvPc = "lost" /\ rcvPc' = "timers" /\ UNCHANGED bytesInFlight
      BY <1>8 DEF AddToLossRecord, RcvAt, RcvGoto
    <2>2. DiscountedLate' = DiscountedLate
      BY <2>1 DEF DiscountedLate
    <2> DEFINE msg == GetPacketLastMsgNo(rcvSeq)
    <2>3. CASE packetState' = packetState
      BY <1>4, <2>1, <2>2, <2>3, FlightFrame DEF InFlight
    <2>4. CASE HasMessage(rcvSeq, msg) /\ UpdateRecord(rcvSeq, msg, "LOST")
      BY <1>1, <1>4, <2>1, <2>2, <2>4, MessageInFlight, FlightFrame
    <2> QED
      BY <1>8, <2>3, <2>4 DEF AddToLossRecord, OnPacketLoss, ExitProcess, trackerVars
  <1>9. CASE AckMinSeq \/ AckSignal \/ NoDatagram \/ TimersDone \/ OldestSent \/ OldestGone
             \/ OldestOverdue \/ OldestNotOverdue
    <2>1. UNCHANGED <<packetState, bytesInFlight, rcvState>>
      BY <1>9 DEF AckMinSeq, AckSignal, NoDatagram, TimersDone, OldestSent, OldestGone,
                  OldestOverdue, OldestNotOverdue, RcvGoto, trackerVars, udtVars, Segfault,
                  ExitProcess
    <2>2. \/ rcvPc \in {"minseq", "signal"} /\ rcvPc' \in {"minseq", "signal", "report"}
          \/ /\ rcvPc \in {"recv", "timers", "oldest"}
             /\ rcvPc' \in {"recv", "timers", "oldest", "lost"}
      BY <1>9 DEF AckMinSeq, AckSignal, NoDatagram, TimersDone, OldestSent, OldestGone,
                  OldestOverdue, OldestNotOverdue, RcvGoto, RcvAt
    <2>3. DiscountedLate' = DiscountedLate
      BY <2>1, <2>2 DEF DiscountedLate
    <2> QED
      BY <1>4, <2>1, <2>3, FlightFrame DEF InFlight
  <1> QED
    BY <1>5, <1>6, <1>7, <1>8, <1>9 DEF Rcv

\* BytesInFlight never falls below the number of packets that are out or lost, also
\* between the steps in which packData and ProcessAck change the two: the branch of
\* ProcessAck for negative bytes in flight is dead.
THEOREM BytesInFlightCovered == Spec => []BytesCovered
  <1>1. Init => BytesInv
    <2> SUFFICES ASSUME Init PROVE BytesInv
      OBVIOUS
    <2>1. InFlight = {} /\ CountedEarly = 0 /\ DiscountedLate = 0 /\ bytesInFlight = 0
      BY DEF Init, TrackerInit, InFlight, CountedEarly, DiscountedLate
    <2> QED
      BY <2>1, FS_EmptySet DEF BytesInv
  <1>2. SafeInv /\ BytesInv /\ [Next]_vars => BytesInv'
    <2> SUFFICES ASSUME SafeInv, BytesInv, [Next]_vars PROVE BytesInv'
      OBVIOUS
    <2>1. CASE UNCHANGED vars
      BY <2>1, FlightFrame DEF vars, trackerVars, udtVars, sndVars, rcvVars, InFlight, CountedEarly,
                              DiscountedLate
    <2> QED
      BY <2>1, AppFlight, SndFlight, RcvFlight DEF Next
  <1>3. SafeInv /\ BytesInv => BytesCovered
    <2> SUFFICES ASSUME SafeInv, BytesInv PROVE BytesCovered
      OBVIOUS
    <2>1. bytesInFlight \in Int /\ CountedEarly \in {0, 1} /\ DiscountedLate \in {0, 1}
      BY DEF SafeInv, TypeInv, UdtType, CountedEarly, DiscountedLate
    <2>2. rcvPc = "report" /\ rcvState # "LOST" => DiscountedLate = 1
      BY DEF DiscountedLate
    <2> QED
      BY <2>1, <2>2, InFlightFinite DEF BytesInv, BytesCovered
  <1> QED
    BY <1>1, <1>2, <1>3, SafeInvHolds, PTL DEF Spec
=============================================================================
