------------------------- MODULE SenderReportProofs -------------------------
(***************************************************************************)
(* What the sender guarantees while its sequence numbers do not wrap: none *)
(* of the tracker's internal checks ends the process, and PCC is told the  *)
(* fate of every transmission exactly once.                                *)
(*                                                                         *)
(* Across the wrap the first one fails (run sender_wrap): the priority     *)
(* queues compare numerically, so that 0 overtakes the numbers before it.  *)
(* 0 itself is left out as well, because GetOldestSentSeqNo answers 0 when *)
(* there is no packet.                                                     *)
(***************************************************************************)
EXTENDS SenderProofs

USE SeqNoAssumption, PacketLimitAssumption, SenderAssumption

NoWrap == 0 < ISN /\ ISN + MaxEnqueued <= MaxSeqNo + 1

\* What packData has picked is what OnPacketSent expects, and what checkTimers has
\* found is still out when it gets to it.
InOrder ==
  fatal = "no" =>
    /\ sndPc = "picked" => SentInOrder(sndSeq)
    /\ rcvPc \in {"oldest", "lost"} => rcvSeq = 0 \/ packetState[rcvSeq] = "SENT"

\* The acknowledgement in progress is that of a transmission known to PCC whose
\* timer is cancelled.
AckInProgress ==
  rcvPc \in AckPcs => /\ rcvState \in {"SENT", "LOST"}
                      /\ rcvId \in 1 .. prevPacketId
                      /\ \A p \in sentTimeMap : p[1] # rcvId

ReportInv == /\ NoExit /\ InOrder
             /\ Len(pccFate) = prevPacketId
             /\ AckInProgress /\ PccToldOnce

\* No transmission, so no report.
LEMMA InitReportInv == Init => ReportInv
  BY DEF Init, TrackerInit, ReportInv, NoExit, InOrder, AckInProgress, AckPcs, PccToldOnce

\* Without a wrap the numbers handed out are ordered as integers, and 0 is none
\* of them.
LEMMA NoWrapOrder ==
  ASSUME NoWrap, SafeInv
  PROVE  /\ 0 \notin Recorded
         /\ \A s, t \in SeqNos : Pos(s) < Pos(t) /\ Pos(t) < MaxEnqueued => s < t
  <1>1. enqueued \in Nat /\ enqueued <= MaxEnqueued
    BY DEF SafeInv, TypeInv, HistType, Allocation
  <1>2. 0 \in SeqNos /\ Pos(0) >= enqueued
    BY <1>1 DEF NoWrap, Pos, SeqNos
  <1>3. 0 \notin Recorded
    BY <1>2 DEF SafeInv, TrackerInv, FreshUnused, Recorded
  <1>4. \A s, t \in SeqNos : Pos(s) < Pos(t) /\ Pos(t) < MaxEnqueued => s < t
    BY DEF NoWrap, Pos, SeqNos
  <1> QED
    BY <1>3, <1>4

\* No step changes anything that InOrder or the reports depend on.
LEMMA ReportFrame ==
  ASSUME ReportInv, fatal' # "exit", fatal' = "no" => fatal = "no",
         UNCHANGED <<packetState, sendQueue, retransmittableQueue, sentTimeMap, prevPacketId,
                     sndVars, rcvSeq, rcvState, rcvId, pccFate>>,
         rcvPc' \in {"oldest", "lost"} => rcvPc \in {"oldest", "lost"},
         rcvPc \in AckPcs <=> rcvPc' \in AckPcs
  PROVE  ReportInv'
  <1> USE DEF ReportInv, sndVars
  <1>1. NoExit' /\ InOrder'
    BY DEF NoExit, InOrder, SentInOrder, IsTop
  <1>2. AckInProgress'
    BY DEF AckInProgress
  <1>3. PccToldOnce'
    BY DEF PccToldOnce, AckUnreported, AckPcs
  <1> QED
    BY <1>1, <1>2, <1>3

-----------------------------------------------------------------------------
(* The application thread: a packet is enqueued behind those already there. *)

\* A new packet changes no report and does not trip the check of EnqueuePacket.
LEMMA RecordReport ==
  ASSUME NoWrap, SafeInv, ReportInv, SendRecord
  PROVE  ReportInv'
  <1> DEFINE seq == sndCurrSeqNo
  <1>1. /\ seq \in SeqNos /\ Pos(seq) = enqueued /\ enqueued \in Nat /\ enqueued < MaxEnqueued
        /\ fatal = "no"
    BY DEF SafeInv, TypeInv, NextAllocated, Allocation, SendRecord, AppAt, HistType, AppType
  <1>2. /\ packetState[seq] = "NONE" /\ seq \notin Recorded
    BY <1>1 DEF SafeInv, TrackerInv, FreshUnused, Recorded
  <1>3. /\ packetState' = [packetState EXCEPT ![seq] = "QUEUED"]
        /\ sendQueue' = sendQueue \cup {seq}
        /\ UNCHANGED <<retransmittableQueue, sentTimeMap, prevPacketId, fatal>>
        /\ UNCHANGED <<sndVars, rcvVars, pccFate>>
    BY <1>2 DEF SendRecord, EnqueueRecord
  <1>4. packetState \in [SeqNos -> PacketStates] /\ sndSeq \in SeqNos /\ rcvSeq \in SeqNos
    BY DEF SafeInv, TypeInv, TrackerType, SndType, RcvType
  <1>5. \A s \in SeqNos : s # seq => packetState'[s] = packetState[s]
    BY <1>1, <1>3, <1>4
  <1> HIDE DEF seq
  <1>6. ASSUME sndPc = "picked" PROVE SentInOrder(sndSeq)'
    <2>1. SentInOrder(sndSeq) /\ packetState[sndSeq] # "NONE"
      BY <1>1, <1>6 DEF ReportInv, InOrder, SafeInv, TrackerInv, PayloadAlive
    <2>2. sndSeq # seq /\ packetState'[sndSeq] = packetState[sndSeq] /\ sndSeq' = sndSeq
      BY <2>1, <1>2, <1>3, <1>4, <1>5 DEF sndVars
    <2>3. sndSeq < seq
      <3>1. Pos(sndSeq) \in Nat
        BY <1>4, PosStep
      <3>2. ~(Pos(sndSeq) >= enqueued)
        BY <2>1, <1>4 DEF SafeInv, TrackerInv, FreshUnused
      <3> QED
        BY <3>1, <3>2, <1>1, <1>4, NoWrapOrder
    <2>4. seq \in Int /\ sndSeq \in Int /\ sndSeq <= seq
      BY <1>1, <1>4, <2>3 DEF SeqNos
    <2> QED
      BY <2>1, <2>2, <2>4, <1>3 DEF SentInOrder, IsTop
  <1>7. NoExit' /\ InOrder'
    BY <1>1, <1>2, <1>3, <1>4, <1>5, <1>6 DEF ReportInv, NoExit, InOrder, sndVars, rcvVars
  <1>8. Len(pccFate') = prevPacketId' /\ AckInProgress'
    BY <1>3 DEF ReportInv, AckInProgress, rcvVars
  <1>9. PccToldOnce'
    BY <1>3 DEF ReportInv, PccToldOnce, AckUnreported, rcvVars
  <1> QED
    BY <1>7, <1>8, <1>9 DEF ReportInv

\* No step of send() affects what PCC was told.
LEMMA AppReport ==
  ASSUME NoWrap, SafeInv, ReportInv, App
  PROVE  ReportInv'
  <1>1. CASE SendRecord
    BY <1>1, RecordReport
  <1>2. CASE ~SendRecord
    <2>1. /\ UNCHANGED <<packetState, queueVars, prevPacketId, sndVars, rcvVars, pccFate>>
          /\ fatal = "no" /\ fatal' # "exit"
      BY <1>2 DEF App, SendCall, SendEntry, SendLoop, SendWait, SendTimeout, SendRecheck, SendNext,
                  SendCompare, SendFinish, EnqueueMinAbsent, EnqueueMinPresent, EnqueueMinCompare,
                  Segfault, trackerVars, histVars, AppAt
    <2> QED
      BY <2>1, ReportFrame DEF queueVars, rcvVars
  <1> QED
    BY <1>1, <1>2

-----------------------------------------------------------------------------
(* The send-queue worker: what it picks is on top, and stays there until it *)
(* is recorded as sent.                                                     *)

\* The choice of packData affects no report.
LEMMA PickReport ==
  ASSUME NoWrap, SafeInv, ReportInv, PackRetransmission \/ PackNewPacket
  PROVE  ReportInv'
  <1>1. TrackerInv /\ TypeInv
    BY DEF SafeInv
  <1>2. UNCHANGED <<packetState, sentTimeMap, prevPacketId, fatal, rcvVars, pccFate>>
    BY DEF PackRetransmission, PackNewPacket, histVars
  <1>3. retransmittableQueue \in SUBSET SeqNos /\ sendQueue \in SUBSET SeqNos
    BY <1>1 DEF TypeInv, TrackerType
  <1>4. SentInOrder(sndSeq)'
    <2>1. CASE PackRetransmission
      <3>1. /\ sndSeq' \in retransmittableQueue /\ IsTop(sndSeq', retransmittableQueue')
        BY <2>1, <1>1, <1>3, PurgedKeeps DEF PackRetransmission
      <3>2. packetState[sndSeq'] # "QUEUED"
        BY <3>1, <1>1, <1>3 DEF TrackerInv, RecordShape
      <3> QED
        BY <3>1, <3>2, <1>2 DEF SentInOrder, IsTop
    <2>2. CASE PackNewPacket
      <3>1. sndSeq' \in sendQueue /\ IsTop(sndSeq', sendQueue')
        BY <2>2, <1>1, <1>3, PurgedKeeps DEF PackNewPacket
      <3>2. packetState[sndSeq'] = "QUEUED"
        BY <3>1, <1>1, <1>3 DEF TrackerInv, RecordShape
      <3> QED
        BY <3>1, <3>2, <1>2 DEF SentInOrder, IsTop
    <2> QED
      BY <2>1, <2>2
  <1>5. NoExit' /\ InOrder'
    BY <1>2, <1>4 DEF ReportInv, NoExit, InOrder, rcvVars
  <1>6. Len(pccFate') = prevPacketId' /\ AckInProgress' /\ PccToldOnce'
    BY <1>2 DEF ReportInv, AckInProgress, PccToldOnce, AckUnreported, rcvVars
  <1> QED
    BY <1>5, <1>6 DEF ReportInv

\* OnPacketSent finds the packet on top of its queue, and its new id has no report yet.
LEMMA CommitReport ==
  ASSUME NoWrap, SafeInv, ReportInv, PackCommit
  PROVE  ReportInv'
  <1> DEFINE seq == sndSeq
             id == prevPacketId + 1
  <1>1. /\ fatal = "no" /\ sndPc = "picked" /\ sndPc' = "sendto" /\ OnPacketSent(seq)
        /\ pccFate' = IF fatal' = "no" THEN Append(pccFate, << >>) ELSE pccFate
        /\ UNCHANGED rcvVars
    BY DEF PackCommit, SndAt
  <1>2. /\ packetState \in [SeqNos -> PacketStates] /\ seq \in SeqNos /\ prevPacketId \in Nat
        /\ sentTimeMap \subseteq (1 .. prevPacketId) \X SeqNos
        /\ pccFate \in Seq(Seq({"acked", "lost"})) /\ rcvSeq \in SeqNos
    BY DEF SafeInv, TypeInv, TrackerType, SndType, HistType, RcvType
  <1>3. seq \in Recorded /\ SentInOrder(seq) /\ rcvPc \notin AckPcs
    BY <1>1, <1>2 DEF SafeInv, TrackerInv, PayloadAlive, WorkersInv, ReportInv, InOrder, Recorded
  <1>4. /\ packetState' = [packetState EXCEPT ![seq] = "SENT"]
        /\ prevPacketId' = id
        /\ sentTimeMap' = sentTimeMap \cup {<<id, seq>>}
        /\ UNCHANGED fatal
    BY <1>1, <1>3 DEF OnPacketSent
  <1>5. pccFate' = Append(pccFate, << >>)
    BY <1>1, <1>4
  <1>6. /\ Len(pccFate) = prevPacketId /\ Len(pccFate') = id
        /\ pccFate'[id] = << >> /\ \A i \in 1 .. prevPacketId : pccFate'[i] = pccFate[i]
    BY <1>2, <1>5 DEF ReportInv
  <1> HIDE DEF seq, id
  <1>7. NoExit' /\ InOrder'
    BY <1>1, <1>2, <1>4 DEF ReportInv, NoExit, InOrder, rcvVars
  <1>8. AckInProgress'
    BY <1>1, <1>3 DEF AckInProgress, rcvVars
  <1>9. PccToldOnce'
    <2> SUFFICES ASSUME NEW i \in 1 .. Len(pccFate')
                 PROVE  /\ Len(pccFate'[i]) <= 1
                        /\ pccFate'[i] = << >> <=> (\E p \in sentTimeMap' : p[1] = i) \/ AckUnreported(i)'
      BY DEF PccToldOnce
    <2>1. ~AckUnreported(i)' /\ ~AckUnreported(i)
      BY <1>1, <1>3 DEF AckUnreported, AckPcs, rcvVars
    <2>2. CASE i = id
      <3>1. <<id, seq>> \in sentTimeMap' /\ <<id, seq>>[1] = i
        BY <2>2, <1>4
      <3>2. pccFate'[i] = << >> /\ Len(pccFate'[i]) = 0
        BY <2>2, <1>6
      <3> QED
        BY <3>1, <3>2
    <2>3. CASE i # id
      <3>1. i \in 1 .. prevPacketId /\ i \in 1 .. Len(pccFate)
        BY <2>3, <1>2, <1>6 DEF id
      <3>2. /\ Len(pccFate[i]) <= 1
            /\ pccFate[i] = << >> <=> (\E p \in sentTimeMap : p[1] = i)
        BY <3>1, <2>1 DEF ReportInv, PccToldOnce
      <3>3. (\E p \in sentTimeMap' : p[1] = i) <=> (\E p \in sentTimeMap : p[1] = i)
        BY <2>3, <1>4
      <3> QED
        BY <3>1, <3>2, <3>3, <2>1, <1>6
    <2> QED
      BY <2>2, <2>3
  <1> QED
    BY <1>4, <1>6, <1>7, <1>8, <1>9 DEF ReportInv

\* No step of the send-queue worker ends the process or affects a report.
LEMMA SndReport ==
  ASSUME NoWrap, SafeInv, ReportInv, Snd
  PROVE  ReportInv'
  <1>1. CASE Transmit
    <2>1. /\ UNCHANGED <<trackerVars, sndSeq, rcvVars, pccFate>> /\ sndPc' = "idle"
      BY <1>1 DEF Transmit
    <2>2. NoExit' /\ InOrder'
      BY <2>1 DEF ReportInv, NoExit, InOrder, rcvVars, trackerVars
    <2>3. Len(pccFate') = prevPacketId' /\ AckInProgress' /\ PccToldOnce'
      BY <2>1 DEF ReportInv, AckInProgress, PccToldOnce, AckUnreported, rcvVars, trackerVars, queueVars
    <2> QED
      BY <2>2, <2>3 DEF ReportInv
  <1> QED
    BY <1>1, PickReport, CommitReport DEF Snd

-----------------------------------------------------------------------------
(* The receive-queue worker: acknowledgements. *)

\* The id of a transmission that is not the latest of a packet that is out is not
\* in sent_time_map_.
LEMMA TimerOwner ==
  ASSUME SafeInv, NEW s \in SeqNos, NEW m \in 1 .. Len(msgRecords[s]),
         NEW p \in sentTimeMap, p[1] = msgRecords[s][m]
  PROVE  m = Len(msgRecords[s]) /\ packetState[s] = "SENT"
  <1>1. /\ msgRecords \in [SeqNos -> Seq(Nat)] /\ sentTimeMap \subseteq (1 .. prevPacketId) \X SeqNos
        /\ TrackerInv
    BY DEF SafeInv, TypeInv, TrackerType
  <1>2. /\ p[2] \in SeqNos /\ packetState[p[2]] = "SENT"
        /\ p[1] = msgRecords[p[2]][Len(msgRecords[p[2]])]
    BY <1>1 DEF TrackerInv, NoStaleTimer, LastId
  <1>3. Len(msgRecords[p[2]]) \in 1 .. Len(msgRecords[p[2]])
    <2>1. Len(msgRecords[p[2]]) \in Nat /\ Len(msgRecords[p[2]]) # 0
      BY <1>1, <1>2 DEF TrackerInv, RecordShape
    <2> QED
      BY <2>1
  <1>4. p[2] = s /\ Len(msgRecords[p[2]]) = m
    <2> DEFINE t == p[2]
               j == Len(msgRecords[t])
    <2>1. t \in SeqNos /\ j \in 1 .. Len(msgRecords[t]) /\ msgRecords[s][m] = msgRecords[t][j]
      BY <1>2, <1>3
    <2> HIDE DEF t, j
    <2>2. s = t /\ m = j
      BY <1>1, <2>1 DEF TrackerInv, IdsUnique
    <2> QED
      BY <2>2 DEF t, j
  <1> QED
    BY <1>2, <1>4

\* An acknowledgement is reported once, and not when the loss was reported before.
LEMMA AckReportInv ==
  ASSUME NoWrap, SafeInv, ReportInv, NEW p \in wire, ProcessAck(p[1], p[2])
  PROVE  ReportInv'
  <1> DEFINE seq == p[1]
             msg == p[2]
             id == msgRecords[seq][msg]
  <1>1. /\ fatal = "no" /\ rcvPc = "recv" /\ sndPc # "picked"
        /\ UNCHANGED <<sndVars, pccFate>> /\ TrackerInv
    BY DEF SafeInv, ProcessAck, RcvAt, PccLockFree, histVars
  <1>2. /\ seq \in SeqNos /\ msg \in Nat /\ msg >= 1
        /\ seq \in Recorded => msg <= Len(msgRecords[seq])
    BY <1>1 DEF SafeInv, TypeInv, HistType, TrackerInv, WireRecorded
  <1>3. /\ msgRecords \in [SeqNos -> Seq(Nat)] /\ packetState \in [SeqNos -> PacketStates]
        /\ Len(msgRecords[seq]) \in Nat
        /\ prevPacketId \in Nat
    BY <1>2 DEF SafeInv, TypeInv, TrackerType
  <1>4. \A i : ~AckUnreported(i)
    BY <1>1 DEF AckUnreported
  <1>5. CASE seq \notin Recorded
    <2>1. Len(msgRecords[seq]) = 0
      BY <1>1, <1>2, <1>5 DEF TrackerInv, RecordShape, Recorded
    <2>2. UNCHANGED trackerVars /\ RcvGoto("timers")
      BY <1>2, <1>5, <2>1 DEF ProcessAck, OnPacketAck, GetPacketLastMsgNo
    <2> QED
      BY <1>1, <2>2, ReportFrame DEF trackerVars, queueVars, RcvGoto, AckPcs
  <1>6. CASE seq \in Recorded
    <2>1. HasMessage(seq, msg) /\ msg \in 1 .. Len(msgRecords[seq])
      BY <1>2, <1>3, <1>6 DEF HasMessage
    <2>2. /\ sentTimeMap' = {q \in sentTimeMap : q[1] # id}
          /\ UNCHANGED <<prevPacketId, fatal>>
          /\ IF msg = Len(msgRecords[seq])
             THEN rcvPc' = "delete" /\ rcvState' = packetState[seq] /\ rcvId' = id
             ELSE rcvPc' = "timers" /\ UNCHANGED <<rcvState, rcvId>>
      BY <1>1, <1>6, <2>1 DEF ProcessAck, OnPacketAck, CancelTimer, GetPacketLastMsgNo, RcvGoto,
                              GetPacketId
    <2>3. id \in 1 .. prevPacketId
      BY <1>1, <1>2, <2>1 DEF TrackerInv, IdsUnique
    <2>4. \A q \in sentTimeMap : q[1] = id => msg = Len(msgRecords[seq]) /\ packetState[seq] = "SENT"
      BY <1>2, <2>1, TimerOwner
    <2>5. packetState[seq] \in {"SENT", "LOST"}
      <3>1. packetState[seq] \in PacketStates /\ Len(msgRecords[seq]) # 0
        BY <1>2, <1>3, <2>1
      <3>2. packetState[seq] \notin {"NONE", "QUEUED"}
        BY <1>1, <1>2, <3>1 DEF TrackerInv, RecordShape
      <3>3. packetState[seq] # "ACKED"
        BY <1>1, <1>2 DEF TrackerInv, NoPacketForgotten
      <3> QED
        BY <3>1, <3>2, <3>3 DEF PacketStates
    <2>6. msg = Len(msgRecords[seq]) /\ packetState[seq] = "SENT" =>
            \E q \in sentTimeMap : q[1] = id
      <3> SUFFICES ASSUME msg = Len(msgRecords[seq]), packetState[seq] = "SENT"
                   PROVE  \E q \in sentTimeMap : q[1] = id
        OBVIOUS
      <3>1. <<id, seq>> \in sentTimeMap
        BY <1>1, <1>2 DEF TrackerInv, NoPacketForgotten, LastId
      <3>2. <<id, seq>>[1] = id
        OBVIOUS
      <3> QED
        BY <3>1, <3>2
    <2> HIDE DEF seq, msg, id
    <2>7. NoExit' /\ InOrder'
      BY <1>1, <2>2 DEF ReportInv, NoExit, InOrder, sndVars
    <2>8. AckInProgress'
      BY <2>2, <2>3, <2>5 DEF AckInProgress, AckPcs
    <2>9. PccToldOnce'
      <3> SUFFICES ASSUME NEW i \in 1 .. Len(pccFate)
                   PROVE  /\ Len(pccFate[i]) <= 1
                          /\ pccFate[i] = << >> <=> (\E q \in sentTimeMap' : q[1] = i) \/ AckUnreported(i)'
        BY <1>1 DEF PccToldOnce
      <3>1. /\ Len(pccFate[i]) <= 1
            /\ pccFate[i] = << >> <=> (\E q \in sentTimeMap : q[1] = i)
        BY <1>4 DEF ReportInv, PccToldOnce
      <3>2. AckUnreported(i)' <=> i = id /\ msg = Len(msgRecords[seq]) /\ packetState[seq] = "SENT"
        BY <2>2, <2>5 DEF AckUnreported
      <3>3. (\E q \in sentTimeMap' : q[1] = i) <=> (\E q \in sentTimeMap : q[1] = i) /\ i # id
        BY <2>2
      <3>4. i = id => ((\E q \in sentTimeMap : q[1] = i)
                        <=> msg = Len(msgRecords[seq]) /\ packetState[seq] = "SENT")
        BY <2>4, <2>6
      <3> QED
        BY <3>1, <3>2, <3>3, <3>4
    <2> QED
      BY <1>1, <2>2, <2>7, <2>8, <2>9 DEF ReportInv
  <1> QED
    BY <1>5, <1>6

\* The report of an acknowledged packet, at the end of ProcessAck.
LEMMA EndOfAckReport ==
  ASSUME NoWrap, SafeInv, ReportInv, AckReport
  PROVE  ReportInv'
  <1>1. /\ fatal = "no" /\ rcvPc = "report" /\ rcvPc' = "timers"
        /\ UNCHANGED <<trackerVars, sndVars, rcvSeq, rcvState, rcvId>>
    BY DEF AckReport, RcvAt, RcvGoto
  <1>2. rcvState \in {"SENT", "LOST"} /\ rcvId \in 1 .. prevPacketId /\ \A p \in sentTimeMap : p[1] # rcvId
    BY <1>1 DEF ReportInv, AckInProgress, AckPcs
  <1>3. /\ Len(pccFate) = prevPacketId /\ prevPacketId \in Nat
        /\ pccFate \in Seq(Seq({"acked", "lost"})) /\ HistType
    BY DEF ReportInv, SafeInv, TypeInv, TrackerType, HistType
  <1>4. \A i : /\ AckUnreported(i) <=> i = rcvId /\ rcvState = "SENT"
               /\ ~AckUnreported(i)'
    BY <1>1, <1>2 DEF AckUnreported
  <1>5. NoExit' /\ InOrder' /\ AckInProgress'
    BY <1>1 DEF ReportInv, NoExit, InOrder, AckInProgress, AckPcs, trackerVars, sndVars, SentInOrder,
                IsTop, queueVars
  <1>6. CASE rcvState = "LOST"
    <2>1. pccFate' = pccFate
      BY <1>6 DEF AckReport
    <2>2. PccToldOnce'
      BY <1>1, <1>4, <1>6, <2>1 DEF ReportInv, PccToldOnce, trackerVars, queueVars
    <2> QED
      BY <1>1, <1>5, <2>1, <2>2 DEF ReportInv, trackerVars
  <1>7. CASE rcvState = "SENT"
    <2>1. /\ ReportToPcc(rcvId, "acked") /\ UNCHANGED <<enqueued, wire>>
      BY <1>2, <1>7 DEF AckReport
    <2>2. Len(pccFate') = Len(pccFate)
      BY <1>3, <2>1, ReportType
    <2>3. /\ pccFate'[rcvId] = Append(pccFate[rcvId], "acked")
          /\ \A i \in 1 .. Len(pccFate) : i # rcvId => pccFate'[i] = pccFate[i]
      BY <1>2, <1>3, <2>1 DEF ReportToPcc
    <2>4. pccFate[rcvId] = << >>
      BY <1>2, <1>3, <1>4, <1>7 DEF ReportInv, PccToldOnce
    <2>5. pccFate'[rcvId] = <<"acked">>
      BY <2>3, <2>4
    <2>6. Len(pccFate'[rcvId]) = 1 /\ pccFate'[rcvId] # << >>
      BY <2>5
    <2>7. PccToldOnce'
      <3> SUFFICES ASSUME NEW i \in 1 .. Len(pccFate)
                   PROVE  /\ Len(pccFate'[i]) <= 1
                          /\ pccFate'[i] = << >> <=> (\E q \in sentTimeMap : q[1] = i)
        BY <1>1, <1>4, <2>2 DEF PccToldOnce, trackerVars, queueVars
      <3>1. CASE i = rcvId
        BY <3>1, <1>2, <2>6
      <3>2. CASE i # rcvId
        BY <3>2, <1>4, <2>3 DEF ReportInv, PccToldOnce
      <3> QED
        BY <3>1, <3>2
    <2> QED
      BY <1>1, <1>3, <1>5, <2>2, <2>7 DEF ReportInv, trackerVars
  <1> QED
    BY <1>2, <1>6, <1>7

-----------------------------------------------------------------------------
(* The receive-queue worker: timers. *)

\* The choice of checkTimers affects no report.
LEMMA OldestReport ==
  ASSUME NoWrap, SafeInv, ReportInv, OldestSent
  PROVE  ReportInv'
  <1>1. /\ fatal = "no" /\ rcvPc = "timers" /\ rcvPc' = "oldest"
        /\ UNCHANGED <<packetState, sendQueue, retransmittableQueue, sentTimeMap, prevPacketId, fatal,
                       sndVars, rcvState, rcvId, pccFate>>
    BY DEF OldestSent, RcvAt, histVars
  <1>2. rcvSeq' = 0 \/ packetState[rcvSeq'] = "SENT"
    BY DEF OldestSent, SafeInv, TrackerInv, NoStaleTimer
  <1>3. NoExit' /\ InOrder'
    BY <1>1, <1>2 DEF ReportInv, NoExit, InOrder, sndVars, SentInOrder, IsTop
  <1>4. AckInProgress' /\ PccToldOnce'
    BY <1>1 DEF ReportInv, AckInProgress, AckPcs, PccToldOnce, AckUnreported
  <1> QED
    BY <1>1, <1>3, <1>4 DEF ReportInv

\* A loss is reported for a transmission with an armed timer, which has no report yet.
LEMMA LossReport ==
  ASSUME NoWrap, SafeInv, ReportInv, AddToLossRecord
  PROVE  ReportInv'
  <1> DEFINE seq == rcvSeq
             last == Len(msgRecords[seq])
             id == msgRecords[seq][last]
  <1>1. /\ fatal = "no" /\ rcvPc = "lost" /\ RcvGoto("timers") /\ sndPc # "picked"
        /\ OnPacketLoss(seq, last)
        /\ UNCHANGED <<sndVars, enqueued, wire>>
        /\ IF seq \in Recorded /\ last > 0 THEN ReportToPcc(GetPacketId(seq, last), "lost")
                                           ELSE UNCHANGED pccFate
    BY DEF AddToLossRecord, RcvAt, PccLockFree, GetPacketLastMsgNo
  <1>2. /\ seq \in SeqNos /\ msgRecords \in [SeqNos -> Seq(Nat)] /\ prevPacketId \in Nat
        /\ last \in Nat /\ Len(pccFate) = prevPacketId
        /\ pccFate \in Seq(Seq({"acked", "lost"})) /\ HistType
    BY DEF SafeInv, TypeInv, TrackerType, RcvType, HistType, ReportInv
  <1>3. CASE seq \notin Recorded
    BY <1>1, <1>3, ReportFrame DEF OnPacketLoss, trackerVars, queueVars, RcvGoto, AckPcs
  <1>4. CASE seq \in Recorded
    <2>1. packetState[seq] = "SENT"
      BY <1>1, <1>4, NoWrapOrder DEF ReportInv, InOrder
    <2>2. last \in 1 .. Len(msgRecords[seq]) /\ last > 0
      <3>1. Len(msgRecords[seq]) # 0
        BY <1>2, <2>1 DEF SafeInv, TrackerInv, RecordShape
      <3> QED
        BY <1>2, <3>1
    <2>3. /\ sentTimeMap' = {q \in sentTimeMap : q[1] # id}
          /\ UNCHANGED <<prevPacketId, fatal>>
          /\ ReportToPcc(id, "lost")
      BY <1>1, <1>4, <2>2 DEF OnPacketLoss, HasMessage, CancelTimer, GetPacketId
    <2>4. id \in 1 .. prevPacketId
      BY <1>2, <2>2 DEF SafeInv, TrackerInv, IdsUnique
    <2>5. \E q \in sentTimeMap : q[1] = id
      <3>1. <<id, seq>> \in sentTimeMap
        BY <1>2, <2>1 DEF SafeInv, TrackerInv, NoPacketForgotten, LastId
      <3>2. <<id, seq>>[1] = id
        OBVIOUS
      <3> QED
        BY <3>1, <3>2
    <2> HIDE DEF seq, last, id
    <2>6. Len(pccFate') = Len(pccFate)
      BY <1>1, <1>2, <2>3, ReportType
    <2>7. /\ pccFate'[id] = Append(pccFate[id], "lost")
          /\ \A i \in 1 .. Len(pccFate) : i # id => pccFate'[i] = pccFate[i]
      BY <1>2, <2>3, <2>4 DEF ReportToPcc
    <2>8. pccFate[id] = << >>
      BY <1>2, <2>4, <2>5 DEF ReportInv, PccToldOnce
    <2>9. pccFate'[id] = <<"lost">>
      BY <2>7, <2>8
    <2>10. Len(pccFate'[id]) = 1 /\ pccFate'[id] # << >>
      BY <2>9
    <2>11. \A i : ~AckUnreported(i) /\ ~AckUnreported(i)'
      BY <1>1 DEF AckUnreported, RcvGoto
    <2>12. PccToldOnce'
      <3> SUFFICES ASSUME NEW i \in 1 .. Len(pccFate)
                   PROVE  /\ Len(pccFate'[i]) <= 1
                          /\ pccFate'[i] = << >> <=> (\E q \in sentTimeMap' : q[1] = i)
        BY <2>6, <2>11 DEF PccToldOnce
      <3>1. CASE i = id
        BY <3>1, <2>3, <2>10
      <3>2. CASE i # id
        <4>1. (\E q \in sentTimeMap' : q[1] = i) <=> (\E q \in sentTimeMap : q[1] = i)
          BY <3>2, <2>3
        <4> QED
          BY <3>2, <4>1, <2>7, <2>11 DEF ReportInv, PccToldOnce
      <3> QED
        BY <3>1, <3>2
    <2>13. NoExit' /\ InOrder' /\ AckInProgress'
      BY <1>1, <2>3 DEF ReportInv, NoExit, InOrder, AckInProgress, AckPcs, RcvGoto, sndVars
    <2> QED
      BY <1>2, <2>3, <2>6, <2>12, <2>13 DEF ReportInv
  <1> QED
    BY <1>3, <1>4

\* No step of the receive-queue worker ends the process or reports a transmission twice.
LEMMA RcvReport ==
  ASSUME NoWrap, SafeInv, ReportInv, Rcv
  PROVE  ReportInv'
  <1>1. ASSUME NEW p \in wire, ProcessAck(p[1], p[2]) PROVE ReportInv'
    BY <1>1, AckReportInv
  <1>2. CASE AckDelete
    <2>1. /\ fatal = "no" /\ fatal' = "no" /\ rcvPc = "delete" /\ rcvPc' = "minseq"
          /\ UNCHANGED <<queueVars, prevPacketId, sndVars, rcvSeq>>
      BY <1>2, DeleteSucceeds
    <2>2. UNCHANGED <<rcvState, rcvId, pccFate>>
      BY <1>2 DEF AckDelete, RcvGoto, histVars
    <2>3. sndPc # "picked"
      BY <2>1 DEF SafeInv, TrackerInv, WorkersInv, AckPcs
    <2>4. NoExit' /\ InOrder'
      BY <2>1, <2>3 DEF NoExit, InOrder, sndVars
    <2>5. AckInProgress' /\ PccToldOnce'
      BY <2>1, <2>2 DEF ReportInv, AckInProgress, AckPcs, PccToldOnce, AckUnreported, queueVars
    <2> QED
      BY <2>1, <2>2, <2>4, <2>5 DEF ReportInv
  <1>3. CASE AckReport
    BY <1>3, EndOfAckReport
  <1>4. CASE OldestSent
    BY <1>4, OldestReport
  <1>5. CASE AddToLossRecord
    BY <1>5, LossReport
  <1>6. CASE OldestOverdue
    <2>1. ~(rcvSeq \in Recorded /\ GetPacketLastMsgNo(rcvSeq) = 0)
      <3> SUFFICES ASSUME rcvSeq \in Recorded PROVE GetPacketLastMsgNo(rcvSeq) # 0
        OBVIOUS
      <3>1. rcvSeq \in SeqNos /\ packetState[rcvSeq] = "SENT"
        BY <1>6, NoWrapOrder DEF OldestOverdue, RcvAt, ReportInv, InOrder, Recorded
      <3> QED
        BY <3>1 DEF SafeInv, TrackerInv, RecordShape, GetPacketLastMsgNo
    <2>2. UNCHANGED <<trackerVars, sndVars, pccFate>> /\ RcvGoto("lost") /\ RcvAt("oldest")
      BY <1>6, <2>1 DEF OldestOverdue, histVars
    <2> QED
      BY <2>2, ReportFrame DEF trackerVars, queueVars, RcvGoto, RcvAt, AckPcs
  <1>7. CASE AckMinSeq \/ AckSignal \/ NoDatagram \/ TimersDone \/ OldestGone \/ OldestNotOverdue
    <2>1. /\ UNCHANGED <<packetState, queueVars, prevPacketId, sndVars, rcvSeq, rcvState, rcvId, pccFate>>
          /\ fatal = "no" /\ fatal' # "exit"
      BY <1>7 DEF AckMinSeq, AckSignal, NoDatagram, TimersDone, OldestGone, OldestNotOverdue,
                  Segfault, trackerVars, histVars, RcvAt, RcvGoto
    <2>2. /\ rcvPc \in AckPcs <=> rcvPc' \in AckPcs
          /\ rcvPc' \notin {"oldest", "lost"}
      BY <1>7 DEF AckMinSeq, AckSignal, NoDatagram, TimersDone, OldestGone, OldestNotOverdue,
                  AckPcs, RcvAt, RcvGoto
    <2> QED
      BY <2>1, <2>2, ReportFrame DEF queueVars
  <1> QED
    BY <1>1, <1>2, <1>3, <1>4, <1>5, <1>6, <1>7 DEF Rcv

-----------------------------------------------------------------------------
(* The theorems. *)

\* The invariant about the reports is inductive, given that of SenderProofs.
LEMMA ReportInvStep ==
  ASSUME NoWrap PROVE SafeInv /\ ReportInv /\ [Next]_vars => ReportInv'
  <1> SUFFICES ASSUME SafeInv, ReportInv, [Next]_vars PROVE ReportInv'
    OBVIOUS
  <1>1. CASE UNCHANGED vars
    BY <1>1, ReportFrame DEF vars, trackerVars, queueVars, rcvVars, histVars, ReportInv, NoExit
  <1> QED
    BY <1>1, AppReport, SndReport, RcvReport DEF Next

\* The invariant about the reports holds in every reachable state.
LEMMA ReportInvHolds == ASSUME NoWrap PROVE Spec => []ReportInv
  BY InitReportInv, ReportInvStep, SafeInvHolds, PTL DEF Spec

\* Without a wrap of the sequence numbers no exit(-1) of the tracker is reached,
\* however the threads interleave.
THEOREM ProcessNeverExits == ASSUME NoWrap PROVE Spec => []NoExit
  <1>1. ReportInv => NoExit
    BY DEF ReportInv
  <1> QED
    BY <1>1, ReportInvHolds, PTL

\* Without a wrap of the sequence numbers PCC hears of every transmission at most
\* once, and the ones it has not heard of are those with an armed timer or the one
\* whose acknowledgement is in progress.
THEOREM PccNeverToldTwice == ASSUME NoWrap PROVE Spec => []PccToldOnce
  <1>1. ReportInv => PccToldOnce
    BY DEF ReportInv
  <1> QED
    BY <1>1, ReportInvHolds, PTL
=============================================================================
