-------------------------- MODULE SenderTypeProofs --------------------------
(***************************************************************************)
(* Type correctness of the Sender specification, for every sequence space, *)
(* buffer size, packet limit and bound on the length of a behaviour.       *)
(* TypeOK is split by the thread that writes a variable.  It is not        *)
(* inductive as it stands: EnqueuePacket is given m_iSndCurrSeqNo, which   *)
(* is one less than m_iISN, and so may be -1, until the first              *)
(* GetNextSeqNo.                                                           *)
(***************************************************************************)
EXTENDS Sender, SequenceTheorems, TLAPS

USE SeqNoAssumption, PacketLimitAssumption, SenderAssumption

TrackerType ==
  /\ packetState \in [SeqNos -> PacketStates]
  /\ msgRecords \in [SeqNos -> Seq(Nat)]
  /\ sendQueue \subseteq SeqNos /\ retransmittableQueue \subseteq SeqNos
  /\ prevPacketId \in Nat
  /\ sentQueue \subseteq 1 .. prevPacketId
  /\ sentTimeMap \subseteq (1 .. prevPacketId) \X SeqNos
  /\ curMinSeq \in SeqNos \cup {NULL}
  /\ fatal \in {"no", "exit", "segv"}

UdtType ==
  /\ sndCurrSeqNo \in SeqNos \cup {-1} /\ sndLastDataAck \in SeqNos
  /\ sndCount \in Int /\ sndCount <= SndBufSize /\ bytesInFlight \in Int /\ sndLossTotal \in Nat
  /\ scheduled \in BOOLEAN

AppType ==
  /\ appPc \in AppPcs /\ appMode \in SendModeNames
  /\ appLen \in Nat /\ appQueued \in Nat /\ appRet \in Int

SndType == sndPc \in SndPcs /\ sndSeq \in SeqNos

RcvType == rcvPc \in RcvPcs /\ rcvSeq \in SeqNos /\ rcvState \in PacketStates /\ rcvId \in Nat

HistType == /\ enqueued \in Nat
            /\ wire \subseteq SeqNos \X Nat
            /\ pccFate \in Seq(Seq({"acked", "lost"}))

NextAllocated == appPc \in {"compare", "record"} => sndCurrSeqNo \in SeqNos

TypeInv == /\ TrackerType /\ UdtType /\ AppType /\ SndType /\ RcvType /\ HistType
           /\ NextAllocated

\* The parts by thread imply the type invariant that TLC checks.
LEMMA TypeInvImpliesTypeOK == TypeInv => TypeOK
  BY DEF TypeInv, TypeOK, TrackerType, UdtType, AppType, SndType, RcvType, HistType

\* The initial values have their types.
LEMMA InitTypeInv == Init => TypeInv
  BY DEF Init, TrackerInit, TypeInv, SeqNos, PacketStates, NULL, AppPcs, SndPcs, RcvPcs,
         SendModeNames, TrackerType, UdtType, AppType, SndType, RcvType, HistType, NextAllocated

\* What a step that leaves a group of variables alone preserves.
LEMMA TypeFrame ==
  /\ TrackerType /\ UNCHANGED trackerVars => TrackerType'
  /\ UdtType /\ UNCHANGED udtVars => UdtType'
  /\ AppType /\ UNCHANGED appVars => AppType'
  /\ SndType /\ UNCHANGED sndVars => SndType'
  /\ RcvType /\ UNCHANGED rcvVars => RcvType'
  /\ HistType /\ UNCHANGED histVars => HistType'
  /\ NextAllocated /\ UNCHANGED sndCurrSeqNo /\ UNCHANGED appPc => NextAllocated'
  BY DEF TrackerType, UdtType, AppType, SndType, RcvType, HistType, NextAllocated,
         trackerVars, queueVars, udtVars, appVars, sndVars, rcvVars, histVars

\* A step of send() that only moves on keeps the types of its variables.
LEMMA GotoType ==
  /\ \A pc \in AppPcs : AppType /\ SendGoto(pc) => AppType'
  /\ AppType /\ SendThrow => AppType'
  /\ \A pc \in RcvPcs : RcvType /\ RcvGoto(pc) => RcvType'
  BY DEF AppType, SendGoto, SendThrow, AppPcs, RcvType, RcvGoto, RcvPcs

\* The steps of send() keep the types.
LEMMA AppTypeInv == TypeInv /\ App => TypeInv'
  <1> SUFFICES ASSUME TypeInv, App PROVE TypeInv'
    OBVIOUS
  <1> USE DEF TypeInv
  <1>1. ASSUME NEW len \in SendLens, NEW mode \in SendModes, SendCall(len, mode) PROVE TypeInv'
    <2>1. AppType' /\ NextAllocated'
      BY <1>1 DEF SendCall, AppType, AppPcs, NextAllocated
    <2> QED BY <2>1, <1>1, TypeFrame DEF SendCall
  <1>2. CASE SendEntry
    <2>1. AppType'
      BY <1>2, GotoType DEF SendEntry, AppPcs
    <2>2. NextAllocated'
      BY <1>2 DEF SendEntry, NextAllocated, SendGoto, SendThrow, udtVars
    <2> QED
      BY <2>1, <2>2, <1>2, TypeFrame DEF SendEntry
  <1>3. CASE SendLoop
    <2>1. AppType'
      BY <1>3, GotoType DEF SendLoop, AppPcs
    <2>2. NextAllocated'
      BY <1>3 DEF SendLoop, NextAllocated, SendGoto, SendThrow, udtVars
    <2> QED
      BY <2>1, <2>2, <1>3, TypeFrame DEF SendLoop
  <1>4. CASE SendWait
    <2>1. AppType'
      BY <1>4, GotoType DEF SendWait, AppPcs
    <2>2. NextAllocated'
      BY <1>4 DEF SendWait, NextAllocated, SendGoto, SendThrow, udtVars
    <2> QED
      BY <2>1, <2>2, <1>4, TypeFrame DEF SendWait
  <1>5. CASE SendTimeout
    <2>1. AppType'
      BY <1>5, GotoType DEF SendTimeout, AppPcs
    <2>2. NextAllocated'
      BY <1>5 DEF SendTimeout, NextAllocated, SendGoto, SendThrow, udtVars
    <2> QED
      BY <2>1, <2>2, <1>5, TypeFrame DEF SendTimeout
  <1>6. CASE SendRecheck
    <2>1. AppType'
      BY <1>6, GotoType DEF SendRecheck, AppPcs, AppType
    <2>2. NextAllocated'
      BY <1>6 DEF SendRecheck, NextAllocated, SendGoto, SendThrow, udtVars
    <2> QED
      BY <2>1, <2>2, <1>6, TypeFrame DEF SendRecheck
  <1>7. CASE SendNext
    <2>1. sndCurrSeqNo' \in SeqNos
      BY <1>7 DEF SendNext, UdtType, incseq, SeqNos
    <2>2. UdtType' /\ NextAllocated'
      BY <2>1, <1>7 DEF SendNext, UdtType, NextAllocated
    <2>3. AppType'
      BY <1>7, GotoType DEF SendNext, AppPcs
    <2>4. TrackerType'
      BY <2>1, <1>7, TypeFrame DEF SendNext, EnqueueMinAbsent, EnqueueMinPresent, TrackerType,
                                  queueVars
    <2> QED
      BY <2>2, <2>3, <2>4, <1>7, TypeFrame DEF SendNext
  <1>8. CASE SendCompare
    <2>1. AppType'
      BY <1>8, GotoType DEF SendCompare, AppPcs
    <2>2. NextAllocated'
      BY <1>8 DEF SendCompare, NextAllocated, AppAt, udtVars
    <2>3. TrackerType'
      BY <1>8, TypeFrame DEF SendCompare, EnqueueMinCompare, Segfault, TrackerType, queueVars,
                             NextAllocated, AppAt
    <2> QED
      BY <2>1, <2>2, <2>3, <1>8, TypeFrame DEF SendCompare
  <1>9. CASE SendRecord
    <2>1. AppType' /\ NextAllocated' /\ HistType'
      BY <1>9 DEF SendRecord, AppType, AppPcs, NextAllocated, HistType, AppAt
    <2>2. CASE ExitProcess
      BY <2>1, <2>2, <1>9, TypeFrame DEF SendRecord, ExitProcess, TrackerType, queueVars
    <2>3. CASE ~ExitProcess
      <3>1. /\ packetState' = [packetState EXCEPT ![sndCurrSeqNo] = "QUEUED"]
            /\ msgRecords' = [msgRecords EXCEPT ![sndCurrSeqNo] = << >>]
            /\ sendQueue' = sendQueue \cup {sndCurrSeqNo}
            /\ UNCHANGED <<retransmittableQueue, sentQueue, sentTimeMap, prevPacketId, curMinSeq,
                           fatal>>
        BY <2>3, <1>9 DEF SendRecord, EnqueueRecord
      <3>2. sndCurrSeqNo \in SeqNos
        BY <1>9 DEF SendRecord, NextAllocated, AppAt
      <3>3. TrackerType'
        BY <3>1, <3>2 DEF TrackerType, PacketStates
      <3> QED
        BY <2>1, <3>3, <1>9, TypeFrame DEF SendRecord
    <2> QED
      BY <2>2, <2>3
  <1>10. CASE SendFinish
    <2>1. UdtType' /\ AppType' /\ NextAllocated'
      BY <1>10 DEF SendFinish, SentSize, UdtType, AppType, AppPcs, NextAllocated
    <2> QED
      BY <2>1, <1>10, TypeFrame DEF SendFinish
  <1> QED
    BY <1>1, <1>2, <1>3, <1>4, <1>5, <1>6, <1>7, <1>8, <1>9, <1>10 DEF App

\* A transmission is appended to the record of its packet.
LEMMA SentType ==
  ASSUME TrackerType, NEW seq \in SeqNos, OnPacketSent(seq)
  PROVE  TrackerType'
  <1>1. CASE ExitProcess
    BY <1>1 DEF ExitProcess, TrackerType, queueVars
  <1>2. CASE ~ExitProcess
    <2>1. /\ prevPacketId' = prevPacketId + 1
          /\ packetState' = [packetState EXCEPT ![seq] = "SENT"]
          /\ msgRecords' = [msgRecords EXCEPT ![seq] = Append(@, prevPacketId')]
          /\ sentQueue' = sentQueue \cup {prevPacketId'}
          /\ sentTimeMap' = sentTimeMap \cup {<<prevPacketId', seq>>}
          /\ sendQueue' \subseteq sendQueue
          /\ retransmittableQueue' \subseteq retransmittableQueue
          /\ UNCHANGED <<curMinSeq, fatal>>
      BY <1>2 DEF OnPacketSent
    <2> USE DEF TrackerType
    <2>2. packetState' \in [SeqNos -> PacketStates]
      BY <2>1 DEF PacketStates
    <2>3. prevPacketId' \in Nat /\ \A i \in 1 .. prevPacketId : i \in 1 .. prevPacketId'
      BY <2>1
    <2>4. msgRecords' \in [SeqNos -> Seq(Nat)]
      BY <2>1, <2>3
    <2>5. prevPacketId' \in 1 .. prevPacketId'
      BY <2>1
    <2>6. sentQueue' \subseteq 1 .. prevPacketId'
      BY <2>1, <2>3, <2>5
    <2>7. sentTimeMap' \subseteq (1 .. prevPacketId') \X SeqNos
      BY <2>1, <2>3, <2>5
    <2>8. sendQueue' \subseteq SeqNos /\ retransmittableQueue' \subseteq SeqNos
      BY <2>1
    <2> QED
      BY <2>1, <2>2, <2>3, <2>4, <2>6, <2>7, <2>8
  <1> QED
    BY <1>1, <1>2

\* The steps of packData and of the send-queue worker keep the types.
LEMMA SndTypeInv == TypeInv /\ Snd => TypeInv'
  <1> SUFFICES ASSUME TypeInv, Snd PROVE TypeInv'
    OBVIOUS
  <1> USE DEF TypeInv
  <1>1. CASE PackRetransmission
    <2>1. TrackerType' /\ SndType'
      BY <1>1 DEF PackRetransmission, TrackerType, SndType, SndPcs, Purged
    <2>2. NextAllocated'
      BY <1>1 DEF PackRetransmission, NextAllocated, udtVars, appVars
    <2> QED
      BY <2>1, <2>2, <1>1, TypeFrame DEF PackRetransmission
  <1>2. CASE PackNewPacket
    <2>1. TrackerType' /\ SndType'
      BY <1>2 DEF PackNewPacket, TrackerType, SndType, SndPcs, Purged
    <2>2. UdtType' /\ NextAllocated'
      BY <1>2 DEF PackNewPacket, UdtType, NextAllocated, appVars
    <2> QED
      BY <2>1, <2>2, <1>2, TypeFrame DEF PackNewPacket
  <1>3. CASE PackCommit
    <2>1. TrackerType'
      BY <1>3, SentType DEF PackCommit, SndType
    <2>2. SndType' /\ NextAllocated'
      BY <1>3 DEF PackCommit, SndType, SndPcs, NextAllocated, udtVars, appVars
    <2>3. HistType'
      BY <1>3 DEF PackCommit, HistType
    <2> QED
      BY <2>1, <2>2, <2>3, <1>3, TypeFrame DEF PackCommit
  <1>4. CASE Transmit
    <2>1. SndType' /\ NextAllocated'
      BY <1>4 DEF Transmit, SndType, SndPcs, NextAllocated, udtVars, appVars
    <2>2. HistType'
      BY <1>4 DEF Transmit, HistType, GetPacketLastMsgNo, TrackerType, SndType
    <2> QED
      BY <2>1, <2>2, <1>4, TypeFrame DEF Transmit
  <1> QED
    BY <1>1, <1>2, <1>3, <1>4 DEF Snd

\* A report appends to the fate of a transmission, if PCC knows the transmission.
LEMMA ReportType ==
  ASSUME HistType, NEW id, NEW fate \in {"acked", "lost"}, ReportToPcc(id, fate),
         UNCHANGED <<enqueued, wire>>
  PROVE  HistType' /\ Len(pccFate') = Len(pccFate)
  <1> DEFINE T == Seq({"acked", "lost"})
  <1>1. pccFate \in [1 .. Len(pccFate) -> T] /\ Len(pccFate) \in Nat
    BY DEF HistType
  <1>2. CASE id \in 1 .. Len(pccFate)
    <2>1. pccFate[id] \in T
      BY <1>1, <1>2
    <2>2. Append(pccFate[id], fate) \in T
      BY <2>1
    <2>3. pccFate' = [pccFate EXCEPT ![id] = Append(pccFate[id], fate)]
      BY DEF ReportToPcc
    <2>4. pccFate \in Seq(T)
      BY DEF HistType
    <2> HIDE DEF T
    <2>5. pccFate' \in Seq(T) /\ Len(pccFate') = Len(pccFate)
      BY <1>2, <2>2, <2>3, <2>4, ExceptSeq
    <2> QED
      BY <2>5 DEF HistType, T
  <1>3. CASE id \notin 1 .. Len(pccFate)
    <2>1. pccFate' = pccFate
      BY <1>1, <1>3 DEF ReportToPcc
    <2> QED
      BY <2>1 DEF HistType
  <1> QED
    BY <1>2, <1>3

\* DeletePacketRecord keeps the types of the tracker.
LEMMA DeleteType ==
  ASSUME TrackerType, NEW seq \in SeqNos, DeletePacketRecord(seq)
  PROVE  TrackerType'
  <1>1. CASE ExitProcess \/ Segfault
    BY <1>1 DEF ExitProcess, Segfault, TrackerType, queueVars
  <1>2. CASE ~ExitProcess /\ ~Segfault
    <2>1. /\ packetState' = [packetState EXCEPT ![seq] = "NONE"]
          /\ msgRecords' = [msgRecords EXCEPT ![seq] = << >>]
          /\ curMinSeq' = curMinSeq \/ curMinSeq' = NULL \/ curMinSeq' \in Recorded
          /\ UNCHANGED <<queueVars, prevPacketId, fatal>>
      BY <1>2 DEF DeletePacketRecord
    <2>2. curMinSeq' \in SeqNos \cup {NULL}
      BY <2>1 DEF Recorded, TrackerType
    <2>3. packetState' \in [SeqNos -> PacketStates] /\ msgRecords' \in [SeqNos -> Seq(Nat)]
      BY <2>1 DEF TrackerType, PacketStates
    <2> QED
      BY <2>1, <2>2, <2>3 DEF TrackerType, queueVars
  <1> QED
    BY <1>1, <1>2

\* The steps of ProcessAck and checkTimers keep the types.
LEMMA RcvTypeInv == TypeInv /\ Rcv => TypeInv'
  <1> SUFFICES ASSUME TypeInv, Rcv PROVE TypeInv'
    OBVIOUS
  <1> USE DEF TypeInv
  <1>1. ASSUME NEW p \in wire, ProcessAck(p[1], p[2]) PROVE TypeInv'
    <2>1. p[1] \in SeqNos /\ p[2] \in Nat
      BY <1>1 DEF HistType
    <2>2. TrackerType'
      BY <1>1, <2>1, TypeFrame DEF ProcessAck, OnPacketAck, ExitProcess, CancelTimer, UpdateRecord,
                                TrackerType, PacketStates, queueVars
    <2>3. RcvType'
      <3>1. CASE p[2] = GetPacketLastMsgNo(p[1]) /\ fatal' = "no"
        <4>1. p[1] \in Recorded => HasMessage(p[1], p[2])
          BY <1>1, <3>1 DEF ProcessAck, OnPacketAck, ExitProcess
        <4>2. GetPacketId(p[1], p[2]) \in Nat
          BY <4>1, <2>1 DEF GetPacketId, HasMessage, TrackerType
        <4> QED
          BY <1>1, <3>1, <4>2, <2>1 DEF ProcessAck, RcvType, RcvPcs, TrackerType
      <3>2. CASE ~(p[2] = GetPacketLastMsgNo(p[1]) /\ fatal' = "no")
        BY <1>1, <3>2, GotoType DEF ProcessAck, RcvPcs
      <3> QED
        BY <3>1, <3>2
    <2>4. NextAllocated'
      BY <1>1 DEF ProcessAck, NextAllocated, udtVars, appVars
    <2> QED
      BY <2>2, <2>3, <2>4, <1>1, TypeFrame DEF ProcessAck
  <1>2. CASE AckDelete
    <2>1. TrackerType'
      BY <1>2, DeleteType DEF AckDelete, RcvType
    <2>2. AppType' /\ NextAllocated'
      BY <1>2, GotoType, TypeFrame DEF AckDelete, Signal, AppPcs, SendGoto, NextAllocated, udtVars, appVars
    <2>3. RcvType'
      BY <1>2, GotoType DEF AckDelete, RcvPcs
    <2> QED
      BY <2>1, <2>2, <2>3, <1>2, TypeFrame DEF AckDelete
  <1>3. CASE AckMinSeq
    <2>1. TrackerType'
      BY <1>3, TypeFrame DEF AckMinSeq, Segfault, TrackerType, queueVars
    <2>2. RcvType'
      BY <1>3, GotoType DEF AckMinSeq, RcvPcs
    <2>3. NextAllocated'
      BY <1>3 DEF AckMinSeq, NextAllocated, appVars, udtVars
    <2>4. UdtType'
      <3>1. CASE curMinSeq = NULL
        BY <1>3, <3>1, TypeFrame DEF AckMinSeq
      <3>2. CASE curMinSeq # NULL
        <4>1. curMinSeq \in SeqNos
          BY <3>2 DEF TrackerType
        <4>2. sndLastDataAck \in Int /\ curMinSeq \in Int
          BY <4>1 DEF UdtType, SeqNos
        <4> DEFINE offset == seqoff(sndLastDataAck, curMinSeq)
        <4>3. offset \in Int
          BY <4>2 DEF seqoff
        <4> HIDE DEF offset
        <4>4. /\ UNCHANGED <<sndCurrSeqNo, bytesInFlight, sndLossTotal, scheduled>>
              /\ \/ offset > 0 /\ sndCount' = sndCount - offset /\ sndLastDataAck' = curMinSeq
                 \/ UNCHANGED <<sndCount, sndLastDataAck>>
          BY <1>3, <3>2 DEF AckMinSeq, offset
        <4> QED
          BY <4>1, <4>3, <4>4 DEF UdtType
      <3> QED
        BY <3>1, <3>2
    <2> QED
      BY <2>1, <2>2, <2>3, <2>4, <1>3, TypeFrame DEF AckMinSeq
  <1>4. CASE AckSignal
    <2>1. AppType' /\ NextAllocated'
      BY <1>4, GotoType, TypeFrame DEF AckSignal, Signal, AppPcs, SendGoto, NextAllocated, udtVars, appVars
    <2>2. RcvType'
      BY <1>4, GotoType DEF AckSignal, RcvPcs
    <2> QED
      BY <2>1, <2>2, <1>4, TypeFrame DEF AckSignal
  <1>5. CASE AckReport
    <2>1. RcvType'
      BY <1>5, GotoType DEF AckReport, RcvPcs
    <2>2. UdtType' /\ NextAllocated'
      BY <1>5 DEF AckReport, UdtType, NextAllocated, appVars
    <2>3. HistType'
      BY <1>5, ReportType DEF AckReport, HistType
    <2> QED
      BY <2>1, <2>2, <2>3, <1>5, TypeFrame DEF AckReport
  <1>6. CASE NoDatagram \/ TimersDone \/ OldestGone \/ OldestNotOverdue
    <2>1. RcvType'
      BY <1>6, GotoType DEF NoDatagram, TimersDone, OldestGone, OldestNotOverdue, RcvPcs
    <2>2. NextAllocated'
      BY <1>6 DEF NoDatagram, TimersDone, OldestGone, OldestNotOverdue, NextAllocated, udtVars, appVars
    <2> QED
      BY <2>1, <2>2, <1>6, TypeFrame DEF NoDatagram, TimersDone, OldestGone, OldestNotOverdue
  <1>7. CASE OldestSent
    <2>1. TrackerType'
      BY <1>7 DEF OldestSent, TrackerType, SentPurged
    <2>0. rcvSeq' \in SeqNos
      <3>1. 0 \in SeqNos /\ \A p \in sentTimeMap : p[2] \in SeqNos
        BY DEF SeqNos, TrackerType
      <3> QED
        BY <1>7, <3>1 DEF OldestSent
    <2>3. RcvType'
      BY <1>7, <2>0 DEF OldestSent, RcvType, RcvPcs
    <2>2. NextAllocated'
      BY <1>7 DEF OldestSent, NextAllocated, udtVars, appVars
    <2> QED
      BY <2>1, <2>2, <2>3, <1>7, TypeFrame DEF OldestSent
  <1>8. CASE OldestOverdue
    <2>1. TrackerType'
      BY <1>8, TypeFrame DEF OldestOverdue, TrackerType, ExitProcess, queueVars
    <2>2. RcvType' /\ NextAllocated'
      BY <1>8, GotoType DEF OldestOverdue, RcvPcs, NextAllocated, udtVars, appVars
    <2> QED
      BY <2>1, <2>2, <1>8, TypeFrame DEF OldestOverdue
  <1>9. CASE AddToLossRecord
    <2>1. TrackerType'
      BY <1>9, TypeFrame DEF AddToLossRecord, OnPacketLoss, ExitProcess, CancelTimer, UpdateRecord,
                             TrackerType, PacketStates, queueVars, RcvType
    <2>2. RcvType' /\ NextAllocated'
      BY <1>9, GotoType DEF AddToLossRecord, RcvPcs, NextAllocated, appVars
    <2>3. UdtType'
      BY <1>9 DEF AddToLossRecord, UdtType
    <2>4. HistType'
      BY <1>9, ReportType DEF AddToLossRecord, HistType
    <2> QED
      BY <2>1, <2>2, <2>3, <2>4, <1>9, TypeFrame DEF AddToLossRecord
  <1> QED
    BY <1>1, <1>2, <1>3, <1>4, <1>5, <1>6, <1>7, <1>8, <1>9 DEF Rcv

\* The type invariant is inductive.
LEMMA TypeInvStep == TypeInv /\ [Next]_vars => TypeInv'
  <1>1. TypeInv /\ UNCHANGED vars => TypeInv'
    BY TypeFrame DEF TypeInv, vars, udtVars, appVars
  <1> QED
    BY <1>1, AppTypeInv, SndTypeInv, RcvTypeInv DEF Next

\* Every variable of the sender keeps its type: sequence numbers stay in their space
\* across the wrap, timers name transmissions that took place, and the send buffer
\* holds at most SndBufSize packets.
THEOREM TypeCorrect == Spec => []TypeOK
  BY InitTypeInv, TypeInvStep, TypeInvImpliesTypeOK, PTL DEF Spec
=============================================================================
