------------------------------- MODULE Sender -------------------------------
(***************************************************************************)
(* The sending side of a connected CUDT socket (src/core/core.cpp): the    *)
(* application thread in send(), the send-queue worker in packData(), and  *)
(* the receive-queue worker in ProcessAck() and checkTimers(), around one  *)
(* PacketTracker.                                                          *)
(*                                                                         *)
(* The two workers exclude each other with the global pcc_sender_lock; the *)
(* application thread takes only lock_ (inside the tracker) and            *)
(* m_SendBlockLock.  All packets carry one payload unit, so sizes count    *)
(* packets.  The peer and the network are abstract: any transmission that  *)
(* has left may be acknowledged, at any time, any number of times, in any  *)
(* order, or never.                                                        *)
(***************************************************************************)
EXTENDS PacketTracker

CONSTANTS ISN,          \* m_iISN, the initial sequence number
          SndBufSize,   \* m_iSndBufSize, in packets
          SendLens,     \* bound: packets that a call of send() may be asked to send
          SendModes,    \* how send() may be called: see SendModeNames
          MaxEnqueued,  \* bound: packets enqueued in a behaviour
          MaxTx         \* bound: transmissions of a packet

SendModeNames == {"blocking", "timed", "nonblocking"}

ASSUME SenderAssumption ==
  /\ ISN \in SeqNos
  /\ SndBufSize \in Nat \ {0}
  /\ SendLens \subseteq Nat \ {0}
  /\ SendModes \subseteq SendModeNames
  /\ MaxEnqueued \in 0 .. MaxSeqNo      \* no sequence number is used twice
  /\ MaxTx \in Nat \ {0}

VARIABLES sndCurrSeqNo,    \* m_iSndCurrSeqNo
          sndLastDataAck,  \* m_iSndLastDataAck
          sndCount,        \* m_pSndBuffer->m_iCount
          bytesInFlight,   \* BytesInFlight
          sndLossTotal,    \* m_iSndLossTotal
          scheduled,       \* the socket is in the send queue's CSndUList
          appPc, appMode, appLen, appQueued, appRet,   \* a call of send()
          sndPc, sndSeq,                               \* send-queue worker
          rcvPc, rcvSeq, rcvState, rcvId,              \* receive-queue worker
          enqueued,        \* history: number of packets enqueued
          wire,            \* history: transmissions <<seq_no, msg_no>> sent
          pccFate          \* history: reports to PCC, by packet id

appVars == <<appPc, appMode, appLen, appQueued, appRet>>
sndVars == <<sndPc, sndSeq>>
rcvVars == <<rcvPc, rcvSeq, rcvState, rcvId>>
udtVars == <<sndCurrSeqNo, sndLastDataAck, sndCount, bytesInFlight, sndLossTotal, scheduled>>
histVars == <<enqueued, wire, pccFate>>
vars == <<trackerVars, udtVars, appVars, sndVars, rcvVars, histVars>>

AppPcs == {"idle", "entry", "loop", "prewait", "waiting", "recheck",
           "next", "compare", "record", "finish"}
SndPcs == {"idle", "picked", "sendto"}
RcvPcs == {"recv", "delete", "minseq", "signal", "report", "timers", "oldest", "lost"}

\* Mutant of PccLockFree: the workers do not exclude each other.
MutPccLockFree == TRUE

\* pcc_sender_lock, held by packData or by ProcessAck.
PccLockFree == sndPc # "picked" /\ rcvPc \notin {"delete", "minseq", "signal", "report"}

\* m_SendBlockLock, held by send() around its wait.
SendBlockLockFree == appPc \notin {"loop", "prewait"}

Init ==
  /\ TrackerInit
  /\ sndCurrSeqNo = ISN - 1
  /\ sndLastDataAck = ISN
  /\ sndCount = 0 /\ bytesInFlight = 0 /\ sndLossTotal = 0
  /\ scheduled = FALSE
  /\ appPc = "idle" /\ appMode \in SendModes /\ appLen = 0 /\ appQueued = 0 /\ appRet = 0
  /\ sndPc = "idle" /\ sndSeq = 0
  /\ rcvPc = "recv" /\ rcvSeq = 0 /\ rcvState = "NONE" /\ rcvId = 0
  /\ enqueued = 0 /\ wire = {} /\ pccFate = << >>

\* A thread is at a step of its code, in a process that still runs.
AppAt(pc) == fatal = "no" /\ appPc = pc
SndAt(pc) == fatal = "no" /\ sndPc = pc
RcvAt(pc) == fatal = "no" /\ rcvPc = pc

-----------------------------------------------------------------------------
(* The application thread: CUDT::send. *)

SendCall(len, mode) ==
  /\ AppAt("idle")
  /\ enqueued + len <= MaxEnqueued
  /\ appPc' = "entry" /\ appMode' = mode /\ appLen' = len /\ appQueued' = 0
  /\ UNCHANGED <<trackerVars, udtVars, appRet, sndVars, rcvVars, histVars>>

\* send() throws, which the caller sees as CUDT::ERROR.
SendThrow == /\ appPc' = "idle" /\ appRet' = -1
             /\ UNCHANGED <<appMode, appLen, appQueued>>

SendGoto(pc) == appPc' = pc /\ UNCHANGED <<appMode, appLen, appQueued, appRet>>

SendEntry ==
  /\ AppAt("entry")
  /\ \/ CanEnqueuePacket /\ SendGoto("recheck")
     \/ ~CanEnqueuePacket /\ appMode = "nonblocking" /\ SendThrow
     \/ ~CanEnqueuePacket /\ appMode # "nonblocking" /\ SendGoto("loop")
  /\ UNCHANGED <<trackerVars, udtVars, sndVars, rcvVars, histVars>>

\* The condition of the wait loop; the one of the timed wait is about the send
\* buffer, not about the tracker.
MustWait == IF appMode = "timed" THEN SndBufSize <= sndCount ELSE ~CanEnqueuePacket

SendLoop ==
  /\ AppAt("loop")
  /\ \/ MustWait /\ SendGoto("prewait")
     \/ (~MustWait \/ appMode = "timed") /\ SendGoto("recheck")
  /\ UNCHANGED <<trackerVars, udtVars, sndVars, rcvVars, histVars>>

\* pthread_cond_wait: from here on a signal is not lost any more.
SendWait ==
  /\ AppAt("prewait")
  /\ SendGoto("waiting")
  /\ UNCHANGED <<trackerVars, udtVars, sndVars, rcvVars, histVars>>

SendTimeout ==
  /\ AppAt("waiting") /\ appMode = "timed"
  /\ SendGoto("recheck")
  /\ UNCHANGED <<trackerVars, udtVars, sndVars, rcvVars, histVars>>

SendRecheck ==
  /\ AppAt("recheck")
  /\ \/ CanEnqueuePacket /\ SendGoto("next")
     \/ ~CanEnqueuePacket /\ appMode = "timed" /\ SendThrow
     \/ /\ ~CanEnqueuePacket /\ appMode # "timed"
        /\ appPc' = "idle" /\ appRet' = 0
        /\ UNCHANGED <<appMode, appLen, appQueued>>
  /\ UNCHANGED <<trackerVars, udtVars, sndVars, rcvVars, histVars>>

\* GetNextSeqNo and the first test of EnqueuePacket.
SendNext ==
  /\ AppAt("next")
  /\ sndCurrSeqNo' = incseq(sndCurrSeqNo)
  /\ \/ EnqueueMinAbsent(sndCurrSeqNo') /\ SendGoto("record")
     \/ EnqueueMinPresent /\ SendGoto("compare")
  /\ UNCHANGED <<sndLastDataAck, sndCount, bytesInFlight, sndLossTotal, scheduled,
                 sndVars, rcvVars, histVars>>

SendCompare ==
  /\ AppAt("compare")
  /\ EnqueueMinCompare(sndCurrSeqNo)
  /\ SendGoto("record")
  /\ UNCHANGED <<udtVars, sndVars, rcvVars, histVars>>

SendRecord ==
  /\ AppAt("record")
  /\ EnqueueRecord(sndCurrSeqNo)
  /\ appQueued' = appQueued + 1
  /\ enqueued' = enqueued + 1
  /\ appPc' = IF appQueued' < appLen THEN "next" ELSE "finish"
  /\ UNCHANGED <<udtVars, appMode, appLen, appRet, sndVars, rcvVars, wire, pccFate>>

\* Mutant of SentSize: the room left in the send buffer is not looked at.
MutSentSize == appLen

\* The size that send() puts into the send buffer and returns.
SentSize == IF SndBufSize - sndCount > appLen THEN appLen ELSE SndBufSize - sndCount

SendFinish ==
  /\ AppAt("finish")
  /\ sndCount' = sndCount + SentSize
  /\ scheduled' = TRUE
  /\ appRet' = SentSize
  /\ appPc' = "idle"
  /\ UNCHANGED <<trackerVars, sndCurrSeqNo, sndLastDataAck, bytesInFlight, sndLossTotal,
                 appMode, appLen, appQueued, sndVars, rcvVars, histVars>>

App == \/ \E len \in SendLens, mode \in SendModes : SendCall(len, mode)
       \/ SendEntry \/ SendLoop \/ SendWait \/ SendTimeout \/ SendRecheck
       \/ SendNext \/ SendCompare \/ SendRecord \/ SendFinish

-----------------------------------------------------------------------------
(* The send-queue worker: CSndUList::pop and CUDT::packData.  CanSend is    *)
(* PCC's decision, left open here: when it says no, nothing changes and the *)
(* socket is scheduled again.                                               *)

PackRetransmission ==
  /\ SndAt("idle") /\ scheduled /\ PccLockFree
  /\ retransmittableQueue' = Purged(retransmittableQueue)
  /\ \E s \in Purged(retransmittableQueue) :
       /\ IsTop(s, Purged(retransmittableQueue))
       /\ sndSeq' = s
  /\ sndPc' = "picked"
  /\ UNCHANGED <<packetState, msgRecords, sendQueue, sentQueue, sentTimeMap, prevPacketId,
                 curMinSeq, fatal, udtVars, appVars, rcvVars, histVars>>

\* Mutant of PackNewPacket: the new packet is not counted as in flight.
MutPackNewPacket ==
  /\ SndAt("idle") /\ scheduled /\ PccLockFree
  /\ Purged(retransmittableQueue) = {}
  /\ \E s \in sendQueue : IsTop(s, sendQueue) /\ sndSeq' = s
  /\ sndPc' = "picked"
  /\ UNCHANGED <<trackerVars, udtVars, appVars, rcvVars, histVars>>

PackNewPacket ==
  /\ SndAt("idle") /\ scheduled /\ PccLockFree
  /\ Purged(retransmittableQueue) = {}
  /\ retransmittableQueue' = {}
  /\ sendQueue' = Purged(sendQueue)
  /\ \E s \in Purged(sendQueue) :
       /\ IsTop(s, Purged(sendQueue))
       /\ sndSeq' = s
  /\ bytesInFlight' = bytesInFlight + 1
  /\ sndPc' = "picked"
  /\ UNCHANGED <<packetState, msgRecords, sentQueue, sentTimeMap, prevPacketId, curMinSeq, fatal,
                 sndCurrSeqNo, sndLastDataAck, sndCount, sndLossTotal, scheduled,
                 appVars, rcvVars, histVars>>

\* The rest of packData: the transmission is recorded and PCC is told of it.
PackCommit ==
  /\ SndAt("picked")
  /\ OnPacketSent(sndSeq)
  /\ pccFate' = IF fatal' = "no" THEN Append(pccFate, << >>) ELSE pccFate
  /\ sndPc' = "sendto"
  /\ UNCHANGED <<udtVars, appVars, sndSeq, rcvVars, enqueued, wire>>

\* CSndQueue::worker hands the packet, whose payload is still the record's own
\* copy, to the channel.
Transmit ==
  /\ SndAt("sendto")
  /\ wire' = wire \cup {<<sndSeq, GetPacketLastMsgNo(sndSeq)>>}
  /\ sndPc' = "idle"
  /\ UNCHANGED <<trackerVars, udtVars, appVars, sndSeq, rcvVars, enqueued, pccFate>>

Snd == PackRetransmission \/ PackNewPacket \/ PackCommit \/ Transmit

-----------------------------------------------------------------------------
(* The receive-queue worker: CUDT::ProcessAck. *)

RcvGoto(pc) == rcvPc' = pc /\ UNCHANGED <<rcvSeq, rcvState, rcvId>>

\* Mutant of Signal: send() is not woken.
MutSignal == UNCHANGED appVars

\* A signal on m_SendBlockCond reaches send() only when it already waits.
Signal == IF appPc = "waiting" THEN SendGoto("loop") ELSE UNCHANGED appVars

\* Mutant of ProcessAck: the acknowledgement of any transmission, not only of the
\* latest, completes the packet.
MutProcessAck(seq, msg) ==
  /\ RcvAt("recv") /\ PccLockFree
  /\ OnPacketAck(seq, msg)
  /\ IF seq \in Recorded
     THEN /\ rcvPc' = "delete" /\ rcvSeq' = seq
          /\ rcvState' = packetState[seq] /\ rcvId' = GetPacketId(seq, msg)
     ELSE RcvGoto("timers")
  /\ UNCHANGED <<udtVars, appVars, sndVars, histVars>>

ProcessAck(seq, msg) ==
  /\ RcvAt("recv") /\ PccLockFree
  /\ OnPacketAck(seq, msg)
  /\ IF msg = GetPacketLastMsgNo(seq) /\ fatal' = "no"
     THEN /\ rcvPc' = "delete" /\ rcvSeq' = seq
          /\ rcvState' = packetState[seq] /\ rcvId' = GetPacketId(seq, msg)
     ELSE RcvGoto("timers")
  /\ UNCHANGED <<udtVars, appVars, sndVars, histVars>>

\* DeletePacketRecord signals without holding m_SendBlockLock.
AckDelete ==
  /\ RcvAt("delete")
  /\ DeletePacketRecord(rcvSeq)
  /\ IF fatal' = "no" /\ Cardinality(Recorded') < PacketLimit THEN Signal ELSE UNCHANGED appVars
  /\ RcvGoto("minseq")
  /\ UNCHANGED <<udtVars, sndVars, histVars>>

\* GetMinSeqNo dereferences cur_min_seq_, NULL or not.
AckMinSeq ==
  /\ RcvAt("minseq")
  /\ \/ /\ curMinSeq = NULL
        /\ Segfault
        /\ RcvGoto("minseq")
        /\ UNCHANGED udtVars
     \/ /\ curMinSeq # NULL
        /\ LET offset == seqoff(sndLastDataAck, curMinSeq)
           IN  IF offset > 0
               THEN /\ sndCount' = sndCount - offset
                    /\ sndLastDataAck' = curMinSeq
                    /\ RcvGoto("signal")
               ELSE /\ UNCHANGED <<sndCount, sndLastDataAck>>
                    /\ RcvGoto("report")
        /\ UNCHANGED <<trackerVars, sndCurrSeqNo, bytesInFlight, sndLossTotal, scheduled>>
  /\ UNCHANGED <<appVars, sndVars, histVars>>

AckSignal ==
  /\ RcvAt("signal") /\ SendBlockLockFree
  /\ Signal
  /\ RcvGoto("report")
  /\ UNCHANGED <<trackerVars, udtVars, sndVars, histVars>>

\* Mutant of ReportToPcc: losses are not reported.
MutReportToPcc(id, fate) ==
  pccFate' = IF fate = "lost" THEN pccFate ELSE [pccFate EXCEPT ![id] = Append(@, fate)]

ReportToPcc(id, fate) == pccFate' = [pccFate EXCEPT ![id] = Append(@, fate)]

\* Mutant of AckReport: the acknowledgement of a lost packet is reported as well.
MutAckReport ==
  /\ RcvAt("report")
  /\ bytesInFlight' = bytesInFlight - 1
  /\ ReportToPcc(rcvId, "acked")
  /\ RcvGoto("timers")
  /\ UNCHANGED <<trackerVars, sndCurrSeqNo, sndLastDataAck, sndCount, sndLossTotal, scheduled,
                 appVars, sndVars, enqueued, wire>>

\* The acknowledgement of a packet that was declared lost is not reported.
AckReport ==
  /\ RcvAt("report")
  /\ IF rcvState = "LOST" \/ rcvId = 0
     THEN UNCHANGED <<bytesInFlight, pccFate>>
     ELSE /\ bytesInFlight' = bytesInFlight - 1
          /\ ReportToPcc(rcvId, "acked")
  /\ RcvGoto("timers")
  /\ UNCHANGED <<trackerVars, sndCurrSeqNo, sndLastDataAck, sndCount, sndLossTotal, scheduled,
                 appVars, sndVars, enqueued, wire>>

-----------------------------------------------------------------------------
(* The receive-queue worker: the loss loop of CUDT::checkTimers, run after  *)
(* every packet and after every receive timeout.                            *)

\* No packet arrived before the receive timeout.
NoDatagram ==
  /\ RcvAt("recv")
  /\ RcvGoto("timers")
  /\ UNCHANGED <<trackerVars, udtVars, appVars, sndVars, histVars>>

TimersDone ==
  /\ RcvAt("timers") /\ sentQueue = {}
  /\ RcvGoto("recv")
  /\ UNCHANGED <<trackerVars, udtVars, appVars, sndVars, histVars>>

\* GetOldestSentSeqNo: 0 when the queue runs empty.
OldestSent ==
  /\ RcvAt("timers") /\ sentQueue # {}
  /\ sentQueue' = SentPurged
  /\ IF SentPurged = {}
     THEN rcvSeq' = 0
     ELSE \E p \in sentTimeMap : IsTop(p[1], SentPurged) /\ rcvSeq' = p[2]
  /\ rcvPc' = "oldest"
  /\ UNCHANGED <<packetState, msgRecords, sendQueue, retransmittableQueue, sentTimeMap,
                 prevPacketId, curMinSeq, fatal, udtVars, appVars, sndVars,
                 rcvState, rcvId, histVars>>

\* The second HasSentPackets: a packet may have been sent since the first.
OldestGone ==
  /\ RcvAt("oldest") /\ sentQueue = {}
  /\ RcvGoto("timers")
  /\ UNCHANGED <<trackerVars, udtVars, appVars, sndVars, histVars>>

\* The oldest packet has been out for longer than 2 RTT + 4 RTTVar.  A packet
\* without a record has sent time 0 and always looks overdue; one that was never
\* sent has no message to look up.
OldestOverdue ==
  /\ RcvAt("oldest") /\ sentQueue # {}
  /\ \/ /\ rcvSeq \in Recorded => GetPacketLastMsgNo(rcvSeq) \in 1 .. MaxTx - 1
        /\ RcvGoto("lost")
        /\ UNCHANGED trackerVars
     \/ /\ rcvSeq \in Recorded /\ GetPacketLastMsgNo(rcvSeq) = 0
        /\ RcvGoto("oldest")
        /\ ExitProcess
  /\ UNCHANGED <<udtVars, appVars, sndVars, histVars>>

OldestNotOverdue ==
  /\ RcvAt("oldest") /\ sentQueue # {}
  /\ rcvSeq \in Recorded /\ GetPacketLastMsgNo(rcvSeq) > 0
  /\ RcvGoto("recv")
  /\ UNCHANGED <<trackerVars, udtVars, appVars, sndVars, histVars>>

\* add_to_loss_record(rcvSeq, rcvSeq).
AddToLossRecord ==
  LET msg == GetPacketLastMsgNo(rcvSeq)
  IN  /\ RcvAt("lost") /\ PccLockFree
      /\ OnPacketLoss(rcvSeq, msg)
      /\ IF rcvSeq \in Recorded /\ msg > 0
         THEN ReportToPcc(GetPacketId(rcvSeq, msg), "lost")
         ELSE UNCHANGED pccFate
      /\ sndLossTotal' = sndLossTotal + 1
      /\ RcvGoto("timers")
      /\ UNCHANGED <<sndCurrSeqNo, sndLastDataAck, sndCount, bytesInFlight, scheduled,
                     appVars, sndVars, enqueued, wire>>

Rcv == \/ \E p \in wire : ProcessAck(p[1], p[2])
       \/ AckDelete \/ AckMinSeq \/ AckSignal \/ AckReport
       \/ NoDatagram \/ TimersDone \/ OldestSent
       \/ OldestGone \/ OldestOverdue \/ OldestNotOverdue \/ AddToLossRecord

-----------------------------------------------------------------------------
Next == App \/ Snd \/ Rcv

Spec == Init /\ [][Next]_vars

(***************************************************************************)
(* Liveness is about a stream that goes on, as pccclient's endless loop of *)
(* send() calls makes it: the acknowledgement of the only packet in the    *)
(* tracker does not come before the next packet is there.  (When it does,  *)
(* AckMinSeq ends the process.)  And of the up to 100000 packets out, all  *)
(* but two are not acknowledged while send() is between its check and its  *)
(* wait: some wake-ups may get lost there, not every one.                  *)
(*                                                                         *)
(* Fairness.  Each thread goes on with what it has begun.  Waiting for     *)
(* pcc_sender_lock does not starve the send worker, and PCC allows it to   *)
(* send again sooner or later.  The clock runs, so a packet that stays     *)
(* unacknowledged becomes overdue; and the network is not dead forever:    *)
(* the last transmission the bound MaxTx allows is acknowledged.           *)
(***************************************************************************)
StreamAck(seq, msg) ==
  /\ <<seq, msg>> \in wire
  /\ Recorded # {seq}
  /\ appPc = "prewait" => Cardinality(Recorded) > 2
  /\ ProcessAck(seq, msg)

AppStep == \/ SendEntry \/ SendLoop \/ SendWait \/ SendRecheck
           \/ SendNext \/ SendCompare \/ SendRecord \/ SendFinish

RcvStep == \/ AckDelete \/ AckMinSeq \/ AckSignal \/ AckReport
           \/ NoDatagram \/ TimersDone \/ OldestSent
           \/ OldestGone \/ OldestOverdue \/ OldestNotOverdue \/ AddToLossRecord

StreamNext == App \/ Snd \/ RcvStep \/ \E p \in wire : StreamAck(p[1], p[2])

Fairness == /\ WF_vars(AppStep)
            /\ SF_vars(Snd)
            /\ WF_vars(RcvStep)
            /\ SF_vars(OldestOverdue)
            /\ \A i \in 0 .. MaxEnqueued - 1 : SF_vars(StreamAck(incseqBy(ISN, i), MaxTx))

FairSpec == Init /\ [][StreamNext]_vars /\ Fairness

-----------------------------------------------------------------------------
(* Properties. *)

TypeOK ==
  /\ packetState \in [SeqNos -> PacketStates]
  /\ msgRecords \in [SeqNos -> Seq(Nat)]
  /\ sendQueue \subseteq SeqNos /\ retransmittableQueue \subseteq SeqNos
  /\ prevPacketId \in Nat
  /\ sentQueue \subseteq 1 .. prevPacketId
  /\ sentTimeMap \subseteq (1 .. prevPacketId) \X SeqNos
  /\ curMinSeq \in SeqNos \cup {NULL}
  /\ fatal \in {"no", "exit", "segv"}
  /\ sndCurrSeqNo \in SeqNos \cup {-1} /\ sndLastDataAck \in SeqNos
  /\ sndCount \in Int /\ sndCount <= SndBufSize /\ bytesInFlight \in Int /\ sndLossTotal \in Nat
  /\ scheduled \in BOOLEAN
  /\ appPc \in AppPcs /\ appMode \in SendModeNames
  /\ appLen \in Nat /\ appQueued \in Nat /\ appRet \in Int
  /\ sndPc \in SndPcs /\ sndSeq \in SeqNos
  /\ rcvPc \in RcvPcs /\ rcvSeq \in SeqNos /\ rcvState \in PacketStates /\ rcvId \in Nat
  /\ enqueued \in Nat
  /\ wire \subseteq SeqNos \X Nat
  /\ pccFate \in Seq(Seq({"acked", "lost"}))

LastId(s) == msgRecords[s][Len(msgRecords[s])]

\* A packet the tracker still holds is never forgotten: it waits in the send
\* queue, or in the retransmission queue, or it is out and the timer of its latest
\* transmission is armed, both in sent_queue_ and in sent_time_map_.  (Only the
\* packet ProcessAck is about to delete is in none of these places.)
NoPacketForgotten ==
  \A s \in SeqNos :
    /\ packetState[s] = "QUEUED" => s \in sendQueue
    /\ packetState[s] = "LOST" => s \in retransmittableQueue
    /\ packetState[s] = "SENT" => LastId(s) \in sentQueue /\ <<LastId(s), s>> \in sentTimeMap
    /\ packetState[s] = "ACKED" => rcvPc = "delete" /\ rcvSeq = s

\* An armed timer is that of the latest transmission of a packet that is out, so
\* an acknowledged or already lost transmission can never be declared lost.
NoStaleTimer ==
  \A p \in sentTimeMap : packetState[p[2]] = "SENT" /\ p[1] = LastId(p[2])

\* The payload that packData hands to the channel belongs to a record that cannot
\* be deleted before the datagram has left: only an acknowledgement of the latest
\* transmission deletes a record, and that transmission is still here.
PayloadAlive == sndPc \in {"picked", "sendto"} => packetState[sndSeq] # "NONE"

AckUnreported(id) ==
  /\ rcvPc \in {"delete", "minseq", "signal", "report"}
  /\ rcvId = id /\ rcvState # "LOST"

\* PCC hears of the fate of a transmission at most once, acked or lost, and the
\* transmissions it has not heard of are exactly those with an armed timer (or
\* the one whose acknowledgement is in progress).  A monitor interval is
\* complete only when the fates of all its packets are known.
PccToldOnce ==
  \A id \in 1 .. Len(pccFate) :
    /\ Len(pccFate[id]) <= 1
    /\ pccFate[id] = << >> <=> (\E p \in sentTimeMap : p[1] = id) \/ AckUnreported(id)

InFlight == {s \in SeqNos : packetState[s] \in {"SENT", "ACKED", "LOST"}}

\* BytesInFlight counts at least the packets that are out or lost and not yet
\* sent again, so the "Negative bytes in flight" branch of ProcessAck is dead.
BytesCovered ==
  /\ bytesInFlight >= Cardinality(InFlight)
  /\ rcvPc = "report" /\ rcvState # "LOST" => bytesInFlight >= 1 + Cardinality(InFlight)

\* As long as the sequence numbers do not wrap, none of the tracker's internal
\* checks that call exit(-1) can fire, whatever the interleaving of send(),
\* packData(), ProcessAck() and checkTimers().
NoExit == fatal # "exit"

\* A call of send() returns in the end: a wake-up lost because DeletePacketRecord
\* signals without m_SendBlockLock is made up for by that of a later acknowledgement.
SendReturns == appPc # "idle" ~> appPc = "idle"

PccOpen == {id \in 1 .. Len(pccFate) : pccFate[id] = << >>}

\* PCC learns the fate of every transmission, except of the last one of the packet
\* that is left: no monitor interval waits for a report forever.
PccInformed == Cardinality(PccOpen) > 1 ~> Cardinality(PccOpen) <= 1
=============================================================================
