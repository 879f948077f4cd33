------------------------------ MODULE Receiver ------------------------------
(***************************************************************************)
(* The receiving side of a connected CUDT socket: the receive-queue worker *)
(* in processData() and in the shutdown branch of processCtrl(), and the   *)
(* application thread in recv(), around one CRcvBuffer (src/core/core.cpp, *)
(* src/core/buffer.cpp).                                                   *)
(*                                                                         *)
(* The worker and recv() share the ring of the buffer without a lock: the  *)
(* worker writes slots and m_iLastAckPos, recv() clears slots and writes   *)
(* m_iStartPos when it is done.  m_RecvDataLock only protects the wait.    *)
(*                                                                         *)
(* Every packet carries PktLen bytes; byte k of packet seq is <<seq, k>>.  *)
(* Packets arrive in any order, any number of times, or never.             *)
(***************************************************************************)
EXTENDS SeqNo, Sequences, FiniteSets

CONSTANTS PeerISN,      \* m_iPeerISN, the first sequence number of the peer
          RcvBufSize,   \* m_iSize, the slots of the ring
          PktLen,       \* bytes of a packet
          RecvModes,    \* how recv() may be called: see RecvModeNames
          ReadLens,     \* bound: bytes that a call of recv() may ask for
          MaxPkts       \* bound: packets the peer sends

RecvModeNames == {"blocking", "timed", "nonblocking"}

ASSUME ReceiverAssumption ==
  /\ PeerISN \in SeqNos
  /\ RcvBufSize \in Nat /\ RcvBufSize >= 2
  /\ PktLen \in Nat \ {0}
  /\ RecvModes \subseteq RecvModeNames
  /\ ReadLens \subseteq Nat \ {0}
  /\ MaxPkts \in 0 .. SeqNoTH - 1    \* the peer stays within half the sequence space

VARIABLES unit,         \* m_pUnit: the sequence number of the packet in a slot, or NoUnit
          startPos,     \* m_iStartPos
          lastAckPos,   \* m_iLastAckPos
          maxPos,       \* m_iMaxPos
          notch,        \* m_iNotch
          rcvLastAck,   \* m_iRcvLastAck
          broken,       \* m_bBroken (and m_bClosing)
          netPc,        \* the receive-queue worker
          recvPc, recvMode, recvLen, recvRet,   \* a call of recv()
          readPos, readLast, readLeft,          \* p, lastack, rs of readBuffer
          acks,         \* history: acknowledgements <<seq_no, msg_no>> sent
          delivered     \* history: the bytes recv() has copied out

ringVars == <<unit, startPos, lastAckPos, maxPos, notch, rcvLastAck>>
callVars == <<recvPc, recvMode, recvLen, recvRet>>
readVars == <<readPos, readLast, readLeft>>
rvars == <<ringVars, broken, netPc, callVars, readVars, acks, delivered>>

NoUnit == -1
Slots == 0 .. RcvBufSize - 1

RInit ==
  /\ unit = [i \in Slots |-> NoUnit]
  /\ startPos = 0 /\ lastAckPos = 0 /\ maxPos = 0 /\ notch = 0
  /\ rcvLastAck = PeerISN
  /\ broken = FALSE
  /\ netPc = "recv"
  /\ recvPc = "idle" /\ recvMode \in RecvModes /\ recvLen = 0 /\ recvRet = 0
  /\ readPos = 0 /\ readLast = 0 /\ readLeft = 0
  /\ acks = {}
  /\ delivered = << >>

\* Mutant of getRcvDataSize: the wrapped case is forgotten.
MutGetRcvDataSize == IF lastAckPos >= startPos THEN lastAckPos - startPos ELSE 0

getRcvDataSize ==
  IF lastAckPos >= startPos THEN lastAckPos - startPos
                            ELSE RcvBufSize + lastAckPos - startPos

\* Mutant of getAvailBufSize: one slot too few.
MutAvailShort == RcvBufSize - getRcvDataSize - 2

getAvailBufSize == RcvBufSize - getRcvDataSize - 1

RecvDataLockFree == recvPc \notin {"loop", "prewait"}
RecvLockFree == recvPc = "idle"

-----------------------------------------------------------------------------
(* The receive-queue worker: CUDT::processData and CRcvBuffer::addData.     *)

RingPos(offset) == (lastAckPos + offset) % RcvBufSize

\* Mutant of FirstGap: the search skips the slot at the ACK point.
MutFirstGap(u, top, i) ==
  /\ i \in 1 .. top + 1
  /\ u[RingPos(i)] = NoUnit
  /\ \A j \in 1 .. i - 1 : u[RingPos(j)] # NoUnit

\* The first empty slot from the ACK point on, among the ones addData looks at.
FirstGap(u, top, i) ==
  /\ i \in 0 .. top + 1
  /\ u[RingPos(i)] = NoUnit
  /\ \A j \in 0 .. i - 1 : u[RingPos(j)] # NoUnit

\* Mutant of Refused: a packet behind the ACK point is not turned away.
MutRefused(offset) == offset >= getAvailBufSize

Refused(offset) == offset < 0 \/ offset >= getAvailBufSize

addData(seq, offset) ==
  LET pos == RingPos(offset)
      top == IF offset > maxPos THEN offset ELSE maxPos
      filled == [unit EXCEPT ![pos] = seq]
  IN  \/ /\ unit[pos] # NoUnit                \* data is repeated
         /\ maxPos' = top
         /\ netPc' = "recv"
         /\ UNCHANGED <<unit, lastAckPos, rcvLastAck>>
      \/ /\ unit[pos] = NoUnit
         /\ unit' = filled
         /\ \/ \E i \in 0 .. top + 1 :
                 /\ FirstGap(filled, top, i)
                 /\ lastAckPos' = RingPos(i)
                 /\ maxPos' = IF top - i < 0 THEN 0 ELSE top - i
                 /\ rcvLastAck' = incseqBy(rcvLastAck, i)
                 /\ netPc' = IF i > 0 THEN "signal" ELSE "recv"
            \/ /\ \A i \in 0 .. top + 1 : ~FirstGap(filled, top, i)   \* "Full Buffer"
               /\ maxPos' = top
               /\ netPc' = "recv"
               /\ UNCHANGED <<lastAckPos, rcvLastAck>>

\* The packet is acknowledged (SendAck) before its place is looked up.
processData(seq, msg) ==
  LET offset == seqoff(rcvLastAck, seq)
  IN  /\ netPc = "recv" /\ ~broken
      /\ acks' = acks \cup {<<seq, msg>>}
      /\ \/ /\ Refused(offset)
            /\ UNCHANGED <<unit, lastAckPos, maxPos, rcvLastAck, netPc>>
         \/ /\ ~Refused(offset)
            /\ addData(seq, offset)
      /\ UNCHANGED <<startPos, notch, broken, callVars, readVars, delivered>>

RecvGoto(pc) == recvPc' = pc /\ UNCHANGED <<recvMode, recvLen, recvRet>>

\* A blocked recv() is woken, under m_RecvDataLock.
DataSignal ==
  /\ netPc = "signal" /\ RecvDataLockFree
  /\ IF recvPc = "waiting" THEN RecvGoto("loop") ELSE UNCHANGED callVars
  /\ netPc' = "recv"
  /\ UNCHANGED <<ringVars, broken, readVars, acks, delivered>>

\* processCtrl, type 5: the peer has shut down.
Shutdown ==
  /\ netPc = "recv" /\ ~broken
  /\ broken' = TRUE
  /\ netPc' = "release"
  /\ UNCHANGED <<ringVars, callVars, readVars, acks, delivered>>

\* releaseSynch: wake recv(), then wait until it has left (m_RecvLock).
ReleaseSignal ==
  /\ netPc = "release" /\ RecvDataLockFree
  /\ IF recvPc = "waiting" THEN RecvGoto("loop") ELSE UNCHANGED callVars
  /\ netPc' = "join"
  /\ UNCHANGED <<ringVars, broken, readVars, acks, delivered>>

ReleaseJoin ==
  /\ netPc = "join" /\ RecvLockFree
  /\ netPc' = "closed"
  /\ UNCHANGED <<ringVars, broken, callVars, readVars, acks, delivered>>

Worker == \/ \E n \in 0 .. MaxPkts - 1 : processData(incseqBy(PeerISN, n), 1)
          \/ DataSignal \/ Shutdown \/ ReleaseSignal \/ ReleaseJoin

-----------------------------------------------------------------------------
(* The application thread: CUDT::recv. *)

RecvThrow == recvPc' = "idle" /\ recvRet' = -1 /\ UNCHANGED <<recvMode, recvLen>>

RecvCall(len, mode) ==
  /\ recvPc = "idle"
  /\ ~(broken /\ getRcvDataSize = 0)
  /\ recvPc' = "entry" /\ recvMode' = mode /\ recvLen' = len /\ recvRet' = 0
  /\ UNCHANGED <<ringVars, broken, netPc, readVars, acks, delivered>>

RecvEntry ==
  /\ recvPc = "entry"
  /\ \/ getRcvDataSize > 0 /\ RecvGoto("check")
     \/ getRcvDataSize = 0 /\ recvMode = "nonblocking" /\ RecvThrow
     \/ getRcvDataSize = 0 /\ recvMode # "nonblocking" /\ RecvGoto("loop")
  /\ UNCHANGED <<ringVars, broken, netPc, readVars, acks, delivered>>

\* Mutant of RecvLoop: the wait loop does not look at m_bBroken.
MutRecvLoop ==
  /\ recvPc = "loop"
  /\ IF getRcvDataSize = 0 THEN RecvGoto("prewait") ELSE RecvGoto("check")
  /\ UNCHANGED <<ringVars, broken, netPc, readVars, acks, delivered>>

RecvLoop ==
  /\ recvPc = "loop"
  /\ IF ~broken /\ getRcvDataSize = 0 THEN RecvGoto("prewait") ELSE RecvGoto("check")
  /\ UNCHANGED <<ringVars, broken, netPc, readVars, acks, delivered>>

RecvWait ==
  /\ recvPc = "prewait"
  /\ RecvGoto("waiting")
  /\ UNCHANGED <<ringVars, broken, netPc, readVars, acks, delivered>>

RecvTimeout ==
  /\ recvPc = "waiting" /\ recvMode = "timed"
  /\ RecvGoto("check")
  /\ UNCHANGED <<ringVars, broken, netPc, readVars, acks, delivered>>

\* Mutant of RecvCheck: a broken connection gives an error at once.
MutRecvCheck ==
  /\ recvPc = "check"
  /\ IF broken THEN RecvThrow ELSE RecvGoto("read")
  /\ UNCHANGED <<ringVars, broken, netPc, readVars, acks, delivered>>

\* A broken connection is an error only when everything received has been read.
RecvCheck ==
  /\ recvPc = "check"
  /\ IF broken /\ getRcvDataSize = 0 THEN RecvThrow ELSE RecvGoto("read")
  /\ UNCHANGED <<ringVars, broken, netPc, readVars, acks, delivered>>

\* Mutant of ReadBegin: the read may run to the highest packet received.
MutReadBegin ==
  /\ recvPc = "read"
  /\ readPos' = startPos /\ readLast' = RingPos(maxPos) /\ readLeft' = recvLen
  /\ RecvGoto("copy")
  /\ UNCHANGED <<ringVars, broken, netPc, acks, delivered>>

\* readBuffer reads m_iStartPos and m_iLastAckPos once.
ReadBegin ==
  /\ recvPc = "read"
  /\ readPos' = startPos /\ readLast' = lastAckPos /\ readLeft' = recvLen
  /\ RecvGoto("copy")
  /\ UNCHANGED <<ringVars, broken, netPc, acks, delivered>>

\* One turn of readBuffer's loop: the slot is cleared when its packet is used up,
\* m_iStartPos stays behind until the loop is over.
ReadUnit ==
  LET rest == PktLen - notch
      size == IF rest > readLeft THEN readLeft ELSE rest
      used == readLeft > size \/ readLeft = rest
  IN  /\ recvPc = "copy" /\ readPos # readLast /\ readLeft > 0
      /\ delivered' = delivered \o [k \in 1 .. size |-> <<unit[readPos], notch + k - 1>>]
      /\ unit' = IF used THEN [unit EXCEPT ![readPos] = NoUnit] ELSE unit
      /\ readPos' = IF used THEN (readPos + 1) % RcvBufSize ELSE readPos
      /\ notch' = IF used THEN 0 ELSE notch + readLeft
      /\ readLeft' = readLeft - size
      /\ UNCHANGED <<startPos, lastAckPos, maxPos, rcvLastAck, broken, netPc, callVars, readLast, acks>>

ReadEnd ==
  /\ recvPc = "copy" /\ (readPos = readLast \/ readLeft = 0)
  /\ startPos' = readPos
  /\ recvPc' = "idle"
  /\ recvRet' = IF recvLen = readLeft /\ recvMode = "timed" THEN -1 ELSE recvLen - readLeft
  /\ UNCHANGED <<unit, lastAckPos, maxPos, notch, rcvLastAck, broken, netPc,
                 recvMode, recvLen, readVars, acks, delivered>>

Reader == \/ \E len \in ReadLens, mode \in RecvModes : RecvCall(len, mode)
          \/ RecvEntry \/ RecvLoop \/ RecvWait \/ RecvTimeout \/ RecvCheck
          \/ ReadBegin \/ ReadUnit \/ ReadEnd

-----------------------------------------------------------------------------
RNext == Worker \/ Reader

RSpec == RInit /\ [][RNext]_rvars

\* The threads go on with what they have begun, and the application calls recv()
\* again and again.  Nothing is assumed of the network.
RFairness == /\ WF_rvars(DataSignal \/ ReleaseSignal \/ ReleaseJoin)
             /\ WF_rvars(Reader)

RFairSpec == RSpec /\ RFairness

-----------------------------------------------------------------------------
(* Properties. *)

\* Byte j of the stream the peer sends.
StreamByte(j) == <<incseqBy(PeerISN, (j - 1) \div PktLen), (j - 1) % PktLen>>

\* recv() delivers the bytes of the stream in order, each once and none left out,
\* however the packets are reordered or repeated and however the reads cut them.
DeliveredInOrder == \A j \in 1 .. Len(delivered) : delivered[j] = StreamByte(j)

\* A packet sits in the slot that its distance from the ACK point gives, so a
\* repeated packet meets itself and the "inconsistent Seq No" message of addData
\* is never printed; the packets before the ACK point are without a gap.  The slot
\* before m_iStartPos is always empty, so the search of addData for the first gap
\* succeeds and never reaches the slots recv() is clearing: the "Full Buffer" branch
\* is dead.
SlotsConsistent ==
  /\ unit[(startPos + RcvBufSize - 1) % RcvBufSize] = NoUnit
  /\ \A i \in Slots :
       unit[i] # NoUnit =>
         \E d \in -getRcvDataSize .. getAvailBufSize - 1 :
           i = RingPos(d) /\ unit[i] = (IF d >= 0 THEN incseqBy(rcvLastAck, d)
                                        ELSE (rcvLastAck + d) % (MaxSeqNo + 1))

\* readBuffer never meets an empty slot, although processData moves the ACK point
\* at the same time and no lock is shared.
ReaderSeesData == recvPc = "copy" /\ readPos # readLast => unit[readPos] # NoUnit

\* What has been received in sequence is read to the end, even when the peer shuts
\* down meanwhile: an error is raised only when the buffer is empty.  (At most
\* MaxPkts packets arrive, so the buffer drains.)
ReceivedIsRead == getRcvDataSize > 0 ~> getRcvDataSize = 0

\* Once the peer has shut down, the worker gets out of releaseSynch: recv() does
\* not keep m_RecvLock forever.
ReleaseEnds == broken ~> netPc = "closed"
=============================================================================
