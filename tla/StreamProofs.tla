---------------------------- MODULE StreamProofs ----------------------------
(***************************************************************************)
(* The stream, for any sizes of the buffers, of the packets and of the     *)
(* sequence space, and for any number of packets that fits into half of    *)
(* it.  First the receive buffer between the worker and recv(); then the   *)
(* connection: it implements ReliableStream, and loses nothing as long as  *)
(* the receive buffer has room.                                            *)
(***************************************************************************)
EXTENDS Connection, SenderProofs, FiniteSetTheorems, SequenceTheorems, WellFoundedInduction, TLAPS

USE SeqNoAssumption, ReceiverAssumption

-----------------------------------------------------------------------------
(* Arithmetic. *)

\* The remainder of a number less than one turn away from 0 .. s - 1.
LEMMA ModNear ==
  ASSUME NEW s \in Nat \ {0}, NEW x \in Int, 0 - s <= x, x < 2 * s
  PROVE  x % s = IF x < 0 THEN x + s ELSE IF x < s THEN x ELSE x - s
  <1>1. \A q \in Int : \A r \in 0 .. s - 1 : (q * s + r) % s = r
    OBVIOUS
  <1>2. CASE x < 0
    <2>1. ((0 - 1) * s + (x + s)) % s = x + s
      BY <1>1, <1>2
    <2>2. (0 - 1) * s + (x + s) = x
      OBVIOUS
    <2> QED
      BY <1>2, <2>1, <2>2
  <1>3. CASE 0 <= x /\ x < s
    <2>1. (0 * s + x) % s = x
      BY <1>1, <1>3
    <2>2. 0 * s + x = x
      OBVIOUS
    <2> QED
      BY <1>3, <2>1, <2>2
  <1>4. CASE s <= x
    <2>1. (1 * s + (x - s)) % s = x - s
      BY <1>1, <1>4
    <2>2. 1 * s + (x - s) = x
      OBVIOUS
    <2> QED
      BY <1>4, <2>1, <2>2
  <1> QED
    BY <1>2, <1>3, <1>4

\* Quotient and remainder of a number given by them.
LEMMA DivMod ==
  ASSUME NEW s \in Nat \ {0}, NEW q \in Nat, NEW r \in 0 .. s - 1
  PROVE  (q * s + r) \div s = q /\ (q * s + r) % s = r
  <1>1. (q * s + r) \div s = q
    OBVIOUS
  <1>2. (q * s + r) % s = r
    OBVIOUS
  <1> QED
    BY <1>1, <1>2

\* A non-empty set of natural numbers has a least element: the first gap of addData.
LEMMA Least ==
  ASSUME NEW T \in SUBSET Nat, T # {}
  PROVE  \E i \in T : \A j \in T : i <= j
  <1> DEFINE below(i) == 0 .. i
             family == {below(i) : i \in T}
  <1>1. \A i \in T : below(i) \in SUBSET Nat /\ IsFiniteSet(below(i))
    BY FS_Interval
  <1>2. family \subseteq FiniteSubsetsOf(Nat) /\ family # {}
    BY <1>1 DEF FiniteSubsetsOf
  <1>3. IsWellFoundedOn(StrictSubsetOrdering(Nat), FiniteSubsetsOf(Nat))
    BY FS_StrictSubsetOrderingWellFounded
  <1> HIDE DEF family
  <1>4. PICK x \in family : \A y \in family : ~(<<y, x>> \in StrictSubsetOrdering(Nat))
    BY <1>2, <1>3, WFMin
  <1>5. PICK i \in T : x = below(i)
    BY <1>4 DEF family
  <1>6. ASSUME NEW j \in T, j < i PROVE FALSE
    <2>1. below(j) \in family
      BY DEF family
    <2>2. below(j) \subseteq below(i) /\ i \in below(i) /\ i \notin below(j)
      BY <1>6
    <2>3. below(j) \in SUBSET Nat /\ below(i) \in SUBSET Nat /\ below(j) # below(i)
      BY <1>1, <2>2
    <2> HIDE DEF below
    <2>4. <<below(j), below(i)>> \in StrictSubsetOrdering(Nat)
      BY <2>2, <2>3 DEF StrictSubsetOrdering
    <2> QED
      BY <1>4, <1>5, <2>1, <2>4
  <1> QED
    BY <1>6

\* The sequence number of packet n of the stream.
SeqOf(n) == incseqBy(PeerISN, n)

\* Within half of the sequence space, sequence numbers add up, their offset is the
\* distance of their packets, and going back is subtraction modulo the space.
LEMMA SeqArithmetic ==
  ASSUME NEW a \in 0 .. MaxPkts, NEW b \in 0 .. MaxPkts
  PROVE  /\ SeqOf(a) \in SeqNos
         /\ seqoff(SeqOf(a), SeqOf(b)) = b - a
         /\ a <= b => incseqBy(SeqOf(a), b - a) = SeqOf(b)
         /\ b <= a => (SeqOf(a) + (b - a)) % (MaxSeqNo + 1) = SeqOf(b)
  <1>1. /\ SeqOf(a) \in SeqNos
        /\ a <= b => incseqBy(SeqOf(a), b - a) = SeqOf(b)
    BY DEF SeqOf, incseqBy, SeqNos
  <1>2. seqoff(SeqOf(a), SeqOf(b)) = b - a
    BY DEF SeqOf, incseqBy, SeqNos, seqoff, SeqDist
  <1>3. ASSUME b <= a PROVE (SeqOf(a) + (b - a)) % (MaxSeqNo + 1) = SeqOf(b)
    <2> DEFINE s == MaxSeqNo + 1
               x == SeqOf(a) + (b - a)
    <2>1. s \in Nat \ {0} /\ x \in Int /\ 0 - s <= x /\ x < 2 * s
      BY <1>3 DEF SeqOf, incseqBy, SeqNos
    <2>2. SeqOf(b) = IF x < 0 THEN x + s ELSE IF x < s THEN x ELSE x - s
      BY <1>3 DEF SeqOf, incseqBy, SeqNos
    <2> HIDE DEF s, x
    <2>3. x % s = SeqOf(b)
      BY <2>1, <2>2, ModNear
    <2> QED
      BY <2>3 DEF s, x
  <1> QED
    BY <1>1, <1>2, <1>3

-----------------------------------------------------------------------------
(* The ring. *)

\* The slot k places after st.
Slot(st, k) == IF st + k < RcvBufSize THEN st + k ELSE st + k - RcvBufSize

\* Counting from a slot goes once around the ring.
LEMMA SlotFacts ==
  ASSUME NEW st \in Slots
  PROVE  /\ \A k \in Slots : Slot(st, k) \in Slots
         /\ \A j, k \in Slots : Slot(st, j) = Slot(st, k) => j = k
         /\ \A i \in Slots : \E k \in Slots : Slot(st, k) = i
         /\ Slot(st, 0) = st
         /\ \A c, k \in Slots : Slot(Slot(st, c), k) =
              IF c + k < RcvBufSize THEN Slot(st, c + k) ELSE Slot(st, c + k - RcvBufSize)
  <1>1. \A k \in Slots : Slot(st, k) \in Slots
    BY DEF Slots, Slot
  <1>2. \A j, k \in Slots : Slot(st, j) = Slot(st, k) => j = k
    BY DEF Slots, Slot
  <1>3. ASSUME NEW i \in Slots PROVE \E k \in Slots : Slot(st, k) = i
    <2>1. CASE i >= st
      <3>1. i - st \in Slots /\ Slot(st, i - st) = i
        BY <2>1 DEF Slots, Slot
      <3> QED
        BY <3>1
    <2>2. CASE i < st
      <3>1. i - st + RcvBufSize \in Slots /\ Slot(st, i - st + RcvBufSize) = i
        BY <2>2 DEF Slots, Slot
      <3> QED
        BY <3>1
    <2> QED
      BY <2>1, <2>2 DEF Slots
  <1>4. Slot(st, 0) = st
    BY DEF Slots, Slot
  <1>5. \A c, k \in Slots : Slot(Slot(st, c), k) =
          IF c + k < RcvBufSize THEN Slot(st, c + k) ELSE Slot(st, c + k - RcvBufSize)
    BY DEF Slots, Slot
  <1> QED
    BY <1>1, <1>2, <1>3, <1>4, <1>5

\* RingPos counts from the ACK point, also backwards.
LEMMA RingPosFacts ==
  ASSUME NEW st \in Slots, NEW D \in Slots, lastAckPos = Slot(st, D), NEW o \in Int,
         D + o \in Slots
  PROVE  RingPos(o) = Slot(st, D + o)
  <1> DEFINE x == lastAckPos + o
  <1>1. /\ x \in Int /\ 0 - RcvBufSize <= x /\ x < 2 * RcvBufSize
        /\ RcvBufSize \in Nat \ {0}
    BY DEF Slots, Slot
  <1>2. Slot(st, D + o) = IF x < 0 THEN x + RcvBufSize
                          ELSE IF x < RcvBufSize THEN x ELSE x - RcvBufSize
    BY DEF Slots, Slot
  <1> HIDE DEF x
  <1>3. x % RcvBufSize = Slot(st, D + o)
    BY <1>1, <1>2, ModNear
  <1> QED
    BY <1>3 DEF RingPos, x

\* getRcvDataSize is the distance of the ACK point from m_iStartPos.
LEMMA DataSize ==
  ASSUME startPos \in Slots, NEW D \in Slots, lastAckPos = Slot(startPos, D)
  PROVE  getRcvDataSize = D /\ getAvailBufSize = RcvBufSize - D - 1
  <1>1. getRcvDataSize = D
    BY DEF Slots, Slot, getRcvDataSize
  <1> QED
    BY <1>1 DEF getAvailBufSize, Slots

-----------------------------------------------------------------------------
(* The inductive invariant.  recv() has finished S packets before the one   *)
(* at m_iStartPos and C more in the call it is in; D packets from           *)
(* m_iStartPos on are received in sequence.                                 *)

\* What recv() has read is empty, what it may read is there, the slot at the ACK point
\* is empty, and beyond it at most m_iMaxPos slots have packets out of sequence.
Content(u, st, mp, S, D, C) ==
  \A k \in Slots :
    /\ k < C \/ k = D => u[Slot(st, k)] = NoUnit
    /\ C <= k /\ k < D => u[Slot(st, k)] = SeqOf(S + k)
    /\ D < k => \/ u[Slot(st, k)] = NoUnit
                \/ k - D <= mp /\ S + k < MaxPkts /\ u[Slot(st, k)] = SeqOf(S + k)

\* The slot before m_iStartPos stays free, except that the ACK point may get there.
RingOk(u, st, la, mp, ack, S, D, C) ==
  /\ S \in Nat /\ D \in Slots /\ C \in Slots /\ C <= D
  /\ st \in Slots /\ la = Slot(st, D)
  /\ mp \in Nat /\ D + mp <= RcvBufSize - 1 /\ (mp > 0 => D + mp <= RcvBufSize - 2)
  /\ S + D <= MaxPkts /\ ack = SeqOf(S + D)
  /\ DOMAIN u = Slots
  /\ Content(u, st, mp, S, D, C)

\* readBuffer works on a part of what is received in sequence.
ReaderOk(D, C) ==
  /\ recvPc # "copy" => C = 0
  /\ recvPc = "copy" => /\ readPos = Slot(startPos, C)
                        /\ \E L \in C .. D : readLast = Slot(startPos, L)

Bytes == Int \X Int
Streams == Seq(Bytes)

\* The bytes delivered are those of the packets finished and the part of the next one
\* that m_iNotch counts.
DeliveredOk(S, C) ==
  /\ delivered \in Streams
  /\ Len(delivered) = (S + C) * PktLen + notch
  /\ DeliveredInOrder

RTypes == notch \in 0 .. PktLen - 1 /\ readLeft \in Nat /\ recvLen \in Nat

RInv ==
  /\ RTypes
  /\ \E S, D, C \in Nat : /\ RingOk(unit, startPos, lastAckPos, maxPos, rcvLastAck, S, D, C)
                          /\ ReaderOk(D, C) /\ DeliveredOk(S, C)

\* What the invariant says at any time.
LEMMA RInvImplies ==
  ASSUME RInv
  PROVE  DeliveredInOrder /\ SlotsConsistent /\ ReaderSeesData
  <1>1. PICK S \in Nat, D \in Nat, C \in Nat :
          /\ RingOk(unit, startPos, lastAckPos, maxPos, rcvLastAck, S, D, C)
          /\ ReaderOk(D, C) /\ DeliveredOk(S, C)
    BY DEF RInv
  <1>2. /\ D \in Slots /\ C \in Slots /\ C <= D /\ startPos \in Slots
        /\ lastAckPos = Slot(startPos, D) /\ S + D <= MaxPkts /\ rcvLastAck = SeqOf(S + D)
        /\ maxPos \in Nat /\ D + maxPos <= RcvBufSize - 1
        /\ (maxPos > 0 => D + maxPos <= RcvBufSize - 2)
    BY <1>1 DEF RingOk
  <1>3. Content(unit, startPos, maxPos, S, D, C)
    BY <1>1 DEF RingOk
  <1>4. getRcvDataSize = D /\ getAvailBufSize = RcvBufSize - D - 1
    BY <1>2, DataSize
  <1>5. ReaderSeesData
    <2>1. SUFFICES ASSUME recvPc = "copy", readPos # readLast PROVE unit[readPos] # NoUnit
      BY DEF ReaderSeesData
    <2>2. PICK L \in C .. D : readLast = Slot(startPos, L)
      BY <1>1, <2>1 DEF ReaderOk
    <2>3. readPos = Slot(startPos, C)
      BY <1>1, <2>1 DEF ReaderOk
    <2>4. C < D
      BY <2>1, <2>2, <2>3
    <2>5. unit[Slot(startPos, C)] = SeqOf(S + C)
      BY <1>2, <1>3, <2>4 DEF Content
    <2>6. S + C \in 0 .. MaxPkts
      BY <1>2 DEF Slots
    <2>7. SeqOf(S + C) \in SeqNos
      BY <2>6, SeqArithmetic
    <2> QED
      BY <2>3, <2>5, <2>7 DEF NoUnit, SeqNos
  <1>6. unit[(startPos + RcvBufSize - 1) % RcvBufSize] = NoUnit
    <2> DEFINE x == startPos + RcvBufSize - 1
               last == RcvBufSize - 1
    <2>1. /\ x \in Int /\ 0 - RcvBufSize <= x /\ x < 2 * RcvBufSize
          /\ RcvBufSize \in Nat \ {0}
      BY <1>2 DEF Slots
    <2>2. last \in Slots /\ Slot(startPos, last) = IF x < RcvBufSize THEN x ELSE x - RcvBufSize
      BY <1>2 DEF Slots, Slot
    <2>3. ~ (x < 0)
      BY <1>2 DEF Slots
    <2>4. last = D \/ (D < last /\ ~(last - D <= maxPos))
      <3>1. D \in Nat /\ D <= last /\ last \in Nat
        BY <1>2 DEF Slots
      <3>2. maxPos = 0 \/ D + maxPos <= last - 1
        BY <1>2
      <3> QED
        BY <1>2, <3>1, <3>2
    <2> HIDE DEF x, last
    <2>5. x % RcvBufSize = Slot(startPos, last)
      BY <2>1, <2>2, <2>3, ModNear
    <2>6. unit[Slot(startPos, last)] = NoUnit
      BY <1>3, <2>2, <2>4 DEF Content
    <2> QED
      BY <2>5, <2>6 DEF x
  <1>7. ASSUME NEW i \in Slots, unit[i] # NoUnit
        PROVE  \E d \in -getRcvDataSize .. getAvailBufSize - 1 :
                 i = RingPos(d) /\ unit[i] = (IF d >= 0 THEN incseqBy(rcvLastAck, d)
                                              ELSE (rcvLastAck + d) % (MaxSeqNo + 1))
    <2>1. PICK k \in Slots : Slot(startPos, k) = i
      BY <1>2, SlotFacts
    <2>2. /\ unit[Slot(startPos, k)] = SeqOf(S + k) /\ S + k \in 0 .. MaxPkts
          /\ k < D \/ (D < k /\ k - D <= maxPos)
      <3>1. k # D /\ (k < D \/ D < k)
        BY <1>2, <1>3, <1>7, <2>1 DEF Content, Slots
      <3>2. CASE k < D
        <4>1. ~ (k < C)
          BY <1>3, <1>7, <2>1 DEF Content
        <4>2. C <= k
          BY <1>2, <4>1 DEF Slots
        <4>3. S + k \in 0 .. MaxPkts
          BY <1>2, <3>2 DEF Slots
        <4> QED
          BY <1>3, <3>2, <4>2, <4>3 DEF Content
      <3>3. CASE D < k
        <4>1. k - D <= maxPos /\ S + k < MaxPkts /\ unit[Slot(startPos, k)] = SeqOf(S + k)
          BY <1>3, <1>7, <2>1, <3>3 DEF Content
        <4>2. S + k \in 0 .. MaxPkts
          BY <4>1 DEF Slots
        <4> QED
          BY <3>3, <4>1, <4>2
      <3> QED
        BY <3>1, <3>2, <3>3
    <2> DEFINE d == k - D
    <2>3. d \in -D .. RcvBufSize - D - 1 - 1 /\ D + d = k /\ d \in Int
      BY <1>2, <2>2 DEF Slots
    <2>4. RingPos(d) = i
      BY <1>2, <2>1, <2>3, RingPosFacts
    <2>5. S + D \in 0 .. MaxPkts /\ (S + k) - (S + D) = d
      BY <1>2 DEF Slots
    <2>6. d >= 0 => incseqBy(rcvLastAck, d) = unit[i]
      <3>1. d >= 0 => S + D <= S + k
        BY <1>2 DEF Slots
      <3> QED
        BY <1>2, <2>1, <2>2, <2>5, <3>1, SeqArithmetic
    <2>7. ~(d >= 0) => (rcvLastAck + d) % (MaxSeqNo + 1) = unit[i]
      <3>1. ~(d >= 0) => S + k <= S + D
        BY <1>2 DEF Slots
      <3> QED
        BY <1>2, <2>1, <2>2, <2>5, <3>1, SeqArithmetic
    <2>8. d \in -getRcvDataSize .. getAvailBufSize - 1
      BY <1>4, <2>3
    <2> HIDE DEF d
    <2> QED
      BY <2>4, <2>6, <2>7, <2>8
  <1>8. SlotsConsistent
    BY <1>6, <1>7 DEF SlotsConsistent
  <1> QED
    BY <1>1, <1>5, <1>8 DEF DeliveredOk

\* The empty buffer.
LEMMA RInitInv ==
  ASSUME RInit
  PROVE  RInv
  <1>1. 0 \in Slots /\ SeqOf(0) = PeerISN
    BY DEF Slots, SeqOf, incseqBy, SeqNos
  <1>2. \A k \in Slots : Slot(0, k) \in Slots
    BY <1>1, SlotFacts
  <1>3. Content(unit, startPos, maxPos, 0, 0, 0)
    <2>1. \A k \in Slots : unit[Slot(startPos, k)] = NoUnit
      BY <1>2 DEF RInit
    <2>2. \A k \in Slots : ~(0 <= k /\ k < 0)
      BY DEF Slots
    <2> QED
      BY <2>1, <2>2 DEF Content
  <1>4. RingOk(unit, startPos, lastAckPos, maxPos, rcvLastAck, 0, 0, 0)
    <2>1. Slot(0, 0) = 0
      BY <1>1, SlotFacts
    <2> QED
      BY <1>1, <1>3, <2>1 DEF RingOk, RInit
  <1>5. DeliveredOk(0, 0)
    <2>1. delivered \in Streams /\ Len(delivered) = 0
      BY DEF RInit, Streams
    <2>2. Len(delivered) = (0 + 0) * PktLen + notch
      BY <2>1 DEF RInit
    <2> QED
      BY <2>1, <2>2 DEF DeliveredOk, DeliveredInOrder
  <1>6. RTypes /\ ReaderOk(0, 0)
    BY DEF RTypes, ReaderOk, RInit
  <1> QED
    BY <1>4, <1>5, <1>6 DEF RInv

\* Steps that leave the ring and a running readBuffer alone.
LEMMA FrameInv ==
  ASSUME RInv, UNCHANGED <<ringVars, delivered>>, RTypes',
         \/ recvPc # "copy" /\ recvPc' # "copy"
         \/ UNCHANGED <<recvPc, readPos, readLast>>
  PROVE  RInv'
  <1>1. PICK S \in Nat, D \in Nat, C \in Nat :
          /\ RingOk(unit, startPos, lastAckPos, maxPos, rcvLastAck, S, D, C)
          /\ ReaderOk(D, C) /\ DeliveredOk(S, C)
    BY DEF RInv
  <1>2. UNCHANGED <<unit, startPos, lastAckPos, maxPos, notch, rcvLastAck, delivered>>
    BY DEF ringVars
  <1>3. RingOk(unit', startPos', lastAckPos', maxPos', rcvLastAck', S, D, C)
    BY <1>1, <1>2
  <1>4. ReaderOk(D, C)'
    BY <1>1, <1>2 DEF ReaderOk
  <1>5. DeliveredOk(S, C)'
    BY <1>1, <1>2 DEF DeliveredOk, DeliveredInOrder
  <1> QED
    BY <1>3, <1>4, <1>5 DEF RInv

-----------------------------------------------------------------------------
(* recv(). *)

\* recv() before and after readBuffer, and the worker outside processData.
LEMMA CallsInv ==
  ASSUME RInv,
         \/ \E len \in ReadLens, mode \in RecvModes : RecvCall(len, mode)
         \/ RecvEntry \/ RecvLoop \/ RecvWait \/ RecvTimeout \/ RecvCheck
         \/ DataSignal \/ Shutdown \/ ReleaseSignal \/ ReleaseJoin
  PROVE  RInv'
  <1>1. UNCHANGED <<ringVars, delivered, readPos, readLast, readLeft>>
    BY DEF RecvCall, RecvEntry, RecvLoop, RecvWait, RecvTimeout, RecvCheck, DataSignal,
           Shutdown, ReleaseSignal, ReleaseJoin, readVars
  <1>2. recvLen' = recvLen \/ recvLen' \in ReadLens
    BY DEF RecvCall, RecvEntry, RecvLoop, RecvWait, RecvTimeout, RecvCheck, DataSignal,
           Shutdown, ReleaseSignal, ReleaseJoin, callVars, RecvGoto, RecvThrow
  <1>3. recvPc' = recvPc \/ (recvPc # "copy" /\ recvPc' # "copy")
    BY DEF RecvCall, RecvEntry, RecvLoop, RecvWait, RecvTimeout, RecvCheck, DataSignal,
           Shutdown, ReleaseSignal, ReleaseJoin, callVars, RecvGoto, RecvThrow
  <1>4. RTypes'
    BY <1>1, <1>2 DEF RInv, RTypes, ringVars
  <1> QED
    BY <1>1, <1>3, <1>4, FrameInv

\* readBuffer begins at m_iStartPos and will go no further than the ACK point is now.
LEMMA ReadBeginInv ==
  ASSUME RInv, ReadBegin
  PROVE  RInv'
  <1>1. PICK S \in Nat, D \in Nat, C \in Nat :
          /\ RingOk(unit, startPos, lastAckPos, maxPos, rcvLastAck, S, D, C)
          /\ ReaderOk(D, C) /\ DeliveredOk(S, C)
    BY DEF RInv
  <1>2. /\ UNCHANGED <<unit, startPos, lastAckPos, maxPos, notch, rcvLastAck, delivered, recvLen>>
        /\ recvPc = "read" /\ recvPc' = "copy"
        /\ readPos' = startPos /\ readLast' = lastAckPos /\ readLeft' = recvLen
    BY DEF ReadBegin, ringVars, RecvGoto
  <1>3. C = 0
    BY <1>1, <1>2 DEF ReaderOk
  <1>4. startPos \in Slots /\ lastAckPos = Slot(startPos, D) /\ D \in 0 .. D
    BY <1>1 DEF RingOk
  <1>5. Slot(startPos, 0) = startPos
    BY <1>4, SlotFacts
  <1>6. ReaderOk(D, C)'
    BY <1>2, <1>3, <1>4, <1>5 DEF ReaderOk
  <1>7. RingOk(unit', startPos', lastAckPos', maxPos', rcvLastAck', S, D, C)
    BY <1>1, <1>2
  <1>8. DeliveredOk(S, C)'
    BY <1>1, <1>2 DEF DeliveredOk, DeliveredInOrder
  <1>9. RTypes'
    BY <1>2 DEF RInv, RTypes
  <1> QED
    BY <1>6, <1>7, <1>8, <1>9 DEF RInv

\* readBuffer ends: m_iStartPos catches up with what was read.
LEMMA ReadEndInv ==
  ASSUME RInv, ReadEnd
  PROVE  RInv'
  <1>1. PICK S \in Nat, D \in Nat, C \in Nat :
          /\ RingOk(unit, startPos, lastAckPos, maxPos, rcvLastAck, S, D, C)
          /\ ReaderOk(D, C) /\ DeliveredOk(S, C)
    BY DEF RInv
  <1>2. /\ UNCHANGED <<unit, lastAckPos, maxPos, notch, rcvLastAck, delivered, recvLen, readLeft>>
        /\ recvPc = "copy" /\ recvPc' = "idle" /\ startPos' = readPos
    BY DEF ReadEnd, readVars
  <1>3. readPos = Slot(startPos, C)
    BY <1>1, <1>2 DEF ReaderOk
  <1>4. /\ S \in Nat /\ D \in Slots /\ C \in Slots /\ C <= D
        /\ startPos \in Slots /\ lastAckPos = Slot(startPos, D)
        /\ maxPos \in Nat /\ D + maxPos <= RcvBufSize - 1
        /\ (maxPos > 0 => D + maxPos <= RcvBufSize - 2)
        /\ S + D <= MaxPkts /\ rcvLastAck = SeqOf(S + D)
        /\ DOMAIN unit = Slots /\ Content(unit, startPos, maxPos, S, D, C)
    BY <1>1 DEF RingOk
  <1> DEFINE S2 == S + C
             D2 == D - C
  <1>5. S2 \in Nat /\ D2 \in Slots /\ 0 \in Slots /\ 0 <= D2 /\ S2 + D2 = S + D /\ C + D2 = D
    BY <1>4 DEF Slots
  <1>6. readPos \in Slots
    BY <1>3, <1>4, SlotFacts
  <1>7. \A k \in Slots : Slot(readPos, k) =
          IF C + k < RcvBufSize THEN Slot(startPos, C + k) ELSE Slot(startPos, C + k - RcvBufSize)
    <2>1. \A c, k \in Slots : Slot(Slot(startPos, c), k) =
            IF c + k < RcvBufSize THEN Slot(startPos, c + k) ELSE Slot(startPos, c + k - RcvBufSize)
      BY <1>4, SlotFacts
    <2>2. C \in Slots
      BY <1>4
    <2> QED
      BY <1>3, <2>1, <2>2, Zenon
  <1>8. lastAckPos = Slot(readPos, D2)
    <2>1. C + D2 < RcvBufSize
      BY <1>4, <1>5 DEF Slots
    <2> HIDE DEF D2
    <2> QED
      BY <1>4, <1>5, <1>7, <2>1
  <1>9. Content(unit, readPos, maxPos, S2, D2, 0)
    <2>1. SUFFICES ASSUME NEW k \in Slots
                   PROVE  /\ k < 0 \/ k = D2 => unit[Slot(readPos, k)] = NoUnit
                          /\ 0 <= k /\ k < D2 => unit[Slot(readPos, k)] = SeqOf(S2 + k)
                          /\ D2 < k => \/ unit[Slot(readPos, k)] = NoUnit
                                       \/ /\ k - D2 <= maxPos /\ S2 + k < MaxPkts
                                          /\ unit[Slot(readPos, k)] = SeqOf(S2 + k)
      BY DEF Content
    <2>2. CASE C + k < RcvBufSize
      <3> DEFINE j == C + k
      <3>1. /\ j \in Slots /\ Slot(readPos, k) = Slot(startPos, j) /\ S + j = S2 + k
            /\ j - D = k - D2 /\ C <= j /\ ~(k < 0)
            /\ (k = D2 <=> j = D) /\ (k < D2 <=> j < D) /\ (D2 < k <=> D < j)
        BY <1>4, <1>7, <2>2 DEF Slots
      <3> HIDE DEF j, D2, S2
      <3> QED
        BY <1>4, <3>1 DEF Content
    <2>3. CASE ~(C + k < RcvBufSize)
      <3> DEFINE j == C + k - RcvBufSize
      <3>1. j \in Slots /\ Slot(readPos, k) = Slot(startPos, j) /\ j < C /\ D2 < k
        BY <1>4, <1>7, <2>3 DEF Slots
      <3>2. unit[Slot(readPos, k)] = NoUnit
        BY <1>4, <3>1 DEF Content
      <3>3. ~(k < D2) /\ k # D2
        BY <1>5, <3>1 DEF Slots
      <3> QED
        BY <3>2, <3>3
    <2> QED
      BY <2>2, <2>3
  <1>10. RingOk(unit', startPos', lastAckPos', maxPos', rcvLastAck', S2, D2, 0)
    <2>1. D2 + maxPos <= RcvBufSize - 1 /\ (maxPos > 0 => D2 + maxPos <= RcvBufSize - 2)
      BY <1>4 DEF Slots
    <2>2. S2 + D2 <= MaxPkts /\ rcvLastAck = SeqOf(S2 + D2)
      BY <1>4, <1>5
    <2> HIDE DEF S2, D2
    <2> QED
      BY <1>2, <1>4, <1>5, <1>6, <1>8, <1>9, <2>1, <2>2 DEF RingOk
  <1>11. DeliveredOk(S2, 0)'
    <2>1. S2 + 0 = S + C
      BY <1>4
    <2> HIDE DEF S2
    <2> QED
      BY <1>1, <1>2, <2>1 DEF DeliveredOk, DeliveredInOrder
  <1>12. ReaderOk(D2, 0)' /\ RTypes'
    BY <1>2 DEF ReaderOk, RInv, RTypes
  <1>13. D2 \in Nat
    BY <1>5 DEF Slots
  <1> HIDE DEF S2, D2
  <1> QED
    BY <1>5, <1>10, <1>11, <1>12, <1>13 DEF RInv

\* The bytes one turn of readBuffer copies.
Copied(seq, from, size) == [k \in 1 .. size |-> <<seq, from + k - 1>>]

\* A prefix of the stream.
Prefix(d, len) == /\ d \in Streams /\ Len(d) = len
                  /\ \A j \in 1 .. Len(d) : d[j] = StreamByte(j)

\* What is appended to the bytes delivered comes after them.
LEMMA Concatenation ==
  ASSUME NEW T, NEW a \in Seq(T), NEW b \in Seq(T)
  PROVE  /\ a \o b \in Seq(T) /\ Len(a \o b) = Len(a) + Len(b)
         /\ \A j \in 1 .. Len(a) : (a \o b)[j] = a[j]
         /\ \A j \in Len(a) + 1 .. Len(a) + Len(b) : (a \o b)[j] = b[j - Len(a)]
  <1>1. Len(a) \in Nat /\ Len(b) \in Nat
    OBVIOUS
  <1> QED
    BY <1>1, ConcatProperties

\* The bytes that one turn of readBuffer copies are the next ones of the stream.
LEMMA CopiedInOrder ==
  ASSUME DeliveredInOrder, delivered \in Streams, NEW n \in Nat,
         notch \in 0 .. PktLen - 1, Len(delivered) = n * PktLen + notch,
         NEW size \in 1 .. PktLen - notch, SeqOf(n) \in Int
  PROVE  Prefix(delivered \o Copied(SeqOf(n), notch, size), n * PktLen + (notch + size))
  <1> DEFINE bytes == Copied(SeqOf(n), notch, size)
             d2 == delivered \o bytes
             len == Len(delivered)
  <1>1. size \in Nat /\ len \in Nat /\ notch \in Nat /\ PktLen \in Nat \ {0}
    OBVIOUS
  <1>2. bytes \in [1 .. size -> Bytes]
    BY <1>1 DEF Bytes, Copied
  <1>3. bytes \in Seq(Bytes) /\ Len(bytes) = size
    <2> HIDE DEF bytes
    <2>1. bytes \in Seq(Bytes)
      BY <1>1, <1>2, SeqDef
    <2>2. 1 .. Len(bytes) = 1 .. size /\ Len(bytes) \in Nat
      BY <1>2, <2>1
    <2> QED
      BY <1>1, <2>1, <2>2
  <1>4. \A k \in 1 .. size : bytes[k] = <<SeqOf(n), notch + k - 1>>
    BY DEF Copied
  <1> HIDE DEF bytes
  <1>5. d2 = delivered \o bytes
    OBVIOUS
  <1> HIDE DEF d2
  <1>6. /\ d2 \in Streams /\ Len(d2) = len + size
        /\ \A j \in 1 .. len : d2[j] = delivered[j]
        /\ \A j \in len + 1 .. len + size : d2[j] = bytes[j - len]
    <2>1. delivered \in Seq(Bytes)
      BY DEF Streams
    <2>2. /\ delivered \o bytes \in Seq(Bytes) /\ Len(delivered \o bytes) = len + Len(bytes)
          /\ \A j \in 1 .. len : (delivered \o bytes)[j] = delivered[j]
          /\ \A j \in len + 1 .. len + Len(bytes) : (delivered \o bytes)[j] = bytes[j - len]
      BY <1>3, <2>1, Concatenation
    <2> QED
      BY <1>3, <1>5, <2>2, Zenon DEF Streams
  <1>7. ASSUME NEW j \in len + 1 .. len + size PROVE d2[j] = StreamByte(j)
    <2> DEFINE k == j - len
               r == notch + k - 1
    <2>1. k \in 1 .. size /\ r \in 0 .. PktLen - 1
      BY <1>1
    <2>2. j - 1 = n * PktLen + r
      BY <1>1
    <2> HIDE DEF r
    <2>3. (n * PktLen + r) \div PktLen = n /\ (n * PktLen + r) % PktLen = r
      BY <1>1, <2>1, DivMod
    <2>4. StreamByte(j) = <<SeqOf(n), r>>
      BY <2>2, <2>3 DEF StreamByte, SeqOf
    <2> QED
      BY <1>4, <1>6, <2>1, <2>4 DEF r
  <1>8. ASSUME NEW j \in 1 .. Len(d2) PROVE d2[j] = StreamByte(j)
    <2>1. j \in 1 .. len \/ j \in len + 1 .. len + size
      BY <1>1, <1>6
    <2> QED
      BY <1>6, <1>7, <2>1 DEF DeliveredInOrder
  <1>9. Len(d2) = n * PktLen + (notch + size)
    BY <1>1, <1>6
  <1> QED
    BY <1>6, <1>8, <1>9 DEF Prefix, d2, bytes

\* One turn of readBuffer's loop: it copies a packet that is there, to its end or as far
\* as the caller's buffer reaches.
LEMMA ReadUnitInv ==
  ASSUME RInv, ReadUnit
  PROVE  RInv'
  <1>1. PICK S \in Nat, D \in Nat, C \in Nat :
          /\ RingOk(unit, startPos, lastAckPos, maxPos, rcvLastAck, S, D, C)
          /\ ReaderOk(D, C) /\ DeliveredOk(S, C)
    BY DEF RInv
  <1> DEFINE rest == PktLen - notch
             size == IF rest > readLeft THEN readLeft ELSE rest
             used == readLeft > size \/ readLeft = rest
  <1>2. /\ UNCHANGED <<startPos, lastAckPos, maxPos, rcvLastAck, recvPc, recvLen, readLast>>
        /\ recvPc = "copy" /\ readPos # readLast /\ readLeft > 0
        /\ delivered' = delivered \o [k \in 1 .. size |-> <<unit[readPos], notch + k - 1>>]
        /\ unit' = IF used THEN [unit EXCEPT ![readPos] = NoUnit] ELSE unit
        /\ readPos' = IF used THEN (readPos + 1) % RcvBufSize ELSE readPos
        /\ notch' = IF used THEN 0 ELSE notch + readLeft
        /\ readLeft' = readLeft - size
    BY DEF ReadUnit, callVars
  <1>3. notch \in 0 .. PktLen - 1 /\ readLeft \in Nat /\ recvLen \in Nat
    BY DEF RInv, RTypes
  <1>4. /\ S \in Nat /\ D \in Slots /\ C \in Slots /\ C <= D
        /\ startPos \in Slots /\ lastAckPos = Slot(startPos, D)
        /\ maxPos \in Nat /\ D + maxPos <= RcvBufSize - 1
        /\ (maxPos > 0 => D + maxPos <= RcvBufSize - 2)
        /\ S + D <= MaxPkts /\ rcvLastAck = SeqOf(S + D)
        /\ DOMAIN unit = Slots /\ Content(unit, startPos, maxPos, S, D, C)
    BY <1>1 DEF RingOk
  <1>5. readPos = Slot(startPos, C)
    BY <1>1, <1>2 DEF ReaderOk
  <1>6. PICK L \in C .. D : readLast = Slot(startPos, L)
    BY <1>1, <1>2 DEF ReaderOk
  <1>7. C < L /\ C < D /\ L \in Nat
    BY <1>2, <1>4, <1>5, <1>6 DEF Slots
  <1>8. unit[readPos] = SeqOf(S + C)
    BY <1>4, <1>5, <1>7 DEF Content
  <1>9. size \in 1 .. rest /\ (used <=> readLeft >= rest) /\ (used => size = rest)
        /\ (~used => size = readLeft /\ readLeft < rest)
    BY <1>2, <1>3
  <1>10. SeqOf(S + C) \in Int /\ S + C \in Nat
    <2>1. S + C \in 0 .. MaxPkts
      BY <1>4 DEF Slots
    <2> QED
      BY <2>1, SeqArithmetic DEF SeqNos
  <1>11. DeliveredInOrder /\ delivered \in Streams /\ Len(delivered) = (S + C) * PktLen + notch
    BY <1>1 DEF DeliveredOk
  <1>12. readLeft - size \in Nat
    BY <1>3, <1>9
  <1>13. used \in BOOLEAN
    OBVIOUS
  <1> HIDE DEF size, used
  <1>14. delivered' = delivered \o Copied(SeqOf(S + C), notch, size)
    BY <1>2, <1>8 DEF Copied
  <1>15. /\ delivered' \in Streams /\ Len(delivered') = (S + C) * PktLen + (notch + size)
         /\ \A j \in 1 .. Len(delivered') : delivered'[j] = StreamByte(j)
    <2> DEFINE n == S + C
    <2>1. n \in Nat /\ SeqOf(n) \in Int /\ Len(delivered) = n * PktLen + notch
      BY <1>10, <1>11
    <2>2. size \in 1 .. PktLen - notch /\ notch \in 0 .. PktLen - 1
      BY <1>3, <1>9
    <2>3. DeliveredInOrder /\ delivered \in Streams
      BY <1>11
    <2> HIDE DEF n, rest
    <2>4. Prefix(delivered \o Copied(SeqOf(n), notch, size), n * PktLen + (notch + size))
      BY <2>1, <2>2, <2>3, CopiedInOrder
    <2>5. Prefix(delivered', (S + C) * PktLen + (notch + size))
      BY <1>14, <2>4 DEF n
    <2> QED
      BY <2>5 DEF Prefix
  <1>16. DeliveredInOrder'
    BY <1>15 DEF DeliveredInOrder, StreamByte
  <1>17. CASE used
    <2>1. notch' = 0 /\ unit' = [unit EXCEPT ![readPos] = NoUnit] /\ readPos' = (readPos + 1) % RcvBufSize
      BY <1>2, <1>17
    <2>2. C + 1 \in Slots /\ C + 1 <= D /\ C + 1 \in Nat /\ L \in C + 1 .. D
      BY <1>4, <1>6, <1>7 DEF Slots
    <2>3. readPos' = Slot(startPos, C + 1)
      <3> DEFINE x == readPos + 1
      <3>1. /\ x \in Int /\ 0 - RcvBufSize <= x /\ x < 2 * RcvBufSize /\ ~(x < 0)
            /\ RcvBufSize \in Nat \ {0}
        BY <1>4, <1>5 DEF Slots, Slot
      <3>2. Slot(startPos, C + 1) = IF x < RcvBufSize THEN x ELSE x - RcvBufSize
        BY <1>4, <1>5, <2>2 DEF Slots, Slot
      <3> HIDE DEF x
      <3>3. x % RcvBufSize = Slot(startPos, C + 1)
        BY <3>1, <3>2, ModNear
      <3> QED
        BY <2>1, <3>3 DEF x
    <2>4. ReaderOk(D, C + 1)'
      BY <1>2, <1>6, <2>2, <2>3 DEF ReaderOk
    <2>5. Content(unit', startPos, maxPos, S, D, C + 1)
      <3>1. SUFFICES ASSUME NEW k \in Slots
                     PROVE  /\ k < C + 1 \/ k = D => unit'[Slot(startPos, k)] = NoUnit
                            /\ C + 1 <= k /\ k < D => unit'[Slot(startPos, k)] = SeqOf(S + k)
                            /\ D < k => \/ unit'[Slot(startPos, k)] = NoUnit
                                        \/ /\ k - D <= maxPos /\ S + k < MaxPkts
                                           /\ unit'[Slot(startPos, k)] = SeqOf(S + k)
        BY DEF Content
      <3>2. CASE k = C
        <4>1. unit'[Slot(startPos, k)] = NoUnit
          <5>1. readPos \in Slots
            BY <1>4, <1>5, SlotFacts
          <5> QED
            BY <1>4, <1>5, <2>1, <3>2, <5>1
        <4>2. ~(C + 1 <= k) /\ ~(D < k)
          BY <1>4, <3>2 DEF Slots
        <4> QED
          BY <4>1, <4>2
      <3>3. CASE k # C
        <4>1. Slot(startPos, k) # readPos /\ Slot(startPos, k) \in Slots
          BY <1>4, <1>5, <3>3, SlotFacts
        <4>2. unit'[Slot(startPos, k)] = unit[Slot(startPos, k)]
          BY <1>4, <2>1, <4>1
        <4>3. (k < C + 1 => k < C) /\ (C + 1 <= k => C <= k)
          BY <1>4, <3>3 DEF Slots
        <4> QED
          BY <1>4, <4>2, <4>3 DEF Content
      <3> QED
        BY <3>2, <3>3
    <2>6. RingOk(unit', startPos', lastAckPos', maxPos', rcvLastAck', S, D, C + 1)
      <3>1. DOMAIN unit' = Slots
        BY <1>4, <2>1
      <3> QED
        BY <1>2, <1>4, <2>2, <2>5, <3>1 DEF RingOk
    <2>7. DeliveredOk(S, C + 1)'
      <3>1. (S + C) * PktLen + (notch + size) = (S + (C + 1)) * PktLen + 0
        BY <1>3, <1>9, <1>17
      <3> QED
        BY <1>15, <1>16, <2>1, <3>1 DEF DeliveredOk
    <2>8. RTypes'
      BY <1>2, <1>3, <1>12, <2>1 DEF RTypes
    <2> QED
      BY <2>2, <2>4, <2>6, <2>7, <2>8 DEF RInv
  <1>18. CASE ~used
    <2>1. notch' = notch + readLeft /\ unit' = unit /\ readPos' = readPos /\ size = readLeft
      BY <1>2, <1>9, <1>18
    <2>2. notch' \in 0 .. PktLen - 1
      BY <1>3, <1>9, <1>18, <2>1
    <2>3. ReaderOk(D, C)'
      BY <1>2, <1>5, <1>6, <2>1 DEF ReaderOk
    <2>4. RingOk(unit', startPos', lastAckPos', maxPos', rcvLastAck', S, D, C)
      BY <1>1, <1>2, <2>1
    <2>5. DeliveredOk(S, C)'
      BY <1>15, <1>16, <2>1 DEF DeliveredOk
    <2>6. RTypes'
      BY <1>2, <1>3, <1>12, <2>2 DEF RTypes
    <2> QED
      BY <2>3, <2>4, <2>5, <2>6 DEF RInv
  <1> QED
    BY <1>13, <1>17, <1>18

-----------------------------------------------------------------------------
(* processData. *)

\* The ring with packet q put k places after st, and what is true of it before the ACK
\* point moves.
Filled(u, st, k, q) == [u EXCEPT ![Slot(st, k)] = q]

FilledOk(f, st, top, S, D, C) ==
  /\ DOMAIN f = Slots
  /\ \A k \in Slots :
       /\ k < C => f[Slot(st, k)] = NoUnit
       /\ C <= k /\ k < D => f[Slot(st, k)] = SeqOf(S + k)
       /\ D <= k => \/ f[Slot(st, k)] = NoUnit
                    \/ k - D <= top /\ S + k < MaxPkts /\ f[Slot(st, k)] = SeqOf(S + k)

\* A packet put k places after m_iStartPos, its own place, among those addData accepts.
LEMMA FilledContent ==
  ASSUME NEW u, NEW st \in Slots, NEW mp \in Nat, NEW S \in Nat, NEW D \in Slots, NEW C \in Slots,
         C <= D, NEW o \in Nat, NEW top \in Nat, top >= o, top >= mp,
         D + top + 1 \in Slots, S + (D + o) < MaxPkts, DOMAIN u = Slots,
         Content(u, st, mp, S, D, C)
  PROVE  FilledOk(Filled(u, st, D + o, SeqOf(S + (D + o))), st, top, S, D, C)
  <1> DEFINE K == D + o
             f == Filled(u, st, D + o, SeqOf(S + (D + o)))
  <1>1. K \in Slots /\ o = K - D /\ D <= K /\ D \in Nat
    BY DEF Slots
  <1>2. f = [u EXCEPT ![Slot(st, K)] = SeqOf(S + K)] /\ S + K < MaxPkts
    BY DEF Filled
  <1> HIDE DEF K, f
  <1>3. Slot(st, K) \in Slots
    BY <1>1, SlotFacts
  <1>4. f[Slot(st, K)] = SeqOf(S + K)
    BY <1>2, <1>3
  <1>5. \A k \in Slots : k # K => f[Slot(st, k)] = u[Slot(st, k)]
    <2>1. SUFFICES ASSUME NEW k \in Slots, k # K PROVE f[Slot(st, k)] = u[Slot(st, k)]
      OBVIOUS
    <2>2. Slot(st, k) # Slot(st, K) /\ Slot(st, k) \in Slots
      BY <1>1, <2>1, SlotFacts
    <2> QED
      BY <1>2, <2>2
  <1>6. ASSUME NEW k \in Slots
        PROVE  /\ k < C => f[Slot(st, k)] = NoUnit
               /\ C <= k /\ k < D => f[Slot(st, k)] = SeqOf(S + k)
               /\ D <= k => \/ f[Slot(st, k)] = NoUnit
                            \/ k - D <= top /\ S + k < MaxPkts /\ f[Slot(st, k)] = SeqOf(S + k)
    <2>1. CASE k = K
      <3>1. ~(k < C) /\ ~(k < D) /\ k - D <= top
        BY <1>1, <2>1 DEF Slots
      <3> QED
        BY <1>2, <1>4, <2>1, <3>1
    <2>2. CASE k # K
      <3>1. f[Slot(st, k)] = u[Slot(st, k)]
        BY <1>5, <2>2
      <3>2. (D <= k => k = D \/ D < k) /\ (k - D <= mp => k - D <= top)
        BY <1>1 DEF Slots
      <3> QED
        BY <3>1, <3>2 DEF Content
    <2> QED
      BY <2>1, <2>2
  <1>7. DOMAIN f = Slots
    BY <1>2
  <1>8. FilledOk(f, st, top, S, D, C)
    BY <1>6, <1>7 DEF FilledOk
  <1> QED
    BY <1>8 DEF f

\* The search for the first gap succeeds: the slot after the highest packet is empty.
LEMMA GapExists ==
  ASSUME NEW f, NEW st \in Slots, NEW D \in Slots, lastAckPos = Slot(st, D), NEW top \in Nat,
         D + top + 1 \in Slots, f[Slot(st, D + (top + 1))] = NoUnit
  PROVE  \E i \in 0 .. top + 1 : FirstGap(f, top, i)
  <1> DEFINE gaps == {i \in 0 .. top + 1 : f[RingPos(i)] = NoUnit}
  <1>1. top + 1 \in Int /\ D + (top + 1) \in Slots
    BY DEF Slots
  <1>2. RingPos(top + 1) = Slot(st, D + (top + 1))
    BY <1>1, RingPosFacts
  <1>3. top + 1 \in gaps
    BY <1>2
  <1>4. gaps \in SUBSET Nat
    OBVIOUS
  <1> HIDE DEF gaps
  <1>5. PICK i \in gaps : \A j \in gaps : i <= j
    BY <1>3, <1>4, Least
  <1>6. i \in 0 .. top + 1 /\ f[RingPos(i)] = NoUnit
    BY <1>5 DEF gaps
  <1>7. ASSUME NEW j \in 0 .. i - 1 PROVE f[RingPos(j)] # NoUnit
    <2>1. j \in 0 .. top + 1 /\ ~(i <= j)
      BY <1>6
    <2> QED
      BY <1>5, <2>1 DEF gaps
  <1> QED
    BY <1>6, <1>7 DEF FirstGap

\* The ACK point never goes back.
AckAdvances == \E a, b \in 0 .. MaxPkts : /\ a <= b
                                          /\ rcvLastAck = SeqOf(a) /\ rcvLastAck' = SeqOf(b)

\* processData: refused, repeated, or stored, and then the ACK point moves to the first
\* gap.  recv() may be reading at the same time; the slots it works on are not touched.
LEMMA ProcessDataInv ==
  ASSUME RInv, NEW m \in 0 .. MaxPkts - 1, NEW msg, NEW seq, seq = SeqOf(m),
         processData(seq, msg)
  PROVE  RInv' /\ AckAdvances
  <1>1. PICK S \in Nat, D \in Nat, C \in Nat :
          /\ RingOk(unit, startPos, lastAckPos, maxPos, rcvLastAck, S, D, C)
          /\ ReaderOk(D, C) /\ DeliveredOk(S, C)
    BY DEF RInv
  <1>2. /\ S \in Nat /\ D \in Slots /\ C \in Slots /\ C <= D
        /\ startPos \in Slots /\ lastAckPos = Slot(startPos, D)
        /\ maxPos \in Nat /\ D + maxPos <= RcvBufSize - 1
        /\ (maxPos > 0 => D + maxPos <= RcvBufSize - 2)
        /\ S + D <= MaxPkts /\ rcvLastAck = SeqOf(S + D)
        /\ DOMAIN unit = Slots /\ Content(unit, startPos, maxPos, S, D, C)
    BY <1>1 DEF RingOk
  <1> DEFINE offset == seqoff(rcvLastAck, seq)
             pos == RingPos(offset)
             top == IF offset > maxPos THEN offset ELSE maxPos
             filled == [unit EXCEPT ![pos] = seq]
  <1>3. /\ UNCHANGED <<startPos, notch, delivered, recvPc, recvLen, readPos, readLast, readLeft>>
        /\ \/ UNCHANGED <<unit, lastAckPos, maxPos, rcvLastAck>>
           \/ ~Refused(offset) /\ addData(seq, offset)
    BY DEF processData, callVars, readVars
  <1>4. ReaderOk(D, C)' /\ DeliveredOk(S, C)' /\ RTypes'
    BY <1>1, <1>3 DEF ReaderOk, DeliveredOk, DeliveredInOrder, StreamByte, RInv, RTypes
  <1>7. rcvLastAck' = rcvLastAck => AckAdvances
    <2>1. S + D \in 0 .. MaxPkts
      BY <1>2 DEF Slots
    <2> QED
      BY <1>2, <2>1 DEF AckAdvances
  <1>5. CASE UNCHANGED <<unit, lastAckPos, maxPos, rcvLastAck>>
    <2>1. RingOk(unit', startPos', lastAckPos', maxPos', rcvLastAck', S, D, C)
      BY <1>1, <1>3, <1>5
    <2> QED
      BY <1>4, <1>5, <1>7, <2>1 DEF RInv
  <1>6. CASE ~Refused(offset) /\ addData(seq, offset)
    <2>1. offset = m - (S + D)
      <3>1. S + D \in 0 .. MaxPkts /\ m \in 0 .. MaxPkts
        BY <1>2 DEF Slots
      <3> QED
        BY <1>2, <3>1, SeqArithmetic
    <2>2. offset \in Nat /\ offset < RcvBufSize - D - 1
      <3>1. getAvailBufSize = RcvBufSize - D - 1
        BY <1>2, DataSize
      <3> QED
        BY <1>2, <1>6, <2>1, <3>1 DEF Refused, Slots
    <2>3. m = S + (D + offset) /\ D + offset \in Slots /\ offset \in Int
      BY <1>2, <2>1, <2>2 DEF Slots
    <2> HIDE DEF offset
    <2>4. pos = Slot(startPos, D + offset)
      BY <1>2, <2>3, RingPosFacts
    <2>5. top \in Nat /\ top >= offset /\ top >= maxPos /\ D + top + 1 \in Slots
      BY <1>2, <2>2 DEF Slots
    <2>6. top = offset \/ top = maxPos
      OBVIOUS
    <2>7. \/ /\ unit[pos] # NoUnit /\ maxPos' = top /\ UNCHANGED <<unit, lastAckPos, rcvLastAck>>
          \/ /\ unit[pos] = NoUnit /\ unit' = filled
             /\ \/ \E i \in 0 .. top + 1 :
                     /\ FirstGap(filled, top, i)
                     /\ lastAckPos' = RingPos(i)
                     /\ maxPos' = IF top - i < 0 THEN 0 ELSE top - i
                     /\ rcvLastAck' = incseqBy(rcvLastAck, i)
                \/ \A i \in 0 .. top + 1 : ~FirstGap(filled, top, i)
      BY <1>6 DEF addData
    <2>8. filled = [unit EXCEPT ![Slot(startPos, D + offset)] = SeqOf(S + (D + offset))]
      BY <2>3, <2>4
    <2> HIDE DEF pos, top, filled
    <2>9. CASE unit[pos] # NoUnit /\ maxPos' = top /\ UNCHANGED <<unit, lastAckPos, rcvLastAck>>
      <3>1. D + top <= RcvBufSize - 1 /\ D + top <= RcvBufSize - 2
        BY <1>2, <2>5 DEF Slots
      <3>2. Content(unit, startPos, top, S, D, C)
        <4>1. \A k \in Slots : k - D <= maxPos => k - D <= top
          BY <1>2, <2>5 DEF Slots
        <4> QED
          BY <1>2, <4>1 DEF Content
      <3>3. RingOk(unit', startPos', lastAckPos', maxPos', rcvLastAck', S, D, C)
        BY <1>2, <1>3, <2>5, <2>9, <3>1, <3>2 DEF RingOk
      <3> QED
        BY <1>4, <1>7, <2>9, <3>3 DEF RInv
    <2>10. CASE unit[pos] = NoUnit /\ unit' = filled
      <3>1. S + (D + offset) < MaxPkts
        BY <2>3
      <3>2. /\ DOMAIN filled = Slots
            /\ \A k \in Slots :
                 /\ k < C => filled[Slot(startPos, k)] = NoUnit
                 /\ C <= k /\ k < D => filled[Slot(startPos, k)] = SeqOf(S + k)
                 /\ D <= k => \/ filled[Slot(startPos, k)] = NoUnit
                              \/ /\ k - D <= top /\ S + k < MaxPkts
                                 /\ filled[Slot(startPos, k)] = SeqOf(S + k)
        <4>1. FilledOk(Filled(unit, startPos, D + offset, SeqOf(S + (D + offset))),
                       startPos, top, S, D, C)
          BY <1>2, <2>2, <2>5, <3>1, FilledContent
        <4>2. FilledOk(filled, startPos, top, S, D, C)
          BY <2>8, <4>1 DEF Filled
        <4> QED
          BY <4>2 DEF FilledOk
      <3>3. filled[Slot(startPos, D + (top + 1))] = NoUnit
        <4> DEFINE k == D + (top + 1)
        <4>1. k \in Slots /\ D <= k /\ ~(k - D <= top)
          BY <1>2, <2>5 DEF Slots
        <4> HIDE DEF k
        <4>2. filled[Slot(startPos, k)] = NoUnit
          BY <3>2, <4>1
        <4> QED
          BY <4>2 DEF k
      <3>4. \E i \in 0 .. top + 1 : FirstGap(filled, top, i)
        BY <1>2, <2>5, <3>3, GapExists
      <3>5. PICK i \in 0 .. top + 1 :
              /\ FirstGap(filled, top, i)
              /\ lastAckPos' = RingPos(i)
              /\ maxPos' = IF top - i < 0 THEN 0 ELSE top - i
              /\ rcvLastAck' = incseqBy(rcvLastAck, i)
        BY <2>7, <2>10, <3>4
      <3> DEFINE D2 == D + i
      <3>6. i \in Nat /\ i \in Int /\ D2 \in Slots /\ D2 \in Nat /\ C <= D2 /\ D <= D2
        BY <1>2, <2>5 DEF Slots
      <3>7. \A j \in 0 .. i : RingPos(j) = Slot(startPos, D + j)
        <4>1. \A j \in 0 .. i : j \in Int /\ D + j \in Slots
          BY <1>2, <2>5, <3>6 DEF Slots
        <4> QED
          BY <1>2, <4>1, RingPosFacts
      <3>8. filled[Slot(startPos, D2)] = NoUnit
        <4>1. i \in 0 .. i
          BY <3>6
        <4> QED
          BY <3>5, <3>7, <4>1 DEF FirstGap
      <3>9. ASSUME NEW k \in Slots, D <= k, k < D2
            PROVE  S + k < MaxPkts /\ filled[Slot(startPos, k)] = SeqOf(S + k)
        <4>1. k - D \in 0 .. i - 1 /\ k - D \in 0 .. i /\ D + (k - D) = k
          BY <1>2, <3>6, <3>9 DEF Slots
        <4>2. filled[RingPos(k - D)] # NoUnit
          BY <3>5, <4>1 DEF FirstGap
        <4>3. filled[Slot(startPos, k)] # NoUnit
          BY <3>7, <4>1, <4>2
        <4> QED
          BY <3>2, <3>9, <4>3
      <3>10. S + D2 <= MaxPkts
        <4>1. CASE i = 0
          BY <1>2, <4>1
        <4>2. CASE i > 0
          <5>1. D2 - 1 \in Slots /\ D <= D2 - 1 /\ D2 - 1 < D2
            BY <1>2, <3>6, <4>2 DEF Slots
          <5>2. S + (D2 - 1) < MaxPkts
            BY <3>9, <5>1
          <5> QED
            BY <1>2, <3>6, <5>2
        <4> QED
          BY <3>6, <4>1, <4>2
      <3>11. rcvLastAck' = SeqOf(S + D2)
        <4>1. /\ S + D \in 0 .. MaxPkts /\ S + D2 \in 0 .. MaxPkts /\ S + D <= S + D2
              /\ (S + D2) - (S + D) = i
          BY <1>2, <3>6, <3>10 DEF Slots
        <4> QED
          BY <1>2, <3>5, <4>1, SeqArithmetic
      <3>12. /\ maxPos' \in Nat /\ D2 + maxPos' <= RcvBufSize - 1
             /\ (maxPos' > 0 => D2 + maxPos' <= RcvBufSize - 2)
             /\ \A k \in Slots : D2 < k /\ k - D <= top => k - D2 <= maxPos'
        BY <1>2, <2>5, <3>5, <3>6 DEF Slots
      <3>13. lastAckPos' = Slot(startPos, D2)
        <4>1. i \in 0 .. i
          BY <3>6
        <4> QED
          BY <3>5, <3>7, <4>1
      <3>14. Content(unit', startPos, maxPos', S, D2, C)
        <4>1. SUFFICES ASSUME NEW k \in Slots
                       PROVE  /\ k < C \/ k = D2 => filled[Slot(startPos, k)] = NoUnit
                              /\ C <= k /\ k < D2 => filled[Slot(startPos, k)] = SeqOf(S + k)
                              /\ D2 < k => \/ filled[Slot(startPos, k)] = NoUnit
                                           \/ /\ k - D2 <= maxPos' /\ S + k < MaxPkts
                                              /\ filled[Slot(startPos, k)] = SeqOf(S + k)
          BY <2>10 DEF Content
        <4>2. (k < D \/ D <= k) /\ (D2 < k => D <= k)
          BY <1>2, <3>6 DEF Slots
        <4>3. k < C \/ k = D2 => filled[Slot(startPos, k)] = NoUnit
          BY <3>2, <3>8
        <4>4. C <= k /\ k < D2 => filled[Slot(startPos, k)] = SeqOf(S + k)
          BY <3>2, <3>9, <4>2
        <4>5. D2 < k => \/ filled[Slot(startPos, k)] = NoUnit
                        \/ /\ k - D2 <= maxPos' /\ S + k < MaxPkts
                           /\ filled[Slot(startPos, k)] = SeqOf(S + k)
          BY <3>2, <3>12, <4>2
        <4> QED
          BY <4>3, <4>4, <4>5
      <3>15. RingOk(unit', startPos', lastAckPos', maxPos', rcvLastAck', S, D2, C)
        <4> HIDE DEF D2
        <4>1. DOMAIN unit' = Slots
          BY <2>10, <3>2
        <4> QED
          BY <1>2, <1>3, <3>6, <3>10, <3>11, <3>12, <3>13, <3>14, <4>1 DEF RingOk
      <3>16. ReaderOk(D2, C)'
        <4>1. C .. D \subseteq C .. D2
          BY <3>6
        <4> HIDE DEF D2
        <4> QED
          BY <1>4, <4>1 DEF ReaderOk
      <3>17. AckAdvances
        <4>1. S + D \in 0 .. MaxPkts /\ S + D2 \in 0 .. MaxPkts /\ S + D <= S + D2
          BY <1>2, <3>6, <3>10 DEF Slots
        <4> HIDE DEF D2
        <4> QED
          BY <1>2, <3>11, <4>1 DEF AckAdvances
      <3> HIDE DEF D2
      <3> QED
        BY <1>4, <3>6, <3>15, <3>16, <3>17 DEF RInv
    <2> QED
      BY <2>7, <2>9, <2>10
  <1> QED
    BY <1>3, <1>5, <1>6

-----------------------------------------------------------------------------
(* The theorems. *)

\* No step of the worker or of recv() breaks the invariant.
LEMMA RStepInv ==
  ASSUME RInv, [RNext]_rvars
  PROVE  RInv'
  <1>1. ASSUME NEW n \in 0 .. MaxPkts - 1, processData(incseqBy(PeerISN, n), 1) PROVE RInv'
    <2> DEFINE seq == incseqBy(PeerISN, n)
    <2>1. seq = SeqOf(n) /\ processData(seq, 1)
      BY <1>1 DEF SeqOf
    <2> HIDE DEF seq
    <2> QED
      BY <2>1, ProcessDataInv
  <1>2. CASE \/ \E len \in ReadLens, mode \in RecvModes : RecvCall(len, mode)
             \/ RecvEntry \/ RecvLoop \/ RecvWait \/ RecvTimeout \/ RecvCheck
             \/ DataSignal \/ Shutdown \/ ReleaseSignal \/ ReleaseJoin
    BY <1>2, CallsInv
  <1>3. CASE ReadBegin
    BY <1>3, ReadBeginInv
  <1>4. CASE ReadUnit
    BY <1>4, ReadUnitInv
  <1>5. CASE ReadEnd
    BY <1>5, ReadEndInv
  <1>6. CASE UNCHANGED rvars
    <2>1. UNCHANGED <<ringVars, delivered, recvPc, recvLen, readPos, readLast, readLeft>>
      BY <1>6 DEF rvars, callVars, readVars
    <2>2. RTypes'
      BY <2>1 DEF RInv, RTypes, ringVars
    <2> QED
      BY <2>1, <2>2, FrameInv
  <1> QED
    BY <1>1, <1>2, <1>3, <1>4, <1>5, <1>6 DEF RNext, Worker, Reader

\* The invariant holds at all times.
LEMMA RInvAlways == RSpec => []RInv
  BY RInitInv, RStepInv, PTL DEF RSpec

\* recv() delivers the stream of the peer in order, each byte once and none left out,
\* however packets are reordered, repeated or lost and however the reads cut them.
THEOREM StreamInOrder == RSpec => []DeliveredInOrder
  BY RInvAlways, RInvImplies, PTL

\* A packet is in the slot of its sequence number and the slot before m_iStartPos is
\* empty, so addData prints neither "inconsistent Seq No" nor "Full Buffer".
THEOREM SlotsStayConsistent == RSpec => []SlotsConsistent
  BY RInvAlways, RInvImplies, PTL

\* readBuffer never meets an empty slot although processData runs without its lock.
THEOREM ReaderNeverMeetsGap == RSpec => []ReaderSeesData
  BY RInvAlways, RInvImplies, PTL

-----------------------------------------------------------------------------
(* The connection: the sender's invariant SafeInv and the receiver's RInv   *)
(* hold side by side, and all that either end has of the other came over    *)
(* the wire.                                                                *)

USE SenderAssumption, ConnectionAssumption

\* Position in the stream and sequence number.
LEMMA Positions ==
  /\ \A s \in SeqNos : Pos(s) < MaxPkts => Pos(s) \in 0 .. MaxPkts - 1 /\ s = SeqOf(Pos(s))
  /\ \A n \in 0 .. MaxPkts : SeqOf(n) \in SeqNos /\ Pos(SeqOf(n)) = n
  BY DEF Pos, SeqOf, incseqBy, SeqNos

OnWire(s) == \E p \in wire : p[1] = s

\* What has been transmitted had been queued by send().
LEMMA OnWireQueued ==
  ASSUME SafeInv, NEW s, OnWire(s)
  PROVE  s \in SeqNos /\ Pos(s) < enqueued /\ enqueued <= MaxPkts /\ enqueued \in Nat
  <1>1. wire \subseteq SeqNos \X Nat /\ enqueued \in Nat
    BY DEF SafeInv, TypeInv, HistType
  <1>2. s \in SeqNos
    BY <1>1 DEF OnWire
  <1>3. ~(Pos(s) >= enqueued)
    BY <1>2 DEF SafeInv, TrackerInv, FreshUnused, OnWire
  <1>4. Pos(s) \in Int
    BY <1>2 DEF Pos, SeqNos
  <1> QED
    BY <1>1, <1>2, <1>3, <1>4 DEF SafeInv, Allocation

\* The sender only adds to what is on the wire, and send() queues one packet at a time.
LEMMA SenderFrame ==
  ASSUME App \/ Snd \/ (\E p \in acks : ProcessAck(p[1], p[2])) \/ RcvStep
  PROVE  wire \subseteq wire' /\ (enqueued' = enqueued \/ SendRecord)
  <1>1. CASE App
    BY <1>1 DEF App, SendCall, SendEntry, SendLoop, SendWait, SendTimeout, SendRecheck,
                SendNext, SendCompare, SendRecord, SendFinish, histVars
  <1>2. CASE Snd
    BY <1>2 DEF Snd, PackRetransmission, PackNewPacket, PackCommit, Transmit, histVars
  <1>3. CASE \E p \in acks : ProcessAck(p[1], p[2])
    BY <1>3 DEF ProcessAck, histVars
  <1>4. CASE RcvStep
    BY <1>4 DEF RcvStep, AckDelete, AckMinSeq, AckSignal, AckReport, NoDatagram, TimersDone,
                OldestSent, OldestGone, OldestOverdue, OldestNotOverdue, AddToLossRecord, histVars
  <1> QED
    BY <1>1, <1>2, <1>3, <1>4

\* With acknowledgements of what was sent only, a step of the sender is one of Sender.
LEMMA SenderSteps ==
  ASSUME SafeInv, acks \subseteq wire,
         App \/ Snd \/ (\E p \in acks : ProcessAck(p[1], p[2])) \/ RcvStep
  PROVE  SafeInv'
  <1>1. Next
    BY DEF Next, Rcv, RcvStep
  <1> QED
    BY <1>1, SafeInvStep

\* What is in the receive buffer and what has been delivered was transmitted.
BytesSent ==
  /\ \A k \in Slots : unit[k] # NoUnit => OnWire(unit[k])
  /\ \A j \in 1 .. Len(delivered) : OnWire(delivered[j][1])

CInv == SafeInv /\ RInv /\ acks \subseteq wire /\ BytesSent

\* What is on the wire are transmissions of packets of the stream.
LEMMA WireShape ==
  ASSUME CInv, NEW p \in wire
  PROVE  /\ Pos(p[1]) \in 0 .. MaxPkts - 1 /\ p[1] = SeqOf(Pos(p[1]))
         /\ p[1] \in SeqNos /\ p[2] \in Nat /\ p = <<p[1], p[2]>>
  <1> DEFINE seq == p[1]
  <1>1. wire \subseteq SeqNos \X Nat
    BY DEF CInv, SafeInv, TypeInv, HistType
  <1>2. OnWire(seq)
    BY DEF OnWire
  <1>3. seq \in SeqNos /\ Pos(seq) < enqueued /\ enqueued <= MaxPkts /\ enqueued \in Nat
    BY <1>2, OnWireQueued DEF CInv
  <1>4. Pos(seq) \in Int /\ p[2] \in Nat /\ p = <<p[1], p[2]>>
    BY <1>1, <1>3 DEF Pos, SeqNos
  <1> HIDE DEF seq
  <1>5. Pos(seq) < MaxPkts
    BY <1>3, <1>4
  <1>6. Pos(seq) \in 0 .. MaxPkts - 1 /\ seq = SeqOf(Pos(seq))
    BY <1>3, <1>5, Positions
  <1> QED
    BY <1>3, <1>4, <1>6 DEF seq

\* A turn of readBuffer's loop delivers bytes of the packet it is at, which has been
\* received in sequence, and empties at most its slot.
LEMMA ReadUnitFacts ==
  ASSUME RInv, ReadUnit
  PROVE  /\ readPos \in Slots /\ unit[readPos] # NoUnit /\ ReceivedInSequence(unit[readPos])
         /\ rcvLastAck' = rcvLastAck
         /\ \A k \in Slots : unit'[k] = unit[k] \/ (k = readPos /\ unit'[k] = NoUnit)
         /\ delivered \in Streams /\ Len(delivered') > Len(delivered)
         /\ \A j \in 1 .. Len(delivered) : delivered'[j] = delivered[j]
         /\ \A j \in Len(delivered) + 1 .. Len(delivered') : delivered'[j][1] = unit[readPos]
  <1>1. PICK S \in Nat, D \in Nat, C \in Nat :
          /\ RingOk(unit, startPos, lastAckPos, maxPos, rcvLastAck, S, D, C)
          /\ ReaderOk(D, C) /\ DeliveredOk(S, C)
    BY DEF RInv
  <1> DEFINE rest == PktLen - notch
             size == IF rest > readLeft THEN readLeft ELSE rest
             used == readLeft > size \/ readLeft = rest
  <1>2. /\ rcvLastAck' = rcvLastAck
        /\ recvPc = "copy" /\ readPos # readLast /\ readLeft > 0
        /\ delivered' = delivered \o Copied(unit[readPos], notch, size)
        /\ unit' = IF used THEN [unit EXCEPT ![readPos] = NoUnit] ELSE unit
    BY DEF ReadUnit, Copied
  <1>3. notch \in 0 .. PktLen - 1 /\ readLeft \in Nat
    BY DEF RInv, RTypes
  <1>4. /\ D \in Slots /\ C \in Slots /\ C <= D /\ startPos \in Slots
        /\ S + D <= MaxPkts /\ rcvLastAck = SeqOf(S + D)
        /\ DOMAIN unit = Slots /\ Content(unit, startPos, maxPos, S, D, C)
    BY <1>1 DEF RingOk
  <1>5. readPos = Slot(startPos, C)
    BY <1>1, <1>2 DEF ReaderOk
  <1>6. PICK L \in C .. D : readLast = Slot(startPos, L)
    BY <1>1, <1>2 DEF ReaderOk
  <1>7. C < D
    BY <1>2, <1>4, <1>5, <1>6 DEF Slots
  <1>8. unit[readPos] = SeqOf(S + C)
    BY <1>4, <1>5, <1>7 DEF Content
  <1>9. size \in Nat /\ size >= 1
    BY <1>2, <1>3
  <1>10. /\ S + C \in 0 .. MaxPkts /\ S + D \in 0 .. MaxPkts /\ (S + C) - (S + D) < 0
    BY <1>4, <1>7 DEF Slots
  <1>11. SeqOf(S + C) \in SeqNos /\ seqoff(SeqOf(S + D), SeqOf(S + C)) < 0
    BY <1>10, SeqArithmetic
  <1>12. readPos \in Slots
    BY <1>4, <1>5, SlotFacts
  <1>13. \A k \in Slots : unit'[k] = unit[k] \/ (k = readPos /\ unit'[k] = NoUnit)
    BY <1>2, <1>4
  <1> DEFINE seq == unit[readPos]
             bytes == Copied(seq, notch, size)
  <1>14. seq \in Int
    BY <1>8, <1>11 DEF SeqNos
  <1> HIDE DEF size, used, seq
  <1>15. /\ bytes \in Streams /\ Len(bytes) = size
         /\ \A j \in 1 .. size : bytes[j][1] = seq
    BY <1>3, <1>9, <1>14 DEF Copied, Streams, Bytes
  <1>16. delivered \in Streams /\ Len(delivered) \in Nat
    BY <1>1 DEF DeliveredOk, Streams
  <1>17. delivered' = delivered \o bytes
    BY <1>2 DEF seq
  <1> HIDE DEF bytes
  <1>18. /\ Len(delivered') = Len(delivered) + size
         /\ \A j \in 1 .. Len(delivered) : delivered'[j] = delivered[j]
         /\ \A j \in Len(delivered) + 1 .. Len(delivered) + size :
              delivered'[j] = bytes[j - Len(delivered)]
    <2> DEFINE d == delivered \o bytes
    <2>1. delivered \in Seq(Bytes) /\ bytes \in Seq(Bytes)
      BY <1>15, <1>16 DEF Streams
    <2>2. /\ Len(d) = Len(delivered) + Len(bytes)
          /\ \A j \in 1 .. Len(delivered) : d[j] = delivered[j]
          /\ \A j \in Len(delivered) + 1 .. Len(delivered) + Len(bytes) :
               d[j] = bytes[j - Len(delivered)]
      BY <2>1, Concatenation
    <2>3. delivered' = d /\ Len(bytes) = size
      BY <1>15, <1>17
    <2> HIDE DEF d
    <2> QED
      BY <2>2, <2>3
  <1>19. \A j \in Len(delivered) + 1 .. Len(delivered') : delivered'[j][1] = seq
    <2> TAKE j \in Len(delivered) + 1 .. Len(delivered')
    <2>1. j - Len(delivered) \in 1 .. size /\ j \in Len(delivered) + 1 .. Len(delivered) + size
      BY <1>9, <1>16, <1>18
    <2> QED
      BY <1>15, <1>18, <2>1
  <1>20. unit[readPos] # NoUnit /\ ReceivedInSequence(unit[readPos])
    BY <1>4, <1>8, <1>11 DEF NoUnit, SeqNos, ReceivedInSequence
  <1> QED
    BY <1>2, <1>9, <1>12, <1>13, <1>16, <1>18, <1>19, <1>20 DEF seq

\* The bytes of the receiver's state stay on the wire.
LEMMA BytesFrame ==
  ASSUME BytesSent, wire \subseteq wire', UNCHANGED <<unit, delivered>>
  PROVE  BytesSent'
  BY DEF BytesSent, OnWire

\* Neither end's steps break the invariant of the connection.
LEMMA CStepInv ==
  ASSUME CInv, [CNext]_cvars
  PROVE  CInv'
  <1>1. SafeInv /\ RInv /\ acks \subseteq wire /\ BytesSent
    BY DEF CInv
  <1>2. CASE SenderStep
    <2>1. /\ App \/ Snd \/ (\E p \in acks : ProcessAck(p[1], p[2])) \/ RcvStep
          /\ UNCHANGED rvars
      BY <1>2 DEF SenderStep
    <2>2. SafeInv' /\ wire \subseteq wire'
      BY <1>1, <2>1, SenderSteps, SenderFrame
    <2>3. RInv'
      BY <1>1, <2>1, RStepInv
    <2>4. UNCHANGED <<unit, delivered, acks>>
      BY <2>1 DEF rvars, ringVars
    <2> QED
      BY <1>1, <2>2, <2>3, <2>4, BytesFrame DEF CInv
  <1>3. CASE ReceiverStep
    <2>1. UNCHANGED vars
      BY <1>3 DEF ReceiverStep
    <2>2. SafeInv' /\ wire' = wire
      BY <1>1, <2>1, SafeInvStep DEF vars, histVars
    <2>3. ASSUME NEW p \in wire, processData(p[1], p[2]) PROVE CInv'
      <3> DEFINE seq == p[1]
      <3>1. OnWire(seq)
        BY DEF OnWire
      <3>2. /\ Pos(seq) \in 0 .. MaxPkts - 1 /\ seq = SeqOf(Pos(seq)) /\ seq \in SeqNos
        BY WireShape
      <3>3. RInv'
        BY <1>1, <2>3, <3>2, ProcessDataInv
      <3>4. /\ acks' = acks \cup {<<p[1], p[2]>>} /\ delivered' = delivered
            /\ unit' = unit \/ unit' = [unit EXCEPT ![RingPos(seqoff(rcvLastAck, seq))] = seq]
        BY <2>3 DEF processData, addData
      <3>5. acks' \subseteq wire'
        <4>1. wire \subseteq SeqNos \X Nat
          BY <1>1 DEF SafeInv, TypeInv, HistType
        <4>2. p = <<p[1], p[2]>>
          BY <4>1
        <4> QED
          BY <1>1, <2>2, <3>4, <4>2
      <3>6. BytesSent'
        <4>1. DOMAIN unit = Slots
          BY <1>1 DEF RInv, RingOk
        <4>2. \A k \in Slots : unit'[k] # NoUnit => unit'[k] = seq \/ (unit[k] # NoUnit /\ unit'[k] = unit[k])
          BY <3>4, <4>1
        <4>3. \A t : OnWire(t) => OnWire(t)'
          BY <2>2 DEF OnWire
        <4> HIDE DEF seq
        <4> QED
          BY <1>1, <3>1, <3>4, <4>2, <4>3 DEF BytesSent
      <3> QED
        BY <2>2, <3>3, <3>5, <3>6 DEF CInv
    <2>4. CASE DataSignal \/ Reader
      <3>1. RInv'
        BY <1>1, <2>4, RStepInv DEF RNext, Worker
      <3>2. acks' = acks
        BY <2>4 DEF DataSignal, Reader, RecvCall, RecvEntry, RecvLoop, RecvWait, RecvTimeout,
                    RecvCheck, ReadBegin, ReadUnit, ReadEnd
      <3>3. BytesSent'
        <4>1. CASE ReadUnit
          <5>1. \A t : OnWire(t) => OnWire(t)'
            BY <2>2 DEF OnWire
          <5>2. /\ readPos \in Slots /\ unit[readPos] # NoUnit
                /\ \A k \in Slots : unit'[k] = unit[k] \/ unit'[k] = NoUnit
                /\ delivered \in Streams /\ Len(delivered') > Len(delivered)
                /\ \A j \in 1 .. Len(delivered) : delivered'[j] = delivered[j]
                /\ \A j \in Len(delivered) + 1 .. Len(delivered') : delivered'[j][1] = unit[readPos]
            BY <1>1, <4>1, ReadUnitFacts
          <5>3. OnWire(unit[readPos])
            BY <1>1, <5>2 DEF BytesSent
          <5>4. \A j \in 1 .. Len(delivered') :
                   j \in 1 .. Len(delivered) \/ j \in Len(delivered) + 1 .. Len(delivered')
            BY <5>2 DEF Streams
          <5> QED
            BY <1>1, <5>1, <5>2, <5>3, <5>4 DEF BytesSent
        <4>2. CASE ~ReadUnit
          <5>1. UNCHANGED <<unit, delivered>>
            BY <2>4, <4>2 DEF DataSignal, Reader, RecvCall, RecvEntry, RecvLoop, RecvWait,
                        RecvTimeout, RecvCheck, ReadBegin, ReadEnd, ringVars
          <5> QED
            BY <1>1, <2>2, <5>1, BytesFrame
        <4> QED
          BY <4>1, <4>2
      <3> QED
        BY <1>1, <2>2, <3>1, <3>2, <3>3 DEF CInv
    <2> QED
      BY <1>3, <2>3, <2>4 DEF ReceiverStep
  <1>4. CASE UNCHANGED cvars
    <2>1. UNCHANGED vars /\ UNCHANGED rvars
      BY <1>4 DEF cvars
    <2>2. SafeInv' /\ RInv'
      BY <1>1, <2>1, SafeInvStep, RStepInv
    <2>3. UNCHANGED <<unit, delivered, acks, wire>>
      BY <2>1 DEF rvars, ringVars, vars, histVars
    <2> QED
      BY <1>1, <2>2, <2>3, BytesFrame DEF CInv
  <1> QED
    BY <1>2, <1>3, <1>4 DEF CNext

\* Both ends are set up by the handshake.
LEMMA CInitInv == CInit => CInv
  <1> SUFFICES ASSUME CInit PROVE CInv
    OBVIOUS
  <1>1. SafeInv /\ RInv
    BY InitSafeInv, RInitInv DEF CInit
  <1>2. acks \subseteq wire /\ BytesSent
    BY DEF CInit, RInit, BytesSent
  <1> QED
    BY <1>1, <1>2 DEF CInv

\* The input of the abstract stream after send() has queued n packets.
Input(n) == [j \in 1 .. n * PktLen |-> StreamByte(j)]

\* Its length and its bytes.
LEMMA InputFacts ==
  ASSUME NEW n \in Nat
  PROVE  /\ n * PktLen \in Nat /\ Input(n) \in Streams /\ Len(Input(n)) = n * PktLen
         /\ \A j \in 1 .. n * PktLen : Input(n)[j] = StreamByte(j)
  <1> DEFINE w == n * PktLen
  <1>1. w \in Nat
    OBVIOUS
  <1>2. \A j \in 1 .. w : StreamByte(j) \in Bytes
    <2> TAKE j \in 1 .. w
    <2>1. (j - 1) \div PktLen \in Int /\ (j - 1) % PktLen \in Int
      BY <1>1
    <2> QED
      BY <2>1 DEF StreamByte, Bytes, incseqBy, SeqNos
  <1> HIDE DEF w
  <1>3. [j \in 1 .. w |-> StreamByte(j)] \in Seq(Bytes)
    BY <1>1, <1>2
  <1>4. /\ Len([j \in 1 .. w |-> StreamByte(j)]) = w
        /\ \A j \in 1 .. w : [i \in 1 .. w |-> StreamByte(i)][j] = StreamByte(j)
    BY <1>1
  <1> QED
    BY <1>1, <1>3, <1>4 DEF Input, Streams, w

\* One sequence extends another with the same bytes.
LEMMA ExtendsPointwise ==
  ASSUME NEW a \in Streams, NEW b \in Streams, Len(b) <= Len(a),
         \A j \in 1 .. Len(b) : a[j] = b[j]
  PROVE  Len(a) >= Len(b) /\ SubSeq(a, 1, Len(b)) = b
  <1>1. Len(a) \in Nat /\ Len(b) \in Nat /\ b \in Seq(Bytes)
    BY DEF Streams
  <1>2. \A j \in 1 .. Len(b) : a[j] \in Bytes
    BY <1>1
  <1> DEFINE c == SubSeq(a, 1, Len(b))
  <1>3. /\ c \in Seq(Bytes) /\ Len(c) = IF 1 <= Len(b) THEN Len(b) - 1 + 1 ELSE 0
        /\ \A i \in 1 .. Len(b) - 1 + 1 : c[i] = a[1 + i - 1]
    BY <1>1, <1>2, SubSeqProperties
  <1>4. Len(c) = Len(b) /\ \A i \in 1 .. Len(c) : c[i] = b[i]
    BY <1>1, <1>3
  <1> HIDE DEF c
  <1>5. c = b
    BY <1>1, <1>3, <1>4, SeqEqual
  <1> QED
    BY <1>1, <1>5 DEF c

\* recv() has not delivered more than send() has queued.
LEMMA DeliveredQueued ==
  ASSUME CInv
  PROVE  /\ enqueued \in Nat /\ delivered \in Streams /\ Len(delivered) <= enqueued * PktLen
         /\ \A j \in 1 .. Len(delivered) : delivered[j] = StreamByte(j)
  <1>1. /\ delivered \in Streams /\ Len(delivered) \in Nat
        /\ \A j \in 1 .. Len(delivered) : delivered[j] = StreamByte(j)
    BY DEF CInv, RInv, DeliveredOk, DeliveredInOrder, Streams
  <1>2. enqueued \in Nat
    BY DEF CInv, SafeInv, TypeInv, HistType
  <1>3. Len(delivered) <= enqueued * PktLen
    <2> DEFINE j == Len(delivered)
               q == (j - 1) \div PktLen
               r == (j - 1) % PktLen
    <2>1. enqueued * PktLen \in Nat
      BY <1>2
    <2>2. CASE j = 0
      BY <2>1, <2>2
    <2>3. CASE j > 0
      <3>1. j \in 1 .. Len(delivered) /\ j - 1 \in Nat
        BY <1>1, <2>3
      <3>2. q \in Nat /\ r \in 0 .. PktLen - 1 /\ j - 1 = q * PktLen + r
        BY <3>1
      <3>3. delivered[j][1] = SeqOf(q)
        BY <1>1, <3>1 DEF StreamByte, SeqOf
      <3>4. OnWire(SeqOf(q))
        BY <3>1, <3>3 DEF CInv, BytesSent
      <3>5. PICK S \in Nat, D \in Nat, C \in Nat :
              /\ RingOk(unit, startPos, lastAckPos, maxPos, rcvLastAck, S, D, C)
              /\ DeliveredOk(S, C)
        BY DEF CInv, RInv
      <3>6. S + C <= MaxPkts /\ j = (S + C) * PktLen + notch /\ notch \in 0 .. PktLen - 1
        <4>1. j = (S + C) * PktLen + notch
          BY <3>5 DEF DeliveredOk
        <4>2. notch \in 0 .. PktLen - 1
          BY DEF CInv, RInv, RTypes
        <4>3. C <= D /\ S + D <= MaxPkts
          BY <3>5 DEF RingOk
        <4>4. S + C <= MaxPkts
          BY <1>2, <4>3
        <4> QED
          BY <4>1, <4>2, <4>4
      <3> HIDE DEF j, q, r
      <3>7. q <= S + C
        <4> SUFFICES ASSUME q >= S + C + 1 PROVE FALSE
          BY <3>2, <3>5
        <4>1. q - (S + C) - 1 \in Nat
          BY <3>2, <3>5
        <4>2. (q - (S + C) - 1) * PktLen \in Nat
          BY <4>1
        <4>3. q * PktLen = (S + C) * PktLen + PktLen + (q - (S + C) - 1) * PktLen
          BY <3>2, <3>5
        <4>4. q * PktLen \in Nat /\ (S + C) * PktLen \in Nat /\ j \in Nat
          BY <1>1, <3>2, <3>5 DEF j
        <4> QED
          BY <3>2, <3>6, <4>2, <4>3, <4>4
      <3>8. q \in 0 .. MaxPkts
        BY <3>2, <3>5, <3>6, <3>7
      <3>9. Pos(SeqOf(q)) = q /\ q < enqueued
        BY <3>4, <3>8, Positions, OnWireQueued DEF CInv
      <3>10. enqueued - q - 1 \in Nat
        BY <1>2, <3>2, <3>9
      <3>11. (enqueued - q - 1) * PktLen \in Nat /\ q * PktLen \in Nat
        BY <3>2, <3>10
      <3>12. enqueued * PktLen = q * PktLen + PktLen + (enqueued - q - 1) * PktLen
        BY <1>2, <3>2
      <3>13. j \in Nat
        BY <1>1 DEF j
      <3>14. j <= enqueued * PktLen
        BY <2>1, <3>2, <3>11, <3>12, <3>13
      <3> QED
        BY <3>14 DEF j
    <2> QED
      BY <1>1, <2>2, <2>3
  <1> QED
    BY <1>1, <1>2, <1>3

\* Each step of the connection is a write, a read or no step of the stream.
LEMMA StreamStep ==
  ASSUME CInv, CInv', [CNext]_cvars
  PROVE  [Stream!SNext]_<<Input(enqueued), delivered>>
  <1>1. /\ enqueued \in Nat /\ delivered \in Streams /\ Len(delivered) <= enqueued * PktLen
        /\ \A j \in 1 .. Len(delivered) : delivered[j] = StreamByte(j)
    BY DeliveredQueued
  <1>2. /\ enqueued' \in Nat /\ delivered' \in Streams /\ Len(delivered') <= enqueued' * PktLen
        /\ \A j \in 1 .. Len(delivered') : delivered'[j] = StreamByte(j)
    <2>1. (/\ enqueued \in Nat /\ delivered \in Streams /\ Len(delivered) <= enqueued * PktLen
           /\ \A j \in 1 .. Len(delivered) : delivered[j] = StreamByte(j))'
      BY DeliveredQueued, PTL
    <2> QED
      BY <2>1 DEF Streams, Bytes, StreamByte, incseqBy
  <1>3. CASE SenderStep
    <2>1. /\ App \/ Snd \/ (\E p \in acks : ProcessAck(p[1], p[2])) \/ RcvStep
          /\ delivered' = delivered
      BY <1>3 DEF SenderStep, rvars
    <2>2. CASE enqueued' = enqueued
      BY <2>1, <2>2 DEF Input
    <2>3. CASE SendRecord
      <3>1. enqueued' = enqueued + 1
        BY <2>3 DEF SendRecord
      <3> DEFINE m == enqueued'
                 a == Input(m)
                 b == Input(enqueued)
      <3>2. m \in Nat /\ m * PktLen = enqueued * PktLen + PktLen /\ enqueued * PktLen \in Nat
        BY <1>1, <3>1
      <3>3. /\ a \in Streams /\ Len(a) = m * PktLen
            /\ \A j \in 1 .. m * PktLen : a[j] = StreamByte(j)
        BY <3>2, InputFacts
      <3>4. /\ b \in Streams /\ Len(b) = enqueued * PktLen
            /\ \A j \in 1 .. enqueued * PktLen : b[j] = StreamByte(j)
        BY <1>1, InputFacts
      <3>5. a = Input(enqueued)'
        BY DEF Input, StreamByte, incseqBy
      <3> HIDE DEF a, b, m
      <3>6. Len(b) < Len(a) /\ \A j \in 1 .. Len(b) : a[j] = b[j]
        BY <3>2, <3>3, <3>4
      <3>7. Len(a) >= Len(b) /\ SubSeq(a, 1, Len(b)) = b
        BY <3>3, <3>4, <3>6, ExtendsPointwise DEF Streams
      <3>8. Stream!Write
        BY <2>1, <3>5, <3>6, <3>7 DEF Stream!Write, Stream!Extends, b, Input
      <3> QED
        BY <3>8 DEF Stream!SNext
    <2> QED
      BY <2>1, <2>2, <2>3, SenderFrame
  <1>4. CASE ReceiverStep
    <2>1. enqueued' = enqueued
      BY <1>4 DEF ReceiverStep, vars, histVars
    <2>2. CASE ReadUnit
      <3>1. /\ Len(delivered') > Len(delivered)
            /\ \A j \in 1 .. Len(delivered) : delivered'[j] = delivered[j]
        BY <2>2, ReadUnitFacts DEF CInv
      <3>2. Len(delivered') >= Len(delivered) /\ SubSeq(delivered', 1, Len(delivered)) = delivered
        BY <1>1, <1>2, <3>1, ExtendsPointwise DEF Streams
      <3> DEFINE b == Input(enqueued)
      <3>3. /\ b \in Streams /\ Len(b) = enqueued * PktLen
            /\ \A j \in 1 .. enqueued * PktLen : b[j] = StreamByte(j)
        BY <1>1, InputFacts
      <3> HIDE DEF b
      <3>4. Len(b) >= Len(delivered') /\ SubSeq(b, 1, Len(delivered')) = delivered'
        <4>1. Len(delivered') \in Nat /\ Len(delivered') <= Len(b)
          BY <1>2, <2>1, <3>3 DEF Streams
        <4>2. \A j \in 1 .. Len(delivered') : b[j] = delivered'[j]
          BY <1>1, <1>2, <2>1, <3>3, <4>1
        <4> QED
          BY <1>2, <3>3, <4>1, <4>2, ExtendsPointwise
      <3>5. Stream!Read
        BY <2>1, <3>1, <3>2, <3>4 DEF Stream!Read, Stream!Extends, b, Input
      <3> QED
        BY <3>5 DEF Stream!SNext
    <2>3. CASE ~ReadUnit
      <3>1. delivered' = delivered
        BY <1>4, <2>3 DEF ReceiverStep, processData, DataSignal, Reader, RecvCall, RecvEntry,
                    RecvLoop, RecvWait, RecvTimeout, RecvCheck, ReadBegin, ReadEnd
      <3> QED
        BY <2>1, <3>1 DEF Input
    <2> QED
      BY <2>2, <2>3
  <1>5. CASE UNCHANGED cvars
    <2>1. enqueued' = enqueued /\ delivered' = delivered
      BY <1>5 DEF cvars, vars, histVars, rvars
    <2> QED
      BY <2>1 DEF Input
  <1> QED
    BY <1>3, <1>4, <1>5 DEF CNext

\* A connection implements the reliable stream (StreamRefined), for any sizes of the
\* buffers and of the sequence space: what recv() copies out at one end is a prefix of
\* what send() took at the other, in order, whatever the network does with the
\* datagrams of both directions and however the threads of the ends interleave.
THEOREM ConnectionIsReliableStream == CSpec => StreamRefined
  <1>1. CInit => Stream!SInit
    <2> SUFFICES ASSUME CInit PROVE Stream!SInit
      OBVIOUS
    <2>1. enqueued = 0 /\ delivered = << >>
      BY DEF CInit, Init, RInit
    <2>2. Input(0) \in Seq(Bytes) /\ Len(Input(0)) = 0
      BY InputFacts DEF Streams
    <2>3. Input(0) = << >>
      BY <2>2
    <2> QED
      BY <2>1, <2>3 DEF Stream!SInit, Input
  <1>2. CInv /\ CInv' /\ [CNext]_cvars => [Stream!SNext]_<<Input(enqueued), delivered>>
    BY StreamStep
  <1>3. CInv /\ [CNext]_cvars => CInv'
    BY CStepInv
  <1> QED
    BY <1>1, <1>2, <1>3, CInitInv, PTL DEF CSpec, StreamRefined, Stream!SSpec, Input

-----------------------------------------------------------------------------
(* No data is lost between the packet tracker and the receive buffer.       *)

Received(seq) == ReceivedInSequence(seq) \/ \E k \in Slots : unit[k] = seq

\* What is received in sequence stays so while the ACK point advances.
LEMMA InSequenceStays ==
  ASSUME AckAdvances, NEW n \in 0 .. MaxPkts, ReceivedInSequence(SeqOf(n))
  PROVE  ReceivedInSequence(SeqOf(n))'
  <1>1. PICK a \in 0 .. MaxPkts, b \in 0 .. MaxPkts :
          a <= b /\ rcvLastAck = SeqOf(a) /\ rcvLastAck' = SeqOf(b)
    BY DEF AckAdvances
  <1>2. seqoff(SeqOf(a), SeqOf(n)) = n - a /\ seqoff(SeqOf(b), SeqOf(n)) = n - b
    BY SeqArithmetic
  <1>3. n - a < 0
    BY <1>1, <1>2 DEF ReceivedInSequence
  <1>4. n - b < 0
    BY <1>1, <1>3
  <1>5. seqoff(rcvLastAck', SeqOf(n)) < 0
    BY <1>1, <1>2, <1>4
  <1>6. SeqOf(n)' = SeqOf(n)
    BY DEF SeqOf, incseqBy
  <1> QED
    BY <1>5, <1>6 DEF ReceivedInSequence, seqoff, SeqDist

\* The receiver does not give up what it has taken.
LEMMA ReceivedStays ==
  ASSUME CInv, ReceiverStep, NEW n \in 0 .. MaxPkts, Received(SeqOf(n))
  PROVE  Received(SeqOf(n))'
  <1> DEFINE s == SeqOf(n)
  <1>1. s \in SeqNos /\ s # NoUnit /\ s' = s
    BY SeqArithmetic DEF NoUnit, SeqNos, SeqOf, incseqBy
  <1>2. RInv /\ DOMAIN unit = Slots
    BY DEF CInv, RInv, RingOk
  <1>3. ASSUME NEW p \in wire, processData(p[1], p[2]) PROVE Received(s)'
    <2> DEFINE seq == p[1]
    <2>1. Pos(seq) \in 0 .. MaxPkts - 1 /\ seq = SeqOf(Pos(seq))
      BY WireShape
    <2>2. AckAdvances
      BY <1>2, <1>3, <2>1, ProcessDataInv
    <2>3. CASE ReceivedInSequence(s)
      BY <2>2, <2>3, InSequenceStays DEF Received
    <2>4. CASE \E k \in Slots : unit[k] = s
      <3>1. PICK k \in Slots : unit[k] = s
        BY <2>4
      <3> DEFINE pos == RingPos(seqoff(rcvLastAck, seq))
      <3>2. unit' = unit \/ (unit[pos] = NoUnit /\ unit' = [unit EXCEPT ![pos] = seq])
        BY <1>3 DEF processData, addData
      <3> HIDE DEF pos, seq, s
      <3>3. unit'[k] = s
        BY <1>1, <1>2, <3>1, <3>2
      <3> QED
        BY <1>1, <3>3 DEF Received, Slots
    <2> QED
      BY <2>3, <2>4 DEF Received
  <1>4. CASE ReadUnit
    <2>1. /\ readPos \in Slots /\ ReceivedInSequence(unit[readPos])
          /\ rcvLastAck' = rcvLastAck
          /\ \A k \in Slots : unit'[k] = unit[k] \/ (k = readPos /\ unit'[k] = NoUnit)
      BY <1>2, <1>4, ReadUnitFacts
    <2>2. ReceivedInSequence(s) => ReceivedInSequence(s)'
      BY <1>1, <2>1 DEF ReceivedInSequence, seqoff, SeqDist
    <2> HIDE DEF s
    <2>3. CASE ReceivedInSequence(s)
      BY <2>2, <2>3 DEF Received, s
    <2>4. CASE ~ReceivedInSequence(s)
      <3>1. PICK k \in Slots : unit[k] = s
        BY <2>4 DEF Received, s
      <3>2. unit'[k] = s
        BY <2>1, <2>4, <3>1
      <3> QED
        BY <1>1, <3>2 DEF Received, Slots, s
    <2> QED
      BY <2>3, <2>4
  <1>5. CASE (DataSignal \/ Reader) /\ ~ReadUnit
    <2>1. UNCHANGED <<unit, rcvLastAck>>
      BY <1>5 DEF DataSignal, Reader, RecvCall, RecvEntry, RecvLoop, RecvWait,
                  RecvTimeout, RecvCheck, ReadBegin, ReadEnd, ringVars
    <2> QED
      BY <1>1, <2>1 DEF Received, ReceivedInSequence, seqoff, SeqDist, Slots
  <1> QED
    BY <1>3, <1>4, <1>5 DEF ReceiverStep

\* Every packet on the wire has a place in the receive buffer, or has had one.
InWindow == \A p \in wire : seqoff(rcvLastAck, p[1]) < getAvailBufSize

\* processData has acknowledged a packet that the buffer has room for only if it keeps it.
LEMMA StoresData ==
  ASSUME RInv, NEW m \in 0 .. MaxPkts - 1, NEW msg, NEW seq, seq = SeqOf(m),
         processData(seq, msg), seqoff(rcvLastAck, seq) < getAvailBufSize
  PROVE  Received(SeqOf(m))'
  <1>1. PICK S \in Nat, D \in Nat, C \in Nat :
          RingOk(unit, startPos, lastAckPos, maxPos, rcvLastAck, S, D, C)
    BY DEF RInv
  <1>2. /\ S \in Nat /\ D \in Slots /\ startPos \in Slots /\ lastAckPos = Slot(startPos, D)
        /\ S + D <= MaxPkts /\ rcvLastAck = SeqOf(S + D)
        /\ DOMAIN unit = Slots /\ Content(unit, startPos, maxPos, S, D, C)
    BY <1>1 DEF RingOk
  <1> DEFINE offset == seqoff(rcvLastAck, seq)
             pos == RingPos(offset)
  <1>3. m \in 0 .. MaxPkts /\ seq' = seq /\ SeqOf(m)' = SeqOf(m)
    BY DEF SeqOf, incseqBy
  <1>4. CASE offset < 0
    <2>1. AckAdvances /\ ReceivedInSequence(SeqOf(m))
      BY <1>4, ProcessDataInv DEF ReceivedInSequence
    <2> QED
      BY <1>3, <2>1, InSequenceStays DEF Received
  <1>5. CASE ~(offset < 0)
    <2>1. offset = m - (S + D) /\ S + D \in 0 .. MaxPkts
      <3>1. S + D \in 0 .. MaxPkts
        BY <1>2 DEF Slots
      <3> QED
        BY <1>2, <1>3, <3>1, SeqArithmetic
    <2>2. getAvailBufSize = RcvBufSize - D - 1
      BY <1>2, DataSize
    <2>3. m = S + (D + offset) /\ D + offset \in Slots /\ offset \in Int /\ D <= D + offset
      BY <1>2, <1>5, <2>1, <2>2 DEF Slots
    <2>4. ~Refused(offset)
      BY <1>5, <2>1, <2>2, <1>2 DEF Refused, Slots
    <2>5. (unit' = unit /\ unit[pos] # NoUnit) \/ unit' = [unit EXCEPT ![pos] = seq]
      BY <2>4 DEF processData, addData
    <2> HIDE DEF offset
    <2>6. pos = Slot(startPos, D + offset)
      BY <1>2, <2>3, RingPosFacts
    <2>7. pos \in Slots
      BY <1>2, <2>3, <2>6, SlotFacts
    <2> DEFINE k == D + offset
    <2>8. unit[pos] # NoUnit => unit[pos] = seq
      <3>1. k \in Slots /\ m = S + k /\ (k = D \/ D < k) /\ pos = Slot(startPos, k)
        BY <1>2, <2>3, <2>6 DEF Slots
      <3> HIDE DEF k
      <3> QED
        BY <1>2, <3>1 DEF Content
    <2> HIDE DEF pos
    <2>9. unit'[pos] = seq
      BY <1>2, <2>5, <2>7, <2>8
    <2> QED
      BY <1>3, <2>7, <2>9 DEF Received, Slots
  <1> QED
    BY <1>4, <1>5

\* The sender deletes the record of the packet that ProcessAck completes and of no
\* other, and ProcessAck only completes what was acknowledged.
LEMMA SenderKeeps ==
  ASSUME SafeInv, App \/ Snd \/ (\E p \in acks : ProcessAck(p[1], p[2])) \/ RcvStep
  PROVE  /\ \A s \in Recorded : s \in Recorded' \/ (rcvPc = "delete" /\ s = rcvSeq)
         /\ rcvPc' = "delete" => \/ rcvPc = "delete" /\ rcvSeq' = rcvSeq
                                 \/ \E p \in acks : rcvSeq' = p[1]
  <1>1. DOMAIN packetState = SeqNos
    BY DEF SafeInv, TypeInv, TrackerType
  <1> USE DEF Recorded
  <1>2. CASE App
    <2>1. UNCHANGED rcvVars
      BY <1>2 DEF App, SendCall, SendEntry, SendLoop, SendWait, SendTimeout, SendRecheck,
                  SendNext, SendCompare, SendRecord, SendFinish
    <2>2. packetState' = packetState \/ packetState' = [packetState EXCEPT ![sndCurrSeqNo] = "QUEUED"]
      BY <1>2 DEF App, SendCall, SendEntry, SendLoop, SendWait, SendTimeout, SendRecheck,
                  SendNext, SendCompare, SendRecord, SendFinish, trackerVars, EnqueueMinAbsent,
                  EnqueueMinPresent, EnqueueMinCompare, EnqueueRecord, ExitProcess, Segfault
    <2> QED
      BY <1>1, <2>1, <2>2 DEF rcvVars
  <1>3. CASE Snd
    <2>1. UNCHANGED rcvVars
      BY <1>3 DEF Snd, PackRetransmission, PackNewPacket, PackCommit, Transmit
    <2>2. packetState' = packetState \/ packetState' = [packetState EXCEPT ![sndSeq] = "SENT"]
      BY <1>3 DEF Snd, PackRetransmission, PackNewPacket, PackCommit, Transmit, trackerVars,
                  OnPacketSent, ExitProcess
    <2> QED
      BY <1>1, <2>1, <2>2 DEF rcvVars
  <1>4. ASSUME NEW p \in acks, ProcessAck(p[1], p[2])
        PROVE  /\ \A s \in Recorded : s \in Recorded'
               /\ rcvPc' = "delete" => rcvSeq' = p[1]
    <2>1. rcvPc' = "delete" => rcvSeq' = p[1]
      BY <1>4 DEF ProcessAck, RcvGoto
    <2>2. packetState' = packetState \/ packetState' = [packetState EXCEPT ![p[1]] = "ACKED"]
      BY <1>4 DEF ProcessAck, OnPacketAck, UpdateRecord, ExitProcess, trackerVars
    <2> QED
      BY <1>1, <2>1, <2>2
  <1>5. CASE AckDelete
    <2>1. rcvPc = "delete" /\ rcvPc' = "minseq"
      BY <1>5 DEF AckDelete, RcvAt, RcvGoto
    <2>2. packetState' = packetState \/ packetState' = [packetState EXCEPT ![rcvSeq] = "NONE"]
      BY <1>5 DEF AckDelete, DeletePacketRecord, ExitProcess, Segfault
    <2> QED
      BY <1>1, <2>1, <2>2
  <1>6. CASE AddToLossRecord
    <2>1. rcvPc' = "timers"
      BY <1>6 DEF AddToLossRecord, RcvGoto
    <2>2. packetState' = packetState \/ packetState' = [packetState EXCEPT ![rcvSeq] = "LOST"]
      BY <1>6 DEF AddToLossRecord, OnPacketLoss, UpdateRecord, ExitProcess, trackerVars
    <2> QED
      BY <1>1, <2>1, <2>2
  <1>7. CASE RcvStep /\ ~AckDelete /\ ~AddToLossRecord
    <2>1. packetState' = packetState /\ rcvPc' # "delete"
      BY <1>7 DEF RcvStep, AckMinSeq, AckSignal, AckReport, NoDatagram, TimersDone, OldestSent,
                  OldestGone, OldestOverdue, OldestNotOverdue, RcvGoto, trackerVars, Segfault,
                  ExitProcess
    <2> QED
      BY <2>1
  <1> QED
    BY <1>2, <1>3, <1>4, <1>5, <1>6, <1>7

\* NothingLost as a statement about packets, with what makes it inductive.
AllKept == \A n \in 0 .. MaxPkts : n < enqueued => SeqOf(n) \in Recorded \/ Received(SeqOf(n))

AcksHonest == \A n \in 0 .. MaxPkts, m \in Nat : <<SeqOf(n), m>> \in acks => Received(SeqOf(n))

DeletesAcked == rcvPc = "delete" =>
  \E n \in 0 .. MaxPkts, m \in Nat : rcvSeq = SeqOf(n) /\ <<SeqOf(n), m>> \in acks

LossInv == CInv /\ AllKept /\ AcksHonest /\ DeletesAcked

\* The sender keeps what the receiver does not have.
LEMMA SenderLossInv ==
  ASSUME LossInv, CInv', SenderStep
  PROVE  LossInv'
  <1>1. /\ App \/ Snd \/ (\E p \in acks : ProcessAck(p[1], p[2])) \/ RcvStep
        /\ SafeInv /\ acks \subseteq wire /\ CInv
    BY DEF LossInv, CInv, SenderStep
  <1>2. acks' = acks /\ unit' = unit /\ rcvLastAck' = rcvLastAck
    BY DEF SenderStep, rvars, ringVars
  <1>3. ASSUME NEW n \in 0 .. MaxPkts
        PROVE  SeqOf(n)' = SeqOf(n) /\ (Received(SeqOf(n))' <=> Received(SeqOf(n)))
    BY <1>2 DEF SeqOf, incseqBy, Received, ReceivedInSequence, seqoff, SeqDist, Slots
  <1>4. AcksHonest'
    BY <1>2, <1>3 DEF AcksHonest, LossInv, SeqOf, incseqBy
  <1>5. /\ \A s \in Recorded : s \in Recorded' \/ (rcvPc = "delete" /\ s = rcvSeq)
        /\ rcvPc' = "delete" => \/ rcvPc = "delete" /\ rcvSeq' = rcvSeq
                                \/ \E p \in acks : rcvSeq' = p[1]
    BY <1>1, SenderKeeps
  <1>6. DeletesAcked'
    <2> SUFFICES ASSUME rcvPc' = "delete"
                 PROVE  \E n \in 0 .. MaxPkts, m \in Nat :
                          rcvSeq' = SeqOf(n) /\ <<SeqOf(n), m>> \in acks'
      BY DEF DeletesAcked, SeqOf, incseqBy
    <2>1. CASE rcvPc = "delete" /\ rcvSeq' = rcvSeq
      BY <1>2, <2>1 DEF DeletesAcked, LossInv
    <2>2. CASE \E p \in acks : rcvSeq' = p[1]
      <3>1. PICK p \in acks : rcvSeq' = p[1]
        BY <2>2
      <3>2. /\ Pos(p[1]) \in 0 .. MaxPkts /\ p[1] = SeqOf(Pos(p[1]))
            /\ p[2] \in Nat /\ p = <<p[1], p[2]>>
        BY <1>1, WireShape
      <3> QED
        BY <1>2, <3>1, <3>2
    <2> QED
      BY <1>5, <2>1, <2>2
  <1>7. AllKept'
    <2> SUFFICES ASSUME NEW n \in 0 .. MaxPkts, n < enqueued'
                 PROVE  SeqOf(n) \in Recorded' \/ Received(SeqOf(n))
      BY <1>3 DEF AllKept
    <2>1. CASE n < enqueued
      <3>1. CASE SeqOf(n) \in Recorded /\ SeqOf(n) \notin Recorded'
        <4>1. rcvPc = "delete" /\ SeqOf(n) = rcvSeq
          BY <1>5, <3>1
        <4>2. PICK k \in 0 .. MaxPkts, m \in Nat : rcvSeq = SeqOf(k) /\ <<SeqOf(k), m>> \in acks
          BY <4>1 DEF DeletesAcked, LossInv
        <4>3. Received(SeqOf(k))
          BY <4>2 DEF AcksHonest, LossInv
        <4> QED
          BY <4>1, <4>2, <4>3
      <3> QED
        BY <2>1, <3>1 DEF AllKept, LossInv
    <2>2. CASE ~(n < enqueued)
      <3>1. SendRecord
        BY <1>1, <2>2, SenderFrame
      <3>2. enqueued' = enqueued + 1 /\ enqueued \in Nat /\ sndCurrSeqNo \in SeqNos /\ appPc = "record"
        <4>1. enqueued' = enqueued + 1 /\ appPc = "record"
          BY <3>1 DEF SendRecord, AppAt
        <4>2. enqueued \in Nat /\ enqueued <= MaxPkts /\ Pos(sndCurrSeqNo) = enqueued
          BY <1>1, <4>1 DEF SafeInv, TypeInv, HistType, Allocation
        <4>3. sndCurrSeqNo \in SeqNos
          BY <1>1, <4>1 DEF SafeInv, TypeInv, NextAllocated
        <4> QED
          BY <4>1, <4>2, <4>3
      <3>3. n = enqueued /\ Pos(sndCurrSeqNo) = n
        BY <1>1, <2>2, <3>2 DEF SafeInv, Allocation
      <3>4. sndCurrSeqNo = SeqOf(n)
        BY <3>2, <3>3 DEF Pos, SeqOf, incseqBy, SeqNos
      <3>5. sndCurrSeqNo \in Recorded'
        <4>1. DOMAIN packetState = SeqNos
          BY <1>1 DEF SafeInv, TypeInv, TrackerType
        <4> QED
          BY <3>1, <3>2, <4>1 DEF SendRecord, EnqueueRecord, ExitProcess, Recorded
      <3> QED
        BY <3>4, <3>5
    <2> QED
      BY <2>1, <2>2
  <1> QED
    BY <1>4, <1>6, <1>7 DEF LossInv

\* What the receiver acknowledges within its window, it keeps.
LEMMA ReceiverLossInv ==
  ASSUME LossInv, CInv', InWindow, ReceiverStep
  PROVE  LossInv'
  <1>1. CInv /\ RInv
    BY DEF LossInv, CInv
  <1>2. UNCHANGED <<packetState, rcvPc, rcvSeq, enqueued, wire>>
    BY DEF ReceiverStep, vars, trackerVars, rcvVars, histVars
  <1>3. ASSUME NEW n \in 0 .. MaxPkts
        PROVE  SeqOf(n)' = SeqOf(n) /\ (Received(SeqOf(n)) => Received(SeqOf(n))')
    BY <1>1, ReceivedStays DEF SeqOf, incseqBy
  <1>4. AllKept'
    BY <1>2, <1>3 DEF AllKept, LossInv, Recorded
  <1>5. acks \subseteq acks' /\ AcksHonest'
    <2>1. ASSUME NEW p \in wire, processData(p[1], p[2]) PROVE acks \subseteq acks' /\ AcksHonest'
      <3>1. acks' = acks \cup {<<p[1], p[2]>>}
        BY <2>1 DEF processData
      <3>2. Pos(p[1]) \in 0 .. MaxPkts - 1 /\ p[1] = SeqOf(Pos(p[1]))
        BY <1>1, WireShape
      <3>3. seqoff(rcvLastAck, p[1]) < getAvailBufSize
        BY DEF InWindow
      <3> DEFINE a == Pos(p[1])
                 seq == p[1]
                 msg == p[2]
      <3>4. a \in 0 .. MaxPkts - 1 /\ seq = SeqOf(a) /\ processData(seq, msg)
            /\ seqoff(rcvLastAck, seq) < getAvailBufSize
        BY <2>1, <3>2, <3>3
      <3> HIDE DEF a, seq, msg
      <3>5. Received(SeqOf(a))'
        BY <1>1, <3>4, StoresData
      <3> SUFFICES ASSUME NEW n \in 0 .. MaxPkts, NEW m \in Nat, <<SeqOf(n), m>> \in acks'
                   PROVE  Received(SeqOf(n))'
        BY <1>3, <3>1 DEF AcksHonest, SeqOf, incseqBy
      <3>6. CASE <<SeqOf(n), m>> \in acks
        BY <1>3, <3>6 DEF AcksHonest, LossInv
      <3>7. CASE <<SeqOf(n), m>> = <<p[1], p[2]>>
        <4>1. SeqOf(n) = SeqOf(a)
          BY <3>4, <3>7 DEF seq
        <4>2. a \in 0 .. MaxPkts
          BY <3>4
        <4>3. n = a
          BY <4>1, <4>2, Positions DEF Pos, SeqOf, incseqBy, SeqNos
        <4> QED
          BY <3>5, <4>3
      <3> QED
        BY <3>1, <3>6, <3>7
    <2>2. CASE DataSignal \/ Reader
      <3>1. acks' = acks
        BY <2>2 DEF DataSignal, Reader, RecvCall, RecvEntry, RecvLoop, RecvWait, RecvTimeout,
                    RecvCheck, ReadBegin, ReadUnit, ReadEnd
      <3>2. ASSUME NEW n \in 0 .. MaxPkts, NEW m \in Nat, <<SeqOf(n), m>> \in acks
            PROVE  Received(SeqOf(n))'
        BY <1>3, <3>2 DEF AcksHonest, LossInv
      <3> QED
        BY <1>3, <3>1, <3>2 DEF AcksHonest, SeqOf, incseqBy
    <2> QED
      BY <2>1, <2>2 DEF ReceiverStep
  <1>6. DeletesAcked'
    BY <1>2, <1>5 DEF DeletesAcked, LossInv, SeqOf, incseqBy
  <1> QED
    BY <1>4, <1>5, <1>6 DEF LossInv

\* The invariant in the terms of NothingLost and AckedIsReceived.
LEMMA LossInvImplies ==
  ASSUME LossInv
  PROVE  NothingLost /\ AckedIsReceived
  <1>1. enqueued \in Nat /\ enqueued <= MaxPkts /\ PeerISN = ISN
    BY DEF LossInv, CInv, SafeInv, TypeInv, HistType, Allocation
  <1>2. ASSUME NEW i \in 0 .. enqueued - 1
        PROVE  SeqOf(i) \in Recorded \/ Received(SeqOf(i))
    BY <1>1 DEF AllKept, LossInv
  <1>3. NothingLost
    BY <1>1, <1>2 DEF NothingLost, Received, SeqOf
  <1>4. ASSUME NEW p \in acks PROVE Received(p[1])
    <2>1. /\ Pos(p[1]) \in 0 .. MaxPkts /\ p[1] = SeqOf(Pos(p[1]))
          /\ p[2] \in Nat /\ p = <<p[1], p[2]>>
      BY WireShape DEF LossInv, CInv
    <2> DEFINE a == Pos(p[1])
    <2>2. <<SeqOf(a), p[2]>> \in acks
      BY <2>1
    <2> HIDE DEF a
    <2>3. Received(SeqOf(a))
      BY <2>1, <2>2 DEF AcksHonest, LossInv, a
    <2> QED
      BY <2>1, <2>3 DEF a
  <1>5. AckedIsReceived
    BY <1>4 DEF AckedIsReceived, Received
  <1> QED
    BY <1>3, <1>5

\* As long as the sender keeps to what the receive buffer has room for, the invariant holds.
LEMMA LossInvStep ==
  ASSUME LossInv, InWindow, [CNext]_cvars
  PROVE  LossInv'
  <1>1. CInv'
    BY CStepInv DEF LossInv
  <1>2. CASE SenderStep
    BY <1>1, <1>2, SenderLossInv
  <1>3. CASE ReceiverStep
    BY <1>1, <1>3, ReceiverLossInv
  <1>4. CASE UNCHANGED cvars
    <2>1. UNCHANGED <<packetState, rcvPc, rcvSeq, enqueued, acks, unit, rcvLastAck>>
      BY <1>4 DEF cvars, vars, trackerVars, rcvVars, histVars, rvars, ringVars
    <2>2. ASSUME NEW n \in 0 .. MaxPkts
          PROVE  SeqOf(n)' = SeqOf(n) /\ (Received(SeqOf(n))' <=> Received(SeqOf(n)))
      BY <2>1 DEF SeqOf, incseqBy, Received, ReceivedInSequence, seqoff, SeqDist, Slots
    <2> QED
      BY <1>1, <2>1, <2>2 DEF LossInv, AllKept, AcksHonest, DeletesAcked, Recorded, SeqOf, incseqBy
  <1> QED
    BY <1>2, <1>3, <1>4 DEF CNext

\* At first nothing is queued and nothing is acknowledged.
LEMMA LossInvInit == CInit => LossInv
  <1> SUFFICES ASSUME CInit PROVE LossInv
    OBVIOUS
  <1>1. CInv
    BY CInitInv
  <1> QED
    BY <1>1 DEF CInit, Init, RInit, LossInv, AllKept, AcksHonest, DeletesAcked

\* The connection has no flow control of its own: processData acknowledges a packet
\* before it looks for room.  While no packet on the wire is beyond the receive buffer,
\* what send() has queued is in the packet tracker or has been taken by the receiver
\* (NothingLost), and what is acknowledged has been received (AckedIsReceived).
THEOREM NothingLostInWindow == CSpec /\ []InWindow => [](NothingLost /\ AckedIsReceived)
  <1>1. CInit => LossInv
    BY LossInvInit
  <1>2. LossInv /\ InWindow /\ [CNext]_cvars => LossInv'
    BY LossInvStep
  <1>3. LossInv => NothingLost /\ AckedIsReceived
    BY LossInvImplies
  <1> QED
    BY <1>1, <1>2, <1>3, PTL DEF CSpec

\* A receive buffer larger than the stream has room for every packet of it.
THEOREM NothingIsLost ==
  ASSUME MaxPkts < RcvBufSize
  PROVE  CSpec => []NothingLost
  <1>1. CInv => InWindow
    <2> SUFFICES ASSUME CInv, NEW p \in wire PROVE seqoff(rcvLastAck, p[1]) < getAvailBufSize
      BY DEF InWindow
    <2>1. Pos(p[1]) \in 0 .. MaxPkts - 1 /\ p[1] = SeqOf(Pos(p[1]))
      BY WireShape
    <2>2. PICK S \in Nat, D \in Nat, C \in Nat :
            RingOk(unit, startPos, lastAckPos, maxPos, rcvLastAck, S, D, C)
      BY DEF CInv, RInv
    <2>3. /\ D \in Slots /\ startPos \in Slots /\ lastAckPos = Slot(startPos, D)
          /\ S + D \in 0 .. MaxPkts /\ rcvLastAck = SeqOf(S + D)
      BY <2>2 DEF RingOk, Slots
    <2> DEFINE a == Pos(p[1])
    <2>4. a \in 0 .. MaxPkts /\ a < MaxPkts
      BY <2>1
    <2> HIDE DEF a
    <2>5. seqoff(SeqOf(S + D), SeqOf(a)) = a - (S + D)
      BY <2>3, <2>4, SeqArithmetic
    <2>6. getAvailBufSize = RcvBufSize - D - 1
      BY <2>3, DataSize
    <2> QED
      BY <2>1, <2>2, <2>3, <2>4, <2>5, <2>6 DEF a
  <1>2. CInv /\ [CNext]_cvars => CInv'
    BY CStepInv
  <1>3. CSpec => []InWindow
    BY <1>1, <1>2, CInitInv, PTL DEF CSpec
  <1> QED
    BY <1>3, NothingLostInWindow, PTL
=============================================================================
