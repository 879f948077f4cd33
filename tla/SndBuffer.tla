----------------------------- MODULE SndBuffer -----------------------------
(***************************************************************************)
(* CSndBuffer (src/core/buffer.cpp): a circular list of blocks laid over a *)
(* circular list of physical buffers of BufUnit blocks each.  readData and *)
(* ackData do not walk the blocks one by one: they jump from buffer to     *)
(* buffer by FirstBuffer, FirstBlock and each buffer's first_block, which  *)
(* increase() has to keep right wherever in the ring it inserts.  Every    *)
(* operation holds m_BufLock.                                              *)
(***************************************************************************)
EXTENDS Integers, Sequences

CONSTANTS BufUnit,      \* m_pBuffer->m_iSize: 32 (CUDT::open)
          AddSizes,     \* packets per addBuffer
          MaxMsgs,      \* bound: messages added altogether
          MaxOverrun    \* bound: how many more packets are acknowledged than are here

ASSUME SndBufferAssumption == /\ BufUnit \in Nat \ {0} /\ AddSizes \subseteq Nat
                              /\ MaxMsgs \in Nat /\ MaxOverrun \in Nat

VARIABLES sndBuf,      \* the buffer, see BlockInit
          overrun      \* history: more was acknowledged than was here

blockVars == <<sndBuf, overrun>>

BlockInit ==
  /\ sndBuf = [next   |-> [b \in 1 .. BufUnit |-> (b % BufUnit) + 1],  \* Block::m_pNext
               no     |-> [b \in 1 .. BufUnit |-> b - 1],              \* m_iBufferNo
               msg    |-> [b \in 1 .. BufUnit |-> 0],                  \* m_iMsgNo
               heads  |-> <<1>>,    \* first_block of each buffer, from FirstBuffer on
               idx    |-> 0,        \* FirstBlock
               first  |-> 1,        \* m_pFirstBlock
               last   |-> 1,        \* m_pLastBlock
               count  |-> 0,        \* m_iCount
               nextMsg |-> 1]       \* m_iNextMsgNo
  /\ overrun = FALSE

\* The block n steps after b; m_iSize.
Walk(B, b, n) == LET at[k \in 0 .. n] == IF k = 0 THEN b ELSE B.next[at[k - 1]] IN at[n]
BufSize(B) == Len(B.no)

(***************************************************************************)
(* increase(): BufUnit new blocks in front of m_pFirstBlock and a new      *)
(* buffer at the end of the ring.  Numbering goes on from m_pFirstBlock's, *)
(* so in the middle of FirstBuffer the old front of it becomes the front   *)
(* of the new buffer, and FirstBuffer now begins among the new blocks.     *)
(***************************************************************************)
NewNo(B, i) == (B.no[B.first] + i - 1) % BufUnit
NewFirst(B) == BufSize(B) + CHOOSE i \in 1 .. BufUnit : NewNo(B, i) = 0

\* Mutant of NewHeads: FirstBuffer keeps its first_block.
MutNewHeads(B) == Append(B.heads, NewFirst(B))

NewHeads(B) == IF B.no[B.first] # 0
               THEN Append([B.heads EXCEPT ![1] = NewFirst(B)], B.heads[1])
               ELSE Append(B.heads, NewFirst(B))

\* prev_first_block: the block before m_pFirstBlock.
PrevFirst(B) == CHOOSE b \in DOMAIN B.next : B.next[b] = B.first

increase(B) ==
  LET new == BufSize(B) + 1 .. BufSize(B) + BufUnit
  IN [B EXCEPT
        !.next = [b \in DOMAIN B.next \cup new |->
                    IF b = PrevFirst(B) THEN BufSize(B) + 1
                    ELSE IF b = BufSize(B) + BufUnit THEN B.first
                    ELSE IF b \in new THEN b + 1 ELSE B.next[b]],
        !.no = @ \o [i \in 1 .. BufUnit |-> NewNo(B, i)],
        !.msg = @ \o [i \in 1 .. BufUnit |-> 0],
        !.heads = NewHeads(B)]

\* The buffer, increased until n more packets do not fill it.
Increased(B, n) ==
  LET short == n + B.count - BufSize(B)
      grown[k \in Nat] == IF k = 0 THEN B ELSE increase(grown[k - 1])
  IN grown[IF short < 0 THEN 0 ELSE short \div BufUnit + 1]

(***************************************************************************)
(* addBuffer(data, len) of n packets.                                      *)
(***************************************************************************)
Written(B, n) ==
  LET offset(b) == CHOOSE i \in 0 .. n - 1 : Walk(B, B.last, i) = b
      target == {Walk(B, B.last, i) : i \in 0 .. n - 1}
  IN [B EXCEPT !.msg = [b \in DOMAIN @ |-> IF b \in target THEN B.nextMsg + offset(b) ELSE @[b]],
               !.last = Walk(B, @, n),
               !.nextMsg = @ + n,
               !.count = @ + n]

AddBuffer(n) == /\ sndBuf.nextMsg + n <= MaxMsgs + 1
                /\ sndBuf' = Written(Increased(sndBuf, n), n)
                /\ UNCHANGED overrun

(***************************************************************************)
(* readData(offset) and ackData(n).                                        *)
(***************************************************************************)
Movement(B, n) == (B.idx + n) \div BufUnit
HeadAt(B, m) == B.heads[(m % Len(B.heads)) + 1]

\* The block n after m_pFirstBlock, found through the buffers: readData's p, and
\* m_pFirstBlock after ackData(n).
Locate(B, n) == IF Movement(B, n) > 0
                THEN Walk(B, HeadAt(B, Movement(B, n)), (B.idx + n) % BufUnit)
                ELSE Walk(B, B.first, n)

AckData(n) ==
  /\ n <= sndBuf.count + MaxOverrun
  /\ sndBuf' = [sndBuf EXCEPT
                  !.heads = [i \in DOMAIN @ |-> HeadAt(sndBuf, Movement(sndBuf, n) + i - 1)],
                  !.idx = (@ + n) % BufUnit,
                  !.first = Locate(sndBuf, n),
                  !.count = @ - n]
  /\ overrun' = (overrun \/ n > sndBuf.count)

BlockNext == \/ \E n \in AddSizes : AddBuffer(n)
             \/ \E n \in 1 .. MaxMsgs + MaxOverrun : AckData(n)

BlockSpec == BlockInit /\ [][BlockNext]_blockVars

(***************************************************************************)
(* Property.                                                               *)
(***************************************************************************)
\* What the commented-out check in ackData looks for ("error in ackData"): however
\* often the buffer grew and wherever the ring stood then, the jump through the
\* buffers ends at the block a walk of the same length reaches.  The packets not yet
\* acknowledged are then the blocks from m_pFirstBlock to m_pLastBlock, in the order
\* they were added (unless more was acknowledged than send() had put here).
BlocksExact ==
  LET B == sndBuf
  IN /\ \A n \in 0 .. BufSize(B) : Locate(B, n) = Walk(B, B.first, n)
     /\ ~overrun => /\ B.last = Walk(B, B.first, B.count)
                    /\ \A n \in 0 .. B.count - 1 :
                         B.msg[Locate(B, n)] = B.nextMsg - B.count + n
=============================================================================
