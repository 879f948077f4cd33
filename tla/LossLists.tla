----------------------------- MODULE LossLists -----------------------------
(***************************************************************************)
(* The loss lists CSndLossList and CRcvLossList (src/core/list.cpp): sets  *)
(* of sequence numbers kept as ranges in the slots of static arrays.  Slot *)
(* i holds the range m_piData1[i] .. m_piData2[i], where -1 in m_piData2   *)
(* marks a single number and -1 in m_piData1 an empty slot; the slots in   *)
(* use are linked through m_piNext (and m_piPrior).  A range's slot is the *)
(* distance of its first number from the head's, counted from m_iHead.     *)
(***************************************************************************)
EXTENDS SeqNo, Sequences, SequencesExt, FiniteSets

CONSTANTS LossSize,      \* m_iSize
          LossOrigin,    \* the oldest number that can be lost
          LossWindow     \* bound: how many numbers from there on are used

\* The receiver's and the sender's windows are no longer than the arrays.
ASSUME LossAssumption == /\ LossOrigin \in SeqNos
                         /\ LossWindow \in 1 .. SeqNoTH - 1
                         /\ LossSize \in Nat /\ LossWindow <= LossSize

VARIABLES snd,       \* CSndLossList
          sndLost,   \* history: what was inserted and, by list.h, not yet removed
          rcv,       \* CRcvLossList
          rcvLost,   \* the same history for rcv
          crossed    \* history: a range that crosses the wrap was removed from rcv

sndVars == <<snd, sndLost>>
rcvVars == <<rcv, rcvLost, crossed>>
lossVars == <<sndVars, rcvVars>>

Slots == 0 .. LossSize - 1
Window == {incseqBy(LossOrigin, k) : k \in 0 .. LossWindow - 1}

\* Never a slot: stands for what the links of an empty slot hold, which is whatever
\* was there.  Following such a link would stop TLC.
Garbage == -2

EmptySnd == [data1 |-> [i \in Slots |-> -1], data2 |-> [i \in Slots |-> -1],
             next |-> [i \in Slots |-> Garbage],
             head |-> -1, length |-> 0, last |-> -1]   \* last: m_iLastInsertPos

EmptyRcv == [data1 |-> [i \in Slots |-> -1], data2 |-> [i \in Slots |-> -1],
             next |-> [i \in Slots |-> Garbage], prior |-> [i \in Slots |-> Garbage],
             head |-> -1, tail |-> -1, length |-> 0]

LossInit == /\ snd = EmptySnd /\ sndLost = {}
            /\ rcv = EmptyRcv /\ rcvLost = {} /\ crossed = FALSE

(***************************************************************************)
(* What both lists do with a slot of l.                                    *)
(***************************************************************************)
\* The last number in slot i, and how many there are.
Hi(l, i) == IF l.data2[i] = -1 THEN l.data1[i] ELSE l.data2[i]
Count(l, i) == seqlen(l.data1[i], Hi(l, i))

\* The slots in use, the numbers from lo to hi, and those in the slots.
Used(l) == {i \in Slots : l.data1[i] # -1}
Between(lo, hi) == {n \in Window : seqcmp(n, lo) >= 0 /\ seqcmp(n, hi) <= 0}
Numbers(l) == UNION {Between(l.data1[i], Hi(l, i)) : i \in Used(l)}

\* The slot for a number, and the one after a slot.
Slot(l, s) == (l.head + seqoff(l.data1[l.head], s) + LossSize) % LossSize
Succ(i) == (i + 1) % LossSize

\* m_piData2 is written only for a range: the slot must have been left at -1.
Put(l, i, lo, hi) == [l EXCEPT !.data1[i] = lo, !.data2[i] = IF hi # lo THEN hi ELSE @]
Erase(l, i) == [l EXCEPT !.data1[i] = -1, !.data2[i] = -1]

\* The links of the empty slots are as good as uninitialised.
Links(l, links) == [i \in Slots |-> IF l.data1[i] = -1 THEN Garbage ELSE links[i]]

\* The last slot, going on from i, whose first number is before s.
RECURSIVE PriorNode(_, _, _)
PriorNode(l, i, s) ==
  LET n == l.next[i]
  IN IF n # -1 /\ seqcmp(l.data1[n], s) < 0 THEN PriorNode(l, n, s) ELSE i

(***************************************************************************)
(* CSndLossList::insert.                                                   *)
(***************************************************************************)
\* The loop at the end: slot loc swallows the ones after it that it touches.  A
\* single number is never extended, even if the next slot touches it.
RECURSIVE Coalesced(_, _)
Coalesced(l, loc) ==
  LET i == l.next[loc]
      end == l.data2[loc]
      longer == seqcmp(Hi(l, i), end) > 0
      shared == IF ~longer THEN Count(l, i)
                ELSE IF seqcmp(end, l.data1[i]) >= 0 THEN seqlen(l.data1[i], end)
                ELSE 0
  IN IF i = -1 \/ end = -1 \/ seqcmp(l.data1[i], incseq(end)) > 0
     THEN l
     ELSE Coalesced([Erase(l, i) EXCEPT !.data2[loc] = IF longer THEN Hi(l, i) ELSE @,
                                        !.length = @ - shared,
                                        !.next[loc] = l.next[i]], loc)

\* A range up to hi falls into slot loc: the early return if it is all there.
Lengthened(l, loc, hi) ==
  LET end == Hi(l, loc)
      m == [l EXCEPT !.last = loc]
  IN IF seqcmp(hi, end) <= 0 THEN m
     ELSE Coalesced([m EXCEPT !.data2[loc] = hi, !.length = @ + seqlen(end, hi) - 1], loc)

\* A slot of its own for lo .. hi, linked to the slot next.
NewSlot(l, loc, lo, hi, next) ==
  [Put(l, loc, lo, hi) EXCEPT !.next[loc] = next, !.last = loc,
                              !.length = @ + seqlen(lo, hi)]

\* The list is empty, lo is before its head, a slot starts with lo, the slot before
\* lo does not reach it, or it does.  The search may start at m_iLastInsertPos.
SndInserted(l, lo, hi) ==
  LET loc == Slot(l, lo)
      start == IF l.last # -1 /\ seqcmp(l.data1[l.last], lo) < 0 THEN l.last ELSE l.head
      i == PriorNode(l, start, lo)
  IN IF l.length = 0
     THEN [NewSlot(l, 0, lo, hi, -1) EXCEPT !.head = 0]
     ELSE IF seqoff(l.data1[l.head], lo) < 0
     THEN Coalesced([NewSlot(l, loc, lo, hi, l.head) EXCEPT !.head = loc], loc)
     ELSE IF l.data1[loc] = lo
     THEN Lengthened(l, loc, hi)
     ELSE IF l.data2[i] = -1 \/ seqcmp(l.data2[i], lo) < 0
     THEN Coalesced([NewSlot(l, loc, lo, hi, l.next[i]) EXCEPT !.next[i] = loc], loc)
     ELSE Lengthened(l, i, hi)

SndBecomes(l) == snd' = [l EXCEPT !.next = Links(l, @)] /\ UNCHANGED rcvVars

SndInsert(lo, hi) == /\ SndBecomes(SndInserted(snd, lo, hi))
                     /\ sndLost' = sndLost \cup Between(lo, hi)

(***************************************************************************)
(* CSndLossList::remove, getLostSeq.                                       *)
(***************************************************************************)
\* The head's first number goes; what is left of its range moves to the next slot.
WithoutFirst(l) ==
  LET h == l.head
      s == l.data1[h]
      loc == Succ(h)
      m == [Erase(l, h) EXCEPT !.length = @ - 1, !.last = IF @ = h THEN -1 ELSE @]
  IN IF l.data2[h] = -1
     THEN [m EXCEPT !.head = l.next[h]]
     ELSE [Put(m, loc, incseq(s), l.data2[h]) EXCEPT !.next[loc] = l.next[h], !.head = loc]

\* Mutant of Freed: m_iLastInsertPos stays at the slot that is given up.
MutFreed(l, h) == [Erase(l, h) EXCEPT !.length = @ - Count(l, h)]

\* One turn of the loop that gives up the slots before the new head.
Freed(l, h) == [Erase(l, h) EXCEPT !.length = @ - Count(l, h),
                                   !.last = IF @ = h THEN -1 ELSE @]

RECURSIVE FreedToHead(_, _)
FreedToHead(l, h) == IF h = l.head THEN l ELSE FreedToHead(Freed(l, h), l.next[h])

\* remove(seqno) beyond the head's first number: slot i is the last one to lose some.
\* If it goes on after s, its end becomes the new head, in the slot after that of s.
SndRemoved(l, s) ==
  LET loc == Slot(l, s)
      i == IF l.data1[loc] = s THEN loc ELSE PriorNode(l, l.head, s)
      rest == Succ(loc)
      split == [Put(l, rest, incseq(s), l.data2[i]) EXCEPT
                  !.data2[i] = IF l.data1[i] = s THEN -1 ELSE s,
                  !.next = [@ EXCEPT ![rest] = l.next[i], ![i] = rest],
                  !.head = rest]
  IN FreedToHead(IF seqcmp(Hi(l, i), s) > 0 THEN split ELSE [l EXCEPT !.head = l.next[i]],
                 l.head)

SndRemove(s) ==
  LET offset == seqoff(snd.data1[snd.head], s)
  IN /\ SndBecomes(IF snd.length = 0 \/ offset < 0 THEN snd
                   ELSE IF offset = 0 THEN WithoutFirst(snd)
                   ELSE SndRemoved(snd, s))
     /\ sndLost' = {n \in sndLost : seqcmp(n, s) > 0}

\* getLostSeq hands out the first number of the list.
GetLostSeq == /\ snd.length # 0
              /\ SndBecomes(WithoutFirst(snd))
              /\ sndLost' = sndLost \ {snd.data1[snd.head]}

(***************************************************************************)
(* CRcvLossList::insert.  What is inserted is larger than all in the list. *)
(***************************************************************************)
RcvInserted(l, lo, hi) ==
  LET loc == IF l.length = 0 THEN 0 ELSE Slot(l, lo)
      m == [l EXCEPT !.length = @ + seqlen(lo, hi)]
      put == [Put(m, loc, lo, hi) EXCEPT !.next[loc] = -1, !.tail = loc]
  IN IF l.length = 0
     THEN [put EXCEPT !.prior[0] = -1, !.head = 0]
     ELSE IF l.data2[l.tail] # -1 /\ incseq(l.data2[l.tail]) = lo
     THEN [m EXCEPT !.data2[l.tail] = hi]
     ELSE [put EXCEPT !.next[l.tail] = loc, !.prior[loc] = l.tail]

RcvBecomes(l) == /\ rcv' = [l EXCEPT !.next = Links(l, @), !.prior = Links(l, @)]
                 /\ UNCHANGED sndVars

RcvInsert(lo, hi) == /\ \A n \in Numbers(rcv) : seqcmp(n, lo) < 0
                     /\ RcvBecomes(RcvInserted(rcv, lo, hi))
                     /\ rcvLost' = rcvLost \cup Between(lo, hi)
                     /\ UNCHANGED crossed

(***************************************************************************)
(* CRcvLossList::remove.                                                   *)
(***************************************************************************)
\* Slot loc holds a single number: it is taken out of both chains.
Unlinked(l, loc) ==
  LET n == l.next[loc]
      p == l.prior[loc]
      m == [l EXCEPT !.data1[loc] = -1]
  IN IF l.head = loc
     THEN [m EXCEPT !.head = n, !.prior = IF n # -1 THEN [@ EXCEPT ![n] = -1] ELSE @]
     ELSE [m EXCEPT !.next[p] = n,
                    !.prior = IF n # -1 THEN [@ EXCEPT ![n] = p] ELSE @,
                    !.tail = IF n # -1 THEN @ ELSE p]

\* Slot loc holds a range: without its first number, it moves to the next slot.
Moved(l, loc) ==
  LET i == Succ(loc)
      n == l.next[loc]
      p == l.prior[loc]
      m == Put(Erase(l, loc), i, incseq(l.data1[loc]), l.data2[loc])
      next == [m.next EXCEPT ![i] = n]
      prior == [m.prior EXCEPT ![i] = p]
  IN [m EXCEPT !.next = IF l.head = loc THEN next ELSE [next EXCEPT ![p] = i],
               !.head = IF @ = loc THEN i ELSE @,
               !.prior = IF l.tail = loc THEN prior ELSE [prior EXCEPT ![n] = i],
               !.tail = IF @ = loc THEN i ELSE @]

\* The range in slot i ends before s; what comes after s, if anything, gets the slot
\* after that of s.
Cut(l, i, s, loc) ==
  LET rest == Succ(loc)
      n == l.next[i]
      short == [l EXCEPT !.data2[i] = IF s = incseq(l.data1[i]) THEN -1 ELSE decseq(s)]
      put == Put(short, rest, incseq(s), l.data2[i])
      prior == [l.prior EXCEPT ![rest] = i]
  IN IF s = l.data2[i] THEN short
     ELSE [put EXCEPT !.next = [@ EXCEPT ![rest] = n, ![i] = rest],
                      !.prior = IF l.tail = i THEN prior ELSE [prior EXCEPT ![n] = rest],
                      !.tail = IF @ = i THEN rest ELSE @]

\* The nearest slot in use, going back from i.
RECURSIVE UsedBefore(_, _)
UsedBefore(l, i) == LET p == (i - 1 + LossSize) % LossSize
                    IN IF l.data1[p] = -1 THEN UsedBefore(l, p) ELSE p

\* remove(seqno)
RcvRemoved(l, s) ==
  LET loc == Slot(l, s)
      i == UsedBefore(l, loc)
      less(m) == [m EXCEPT !.length = @ - 1]
  IN IF l.length = 0 \/ seqoff(l.data1[l.head], s) < 0 THEN l
     ELSE IF l.data1[loc] = s
     THEN less(IF l.data2[loc] = -1 THEN Unlinked(l, loc) ELSE Moved(l, loc))
     ELSE IF l.data2[i] = -1 \/ seqcmp(s, l.data2[i]) > 0 THEN l
     ELSE less(Cut(l, i, s, loc))

\* The numbers that remove(seqno1, seqno2) goes through: across the wrap, the first
\* loop ends before m_iMaxSeqNo.
Visited(lo, hi) ==
  LET upto(a, b) == [k \in 1 .. b - a + 1 |-> a + k - 1]
  IN IF lo <= hi THEN upto(lo, hi) ELSE upto(lo, MaxSeqNo - 1) \o upto(0, hi)

\* remove(seqno1, seqno2): list.h says it removes "all packets between" the two.
RcvRemove(lo, hi) == /\ RcvBecomes(FoldLeft(RcvRemoved, rcv, Visited(lo, hi)))
                     /\ rcvLost' = rcvLost \ Between(lo, hi)
                     /\ crossed' = (crossed \/ lo > hi)

(***************************************************************************)
(* CRcvLossList::find, getLossArray.                                       *)
(***************************************************************************)
\* find(seqno1, seqno2), from slot p on: is any number of the range lost?
RECURSIVE Find(_, _, _, _)
Find(l, p, lo, hi) ==
  LET c == seqcmp(l.data1[p], lo)
  IN /\ p # -1
     /\ \/ c = 0
        \/ c > 0 /\ seqcmp(l.data1[p], hi) <= 0
        \/ c < 0 /\ l.data2[p] # -1 /\ seqcmp(l.data2[p], lo) >= 0
        \/ Find(l, l.next[p], lo, hi)

\* getLossArray: the slots from i on that fit below limit after len words, a single
\* number in one word and a range in two; those before offset are skipped.
RECURSIVE LossesFrom(_, _, _, _)
LossesFrom(l, i, limit, len) ==
  IF len < limit - 1 /\ i # -1
  THEN <<i>> \o LossesFrom(l, l.next[i], limit, len + IF l.data2[i] = -1 THEN 1 ELSE 2)
  ELSE << >>

RECURSIVE Skip(_, _, _)
Skip(l, i, seek) == IF seek > 0 THEN Skip(l, l.next[i], seek - 1) ELSE i

LossArray(l, limit, offset) == LossesFrom(l, Skip(l, l.head, offset), limit, 0)

Ordered(lo, hi) == seqcmp(lo, hi) <= 0

SndLossNext == \/ GetLostSeq
               \/ \E s \in Window : SndRemove(s)
               \/ \E lo, hi \in Window : Ordered(lo, hi) /\ SndInsert(lo, hi)

RcvLossNext == \E lo, hi \in Window : /\ Ordered(lo, hi)
                                     /\ (RcvInsert(lo, hi) \/ RcvRemove(lo, hi))

LossSpec == LossInit /\ [][SndLossNext \/ RcvLossNext]_lossVars

(***************************************************************************)
(* Properties.                                                             *)
(***************************************************************************)
\* The ranges do not overlap and lie in the slots their distance from the head gives,
\* the other slots are clean, and m_piNext leads from each range to the nearest one
\* after it.
WellFormed(l) ==
  /\ l.length = Cardinality(Numbers(l))
  /\ \A i \in Slots : l.data2[i] # -1 => /\ i \in Used(l)
                                         /\ seqcmp(l.data2[i], l.data1[i]) > 0
  /\ IF Used(l) = {} THEN l.head = -1 ELSE l.head \in Used(l)
  /\ \A i \in Used(l) :
       LET later == {j \in Used(l) : seqcmp(l.data1[j], l.data1[i]) > 0}
       IN /\ i = Slot(l, l.data1[i]) /\ seqoff(l.data1[l.head], l.data1[i]) >= 0
          /\ l.next[i] \in IF later = {} THEN {-1} ELSE later
          /\ \A j \in later : /\ seqcmp(l.data1[j], Hi(l, i)) > 0
                              /\ seqcmp(l.data1[j], l.data1[l.next[i]]) >= 0

\* After any inserts, removals and pops, on both sides of the wrap and of the arrays,
\* either list holds exactly the numbers that list.h says it does, m_iLength counts
\* them, and the links are those of WellFormed.  m_iLastInsertPos, from which insert may
\* search, is a slot in use; m_piPrior and m_iTail agree with m_piNext; find answers for
\* every range whether it meets numbers of the list; and a loss report respects its
\* limit, never comes out empty while there are ranges left, and names all of them if
\* there is room.  The one exception to list.h: once a range that crosses the wrap was
\* removed, the receiver's list may still hold m_iMaxSeqNo, which that removal skips.
ListsExact ==
  /\ WellFormed(snd) /\ Numbers(snd) = sndLost
  /\ snd.last \in Used(snd) \cup {-1}
  /\ WellFormed(rcv) /\ rcvLost \subseteq Numbers(rcv)
  /\ Numbers(rcv) \ rcvLost \subseteq IF crossed THEN {MaxSeqNo} ELSE {}
  /\ \A i \in Used(rcv) : /\ IF i = rcv.head THEN rcv.prior[i] = -1
                             ELSE rcv.prior[i] \in Slots /\ rcv.next[rcv.prior[i]] = i
                          /\ rcv.next[i] = -1 => rcv.tail = i
  /\ \A lo, hi \in Window :
       Ordered(lo, hi) =>
         (Find(rcv, rcv.head, lo, hi) <=> \E n \in Numbers(rcv) : n \in Between(lo, hi))
  /\ \A limit \in 2 .. 4, offset \in 0 .. Cardinality(Used(rcv)) :
       LET chunk == LossArray(rcv, limit, offset)
           words == Len(chunk) + Cardinality({i \in ToSet(chunk) : rcv.data2[i] # -1})
       IN words <= limit /\ (offset < Cardinality(Used(rcv)) => chunk # << >>)
  /\ ToSet(LossArray(rcv, 2 * LossSize + 1, 0)) = Used(rcv)
=============================================================================
