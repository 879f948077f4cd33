-------------------------- MODULE PccSenderProofs --------------------------
(***************************************************************************)
(* The monitor intervals of a PCC sender, for any number of packets, any   *)
(* group sizes and whatever order the fates of the packets are told in.    *)
(***************************************************************************)
EXTENDS PccSender, FiniteSetTheorems, SequenceTheorems, TLAPS

USE MinReliableRttAssumption, PccSenderAssumption

-----------------------------------------------------------------------------
(* Sequences of no particular set. *)

IsSeq(q) == \E T : q \in Seq(T)

\* The queue has the indices of a sequence.
LEMMA SeqDomain ==
  ASSUME NEW q, IsSeq(q)
  PROVE  Len(q) \in Nat /\ DOMAIN q = 1 .. Len(q) /\ (q = << >> <=> Len(q) = 0)
  BY DEF IsSeq

\* push_back.
LEMMA SeqAppend ==
  ASSUME NEW q, IsSeq(q), NEW e
  PROVE  /\ IsSeq(Append(q, e)) /\ Len(Append(q, e)) = Len(q) + 1
         /\ Append(q, e)[Len(q) + 1] = e
         /\ \A i \in 1 .. Len(q) : Append(q, e)[i] = q[i]
  <1>1. PICK T : q \in Seq(T)
    BY DEF IsSeq
  <1>2. q \in Seq(T \cup {e})
    BY <1>1
  <1>3. Append(q, e) \in Seq(T \cup {e})
    BY <1>2
  <1> QED
    BY <1>1, <1>2, <1>3 DEF IsSeq

\* pop_front, some times.
LEMMA SeqSuffix ==
  ASSUME NEW q, IsSeq(q), NEW k \in 0 .. Len(q)
  PROVE  /\ IsSeq(SubSeq(q, k + 1, Len(q))) /\ Len(SubSeq(q, k + 1, Len(q))) = Len(q) - k
         /\ \A i \in 1 .. Len(q) - k : SubSeq(q, k + 1, Len(q))[i] = q[k + i]
  <1>1. PICK T : q \in Seq(T)
    BY DEF IsSeq
  <1>2. SubSeq(q, k + 1, Len(q)) \in Seq(T)
    BY <1>1
  <1> QED
    BY <1>1, <1>2 DEF IsSeq

\* A function on the indices of a sequence is a sequence.
LEMMA SeqOfFunction ==
  ASSUME NEW q, IsSeq(q), NEW f, f = [i \in DOMAIN q |-> f[i]]
  PROVE  IsSeq(f) /\ Len(f) = Len(q) /\ DOMAIN f = DOMAIN q
  <1> DEFINE T == {f[i] : i \in 1 .. Len(q)}
  <1>1. Len(q) \in Nat /\ DOMAIN q = 1 .. Len(q)
    BY SeqDomain
  <1>2. \A i \in 1 .. Len(q) : f[i] \in T
    OBVIOUS
  <1> HIDE DEF T
  <1>3. f \in [1 .. Len(q) -> T]
    BY <1>1, <1>2
  <1>4. f \in Seq(T)
    BY <1>1, <1>3, SeqDef
  <1>5. Len(f) \in Nat /\ 1 .. Len(f) = 1 .. Len(q) /\ DOMAIN f = DOMAIN q
    BY <1>1, <1>3, <1>4
  <1>6. Len(f) = Len(q)
    BY <1>1, <1>5
  <1> QED
    BY <1>4, <1>5, <1>6 DEF IsSeq

-----------------------------------------------------------------------------
(* The inductive invariant. *)

IntervalFields == {"useful", "first", "last", "sent", "acked", "lost", "reliable",
                   "enough", "extended", "rttKnown"}

\* An interval has a range of packets already sent, one count for each of them, and
\* can only have begun with an RTT if there is one.
IvOk(iv, next, rtt) ==
  /\ DOMAIN iv = IntervalFields
  /\ iv.first \in Nat /\ iv.last \in Nat
  /\ 1 <= iv.first /\ iv.first <= iv.last /\ iv.last < next
  /\ iv.sent = iv.last - iv.first + 1
  /\ iv.acked \in Nat /\ iv.lost \in Nat
  /\ iv.rttKnown => rtt

\* The balance of FatesCounted for one interval.
Balances(iv, pending, t) ==
  iv.acked + iv.lost + Cardinality(pending \cap PacketsOf(iv)) = Cardinality(t \cap PacketsOf(iv))

PTypes ==
  /\ mode \in SenderModes /\ groups \in Nat \ {0} /\ haveRtt \in BOOLEAN
  /\ nextId \in Nat \ {0} /\ numUseful \in Nat
  /\ told \subseteq 1 .. nextId - 1
  /\ pendingAcked \subseteq told
  /\ pendingAcked = {} \/ \E x : pendingAcked = {x}

\* The packets of the queue end with the one sent last.
QueueOk ==
  /\ IsSeq(intervals)
  /\ \A i \in 1 .. Len(intervals) : IvOk(intervals[i], nextId, haveRtt)
  /\ intervals # << >> => Current.last = nextId - 1

\* The useful intervals, after a non-useful ones and before at most one.
Shape(a) ==
  /\ UsefulIn(intervals) = a + 1 .. a + numUseful
  /\ a + numUseful <= Len(intervals) /\ Len(intervals) <= a + numUseful + 1
  /\ numUseful = 0 => Len(intervals) = a

\* Without an RTT no interval is useful and STARTING is never left.
NoRttYet == ~haveRtt => numUseful = 0 /\ mode = "STARTING"

PInv ==
  /\ PTypes /\ QueueOk /\ NoRttYet
  /\ \E a \in {0, 1} : Shape(a)
  /\ numUseful <= MaxUseful(mode, groups)
  /\ \A i \in UsefulIn(intervals) : Balances(intervals[i], pendingAcked, told)
  /\ NoIntervalStuck

\* What the invariant says at any time.
LEMMA PInvImplies ==
  ASSUME PInv
  PROVE  NeverThrottled /\ AssertionsHold /\ NoIntervalStuck /\ FatesCounted
  <1>1. PICK a \in {0, 1} : Shape(a)
    BY DEF PInv
  <1>2. Len(intervals) \in Nat /\ DOMAIN intervals = 1 .. Len(intervals) /\ numUseful \in Nat
    BY SeqDomain DEF PInv, QueueOk, PTypes
  <1>3. NeverThrottled
    <2>1. UsefulIn(intervals) = a + 1 .. a + numUseful /\ Len(intervals) <= a + numUseful + 1
      BY <1>1 DEF Shape
    <2>2. Len(intervals) - numUseful <= 2
      BY <1>1, <1>2, <2>1
    <2>3. \A i, j \in a + 1 .. a + numUseful : \A k \in i .. j : k \in a + 1 .. a + numUseful
      BY <1>2
    <2> QED
      BY <2>1, <2>2, <2>3 DEF NeverThrottled
  <1>4. Cardinality(a + 1 .. a + numUseful) = numUseful
    BY <1>2, FS_Interval
  <1>5. AssertionsHold
    BY <1>1, <1>4 DEF AssertionsHold, PInv, NoRttYet, PTypes, Shape
  <1>6. \A i \in UsefulIn(intervals) : IvOk(intervals[i], nextId, haveRtt)
    BY <1>2 DEF PInv, QueueOk, UsefulIn
  <1>7. FatesCounted
    BY <1>6 DEF FatesCounted, PInv, Balances, IvOk
  <1> QED
    BY <1>3, <1>5, <1>7 DEF PInv

\* The empty queue.
LEMMA PInitInv ==
  ASSUME PInit
  PROVE  PInv
  <1>1. IsSeq(intervals) /\ Len(intervals) = 0
    <2>1. << >> \in Seq(Nat)
      OBVIOUS
    <2> QED
      BY <2>1 DEF PInit, QueueInit, IsSeq
  <1>2. UsefulIn(intervals) = {}
    BY <1>1, SeqDomain DEF UsefulIn
  <1>3. Shape(0)
    BY <1>1, <1>2 DEF Shape, PInit, QueueInit
  <1>4. groups \in Nat \ {0}
    BY DEF PInit
  <1>5. PTypes
    <2>1. haveRtt \in BOOLEAN
      BY DEF PInit
    <2> QED
      BY <1>4, <2>1 DEF PTypes, PInit, QueueInit, SenderModes
  <1>6. numUseful <= MaxUseful(mode, groups)
    BY DEF MaxUseful, PInit, QueueInit
  <1>7. QueueOk /\ NoRttYet /\ NoIntervalStuck
    BY <1>1, <1>2 DEF QueueOk, NoRttYet, NoIntervalStuck, PInit, QueueInit
  <1> QED
    BY <1>2, <1>3, <1>5, <1>6, <1>7 DEF PInv

-----------------------------------------------------------------------------
(* Packets are sent. *)

\* CreateUsefulInterval allows at least one useful interval in every mode.
LEMMA MaxUsefulPositive ==
  ASSUME NEW m, NEW g \in Nat \ {0}
  PROVE  MaxUseful(m, g) \in Nat /\ 1 <= MaxUseful(m, g)
  BY DEF MaxUseful

\* setOpt(UDT_UTAG) before the first packet finds the queue empty.
LEMMA SetUtilityTagInv ==
  ASSUME PInv, NEW g \in GroupSizes, SetUtilityTag(g)
  PROVE  PInv'
  <1>1. UNCHANGED <<intervals, numUseful, pendingAcked, mode, haveRtt, nextId, told>> /\ nextId = 1
    BY DEF SetUtilityTag, queueVars
  <1>2. Len(intervals) \in Nat
    BY SeqDomain DEF PInv, QueueOk
  <1>3. ~ (1 <= Len(intervals))
    BY <1>1, <1>2 DEF PInv, QueueOk, IvOk
  <1>4. numUseful = 0
    BY <1>2, <1>3 DEF PInv, Shape, PTypes
  <1>5. groups' \in Nat \ {0}
    BY DEF SetUtilityTag
  <1>6. PTypes'
    BY <1>1, <1>5 DEF PInv, PTypes
  <1>7. (numUseful <= MaxUseful(mode, groups))'
    BY <1>1, <1>4, <1>5, MaxUsefulPositive
  <1>8. (QueueOk /\ NoRttYet /\ NoIntervalStuck)'
    BY <1>1 DEF PInv, QueueOk, Current, NoRttYet, NoIntervalStuck, UsefulIn
  <1>9. (\E a \in {0, 1} : Shape(a))'
    BY <1>1 DEF PInv, Shape, UsefulIn
  <1> QED
    BY <1>1, <1>6, <1>7, <1>8, <1>9 DEF PInv, UsefulIn

\* The useful intervals of a queue that got one more.
LEMMA AppendUseful ==
  ASSUME NEW q, IsSeq(q), NEW u \in BOOLEAN, NEW p, NEW r
  PROVE  /\ u => UsefulIn(Append(q, NewInterval(u, p, r))) = UsefulIn(q) \cup {Len(q) + 1}
         /\ ~u => UsefulIn(Append(q, NewInterval(u, p, r))) = UsefulIn(q)
  <1> DEFINE iv == NewInterval(u, p, r)
             q2 == Append(q, iv)
  <1>1. iv.useful = u
    BY DEF NewInterval
  <1> HIDE DEF iv
  <1>2. /\ IsSeq(q2) /\ Len(q2) = Len(q) + 1 /\ q2[Len(q) + 1] = iv
        /\ \A i \in 1 .. Len(q) : q2[i] = q[i]
    BY SeqAppend
  <1> HIDE DEF q2
  <1>3. Len(q) \in Nat /\ DOMAIN q = 1 .. Len(q) /\ DOMAIN q2 = 1 .. Len(q) + 1
    BY <1>2, SeqDomain
  <1>4. UsefulIn(q2) = {i \in 1 .. Len(q) + 1 : q2[i].useful}
    BY <1>3 DEF UsefulIn
  <1>5. UsefulIn(q) = {i \in 1 .. Len(q) : q[i].useful}
    BY <1>3 DEF UsefulIn
  <1>6. 1 .. Len(q) + 1 = (1 .. Len(q)) \cup {Len(q) + 1} /\ Len(q) + 1 \notin 1 .. Len(q)
    BY <1>3
  <1>7. ASSUME u PROVE UsefulIn(q2) = UsefulIn(q) \cup {Len(q) + 1}
    <2>1. q2[Len(q) + 1].useful
      BY <1>1, <1>2, <1>7
    <2> QED
      BY <1>2, <1>4, <1>5, <1>6, <2>1, Zenon
  <1>8. ASSUME ~u PROVE UsefulIn(q2) = UsefulIn(q)
    <2>1. ~q2[Len(q) + 1].useful
      BY <1>1, <1>2, <1>8
    <2> QED
      BY <1>2, <1>4, <1>5, <1>6, <2>1, Zenon
  <1> QED
    BY <1>7, <1>8 DEF q2, iv

\* A packet more, whose fate is not known.
LEMMA SendingTypes ==
  ASSUME PTypes, Sending, pendingAcked' = pendingAcked, numUseful' \in Nat
  PROVE  PTypes'
  <1>1. UNCHANGED <<mode, groups, haveRtt, told>> /\ nextId' = nextId + 1
    BY DEF Sending
  <1>2. told \subseteq 1 .. nextId /\ nextId \in Nat
    BY DEF PTypes
  <1>3. mode \in SenderModes /\ groups \in Nat \ {0} /\ haveRtt \in BOOLEAN
    BY DEF PTypes
  <1>4. pendingAcked \subseteq told /\ (pendingAcked = {} \/ \E x : pendingAcked = {x})
    BY DEF PTypes
  <1>5. nextId' - 1 = nextId /\ nextId' \in Nat \ {0}
    BY <1>1, <1>2
  <1>6. told' \subseteq 1 .. nextId' - 1
    BY <1>1, <1>2, <1>5
  <1> QED
    BY <1>1, <1>3, <1>4, <1>5, <1>6, Zenon DEF PTypes

\* OnPacketSent opens an interval.
LEMMA StartIntervalInv ==
  ASSUME PInv, NEW elapsed, StartInterval(elapsed)
  PROVE  PInv'
  <1> DEFINE n == Len(intervals)
             u == CreateUsefulInterval
             iv == NewInterval(u, nextId, haveRtt)
  <1>1. /\ intervals' = Append(intervals, iv)
        /\ numUseful' = IF u THEN numUseful + 1 ELSE numUseful
        /\ UNCHANGED <<pendingAcked, mode, groups, haveRtt, told>> /\ nextId' = nextId + 1
    BY DEF StartInterval, EnqueueNewMonitorInterval, Sending
  <1>2. /\ n \in Nat /\ DOMAIN intervals = 1 .. n /\ (intervals = << >> <=> n = 0)
        /\ IsSeq(intervals)
    BY SeqDomain DEF PInv, QueueOk
  <1>3. /\ IsSeq(intervals') /\ Len(intervals') = n + 1 /\ intervals'[n + 1] = iv
        /\ \A i \in 1 .. n : intervals'[i] = intervals[i]
    BY <1>1, <1>2, SeqAppend
  <1>4. u \in BOOLEAN
    BY DEF CreateUsefulInterval
  <1>5. /\ u => UsefulIn(intervals)' = UsefulIn(intervals) \cup {n + 1}
        /\ ~u => UsefulIn(intervals)' = UsefulIn(intervals)
    BY <1>1, <1>2, <1>4, AppendUseful
  <1>6. DOMAIN intervals' = 1 .. n + 1 /\ intervals' # << >>
    BY <1>2, <1>3, SeqDomain
  <1>7. UsefulIn(intervals) \subseteq 1 .. n
    BY <1>2 DEF UsefulIn
  <1>8. PTypes'
    <2>1. numUseful' \in Nat
      BY <1>1 DEF PInv, PTypes
    <2> QED
      BY <1>1, <2>1, SendingTypes DEF PInv, StartInterval
  <1>9. /\ DOMAIN iv = IntervalFields /\ iv.useful = u /\ iv.first = nextId /\ iv.last = nextId
        /\ iv.sent = 1 /\ iv.acked = 0 /\ iv.lost = 0 /\ iv.rttKnown = haveRtt /\ iv.enough = FALSE
    BY DEF NewInterval, IntervalFields
  <1> HIDE DEF iv
  <1>10. QueueOk'
    <2>1. IvOk(iv, nextId + 1, haveRtt)
      BY <1>9 DEF IvOk, PInv, PTypes
    <2>2. ASSUME NEW i \in 1 .. n PROVE IvOk(intervals[i], nextId + 1, haveRtt)
      <3>1. IvOk(intervals[i], nextId, haveRtt) /\ nextId \in Nat
        BY DEF PInv, PTypes, QueueOk
      <3> QED
        BY <3>1 DEF IvOk
    <2>3. \A i \in 1 .. n + 1 : IvOk(intervals'[i], nextId', haveRtt')
      BY <1>1, <1>2, <1>3, <2>1, <2>2
    <2>4. Current'.last = nextId' - 1
      BY <1>1, <1>3, <1>9 DEF Current, PInv, PTypes
    <2> QED
      BY <1>3, <2>3, <2>4 DEF QueueOk
  <1>11. PICK a \in {0, 1} : Shape(a)
    BY DEF PInv
  <1>12. /\ numUseful \in Nat /\ UsefulIn(intervals) = a + 1 .. a + numUseful
         /\ a + numUseful <= n /\ n <= a + numUseful + 1 /\ (numUseful = 0 => n = a)
    BY <1>11 DEF Shape, PInv, PTypes
  <1>13. 1 <= MaxUseful(mode, groups) /\ MaxUseful(mode, groups) \in Nat
    BY MaxUsefulPositive DEF PInv, PTypes
  <1>14. numUseful > 0 => n = a + numUseful /\ intervals[n].enough /\ haveRtt
    <2>1. SUFFICES ASSUME numUseful > 0
                   PROVE  n = a + numUseful /\ intervals[n].enough /\ haveRtt
      OBVIOUS
    <2>2. n # 0
      BY <1>11, <1>12, <2>1
    <2>3. intervals # << >> /\ numUseful # 0
      BY <1>2, <2>1, <2>2
    <2>4. intervals[n].useful /\ intervals[n].enough /\ haveRtt
      BY <2>3 DEF StartInterval, CreateNewInterval, CurrentIsDone, Current
    <2>5. n \in UsefulIn(intervals)
      BY <1>2, <2>2, <2>4 DEF UsefulIn
    <2> QED
      BY <1>11, <1>12, <2>4, <2>5
  <1>15. numUseful = 0 => n = 0 \/ haveRtt
    BY <1>2 DEF StartInterval, CreateNewInterval
  <1>16. numUseful = 0 => (u <=> haveRtt)
    BY <1>13 DEF CreateUsefulInterval
  <1>17. (\E b \in {0, 1} : Shape(b))'
    <2>1. CASE u
      <3>1. n = a + numUseful
        BY <1>12, <1>14
      <3>2. UsefulIn(intervals)' = a + 1 .. a + (numUseful + 1)
        <4>1. a + 1 .. a + (numUseful + 1) = (a + 1 .. a + numUseful) \cup {a + numUseful + 1}
          BY <1>11, <1>12
        <4> QED
          BY <1>5, <1>12, <2>1, <3>1, <4>1
      <3>3. Shape(a)'
        BY <1>1, <1>3, <1>11, <1>12, <2>1, <3>1, <3>2 DEF Shape
      <3> QED
        BY <1>11, <3>3
    <2>2. CASE ~u /\ numUseful > 0
      <3>1. Shape(a)'
        BY <1>1, <1>3, <1>5, <1>11, <1>12, <1>14, <2>2 DEF Shape
      <3> QED
        BY <1>11, <3>1
    <2>3. CASE ~u /\ numUseful = 0
      <3>1. n = 0
        BY <1>15, <1>16, <2>3
      <3>2. UsefulIn(intervals)' = {}
        BY <1>5, <1>7, <2>3, <3>1
      <3>3. Shape(1)'
        BY <1>1, <1>3, <2>3, <3>1, <3>2 DEF Shape
      <3> QED
        BY <3>3
    <2> QED
      BY <1>4, <1>12, <2>1, <2>2, <2>3
  <1>18. NoRttYet'
    <2>1. u => haveRtt
      BY DEF CreateUsefulInterval
    <2> QED
      BY <1>1, <2>1 DEF PInv, NoRttYet
  <1>19. (numUseful <= MaxUseful(mode, groups))'
    <2>1. u => numUseful < MaxUseful(mode, groups)
      BY DEF CreateUsefulInterval
    <2>2. numUseful' <= MaxUseful(mode, groups)
      BY <1>1, <1>12, <1>13, <2>1 DEF PInv
    <2> QED
      BY <1>1, <2>2
  <1>20. (\A i \in UsefulIn(intervals) : Balances(intervals[i], pendingAcked, told))'
    <2>1. Balances(iv, pendingAcked, told)
      <3>1. told \cap PacketsOf(iv) = {} /\ pendingAcked \cap PacketsOf(iv) = {}
        BY <1>9 DEF PacketsOf, PInv, PTypes
      <3> QED
        BY <1>9, <3>1, FS_EmptySet DEF Balances
    <2>2. \A i \in UsefulIn(intervals) : Balances(intervals'[i], pendingAcked, told)
      BY <1>3, <1>7 DEF PInv
    <2>3. \A i \in UsefulIn(intervals)' : i \in UsefulIn(intervals) \/ i = n + 1
      BY <1>4, <1>5
    <2>4. \A i \in UsefulIn(intervals)' : Balances(intervals'[i], pendingAcked, told)
      BY <1>3, <2>1, <2>2, <2>3
    <2> QED
      BY <1>1, <2>4
  <1>21. NoIntervalStuck'
    <2>3. \A j \in 1 .. n : j < n \/ j = n
      <3>1. n \in Nat
        BY <1>2
      <3> HIDE DEF n
      <3> QED
        BY <3>1
    <2>1. ASSUME NEW i \in UsefulIn(intervals)', i < n + 1 PROVE intervals'[i].enough
      <3>1. i \in UsefulIn(intervals) /\ i \in 1 .. n
        BY <1>2, <1>4, <1>5, <1>7, <2>1
      <3>2. CASE i < n
        BY <1>3, <3>1, <3>2 DEF PInv, NoIntervalStuck
      <3>3. CASE i = n
        <4>1. numUseful > 0
          BY <1>11, <1>12, <3>1
        <4> QED
          BY <1>3, <1>14, <3>1, <3>3, <4>1
      <3> QED
        BY <2>3, <3>1, <3>2, <3>3
    <2>2. ASSUME numUseful' > 0
          PROVE  \E i \in UsefulIn(intervals)' : ~IsUtilityAvailable(intervals'[i])
      <3>1. CASE u
        <4>1. ~IsUtilityAvailable(intervals'[n + 1])
          BY <1>3, <1>9 DEF IsUtilityAvailable
        <4> QED
          BY <1>5, <3>1, <4>1
      <3>2. CASE ~u
        <4>1. PICK i \in UsefulIn(intervals) : ~IsUtilityAvailable(intervals[i])
          BY <1>1, <2>2, <3>2 DEF PInv, NoIntervalStuck
        <4> QED
          BY <1>3, <1>5, <1>7, <3>2, <4>1
      <3> QED
        BY <3>1, <3>2
    <2> QED
      BY <1>3, <2>1, <2>2 DEF NoIntervalStuck
  <1> QED
    BY <1>8, <1>10, <1>17, <1>18, <1>19, <1>20, <1>21 DEF PInv

\* OnPacketSent goes on with the current interval: its range, its count of packets and
\* nothing else grows.
LEMMA AddedFacts ==
  ASSUME IsSeq(intervals), intervals # << >>, NEW e, AddPacket(nextId, e),
         \A i \in 1 .. Len(intervals) : DOMAIN intervals[i] = IntervalFields
  PROVE  LET n == Len(intervals) IN
         /\ n \in Nat /\ 1 <= n /\ DOMAIN intervals = 1 .. n
         /\ IsSeq(intervals') /\ Len(intervals') = n /\ DOMAIN intervals' = 1 .. n
         /\ \A i \in 1 .. n - 1 : intervals'[i] = intervals[i]
         /\ DOMAIN intervals'[n] = IntervalFields
         /\ intervals'[n].last = nextId /\ intervals'[n].sent = intervals[n].sent + 1
         /\ \A f \in IntervalFields \ {"last", "sent", "extended"} :
              intervals'[n][f] = intervals[n][f]
  <1> DEFINE n == Len(intervals)
             iv == [intervals[n] EXCEPT !.last = nextId, !.sent = @ + 1, !.extended = @ \/ e]
  <1>1. n \in Nat /\ 1 <= n /\ DOMAIN intervals = 1 .. n
    BY SeqDomain
  <1>2. intervals' = [intervals EXCEPT ![n] = iv]
    BY DEF AddPacket
  <1>3. DOMAIN intervals[n] = IntervalFields
    BY <1>1
  <1>4. /\ DOMAIN iv = IntervalFields /\ iv.last = nextId /\ iv.sent = intervals[n].sent + 1
        /\ \A f \in IntervalFields \ {"last", "sent", "extended"} : iv[f] = intervals[n][f]
    BY <1>3 DEF IntervalFields
  <1> HIDE DEF iv
  <1>5. intervals' = [i \in DOMAIN intervals |-> intervals'[i]]
    BY <1>2
  <1>6. IsSeq(intervals') /\ Len(intervals') = n /\ DOMAIN intervals' = 1 .. n
    BY <1>1, <1>5, SeqOfFunction
  <1>7. intervals'[n] = iv /\ \A i \in 1 .. n - 1 : intervals'[i] = intervals[i]
    BY <1>1, <1>2
  <1> QED
    BY <1>1, <1>4, <1>6, <1>7

\* sent counts the packets of an interval.
LEMMA PacketCount ==
  ASSUME NEW iv, NEW next, NEW rtt, IvOk(iv, next, rtt)
  PROVE  IsFiniteSet(PacketsOf(iv)) /\ Cardinality(PacketsOf(iv)) = iv.sent
  <1>1. /\ iv.first \in Int /\ iv.last \in Int /\ iv.first <= iv.last
        /\ iv.sent = iv.last - iv.first + 1
    BY DEF IvOk
  <1> DEFINE a == iv.first
             b == iv.last
  <1> HIDE DEF a, b
  <1>2. a \in Int /\ b \in Int /\ a <= b /\ iv.sent = b - a + 1
    BY <1>1 DEF a, b
  <1>3. IsFiniteSet(a .. b) /\ Cardinality(a .. b) = b - a + 1
    BY <1>2, FS_Interval
  <1> QED
    BY <1>2, <1>3 DEF PacketsOf, a, b

\* A balanced interval has counted no more fates than it has packets, and knows all of
\* them only when PCC was told of all of them.
LEMMA CountsBounded ==
  ASSUME PTypes, NEW iv, IvOk(iv, nextId, haveRtt), Balances(iv, pendingAcked, told)
  PROVE  /\ iv.acked + iv.lost <= iv.sent
         /\ iv.acked + iv.lost = iv.sent => PacketsOf(iv) \subseteq told
  <1> DEFINE P == PacketsOf(iv)
  <1>1. IsFiniteSet(P) /\ Cardinality(P) = iv.sent
    BY PacketCount
  <1>2. told \cap P \in SUBSET P /\ pendingAcked \cap P \in SUBSET P
    OBVIOUS
  <1>3. /\ Cardinality(told \cap P) <= Cardinality(P)
        /\ Cardinality(P) = Cardinality(told \cap P) => P = told \cap P
        /\ IsFiniteSet(told \cap P) /\ IsFiniteSet(pendingAcked \cap P)
    BY <1>1, <1>2, FS_Subset
  <1>4. Cardinality(told \cap P) \in Nat /\ Cardinality(pendingAcked \cap P) \in Nat
    BY <1>3, FS_CardinalityType
  <1>5. /\ iv.acked \in Nat /\ iv.lost \in Nat
        /\ iv.acked + iv.lost + Cardinality(pendingAcked \cap P) = Cardinality(told \cap P)
    BY DEF IvOk, Balances
  <1> HIDE DEF P
  <1>6. iv.acked + iv.lost <= iv.sent
    <2>1. Cardinality(P) \in Nat
      BY <1>1, FS_CardinalityType
    <2>2. iv.acked + iv.lost <= Cardinality(told \cap P)
      BY <1>4, <1>5
    <2> QED
      BY <1>1, <1>3, <1>4, <1>5, <2>1, <2>2
  <1>7. ASSUME iv.acked + iv.lost = iv.sent PROVE P \subseteq told
    <2>1. Cardinality(told \cap P) = Cardinality(P)
      BY <1>1, <1>3, <1>4, <1>5, <1>7
    <2> QED
      BY <1>3, <2>1
  <1> QED
    BY <1>6, <1>7 DEF P

\* OnPacketSent goes on with the current interval, extended or not.
LEMMA AddPacketInv ==
  ASSUME PInv, NEW e, Sending, AddPacket(nextId, e), intervals # << >>
  PROVE  PInv'
  <1> DEFINE n == Len(intervals)
             iv == intervals[n]
             ivn == intervals'[n]
  <1>1. /\ UNCHANGED <<numUseful, pendingAcked, mode, groups, haveRtt, told>>
        /\ nextId' = nextId + 1
    BY DEF AddPacket, Sending
  <1>2. IsSeq(intervals) /\ \A i \in 1 .. n : DOMAIN intervals[i] = IntervalFields
    BY DEF PInv, QueueOk, IvOk
  <1>3. /\ n \in Nat /\ 1 <= n /\ DOMAIN intervals = 1 .. n
        /\ IsSeq(intervals') /\ Len(intervals') = n /\ DOMAIN intervals' = 1 .. n
        /\ \A i \in 1 .. n - 1 : intervals'[i] = intervals[i]
    BY <1>2, AddedFacts
  <1>4. /\ DOMAIN ivn = IntervalFields /\ ivn.last = nextId /\ ivn.sent = iv.sent + 1
        /\ \A f \in IntervalFields \ {"last", "sent", "extended"} : ivn[f] = iv[f]
    BY <1>2, AddedFacts
  <1>5. /\ ivn.useful = iv.useful /\ ivn.first = iv.first /\ ivn.acked = iv.acked
        /\ ivn.lost = iv.lost /\ ivn.enough = iv.enough /\ ivn.rttKnown = iv.rttKnown
    BY <1>4 DEF IntervalFields
  <1>6. IvOk(iv, nextId, haveRtt) /\ iv.last = nextId - 1
    BY <1>3 DEF PInv, QueueOk, Current
  <1>7. nextId \in Nat \ {0} /\ PTypes /\ PTypes'
    BY <1>1, SendingTypes DEF PInv, PTypes
  <1>8. \A i \in 1 .. n : i = n \/ i \in 1 .. n - 1
    <2>1. n \in Nat
      BY <1>3
    <2> HIDE DEF n
    <2> QED
      BY <2>1
  <1> HIDE DEF n, iv, ivn
  <1>9. intervals[n] = iv /\ intervals'[n] = ivn
    BY DEF iv, ivn
  <1>10. UsefulIn(intervals)' = UsefulIn(intervals)
    <2>1. \A i \in 1 .. n : intervals'[i].useful = intervals[i].useful
      BY <1>3, <1>5, <1>8, <1>9
    <2> QED
      BY <1>3, <2>1 DEF UsefulIn
  <1>11. QueueOk'
    <2>1. IvOk(ivn, nextId + 1, haveRtt)
      BY <1>4, <1>5, <1>6, <1>7 DEF IvOk
    <2>2. ASSUME NEW i \in 1 .. n PROVE IvOk(intervals[i], nextId + 1, haveRtt)
      BY <1>7 DEF PInv, QueueOk, IvOk, n
    <2>3. \A i \in 1 .. n : IvOk(intervals'[i], nextId + 1, haveRtt)
      BY <1>3, <1>8, <1>9, <2>1, <2>2
    <2>4. \A i \in 1 .. Len(intervals') : IvOk(intervals'[i], nextId', haveRtt')
      BY <1>1, <1>3, <2>3
    <2>5. Current'.last = nextId' - 1
      BY <1>1, <1>3, <1>4, <1>7, <1>9 DEF Current
    <2> QED
      BY <1>3, <2>4, <2>5 DEF QueueOk
  <1>12. NoRttYet'
    BY <1>1 DEF PInv, NoRttYet
  <1>13. (\E a \in {0, 1} : Shape(a))'
    <2>1. PICK a \in {0, 1} : Shape(a)
      BY DEF PInv
    <2>2. Shape(a)'
      BY <1>1, <1>3, <1>10, <2>1 DEF Shape, n
    <2> QED
      BY <2>1, <2>2
  <1>14. (numUseful <= MaxUseful(mode, groups))'
    <2>1. numUseful <= MaxUseful(mode, groups)
      BY DEF PInv
    <2> QED
      BY <1>1, <2>1
  <1>15. iv.useful => Balances(ivn, pendingAcked, told)
    <2>1. n \in 1 .. n
      BY <1>3
    <2>2. SUFFICES ASSUME iv.useful PROVE Balances(ivn, pendingAcked, told)
      OBVIOUS
    <2>3. Balances(iv, pendingAcked, told)
      BY <1>3, <1>9, <2>1, <2>2 DEF PInv, UsefulIn
    <2>4. told \subseteq 1 .. nextId - 1 /\ pendingAcked \subseteq told
      BY <1>7 DEF PTypes
    <2>5. iv.first \in Nat
      BY <1>6 DEF IvOk
    <2>6. PacketsOf(ivn) = PacketsOf(iv) \cup {nextId}
      BY <1>4, <1>5, <1>6, <1>7, <2>5 DEF PacketsOf, IvOk
    <2>7. nextId \notin 1 .. nextId - 1
      BY <1>7
    <2>8. nextId \notin told /\ nextId \notin pendingAcked
      BY <2>4, <2>7
    <2>9. told \cap PacketsOf(ivn) = told \cap PacketsOf(iv)
      BY <2>6, <2>8
    <2>10. pendingAcked \cap PacketsOf(ivn) = pendingAcked \cap PacketsOf(iv)
      BY <2>6, <2>8
    <2> QED
      BY <1>5, <2>3, <2>9, <2>10 DEF Balances
  <1>16. (\A i \in UsefulIn(intervals) : Balances(intervals[i], pendingAcked, told))'
    <2>1. ASSUME NEW i \in UsefulIn(intervals) PROVE Balances(intervals'[i], pendingAcked, told)
      <3>1. i \in 1 .. n /\ intervals[i].useful /\ Balances(intervals[i], pendingAcked, told)
        BY <1>3, <2>1 DEF UsefulIn, PInv
      <3> QED
        BY <1>3, <1>8, <1>9, <1>15, <3>1
    <2> QED
      BY <1>1, <1>10, <2>1
  <1>17. NoIntervalStuck'
    <2>1. ASSUME NEW i \in UsefulIn(intervals), i < n PROVE intervals'[i].enough
      <3>1. i \in 1 .. n - 1
        BY <1>3, <2>1 DEF UsefulIn
      <3> QED
        BY <1>3, <2>1, <3>1 DEF PInv, NoIntervalStuck, n
    <2>2. ASSUME numUseful > 0
          PROVE  \E i \in UsefulIn(intervals) : ~IsUtilityAvailable(intervals'[i])
      <3>1. PICK i \in UsefulIn(intervals) : ~IsUtilityAvailable(intervals[i])
        BY <2>2 DEF PInv, NoIntervalStuck
      <3>2. i \in 1 .. n /\ intervals[i].useful
        BY <1>3, <3>1 DEF UsefulIn
      <3>3. CASE i # n
        BY <1>3, <1>8, <3>1, <3>2, <3>3
      <3>4. CASE i = n
        <4>1. Balances(iv, pendingAcked, told)
          BY <1>9, <3>1, <3>4 DEF PInv
        <4>2. iv.acked + iv.lost <= iv.sent
          BY <1>6, <1>7, <4>1, CountsBounded
        <4>3. iv.acked \in Nat /\ iv.lost \in Nat /\ iv.sent \in Int
          BY <1>6 DEF IvOk
        <4>4. ~IsUtilityAvailable(ivn)
          BY <1>4, <1>5, <4>2, <4>3 DEF IsUtilityAvailable
        <4> QED
          BY <1>9, <3>4, <4>4
      <3> QED
        BY <3>3, <3>4
    <2> QED
      BY <1>1, <1>3, <1>10, <2>1, <2>2 DEF NoIntervalStuck
  <1> QED
    BY <1>7, <1>11, <1>12, <1>13, <1>14, <1>16, <1>17 DEF PInv

-----------------------------------------------------------------------------
(* PCC is told the fate of a packet. *)

\* The acknowledgement that is pending after an event.
PendingAfter(p, fate) == IF fate = "acked" THEN {p} ELSE {}

\* One packet more that PCC was told of, and perhaps another pending acknowledgement.
LEMMA ToldTypes ==
  ASSUME PTypes, NEW p, NEW fate, Told(p, fate),
         mode' \in SenderModes, groups' \in Nat \ {0}, numUseful' \in Nat,
         pendingAcked' = pendingAcked \/ pendingAcked' = PendingAfter(p, fate)
  PROVE  PTypes'
  <1>1. p \in 1 .. nextId - 1 /\ told' = told \cup {p} /\ nextId' = nextId
    BY DEF Told
  <1>2. haveRtt' \in BOOLEAN
    BY DEF Told
  <1>3. told' \subseteq 1 .. nextId' - 1 /\ nextId' \in Nat \ {0}
    BY <1>1 DEF PTypes
  <1>4. pendingAcked \subseteq told' /\ (pendingAcked = {} \/ \E x : pendingAcked = {x})
    BY <1>1 DEF PTypes
  <1>5. PendingAfter(p, fate) = {} \/ PendingAfter(p, fate) = {p}
    BY DEF PendingAfter
  <1>6. pendingAcked' \subseteq told' /\ (pendingAcked' = {} \/ \E x : pendingAcked' = {x})
    BY <1>1, <1>4, <1>5
  <1> QED
    BY <1>2, <1>3, <1>6, Zenon DEF PTypes

\* ChangeMode leads to a mode with a group size.
LEMMA ChangeModeTypes ==
  ASSUME PTypes, NEW m \in SenderModes, ChangeMode(m)
  PROVE  mode' \in SenderModes /\ groups' \in Nat \ {0}
  BY DEF ChangeMode, PTypes

\* CheckForRttInflation empties the queue; the interval at its head began with an RTT,
\* so leaving STARTING does not leave a sender without one.
LEMMA InflationInv ==
  ASSUME PInv, NEW p, NEW fate, RttInflation(p, fate)
  PROVE  PInv'
  <1>1. /\ intervals' = << >> /\ numUseful' = 0 /\ pendingAcked' = pendingAcked
        /\ Told(p, fate) /\ ChangeMode("PROBING") /\ intervals # << >> /\ intervals[1].rttKnown
    BY DEF RttInflation, OnRttInflationInStarting
  <1>2. "PROBING" \in SenderModes
    BY DEF SenderModes
  <1>3. mode' \in SenderModes /\ groups' \in Nat \ {0}
    BY <1>1, <1>2, ChangeModeTypes DEF PInv
  <1>4. PTypes'
    BY <1>1, <1>3, ToldTypes DEF PInv
  <1>5. haveRtt'
    <2>1. 1 \in 1 .. Len(intervals)
      BY <1>1, SeqDomain DEF PInv, QueueOk
    <2>2. haveRtt
      BY <1>1, <2>1 DEF PInv, QueueOk, IvOk
    <2> QED
      BY <1>1, <2>2 DEF Told
  <1>6. IsSeq(intervals') /\ Len(intervals') = 0
    <2>1. << >> \in Seq(Nat)
      OBVIOUS
    <2> QED
      BY <1>1, <2>1 DEF IsSeq
  <1>7. UsefulIn(intervals)' = {}
    BY <1>6, SeqDomain DEF UsefulIn
  <1>8. Shape(0)'
    BY <1>1, <1>6, <1>7 DEF Shape
  <1>9. (numUseful <= MaxUseful(mode, groups))'
    BY <1>1, <1>3, MaxUsefulPositive
  <1>10. (QueueOk /\ NoRttYet /\ NoIntervalStuck)'
    BY <1>1, <1>5, <1>6, <1>7 DEF QueueOk, NoRttYet, NoIntervalStuck
  <1> QED
    BY <1>4, <1>7, <1>8, <1>9, <1>10 DEF PInv

\* An event while no interval is useful changes nothing in the queue.
LEMMA IdleEventInv ==
  ASSUME PInv, NEW p, NEW fate, NEW gap, NEW bursty, NEW calm,
         CongestionEvent(p, fate, gap, bursty, calm), numUseful = 0
  PROVE  PInv'
  <1>1. Told(p, fate) /\ UNCHANGED <<intervals, numUseful, pendingAcked, mode, groups>>
    BY DEF CongestionEvent, QueueCongestionEvent, Decides, queueVars
  <1>2. PTypes /\ PTypes'
    BY <1>1, ToldTypes DEF PInv, PTypes
  <1>3. nextId' = nextId /\ (haveRtt => haveRtt')
    BY <1>1 DEF Told
  <1>4. UsefulIn(intervals)' = UsefulIn(intervals)
    BY <1>1 DEF UsefulIn
  <1>5. PICK a \in {0, 1} : Shape(a)
    BY DEF PInv
  <1>6. UsefulIn(intervals) = {}
    BY <1>5 DEF Shape
  <1>7. Shape(a)'
    BY <1>1, <1>4, <1>5 DEF Shape
  <1>8. QueueOk'
    <2>1. \A i \in 1 .. Len(intervals) : IvOk(intervals[i], nextId, haveRtt')
      BY <1>3 DEF PInv, QueueOk, IvOk
    <2> QED
      BY <1>1, <1>3, <2>1 DEF PInv, QueueOk, Current
  <1>9. NoRttYet'
    BY <1>1, <1>3 DEF PInv, NoRttYet
  <1>10. NoIntervalStuck'
    BY <1>1, <1>4, <1>6 DEF NoIntervalStuck
  <1>11. (numUseful <= MaxUseful(mode, groups))'
    <2>1. numUseful <= MaxUseful(mode, groups)
      BY DEF PInv
    <2> QED
      BY <1>1, <2>1
  <1> QED
    BY <1>2, <1>4, <1>5, <1>6, <1>7, <1>8, <1>9, <1>10, <1>11 DEF PInv

\* What an event leaves of an interval: its packets, its kind and its samples stay, and
\* the balance of a useful one holds with the new pending acknowledgement.  A closed
\* interval is not counted any more; PCC was told of all its packets, so the event is
\* about none of them.
CountedOk(old, new, pending, t) ==
  /\ IvOk(new, nextId, haveRtt)
  /\ new.useful = old.useful /\ new.last = old.last
  /\ old.enough => new.enough
  /\ old.useful => Balances(new, pending, t)

\* The size of a set of at most one element that meets the packets of an interval.
LEMMA SmallCard ==
  ASSUME NEW S, NEW P, S = {} \/ \E x : S = {x}
  PROVE  /\ (\E x \in S : x \in P) => Cardinality(S \cap P) = 1
         /\ ~(\E x \in S : x \in P) => Cardinality(S \cap P) = 0
  <1>1. ASSUME \E x \in S : x \in P PROVE Cardinality(S \cap P) = 1
    <2>1. PICK x : S = {x}
      BY <1>1
    <2>2. S \cap P = {x}
      BY <1>1, <2>1
    <2> QED
      BY <2>2, FS_Singleton
  <1>2. ASSUME ~ \E x \in S : x \in P PROVE Cardinality(S \cap P) = 0
    <2>1. S \cap P = {}
      BY <1>2
    <2> QED
      BY <2>1, FS_EmptySet
  <1> QED
    BY <1>1, <1>2

\* OnCongestionEvent counts one event in one interval.
LEMMA CountedFacts ==
  ASSUME PTypes, NEW iv, IvOk(iv, nextId, haveRtt),
         iv.useful => Balances(iv, pendingAcked, told),
         NEW p \in 1 .. nextId - 1, p \notin told, NEW fate \in Fates, NEW reliable
  PROVE  CountedOk(iv, Counted(iv, p, fate, reliable), PendingAfter(p, fate), told \cup {p})
  <1> DEFINE P == PacketsOf(iv)
             new == Counted(iv, p, fate, reliable)
             after == PendingAfter(p, fate)
             lost == IF fate = "lost" /\ IntervalContainsPacket(iv, p) THEN 1 ELSE 0
             acked == IF \E q \in pendingAcked : IntervalContainsPacket(iv, q) THEN 1 ELSE 0
             total == iv.reliable + (IF reliable THEN acked ELSE 0)
  <1>1. /\ iv.first \in Nat /\ iv.last \in Nat /\ iv.acked \in Nat /\ iv.lost \in Nat
        /\ told \subseteq Nat /\ pendingAcked \subseteq told /\ nextId \in Nat
        /\ p \in Nat
    BY DEF IvOk, PTypes
  <1>2. \A q \in Nat : IntervalContainsPacket(iv, q) <=> q \in P
    BY <1>1 DEF IntervalContainsPacket, PacketsOf
  <1>3. IsFiniteSet(P) /\ Cardinality(P) = iv.sent
    BY PacketCount
  <1>4. IsFiniteSet(told \cap P) /\ Cardinality(told \cap P) \in Nat
    BY <1>3, FS_Intersection, FS_CardinalityType
  <1>5. p \in P => Cardinality((told \cup {p}) \cap P) = Cardinality(told \cap P) + 1
    <2>1. SUFFICES ASSUME p \in P
                   PROVE  Cardinality((told \cup {p}) \cap P) = Cardinality(told \cap P) + 1
      OBVIOUS
    <2>2. (told \cup {p}) \cap P = (told \cap P) \cup {p} /\ p \notin told \cap P
      BY <2>1
    <2> QED
      BY <1>4, <2>2, FS_AddElement
  <1>6. p \notin P => (told \cup {p}) \cap P = told \cap P
    OBVIOUS
  <1>7. /\ fate = "acked" /\ p \in P => Cardinality(after \cap P) = 1
        /\ fate # "acked" \/ p \notin P => Cardinality(after \cap P) = 0
    <2>1. after = {} \/ \E x : after = {x}
      BY DEF PendingAfter
    <2>2. (\E x \in after : x \in P) <=> fate = "acked" /\ p \in P
      BY DEF PendingAfter
    <2> HIDE DEF after, P
    <2> QED
      BY <2>1, <2>2, SmallCard
  <1>8. Cardinality(pendingAcked \cap P) = acked
    <2>1. pendingAcked = {} \/ \E x : pendingAcked = {x}
      BY DEF PTypes
    <2>2. (\E q \in pendingAcked : IntervalContainsPacket(iv, q)) <=> \E q \in pendingAcked : q \in P
      BY <1>1, <1>2
    <2> HIDE DEF P
    <2> QED
      BY <2>1, <2>2, SmallCard
  <1>9. lost = IF fate = "lost" /\ p \in P THEN 1 ELSE 0
    BY <1>1, <1>2
  <1>10. acked \in {0, 1} /\ lost \in {0, 1}
    OBVIOUS
  <1>11. CASE ~Open(iv)
    <2>1. new = iv
      BY <1>11 DEF Counted
    <2>2. iv.useful => Balances(iv, after, told \cup {p})
      <3>1. SUFFICES ASSUME iv.useful PROVE Balances(iv, after, told \cup {p})
        OBVIOUS
      <3>2. iv.acked + iv.lost = iv.sent /\ Balances(iv, pendingAcked, told)
        BY <1>11, <3>1 DEF Open, IsUtilityAvailable
      <3>3. P \subseteq told
        BY <3>2, CountsBounded
      <3>4. p \notin P /\ Cardinality(after \cap P) = 0 /\ (told \cup {p}) \cap P = told \cap P
        BY <1>6, <1>7, <3>3
      <3>5. Cardinality(told \cap P) = iv.sent
        <4>1. told \cap P = P
          BY <3>3
        <4> QED
          BY <1>3, <4>1
      <3>6. iv.acked + iv.lost + Cardinality(after \cap P) = Cardinality((told \cup {p}) \cap P)
        <4>1. iv.acked + iv.lost + Cardinality(after \cap P) = iv.acked + iv.lost
          <5>1. iv.acked + iv.lost + 0 = iv.acked + iv.lost
            BY <1>1
          <5> QED
            BY <3>4, <5>1
        <4>2. Cardinality((told \cup {p}) \cap P) = iv.sent
          BY <3>4, <3>5
        <4> QED
          BY <3>2, <4>1, <4>2, Zenon
      <3> QED
        BY <3>6 DEF Balances
    <2> QED
      BY <2>1, <2>2 DEF CountedOk
  <1>12. CASE Open(iv)
    <2>1. new = [iv EXCEPT !.lost = @ + lost, !.acked = @ + acked, !.reliable = total,
                           !.enough = @ \/ (acked = 1 /\ total >= MinReliableRtt)]
      BY <1>12 DEF Counted
    <2>2. DOMAIN iv = IntervalFields
      BY DEF IvOk
    <2> HIDE DEF lost, acked, total, P, after, new
    <2>3. /\ DOMAIN new = IntervalFields /\ new.useful = iv.useful /\ new.first = iv.first
          /\ new.last = iv.last /\ new.sent = iv.sent /\ new.rttKnown = iv.rttKnown
          /\ new.lost = iv.lost + lost /\ new.acked = iv.acked + acked
      BY <2>1, <2>2 DEF IntervalFields
    <2>4. new.enough = (iv.enough \/ (acked = 1 /\ total >= MinReliableRtt))
      BY <2>1, <2>2 DEF IntervalFields
    <2>5. iv.enough => new.enough
      BY <2>4
    <2>6. IvOk(new, nextId, haveRtt)
      BY <1>1, <1>10, <2>3 DEF IvOk
    <2>7. PacketsOf(new) = P
      BY <2>3 DEF PacketsOf, P
    <2>8. iv.acked + iv.lost + acked = Cardinality(told \cap P)
      BY <1>8, <1>12 DEF Open, Balances, P
    <2>9. iv.acked + acked + (iv.lost + lost) + Cardinality(after \cap P)
            = Cardinality((told \cup {p}) \cap P)
      <3>1. CASE p \notin P
        BY <1>1, <1>4, <1>6, <1>7, <1>9, <1>10, <2>8, <3>1
      <3>2. CASE p \in P
        BY <1>1, <1>4, <1>5, <1>7, <1>9, <1>10, <2>8, <3>2 DEF Fates
      <3> QED
        BY <3>1, <3>2
    <2>10. Balances(new, after, told \cup {p})
      BY <2>3, <2>7, <2>9 DEF Balances
    <2> QED
      BY <2>3, <2>5, <2>6, <2>10 DEF CountedOk, new, after
  <1> QED
    BY <1>11, <1>12

\* The queue after one event is counted in all its intervals.
LEMMA UpdatedFacts ==
  ASSUME PInv, NEW p, NEW fate \in Fates, NEW gap, NEW bursty, Told(p, fate)
  PROVE  LET updated == UpdatedBy(p, fate, gap, bursty) IN
         /\ IsSeq(updated) /\ Len(updated) = Len(intervals)
         /\ UsefulIn(updated) = UsefulIn(intervals)
         /\ \A i \in 1 .. Len(intervals) :
              CountedOk(intervals[i], updated[i], PendingAfter(p, fate), told \cup {p})
  <1> DEFINE updated == UpdatedBy(p, fate, gap, bursty)
             n == Len(intervals)
             reliable == IsReliable(gap, bursty)
  <1>1. n \in Nat /\ DOMAIN intervals = 1 .. n /\ IsSeq(intervals)
    BY SeqDomain DEF PInv, QueueOk
  <1>2. updated = [i \in DOMAIN intervals |-> updated[i]]
    BY DEF UpdatedBy
  <1>3. \A i \in 1 .. n : updated[i] = Counted(intervals[i], p, fate, reliable)
    BY <1>1 DEF UpdatedBy
  <1> HIDE DEF updated, reliable
  <1>4. IsSeq(updated) /\ Len(updated) = n /\ DOMAIN updated = 1 .. n
    BY <1>1, <1>2, SeqOfFunction
  <1>5. ASSUME NEW i \in 1 .. n
        PROVE  CountedOk(intervals[i], updated[i], PendingAfter(p, fate), told \cup {p})
    <2>1. IvOk(intervals[i], nextId, haveRtt) /\ PTypes
      BY DEF PInv, QueueOk
    <2>2. intervals[i].useful => Balances(intervals[i], pendingAcked, told)
      BY <1>1 DEF PInv, UsefulIn
    <2>3. p \in 1 .. nextId - 1 /\ p \notin told
      BY DEF Told
    <2>4. CountedOk(intervals[i], Counted(intervals[i], p, fate, reliable),
                    PendingAfter(p, fate), told \cup {p})
      BY <2>1, <2>2, <2>3, CountedFacts
    <2> QED
      BY <1>3, <2>4
  <1>6. \A i \in 1 .. n : updated[i].useful = intervals[i].useful
    BY <1>5 DEF CountedOk
  <1>7. UsefulIn(updated) = UsefulIn(intervals)
    BY <1>1, <1>4, <1>6 DEF UsefulIn
  <1> QED
    BY <1>4, <1>5, <1>7 DEF updated

\* The loop that removes all useful intervals ends after the last of them.
LEMMA RemovedFacts ==
  ASSUME NEW updated, NEW a \in {0, 1}, numUseful \in Nat, numUseful > 0,
         UsefulIn(updated) = a + 1 .. a + numUseful, RemoveUseful(updated)
  PROVE  intervals' = SubSeq(updated, a + numUseful + 1, Len(updated)) /\ numUseful' = 0
  <1>1. PICK k \in UsefulIn(updated) :
          /\ Cardinality({i \in UsefulIn(updated) : i <= k}) = numUseful
          /\ intervals' = SubSeq(updated, k + 1, Len(updated))
    BY DEF RemoveUseful
  <1>2. k \in a + 1 .. a + numUseful
    BY <1>1
  <1>3. {i \in UsefulIn(updated) : i <= k} = a + 1 .. k
    BY <1>2
  <1>4. Cardinality(a + 1 .. k) = k - a
    <2> DEFINE b == a + 1
    <2>1. b \in Int /\ k \in Int /\ b <= k /\ k - b + 1 = k - a
      BY <1>2
    <2> HIDE DEF b
    <2>2. Cardinality(b .. k) = k - b + 1
      BY <2>1, FS_Interval
    <2> QED
      BY <2>1, <2>2 DEF b
  <1>5. k = a + numUseful
    <2>1. numUseful = k - a
      BY <1>1, <1>3, <1>4, Zenon
    <2> QED
      BY <1>2, <2>1
  <1> QED
    BY <1>1, <1>5 DEF RemoveUseful

\* OnCongestionEvent while there are useful intervals: the event is counted, and either
\* the decision is made and the useful intervals go, or one of them is still open.
LEMMA CountingEventInv ==
  ASSUME PInv, NEW p, NEW fate \in Fates, NEW gap, NEW bursty, NEW calm,
         CongestionEvent(p, fate, gap, bursty, calm), numUseful # 0
  PROVE  PInv'
  <1> DEFINE updated == UpdatedBy(p, fate, gap, bursty)
             n == Len(intervals)
             after == PendingAfter(p, fate)
  <1>1. Told(p, fate)
    BY DEF CongestionEvent
  <1>2. p \in 1 .. nextId - 1 /\ told' = told \cup {p} /\ nextId' = nextId /\ (haveRtt => haveRtt')
    BY <1>1 DEF Told
  <1>3. pendingAcked' = after
    BY DEF CongestionEvent, QueueCongestionEvent, KeepPending, PendingAfter
  <1>4. \/ RemoveUseful(updated)
        \/ ~Complete(updated) /\ intervals' = updated /\ numUseful' = numUseful
    BY DEF CongestionEvent, QueueCongestionEvent
  <1>5. ~RemoveUseful(updated) => UNCHANGED <<mode, groups>>
    BY <1>4 DEF CongestionEvent, Decides
  <1>6. /\ IsSeq(updated) /\ Len(updated) = n /\ UsefulIn(updated) = UsefulIn(intervals)
        /\ \A i \in 1 .. n : CountedOk(intervals[i], updated[i], after, told \cup {p})
    BY <1>1, UpdatedFacts
  <1>7. n \in Nat /\ DOMAIN intervals = 1 .. n /\ DOMAIN updated = 1 .. n
    BY <1>6, SeqDomain DEF PInv, QueueOk
  <1>8. \A i \in 1 .. n : /\ IvOk(updated[i], nextId, haveRtt)
                          /\ updated[i].useful = intervals[i].useful
                          /\ updated[i].last = intervals[i].last
                          /\ intervals[i].enough => updated[i].enough
                          /\ intervals[i].useful => Balances(updated[i], after, told \cup {p})
    BY <1>6 DEF CountedOk
  <1>9. haveRtt /\ haveRtt'
    BY <1>2 DEF PInv, NoRttYet
  <1>10. PICK a \in {0, 1} : Shape(a)
    BY DEF PInv
  <1>11. /\ numUseful \in Nat /\ numUseful > 0 /\ UsefulIn(updated) = a + 1 .. a + numUseful
         /\ a + numUseful <= n /\ n <= a + numUseful + 1
    BY <1>6, <1>10 DEF Shape, PInv, PTypes
  <1>12. mode' \in SenderModes /\ groups' \in Nat \ {0}
    <2>1. mode \in SenderModes /\ groups \in Nat \ {0} /\ PTypes
      BY DEF PInv, PTypes
    <2>2. NextModes(mode) \subseteq SenderModes
      BY <2>1 DEF NextModes, SenderModes
    <2>3. (\E m \in NextModes(mode) : ChangeMode(m)) \/ UNCHANGED <<mode, groups>>
      BY DEF CongestionEvent
    <2> QED
      BY <2>1, <2>2, <2>3, ChangeModeTypes
  <1>13. n \in 1 .. n /\ intervals[n].last = nextId - 1
    <2>1. n # 0
      BY <1>10, <1>11
    <2> QED
      BY <1>7, <2>1, SeqDomain DEF PInv, QueueOk, Current
  <1> HIDE DEF updated, n, after
  <1>14. CASE RemoveUseful(updated)
    <2> DEFINE k == a + numUseful
    <2>1. intervals' = SubSeq(updated, k + 1, Len(updated)) /\ numUseful' = 0
      BY <1>11, <1>14, RemovedFacts
    <2>2. k \in 0 .. Len(updated) /\ k \in Nat /\ n - k \in {0, 1}
      BY <1>6, <1>7, <1>10, <1>11
    <2> HIDE DEF k
    <2>3. /\ IsSeq(intervals') /\ Len(intervals') = n - k
          /\ \A i \in 1 .. n - k : intervals'[i] = updated[k + i]
      BY <1>6, <2>1, <2>2, SeqSuffix
    <2>4. DOMAIN intervals' = 1 .. n - k /\ (intervals' = << >> <=> n - k = 0)
      BY <2>3, SeqDomain
    <2>5. ASSUME NEW i \in 1 .. n - k PROVE i = 1 /\ k + i = n /\ intervals'[i] = updated[n]
      <3>1. i = 1 /\ k + i = n
        BY <1>7, <2>2
      <3> QED
        BY <2>3, <3>1
    <2>6. ASSUME NEW i \in 1 .. n - k PROVE ~intervals'[i].useful
      <3>1. n \notin a + 1 .. a + numUseful
        BY <1>7, <1>11, <2>5 DEF k
      <3>2. ~updated[n].useful
        BY <1>7, <1>11, <1>13, <3>1 DEF UsefulIn
      <3> QED
        BY <2>5, <3>2
    <2>7. UsefulIn(intervals)' = {}
      BY <2>4, <2>6 DEF UsefulIn
    <2>8. PICK c \in {0, 1} : c = n - k
      BY <2>2
    <2>9. Shape(c)'
      <3>1. c + 1 .. c + 0 = {}
        BY <2>8
      <3>2. UsefulIn(intervals)' = c + 1 .. c + numUseful'
        BY <2>1, <2>7, <3>1
      <3>3. Len(intervals)' = c
        BY <2>3, <2>8
      <3>4. c + 0 <= c /\ c <= c + 0 + 1
        BY <2>8
      <3> QED
        BY <2>1, <3>2, <3>3, <3>4 DEF Shape
    <2>10. QueueOk'
      <3>1. \A i \in 1 .. n - k : IvOk(intervals'[i], nextId', haveRtt')
        BY <1>2, <1>8, <1>9, <1>13, <2>5
      <3>2. ASSUME n - k # 0 PROVE Current'.last = nextId' - 1
        <4>1. n - k = 1 /\ 1 \in 1 .. n - k
          BY <2>2, <3>2
        <4>2. Current' = updated[n]
          BY <2>3, <2>5, <4>1 DEF Current
        <4> QED
          BY <1>2, <1>8, <1>13, <4>2
      <3> QED
        BY <2>3, <2>4, <3>1, <3>2 DEF QueueOk
    <2>11. (numUseful <= MaxUseful(mode, groups))'
      BY <1>12, <2>1, MaxUsefulPositive
    <2>12. NoRttYet' /\ NoIntervalStuck'
      BY <1>9, <2>1, <2>7 DEF NoRttYet, NoIntervalStuck
    <2>13. PTypes'
      BY <1>1, <1>3, <1>12, <2>1, ToldTypes DEF PInv, after
    <2> QED
      BY <2>7, <2>10, <2>11, <2>12, <2>13, <2>9 DEF PInv
  <1>15. CASE ~RemoveUseful(updated)
    <2>1. ~Complete(updated) /\ intervals' = updated /\ numUseful' = numUseful
      BY <1>4, <1>15
    <2>2. UNCHANGED <<mode, groups>>
      BY <1>5, <1>15
    <2>3. UsefulIn(intervals)' = UsefulIn(intervals)
      BY <1>6, <2>1
    <2>4. Shape(a)'
      BY <1>6, <1>10, <2>1, <2>3 DEF Shape, n
    <2>5. QueueOk'
      <3>1. \A i \in 1 .. n : IvOk(intervals'[i], nextId', haveRtt')
        BY <1>2, <1>8, <1>9, <2>1
      <3>2. Current'.last = nextId' - 1
        BY <1>2, <1>6, <1>8, <1>13, <2>1 DEF Current
      <3> QED
        BY <1>6, <2>1, <3>1, <3>2 DEF QueueOk
    <2>6. (numUseful <= MaxUseful(mode, groups))'
      <3>1. numUseful <= MaxUseful(mode, groups)
        BY DEF PInv
      <3> QED
        BY <2>1, <2>2, <3>1
    <2>7. NoRttYet'
      BY <1>9 DEF NoRttYet
    <2>8. (\A i \in UsefulIn(intervals) : Balances(intervals[i], pendingAcked, told))'
      <3>1. \A i \in UsefulIn(intervals) : i \in 1 .. n /\ intervals[i].useful
        BY <1>7 DEF UsefulIn
      <3>2. \A i \in UsefulIn(intervals) : Balances(updated[i], after, told \cup {p})
        BY <1>8, <3>1
      <3> QED
        BY <1>2, <1>3, <2>1, <2>3, <3>2
    <2>9. NoIntervalStuck'
      <3>1. ASSUME NEW i \in UsefulIn(intervals), i < n PROVE updated[i].enough
        <4>1. i \in 1 .. n /\ intervals[i].enough
          BY <1>7, <3>1 DEF UsefulIn, PInv, NoIntervalStuck, n
        <4> QED
          BY <1>8, <4>1
      <3>2. \E i \in UsefulIn(updated) : ~IsUtilityAvailable(updated[i])
        <4>1. SUFFICES ASSUME \A i \in UsefulIn(updated) : IsUtilityAvailable(updated[i])
                       PROVE  FALSE
          OBVIOUS
        <4>2. {i \in UsefulIn(updated) : IsUtilityAvailable(updated[i])} = a + 1 .. a + numUseful
          BY <1>11, <4>1
        <4>3. Cardinality(a + 1 .. a + numUseful) = numUseful
          BY <1>11, FS_Interval
        <4>4. NumAvailable(updated) = numUseful
          BY <4>2, <4>3 DEF NumAvailable
        <4> QED
          BY <1>11, <2>1, <4>4 DEF Complete
      <3> QED
        BY <1>6, <2>1, <2>3, <3>1, <3>2 DEF NoIntervalStuck
    <2>10. PTypes'
      BY <1>1, <1>3, <1>11, <1>12, <2>1, ToldTypes DEF PInv, after
    <2> QED
      BY <2>4, <2>5, <2>6, <2>7, <2>8, <2>9, <2>10 DEF PInv
  <1> QED
    BY <1>14, <1>15

-----------------------------------------------------------------------------
(* The theorems. *)

\* No step of the sender breaks the invariant.
LEMMA PStepInv ==
  ASSUME PInv, [PNext]_pvars
  PROVE  PInv'
  <1>1. CASE \E g \in GroupSizes : SetUtilityTag(g)
    BY <1>1, SetUtilityTagInv
  <1>2. ASSUME NEW elapsed \in BOOLEAN, StartInterval(elapsed) PROVE PInv'
    BY <1>2, StartIntervalInv
  <1>3. ASSUME NEW elapsed \in BOOLEAN, ExtendInterval(elapsed) PROVE PInv'
    <2>1. Sending /\ AddPacket(nextId, TRUE) /\ intervals # << >>
      BY <1>3 DEF ExtendInterval, ExtendsInterval
    <2> DEFINE e == TRUE
    <2>2. AddPacket(nextId, e)
      BY <2>1
    <2> HIDE DEF e
    <2> QED
      BY <2>1, <2>2, AddPacketInv
  <1>4. ASSUME NEW elapsed \in BOOLEAN, ContinueInterval(elapsed) PROVE PInv'
    <2>1. Sending /\ AddPacket(nextId, FALSE) /\ intervals # << >>
      BY <1>4 DEF ContinueInterval, CreateNewInterval
    <2> DEFINE e == FALSE
    <2>2. AddPacket(nextId, e)
      BY <2>1
    <2> HIDE DEF e
    <2> QED
      BY <2>1, <2>2, AddPacketInv
  <1>5. ASSUME NEW p \in 1 .. MaxPackets, NEW fate \in Fates, RttInflation(p, fate) PROVE PInv'
    BY <1>5, InflationInv
  <1>6. ASSUME NEW p \in 1 .. MaxPackets, NEW fate \in Fates, NEW gap \in GapsOf(fate),
               NEW bursty \in Bursts, NEW calm \in Calms,
               CongestionEvent(p, fate, gap, bursty, calm)
        PROVE  PInv'
    BY <1>6, IdleEventInv, CountingEventInv
  <1>7. CASE UNCHANGED pvars
    <2>1. UNCHANGED <<intervals, numUseful, pendingAcked, mode, groups, haveRtt, nextId, told>>
      BY <1>7 DEF pvars, queueVars
    <2>2. PTypes'
      BY <2>1 DEF PInv, PTypes
    <2>3. (QueueOk /\ NoRttYet /\ NoIntervalStuck)'
      BY <2>1 DEF PInv, QueueOk, Current, NoRttYet, NoIntervalStuck, UsefulIn
    <2>4. (\E a \in {0, 1} : Shape(a))'
      BY <2>1 DEF PInv, Shape, UsefulIn
    <2>5. (numUseful <= MaxUseful(mode, groups))'
      BY <2>1 DEF PInv, MaxUseful
    <2> QED
      BY <2>1, <2>2, <2>3, <2>4, <2>5 DEF PInv, UsefulIn
  <1> QED
    BY <1>1, <1>2, <1>3, <1>4, <1>5, <1>6, <1>7 DEF PNext

\* The invariant holds at all times.
LEMMA PInvAlways == PSpec => []PInv
  BY PInitInv, PStepInv, PTL DEF PSpec

\* CanSend is always true: whatever is in flight and however fates are reordered, the
\* queue has at most one non-useful interval before the useful ones and one after.
THEOREM PccNeverStopsTheSender == PSpec => []NeverThrottled
  BY PInvAlways, PInvImplies, PTL

\* The assertions of OnCongestionEvent, CreateUsefulInterval and OnUtilityAvailable
\* never fail.
THEOREM PccAssertionsHold == PSpec => []AssertionsHold
  BY PInvAlways, PInvImplies, PTL

\* A useful interval is left only with enough samples, and the queue never keeps useful
\* intervals that are all available: OnUtilityAvailable is never missed.
THEOREM NoDecisionIsMissed == PSpec => []NoIntervalStuck
  BY PInvAlways, PInvImplies, PTL

\* Every fate PCC is told of is counted once in the interval of its packet, although an
\* acknowledgement is counted one event late.
THEOREM EveryFateCountedOnce == PSpec => []FatesCounted
  BY PInvAlways, PInvImplies, PTL
=============================================================================
