---------------------------- MODULE VivaceProofs ----------------------------
(***************************************************************************)
(* The rate control, for every initial and smallest rate, any number of    *)
(* groups and decisions, and whatever changes the utility gradients ask    *)
(* for.                                                                    *)
(***************************************************************************)
EXTENDS Vivace, FiniteSetTheorems, WellFoundedInduction, TLAPS

USE VivaceAssumption

-----------------------------------------------------------------------------
(* Rounding. *)

\* Where the product of a rate and a percentage is rounded to.
LEMMA ScaledBounds ==
  ASSUME NEW r \in Nat, NEW p \in {50, 95, 105}
  PROVE  /\ Scaled(r, p) \in Nat
         /\ 200 * Scaled(r, p) <= 2 * r * p + 100
         /\ 2 * r * p + 100 < 200 * Scaled(r, p) + 200
  BY DEF Scaled

\* A scaled rate is a rate.
LEMMA ScaledNat == ASSUME NEW r \in Nat, NEW p \in {50, 95, 105} PROVE Scaled(r, p) \in Nat
  <1>1. CASE p = 50
    BY <1>1 DEF Scaled
  <1>2. CASE p = 95
    BY <1>2 DEF Scaled
  <1>3. CASE p = 105
    BY <1>3 DEF Scaled
  <1> QED
    BY <1>1, <1>2, <1>3

\* The steps of PROBING.
LEMMA StepPercent == \A d : ProbingStep(d) \in {95, 105}
  BY DEF ProbingStep

\* Undoing a step up gives the rate back.
LEMMA UpUndone == ASSUME NEW r \in Nat PROVE Unscaled(Scaled(r, 105), 105) = r
  BY DEF Scaled, Unscaled

\* Undoing a step down gives the rate back, or one unit more for one rate in twenty.
LEMMA DownUndone ==
  ASSUME NEW r \in Nat
  PROVE  Unscaled(Scaled(r, 95), 95) = IF r % 20 = 10 THEN r + 1 ELSE r
  BY DEF Scaled, Unscaled

\* How far apart the scaled rates of a central rate and of the next one are.
LEMMA StepsApart ==
  ASSUME NEW c \in Nat, 2 * c >= MinSendingRate
  PROVE  /\ Scaled(c, 95) \in Nat /\ Scaled(c + 1, 95) \in Nat
         /\ Scaled(c, 105) \in Nat /\ Scaled(c + 1, 105) \in Nat
         /\ 5 * Scaled(c, 95) >= 2 * MinSendingRate
         /\ Scaled(c, 95) <= Scaled(c + 1, 95) /\ Scaled(c + 1, 95) <= Scaled(c, 95) + 2
         /\ Scaled(c, 105) <= Scaled(c + 1, 105) /\ Scaled(c + 1, 105) <= Scaled(c, 105) + 2
         /\ Scaled(c + 1, 95) < Scaled(c, 105)
  BY DEF Scaled

\* A non-empty set of group numbers has a greatest element: the last group that voted.
LEMMA Greatest ==
  ASSUME NEW n \in Nat, NEW T \in SUBSET (1 .. n), T # {}
  PROVE  \E i \in T : \A j \in T : j <= i
  <1> DEFINE above(i) == i .. n
             family == {above(i) : i \in T}
  <1>1. \A i \in T : above(i) \in SUBSET Nat /\ IsFiniteSet(above(i))
    BY FS_Interval
  <1>2. family \subseteq FiniteSubsetsOf(Nat) /\ family # {}
    BY <1>1 DEF FiniteSubsetsOf
  <1>3. IsWellFoundedOn(StrictSubsetOrdering(Nat), FiniteSubsetsOf(Nat))
    BY FS_StrictSubsetOrderingWellFounded
  <1> HIDE DEF family
  <1>4. PICK x \in family : \A y \in family : ~(<<y, x>> \in StrictSubsetOrdering(Nat))
    BY <1>2, <1>3, WFMin
  <1>5. PICK i \in T : x = above(i)
    BY <1>4 DEF family
  <1>6. ASSUME NEW j \in T, j > i PROVE FALSE
    <2>1. above(j) \in family
      BY DEF family
    <2>2. above(j) \subseteq above(i) /\ i \in above(i) /\ i \notin above(j)
      BY <1>6
    <2>3. above(j) \in SUBSET Nat /\ above(i) \in SUBSET Nat /\ above(j) # above(i)
      BY <1>1, <2>2
    <2> HIDE DEF above
    <2>4. <<above(j), above(i)>> \in StrictSubsetOrdering(Nat)
      BY <2>2, <2>3 DEF StrictSubsetOrdering
    <2> QED
      BY <1>4, <1>5, <2>1, <2>4
  <1> QED
    BY <1>6

-----------------------------------------------------------------------------
(* The inductive invariant. *)

VTypes == /\ mode \in SenderModes /\ direction \in {"INCREASE", "DECREASE"}
          /\ rate \in Nat /\ latestRate \in Nat /\ central \in Nat /\ allowance \in Nat
          /\ useful \in Seq(Nat) /\ tail \in {"none", "useful", "other"}
          /\ haveRtt \in BOOLEAN /\ zeroDelta \in BOOLEAN /\ limited \in BOOLEAN

\* The rate that the steps of PROBING start from: undoing a step down can have added one
\* unit, once.
BaseRate(b) == b = central \/ (b = central + 1 /\ central % 20 = 10)

Around(r, p) == r = Scaled(central, p) \/ r = Scaled(central + 1, p)

Opposite(x, y) == \/ Around(x, 105) /\ Around(y, 95)
                  \/ Around(x, 95) /\ Around(y, 105)

\* A useful interval has a known RTT, and it is in the queue when it is at the tail.
Sampled == /\ tail = "useful" => useful # << >>
           /\ mode # "STARTING" \/ useful # << >> => haveRtt = TRUE

\* Where a step of PROBING is under way, it was taken from the base rate.
StepTaken == \E b \in Nat : BaseRate(b) /\ rate = Scaled(b, ProbingStep(direction))

\* PROBING: the useful intervals form groups around the central rate.
ProbingInv ==
  mode = "PROBING" =>
    /\ 2 * central >= MinSendingRate
    /\ Len(useful) <= 2 * Groups
    /\ useful # << >> /\ tail # "useful" => Len(useful) = 2 * Groups
    /\ tail # "useful" => BaseRate(rate)
    /\ tail = "useful" => useful[Len(useful)] = rate /\ StepTaken
    /\ \A i \in 1 .. Len(useful) \div 2 : Opposite(useful[2 * i - 1], useful[2 * i])

\* DECISION_MADE: the rate has moved away from the one last looked at.
DecidedInv ==
  mode = "DECISION_MADE" =>
    /\ useful # << >> => useful[1] = rate
    /\ limited = FALSE => IF direction = "INCREASE" THEN rate > latestRate ELSE rate < latestRate

Floors == /\ mode # "PROBING" => rate >= MinSendingRate
          /\ limited = FALSE => zeroDelta = FALSE

VInv == VTypes /\ Sampled /\ ProbingInv /\ DecidedInv /\ Floors

\* The number of groups is positive.
LEMMA GroupsPositive == Groups \in Nat /\ Groups >= 1
  BY DEF Groups, GroupsOf

\* Before the first packet.
LEMMA VInitInv == VInit => VInv
  <1> SUFFICES ASSUME VInit PROVE VInv
    OBVIOUS
  <1>1. VTypes
    <2>2. /\ mode \in SenderModes /\ direction \in {"INCREASE", "DECREASE"}
          /\ tail \in {"none", "useful", "other"}
      BY DEF VInit, SenderModes
    <2>3. rate \in Nat /\ latestRate \in Nat /\ central \in Nat /\ allowance \in Nat
      BY DEF VInit
    <2>4. haveRtt \in BOOLEAN /\ zeroDelta \in BOOLEAN /\ limited \in BOOLEAN
      BY Zenon DEF VInit
    <2>5. useful = << >>
      BY DEF VInit
    <2>6. useful \in Seq(Nat)
      BY <2>5
    <2> QED
      BY <2>2, <2>3, <2>4, <2>6 DEF VTypes
  <1> QED
    BY <1>1 DEF VInit, VInv, Sampled, ProbingInv, DecidedInv, Floors

\* Undoing the step that is under way leads back to the base rate.
LEMMA RestoredIsBase ==
  ASSUME VInv, mode = "PROBING"
  PROVE  Restored \in Nat /\ BaseRate(Restored)
  <1>1. CASE tail # "useful"
    BY <1>1 DEF VInv, VTypes, ProbingInv, Restored
  <1>2. CASE tail = "useful"
    <2>1. PICK b \in Nat : BaseRate(b) /\ rate = Scaled(b, ProbingStep(direction))
      BY <1>2 DEF VInv, ProbingInv, StepTaken
    <2>2. Unscaled(rate, ProbingStep(direction)) = b \/ (b % 20 = 10 /\ Unscaled(rate, ProbingStep(direction)) = b + 1)
      BY <2>1, UpUndone, DownUndone DEF ProbingStep
    <2>3. central \in Nat
      BY DEF VInv, VTypes
    <2>4. central % 20 = 10 => (central + 1) % 20 # 10
      BY <2>3
    <2>5. BaseRate(b) /\ b % 20 = 10 => b = central
      BY <2>4 DEF BaseRate
    <2> QED
      BY <1>2, <2>1, <2>2, <2>3, <2>5 DEF Restored, BaseRate
  <1> QED
    BY <1>1, <1>2

\* Entering PROBING, with an empty round.
LEMMA ProbingEntered ==
  ASSUME mode' = "PROBING", central' \in Nat, rate' = central', 2 * central' >= MinSendingRate,
         useful' = << >>, tail' # "useful", haveRtt' = TRUE, VTypes', limited' = FALSE => zeroDelta' = FALSE
  PROVE  VInv'
  <1>1. ProbingInv'
    <2>1. Len(useful') = 0 /\ Len(useful') \div 2 = 0
      OBVIOUS
    <2>2. BaseRate(rate)'
      BY DEF BaseRate
    <2>3. \A i \in 1 .. Len(useful') \div 2 : Opposite(useful[2 * i - 1], useful[2 * i])'
      BY <2>1
    <2>4. Len(useful') <= 2 * Groups'
      BY <2>1 DEF Groups, GroupsOf
    <2> QED
      BY <2>2, <2>3, <2>4 DEF ProbingInv
  <1> QED
    BY <1>1 DEF VInv, Sampled, DecidedInv, Floors

-----------------------------------------------------------------------------
(* The steps. *)

\* The first RTT sample sets the initial rate.
LEMMA FirstRttInv ==
  ASSUME VInv, NEW gain \in RttGains, FirstRtt(gain)
  PROVE  VInv'
  <1>1. /\ haveRtt = FALSE /\ haveRtt' = TRUE /\ rate' = rate * gain
        /\ UNCHANGED <<mode, direction, scavenger, allowance, latestRate, useful, tail, central,
                       zeroDelta, limited>>
    BY DEF FirstRtt, VInv, VTypes, queueVars, histVars
  <1>2. mode = "STARTING" /\ useful = << >> /\ rate >= MinSendingRate /\ rate \in Nat
    BY <1>1 DEF VInv, VTypes, Sampled, Floors
  <1>3. gain \in Nat /\ gain >= 1
    OBVIOUS
  <1>4. rate' \in Nat /\ rate' >= rate
    <2>1. rate * gain >= rate * 1
      BY <1>2, <1>3
    <2> QED
      BY <1>1, <1>2, <1>3, <2>1
  <1>5. VTypes'
    BY <1>1, <1>4 DEF VInv, VTypes
  <1>6. Sampled' /\ Floors'
    BY <1>1, <1>2, <1>4 DEF VInv, Sampled, Floors
  <1> QED
    BY <1>1, <1>2, <1>5, <1>6 DEF VInv, ProbingInv, DecidedInv

\* A monitor interval starts: the rate it gets keeps the floor and its group.
LEMMA StartIntervalInv ==
  ASSUME VInv, StartInterval
  PROVE  VInv'
  <1>1. /\ UNCHANGED <<mode, haveRtt, scavenger, allowance, latestRate, central, zeroDelta, limited>>
        /\ MaybeSetSendingRate
        /\ useful' = IF CreateUsefulInterval THEN Append(useful, rate') ELSE useful
        /\ tail' = IF CreateUsefulInterval THEN "useful" ELSE "other"
    BY DEF StartInterval, histVars
  <1>2. VTypes /\ Groups \in Nat /\ Groups >= 1 /\ Groups' = Groups
    BY <1>1, GroupsPositive DEF VInv, Groups
  <1> DEFINE n == Len(useful)
  <1>3. n \in Nat /\ (n = 0 <=> useful = << >>)
    BY <1>2 DEF VTypes
  <1>4. CASE mode # "PROBING"
    <2>1. UNCHANGED <<rate, direction>>
      BY <1>1, <1>4 DEF MaybeSetSendingRate
    <2>2. useful' \in Seq(Nat)
      BY <1>1, <1>2, <2>1 DEF VTypes
    <2>3. VTypes'
      BY <1>1, <1>2, <2>1, <2>2 DEF VTypes
    <2>4. CASE CreateUsefulInterval
      <3>1. n = 0 /\ haveRtt /\ useful' = Append(useful, rate) /\ tail' = "useful"
        BY <2>4, <1>1, <1>3, <1>4, <2>1 DEF CreateUsefulInterval, MaxUseful
      <3>2. useful' # << >> /\ useful'[1] = rate
        BY <3>1, <1>2 DEF VTypes
      <3>3. Sampled'
        BY <3>1, <3>2, <1>1, <1>2 DEF Sampled, VTypes
      <3>4. DecidedInv' /\ Floors'
        BY <3>2, <1>1, <2>1 DEF VInv, DecidedInv, Floors
      <3> QED
        BY <1>1, <1>4, <2>3, <3>3, <3>4 DEF VInv, ProbingInv
    <2>5. CASE ~CreateUsefulInterval
      <3>1. useful' = useful /\ tail' = "other"
        BY <2>5, <1>1
      <3> QED
        BY <1>1, <1>4, <2>1, <2>3, <3>1 DEF VInv, Sampled, ProbingInv, DecidedInv, Floors
    <2> QED
      BY <2>4, <2>5
  <1>5. CASE mode = "PROBING"
    <2>0. /\ haveRtt = TRUE /\ n <= 2 * Groups /\ 2 * central >= MinSendingRate
          /\ limited = FALSE => zeroDelta = FALSE
          /\ CreateUsefulInterval <=> n < 2 * Groups
          /\ useful # << >> /\ tail # "useful" => n = 2 * Groups
          /\ tail = "useful" => useful # << >>
      BY <1>5 DEF VInv, Sampled, ProbingInv, Floors, CreateUsefulInterval, MaxUseful
    <2>1. Restored \in Nat /\ BaseRate(Restored)
      BY <1>5, RestoredIsBase
    <2>2. CASE n = 2 * Groups
      <3>1. useful' = useful /\ tail' = "other" /\ useful # << >>
        BY <2>2, <2>0, <1>1, <1>2, <1>3
      <3>2. rate' = Restored /\ direction' = direction
        BY <1>1, <1>5, <2>2, <3>1 DEF MaybeSetSendingRate, Restored
      <3>3. VTypes' /\ Sampled'
        BY <1>1, <1>2, <2>0, <2>1, <3>1, <3>2 DEF VTypes, Sampled
      <3>4. BaseRate(rate)'
        BY <2>1, <3>2, <1>1 DEF BaseRate
      <3>5. \A i \in 1 .. Len(useful') \div 2 : Opposite(useful[2 * i - 1], useful[2 * i])'
        <4> SUFFICES ASSUME NEW i \in 1 .. Len(useful') \div 2
                     PROVE  Opposite(useful[2 * i - 1], useful[2 * i])'
          OBVIOUS
        <4>1. Opposite(useful[2 * i - 1], useful[2 * i])
          BY <1>5, <3>1 DEF VInv, ProbingInv
        <4> QED
          BY <4>1, <1>1, <3>1 DEF Opposite, Around
      <3>6. ProbingInv'
        BY <1>1, <1>2, <2>0, <2>2, <3>1, <3>4, <3>5 DEF ProbingInv
      <3> QED
        BY <1>1, <1>5, <2>0, <3>3, <3>6 DEF VInv, DecidedInv, Floors
    <2>3. CASE n < 2 * Groups
      <3>1. /\ useful' = Append(useful, rate') /\ tail' = "useful"
        BY <2>3, <2>0, <1>1
      <3>2. PICK b \in Nat : BaseRate(b) /\ rate' = Scaled(b, ProbingStep(direction'))
        <4>1. CASE useful = << >>
          <5>1. rate \in Nat /\ BaseRate(rate) /\ rate' = Scaled(rate, ProbingStep(direction'))
            BY <4>1, <1>1, <1>2, <1>3, <1>5, <2>0, <2>3
               DEF MaybeSetSendingRate, VInv, VTypes, ProbingInv
          <5> QED
            BY <5>1
        <4>2. CASE useful # << >>
          BY <4>2, <1>1, <1>5, <2>1, <2>3 DEF MaybeSetSendingRate
        <4> QED
          BY <4>1, <4>2
      <3>3. /\ direction' \in {"INCREASE", "DECREASE"}
            /\ n % 2 = 1 => direction' # direction
        BY <1>1, <1>5, <2>3 DEF MaybeSetSendingRate
      <3>4. rate' \in Nat /\ ProbingStep(direction') \in {95, 105}
        BY <3>2, StepPercent, ScaledNat
      <3>5. /\ useful' \in Seq(Nat) /\ Len(useful') = n + 1 /\ useful'[n + 1] = rate'
            /\ \A i \in 1 .. n : useful'[i] = useful[i]
            /\ useful' # << >>
        BY <1>2, <3>1, <3>4 DEF VTypes
      <3>6. VTypes' /\ Sampled'
        BY <1>1, <1>2, <2>0, <3>1, <3>3, <3>4, <3>5 DEF VTypes, Sampled
      <3>7. StepTaken'
        BY <1>1, <3>2 DEF StepTaken, BaseRate
      <3>8. \A i \in 1 .. Len(useful') \div 2 : Opposite(useful[2 * i - 1], useful[2 * i])'
        <4>0. central' = central
          BY <1>1
        <4> SUFFICES ASSUME NEW i \in 1 .. Len(useful') \div 2
                     PROVE  Opposite(useful'[2 * i - 1], useful'[2 * i])
          BY <4>0 DEF Opposite, Around
        <4>3. i \in 1 .. (n + 1) \div 2
          BY <3>5
        <4>1. CASE 2 * i <= n
          <5>1. i \in 1 .. n \div 2 /\ 2 * i - 1 \in 1 .. n /\ 2 * i \in 1 .. n
            BY <4>1, <1>3
          <5>2. Opposite(useful[2 * i - 1], useful[2 * i])
            BY <5>1, <1>5 DEF VInv, ProbingInv
          <5>3. useful'[2 * i - 1] = useful[2 * i - 1] /\ useful'[2 * i] = useful[2 * i]
            BY <5>1, <3>5
          <5> QED
            BY <5>2, <5>3
        <4>2. CASE 2 * i > n
          <5>1. 2 * i = n + 1 /\ n % 2 = 1 /\ n \in 1 .. n
            <6> HIDE DEF n
            <6> QED
              BY <4>2, <1>3, <4>3
          <5>2. tail = "useful"
            BY <5>1, <1>3, <2>0, <2>3
          <5>3. PICK a \in Nat : BaseRate(a) /\ rate = Scaled(a, ProbingStep(direction))
            BY <1>5, <5>2 DEF VInv, ProbingInv, StepTaken
          <5>4. useful'[2 * i - 1] = rate /\ useful'[2 * i] = rate'
            <6>1. useful[n] = rate
              BY <1>5, <5>2 DEF VInv, ProbingInv
            <6>2. 2 * i - 1 = n
              BY <5>1, <1>3
            <6> QED
              BY <5>1, <6>1, <6>2, <3>5
          <5>5. Around(rate, ProbingStep(direction)) /\ Around(rate', ProbingStep(direction'))
            BY <5>3, <3>2 DEF Around, BaseRate
          <5>6. \/ ProbingStep(direction) = 105 /\ ProbingStep(direction') = 95
                \/ ProbingStep(direction) = 95 /\ ProbingStep(direction') = 105
            BY <5>1, <3>3, <1>2 DEF ProbingStep, VTypes
          <5> QED
            BY <5>4, <5>5, <5>6 DEF Opposite
        <4> QED
          BY <4>1, <4>2, <1>3
      <3>9. ProbingInv'
        <4>1. /\ 2 * central' >= MinSendingRate /\ Len(useful') <= 2 * Groups'
              /\ tail' = "useful" /\ useful'[Len(useful')] = rate'
          BY <1>1, <1>2, <1>3, <2>0, <2>3, <3>1, <3>5
        <4> QED
          BY <3>7, <3>8, <4>1 DEF ProbingInv
      <3> QED
        BY <1>1, <1>5, <2>0, <3>6, <3>9 DEF VInv, DecidedInv, Floors
    <2> QED
      BY <1>2, <1>3, <2>0, <2>2, <2>3
  <1> QED
    BY <1>4, <1>5

-----------------------------------------------------------------------------
(* OnUtilityAvailable. *)

\* What every decision leaves of the queue.
LEMMA FlushFacts ==
  ASSUME VInv, Deciding, Flush
  PROVE  /\ useful # << >> /\ haveRtt' = TRUE
         /\ useful' = << >> /\ useful' \in Seq(Nat)
         /\ tail' \in {"none", "useful", "other"} /\ tail' # "useful"
  <1>1. useful' = << >> /\ tail' = IF tail = "useful" THEN "none" ELSE tail
    BY DEF Flush
  <1>2. useful # << >> /\ haveRtt' = haveRtt /\ haveRtt = TRUE
    BY DEF Deciding, VInv, Sampled
  <1> QED
    BY <1>1, <1>2 DEF VInv, VTypes

\* The change ComputeRateChange asks for.
LEMMA RateChangeFacts ==
  ASSUME NEW raw \in Nat, NEW r \in Nat, NEW a \in Nat
  PROVE  /\ RateChange(raw, r, a) \in Nat /\ RateChange(raw, r, a) >= MinRateChange
         /\ AllowanceAfter(raw, r, a) \in Nat
  <1>1. r * (5 + 5 * a) \in Nat
    OBVIOUS
  <1>2. RateCap(r, a) = (2 * (r * (5 + 5 * a)) + 100) \div 200
    BY DEF RateCap, Scaled
  <1>3. RateCap(r, a) \in Nat
    BY <1>1, <1>2
  <1> QED
    BY <1>3 DEF RateChange, AllowanceAfter, Higher, Lower

\* What EnterDecisionMade may choose at rate r in direction d.
DecisionOk(out, r, d) ==
  /\ out.rate \in Nat /\ out.allowance \in Nat /\ out.rate >= MinSendingRate
  /\ out.mode = "PROBING" \/ out.mode = "DECISION_MADE"
  /\ out.mode = "DECISION_MADE" =>
       IF d = "INCREASE" THEN out.rate >= r + MinRateChange
       ELSE out.rate <= r - MinRateChange

\* The rate it chooses is not below the smallest one, and one that stays in
\* DECISION_MADE is a change of at least kMinRateChange.
LEMMA DecisionMadeFacts ==
  ASSUME NEW r \in Nat, NEW d \in {"INCREASE", "DECREASE"}, NEW raw \in Nat, NEW a \in Nat
  PROVE  DecisionOk(EnterDecisionMade(r, d, raw, a), r, d)
  <1> DEFINE change == RateChange(raw, r, a)
             new == Changed(r, change, d)
             out == EnterDecisionMade(r, d, raw, a)
  <1>1. change \in Nat /\ change >= MinRateChange /\ AllowanceAfter(raw, r, a) \in Nat
    BY RateChangeFacts
  <1> HIDE DEF change
  <1>2. new \in Nat /\ (new > 0 => IF d = "INCREASE" THEN new = r + change ELSE new = r - change)
    BY <1>1 DEF Changed, Higher
  <1>3. out = IF new < MinSendingRate
              THEN [mode |-> "PROBING", rate |-> MinSendingRate, allowance |-> 0]
              ELSE [mode |-> "DECISION_MADE", rate |-> new, allowance |-> AllowanceAfter(raw, r, a)]
    BY DEF EnterDecisionMade, change
  <1> HIDE DEF new, out
  <1>4. CASE new < MinSendingRate
    <2>1. out = [mode |-> "PROBING", rate |-> MinSendingRate, allowance |-> 0]
      BY <1>3, <1>4
    <2>2. out.mode = "PROBING" /\ out.rate = MinSendingRate /\ out.allowance = 0
      BY <2>1
    <2> QED
      BY <2>2 DEF out, DecisionOk
  <1>5. CASE ~(new < MinSendingRate)
    <2>1. out = [mode |-> "DECISION_MADE", rate |-> new, allowance |-> AllowanceAfter(raw, r, a)]
      BY <1>3, <1>5
    <2>2. out.mode = "DECISION_MADE" /\ out.rate = new /\ out.allowance = AllowanceAfter(raw, r, a)
      BY <2>1
    <2> QED
      BY <1>1, <1>2, <1>5, <2>2 DEF out, DecisionOk
  <1> QED
    BY <1>4, <1>5

\* PccSender::EnterProbing from STARTING.
LEMMA LeaveStartingInv ==
  ASSUME VInv, mode = "STARTING", LeaveStarting, useful' = << >>,
         tail' \in {"none", "useful", "other"}, tail' # "useful", haveRtt' = TRUE,
         UNCHANGED <<zeroDelta, limited>>
  PROVE  VInv'
  <1>1. /\ mode' = "PROBING" /\ rate' = Scaled(rate, 50) /\ central' = rate'
        /\ UNCHANGED <<direction, allowance, latestRate>>
    BY DEF LeaveStarting
  <1>2. rate \in Nat /\ rate >= MinSendingRate
    BY DEF VInv, VTypes, Floors
  <1>3. rate' \in Nat /\ 2 * rate' >= MinSendingRate
    BY <1>1, <1>2 DEF Scaled
  <1>5. VTypes'
    BY <1>1, <1>3 DEF VInv, VTypes, SenderModes
  <1>6. limited' = FALSE => zeroDelta' = FALSE
    BY DEF VInv, Floors
  <1> QED
    BY <1>1, <1>3, <1>5, <1>6, ProbingEntered

\* The RTT inflation check, which only forces a probing episode.
LEMMA RttInflationInv ==
  ASSUME VInv, RttInflation
  PROVE  VInv'
  <1>1. /\ mode = "STARTING" /\ LeaveStarting /\ useful' = << >> /\ tail' = "none"
        /\ haveRtt' = TRUE /\ UNCHANGED <<zeroDelta, limited>>
    BY DEF RttInflation, VInv, VTypes
  <1> QED
    BY <1>1, LeaveStartingInv

\* OnUtilityAvailable while STARTING.
LEMMA DecideStartingInv ==
  ASSUME VInv, NEW better \in BOOLEAN, DecideStarting(better)
  PROVE  VInv'
  <1>1. mode = "STARTING" /\ Deciding /\ Flush /\ UNCHANGED <<zeroDelta, limited>>
    BY DEF DecideStarting
  <1>2. /\ useful # << >> /\ haveRtt' = TRUE
        /\ useful' = << >> /\ useful' \in Seq(Nat)
        /\ tail' \in {"none", "useful", "other"} /\ tail' # "useful"
    BY <1>1, FlushFacts
  <1>3. CASE LeaveStarting
    BY <1>1, <1>2, <1>3, LeaveStartingInv
  <1>4. CASE ~LeaveStarting
    <2>1. /\ rate' = 2 * rate /\ latestRate' = useful[1]
          /\ UNCHANGED <<mode, direction, scavenger, allowance, central>>
      BY <1>4 DEF DecideStarting
    <2>2. useful[1] \in Nat
      BY <1>2 DEF VInv, VTypes
    <2>3. rate' \in Nat /\ rate' >= MinSendingRate
      BY <1>1, <2>1 DEF VInv, VTypes, Floors
    <2>4. VTypes'
      BY <1>1, <1>2, <2>1, <2>2, <2>3 DEF VInv, VTypes
    <2> QED
      BY <1>1, <1>2, <2>1, <2>3, <2>4 DEF VInv, Sampled, ProbingInv, DecidedInv, Floors
  <1> QED
    BY <1>3, <1>4

\* EnterProbing from an inconclusive episode: the rates are drawn again.
LEMMA StayProbingInv ==
  ASSUME VInv, NEW votes, StayProbing(votes)
  PROVE  VInv'
  <1>1. /\ mode = "PROBING" /\ Deciding /\ Flush
        /\ rate' = IF Restored <= MinSendingRate THEN MinSendingRate ELSE Restored
        /\ allowance' = IF Restored <= MinSendingRate THEN 0 ELSE allowance
        /\ mode' = IF Restored <= MinSendingRate THEN "STARTING" ELSE "PROBING"
        /\ UNCHANGED <<direction, scavenger, latestRate, central, zeroDelta, limited>>
    BY DEF StayProbing
  <1>2. /\ useful # << >> /\ haveRtt' = TRUE
        /\ useful' = << >> /\ useful' \in Seq(Nat)
        /\ tail' \in {"none", "useful", "other"} /\ tail' # "useful"
    BY <1>1, FlushFacts
  <1>3. Restored \in Nat /\ BaseRate(Restored)
    BY <1>1, RestoredIsBase
  <1>4. VTypes'
    BY <1>1, <1>2, <1>3 DEF VInv, VTypes, SenderModes
  <1>5. Sampled' /\ DecidedInv' /\ Floors'
    BY <1>1, <1>2, <1>3 DEF VInv, Sampled, DecidedInv, Floors
  <1>6. ProbingInv'
    <2> SUFFICES ASSUME mode' = "PROBING" PROVE ProbingInv'
      BY DEF ProbingInv
    <2>1. rate' = Restored
      BY <1>1
    <2>2. BaseRate(rate)'
      BY <1>1, <1>3, <2>1 DEF BaseRate
    <2>3. 2 * central' >= MinSendingRate
      BY <1>1 DEF VInv, ProbingInv
    <2>4. Len(useful') = 0 /\ Len(useful') \div 2 = 0
      BY <1>2
    <2>5. Len(useful') <= 2 * Groups'
      BY <2>4 DEF Groups, GroupsOf
    <2>6. \A i \in 1 .. Len(useful') \div 2 : Opposite(useful[2 * i - 1], useful[2 * i])'
      BY <2>4
    <2> QED
      BY <1>2, <2>2, <2>3, <2>5, <2>6 DEF ProbingInv
  <1> QED
    BY <1>4, <1>5, <1>6 DEF VInv

\* CanMakeDecision and SetRateChangeDirection: some group voted for the direction.
LEMMA SomeAgree ==
  ASSUME NEW g \in Nat, g >= 1, NEW votes \in [1 .. g -> BOOLEAN]
  PROVE  \E i \in 1 .. g : votes[i] <=> DirectionOf(votes) = "INCREASE"
  <1> DEFINE yes == {i \in DOMAIN votes : votes[i] = TRUE}
             no == {i \in DOMAIN votes : votes[i] = FALSE}
  <1>1. IsFiniteSet(1 .. g) /\ DOMAIN votes = 1 .. g /\ 1 \in 1 .. g
    BY FS_Interval
  <1>2. IsFiniteSet(yes) /\ IsFiniteSet(no)
    BY <1>1, FS_Subset
  <1>3. Cardinality(yes) \in Nat /\ Cardinality(no) \in Nat
    BY <1>2, FS_CardinalityType
  <1>4. (Cardinality(yes) = 0 <=> yes = {}) /\ (Cardinality(no) = 0 <=> no = {})
    BY <1>2, FS_EmptySet
  <1>5. 1 \in yes \/ 1 \in no
    BY <1>1
  <1>6. DirectionOf(votes) = IF Cardinality(yes) > Cardinality(no) THEN "INCREASE" ELSE "DECREASE"
    BY DEF DirectionOf, Count
  <1> HIDE DEF yes, no
  <1>7. CASE DirectionOf(votes) = "INCREASE"
    <2>1. yes # {}
      BY <1>3, <1>4, <1>6, <1>7
    <2> QED
      BY <1>1, <1>7, <2>1 DEF yes
  <1>8. CASE DirectionOf(votes) # "INCREASE"
    <2>1. no # {}
      BY <1>3, <1>4, <1>5, <1>6, <1>8
    <2> QED
      BY <1>1, <1>8, <2>1 DEF no
  <1> QED
    BY <1>7, <1>8

\* The rate that SetRateChangeDirection keeps is one step from the central rate, on the
\* side of the direction.
LEMMA LatestIsAround ==
  ASSUME VInv, mode = "PROBING", Len(useful) >= 2 * Groups,
         NEW votes \in [1 .. Groups -> BOOLEAN]
  PROVE  Around(LatestRateOf(votes, DirectionOf(votes)), ProbingStep(DirectionOf(votes)))
  <1> DEFINE d == DirectionOf(votes)
             agree == {i \in DOMAIN votes : votes[i] <=> d = "INCREASE"}
             last == CHOOSE i \in agree : \A j \in agree : j <= i
             a == useful[2 * last - 1]
             b == useful[2 * last]
  <1>1. Groups \in Nat /\ Groups >= 1 /\ DOMAIN votes = 1 .. Groups
    BY GroupsPositive
  <1>2. agree # {} /\ agree \subseteq 1 .. Groups
    BY <1>1, SomeAgree
  <1>3. \E i \in agree : \A j \in agree : j <= i
    BY <1>1, <1>2, Greatest
  <1>4. last \in agree
    BY <1>3
  <1>5. LatestRateOf(votes, d) = IF d = "INCREASE" THEN Higher(a, b) ELSE Lower(a, b)
    BY <1>2 DEF LatestRateOf
  <1>6. d = "INCREASE" \/ d = "DECREASE"
    BY DEF DirectionOf
  <1> HIDE DEF d, agree, last, a, b
  <1>7. last \in 1 .. Len(useful) \div 2
    <2>1. Len(useful) \in Nat
      BY DEF VInv, VTypes
    <2> QED
      BY <1>1, <1>2, <1>4, <2>1
  <1>8. Opposite(a, b)
    BY <1>7 DEF VInv, ProbingInv, a, b
  <1>9. central \in Nat /\ 2 * central >= MinSendingRate
    BY DEF VInv, VTypes, ProbingInv
  <1>10. /\ Scaled(central, 95) \in Nat /\ Scaled(central + 1, 95) \in Nat
         /\ Scaled(central, 105) \in Nat /\ Scaled(central + 1, 105) \in Nat
         /\ Scaled(central, 95) <= Scaled(central + 1, 95)
         /\ Scaled(central, 105) <= Scaled(central + 1, 105)
         /\ Scaled(central + 1, 95) < Scaled(central, 105)
    BY <1>9, StepsApart
  <1>11. Around(Higher(a, b), 105) /\ Around(Lower(a, b), 95)
    BY <1>8, <1>10 DEF Opposite, Around, Higher, Lower
  <1> QED
    BY <1>5, <1>6, <1>11 DEF ProbingStep, d

\* The rates of the first group differ.
LEMMA FirstGroupDiffers ==
  ASSUME VInv, mode = "PROBING", Len(useful) >= 2 * Groups
  PROVE  useful[1] # useful[2]
  <1>1. 1 \in 1 .. Len(useful) \div 2
    <2>1. Len(useful) \in Nat /\ Groups \in Nat /\ Groups >= 1
      BY GroupsPositive DEF VInv, VTypes
    <2> QED
      BY <2>1
  <1>2. Opposite(useful[2 * 1 - 1], useful[2 * 1])
    BY <1>1 DEF VInv, ProbingInv
  <1>3. Opposite(useful[1], useful[2])
    BY <1>2
  <1>4. central \in Nat /\ 2 * central >= MinSendingRate
    BY DEF VInv, VTypes, ProbingInv
  <1> QED
    <2>1. /\ Scaled(central, 95) \in Nat /\ Scaled(central + 1, 95) \in Nat
          /\ Scaled(central, 105) \in Nat /\ Scaled(central + 1, 105) \in Nat
          /\ Scaled(central, 95) <= Scaled(central + 1, 95)
          /\ Scaled(central, 105) <= Scaled(central + 1, 105)
          /\ Scaled(central + 1, 95) < Scaled(central, 105)
      BY <1>4, StepsApart
    <2> QED
      BY <1>3, <2>1 DEF Opposite, Around

\* EnterDecisionMade has chosen a rate and a mode.
LEMMA Decided ==
  ASSUME VTypes', useful' = << >>, tail' # "useful", haveRtt' = TRUE,
         mode' \in {"STARTING", "DECISION_MADE"},
         rate' >= MinSendingRate, limited' = FALSE => zeroDelta' = FALSE,
         mode' = "DECISION_MADE" /\ limited' = FALSE =>
           IF direction' = "INCREASE" THEN rate' > latestRate' ELSE rate' < latestRate'
  PROVE  VInv'
  BY DEF VInv, Sampled, ProbingInv, DecidedInv, Floors

\* OnUtilityAvailable while PROBING.
LEMMA DecideProbingInv ==
  ASSUME VInv, NEW votes \in [1 .. Groups -> BOOLEAN], NEW raw \in RawChanges,
         DecideProbing(votes, raw)
  PROVE  VInv'
  <1> DEFINE d == DirectionOf(votes)
             r == Scaled(rate, ProbingStep(d))
             out == EnterDecisionMade(r, d, raw, 0)
             restart == out.mode = "DECISION_MADE" /\ out.rate <= MinSendingRate
  <1>1. /\ mode = "PROBING" /\ Deciding /\ Flush /\ Len(useful) >= 2 * Groups
        /\ direction' = d /\ latestRate' = LatestRateOf(votes, d)
        /\ zeroDelta' = (zeroDelta \/ useful[1] = useful[2])
        /\ limited' = (limited \/ tail = "useful")
        /\ rate' = out.rate
        /\ allowance' = IF restart THEN 0 ELSE out.allowance
        /\ mode' = IF restart THEN "STARTING" ELSE out.mode
        /\ central' = out.rate
    BY DEF DecideProbing, CanMakeDecision
  <1>2. /\ useful # << >> /\ haveRtt' = TRUE
        /\ useful' = << >> /\ useful' \in Seq(Nat)
        /\ tail' \in {"none", "useful", "other"} /\ tail' # "useful"
    BY <1>1, FlushFacts
  <1>3. d \in {"INCREASE", "DECREASE"} /\ rate \in Nat /\ raw \in Nat /\ central \in Nat
        /\ 2 * central >= MinSendingRate
    BY <1>1 DEF DirectionOf, VInv, VTypes, ProbingInv
  <1>4. r \in Nat
    <2>1. \A p \in {95, 105} : Scaled(rate, p) \in Nat
      BY <1>3, ScaledNat
    <2>2. ProbingStep(d) \in {95, 105}
      BY StepPercent
    <2> QED
      BY <2>1, <2>2, Zenon
  <1>5. /\ out.rate \in Nat /\ out.allowance \in Nat /\ out.rate >= MinSendingRate
        /\ out.mode = "PROBING" \/ out.mode = "DECISION_MADE"
        /\ out.mode = "DECISION_MADE" =>
             IF d = "INCREASE" THEN out.rate >= r + MinRateChange
             ELSE out.rate <= r - MinRateChange
    <2>1. DecisionOk(out, r, d)
      BY <1>3, <1>4, DecisionMadeFacts
    <2> QED
      BY <2>1 DEF DecisionOk
  <1>6. Around(latestRate', ProbingStep(d))
    BY <1>1, LatestIsAround
  <1>7. /\ Scaled(central, 95) \in Nat /\ Scaled(central + 1, 95) \in Nat
        /\ Scaled(central, 105) \in Nat /\ Scaled(central + 1, 105) \in Nat
        /\ Scaled(central, 95) <= Scaled(central + 1, 95)
        /\ Scaled(central + 1, 95) <= Scaled(central, 95) + 2
        /\ Scaled(central, 105) <= Scaled(central + 1, 105)
        /\ Scaled(central + 1, 105) <= Scaled(central, 105) + 2
    BY <1>3, StepsApart
  <1>8. ProbingStep(d) = IF d = "INCREASE" THEN 105 ELSE 95
    BY DEF ProbingStep
  <1>9. latestRate' \in Nat
    BY <1>6, <1>7, <1>8 DEF Around
  <1>10. useful[1] # useful[2]
    BY <1>1, FirstGroupDiffers
  <1>11. zeroDelta' \in BOOLEAN /\ limited' \in BOOLEAN
    BY <1>1, Zenon
  <1>12. limited' = FALSE => tail # "useful" /\ zeroDelta' = FALSE
    BY <1>1, <1>10, Zenon DEF VInv, VTypes, Floors
  <1>13. limited' = FALSE => Around(r, ProbingStep(d))
    BY <1>1, <1>12 DEF VInv, ProbingInv, BaseRate, Around
  <1> HIDE DEF d, r, out
  <1>14. mode' \in SenderModes /\ rate' \in Nat /\ central' \in Nat /\ allowance' \in Nat
    BY <1>1, <1>5 DEF SenderModes
  <1>15. VTypes'
    BY <1>1, <1>2, <1>3, <1>9, <1>11, <1>14 DEF VTypes
  <1>16. CASE mode' = "PROBING"
    <2>1. central' \in Nat /\ rate' = central' /\ 2 * central' >= MinSendingRate
      BY <1>1, <1>5
    <2> QED
      BY <1>2, <1>12, <1>15, <1>16, <2>1, ProbingEntered
  <1>17. CASE mode' # "PROBING"
    <2>1. mode' \in {"STARTING", "DECISION_MADE"} /\ (mode' = "DECISION_MADE" => out.mode = "DECISION_MADE")
      BY <1>1, <1>5, <1>17
    <2>2. limited' = FALSE => r - latestRate' <= 2 /\ latestRate' - r <= 2
      BY <1>6, <1>7, <1>8, <1>13 DEF Around
    <2>3. mode' = "DECISION_MADE" /\ limited' = FALSE =>
            IF direction' = "INCREASE" THEN rate' > latestRate' ELSE rate' < latestRate'
      BY <1>1, <1>4, <1>5, <1>9, <2>1, <2>2
    <2> QED
      BY <1>1, <1>2, <1>5, <1>12, <1>15, <2>1, <2>3, Decided
  <1> QED
    BY <1>16, <1>17

\* A decision that keeps moving in the same direction.
LEMMA KeepDirectionInv ==
  ASSUME VInv, NEW cmp, NEW raw \in RawChanges, KeepDirection(cmp, raw)
  PROVE  VInv'
  <1> DEFINE out == EnterDecisionMade(rate, direction, raw, allowance)
  <1>1. /\ mode = "DECISION_MADE" /\ Deciding /\ Flush
        /\ zeroDelta' = (zeroDelta \/ useful[1] = latestRate)
        /\ rate' = out.rate /\ mode' = out.mode /\ allowance' = out.allowance
        /\ latestRate' = useful[1] /\ central' = out.rate
        /\ UNCHANGED <<direction, limited>>
    BY DEF KeepDirection
  <1>2. /\ useful # << >> /\ haveRtt' = TRUE
        /\ useful' = << >> /\ useful' \in Seq(Nat)
        /\ tail' \in {"none", "useful", "other"} /\ tail' # "useful"
    BY <1>1, FlushFacts
  <1>3. /\ direction \in {"INCREASE", "DECREASE"} /\ rate \in Nat /\ raw \in Nat
        /\ allowance \in Nat /\ latestRate \in Nat /\ limited \in BOOLEAN
    BY DEF VInv, VTypes
  <1>4. /\ out.rate \in Nat /\ out.allowance \in Nat /\ out.rate >= MinSendingRate
        /\ out.mode = "PROBING" \/ out.mode = "DECISION_MADE"
        /\ out.mode = "DECISION_MADE" =>
             IF direction = "INCREASE" THEN out.rate >= rate + MinRateChange
             ELSE out.rate <= rate - MinRateChange
    <2>1. DecisionOk(out, rate, direction)
      BY <1>3, DecisionMadeFacts
    <2> QED
      BY <2>1 DEF DecisionOk
  <1>5. useful[1] = rate
    BY <1>1, <1>2 DEF VInv, DecidedInv
  <1>6. limited = FALSE => rate # latestRate /\ zeroDelta = FALSE
    BY <1>1, <1>3 DEF VInv, DecidedInv, Floors
  <1>7. zeroDelta' \in BOOLEAN
    BY <1>1, Zenon
  <1>8. limited' = FALSE => zeroDelta' = FALSE
    BY <1>1, <1>5, <1>6, Zenon
  <1> HIDE DEF out
  <1>9. VTypes'
    BY <1>1, <1>2, <1>3, <1>4, <1>5, <1>7 DEF VTypes, SenderModes
  <1>10. CASE mode' = "PROBING"
    <2>1. central' \in Nat /\ rate' = central' /\ 2 * central' >= MinSendingRate
      BY <1>1, <1>4
    <2> QED
      BY <1>2, <1>8, <1>9, <1>10, <2>1, ProbingEntered
  <1>11. CASE mode' = "DECISION_MADE"
    <2>1. IF direction' = "INCREASE" THEN rate' > latestRate' ELSE rate' < latestRate'
      BY <1>1, <1>3, <1>4, <1>5, <1>11
    <2> QED
      BY <1>1, <1>2, <1>4, <1>8, <1>9, <1>11, <2>1, Decided
  <1> QED
    BY <1>1, <1>4, <1>10, <1>11

\* A decision that turns to PROBING.
LEMMA EnterProbingInv ==
  ASSUME VInv, NEW cmp, NEW raw \in RawChanges, EnterProbing(cmp, raw)
  PROVE  VInv'
  <1> DEFINE change == RateChange(raw, rate, allowance)
             new == Changed(rate, change, Reversed(direction))
             r == Higher(new, MinSendingRate)
             after == AllowanceAfter(raw, rate, allowance)
  <1>1. /\ mode = "DECISION_MADE" /\ Deciding /\ Flush
        /\ zeroDelta' = (zeroDelta \/ useful[1] = latestRate)
        /\ mode' = "PROBING" /\ rate' = r /\ central' = r
        /\ allowance' = IF new < MinSendingRate THEN 0 ELSE after
        /\ UNCHANGED <<direction, latestRate, limited>>
    BY DEF EnterProbing
  <1>2. /\ useful # << >> /\ haveRtt' = TRUE
        /\ useful' = << >> /\ useful' \in Seq(Nat)
        /\ tail' \in {"none", "useful", "other"} /\ tail' # "useful"
    BY <1>1, FlushFacts
  <1>3. /\ direction \in {"INCREASE", "DECREASE"} /\ rate \in Nat /\ raw \in Nat
        /\ allowance \in Nat /\ latestRate \in Nat /\ limited \in BOOLEAN
    BY DEF VInv, VTypes
  <1>4. change \in Nat /\ after \in Nat
    BY <1>3, RateChangeFacts
  <1> HIDE DEF change, after
  <1>5. new \in Nat
    BY <1>3, <1>4 DEF Changed, Higher
  <1> HIDE DEF new
  <1>6. r \in Nat /\ r >= MinSendingRate
    BY <1>5 DEF Higher
  <1> HIDE DEF r
  <1>7. useful[1] = rate
    BY <1>1, <1>2 DEF VInv, DecidedInv
  <1>8. limited = FALSE => rate # latestRate /\ zeroDelta = FALSE
    BY <1>1, <1>3 DEF VInv, DecidedInv, Floors
  <1>9. zeroDelta' \in BOOLEAN
    BY <1>1, Zenon
  <1>10. limited' = FALSE => zeroDelta' = FALSE
    BY <1>1, <1>7, <1>8, Zenon
  <1>11. VTypes'
    BY <1>1, <1>2, <1>3, <1>4, <1>6, <1>9 DEF VTypes, SenderModes
  <1>12. mode' = "PROBING" /\ central' \in Nat /\ rate' = central' /\ 2 * central' >= MinSendingRate
    BY <1>1, <1>6
  <1> QED
    BY <1>2, <1>10, <1>11, <1>12, ProbingEntered

-----------------------------------------------------------------------------
(* The theorems. *)

\* The invariant holds in every behaviour.
LEMMA VInvHolds == VSpec => []VInv
  <1>1. VInv /\ [VNext]_vvars => VInv'
    <2> SUFFICES ASSUME VInv, [VNext]_vvars PROVE VInv'
      OBVIOUS
    <2>1. ASSUME NEW gain \in RttGains, FirstRtt(gain) PROVE VInv'
      BY <2>1, FirstRttInv
    <2>2. CASE StartInterval
      BY <2>2, StartIntervalInv
    <2>3. CASE RttInflation
      BY <2>3, RttInflationInv
    <2>4. ASSUME NEW better \in BOOLEAN, DecideStarting(better) PROVE VInv'
      BY <2>4, DecideStartingInv
    <2>5. ASSUME NEW votes \in [1 .. Groups -> BOOLEAN], StayProbing(votes) PROVE VInv'
      BY <2>5, StayProbingInv
    <2>6. ASSUME NEW votes \in [1 .. Groups -> BOOLEAN], NEW raw \in RawChanges,
                 DecideProbing(votes, raw)
          PROVE  VInv'
      BY <2>6, DecideProbingInv
    <2>7. ASSUME NEW cmp \in {-1, 0, 1}, NEW raw \in RawChanges, KeepDirection(cmp, raw)
          PROVE  VInv'
      BY <2>7, KeepDirectionInv
    <2>8. ASSUME NEW cmp \in {-1, 0, 1}, NEW raw \in RawChanges, EnterProbing(cmp, raw)
          PROVE  VInv'
      BY <2>8, EnterProbingInv
    <2>9. CASE UNCHANGED vvars
      BY <2>9 DEF vvars, queueVars, histVars, VInv, VTypes, Sampled, ProbingInv, DecidedInv,
                  Floors, Groups, BaseRate, StepTaken, Opposite, Around
    <2> QED
      BY <2>1, <2>2, <2>3, <2>4, <2>5, <2>6, <2>7, <2>8, <2>9 DEF VNext
  <1> QED
    BY <1>1, VInitInv, PTL DEF VSpec

\* However many rounds of PROBING bring no decision, and wherever a round is cut short:
\* MaybeSetSendingRate and EnterProbing keep the rate within two units of the rate with
\* which PROBING was entered, or of one step from it.
THEOREM CentralRateStays == VSpec => []CentralRateKept
  <1>1. VInv => CentralRateKept
    <2> SUFFICES ASSUME VInv, mode = "PROBING" PROVE CentralRateKept
      BY DEF CentralRateKept
    <2>1. central \in Nat /\ 2 * central >= MinSendingRate /\ rate \in Nat
      BY DEF VInv, VTypes, ProbingInv
    <2>2. CASE tail # "useful"
      <3>1. BaseRate(rate)
        BY <2>2 DEF VInv, ProbingInv
      <3> QED
        BY <2>1, <2>2, <3>1 DEF BaseRate, CentralRateKept, Near, Rounding
    <2>3. CASE tail = "useful"
      <3>1. PICK b \in Nat : BaseRate(b) /\ rate = Scaled(b, ProbingStep(direction))
        BY <2>3 DEF VInv, ProbingInv, StepTaken
      <3>2. Around(rate, ProbingStep(direction))
        BY <3>1 DEF BaseRate, Around
      <3>3. ProbingStep(direction) \in {95, 105}
        BY DEF ProbingStep
      <3>4. Near(rate, Scaled(central, ProbingStep(direction)))
        BY <2>1, <3>2, <3>3, StepsApart DEF Around, Near, Rounding
      <3> QED
        BY <2>3, <3>4 DEF CentralRateKept
    <2> QED
      BY <2>2, <2>3
  <1> QED
    BY <1>1, VInvHolds, PTL

\* Each group of two probing intervals was sent at the two rates around the central one,
\* in either order, so that its utilities can vote.
THEOREM GroupsStayComparable == VSpec => []GroupsComparable
  <1>1. VInv => GroupsComparable
    <2> SUFFICES ASSUME VInv, mode = "PROBING", NEW i \in 1 .. Len(useful) \div 2
                 PROVE  \/ /\ Near(useful[2*i - 1], Scaled(central, 105))
                           /\ Near(useful[2*i], Scaled(central, 95))
                        \/ /\ Near(useful[2*i - 1], Scaled(central, 95))
                           /\ Near(useful[2*i], Scaled(central, 105))
      BY DEF GroupsComparable
    <2>1. central \in Nat /\ 2 * central >= MinSendingRate
      BY DEF VInv, VTypes, ProbingInv
    <2>2. Opposite(useful[2 * i - 1], useful[2 * i])
      BY DEF VInv, ProbingInv
    <2>3. \A x : /\ Around(x, 95) => Near(x, Scaled(central, 95))
                 /\ Around(x, 105) => Near(x, Scaled(central, 105))
      <3>1. /\ Scaled(central, 95) \in Nat /\ Scaled(central + 1, 95) \in Nat
            /\ Scaled(central, 105) \in Nat /\ Scaled(central + 1, 105) \in Nat
            /\ Scaled(central, 95) <= Scaled(central + 1, 95)
            /\ Scaled(central + 1, 95) <= Scaled(central, 95) + 2
            /\ Scaled(central, 105) <= Scaled(central + 1, 105)
            /\ Scaled(central + 1, 105) <= Scaled(central, 105) + 2
        BY <2>1, StepsApart
      <3> QED
        BY <3>1 DEF Around, Near, Rounding
    <2> QED
      BY <2>2, <2>3 DEF Opposite
  <1> QED
    BY <1>1, VInvHolds, PTL

\* The rate GetSendingInterval divides by never collapses, and the two rates whose
\* difference ComputeRateChange divides by differ unless a decision was made early.
THEOREM RateNeverCollapses == VSpec => []RateFloor
  <1>1. VInv => RateFloor
    <2> SUFFICES ASSUME VInv PROVE RateFloor
      OBVIOUS
    <2>1. rate \in Nat /\ central \in Nat /\ limited \in BOOLEAN
      BY DEF VInv, VTypes
    <2>2. mode # "PROBING" => rate >= MinSendingRate
      BY DEF VInv, Floors
    <2>3. zeroDelta => limited
      BY <2>1 DEF VInv, Floors
    <2>4. ASSUME mode = "PROBING" PROVE 5 * rate >= 2 * MinSendingRate
      <3>1. 2 * central >= MinSendingRate
        BY <2>4 DEF VInv, ProbingInv
      <3>2. CASE tail # "useful"
        BY <2>1, <2>4, <3>1, <3>2 DEF VInv, ProbingInv, BaseRate
      <3>3. CASE tail = "useful"
        <4>1. Around(rate, ProbingStep(direction))
          BY <2>4, <3>3 DEF VInv, ProbingInv, StepTaken, BaseRate, Around
        <4> QED
          BY <2>1, <3>1, <4>1, StepsApart DEF Around, ProbingStep
      <3> QED
        BY <3>2, <3>3
    <2> QED
      BY <2>1, <2>2, <2>3, <2>4 DEF RateFloor
  <1> QED
    BY <1>1, VInvHolds, PTL

\* OnUtilityAvailable changes the mode only as PccModes allows; every other handler
\* leaves it alone.
THEOREM ModeChangesAllowed == VSpec => ModesRefined
  <1>1. VInv /\ [VNext]_vvars => [mode' \in NextModes(mode)]_vvars
    <2> SUFFICES ASSUME VInv, VNext PROVE mode' \in NextModes(mode)
      OBVIOUS
    <2>0. mode \in SenderModes
      BY DEF VInv, VTypes
    <2> USE DEF NextModes, SenderModes
    <2>1. ASSUME NEW gain \in RttGains, FirstRtt(gain) PROVE mode' \in NextModes(mode)
      BY <2>0, <2>1 DEF FirstRtt
    <2>2. CASE StartInterval
      BY <2>0, <2>2 DEF StartInterval
    <2>3. CASE RttInflation
      BY <2>3 DEF RttInflation, LeaveStarting
    <2>4. ASSUME NEW better \in BOOLEAN, DecideStarting(better) PROVE mode' \in NextModes(mode)
      BY <2>4 DEF DecideStarting, LeaveStarting
    <2>5. ASSUME NEW votes \in [1 .. Groups -> BOOLEAN], StayProbing(votes)
          PROVE  mode' \in NextModes(mode)
      BY <2>5 DEF StayProbing
    <2>6. ASSUME NEW votes \in [1 .. Groups -> BOOLEAN], NEW raw \in RawChanges,
                 DecideProbing(votes, raw)
          PROVE  mode' \in NextModes(mode)
      BY <2>6 DEF DecideProbing, EnterDecisionMade
    <2>7. ASSUME NEW cmp \in {-1, 0, 1}, NEW raw \in RawChanges, KeepDirection(cmp, raw)
          PROVE  mode' \in NextModes(mode)
      BY <2>7 DEF KeepDirection, EnterDecisionMade
    <2>8. ASSUME NEW cmp \in {-1, 0, 1}, NEW raw \in RawChanges, EnterProbing(cmp, raw)
          PROVE  mode' \in NextModes(mode)
      BY <2>8 DEF EnterProbing
    <2> QED
      BY <2>1, <2>2, <2>3, <2>4, <2>5, <2>6, <2>7, <2>8 DEF VNext
  <1> QED
    BY <1>1, VInvHolds, PTL DEF VSpec, ModesRefined
=============================================================================
