------------------------------- MODULE Vivace -------------------------------
(***************************************************************************)
(* The rate control of PccVivaceSender (src/pcc/pcc_vivace_sender.cpp) on  *)
(* top of PccSender (src/pcc/pcc_sender.cpp).  Of the monitor intervals it *)
(* keeps the sending rates of the useful ones and whether the interval at  *)
(* the tail is useful; PccSender has the rest of the queue.                *)
(*                                                                         *)
(* A rate is an integer number of units, and multiplication rounds to the  *)
(* nearest unit, as QuicBandwidth does with bits per second.  Utilities    *)
(* are floating-point numbers; here each decision is given the outcomes of *)
(* the comparisons and the rate change that the utility gradient asks for. *)
(* The first event is an acknowledgement, so the RTT it brings is valid.   *)
(***************************************************************************)
EXTENDS PccModes, Sequences, FiniteSets

CONSTANTS InitialRate,       \* the initial congestion window over kInitialRtt
          MinSendingRate,    \* kMinSendingRate
          MinRateChange,     \* kMinRateChange
          PrimaryGroups,     \* kNumIntervalGroupsInProbingPrimary
          ScavengerGroups,   \* kNumIntervalGroupsInProbingScavenger
          UtilityTag,        \* "Hybrid", "Scavenger" or "Primary" for all the others
          HybridRate,        \* the switching rate of the "Hybrid" utility function
          RttGains,          \* kInitialRtt / latest_rtt_ of the first acknowledgement
          RawChanges,        \* rate changes that utility gradients ask for
          MaxDecisions       \* bound: calls of OnUtilityAvailable

ASSUME VivaceAssumption ==
  /\ MinSendingRate \in Nat /\ MinRateChange \in Nat
  /\ MinSendingRate >= 100 /\ MinRateChange >= 100    \* rounding is small against both
  /\ InitialRate \in Nat /\ InitialRate >= MinSendingRate
  /\ PrimaryGroups \in Nat \ {0} /\ ScavengerGroups \in Nat \ {0}
  /\ UtilityTag \in {"Hybrid", "Scavenger", "Primary"}
  /\ HybridRate \in Nat
  /\ RttGains \subseteq Nat \ {0}
  /\ RawChanges \subseteq Nat
  /\ MaxDecisions \in Nat

VARIABLES mode, direction, rounds,   \* mode_, direction_, rounds_
          rate,         \* sending_rate_
          haveRtt,      \* avg_rtt_ is not zero
          scavenger,    \* the effective utility tag is "Scavenger"
          allowance,    \* incremental_rate_change_step_allowance_
          latestRate,   \* latest_utility_info_.sending_rate
          useful,       \* the rates of the useful intervals in the queue
          tail,         \* the last interval: "none", "useful" or "other"
          central,      \* history: the rate with which PROBING was entered
          zeroDelta,    \* history: ComputeRateChange met two equal rates
          limited,      \* history: a decision was made with a useful interval at the tail
          decisions     \* history: the number of decisions

queueVars == <<useful, tail>>
histVars == <<central, zeroDelta, limited, decisions>>
vvars == <<mode, direction, rounds, rate, haveRtt, scavenger, allowance, latestRate,
           queueVars, histVars>>

Scaled(r, percent) == (2 * r * percent + 100) \div 200
Unscaled(r, percent) == (200 * r + percent) \div (2 * percent)
Higher(a, b) == IF a > b THEN a ELSE b
Lower(a, b) == IF a < b THEN a ELSE b

\* 1 + kProbingStepSize or 1 - kProbingStepSize, in percent.
ProbingStep(d) == IF d = "INCREASE" THEN 105 ELSE 95

GroupsOf(s) == IF s THEN ScavengerGroups ELSE PrimaryGroups
Groups == GroupsOf(scavenger)

VInit ==
  /\ mode = "STARTING" /\ direction = "INCREASE" /\ rounds = 1
  /\ rate = InitialRate
  /\ haveRtt = FALSE
  /\ scavenger = (UtilityTag = "Scavenger")
  /\ allowance = 0 /\ latestRate = 0
  /\ useful = << >> /\ tail = "none"
  /\ central = 0 /\ zeroDelta = FALSE /\ limited = FALSE /\ decisions = 0

\* The first acknowledgement: a short RTT lets the sender start faster.
FirstRtt(gain) ==
  /\ ~haveRtt /\ tail # "none"
  /\ haveRtt' = TRUE
  /\ rate' = rate * gain
  /\ UNCHANGED <<mode, direction, rounds, scavenger, allowance, latestRate, queueVars, histVars>>

-----------------------------------------------------------------------------
(* OnPacketSent, when CreateNewInterval is true. *)

Restored == IF tail = "useful" THEN Unscaled(rate, ProbingStep(direction)) ELSE rate

\* Mutant of MaybeSetSendingRate: the central rate is not restored.
MutMaybeSetSendingRate ==
  IF mode # "PROBING" \/ Len(useful) = 2 * Groups
  THEN UNCHANGED <<rate, direction>>
  ELSE /\ direction' \in {"INCREASE", "DECREASE"}
       /\ Len(useful) % 2 = 1 => direction' # direction
       /\ rate' = Scaled(rate, ProbingStep(direction'))

MaybeSetSendingRate ==
  IF mode # "PROBING" \/ (Len(useful) = 2 * Groups /\ tail # "useful")
  THEN UNCHANGED <<rate, direction>>
  ELSE LET base == IF useful = << >> THEN rate ELSE Restored
       IN  IF Len(useful) = 2 * Groups
           THEN rate' = base /\ UNCHANGED direction
           ELSE /\ direction' \in {"INCREASE", "DECREASE"}
                /\ Len(useful) % 2 = 1 => direction' # direction
                /\ rate' = Scaled(base, ProbingStep(direction'))

CreateUsefulInterval == haveRtt /\ Len(useful) < MaxUseful(mode, Groups)

StartInterval ==
  /\ tail = "none" \/ (haveRtt /\ (useful = << >> \/ tail = "useful"))
  /\ MaybeSetSendingRate
  /\ useful' = IF CreateUsefulInterval THEN Append(useful, rate') ELSE useful
  /\ tail' = IF CreateUsefulInterval THEN "useful" ELSE "other"
  /\ UNCHANGED <<mode, rounds, haveRtt, scavenger, allowance, latestRate, histVars>>

-----------------------------------------------------------------------------
(* OnUtilityAvailable. *)

\* The useful intervals leave the queue, and all intervals before them.
Flush == useful' = << >> /\ tail' = IF tail = "useful" THEN "none" ELSE tail

\* The effective tag of "Hybrid" is chosen when PROBING is entered.
ScavengerAt(r) == IF UtilityTag = "Hybrid" THEN Scaled(r, 105) > HybridRate ELSE scavenger

\* PccSender::EnterProbing in STARTING.
LeaveStarting ==
  LET r == Scaled(rate, 50)
  IN  /\ mode' = "PROBING" /\ rounds' = 1
      /\ rate' = r /\ central' = r
      /\ scavenger' = ScavengerAt(r)
      /\ UNCHANGED <<direction, allowance, latestRate>>

Deciding == /\ useful # << >> /\ decisions < MaxDecisions
            /\ decisions' = decisions + 1
            /\ UNCHANGED haveRtt

\* CheckForRttInflation needs an interval at the head that began with a known RTT: the
\* first one of the connection did not, and it leaves with the first decision.
RttInflation ==
  /\ mode = "STARTING" /\ haveRtt /\ tail # "none"
  /\ decisions > 0 /\ decisions < MaxDecisions
  /\ decisions' = decisions + 1
  /\ LeaveStarting
  /\ useful' = << >> /\ tail' = "none"
  /\ UNCHANGED <<haveRtt, zeroDelta, limited>>

\* In STARTING: the utility has grown, or not.
DecideStarting(better) ==
  /\ mode = "STARTING" /\ Deciding /\ Flush
  /\ \/ /\ better
        /\ rate' = 2 * rate /\ latestRate' = useful[1] /\ rounds' = rounds + 1
        /\ UNCHANGED <<mode, direction, scavenger, allowance, central>>
     \/ ~better /\ LeaveStarting
  /\ UNCHANGED <<zeroDelta, limited>>

\* Votes of the groups: the higher rate has the better utility.
Count(votes, v) == Cardinality({i \in DOMAIN votes : votes[i] = v})

\* A decision to increase needs a majority, one to decrease all groups; for a
\* scavenger it is the other way round.
CanMakeDecision(votes) ==
  /\ Len(useful) >= 2 * Groups
  /\ IF scavenger
     THEN Count(votes, FALSE) > Groups \div 2 \/ Count(votes, TRUE) = Groups
     ELSE Count(votes, TRUE) > Groups \div 2 \/ Count(votes, FALSE) = Groups

DirectionOf(votes) ==
  IF Count(votes, TRUE) > Count(votes, FALSE) THEN "INCREASE" ELSE "DECREASE"

\* SetRateChangeDirection keeps the better interval of the last group that voted for
\* the direction.
LatestRateOf(votes, d) ==
  LET agree == {i \in DOMAIN votes : votes[i] <=> d = "INCREASE"}
      last == CHOOSE i \in agree : \A j \in agree : j <= i
      a == useful[2 * last - 1]
      b == useful[2 * last]
  IN  IF agree = {} THEN latestRate ELSE IF d = "INCREASE" THEN Higher(a, b) ELSE Lower(a, b)

\* ComputeRateChange at rate r with the step allowance a: the change asked for is
\* capped, and then at least kMinRateChange.
RateCap(r, a) == Scaled(r, 5 + 5 * a)

RateChange(raw, r, a) == Higher(Lower(raw, RateCap(r, a)), MinRateChange)

AllowanceAfter(raw, r, a) ==
  IF raw > RateCap(r, a) THEN a + 1 ELSE IF a > 0 THEN a - 1 ELSE 0

Changed(r, change, d) == IF d = "INCREASE" THEN r + change ELSE Higher(r - change, 0)

\* Mutant of EnterDecisionMade: below the smallest rate the sender starts all over.
MutEnterDecisionMade(r, d, raw, a) ==
  LET new == Changed(r, RateChange(raw, r, a), d)
  IN  IF new < MinSendingRate
      THEN [mode |-> "STARTING", rate |-> MinSendingRate, allowance |-> 0]
      ELSE [mode |-> "DECISION_MADE", rate |-> new, allowance |-> AllowanceAfter(raw, r, a)]

\* EnterDecisionMade at rate r: below the smallest rate, probing starts again there.
EnterDecisionMade(r, d, raw, a) ==
  LET new == Changed(r, RateChange(raw, r, a), d)
  IN  IF new < MinSendingRate
      THEN [mode |-> "PROBING", rate |-> MinSendingRate, allowance |-> 0]
      ELSE [mode |-> "DECISION_MADE", rate |-> new, allowance |-> AllowanceAfter(raw, r, a)]

\* In PROBING, a decision.
DecideProbing(votes, raw) ==
  LET d == DirectionOf(votes)
      out == EnterDecisionMade(Scaled(rate, ProbingStep(d)), d, raw, 0)
      restart == out.mode = "DECISION_MADE" /\ out.rate <= MinSendingRate
  IN  /\ mode = "PROBING" /\ Deciding /\ Flush
      /\ CanMakeDecision(votes)
      /\ direction' = d
      /\ latestRate' = LatestRateOf(votes, d)
      /\ zeroDelta' = (zeroDelta \/ useful[1] = useful[2])
      /\ limited' = (limited \/ tail = "useful")
      /\ rate' = out.rate
      /\ rounds' = 1
      /\ allowance' = IF restart THEN 0 ELSE out.allowance
      /\ mode' = IF restart THEN "STARTING" ELSE out.mode
      /\ central' = out.rate
      /\ UNCHANGED scavenger

\* Mutant of StayProbing: the central rate is not restored.
MutStayProbing(votes) ==
  /\ mode = "PROBING" /\ Deciding /\ Flush
  /\ ~CanMakeDecision(votes)
  /\ rounds' = rounds + 1
  /\ UNCHANGED <<mode, direction, rate, scavenger, allowance, latestRate, central, zeroDelta,
                 limited>>

\* In PROBING, no decision: another round, or STARTING again from the smallest rate.
StayProbing(votes) ==
  LET restart == Restored <= MinSendingRate
  IN  /\ mode = "PROBING" /\ Deciding /\ Flush
      /\ ~CanMakeDecision(votes)
      /\ rate' = IF restart THEN MinSendingRate ELSE Restored
      /\ rounds' = IF restart THEN 1 ELSE rounds + 1
      /\ allowance' = IF restart THEN 0 ELSE allowance
      /\ mode' = IF restart THEN "STARTING" ELSE "PROBING"
      /\ UNCHANGED <<direction, scavenger, latestRate, central, zeroDelta, limited>>

\* In DECISION_MADE: cmp compares the new utility with the latest one.
Continues(cmp) ==
  LET up == (cmp > 0 /\ useful[1] > latestRate) \/ (cmp < 0 /\ useful[1] < latestRate)
      down == (cmp > 0 /\ useful[1] < latestRate) \/ (cmp < 0 /\ useful[1] > latestRate)
  IN  IF direction = "INCREASE" THEN up ELSE down

\* Mutant of KeepDirection: the sender also falls below the smallest rate.
MutKeepDirection(cmp, raw) ==
  LET new == Changed(rate, RateChange(raw, rate, allowance), direction)
  IN  /\ mode = "DECISION_MADE" /\ Deciding /\ Flush
      /\ Continues(cmp)
      /\ rate' = new /\ central' = new
      /\ allowance' = AllowanceAfter(raw, rate, allowance)
      /\ latestRate' = useful[1]
      /\ rounds' = rounds + 1
      /\ UNCHANGED <<mode, direction, scavenger, zeroDelta, limited>>

KeepDirection(cmp, raw) ==
  LET out == EnterDecisionMade(rate, direction, raw, allowance)
  IN  /\ mode = "DECISION_MADE" /\ Deciding /\ Flush
      /\ Continues(cmp)
      /\ zeroDelta' = (zeroDelta \/ useful[1] = latestRate)
      /\ rate' = out.rate /\ mode' = out.mode /\ allowance' = out.allowance
      /\ rounds' = IF out.mode = "PROBING" THEN 1 ELSE rounds + 1
      /\ latestRate' = useful[1]
      /\ central' = out.rate
      /\ UNCHANGED <<direction, scavenger, limited>>

Reversed(d) == IF d = "INCREASE" THEN "DECREASE" ELSE "INCREASE"

\* PccVivaceSender::EnterProbing: a step back, not below the smallest rate.
EnterProbing(cmp, raw) ==
  LET new == Changed(rate, RateChange(raw, rate, allowance), Reversed(direction))
      r == Higher(new, MinSendingRate)
  IN  /\ mode = "DECISION_MADE" /\ Deciding /\ Flush
      /\ ~Continues(cmp)
      /\ cmp = 0 => raw = 0
      /\ zeroDelta' = (zeroDelta \/ useful[1] = latestRate)
      /\ mode' = "PROBING" /\ rounds' = 1
      /\ rate' = r /\ central' = r
      /\ allowance' = IF new < MinSendingRate THEN 0 ELSE AllowanceAfter(raw, rate, allowance)
      /\ scavenger' = ScavengerAt(r)
      /\ UNCHANGED <<direction, latestRate, limited>>

VNext ==
  \/ \E gain \in RttGains : FirstRtt(gain)
  \/ StartInterval
  \/ RttInflation
  \/ \E better \in BOOLEAN : DecideStarting(better)
  \/ \E votes \in [1 .. Groups -> BOOLEAN] :
       \/ StayProbing(votes)
       \/ \E raw \in RawChanges : DecideProbing(votes, raw)
  \/ \E cmp \in {-1, 0, 1}, raw \in RawChanges :
       KeepDirection(cmp, raw) \/ EnterProbing(cmp, raw)

VSpec == VInit /\ [][VNext]_vvars

-----------------------------------------------------------------------------
(* Properties. *)

\* What rounding may add up to in PROBING, however long it lasts: undoing a step down
\* gives one unit more for some rates, and none for the rate it gives.
Rounding == 2

Near(a, b) == a - b <= Rounding /\ b - a <= Rounding

\* In PROBING the sending rate stays one probing step from the rate with which
\* PROBING was entered, or at it: MaybeSetSendingRate and EnterProbing undo every
\* step, however many rounds bring no decision and wherever a round is cut short.
CentralRateKept ==
  mode = "PROBING" => Near(rate, IF tail = "useful" THEN Scaled(central, ProbingStep(direction))
                                                    ELSE central)

\* The rates of a group of probing intervals are the two different ones around the
\* central rate, so that each group can vote.
GroupsComparable ==
  mode = "PROBING" =>
    \A i \in 1 .. Len(useful) \div 2 :
      \/ Near(useful[2*i - 1], Scaled(central, 105)) /\ Near(useful[2*i], Scaled(central, 95))
      \/ Near(useful[2*i - 1], Scaled(central, 95)) /\ Near(useful[2*i], Scaled(central, 105))

\* The sending rate never collapses: after halving, probing steps and decisions to
\* decrease it is at least 0.4 of kMinSendingRate, and outside PROBING it is at least
\* kMinSendingRate.  GetSendingInterval divides by it.  And the two rates whose
\* difference ComputeRateChange divides by differ, as its assertion says, unless a
\* decision was made from a rate that was not the central one.
RateFloor ==
  /\ 5 * rate >= 2 * MinSendingRate
  /\ mode # "PROBING" => rate >= MinSendingRate
  /\ zeroDelta => limited

\* The mode changes are those PccSender allows OnUtilityAvailable.
ModesRefined == [][mode' \in NextModes(mode)]_vvars
=============================================================================
