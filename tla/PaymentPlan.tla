----------------------------- MODULE PaymentPlan -----------------------------
(***************************************************************************)
(* The amounts of a payment plan: _default_milestones and the stage loop   *)
(* of _custom_milestones (src/modules/contracts/service.py).               *)
(*                                                                         *)
(* An amount is a whole number of cents, a percentage a whole number of    *)
(* hundredths of a percent.  round(x, 2) on floats returns the nearest     *)
(* cent; which neighbour a tie goes to depends on the binary               *)
(* representation of x, so both are possible.                              *)
(***************************************************************************)
EXTENDS Integers, Sequences

CONSTANTS
    Amounts,        \* the agreed amounts, in cents
    CustomPlans     \* the percentages a buyer may ask for, stage by stage

\* MilestoneInput.percentage: Field(gt=0, le=100).
Percentage == 1..10000

ASSUME ConstantsAssumption ==
    /\ Amounts \subseteq Nat \ {0}
    /\ \A plan \in CustomPlans : plan \in Seq(Percentage) /\ plan # <<>>

VARIABLES
    payment,        \* "default" or "custom": where the percentages come from
    amount,         \* contract.agreed_amount
    percentage,     \* the percentage of each stage
    index,          \* the stages that have their amount
    allocated,      \* the sum of the amounts of the stages of the loop
    stage,          \* the amount of each stage, 0 until it has one
    taken           \* history: the sum of the percentages behind allocated

vars == <<payment, amount, percentage, index, allocated, stage, taken>>

-----------------------------------------------------------------------------
\* What round() may return for a percentage of an amount: the whole cents
\* within half a cent of the exact share.
Cents(share, of) ==
    LET below == (share * of) \div 10000
    IN  {c \in {below, below + 1} :
            10000 * c - share * of <= 5000 /\ share * of - 10000 * c <= 5000}

\* full_prepayment and full_postpayment, split_payment, milestone.
DefaultPlans == {<<10000>>, <<5000, 5000>>, <<3000, 4000, 3000>>}

\* ProposalAcceptRequest: "Milestone percentages must sum to 100", give or
\* take half a percent.
ValidTotal(total) == total \in 9950..10050

TotalPercentage(plan) ==
    LET sum[n \in 0..Len(plan)] == IF n = 0 THEN 0 ELSE sum[n - 1] + plan[n]
    IN  sum[Len(plan)]

Init ==
    /\ payment \in {"default", "custom"}
    /\ amount \in Amounts
    /\ percentage \in IF payment = "default" THEN DefaultPlans
                      ELSE {plan \in CustomPlans : ValidTotal(TotalPercentage(plan))}
    /\ index = 0
    /\ allocated = 0
    /\ stage = [i \in 1..Len(percentage) |-> 0]
    /\ taken = 0

\* _default_milestones: equal percentages are the same expression, hence the
\* same float and the same cents.
Roundings ==
    LET shares == {percentage[i] : i \in 1..Len(percentage)}
    IN  {rounded \in [shares -> UNION {Cents(share, amount) : share \in shares}] :
            \A share \in shares : rounded[share] \in Cents(share, amount)}

PlanDefault ==
    /\ payment = "default"
    /\ index = 0
    /\ \E rounded \in Roundings :
          stage' = [i \in 1..Len(percentage) |-> rounded[percentage[i]]]
    /\ index' = Len(percentage)
    /\ UNCHANGED <<payment, amount, percentage, allocated, taken>>

\* _custom_milestones: every stage but the last gets its rounded share.
PlanStage ==
    /\ payment = "custom"
    /\ index + 1 < Len(percentage)
    /\ \E c \in Cents(percentage[index + 1], amount) :
          /\ stage' = [stage EXCEPT ![index + 1] = c]
          /\ allocated' = allocated + c
    /\ taken' = taken + percentage[index + 1]
    /\ index' = index + 1
    /\ UNCHANGED <<payment, amount, percentage>>

\* _custom_milestones: the last stage gets what the others left.
LastCentsFaulty(share, of, sum) == Cents(share, of)
LastCents(share, of, sum) == {of - sum}

PlanLastStage ==
    /\ payment = "custom"
    /\ index + 1 = Len(percentage)
    /\ \E c \in LastCents(percentage[index + 1], amount, allocated) :
          stage' = [stage EXCEPT ![index + 1] = c]
    /\ index' = index + 1
    /\ UNCHANGED <<payment, amount, percentage, allocated, taken>>

Next == PlanDefault \/ PlanStage \/ PlanLastStage

Spec == Init /\ [][Next]_vars

-----------------------------------------------------------------------------
TypeOK ==
    /\ payment \in {"default", "custom"}
    /\ amount \in Nat \ {0}
    /\ percentage \in Seq(Percentage)
    /\ index \in 0..Len(percentage)
    /\ allocated \in Nat
    /\ stage \in [1..Len(percentage) -> Int]
    /\ taken \in Nat

Planned == index = Len(percentage)

PlanTotal ==
    LET sum[n \in 0..Len(percentage)] == IF n = 0 THEN 0 ELSE sum[n - 1] + stage[n]
    IN  sum[Len(percentage)]

\* The stages pay the agreed amount: to the cent when the buyer chose them,
\* whatever the rounding of each (_custom_milestones, the branch
\* index == last_index), and up to one cent by default (_default_milestones
\* rounds each stage on its own).
PlanPaysAgreedAmount ==
    Planned => PlanTotal - amount \in IF payment = "custom" THEN {0} ELSE -1..1

\* The rounding the last stage absorbs is at most half a cent for each of the
\* others: it is that close to the percentage they leave (_custom_milestones).
LastStageAbsorbsRounding ==
    payment = "custom" /\ Planned =>
        LET last == Len(percentage)
            drift == 10000 * stage[last] - (10000 - taken) * amount
        IN  drift <= 5000 * (last - 1) /\ -drift <= 5000 * (last - 1)
=============================================================================
