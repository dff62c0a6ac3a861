SPECIFICATION AmountsSpec
CONSTANTS
    Amounts <- SmallAmounts
    CustomPlans <- Plans
    Disputed <- Units
CHECK_DEADLOCK FALSE
INVARIANT PlanPaysAgreedAmount
INVARIANT LastStageAbsorbsRounding
INVARIANT PoolIsSettled
INVARIANT AwardWithinPlannedShare
