----------------------------- MODULE Subscription -----------------------------
(***************************************************************************)
(* The plan of one supplier (SubscriptionService) and what it allows: how  *)
(* many companies the supplier may found, how many catalogue items may be  *)
(* public when another is submitted.  The account has both sides, so that  *)
(* it also founds companies through the buyer route, which has no limit    *)
(* but counts.                                                             *)
(***************************************************************************)
EXTENDS Integers, FiniteSets

CONSTANTS
    PaidPlans,      \* the plans with an amount in SUBSCRIPTION_PLAN_AMOUNTS
    CompanyLimits,  \* COMPANY_LIMITS and CATALOG_LIMITS, Unlimited for None
    CatalogLimits,
    Unlimited,
    MaxCompanies    \* bound on the companies the account founds

Plans == PaidPlans \cup {"none"}

ASSUME PlansAssumption == "none" \notin PaidPlans
ASSUME LimitsAssumption ==
    /\ CompanyLimits \in [Plans -> Nat \cup {Unlimited}]
    /\ CatalogLimits \in [Plans -> Nat \cup {Unlimited}]
ASSUME MaxCompaniesAssumption == MaxCompanies \in Nat

VARIABLES
    plan,       \* supplier_subscriptions.plan
    current,    \* active_until lies in the future
    billed,     \* the plans with a paid row in the ledger
    made,       \* companies founded through the supplier route
    bought      \* companies founded through the buyer route

subscription == <<plan, current, billed, made, bought>>

SubscriptionInit ==
    /\ plan = "none"
    /\ current = FALSE
    /\ billed = {}
    /\ made = 0
    /\ bought = 0

-----------------------------------------------------------------------------
\* _is_active
IsActive == plan # "none" /\ current

EffectivePlan == IF IsActive THEN plan ELSE "none"

BelowFaulty(limit, count) == limit = Unlimited \/ count <= limit
Below(limit, count) == limit = Unlimited \/ count < limit

\* check_company_limit counts every company the user owns.
CompanyLimitAllows == Below(CompanyLimits[EffectivePlan], made + bought)

\* check_catalog_limit counts the items that are public now.
CatalogLimitAllows(public) == Below(CatalogLimits[EffectivePlan], public)

\* activate: the plan and its row in the ledger in one transaction.  A plan
\* that runs is replaced and billed again.
Ledger(p) == {p} \cap PaidPlans
Activate(p) ==
    /\ plan' = p
    /\ current' = TRUE
    /\ billed' = billed \cup Ledger(p)
    /\ UNCHANGED <<made, bought>>

Cancel ==
    /\ plan' = "none"
    /\ current' = FALSE
    /\ UNCHANGED <<billed, made, bought>>

\* Thirty days pass.
Lapse ==
    /\ current
    /\ current' = FALSE
    /\ UNCHANGED <<plan, billed, made, bought>>

\* POST /supplier/companies
FoundAsSupplier ==
    /\ made + bought < MaxCompanies
    /\ CompanyLimitAllows
    /\ made' = made + 1
    /\ UNCHANGED <<plan, current, billed, bought>>

\* POST /buyer/companies
FoundAsBuyer ==
    /\ made + bought < MaxCompanies
    /\ bought' = bought + 1
    /\ UNCHANGED <<plan, current, billed, made>>

SubscriptionStep ==
    \/ \E p \in Plans : Activate(p)
    \/ Cancel
    \/ FoundAsSupplier
    \/ FoundAsBuyer

-----------------------------------------------------------------------------
SubscriptionTypeOK ==
    /\ plan \in Plans
    /\ current \in BOOLEAN
    /\ billed \subseteq PaidPlans
    /\ made \in 0 .. MaxCompanies
    /\ bought \in 0 .. MaxCompanies - made

(***************************************************************************)
(* Whatever plans came, lapsed and were cancelled in between, the supplier *)
(* route founded no more companies than the best plan that was billed      *)
(* allows (check_company_limit).  Companies of the buyer route take their  *)
(* places and never add to them.  One request at a time: two requests that *)
(* overlap count the same companies, and both found one.                   *)
(***************************************************************************)
SupplierCompaniesWithinPlans ==
    \E p \in billed \cup {"none"} :
        CompanyLimits[p] = Unlimited \/ made <= CompanyLimits[p]

=============================================================================
