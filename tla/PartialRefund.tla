---------------------------- MODULE PartialRefund ----------------------------
(***************************************************************************)
(* AdminService._apply_partial_refund: how the amount an administrator     *)
(* awards to the buyer is spread over the milestones of a disputed         *)
(* contract (src/modules/admin/service.py).  One step per turn of the      *)
(* loop; amounts are whole cents, for which the loop's 1e-9 is zero.       *)
(* EscrowAmounts says where the amounts of the milestones come from.       *)
(***************************************************************************)
EXTENDS Integers, Sequences

VARIABLES
    amount,         \* the amounts of the milestones, in the query's order
    status,         \* their statuses
    buyer_amount,   \* partial_buyer_amount
    turn,           \* the milestones the loop has passed
    remaining,      \* remaining_refund
    refunded,       \* history: the sum of the milestones refunded by the loop
    released,       \* history: the sum of the milestones released by the loop
    pool            \* history: the sum of the movable milestones at the start

vars == <<amount, status, buyer_amount, turn, remaining, refunded, released, pool>>

-----------------------------------------------------------------------------
\* "movable" stands for funded, awaiting_payment and disputed, "fixed" for the
\* statuses the loop skips.
InitialStatus == {"movable", "fixed"}

PoolOf(statuses) ==
    LET sum[i \in 0..Len(amount)] ==
            IF i = 0 THEN 0
            ELSE sum[i - 1] + IF statuses[i] = "movable" THEN amount[i] ELSE 0
    IN  sum[Len(amount)]

\* apply_dispute_action refuses an amount that is not positive or exceeds the
\* escrow pool.
Awards(total) == 1..total

\* No award yet.
Init ==
    /\ status = <<>>
    /\ pool = 0
    /\ buyer_amount = 0
    /\ turn = 0
    /\ remaining = 0
    /\ refunded = 0
    /\ released = 0

\* The action "partial", with whatever the milestones went through before.
Award ==
    /\ pool = 0
    /\ status' \in [1..Len(amount) -> InitialStatus]
    /\ pool' = PoolOf(status')
    /\ buyer_amount' \in Awards(pool')
    /\ remaining' = buyer_amount'
    /\ UNCHANGED <<amount, turn, refunded, released>>

Current == turn + 1

Movable ==
    /\ pool > 0
    /\ turn < Len(amount)
    /\ status[Current] = "movable"

Move(target, left) ==
    /\ status' = [status EXCEPT ![Current] = target]
    /\ remaining' = left
    /\ refunded' = IF target = "refunded" THEN refunded + amount[Current] ELSE refunded
    /\ released' = IF target = "released" THEN released + amount[Current] ELSE released
    /\ turn' = Current
    /\ UNCHANGED <<amount, buyer_amount, pool>>

Skip ==
    /\ pool > 0
    /\ turn < Len(amount)
    /\ status[Current] = "fixed"
    /\ turn' = Current
    /\ UNCHANGED <<amount, status, buyer_amount, remaining, refunded, released, pool>>

\* Nothing is left to refund: the rest of the pool goes to the supplier.
RestGoesToFaulty == "movable"
RestGoesTo == "released"

ReleaseRest ==
    /\ Movable
    /\ remaining = 0
    /\ Move(RestGoesTo, remaining)

\* The whole milestone fits in what is left to refund.
RefundWhole ==
    /\ Movable
    /\ remaining > 0
    /\ amount[Current] <= remaining
    /\ Move("refunded", remaining - amount[Current])

\* The award ends inside this milestone: it goes to whoever gets half or more.
MostlyRefundedFaulty(left, whole) == left > 0
MostlyRefunded(left, whole) == 2 * left >= whole

\* The rest of the award is dropped once a milestone was split.
AfterSplit(left) == 0

Split ==
    /\ Movable
    /\ remaining > 0
    /\ amount[Current] > remaining
    /\ Move(IF MostlyRefunded(remaining, amount[Current]) THEN "refunded" ELSE "released",
            AfterSplit(remaining))

Next == Award \/ Skip \/ ReleaseRest \/ RefundWhole \/ Split

-----------------------------------------------------------------------------
Done == pool > 0 /\ turn = Len(amount)

TypeOK ==
    /\ status \in Seq({"movable", "fixed", "refunded", "released"})
    /\ buyer_amount \in 0..pool
    /\ turn \in 0..Len(amount)
    /\ remaining \in 0..buyer_amount
    /\ refunded \in Nat
    /\ released \in Nat
    /\ pool \in Nat

\* The loop settles every movable milestone, to the one side or the other, and
\* no money of the pool is lost or made.
PoolIsSettled ==
    Done => /\ \A i \in 1..Len(amount) : status[i] # "movable"
            /\ refunded + released = pool
=============================================================================
