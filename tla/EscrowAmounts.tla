---------------------------- MODULE EscrowAmounts ----------------------------
(***************************************************************************)
(* The amounts of a contract from its signing to a partial refund: the     *)
(* stages PaymentPlan cuts the agreed amount into are the milestones       *)
(* PartialRefund spreads an award over.                                    *)
(***************************************************************************)
EXTENDS PaymentPlan

CONSTANT
    Disputed        \* bound: the agreed amounts an award is explored for

VARIABLES status, buyer_amount, turn, remaining, refunded, released, pool

refund == <<status, buyer_amount, turn, remaining, refunded, released, pool>>

Refund == INSTANCE PartialRefund WITH amount <- stage

AmountsInit == Init /\ Refund!Init

\* The plan is made in the transaction that signs the contract.
Plan == Next /\ UNCHANGED refund

\* An administrator awards a part of the escrow to the buyer.
RefundStep ==
    /\ index = Len(percentage)
    /\ amount \in Disputed
    /\ Refund!Next
    /\ UNCHANGED <<payment, amount, percentage, index, allocated, taken>>

AmountsNext == Plan \/ RefundStep

AmountsSpec == AmountsInit /\ [][AmountsNext]_<<vars, refund>>

-----------------------------------------------------------------------------
\* Every milestone of the pool is settled, to the one side or the other, and
\* no money of the pool is lost or made (_apply_partial_refund).
PoolIsSettled == Refund!PoolIsSettled

\* Whole milestones cannot always match the award.  The plan decides how far
\* what the buyer gets can be off: by no more than half of its largest stage as
\* agreed, to which the last stage adds the half percent a plan may miss and
\* half a cent of rounding per stage (_custom_milestones,
\* _default_milestones, _apply_partial_refund).
AwardWithinPlannedShare ==
    Refund!Done =>
        \E i \in 1..Len(percentage) :
            \A off \in {refunded - buyer_amount, buyer_amount - refunded} :
                20000 * off <= (percentage[i] + 50) * amount + 5000 * Len(percentage)
=============================================================================
