----------------------------- MODULE ContractPages -----------------------------
(***************************************************************************)
(* What the pages of buyer, supplier and administrator make of the rows of *)
(* a contract.  Each page lists statuses of its own; the properties say    *)
(* that together they do not lose or double money (ContractsEscrow says    *)
(* where the money is).                                                    *)
(***************************************************************************)
EXTENDS ContractsEscrow

With(statuses) == {m \in Milestones : milestone[m] \in statuses}
Held == {m \in Milestones : PlaceOf(m) = "held"}

\* _escrow_summary of the contract list and the contract page.
HeldByContract == With({"funded", "awaiting_payment"})
DisputedByContract == With({"disputed"})

\* "escrow_balance" of get_dashboard.
EscrowBalanceFaulty == With({"funded"})
EscrowBalance == With({"funded", "disputed"})

\* payment_history and pending_payments of the buyer, supplier_payment_history
\* and supplier_pending_payouts of the supplier.
History == With({"funded", "released", "refunded"})
SupplierHistory == With({"funded", "released", "refunded"})
PendingPayments == With({"pending", "awaiting_payment"})
PendingPayouts == With({"funded", "released"})

\* One request at a time: money the escrow holds is on every page it belongs to,
\* counted by the dashboard, on the contract's page as held or disputed, in the histories of
\* both sides unless it is frozen, and never on the list of payments the buyer
\* still owes, whatever froze it, accepted the work or reopened the contract in
\* between (get_dashboard, _escrow_summary, payment_history, pending_payments,
\* supplier_payment_history, supplier_pending_payouts).
HeldIsShownAsHeld ==
    /\ Held \subseteq EscrowBalance
    /\ Held \subseteq HeldByContract \cup DisputedByContract
    /\ Held \subseteq (History \cap SupplierHistory \cap PendingPayouts) \cup DisputedByContract
    /\ Held \cap PendingPayments = {}
=============================================================================
