---------------------------- MODULE SupplierFinance ----------------------------
(***************************************************************************)
(* The money of one supplier: what its released milestones earned, the     *)
(* invoices for them, its withdrawals, and the rows of the ledger the      *)
(* finance back office works on.  SupplierFinanceService,                  *)
(* PaymentService.supplier_balance and AdminService.apply_finance_action.  *)
(*                                                                         *)
(* Transactions are those of Contracts: one SELECT after the other, each   *)
(* at READ COMMITTED, then one step that decides on what was loaded,       *)
(* writes and commits.                                                     *)
(***************************************************************************)
EXTENDS Integers, FiniteSets

CONSTANTS
    Withdrawals,    \* the ids a withdrawal may get
    Invoices,       \* the ids an invoice may get
    Amounts,        \* the amounts a supplier may ask for, and earn at a time
    Negligible,     \* those whose commission of 5 % rounds to nothing
    MaxEarned,      \* bound: the sum of the supplier's released milestones
    Requests        \* the requests that may be in flight at the same time

ASSUME ConstantsAssumption ==
    /\ Amounts \subseteq Nat \ {0}
    /\ MaxEarned \in Nat
    /\ Negligible \subseteq Amounts
    /\ IsFiniteSet(Withdrawals)

VARIABLES
    earned,         \* the sum of the supplier's released milestones
    withdrawal,     \* withdrawals.status, by withdrawal
    amount,         \* withdrawals.amount, by withdrawal
    invoice,        \* supplier_invoices.status, by invoice
    ledger,         \* platform_payments.status, by row
    req             \* what each request in flight has loaded so far

vars == <<earned, withdrawal, amount, invoice, ledger, req>>
rows == <<earned, withdrawal, amount, invoice, ledger>>

-----------------------------------------------------------------------------
\* The members of the status enumerations that the handlers write;
\* "processing" and "failed" are tested and never written for a row of these
\* types (retry would need one that failed).  "none" is a row not yet inserted.
WithdrawalStatus == {"none", "pending", "completed", "cancelled"}
InvoiceStatus    == {"none", "paid", "cancelled"}
LedgerStatus     == {"none", "pending", "paid", "refunded"}

\* A row of the ledger: its type, and the document it is about.
Entries == ({"payout"} \X Withdrawals) \cup ({"platform_revenue", "commission"} \X Invoices)
IsPayout(e) == e[1] = "payout"
DocumentOf(e) == IF IsPayout(e) THEN withdrawal[e[2]] ELSE invoice[e[2]]

Unread == -1
NoEntry == <<"none", "none">>

Idle == [kind      |-> "idle",
         earned    |-> Unread,
         withdrawn |-> Unread,
         onhold    |-> Unread,
         entry     |-> NoEntry,
         status    |-> "unread",
         document  |-> "unread"]

\* sum(w.amount for w in ...) over the withdrawals with a status in S.
SumOf(S) ==
    LET chosen == {w \in Withdrawals : withdrawal[w] \in S}
        sum[W \in SUBSET chosen] ==
            IF W = {} THEN 0
            ELSE LET w == CHOOSE w \in W : TRUE IN amount[w] + sum[W \ {w}]
    IN  sum[chosen]

Init ==
    /\ earned = 0
    /\ withdrawal = [w \in Withdrawals |-> "none"]
    /\ amount = [w \in Withdrawals |-> 0]
    /\ invoice = [i \in Invoices |-> "none"]
    /\ ledger = [e \in Entries |-> "none"]
    /\ req = [q \in Requests |-> Idle]

-----------------------------------------------------------------------------
Load(q, loaded) ==
    /\ req' = [req EXCEPT ![q] = loaded]
    /\ UNCHANGED rows

Done(q) == req' = [req EXCEPT ![q] = Idle]

End(q) ==
    /\ req[q].kind # "idle"
    /\ Done(q)
    /\ UNCHANGED rows

\* A milestone of the supplier is released: by acceptance of the work or by an
\* administrator, who issue no invoice.
Earn(a) ==
    /\ earned + a <= MaxEarned
    /\ earned' = earned + a
    /\ UNCHANGED <<withdrawal, amount, invoice, ledger, req>>

\* approve_milestone, by create_invoice_for_milestone: the invoice and what it
\* books, paid from the start.
Booked(i, a) ==
    {<<"platform_revenue", i>>} \cup (IF a \in Negligible THEN {} ELSE {<<"commission", i>>})

EarnInvoiced(i, a) ==
    /\ earned + a <= MaxEarned
    /\ invoice[i] = "none"
    /\ earned' = earned + a
    /\ invoice' = [invoice EXCEPT ![i] = "paid"]
    /\ ledger' = [e \in Entries |-> IF e \in Booked(i, a) THEN "paid" ELSE ledger[e]]
    /\ UNCHANGED <<withdrawal, amount, req>>

-----------------------------------------------------------------------------
(***************************************************************************)
(* A withdrawal.                                                           *)
(***************************************************************************)

\* supplier_balance: the milestones of the supplier's contracts.
BeginWithdrawal(q) ==
    /\ req[q].kind = "idle"
    /\ Load(q, [Idle EXCEPT !.kind = "withdraw", !.earned = earned])

\* supplier_balance: the withdrawals that count as taken.
TakenFaulty == {"pending"}
Taken == {"pending", "completed"}

ReadWithdrawn(q) ==
    /\ req[q].kind = "withdraw"
    /\ req[q].withdrawn = Unread
    /\ Load(q, [req[q] EXCEPT !.withdrawn = SumOf(Taken)])

\* request_withdrawal: the withdrawals not yet paid out, once more.
ReadOnHold(q) ==
    /\ req[q].withdrawn # Unread
    /\ req[q].onhold = Unread
    /\ Load(q, [req[q] EXCEPT !.onhold = SumOf({"pending"})])

\* The balance the supplier is shown, and what it is allowed to withdraw.
Available(q) ==
    IF req[q].earned > req[q].withdrawn THEN req[q].earned - req[q].withdrawn ELSE 0
Withdrawable(q) == Available(q) - req[q].onhold

RequestWithdrawal(q, w, a) ==
    /\ req[q].onhold # Unread
    /\ a <= Withdrawable(q)
    /\ withdrawal[w] = "none"
    /\ withdrawal' = [withdrawal EXCEPT ![w] = "pending"]
    /\ amount' = [amount EXCEPT ![w] = a]
    /\ ledger' = [ledger EXCEPT ![<<"payout", w>>] = "pending"]
    /\ Done(q)
    /\ UNCHANGED <<earned, invoice>>

-----------------------------------------------------------------------------
(***************************************************************************)
(* apply_finance_action on a row e of the ledger.                          *)
(***************************************************************************)

BeginFinance(q, e) ==
    /\ req[q].kind = "idle"
    /\ ledger[e] # "none"
    /\ Load(q, [Idle EXCEPT !.kind = "finance", !.entry = e, !.status = ledger[e]])

\* selectinload of the withdrawal or the invoice, a statement of its own.
ReadDocument(q) ==
    /\ req[q].kind = "finance"
    /\ req[q].document = "unread"
    /\ Load(q, [req[q] EXCEPT !.document = DocumentOf(req[q].entry)])

FinanceLoaded(q) == req[q].kind = "finance" /\ req[q].document # "unread"

\* What payment of the payout does to a withdrawal loaded with a status.
AfterPayment(loaded, current) == IF loaded = "pending" THEN "completed" ELSE current

\* Only a payout is ever pending.
MarkPaid(q, w) ==
    /\ FinanceLoaded(q)
    /\ req[q].entry = <<"payout", w>>
    /\ req[q].status = "pending"
    /\ ledger' = [ledger EXCEPT ![<<"payout", w>>] = "paid"]
    /\ withdrawal' = [withdrawal EXCEPT ![w] = AfterPayment(req[q].document, @)]
    /\ Done(q)
    /\ UNCHANGED <<earned, amount, invoice>>

\* What a refund does to the document of the row, loaded with a status.
AfterRefundFaulty(loaded, current) == IF loaded = "pending" THEN "cancelled" ELSE current
AfterRefund(loaded, current) == IF loaded # "cancelled" THEN "cancelled" ELSE current

Refund(q) ==
    /\ FinanceLoaded(q)
    /\ req[q].status = "paid"
    /\ ledger' = [ledger EXCEPT ![req[q].entry] = "refunded"]
    /\ LET e == req[q].entry
           after == AfterRefund(req[q].document, DocumentOf(e))
       IN  IF IsPayout(e)
           THEN withdrawal' = [withdrawal EXCEPT ![e[2]] = after] /\ UNCHANGED invoice
           ELSE invoice' = [invoice EXCEPT ![e[2]] = after] /\ UNCHANGED withdrawal
    /\ Done(q)
    /\ UNCHANGED <<earned, amount>>

-----------------------------------------------------------------------------
\* The endpoint of the supplier.
SupplierStep(q) ==
    \/ BeginWithdrawal(q)
    \/ ReadWithdrawn(q)
    \/ ReadOnHold(q)
    \/ \E w \in Withdrawals, a \in Amounts : RequestWithdrawal(q, w, a)

\* The endpoint of the finance back office.
FinanceStep(q) ==
    \/ \E e \in Entries : BeginFinance(q, e)
    \/ ReadDocument(q)
    \/ \E w \in Withdrawals : MarkPaid(q, w)
    \/ Refund(q)

Next ==
    \/ \E a \in Amounts : Earn(a) \/ \E i \in Invoices : EarnInvoiced(i, a)
    \/ \E q \in Requests : SupplierStep(q) \/ FinanceStep(q) \/ End(q)

Spec == Init /\ [][Next]_vars

-----------------------------------------------------------------------------
LoadedRows ==
    [kind      : {"idle", "withdraw", "finance"},
     earned    : Nat \cup {Unread},
     withdrawn : Nat \cup {Unread},
     onhold    : Nat \cup {Unread},
     entry     : Entries \cup {NoEntry},
     status    : LedgerStatus \cup {"unread"},
     document  : WithdrawalStatus \cup InvoiceStatus \cup {"unread"}]

TypeOK ==
    /\ earned \in Nat
    /\ withdrawal \in [Withdrawals -> WithdrawalStatus]
    /\ amount \in [Withdrawals -> Nat]
    /\ invoice \in [Invoices -> InvoiceStatus]
    /\ ledger \in [Entries -> LedgerStatus]
    /\ req \in [Requests -> LoadedRows]

\* The supplier never takes out, or has on its way out, more than its released
\* milestones earned ("Insufficient available balance", request_withdrawal).
\* One request at a time; nothing in the database checks it.
NeverOverdrawn == SumOf({"pending", "completed"}) <= earned

\* One request at a time: the ledger and the documents tell the same story.  The
\* row of a payout tells what became of the withdrawal, and an invoice is
\* cancelled exactly when its revenue or its commission was refunded
\* (request_withdrawal, create_invoice_for_milestone, apply_finance_action).
LedgerTellsDocuments ==
    /\ \A w \in Withdrawals :
          /\ ledger[<<"payout", w>>] = "pending"  <=> withdrawal[w] = "pending"
          /\ ledger[<<"payout", w>>] = "paid"     <=> withdrawal[w] = "completed"
          /\ ledger[<<"payout", w>>] = "refunded" <=> withdrawal[w] = "cancelled"
    /\ \A i \in Invoices :
          invoice[i] = "cancelled" <=>
              \E e \in Entries : e[2] = i /\ ~ IsPayout(e) /\ ledger[e] = "refunded"
=============================================================================
