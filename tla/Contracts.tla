------------------------------ MODULE Contracts ------------------------------
(***************************************************************************)
(* One contract of the marketplace and the rows that hang off it: its      *)
(* payment milestones (the escrow), the supplier's work submissions, its   *)
(* disputes, the copy of its status in the RFQ, the invoices and the       *)
(* refund rows it produces.  The handlers are those of ContractService,    *)
(* PaymentService and the contract and dispute actions of AdminService.    *)
(*                                                                         *)
(* Every handler runs in the transaction get_db opens (src/db/session.py): *)
(* READ COMMITTED, no row locks, autoflush off.  A request therefore       *)
(*   - SELECTs its rows one statement after the other, each statement      *)
(*     seeing what is committed at that moment (the Begin and Read steps); *)
(*   - decides on the objects it loaded, however old they are, assigns     *)
(*     attributes, flushes and commits (one step per handler: the rows it  *)
(*     writes stay locked from the flush to the commit);                   *)
(*   - sends an UPDATE only for the attributes whose value differs from    *)
(*     the loaded one (Flushed);                                           *)
(*   - or ends without effect: an early return, an exception, a violated   *)
(*     unique index, a lost connection (End).                              *)
(***************************************************************************)
EXTENDS Naturals, FiniteSets

CONSTANTS
    Milestones,     \* the milestones of the contract's payment plan
    Submissions,    \* the ids a work submission may get
    Disputes,       \* the ids a dispute may get
    Requests,       \* the requests that may be in flight at the same time
    MaxEntries      \* bound: invoices per milestone, refund rows per dispute

ASSUME ConstantsAssumption ==
    /\ MaxEntries \in Nat \ {0}
    /\ Milestones # {}

VARIABLES
    contract,       \* contracts.status
    milestone,      \* payment_milestones.status, by milestone
    submission,     \* work_submissions.status, by submission id
    dispute,        \* disputes.status, by dispute id
    rfq,            \* rfqs.status of the contract's RFQ
    invoice,        \* number of supplier_invoices rows, by milestone
    refund,         \* number of refund rows in the ledger, by dispute
    paid,           \* history: the milestones fund_milestone ever funded
    req             \* what each request in flight has loaded so far

rows == <<contract, milestone, submission, dispute, rfq, invoice, refund, paid>>
vars == <<contract, milestone, submission, dispute, rfq, invoice, refund, paid, req>>

-----------------------------------------------------------------------------
(***************************************************************************)
(* Statuses.  MilestoneStatus lists the members of PaymentMilestoneStatus  *)
(* that some statement of src/ assigns; in_progress, submitted, approved,  *)
(* overdue and cancelled are declared and never written.  "none" is an id  *)
(* not yet inserted, "unread" an attribute a request has not loaded.       *)
(***************************************************************************)
ContractStatus ==
    {"pending_payment", "active", "delivered", "completed", "cancelled", "disputed"}
MilestoneStatus ==
    {"pending", "awaiting_payment", "funded", "released", "refunded", "disputed"}
SubmissionStatus == {"none", "pending", "accepted", "rejected"}
ActiveDispute    == {"open", "under_review", "appealed"}
DisputeStatus    == {"none", "resolved"} \cup ActiveDispute
RfqStatus        == {"contract_created", "completed", "disputed"}

\* What the decision of a dispute moves, and what a freeze freezes.
MovableFaulty == {"funded", "awaiting_payment", "disputed", "released"}
MovableUnfrozen == {"funded", "awaiting_payment"}
Movable == {"funded", "awaiting_payment", "disputed"}
Freezable == {"funded", "awaiting_payment"}
Settled == {"released", "refunded"}

Idle == [kind       |-> "idle",
         contract   |-> "unread",
         milestone  |-> [m \in Milestones |-> "unread"],
         submission |-> [s \in Submissions |-> "unread"],
         rfq        |-> "unread",
         dispute    |-> [d \in Disputes |-> "unread"]]

LoadedRows ==
    [kind       : {"idle", "contract", "milestone", "dispute"},
     contract   : ContractStatus \cup {"unread"},
     milestone  : [Milestones -> MilestoneStatus \cup {"unread"}],
     submission : [Submissions -> SubmissionStatus \cup {"unread"}],
     rfq        : RfqStatus \cup {"unread"},
     dispute    : [Disputes -> DisputeStatus \cup {"unread"}]]

TypeOK ==
    /\ contract \in ContractStatus
    /\ milestone \in [Milestones -> MilestoneStatus]
    /\ submission \in [Submissions -> SubmissionStatus]
    /\ dispute \in [Disputes -> DisputeStatus]
    /\ rfq \in RfqStatus
    /\ invoice \in [Milestones -> 0..MaxEntries]
    /\ refund \in [Disputes -> 0..MaxEntries]
    /\ paid \subseteq Milestones
    /\ req \in [Requests -> LoadedRows]

\* create_from_proposal has just committed: the trigger of each milestone of
\* the plan decides whether it awaits its payment from the start.
Init ==
    /\ contract = "pending_payment"
    /\ milestone \in [Milestones -> {"pending", "awaiting_payment"}]
    /\ submission = [s \in Submissions |-> "none"]
    /\ dispute = [d \in Disputes |-> "none"]
    /\ rfq = "contract_created"
    /\ invoice = [m \in Milestones |-> 0]
    /\ refund = [d \in Disputes |-> 0]
    /\ paid = {}
    /\ req = [q \in Requests |-> Idle]

-----------------------------------------------------------------------------
(***************************************************************************)
(* The transaction of a request.                                           *)
(***************************************************************************)

\* What the row holds after the flush: an attribute set to the value it was
\* loaded with is not part of the UPDATE.
Flushed(current, loaded, new) == IF new = loaded THEN current ELSE new

\* An UPDATE of the milestones, each from the status it was loaded with.
SetMilestones(q, New(_)) ==
    milestone' = [m \in Milestones |->
        Flushed(milestone[m], req[q].milestone[m], New(req[q].milestone[m]))]

SetContract(q, status) == contract' = Flushed(contract, req[q].contract, status)

MilestonesLoaded(q)  == \A m \in Milestones : req[q].milestone[m] # "unread"
SubmissionsLoaded(q) == \A s \in Submissions : req[q].submission[s] # "unread"
DisputesLoaded(q)    == \A d \in Disputes : req[q].dispute[d] # "unread"

\* A SELECT: the request remembers what it has loaded, no row changes.
Load(q, loaded) ==
    /\ req' = [req EXCEPT ![q] = loaded]
    /\ UNCHANGED rows

Done(q) == req' = [req EXCEPT ![q] = Idle]

\* The first SELECT of the handlers that start from the contract row
\* (ContractService._load, AdminService.apply_contract_action).
BeginContract(q) ==
    /\ req[q].kind = "idle"
    /\ Load(q, [Idle EXCEPT !.kind = "contract", !.contract = contract])

\* The first SELECT of fund_milestone and approve_milestone.
BeginMilestone(q, m) ==
    /\ req[q].kind = "idle"
    /\ Load(q, [Idle EXCEPT !.kind = "milestone", !.milestone[m] = milestone[m]])

\* The first SELECT of apply_dispute_action.
BeginDispute(q, d) ==
    /\ req[q].kind = "idle"
    /\ dispute[d] # "none"
    /\ Load(q, [Idle EXCEPT !.kind = "dispute", !.dispute[d] = dispute[d]])

\* The contract row, for the handlers that start from a milestone or a dispute.
ReadContract(q) ==
    /\ req[q].kind \in {"milestone", "dispute"}
    /\ req[q].contract = "unread"
    /\ Load(q, [req[q] EXCEPT !.contract = contract])

\* selectinload(PaymentPlan.milestones), after the contract row.
ReadMilestones(q) ==
    /\ req[q].kind = "dispute"
    /\ req[q].contract # "unread"
    /\ ~ MilestonesLoaded(q)
    /\ Load(q, [req[q] EXCEPT !.milestone = milestone])

\* The collections of a request that starts from the contract row: _load goes
\* from the milestones to the submissions and the RFQ with no code of the
\* handler in between (the admin actions use the milestones only).
ReadCollections(q) ==
    /\ req[q].kind = "contract"
    /\ ~ MilestonesLoaded(q)
    /\ Load(q, [req[q] EXCEPT !.milestone = milestone,
                              !.submission = submission,
                              !.rfq = rfq])

\* The queries for an active and for a resolved dispute.
ReadDisputes(q) ==
    /\ req[q].kind = "contract"
    /\ MilestonesLoaded(q)
    /\ ~ DisputesLoaded(q)
    /\ Load(q, [req[q] EXCEPT !.dispute = dispute])

\* The request ends without effect: rolled back, or nothing to write.
End(q) ==
    /\ req[q].kind # "idle"
    /\ Done(q)
    /\ UNCHANGED rows

-----------------------------------------------------------------------------
(***************************************************************************)
(* PaymentService.                                                         *)
(***************************************************************************)

\* What the first payment does to the contract.
ActivatedFaulty(status) == status
Activated(status) == IF status = "pending_payment" THEN "active" ELSE status

\* The buyer pays milestone m (also mock_confirm_payment).
FundMilestone(q, m) ==
    /\ req[q].kind = "milestone"
    /\ req[q].contract # "unread"
    /\ req[q].milestone[m] \in {"pending", "awaiting_payment"}
    /\ milestone' = [milestone EXCEPT ![m] = "funded"]
    /\ SetContract(q, Activated(req[q].contract))
    /\ paid' = paid \cup {m}
    /\ Done(q)
    /\ UNCHANGED <<submission, dispute, rfq, invoice, refund>>

\* "Milestone must be funded first", decided on the loaded row.
FundedAsLoadedFaulty(q, m) == req[q].milestone[m] \in {"funded", "awaiting_payment"}
FundedAsLoaded(q, m) == req[q].milestone[m] = "funded"

\* The buyer releases milestone m; the supplier gets an invoice for it.
ApproveMilestone(q, m) ==
    /\ req[q].kind = "milestone"
    /\ req[q].contract # "unread"
    /\ FundedAsLoaded(q, m)
    /\ invoice[m] < MaxEntries
    /\ milestone' = [milestone EXCEPT ![m] = "released"]
    /\ invoice' = [invoice EXCEPT ![m] = @ + 1]
    /\ Done(q)
    /\ UNCHANGED <<contract, submission, dispute, rfq, refund, paid>>

-----------------------------------------------------------------------------
(***************************************************************************)
(* ContractService.  These handlers have run the whole of _load, so the    *)
(* RFQ, the last row it loads, is not "unread".                            *)
(***************************************************************************)

PartyLoaded(q) == req[q].kind = "contract" /\ req[q].rfq # "unread"

\* The supplier delivers; s is the id of the new submission.
SubmitWork(q, s) ==
    /\ PartyLoaded(q)
    /\ req[q].contract \in {"active", "pending_payment"}
    /\ submission[s] = "none"
    /\ submission' = [submission EXCEPT ![s] = "pending"]
    /\ SetContract(q, "delivered")
    /\ Done(q)
    /\ UNCHANGED <<milestone, dispute, rfq, invoice, refund, paid>>

\* What acceptance of the work does to a milestone.
AfterAcceptance(status) ==
    IF status = "funded" THEN "released"
    ELSE IF status = "pending" THEN "awaiting_payment"
    ELSE status

ApproveSubmission(q, s) ==
    /\ PartyLoaded(q)
    /\ req[q].submission[s] \notin {"none", "unread"}
    /\ submission' = [submission EXCEPT ![s] = Flushed(@, req[q].submission[s], "accepted")]
    /\ SetContract(q, "completed")
    /\ rfq' = Flushed(rfq, req[q].rfq, "completed")
    /\ SetMilestones(q, AfterAcceptance)
    /\ Done(q)
    /\ UNCHANGED <<dispute, invoice, refund, paid>>

RejectSubmission(q, s) ==
    /\ PartyLoaded(q)
    /\ req[q].submission[s] \notin {"none", "unread"}
    /\ submission' = [submission EXCEPT ![s] = Flushed(@, req[q].submission[s], "rejected")]
    /\ SetContract(q, "active")
    /\ Done(q)
    /\ UNCHANGED <<milestone, dispute, rfq, invoice, refund, paid>>

\* The partial unique index uq_dispute_active_contract: d may hold an active
\* status only if no other dispute of the contract does.
IndexAllowsActiveFaulty(d) == TRUE
IndexAllowsActive(d) == \A e \in Disputes \ {d} : dispute[e] \notin ActiveDispute

\* INSERT of a dispute with the new id d, by a request that saw none active.
InsertDispute(q, d) ==
    /\ DisputesLoaded(q)
    /\ \A e \in Disputes : req[q].dispute[e] \notin ActiveDispute
    /\ dispute[d] = "none"
    /\ IndexAllowsActive(d)
    /\ dispute' = [dispute EXCEPT ![d] =
           IF \E e \in Disputes : req[q].dispute[e] = "resolved" THEN "appealed" ELSE "open"]

\* Either party opens a dispute.
OpenDispute(q, d) ==
    /\ PartyLoaded(q)
    /\ InsertDispute(q, d)
    /\ SetContract(q, "disputed")
    /\ rfq' = Flushed(rfq, req[q].rfq, "disputed")
    /\ Done(q)
    /\ UNCHANGED <<milestone, submission, invoice, refund, paid>>

-----------------------------------------------------------------------------
(***************************************************************************)
(* AdminService.apply_contract_action.                                     *)
(***************************************************************************)

AdminLoaded(q) == req[q].kind = "contract" /\ MilestonesLoaded(q)

FrozenFaulty(status) == IF status \in Freezable THEN "in_progress" ELSE status
Frozen(status) == IF status \in Freezable THEN "disputed" ELSE status

FreezeContract(q) ==
    /\ AdminLoaded(q)
    /\ SetMilestones(q, Frozen)
    /\ Done(q)
    /\ UNCHANGED <<contract, submission, dispute, rfq, invoice, refund, paid>>

CancelContract(q) ==
    /\ AdminLoaded(q)
    /\ req[q].contract \notin {"completed", "cancelled"}
    /\ SetContract(q, "cancelled")
    /\ Done(q)
    /\ UNCHANGED <<milestone, submission, dispute, rfq, invoice, refund, paid>>

FundedReleasedFaulty(status) == IF status \in {"funded", "disputed"} THEN "released" ELSE status
FundedReleased(status) == IF status = "funded" THEN "released" ELSE status

ForceComplete(q) ==
    /\ AdminLoaded(q)
    /\ req[q].contract # "completed"
    /\ SetContract(q, "completed")
    /\ SetMilestones(q, FundedReleased)
    /\ Done(q)
    /\ UNCHANGED <<submission, dispute, rfq, invoice, refund, paid>>

OpenInvestigation(q, d) ==
    /\ AdminLoaded(q)
    /\ req[q].contract \notin {"completed", "cancelled"}
    /\ InsertDispute(q, d)
    /\ SetContract(q, "disputed")
    /\ Done(q)
    /\ UNCHANGED <<milestone, submission, rfq, invoice, refund, paid>>

-----------------------------------------------------------------------------
(***************************************************************************)
(* AdminService.apply_dispute_action.                                      *)
(***************************************************************************)

\* The guard every action shares: the dispute, as loaded, is not resolved.
DisputeLoadedFaulty(q, d) ==
    /\ req[q].kind = "dispute"
    /\ req[q].dispute[d] # "unread"
    /\ MilestonesLoaded(q)
DisputeLoaded(q, d) ==
    /\ req[q].kind = "dispute"
    /\ req[q].dispute[d] \in ActiveDispute
    /\ MilestonesLoaded(q)

\* A decision resolves the dispute and moves the contract.
DecideFaulty(q, d, status) ==
    /\ dispute' = [dispute EXCEPT ![d] = "resolved"]
    /\ UNCHANGED contract
Decide(q, d, status) ==
    /\ dispute' = [dispute EXCEPT ![d] = "resolved"]
    /\ SetContract(q, status)

RequestEvidence(q, d) ==
    /\ DisputeLoaded(q, d)
    /\ LET after == Flushed(dispute[d], req[q].dispute[d], "under_review")
       IN  /\ after \in ActiveDispute => IndexAllowsActive(d)
           /\ dispute' = [dispute EXCEPT ![d] = after]
    /\ Done(q)
    /\ UNCHANGED <<contract, milestone, submission, rfq, invoice, refund, paid>>

MovedTo(status, target) == IF status \in Movable THEN target ELSE status
AllReleased(status) == MovedTo(status, "released")
AllRefunded(status) == MovedTo(status, "refunded")

ReleaseFunds(q, d) ==
    /\ DisputeLoaded(q, d)
    /\ SetMilestones(q, AllReleased)
    /\ Decide(q, d, "completed")
    /\ Done(q)
    /\ UNCHANGED <<submission, rfq, invoice, refund, paid>>

RecordRefund(d) ==
    /\ refund[d] < MaxEntries
    /\ refund' = [refund EXCEPT ![d] = @ + 1]

\* A ledger row is written when some milestone, moved now or refunded
\* before, makes the refunded sum positive.
RefundBuyer(q, d) ==
    /\ DisputeLoaded(q, d)
    /\ SetMilestones(q, AllRefunded)
    /\ Decide(q, d, "cancelled")
    /\ IF \E m \in Milestones : AllRefunded(req[q].milestone[m]) = "refunded"
       THEN RecordRefund(d)
       ELSE UNCHANGED refund
    /\ Done(q)
    /\ UNCHANGED <<submission, rfq, invoice, paid>>

\* _apply_partial_refund walks the movable milestones in the order the query
\* returned them (it has no ORDER BY) and refunds them until the amount is
\* used up; Refunded is the set it reaches.  The amount is positive and within
\* the pool, so the pool is not empty.
PartialRefund(q, d, Refunded) ==
    LET pool == {m \in Milestones : req[q].milestone[m] \in Movable}
    IN  /\ DisputeLoaded(q, d)
        /\ pool # {}
        /\ Refunded \subseteq pool
        /\ milestone' = [m \in Milestones |->
               IF m \in Refunded THEN "refunded"
               ELSE IF m \in pool THEN "released"
               ELSE milestone[m]]
        /\ Decide(q, d, "completed")
        /\ RecordRefund(d)
        /\ Done(q)
        /\ UNCHANGED <<submission, rfq, invoice, paid>>

CloseCase(q, d) ==
    /\ DisputeLoaded(q, d)
    /\ Decide(q, d, "completed")
    /\ Done(q)
    /\ UNCHANGED <<milestone, submission, rfq, invoice, refund, paid>>

-----------------------------------------------------------------------------
Begin(q) ==
    \/ BeginContract(q)
    \/ \E m \in Milestones : BeginMilestone(q, m)
    \/ \E d \in Disputes : BeginDispute(q, d)

Read(q) ==
    \/ ReadContract(q)
    \/ ReadMilestones(q)
    \/ ReadCollections(q)
    \/ ReadDisputes(q)

PaymentStep(q) == \E m \in Milestones : FundMilestone(q, m) \/ ApproveMilestone(q, m)

SubmissionStep(q) ==
    \E s \in Submissions :
        SubmitWork(q, s) \/ ApproveSubmission(q, s) \/ RejectSubmission(q, s)

ContractActionStep(q) == FreezeContract(q) \/ CancelContract(q) \/ ForceComplete(q)

DisputeStep(q) ==
    \E d \in Disputes :
        \/ OpenDispute(q, d)
        \/ OpenInvestigation(q, d)
        \/ RequestEvidence(q, d)
        \/ ReleaseFunds(q, d)
        \/ RefundBuyer(q, d)
        \/ \E Refunded \in SUBSET Milestones : PartialRefund(q, d, Refunded)
        \/ CloseCase(q, d)

Next ==
    \E q \in Requests :
        \/ Begin(q)
        \/ Read(q)
        \/ PaymentStep(q)
        \/ SubmissionStep(q)
        \/ ContractActionStep(q)
        \/ DisputeStep(q)
        \/ End(q)

Spec == Init /\ [][Next]_vars

-----------------------------------------------------------------------------
(***************************************************************************)
(* Properties that hold however the requests overlap.                      *)
(***************************************************************************)

\* A contract shown as disputed has a dispute an administrator can still
\* decide.  No handler checks it: it rests on the unique index, on each
\* resolution rewriting the contract, and on what a stale resolution leaves
\* alone (open_dispute, apply_contract_action, apply_dispute_action).
DisputedHasActiveDispute ==
    contract = "disputed" => \E d \in Disputes : dispute[d] \in ActiveDispute

\* An appeal is open only against a decision: while a dispute is "appealed"
\* another one of the contract is resolved, and stays so (open_dispute,
\* open_investigation; request_evidence may reopen a decided dispute).
AppealFollowsDecision ==
    \A d \in Disputes :
        dispute[d] = "appealed" => \E e \in Disputes \ {d} : dispute[e] = "resolved"

\* As long as the contract waits for its first payment nothing has been paid,
\* settled, delivered or disputed: fund_milestone, submit_work, the disputes
\* and the admin actions all move the contract on in the transaction that
\* changes the rest.
PendingPaymentIsUntouched ==
    contract = "pending_payment" =>
        /\ \A m \in Milestones : milestone[m] \in {"pending", "awaiting_payment", "disputed"}
        /\ \A s \in Submissions : submission[s] = "none"
        /\ \A d \in Disputes : dispute[d] = "none"
        /\ paid = {}

\* An invoice, with the revenue and commission it records, is only ever issued
\* for a milestone the buyer has paid (approve_milestone).
InvoicedWasPaid ==
    \A m \in Milestones : invoice[m] > 0 => m \in paid

\* A milestone nobody paid is settled by the decision of a dispute and by
\* nothing else: not by the approval of the milestone or of the work, and not
\* by force_complete.
UnpaidSettledOnlyByDecision ==
    [][\A m \in Milestones :
          m \notin paid /\ milestone[m] \notin Settled /\ milestone'[m] \in Settled =>
              \E q \in Requests : req[q].kind = "dispute" /\ req'[q].kind = "idle"]_vars

\* Every request in flight that has read milestone m, and the row itself, hold a
\* status of S: the requests that read it before it came into S have ended.
KnownAs(m, S) ==
    /\ milestone[m] \in S
    /\ \A q \in Requests : req[q].milestone[m] \in S \cup {"unread"}

\* The same of a decided dispute.
KnownDecided(d) ==
    /\ dispute[d] = "resolved"
    /\ \A q \in Requests : req[q].dispute[d] \in {"resolved", "unread"}

\* A milestone in one of these is not waiting for the buyer's payment.
NotDue == {"funded", "disputed"} \cup Settled

\* Overlapping requests can undo a payment, settle a milestone twice or decide a
\* dispute twice, but only those that had read the row before: once they have
\* ended, a milestone that stopped being due is never due again, a settled one is
\* neither moved nor invoiced, and a decided dispute neither reopens nor pays out
\* (the status tests of PaymentService, approve_submission and the actions of
\* AdminService, all made on the loaded status).
KnownOutcomeIsFinal ==
    [][/\ \A m \in Milestones :
             /\ KnownAs(m, NotDue) => KnownAs(m, NotDue)'
             /\ KnownAs(m, Settled) =>
                   /\ KnownAs(m, Settled)'
                   /\ milestone'[m] = milestone[m]
                   /\ invoice'[m] = invoice[m]
       /\ \A d \in Disputes :
             KnownDecided(d) => KnownDecided(d)' /\ refund'[d] = refund[d]]_vars

-----------------------------------------------------------------------------
(***************************************************************************)
(* Properties of the handlers run one request at a time (Requests has one  *)
(* element); the runs with two requests show which of them overlapping     *)
(* requests break.                                                         *)
(***************************************************************************)

\* The supplier is invoiced at most once for a milestone, and what was invoiced
\* as released is not refunded to the buyer as well.
InvoicedStaysReleased ==
    \A m \in Milestones : invoice[m] > 0 => invoice[m] = 1 /\ milestone[m] = "released"

\* A decided dispute stays decided: it is not reopened and does not pay out
\* again ("Dispute is already resolved", apply_dispute_action).
ResolvedIsFinal ==
    [][\A d \in Disputes : dispute[d] = "resolved" =>
          dispute'[d] = "resolved" /\ refund'[d] = refund[d]]_vars

\* A milestone is paid out to the supplier only after the buyer paid it in
\* ("Milestone must be funded first", approve_milestone).
ReleasedWasPaid ==
    \A m \in Milestones : milestone[m] = "released" => m \in paid
=============================================================================
