# A TLA+ model of the marketplace back end

The repository is a marketplace between buyers and suppliers: a buyer
publishes a request for quotation (RFQ), suppliers send proposals, the buyer
accepts one, a contract with a payment plan is made, the buyer pays milestone by
milestone into an escrow, the supplier delivers, the parties may open disputes
that an administrator decides, and the supplier withdraws what it earned.  It is
a FastAPI application over SQLAlchemy (async) and PostgreSQL, with an optional
Redis and WebSocket notifications.

This directory holds TLA+ modules translated from the code, the TLC
configurations that check them on small instances, and TLAPS proofs that most of
what is checked holds for every instance.  `PROJECT.json` lists the components, the
runs, the source lines behind every definition (`map`), a mutant of the code for
every property (`mutants`), the places where the code does something else than
it says (`findings`), and what is hard to test (`hazards`).

## 1. The system

Paths are relative to `src/src/`.

| component | state | operations | works with |
|---|---|---|---|
| RFQs (`modules/rfqs`) | `rfqs.status`, `visibility`, invitations | create, update, publish, close, invite; administrator: close, hide, delete | proposals read the status; contracts write it |
| Proposals (`modules/proposals`) | `proposals.status`, `price`, chat | submit, update, withdraw, list (marks as viewed), shortlist, reject, accept; administrator: delete | accept writes the RFQ and creates the contract |
| Contracts (`modules/contracts`) | `contracts.status`, work submissions, disputes, chat, files | submit, approve, reject work; open dispute; messages | moves milestones and the RFQ |
| Escrow (`modules/payments`, `modules/admin`) | `payment_milestones.status` and `amount` | plan, fund, approve; administrator: freeze, cancel, force complete, investigate, decide a dispute | issues invoices, ledger rows |
| Supplier finance (`modules/supplier_finance`, `modules/finance`, `modules/admin`) | `withdrawals`, `platform_payments`, invoices | balance, withdraw; administrator: mark paid, refund, retry | sums the released milestones |
| Chat and notifications (`modules/contracts`, `proposals`, `notifications`) | messages with a delivery status; open sockets in memory | send, acknowledge, mark read, connect, disconnect | pushes before the commit |
| Sessions (`modules/auth`, `core/deps/auth.py`, `utils/redis_client.py`) | users, refresh tokens (stateless), blacklist in Redis, memory and a table | register, login, refresh, logout, activate role, rate limit | the other parts trust its user |
| Actors and companies (`modules/actors`, `companies`) | actors (one per user or company and side), companies, members | wizard, update, team, enable a side; administrator: verify, suspend | give every other row its owner |
| Catalogue and subscription (`modules/catalog_items`, `subscription`) | items with a moderation status, reports, plans | create, edit, publish, archive, report; administrator: approve, hide, decide a report | limits read the plan |
| Reviews (`modules/reviews`) | reviews, ratings | create | needs a completed contract |
| Administration (`modules/admin`) | audit log, notes | decisions above; listings that only read | writes rows of every component |
| Startup (`main.py`, `db/schema.py`) | none of its own | create tables, backfill actors, migrate columns | gives the companies of an earlier version their actors |
| Storage (`utils/storage.py`), serializers, migrations | none of their own | | |

`services/` and `schemas/` directly under `src/src/` are an earlier layout that
nothing reachable from `main.py` imports.

### How requests run

`db/session.py` decides what concurrency means here.  `get_db` opens one
transaction per request, commits when the handler returns and rolls back when it
raises.  The isolation level is PostgreSQL's default, READ COMMITTED; no
statement takes a lock (`with_for_update` does not occur); `autoflush` is off
and `expire_on_commit` too.  Hence

* a handler SELECTs its rows one statement after the other, and each statement
  sees what other requests have committed by then;
* it decides on the objects it loaded, however old they are by the time it
  writes;
* an UPDATE names only the attributes whose value differs from the loaded one:
  setting `completed` on an object loaded as `completed` writes nothing, even
  when the row has changed since;
* from the flush to the commit the written rows are locked, so the writes of a
  handler take effect together.

Each module with overlapping requests has that shape: `Begin...` and `Read...` actions load
rows into `req[q]`, the memory of a request `q`; a handler is one step, guarded
by what was *loaded*, that writes, commits and forgets; `Flushed(current,
loaded, new)` is the rule about unchanged attributes; `End` is a request that
ends without effect (early return, exception, violated unique index, lost
connection), which makes every error path and every crash of a request part of
every run.  `Requests` with one element gives the serial behaviours; with two,
all overlaps of two requests.  `Messaging` looks inside the transaction: flush,
row locks, push, commit and rollback are steps there.  `Organisation`,
`Catalogue` (reports apart) and `Sessions` handle one request at a time.

### What is hard, and what would be right

`hazards` in `PROJECT.json` lists, line by line, what a test would hardly reach:
overlapping requests on one contract, proposal, report or withdrawal; long legal
sequences (dispute, decision, appeal, decision, while payments and deliveries go
on); rounding; events pushed before the commit; Redis that comes, goes and
forgets; clients that vanish; starts that fail half-way; lists that change under
the pages.  In short, the components are right when

* settled money stays settled, unpaid money is not paid out, a frozen milestone
  waits for a decision, a decision is taken once, a disputed contract can be
  decided, and every page counts the money the escrow holds (escrow);
* the plan pays what was agreed, a partial refund settles the whole pool and is
  off by half a stage at most (amounts);
* a contract has its proposal, is signed at the price the buyer saw, with a supplier
  that was allowed to offer, and takes its RFQ off the market (sourcing);
* nobody withdraws more than was earned, and the ledger agrees with the
  withdrawals and the invoices (finance);
* what the sockets showed is what is stored, a request does not wait for ever, a
  vanished client goes offline (chat);
* a token logged out is refused, the limit of logins holds over both stores, and
  a patient client is let in (sessions);
* every side has its actor, a disabled side returns by an administrator only, no
  superadmin is blocked, trust was granted (organisation);
* what is on sale was reviewed, a report is decided once, the limits of the plan
  hold (catalogue); a walk through a list misses only what moved (lists).

## 2. Modules

| module | what it models | composed with |
|---|---|---|
| `Contracts` | one contract with its milestones, submissions and disputes | |
| `Escrow` | abstract: what the escrow of a contract promises | |
| `ContractsEscrow` | `Contracts` seen as `Escrow`: the refinement mapping | extends `Contracts`, instantiates `Escrow` |
| `ContractPages` | the pages that sum milestones | extends `ContractsEscrow` |
| `PaymentPlan` | the amounts of a payment plan, stage by stage | |
| `PartialRefund` | the loop that spreads a partial refund | |
| `EscrowAmounts` | a refund over the stages a plan made | extends `PaymentPlan`, instantiates `PartialRefund` |
| `Sourcing` | one RFQ with its invitations, proposals and contracts | |
| `SupplierFinance` | the withdrawals, invoices and ledger of one supplier | |
| `Sockets` | the WebSocket connections of the process | |
| `Messaging` | the messages of a contract, transaction by transaction | extends `Sockets` |
| `RedisClient` | Redis, its outcomes, and the switch to memory | |
| `RateLimit` | `check_rate_limit` over both stores | extends `RedisClient` |
| `Sessions` | login, refresh, logout | extends `RateLimit` |
| `Organisation` | users, roles, companies, teams, actors, restarts | |
| `Subscription` | the plan of a supplier and its limits | |
| `Catalogue` | items, reports, moderation | extends `Subscription` |
| `AdminLists` | a walk through the pages of a list | |
| `ContractsProofs` | theorems about `Contracts`, `ContractsEscrow` and `ContractPages` | extends `ContractPages` |
| `EscrowAmountsProofs` | theorems about `PaymentPlan`, `PartialRefund` and `EscrowAmounts` | extends `EscrowAmounts` |
| `CatalogueProofs` | theorems about `Catalogue` and `AdminLists` | extends both |
| `SourcingProofs`, `SupplierFinanceProofs`, `MessagingProofs`, `SessionsProofs`, `OrganisationProofs` | theorems | each extends its module |

Each `MC...` module extends one of these for TLC with the sets too long for a
`.cfg` and the symmetry.  Actions carry the names of the handlers, and the
`...Step` operators group them as the routers do.

### Contracts, Escrow and the pages

State: `contract`, `milestone`, `submission`, `dispute`, `rfq` are the status
columns; `invoice` and `refund` count the rows the handlers insert; `paid` is a
history variable (which milestones `fund_milestone` ever funded); `req` is the
memory of the requests.  `FundMilestone`, `ApproveMilestone` (payments),
`SubmitWork`, `ApproveSubmission`, `RejectSubmission`, `OpenDispute` (contracts),
`FreezeContract`, `CancelContract`, `ForceComplete`, `OpenInvestigation`
(`apply_contract_action`), `RequestEvidence`, `ReleaseFunds`, `RefundBuyer`,
`PartialRefund`, `CloseCase` (`apply_dispute_action`).  The partial unique index
that allows one active dispute per contract is `IndexAllowsActive`.  Which
milestones a partial refund gives back is left open here (any subset of the
movable ones); the module `PartialRefund` says which.  `rfq` has in this module
only the writers of the contract; those of the RFQ itself are in `Sourcing`, and
nothing here reads it as a guard.  Enumeration members that no statement assigns
are left out, and named where the sets are defined.

`Escrow` knows neither rows nor statuses: the money of a milestone is owed, held,
with the supplier or with the buyer; frozen money moves by the award of a case
only; a case is decided once; an award settles all that is held.
`ContractsEscrow` maps `Contracts` to it: what is unsettled is held once it was
paid, frozen when it is `disputed`; the decided cases are the resolved disputes.
Every handler is then one step of `Escrow`, or none.

### PaymentPlan, PartialRefund and EscrowAmounts

Amounts are whole cents and percentages hundredths of a percent: the columns are
floats, and `round(x, 2)` is modelled by what it promises, a nearest cent, with
both outcomes of a tie since the binary representation decides it.  Equal
percentages round equally, being the same expression.  `PaymentPlan` starts from
any default plan or any custom plan the request validation accepts; one step per
stage; `taken` is a history variable.  `PartialRefund` makes one step per turn of
the loop of `_apply_partial_refund`; `refunded`, `released` and `pool` are
history variables.  `EscrowAmounts` runs the loop over the stages the plan made,
so that what a decision can miss is bounded by the plan and not by an arbitrary
list of amounts.

### Sourcing

State: the status and visibility of the RFQ, `invited`, `proposal` and `price`
by proposal, `discussed` (it has chat messages), `agreed` (the amount of the
contract of a proposal; 0 when there is none) and `shown`, a history variable:
the price at which the buyer last listed the proposal.  `RfqService.create`
stores whatever status the client sends, so `Init` has all of them.  `Publish`
and `Accept` flush twice and commit once; other requests see the second value
only.  `Update` changes no status: a status in the body of the request is stored
as text and the serializer, which asks for its `.value`, fails, so the
transaction rolls back (`End`).  `DeleteDraft` and `DeleteProposal` are refused
by the foreign keys (`Deletable`), `Accept` by the unique index on
`contracts.proposal_id` (`Signable`).  A contract does not keep its RFQ from getting
another one: `Accept` rejects the other proposals, but the buyer may shortlist a
rejected proposal, which has no guard, and accept it; the first contract stays.

### SupplierFinance

State: `earned` (the released milestones), `withdrawal`, `amount`, `invoice` and
`ledger`, the row of a payout or the revenue and commission rows of an invoice.
A milestone earns by `approve_milestone`, with an invoice (`EarnInvoiced`; a
commission that rounds to nothing has no row: `Negligible`), or by the approval
of the work or a decision, without (`Earn`).  `BeginWithdrawal`, `ReadWithdrawn`
and `ReadOnHold` are the three queries of `request_withdrawal` and of
`supplier_balance`, which it calls; `MarkPaid` and `Refund` the finance actions.
`retry` needs a payout that failed, and no statement writes `failed`; it is left
out with that status.

### Sockets and Messaging

`registered` is `NotificationConnectionManager._connections`; a socket is "open"
or "dead" (its client has vanished and the process has not noticed).  `Ping` is
the timeout of the endpoint with the ping that fails; `Broadcast` removes the
sockets it fails to write to.  In `Messaging` a request loads, changes, flushes
row by row (`FlushRow`, in the order of the primary keys, waiting for the lock
of a row another transaction has flushed), pushes (`Push`) and commits; it may
roll back at any point, also after the push; `Restart` forgets the sockets and
rolls everything back.  The first message inserts the conversation, for which
the unique index makes a second transaction wait (`NewConversation`).  `shown` is
a history variable: the status in the last event about a message a connected
user got, unless that event's transaction was rolled back.

### RedisClient, RateLimit and Sessions

A call ends in Redis, in memory, or in both when Redis executed the command and
the answer got lost (`Outcomes`); after a failure the client is discarded.
`RateLimit` has the counter with its expiry in Redis and the list of times in
memory; `lost` counts how often either lost its data.  `Sessions` has
refresh tokens with their expiry, the two blacklists, the truncation of the
remaining lifetime to whole seconds (`Ttl`), and `disturbed`, a history variable:
the tokens logged out for which a store failed since.  Time is in ticks of half a
second (`WholeSecond`).

### Organisation

State: platform role and status of the users, their individual sides, the company
with its team, the actor of each side (absent, on, off) and its trust level,
whether the server takes requests.  `Init` has the database of an earlier version,
with companies and no actors; `Start` backfills them and may fail afterwards;
`Stop` comes at any time.  `SyncCompanyActors` looks for active actors only, so
that a disabled side is refused by the unique index (`IndexAllowsActor`).

### Subscription and Catalogue

One supplier with its plan, companies and items, clients that report them, and the
moderators.  `seller` says whose actor the items belong to, the user's or its
company's, and `blocked` that this user or this company is blocked (`SuspendOwner`):
a blocked user does nothing more, the owner of a blocked company can still change
the plan.  `CheckReport` and `InsertReport` are the two halves of
`create_report`, and two requests may overlap in them.  The item queue
(`apply_catalog_action`) and the report queue (`apply_report_action`) close the
same reports (`Closed`).  `CatalogItemService.update` has no action: it inserts
the new pricing row before it deletes the old one, which the unique index
refuses, so that it always rolls back.

### AdminLists

The nine listings share one shape, a count and a SELECT with an offset in two
statements, and differ in the order and in what they do with a page past the end.
In the view "reported" of the RFQs rows come and go without a change of their own
(`ListReportedRfqs`).
`at` is the column a listing is ordered by, as the time of the last change of each
row: no two rows have the same, and a row that is created or moves gets a new one.
`seen`, `stayed` and `moved` are history variables of one walk.

## 3. Runs

| run | instance | shows |
|---|---|---|
| `contracts_serial` | 2 milestones, 2 submissions, 2 disputes, 1 request | one request at a time, `Contracts` implements `Escrow` (`ImplementsEscrow`); `HeldIsShownAsHeld`, `InvoicedStaysReleased`, `ResolvedIsFinal` |
| `contracts_overlap` | 1 milestone, 2 disputes, 2 requests | under every overlap: `PendingPaymentIsUntouched`, `InvoicedWasPaid`, `DisputedHasActiveDispute`, `AppealFollowsDecision`, `UnpaidSettledOnlyByDecision`, `KnownOutcomeIsFinal` |
| `contracts_unpaid_release` | 2 milestones, 1 submission, 1 dispute, 1 request | finding: `ReleasedWasPaid` fails, a decision releases what nobody paid |
| `escrow_amounts` | small and tie-prone amounts, default and custom plans of up to four stages, every award | `PlanPaysAgreedAmount`, `LastStageAbsorbsRounding`, `PoolIsSettled`, `AwardWithinPlannedShare` |
| `sourcing` | 2 suppliers, 2 proposals each, 2 prices, 1 request, an RFQ created with any status | `SignedRfqIsOffTheMarket`, `OneEntitledProposalEach`, `SignedAtShownPrice` |
| `sourcing_overlap` | 1 supplier, 1 proposal, 2 prices, 2 requests, an RFQ created as `receiving_proposals` | under every overlap: `ContractHasProposal`, `KnownOfferIsFinal` |
| `supplier_finance` | 3 withdrawals, 2 invoices, amounts 1 and 2, earned up to 4, 1 request | `NeverOverdrawn`, `LedgerTellsDocuments` |
| `messaging` | a buyer who sends and listens, a supplier, 2 messages, 2 requests | `EventsTellTheStore`, `ReadIsLostToStaleAcknowledgement`; liveness: `EveryRequestEnds`, `VanishedGoesOffline` |
| `sessions` | 2 tokens, limit 1, window 3, lifetime 4, time up to 5, one loss of data | `AtMostTwiceTheLimit`, `PatientIsLetIn`, `LoggedOutIsRefused` |
| `organisation` | 2 users of any role, 1 company, new or of the earlier version | `EverySideHasItsActor`, `SuperadminIsNotBlocked`, `VerifiedTrustWasGranted`, `DisabledSideReturnsOnlyByAdmin` |
| `catalogue` | 2 items, 2 reports, 1 client with 2 requests, 3 companies, items of a user or of a company | `SupplierCompaniesWithinPlans`, `NoSanctionWithoutOpenReport`, `PublicWasReviewed`, `DecisionIsFinal` |
| `admin_lists` | 5 rows, pages of 2, 3 changes | `WalkMissesOnlyMoved`, `ClampedPageHasRows` |

Every module has a type invariant, `TypeOK` (`WalkTypeOK` in `AdminLists`).  All but
that of `PartialRefund` are proved, as theorems `TypeCorrect` (`WalkTypeCorrect`) or
as a part of an inductive invariant, so that the runs spend TLC's time on the
properties.

**Serial and overlapping.**  Several properties hold for one request at a time
and fail for two, because nothing locks what a request has loaded.  The comment
of each says which kind it is.  Two overlapping requests break `ResolvedIsFinal`
(two administrators that loaded the same open dispute both decide it),
`ImplementsEscrow` and `HeldIsShownAsHeld` (an approval of the work that loaded
a milestone as pending writes `awaiting_payment` over a payment),
`InvoicedStaysReleased` (two approvals of one milestone), `NeverOverdrawn` (two
withdrawals that both see the whole balance), `OneEntitledProposalEach`,
`SignedAtShownPrice`, `LedgerTellsDocuments`, `SupplierCompaniesWithinPlans` (two
creations that count the same companies), `NoSanctionWithoutOpenReport` and
`DecisionIsFinal` (two decisions on one open report are both taken, and the later one
rewrites the report).
`contracts_overlap` has no deliveries; that its properties hold with any number
of submissions is proved (section 4).

How far such overlaps can go is stated too.  `KnownOutcomeIsFinal`: only a request
that had read a milestone or a dispute before it was paid, settled or decided can
undo that; once those have ended, the outcome stands.  `KnownOfferIsFinal` says the
same of the price of a proposal that was listed or decided.  The theorem
`OverdraftIsBounded` bounds what n overlapping requests can withdraw by n times what
was earned, and `ProposalsAreBounded` bounds the proposals of one supplier by n.

**Bounds.**  `MaxEntries` bounds invoices per milestone and refund rows per
dispute: 2 in the serial run, so that a second one would be seen.  Two
milestones let one be settled while the other is open; two disputes are a
decision and its appeal; two submissions a rejected and an accepted one.  Two
requests suffice for the overlaps: each property compares what one request
loaded with what another wrote in between, and the writes of longer chains are
those of shorter ones, one after the other.  `sourcing_overlap` starts with an
RFQ that is already open: its two properties are about a proposal, and every
status is reached from there, while `sourcing` starts with all of them.
`MaxOffers = 2` leaves room for the second proposal `OneEntitledProposalEach`
forbids.  `MaxEarned = 4` lets two withdrawals of 2 use up the balance and a third
exceed it.  Amounts and plans of `escrow_amounts` are chosen around the ties of
rounding, at both ends of the half percent the validation tolerates, and for up to
four stages.  Two messages are enough for two requests to flush each other's rows
in opposite orders, which is what `EveryRequestEnds` excludes.  In `sessions` the
time exceeds the window and the lifetime, so that counters expire and are counted
again, and a logged out token reaches its last second.
Two users are a superadmin and an account that rises to face it; one company is
enough, as no handler writes two.  Five rows on pages of two make three pages,
one of them not full; three changes move a row across two of them.  Symmetry is
used for ids only, and only in runs without liveness properties.

**Deadlock** is checked in `Contracts`, `SupplierFinance`, `Messaging`,
`Organisation` and `Catalogue`.  A plan and a refund are loops that end, a
deleted RFQ is the end of `Sourcing`, a walk ends, and `Sessions` stops at the
bound on time.

**Fairness.**  Most of the system promises nothing by itself: every step is a
user's request, nothing retries or schedules it, and a contract nobody touches
legitimately stays as it is.  There `DisputedHasActiveDispute` is the safety side
of what one would like to be live: a disputed contract has a dispute that an
administrator can decide.
What the server does by itself is in `Messaging`, and there liveness is checked.
The event loop runs every coroutine that can go on, and PostgreSQL queues the
transactions that wait for a lock, so that one whose lock is free again and again
is granted: strong fairness of `Serve` for each request.  Every socket's receive
has a timeout after which it is pinged: weak fairness of `Ping`.  No fairness is
assumed of users, of rollbacks or of restarts.

## 4. Proofs

Every invariant and every action property of a passing run is proved for all
values of the constants, except the two liveness properties.  The proofs assume the named `ASSUME`s of the modules, which TLC
evaluates on every run, and nothing else.  The theorems that need it say
`Requests = {q}`: they are about requests that follow one another, and section 3
has what overlaps break.

**`ContractsProofs`**, for every number of milestones, submissions and disputes.
The first part is about any overlap.  Each proof classifies the steps by what they
do to the rows concerned, and strengthens the property by what a request may hold
as loaded, since a handler believes its copies however old they are.

* `DisputedIsDecidable` and `AppealsAreAgainstDecisions`, by `DisputeInv`.  A
  decision that loaded the contract in another status than `disputed` may resolve a
  dispute and leave the contract as it is (`Flushed`); `StaleDecision` says that if
  the contract has become disputed in the meantime, that was for another dispute,
  and by the unique index (`OneActiveDispute`) the loaded one is no longer active.
  An appeal was inserted by a request that saw a decision (`LoadedDisputeExists`),
  and reopening a decided dispute is refused by the index while the appeal is active.
* `InvoicesAreForPaidMilestones` and `UnpaidIsSettledByDecision`, by `PaidInv`: a
  milestone is funded, in its row or in the memory of a request, only if the buyer
  paid it, since `paid` never shrinks and only `fund_milestone` writes `funded`.
* `PendingIsUntouched`, by `PendingInv`: nothing writes `pending_payment`, so while
  the contract has that status no request can have loaded anything later.
* `KnownOutcomesAreFinal`: a request that loaded a milestone as not due writes a
  status that is not due, and one that loaded it as settled writes nothing
  (`HandlersKeep`, handler by handler); a SELECT copies the row (`SelectsCopy`).  So
  a set of statuses that the row and every loaded copy are in is kept
  (`KnownStays`), and likewise for a decided dispute (`DecidedStays`).

The second part is about requests one at a time.  `RequestsAreCurrent` says what a
request has loaded is what the rows hold (`Current`); with it every handler is one
of a few moves of money (`EscrowStep`: funding, invoicing, releasing, freezing,
awarding, closing, disputing), which `Steps` shows handler by handler.  `EscrowInv`
(a funded milestone was paid, a paid one is never due again, an invoiced one is
released) is kept by each move and gives `InvoicedIsReleased` and
`HeldIsOnThePages`; the moves alone give `DecisionsAreFinal`; and
`ContractsAreEscrows` maps each move to a step of `Escrow` or to none, the
refinement `ImplementsEscrow`.

**`EscrowAmountsProofs`**, for every amount, plan, outcome of the ties and award.
Every stage rounds to within half a cent of its share; `PlanInv`
(`AllocatedNearShare`: after `index` stages the sum allocated is within `index` half
cents) gives `LastStageIsNearItsShare`, and `TotalsInv` (what is allocated is what
the stages add up to; a default plan is at most a cent off; no stage exceeds its
share by more than half a cent) gives `StagesPayAgreedAmount`.  `PlanIsKept`: the
refund changes no amount, so both hold of `AmountsSpec`.  `RefundInv` is the
invariant of the refund loop: refunded and released add up to the part of the pool
passed so far, and either all of it went to the buyer exactly (`AwardIsExact`) or
the award ended inside a stage that went to whoever got most of it (`AwardIsSplit`).
It gives `RefundSettlesPool` and, with the bound on a stage, `AwardIsNearlyPaid`.

**`SourcingProofs`**, for any suppliers, proposals and prices.  Under every overlap:
`ContractsHaveProposals` by `OfferInv` (a proposal in the table or in memory has a
price), `KnownOffersAreFinal`, since a request copies the row it loads and an edit needs
a copy that is `submitted`, and `ProposalsAreBounded` by `OverlapInv`: the submissions that found no
proposal and have not inserted yet, together with the proposals that are in, are no
more than the requests, since a request that looks once there is a proposal does not
join them.  One request at a time, from `RequestsAreCurrent`:
`SignedRfqsAreOffTheMarket` by `MarketInv` (an accept moves the RFQ past every board
and closes its other open proposals), `ProposalsAreEntitled` by `EntitledInv` (an RFQ
with proposals is no draft, so its visibility stays) and `ContractsAreAtShownPrice` by `ShownInv` (what was shown is no
longer `submitted`, so its price stays).

**`SupplierFinanceProofs`**, for any amounts and any finite set of withdrawals.  One
request at a time: `LedgerAgrees`, by `LedgerInv`, and `WithdrawalsAreCovered`.
`Current` is weaker here: while a request reads, milestones go on being released, so
it may have loaded less than the supplier has earned by now, never more.  Under every
overlap of finitely many requests: `OverdraftIsBounded`, what is taken is at most the
number of requests times what was earned.  Its invariant, `OverlapInv`, counts against
that bound not only what is withdrawn but also what requests in flight may still add:
the balance each of them has seen, and a withdrawal that was cancelled after it was
loaded and that a stale `MarkPaid` would revive (`ClaimsAreCovered`).  Two requests do reach
twice the balance, so the bound cannot be lowered.

**`MessagingProofs`**, for any number of users, messages and requests in flight, any
interleaving of flushes, pushes, commits, rollbacks and restarts.  `IInv` says that
a flushed row is locked by one transaction only (`LockInv`), that a message being
sent is stored by nobody else (`SendInv`, which needs that ids are never given out
twice, `KnownInv`), that the kind of a transaction tells what it can have loaded and
changed (`Sound`), and that a socket shows what a transaction that has pushed has
written, or else what is stored (`ShownInv`).  It gives `ShownIsStored` and
`ReadIsLostOnlyToAcknowledgement`.

**`SessionsProofs`**, for every limit, window, lifetime and number of tokens, and
whatever happens to Redis and to the process.  `LogoutsHold`, by `EntryInv`: while
nothing fails, the store that took the entry is the one a refresh asks, and the
entry ends at most one tick before the token.  `PatientAreLetIn`, by `CallInv`:
counter and list end within a window of the last call.  `LimitHolds`, by `ShareInv`:
the calls a window allowed are covered by three shares, those the counter in Redis
let in, those in the list in memory, and those whose record was lost; the first two
are within the limit each, the third grows by the limit with each loss at most.

**`OrganisationProofs`**, for any users and companies.  `SidesHaveActors`, by
`ActorInv`: a database has all its actors or, before its first start, none, so that
a start which fails half-way leaves one or the other.  `TrustIsGranted`, by
`VerifiedInv`.  `SuperadminsStayActive` and `DisabledSidesReturnByAdmin` from a
classification of the steps.

**`CatalogueProofs`**, for any items, reports, clients, overlapping requests, plans
and limits: `DecisionsAreFinal`,
`SanctionsAreForOpenReports` by `SanctionInv` (one measure at most for each report, and only
of a resolved one), `PublicIsReviewed`, and `CompaniesAreWithinPlans` by `PlanInv`
(no plan runs unbilled).  For lists and pages of any size and any number of changes
during a walk: `WalkMisses` and `ReportPagesHaveRows`, by `WalkInv`.  It counts
the rows that were in the view all along, have not been shown and stand before the
offset of the next page, together with the rows that came since the request under way
counted: they are no more than the changes recorded in `moved` (`PassesOnlyMoved`),
as only such a change moves a row past the walk.  At the end of a walk the offset has
passed every row, so those missed are no more either (`EndMissesOnlyMoved`).  The page
of a clamped request is one of those it counted (`ClampedInRange`), and its places are
taken as far as the view still reaches (`PageFilled`).  The rank of a row is the number of rows before it, and the lemmas about ranks count by injections.

**Sums.**  The totals of the plan, of the withdrawals and of the calls in a window
are recursive functions, over prefixes of a list or over finite sets.  The provers
cannot use an induction theorem, whose parameter is an operator, so that the sums
exist, that the order of the terms does not matter, and how they change with one
term is proved by the least counterexample: a set of naturals, or of finite sets,
has a least member (`WellFoundedInduction`).  Each module that needs such lemmas has
them for its own sum.

**Only model-checked.**  Liveness under fairness, `EveryRequestEnds` and
`VanishedGoesOffline`, is out of the prover's reach.  That the bounds of
`OverdraftIsBounded` and `ProposalsAreBounded` are reached was seen on instances with
two requests and is not a theorem.  `ReleasedWasPaid` fails, and its run shows how.

## 5. Plan

1. `Sourcing` under overlap: how many accepted proposals overlapping accepts can leave
   in an RFQ, as `ProposalsAreBounded` says it of submissions.
2. `Subscription` and the rest of `Catalogue` with overlapping requests, as reports
   have them now, with the bound on what two creations that both pass a limit can add.

## 6. Not modelled

* Storage of files, seed scripts, serializers and schemas: I/O and formatting.
  The superseded `services/` and `schemas/` are dead code.
* Reviews: one guarded insert whose average lacks the newest row, whatever the
  order of requests; one unit test shows it.
* The rows of the notification list: inserted, marked as read, never read back
  by a rule.  Their push over the sockets is that of `Sockets`.
* The migration of columns in `db/schema.py`: SQL that runs once, on whatever
  tables it finds.  It stores the ids of actors in columns whose foreign keys
  still name companies; where those ids are unknown as companies the start fails,
  which `Start` has as one of its outcomes.
* Notes, audit log, profile fields, certificates, attachments, tags and
  deadlines: data that no rule reads.
* The investigation of a proposal, and reports on RFQs and proposals: the actions
  are those on the reports of items.
* Isolation levels other than the default, and more than one server process: the
  sockets and the memory stores are per process, and the deployment starts one.
