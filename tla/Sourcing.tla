------------------------------- MODULE Sourcing -------------------------------
(***************************************************************************)
(* One request for quotation (RFQ), the suppliers it invites, the          *)
(* proposals it receives and the contracts it ends in: RfqService,         *)
(* ProposalService and the RFQ and proposal actions of AdminService.       *)
(*                                                                         *)
(* Transactions are those of Contracts: one SELECT after the other, each   *)
(* at READ COMMITTED, then one step that decides on what was loaded,       *)
(* writes what differs from it, and commits.                               *)
(***************************************************************************)
EXTENDS Naturals, FiniteSets

CONSTANTS
    Created,        \* bound: the statuses an RFQ is created with
    Suppliers,      \* the supplier actors
    MaxOffers,      \* bound: the proposals one supplier may get into the RFQ
    MaxDiscussed,   \* bound: the proposals with chat messages
    Prices,         \* the prices a proposal may name
    Requests        \* the requests that may be in flight at the same time

ASSUME ConstantsAssumption ==
    /\ MaxOffers \in Nat \ {0}
    /\ MaxDiscussed \in Nat
    /\ Prices \subseteq Nat \ {0}

\* A proposal is named by its supplier and a number.
Proposals == Suppliers \X (1..MaxOffers)
Author(p) == p[1]

VARIABLES
    rfq,            \* rfqs.status
    visibility,     \* rfqs.visibility
    invited,        \* the suppliers of rfq_invited_suppliers
    proposal,       \* proposals.status, by proposal
    price,          \* proposals.price, by proposal
    discussed,      \* the proposals with proposal_messages rows
    agreed,         \* contracts.agreed_amount of the contract of a proposal
    shown,          \* history: the price the buyer last listed the proposal with
    req             \* what each request in flight has loaded so far

vars == <<rfq, visibility, invited, proposal, price, discussed, agreed, shown, req>>
rows == <<rfq, visibility, invited, proposal, price, discussed, agreed, shown>>

-----------------------------------------------------------------------------
\* "deleted" is the row the administrator deleted; in_progress and expired are
\* statuses a new RFQ may be given and no handler writes.
RfqStatus ==
    {"draft", "published", "receiving_proposals", "supplier_selected",
     "contract_created", "in_progress", "completed", "cancelled", "expired",
     "disputed", "archived", "deleted"}
ProposalStatus ==
    {"none", "submitted", "viewed", "shortlisted", "accepted", "rejected", "withdrawn"}
Visibility == {"public", "invited_only"}

NoPrice == 0

ASSUME CreatedAssumption == Created \subseteq RfqStatus \ {"deleted"}

Idle == [kind       |-> "idle",
         rfq        |-> "unread",
         visibility |-> "unread",
         invited    |-> {"unread"},
         proposal   |-> [p \in Proposals |-> "unread"],
         price      |-> [p \in Proposals |-> NoPrice]]

\* RfqService.create takes the status from the client, any of them.
Init ==
    /\ rfq \in Created
    /\ visibility \in Visibility
    /\ invited = {}
    /\ proposal = [p \in Proposals |-> "none"]
    /\ price = [p \in Proposals |-> NoPrice]
    /\ discussed = {}
    /\ agreed = [p \in Proposals |-> NoPrice]
    /\ shown = [p \in Proposals |-> NoPrice]
    /\ req = [q \in Requests |-> Idle]

-----------------------------------------------------------------------------
(***************************************************************************)
(* The transaction of a request.                                           *)
(***************************************************************************)

Flushed(current, loaded, new) == IF new = loaded THEN current ELSE new

\* An UPDATE of the RFQ fails when its row is gone.
SetRfq(q, status) ==
    /\ rfq # "deleted"
    /\ rfq' = Flushed(rfq, req[q].rfq, status)

Load(q, loaded) ==
    /\ req' = [req EXCEPT ![q] = loaded]
    /\ UNCHANGED rows

Done(q) == req' = [req EXCEPT ![q] = Idle]

End(q) ==
    /\ req[q].kind # "idle"
    /\ Done(q)
    /\ UNCHANGED rows

\* RfqService._load: the RFQ, then the invitations.
BeginRfq(q) ==
    /\ req[q].kind = "idle"
    /\ rfq # "deleted"
    /\ Load(q, [Idle EXCEPT !.kind = "rfq", !.rfq = rfq, !.visibility = visibility])

ReadInvited(q) ==
    /\ req[q].kind = "rfq"
    /\ req[q].invited = {"unread"}
    /\ Load(q, [req[q] EXCEPT !.invited = invited])

RfqLoaded(q) == req[q].kind = "rfq" /\ req[q].invited # {"unread"}

\* ProposalService._load: the proposal, then its RFQ.
BeginProposal(q, p) ==
    /\ req[q].kind = "idle"
    /\ proposal[p] # "none"
    /\ Load(q, [Idle EXCEPT !.kind = "proposal",
                            !.proposal[p] = proposal[p],
                            !.price[p] = price[p]])

ReadRfq(q) ==
    /\ req[q].kind = "proposal"
    /\ req[q].rfq = "unread"
    /\ Load(q, [req[q] EXCEPT !.rfq = rfq])

ProposalLoaded(q, p) ==
    /\ req[q].kind = "proposal"
    /\ req[q].rfq # "unread"
    /\ req[q].proposal[p] \notin {"unread", "none"}
    /\ proposal[p] # "none"

OffersLoaded(q) == \A p \in Proposals : req[q].proposal[p] # "unread"

\* The proposals of the RFQ: all of them for list_for_rfq, the supplier's own
\* for submit, those not loaded yet for accept.
ReadOffers(q) ==
    /\ RfqLoaded(q) \/ (req[q].kind = "proposal" /\ req[q].rfq # "unread")
    /\ ~ OffersLoaded(q)
    /\ LET fresh == {p \in Proposals : req[q].proposal[p] = "unread"}
       IN  Load(q, [req[q] EXCEPT
               !.proposal = [p \in Proposals |-> IF p \in fresh THEN proposal[p] ELSE @[p]],
               !.price = [p \in Proposals |-> IF p \in fresh THEN price[p] ELSE @[p]]])

-----------------------------------------------------------------------------
(***************************************************************************)
(* RfqService.                                                             *)
(***************************************************************************)

\* "Only draft RFQs can be edited" (and published).
Draft(status) == status = "draft"

Update(q, v) ==
    /\ RfqLoaded(q)
    /\ Draft(req[q].rfq)
    /\ rfq # "deleted"
    /\ visibility' = Flushed(visibility, req[q].visibility, v)
    /\ Done(q)
    /\ UNCHANGED <<rfq, invited, proposal, price, discussed, agreed, shown>>

\* Two flushes, one commit: published is never seen by another request.
Publishable(status) == Draft(status)

Publish(q) ==
    /\ RfqLoaded(q)
    /\ Publishable(req[q].rfq)
    /\ SetRfq(q, "receiving_proposals")
    /\ Done(q)
    /\ UNCHANGED <<visibility, invited, proposal, price, discussed, agreed, shown>>

Close(q) ==
    /\ RfqLoaded(q)
    /\ SetRfq(q, "cancelled")
    /\ Done(q)
    /\ UNCHANGED <<visibility, invited, proposal, price, discussed, agreed, shown>>

InviteSuppliers(q, s) ==
    /\ RfqLoaded(q)
    /\ rfq # "deleted"
    /\ invited' = invited \cup {s}
    /\ Done(q)
    /\ UNCHANGED <<rfq, visibility, proposal, price, discussed, agreed, shown>>

-----------------------------------------------------------------------------
(***************************************************************************)
(* ProposalService.                                                        *)
(***************************************************************************)

\* list_for_rfq: the buyer's listing marks what was submitted as viewed.
AfterListing(status) == IF status = "submitted" THEN "viewed" ELSE status

ListForRfq(q) ==
    /\ RfqLoaded(q)
    /\ OffersLoaded(q)
    /\ \A p \in Proposals : req[q].proposal[p] = "submitted" => proposal[p] # "none"
    /\ proposal' = [p \in Proposals |->
           Flushed(proposal[p], req[q].proposal[p], AfterListing(req[q].proposal[p]))]
    /\ shown' = [p \in Proposals |->
           IF proposal[p] # "none" /\ req[q].proposal[p] # "none"
           THEN req[q].price[p] ELSE shown[p]]
    /\ Done(q)
    /\ UNCHANGED <<rfq, visibility, invited, price, discussed, agreed>>

\* "Proposal already submitted": what the supplier offered before, in any state.
HasOfferedFaulty(q, s) ==
    \E p \in Proposals : Author(p) = s /\ req[q].proposal[p] \notin {"none", "withdrawn"}
HasOffered(q, s) ==
    \E p \in Proposals : Author(p) = s /\ req[q].proposal[p] # "none"

Submit(q, p, x) ==
    /\ RfqLoaded(q)
    /\ OffersLoaded(q)
    /\ rfq # "deleted"
    /\ req[q].rfq \in {"published", "receiving_proposals"}
    /\ req[q].visibility = "invited_only" => Author(p) \in req[q].invited
    /\ ~ HasOffered(q, Author(p))
    /\ proposal[p] = "none"
    /\ proposal' = [proposal EXCEPT ![p] = "submitted"]
    /\ price' = [price EXCEPT ![p] = x]
    /\ Done(q)
    /\ UNCHANGED <<rfq, visibility, invited, discussed, agreed, shown>>

\* "Proposal cannot be edited" once the buyer has seen it.
EditableFaulty(status) == status \in {"submitted", "viewed"}
Editable(status) == status = "submitted"

UpdateProposal(q, p, x) ==
    /\ ProposalLoaded(q, p)
    /\ Editable(req[q].proposal[p])
    /\ price' = [price EXCEPT ![p] = Flushed(@, req[q].price[p], x)]
    /\ Done(q)
    /\ UNCHANGED <<rfq, visibility, invited, proposal, discussed, agreed, shown>>

\* withdraw (the supplier), shortlist and reject (the buyer): no guard.
SetStatus(q, p, status) ==
    /\ ProposalLoaded(q, p)
    /\ proposal' = [proposal EXCEPT ![p] = Flushed(@, req[q].proposal[p], status)]
    /\ Done(q)
    /\ UNCHANGED <<rfq, visibility, invited, price, discussed, agreed, shown>>

\* OPEN_CHAT_STATUSES: "Chat is closed for this proposal", whoever writes.
OpenForChat == {"submitted", "viewed", "shortlisted"}

AddMessage(q, p) ==
    /\ ProposalLoaded(q, p)
    /\ req[q].proposal[p] \in OpenForChat
    /\ Cardinality(discussed \cup {p}) <= MaxDiscussed
    /\ discussed' = discussed \cup {p}
    /\ Done(q)
    /\ UNCHANGED <<rfq, visibility, invited, proposal, price, agreed, shown>>

Finalized == {"accepted", "rejected", "withdrawn"}

\* What accept does to the other proposals of the RFQ.
RejectedByAcceptFaulty(status) ==
    IF status \in Finalized \cup {"none"} THEN status ELSE "rejected"
RejectedByAccept(status) ==
    IF status \in {"rejected", "withdrawn", "none"} THEN status ELSE "rejected"

\* The unique index on contracts.proposal_id lets a proposal have one contract.
Signable(p) == agreed[p] = NoPrice

\* The status of the RFQ is not looked at, nor whether it has a contract.  An
\* UPDATE of a proposal that is gone fails; those already finalized get none.
\* The first flush writes supplier_selected, the second contract_created.
Accept(q, p) ==
    /\ ProposalLoaded(q, p)
    /\ OffersLoaded(q)
    /\ req[q].proposal[p] \notin Finalized
    /\ \A o \in Proposals :
           RejectedByAccept(req[q].proposal[o]) # req[q].proposal[o] => proposal[o] # "none"
    /\ Signable(p)
    /\ rfq # "deleted"
    /\ proposal' = [o \in Proposals |->
           IF o = p THEN "accepted"
           ELSE Flushed(proposal[o], req[q].proposal[o], RejectedByAccept(req[q].proposal[o]))]
    /\ agreed' = [agreed EXCEPT ![p] = req[q].price[p]]
    /\ rfq' = "contract_created"
    /\ Done(q)
    /\ UNCHANGED <<visibility, invited, price, discussed, shown>>

-----------------------------------------------------------------------------
(***************************************************************************)
(* AdminService.apply_rfq_action and apply_proposal_action, and what the   *)
(* contract's own handlers do to the RFQ (approve_submission and           *)
(* open_dispute of ContractService).                                       *)
(***************************************************************************)

AdminClose(q) ==
    /\ req[q].kind = "rfq"
    /\ req[q].rfq \notin {"completed", "cancelled", "expired", "archived"}
    /\ SetRfq(q, "cancelled")
    /\ Done(q)
    /\ UNCHANGED <<visibility, invited, proposal, price, discussed, agreed, shown>>

\* hide, and delete of an RFQ that is no draft.
Archive(q) ==
    /\ req[q].kind = "rfq"
    /\ SetRfq(q, "archived")
    /\ Done(q)
    /\ UNCHANGED <<visibility, invited, proposal, price, discussed, agreed, shown>>

\* The foreign key of the proposals forbids it once there is one.
DeleteDraft(q) ==
    /\ RfqLoaded(q)
    /\ req[q].rfq = "draft"
    /\ rfq # "deleted"
    /\ invited \subseteq req[q].invited
    /\ \A p \in Proposals : proposal[p] = "none"
    /\ rfq' = "deleted"
    /\ invited' = {}
    /\ Done(q)
    /\ UNCHANGED <<visibility, proposal, price, discussed, agreed, shown>>

\* "Cannot delete proposal with an existing contract"; the foreign key of the
\* contract forbids it also when the contract came after the check.  The delete
\* would leave the chat messages without their proposal, which proposal_id, NOT
\* NULL, does not allow: a discussed proposal stays.
DeletableFaulty(p) == proposal[p] \notin {"accepted"}
Deletable(p) == agreed[p] = NoPrice

DeleteProposal(q, p) ==
    /\ req[q].kind = "proposal"
    /\ req[q].proposal[p] \notin {"unread", "none"}
    /\ proposal[p] # "none"
    /\ Deletable(p)
    /\ p \notin discussed
    /\ proposal' = [proposal EXCEPT ![p] = "none"]
    /\ price' = [price EXCEPT ![p] = NoPrice]
    /\ shown' = [shown EXCEPT ![p] = NoPrice]
    /\ Done(q)
    /\ UNCHANGED <<rfq, visibility, invited, discussed, agreed>>

ContractMovesRfq(q, status) ==
    /\ req[q].kind = "rfq"
    /\ \E p \in Proposals : agreed[p] # NoPrice
    /\ SetRfq(q, status)
    /\ Done(q)
    /\ UNCHANGED <<visibility, invited, proposal, price, discussed, agreed, shown>>

-----------------------------------------------------------------------------
Read(q) ==
    \/ BeginRfq(q)
    \/ ReadInvited(q)
    \/ \E p \in Proposals : BeginProposal(q, p)
    \/ ReadRfq(q)
    \/ ReadOffers(q)

\* The endpoints of the buyer.
BuyerRfqStep(q) ==
    \/ \E v \in Visibility : Update(q, v)
    \/ Publish(q)
    \/ Close(q)
    \/ \E s \in Suppliers : InviteSuppliers(q, s)

BuyerProposalStep(q) ==
    \/ ListForRfq(q)
    \/ \E p \in Proposals :
          \/ \E status \in {"shortlisted", "rejected"} : SetStatus(q, p, status)
          \/ Accept(q, p)
          \/ AddMessage(q, p)

\* The endpoints of the supplier; both sides write to the chat.
SupplierRfqStep(q) == \E p \in Proposals, x \in Prices : Submit(q, p, x)

SupplierProposalStep(q) ==
    \E p \in Proposals :
        \/ \E x \in Prices : UpdateProposal(q, p, x)
        \/ SetStatus(q, p, "withdrawn")
        \/ AddMessage(q, p)

\* The endpoints of the administrator.
AdminRfqStep(q) == AdminClose(q) \/ Archive(q) \/ DeleteDraft(q)

AdminProposalStep(q) == \E p \in Proposals : DeleteProposal(q, p)

Next ==
    \E q \in Requests :
        \/ Read(q)
        \/ BuyerRfqStep(q)
        \/ BuyerProposalStep(q)
        \/ SupplierRfqStep(q)
        \/ SupplierProposalStep(q)
        \/ AdminRfqStep(q)
        \/ AdminProposalStep(q)
        \/ \E status \in {"completed", "disputed"} : ContractMovesRfq(q, status)
        \/ End(q)

Spec == Init /\ [][Next]_vars

-----------------------------------------------------------------------------
LoadedRows ==
    [kind       : {"idle", "rfq", "proposal"},
     rfq        : RfqStatus \cup {"unread"},
     visibility : Visibility \cup {"unread"},
     invited    : (SUBSET Suppliers) \cup {{"unread"}},
     proposal   : [Proposals -> ProposalStatus \cup {"unread"}],
     price      : [Proposals -> Prices \cup {NoPrice}]]

TypeOK ==
    /\ rfq \in RfqStatus
    /\ visibility \in Visibility
    /\ invited \subseteq Suppliers
    /\ proposal \in [Proposals -> ProposalStatus]
    /\ price \in [Proposals -> Prices \cup {NoPrice}]
    /\ discussed \subseteq Proposals
    /\ agreed \in [Proposals -> Prices \cup {NoPrice}]
    /\ shown \in [Proposals -> Prices \cup {NoPrice}]
    /\ req \in [Requests -> LoadedRows]

Signed(p) == agreed[p] # NoPrice

\* list_board_for_supplier, and list_public_board for visitors.
OnBoardOf(s) ==
    /\ rfq \in {"published", "receiving_proposals"}
    /\ visibility = "public" \/ s \in invited
OnPublicBoard == rfq \in {"published", "receiving_proposals"} /\ visibility = "public"

\* However requests overlap, a contract and a chat have their proposal and an
\* accepted proposal its contract: a proposal is not deleted after it was signed
\* or discussed, also when that came after the administrator's check.
ContractHasProposal ==
    \A p \in Proposals :
        /\ Signed(p) \/ p \in discussed => proposal[p] # "none"
        /\ proposal[p] = "accepted" => Signed(p)

\* No request in flight believes that the supplier may still edit the proposal,
\* or that it has another price.
KnownClosed(p) ==
    /\ proposal[p] \notin {"none", "submitted"}
    /\ \A q \in Requests :
           \/ req[q].proposal[p] \in {"unread", "none"}
           \/ req[q].proposal[p] # "submitted" /\ req[q].price[p] = price[p]

\* However requests overlap, only an edit that had loaded a proposal before it
\* was listed or decided changes its price afterwards, and only an accept that
\* had loaded it before such an edit signs at another: once those have ended, the
\* price stands, and is the one a contract is signed at, unless an administrator
\* deletes the proposal (update_proposal, list_for_rfq, accept).
KnownOfferIsFinal ==
    [][\A p \in Proposals : KnownClosed(p) =>
           \/ proposal'[p] = "none"
           \/ /\ KnownClosed(p)'
              /\ price'[p] = price[p]
              /\ agreed'[p] \in {agreed[p], price[p]}]_vars

\* One request at a time: a contract takes its RFQ off the market.  At most one
\* proposal is accepted, though accept does not look whether one already is; no
\* board offers the RFQ, which is no draft to publish or delete; and none of its
\* proposals waits to be accepted unless the buyer shortlisted it.  That does not
\* bound the contracts: a proposal accept has rejected can be shortlisted and
\* accepted after all (accept, shortlist, publish, the boards).
SignedRfqIsOffTheMarket ==
    /\ \A o, p \in Proposals : proposal[o] = "accepted" /\ proposal[p] = "accepted" => o = p
    /\ (\E p \in Proposals : Signed(p)) =>
           /\ rfq # "draft"
           /\ ~ OnPublicBoard
           /\ \A s \in Suppliers : ~ OnBoardOf(s)
           /\ \A p \in Proposals : proposal[p] \notin {"submitted", "viewed"}

\* One request at a time: a supplier has one proposal in an RFQ ("Proposal
\* already submitted"), and only an invited supplier has one in an RFQ that is
\* for invited suppliers; the visibility is not narrowed once somebody offered
\* (submit, update).
OneEntitledProposalEach ==
    \A p \in Proposals : proposal[p] # "none" =>
        /\ visibility = "invited_only" => Author(p) \in invited
        /\ \A o \in Proposals : proposal[o] # "none" /\ Author(o) = Author(p) => o = p

\* One request at a time: the buyer signs at the price it was shown; listing a
\* proposal closes it to edits ("Proposal cannot be edited", update_proposal).
SignedAtShownPrice ==
    \A p \in Proposals : Signed(p) /\ shown[p] # NoPrice => agreed[p] = shown[p]

=============================================================================
