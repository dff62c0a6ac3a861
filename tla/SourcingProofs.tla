---------------------------- MODULE SourcingProofs ----------------------------
(***************************************************************************)
(* What holds of Sourcing for every set of suppliers, proposals and        *)
(* prices.  The first part is about any number of requests that overlap in *)
(* any way, the second about requests that follow one another.             *)
(***************************************************************************)
EXTENDS Sourcing, FiniteSetTheorems, TLAPS

-----------------------------------------------------------------------------
(***************************************************************************)
(* Type correctness.                                                       *)
(***************************************************************************)

\* A request that has loaded nothing.
LEMMA IdleType == Idle \in LoadedRows
<1>1. /\ [p \in Proposals |-> "unread"] \in [Proposals -> ProposalStatus \cup {"unread"}]
      /\ [p \in Proposals |-> NoPrice] \in [Proposals -> Prices \cup {NoPrice}]
      /\ {"unread"} \in (SUBSET Suppliers) \cup {{"unread"}}
  OBVIOUS
<1> HIDE DEF NoPrice
<1> QED
  BY <1>1, Zenon DEF Idle, LoadedRows

LEMMA TypeInit == Init => TypeOK
<1> SUFFICES ASSUME Init PROVE TypeOK
  OBVIOUS
<1>1. rfq \in RfqStatus
  BY CreatedAssumption DEF Init
<1>2. proposal \in [Proposals -> ProposalStatus]
  BY DEF Init, ProposalStatus
<1> QED
  BY <1>1, <1>2, IdleType DEF Init, TypeOK

\* What a request loads are values of the rows.
LEMMA ReadType ==
    ASSUME TypeOK, NEW q \in Requests, Read(q)
    PROVE  TypeOK'
<1>0. \A loaded : Load(q, loaded) /\ loaded \in LoadedRows => TypeOK'
  BY DEF Load, rows, TypeOK
<1>1. req[q] \in LoadedRows
  BY DEF TypeOK
<1>2. CASE BeginRfq(q)
  <2>1. [Idle EXCEPT !.kind = "rfq", !.rfq = rfq, !.visibility = visibility] \in LoadedRows
    BY IdleType DEF TypeOK, LoadedRows
  <2> QED
    BY <1>0, <1>2, <2>1 DEF BeginRfq
<1>3. CASE ReadInvited(q)
  <2>1. [req[q] EXCEPT !.invited = invited] \in LoadedRows
    BY <1>1 DEF TypeOK, LoadedRows
  <2> QED
    BY <1>0, <1>3, <2>1 DEF ReadInvited
<1>4. ASSUME NEW p \in Proposals, BeginProposal(q, p) PROVE TypeOK'
  <2>1. [Idle EXCEPT !.kind = "proposal", !.proposal[p] = proposal[p], !.price[p] = price[p]]
           \in LoadedRows
    BY IdleType DEF TypeOK, LoadedRows
  <2> QED
    BY <1>0, <1>4, <2>1 DEF BeginProposal
<1>5. CASE ReadRfq(q)
  <2>1. [req[q] EXCEPT !.rfq = rfq] \in LoadedRows
    BY <1>1 DEF TypeOK, LoadedRows
  <2> QED
    BY <1>0, <1>5, <2>1 DEF ReadRfq
<1>6. CASE ReadOffers(q)
  <2> DEFINE fresh == {p \in Proposals : req[q].proposal[p] = "unread"}
             loaded == [req[q] EXCEPT
               !.proposal = [p \in Proposals |-> IF p \in fresh THEN proposal[p] ELSE @[p]],
               !.price = [p \in Proposals |-> IF p \in fresh THEN price[p] ELSE @[p]]]
  <2>1. loaded \in LoadedRows
    BY <1>1 DEF TypeOK, LoadedRows
  <2>2. Load(q, loaded)
    BY <1>6 DEF ReadOffers
  <2> HIDE DEF loaded
  <2> QED
    BY <1>0, <2>1, <2>2
<1> QED
  BY <1>2, <1>3, <1>4, <1>5, <1>6 DEF Read

\* What the requests about the RFQ write.
LEMMA RfqType ==
    ASSUME TypeOK, NEW q \in Requests,
           \/ BuyerRfqStep(q)
           \/ AdminRfqStep(q)
           \/ \E status \in {"completed", "disputed"} : ContractMovesRfq(q, status)
           \/ End(q)
    PROVE  TypeOK'
<1> USE IdleType DEF Done, TypeOK
<1>1. \A status \in RfqStatus : SetRfq(q, status) => rfq' \in RfqStatus
  BY DEF SetRfq, Flushed
<1> USE DEF RfqStatus
<1>2. ASSUME NEW v \in Visibility, Update(q, v) PROVE TypeOK'
  BY <1>2 DEF Update, Flushed
<1>3. CASE Publish(q)
  BY <1>1, <1>3 DEF Publish
<1>4. CASE Close(q)
  BY <1>1, <1>4 DEF Close
<1>5. ASSUME NEW s \in Suppliers, InviteSuppliers(q, s) PROVE TypeOK'
  BY <1>5 DEF InviteSuppliers
<1>6. CASE AdminClose(q)
  BY <1>1, <1>6 DEF AdminClose
<1>7. CASE Archive(q)
  BY <1>1, <1>7 DEF Archive
<1>8. CASE DeleteDraft(q)
  BY <1>8 DEF DeleteDraft
<1>9. ASSUME NEW status \in {"completed", "disputed"}, ContractMovesRfq(q, status) PROVE TypeOK'
  BY <1>1, <1>9 DEF ContractMovesRfq
<1>10. CASE End(q)
  BY <1>10 DEF End, rows
<1> QED
  BY <1>2, <1>3, <1>4, <1>5, <1>6, <1>7, <1>8, <1>9, <1>10 DEF BuyerRfqStep, AdminRfqStep

\* What the requests about proposals write.
LEMMA ProposalType ==
    ASSUME TypeOK, NEW q \in Requests,
           \/ BuyerProposalStep(q)
           \/ SupplierRfqStep(q)
           \/ SupplierProposalStep(q)
           \/ AdminProposalStep(q)
    PROVE  TypeOK'
<1>1. Done(q) => req' \in [Requests -> LoadedRows]
  BY IdleType DEF Done, TypeOK
<1>2. /\ req[q].proposal \in [Proposals -> ProposalStatus \cup {"unread"}]
      /\ req[q].price \in [Proposals -> Prices \cup {NoPrice}]
  BY DEF TypeOK, LoadedRows
<1>3. CASE ListForRfq(q)
  <2>1. \A p \in Proposals : AfterListing(req[q].proposal[p]) \in ProposalStatus
    BY <1>2, <1>3 DEF ListForRfq, OffersLoaded, AfterListing, ProposalStatus
  <2>2. proposal' \in [Proposals -> ProposalStatus]
    BY <1>3, <2>1 DEF ListForRfq, Flushed, TypeOK
  <2>3. shown' \in [Proposals -> Prices \cup {NoPrice}]
    BY <1>2, <1>3 DEF ListForRfq, TypeOK
  <2> QED
    BY <1>1, <1>3, <2>2, <2>3 DEF ListForRfq, TypeOK
<1>4. ASSUME NEW p \in Proposals, NEW status \in {"shortlisted", "rejected", "withdrawn"},
             SetStatus(q, p, status)
      PROVE  TypeOK'
  BY <1>1, <1>4 DEF SetStatus, Flushed, TypeOK, ProposalStatus
<1>5. ASSUME NEW p \in Proposals, Accept(q, p) PROVE TypeOK'
  <2>1. \A o \in Proposals : RejectedByAccept(req[q].proposal[o]) \in ProposalStatus
    BY <1>2, <1>5 DEF Accept, OffersLoaded, RejectedByAccept, ProposalStatus
  <2>2. proposal' \in [Proposals -> ProposalStatus]
    BY <1>5, <2>1 DEF Accept, Flushed, TypeOK, ProposalStatus
  <2>3. agreed' \in [Proposals -> Prices \cup {NoPrice}]
    BY <1>2, <1>5 DEF Accept, TypeOK
  <2> QED
    BY <1>1, <1>5, <2>2, <2>3 DEF Accept, TypeOK, RfqStatus
<1>6. ASSUME NEW p \in Proposals, AddMessage(q, p) PROVE TypeOK'
  BY <1>1, <1>6 DEF AddMessage, TypeOK
<1>7. ASSUME NEW p \in Proposals, NEW x \in Prices, Submit(q, p, x) PROVE TypeOK'
  BY <1>1, <1>7 DEF Submit, TypeOK, ProposalStatus
<1>8. ASSUME NEW p \in Proposals, NEW x \in Prices, UpdateProposal(q, p, x) PROVE TypeOK'
  BY <1>1, <1>8 DEF UpdateProposal, Flushed, TypeOK
<1>9. ASSUME NEW p \in Proposals, DeleteProposal(q, p) PROVE TypeOK'
  BY <1>1, <1>9 DEF DeleteProposal, TypeOK, ProposalStatus
<1> QED
  BY <1>3, <1>4, <1>5, <1>6, <1>7, <1>8, <1>9
  DEF BuyerProposalStep, SupplierRfqStep, SupplierProposalStep, AdminProposalStep

\* Every reachable state is well typed, however requests overlap.
THEOREM TypeCorrect == Spec => []TypeOK
<1>1. TypeOK /\ [Next]_vars => TypeOK'
  <2> SUFFICES ASSUME TypeOK, [Next]_vars PROVE TypeOK'
    OBVIOUS
  <2>1. CASE Next
    BY <2>1, ReadType, RfqType, ProposalType DEF Next
  <2>2. CASE UNCHANGED vars
    BY <2>2 DEF vars, TypeOK
  <2> QED
    BY <2>1, <2>2
<1> QED
  BY <1>1, TypeInit, PTL DEF Spec

-----------------------------------------------------------------------------
(***************************************************************************)
(* Contracts and their proposals, however requests overlap.                *)
(***************************************************************************)

\* A proposal has a price, in the table and in what was loaded of it: without
\* that an accepted proposal could be signed at no price.
OfferInv ==
    /\ ContractHasProposal
    /\ \A p \in Proposals : proposal[p] # "none" => price[p] # NoPrice
    /\ \A q \in Requests, p \in Proposals :
          req[q].proposal[p] \notin {"unread", "none"} => req[q].price[p] # NoPrice

\* Reading changes no row.
LEMMA ReadRows == ASSUME NEW q, Read(q) PROVE UNCHANGED rows
BY DEF Read, BeginRfq, ReadInvited, BeginProposal, ReadRfq, ReadOffers, Load

\* What is loaded of a proposal is its status together with its price.
LEMMA ReadPrices ==
    ASSUME TypeOK, OfferInv, NEW q \in Requests, Read(q), NEW r \in Requests, NEW o \in Proposals,
           req'[r].proposal[o] \notin {"unread", "none"}
    PROVE  req'[r].price[o] # NoPrice
<1>1. req[q] \in LoadedRows /\ req \in [Requests -> LoadedRows]
  BY DEF TypeOK
<1>2. CASE r # q
  BY <1>1, <1>2 DEF OfferInv, Read, BeginRfq, ReadInvited, BeginProposal, ReadRfq, ReadOffers, Load
<1>3. CASE r = q /\ BeginRfq(q)
  BY <1>1, <1>3 DEF BeginRfq, Load, Idle
<1>4. CASE r = q /\ (ReadInvited(q) \/ ReadRfq(q))
  <2>1. req'[q].proposal = req[q].proposal /\ req'[q].price = req[q].price
    BY <1>1, <1>4 DEF ReadInvited, ReadRfq, Load, LoadedRows
  <2> QED
    BY <1>4, <2>1 DEF OfferInv
<1>5. ASSUME r = q, NEW p \in Proposals, BeginProposal(q, p)
      PROVE  req'[r].price[o] # NoPrice
  BY <1>1, <1>5 DEF BeginProposal, Load, Idle, OfferInv, TypeOK
<1>6. CASE r = q /\ ReadOffers(q)
  BY <1>1, <1>6 DEF ReadOffers, Load, OfferInv, LoadedRows
<1> QED
  BY <1>2, <1>3, <1>4, <1>5, <1>6 DEF Read

\* What a request that ends leaves of the others' loaded rows.
LEMMA DonePrices ==
    ASSUME TypeOK, OfferInv, NEW q \in Requests, Done(q)
    PROVE  \A r \in Requests, p \in Proposals :
              req'[r].proposal[p] \notin {"unread", "none"} => req'[r].price[p] # NoPrice
BY DEF Done, Idle, OfferInv, TypeOK

\* The handlers that touch a proposal.
LEMMA OfferSteps ==
    ASSUME TypeOK, OfferInv, NEW q \in Requests,
           \/ BuyerProposalStep(q)
           \/ SupplierRfqStep(q)
           \/ SupplierProposalStep(q)
           \/ AdminProposalStep(q)
    PROVE  OfferInv'
<1> USE DEF OfferInv, ContractHasProposal, Signed
<1>1. /\ req[q].proposal \in [Proposals -> ProposalStatus \cup {"unread"}]
      /\ req[q].price \in [Proposals -> Prices \cup {NoPrice}]
      /\ \A x \in Prices : x # NoPrice
  BY ConstantsAssumption DEF TypeOK, LoadedRows, NoPrice
<1>2. CASE ListForRfq(q)
  <2>1. \A p \in Proposals :
           /\ proposal'[p] = "none" => proposal[p] = "none"
           /\ proposal'[p] = "accepted" => proposal[p] = "accepted"
           /\ proposal[p] = "none" => proposal'[p] = "none"
    BY <1>1, <1>2 DEF ListForRfq, Flushed, AfterListing, OffersLoaded, TypeOK
  <2> QED
    BY <1>2, <2>1, DonePrices DEF ListForRfq
<1>3. ASSUME NEW p \in Proposals, NEW status \in {"shortlisted", "rejected", "withdrawn"},
             SetStatus(q, p, status)
      PROVE  OfferInv'
  <2>1. \A o \in Proposals :
           /\ proposal'[o] = "none" <=> proposal[o] = "none"
           /\ proposal'[o] = "accepted" => proposal[o] = "accepted"
    BY <1>3 DEF SetStatus, ProposalLoaded, Flushed, TypeOK
  <2> QED
    BY <1>3, <2>1, DonePrices DEF SetStatus
<1>4. ASSUME NEW p \in Proposals, Accept(q, p) PROVE OfferInv'
  <2>1. \A o \in Proposals \ {p} :
           /\ proposal'[o] = "none" <=> proposal[o] = "none"
           /\ proposal'[o] = "accepted" => proposal[o] = "accepted"
    BY <1>1, <1>4 DEF Accept, Flushed, RejectedByAccept, OffersLoaded, TypeOK
  <2>2. proposal'[p] = "accepted" /\ proposal[p] # "none"
    BY <1>4 DEF Accept, ProposalLoaded
  <2>3. /\ agreed'[p] # NoPrice
        /\ \A o \in Proposals \ {p} : agreed'[o] = agreed[o]
    BY <1>1, <1>4 DEF Accept, ProposalLoaded, TypeOK
  <2> QED
    BY <1>4, <2>1, <2>2, <2>3, DonePrices DEF Accept
<1>5. ASSUME NEW p \in Proposals, AddMessage(q, p) PROVE OfferInv'
  BY <1>5, DonePrices DEF AddMessage, ProposalLoaded
<1>6. ASSUME NEW p \in Proposals, NEW x \in Prices, Submit(q, p, x) PROVE OfferInv'
  BY <1>1, <1>6, DonePrices DEF Submit, TypeOK
<1>7. ASSUME NEW p \in Proposals, NEW x \in Prices, UpdateProposal(q, p, x) PROVE OfferInv'
  BY <1>1, <1>7, DonePrices DEF UpdateProposal, Flushed, TypeOK
<1>8. ASSUME NEW p \in Proposals, DeleteProposal(q, p) PROVE OfferInv'
  BY <1>8, DonePrices DEF DeleteProposal, Deletable, TypeOK
<1> QED
  BY <1>2, <1>3, <1>4, <1>5, <1>6, <1>7, <1>8
  DEF BuyerProposalStep, SupplierRfqStep, SupplierProposalStep, AdminProposalStep

\* The handlers that touch the RFQ leave its proposals alone.
LEMMA RfqSteps ==
    ASSUME NEW q,
           \/ BuyerRfqStep(q)
           \/ AdminRfqStep(q)
           \/ \E status \in {"completed", "disputed"} : ContractMovesRfq(q, status)
           \/ End(q)
    PROVE  UNCHANGED <<proposal, price, discussed, agreed, shown>> /\ Done(q)
BY DEF BuyerRfqStep, AdminRfqStep, ContractMovesRfq, End, Update, Publish, Close, InviteSuppliers,
       AdminClose, Archive, DeleteDraft, rows

\* However requests overlap, a contract and a chat have their proposal and an
\* accepted proposal its contract (accept, apply_proposal_action: the foreign
\* keys decide where the checks came too early).
THEOREM ContractsHaveProposals == Spec => []ContractHasProposal
<1>1. Init => OfferInv
  BY DEF Init, OfferInv, ContractHasProposal, Signed, Idle
<1>2. TypeOK /\ OfferInv /\ [Next]_vars => OfferInv'
  <2> SUFFICES ASSUME TypeOK, OfferInv, [Next]_vars PROVE OfferInv'
    OBVIOUS
  <2>1. ASSUME NEW q \in Requests, Read(q) PROVE OfferInv'
    BY <2>1, ReadRows, ReadPrices DEF OfferInv, ContractHasProposal, Signed, rows
  <2>2. ASSUME NEW q \in Requests, UNCHANGED <<proposal, price, discussed, agreed, shown>>, Done(q)
        PROVE  OfferInv'
    BY <2>2, DonePrices DEF OfferInv, ContractHasProposal, Signed
  <2>3. CASE UNCHANGED vars
    BY <2>3 DEF vars, OfferInv, ContractHasProposal, Signed
  <2> QED
    BY <2>1, <2>2, <2>3, RfqSteps, OfferSteps DEF Next
<1>3. OfferInv => ContractHasProposal
  BY DEF OfferInv
<1> QED
  BY <1>1, <1>2, <1>3, TypeCorrect, PTL DEF Spec

\* A SELECT copies the row of a proposal, its status together with its price.
LEMMA ReadCopies ==
    ASSUME TypeOK, NEW q \in Requests, Read(q), NEW r \in Requests, NEW p \in Proposals
    PROVE  \/ req'[r].proposal[p] = "unread"
           \/ req'[r].proposal[p] = req[r].proposal[p] /\ req'[r].price[p] = req[r].price[p]
           \/ req'[r].proposal[p] = proposal[p] /\ req'[r].price[p] = price[p]
<1>1. req[q] \in LoadedRows /\ req \in [Requests -> LoadedRows]
  BY DEF TypeOK
<1>2. CASE r # q
  BY <1>1, <1>2 DEF Read, BeginRfq, ReadInvited, BeginProposal, ReadRfq, ReadOffers, Load
<1>3. CASE r = q /\ BeginRfq(q)
  BY <1>1, <1>3 DEF BeginRfq, Load, Idle
<1>4. CASE r = q /\ (ReadInvited(q) \/ ReadRfq(q))
  <2>1. req'[q].proposal = req[q].proposal /\ req'[q].price = req[q].price
    BY <1>1, <1>4 DEF ReadInvited, ReadRfq, Load, LoadedRows
  <2> QED
    BY <1>4, <2>1
<1>5. ASSUME r = q, NEW o \in Proposals, BeginProposal(q, o)
      PROVE  \/ req'[r].proposal[p] = "unread"
             \/ req'[r].proposal[p] = proposal[p] /\ req'[r].price[p] = price[p]
  BY <1>1, <1>5 DEF BeginProposal, Load, Idle
<1>6. CASE r = q /\ ReadOffers(q)
  BY <1>1, <1>6 DEF ReadOffers, Load, LoadedRows
<1> QED
  BY <1>2, <1>3, <1>4, <1>5, <1>6 DEF Read

\* The outcome KnownOfferIsFinal allows for one proposal.
Stands(p) ==
    /\ KnownClosed(p)'
    /\ price'[p] = price[p]
    /\ agreed'[p] \in {agreed[p], price[p]}

\* A request that ends takes what it had loaded with it.
LEMMA EndingStands ==
    ASSUME TypeOK, NEW p \in Proposals, KnownClosed(p), NEW q \in Requests, Done(q),
           proposal'[p] \notin {"none", "submitted"}, price'[p] = price[p],
           agreed'[p] \in {agreed[p], price[p]}
    PROVE  Stands(p)
<1>1. \A r \in Requests : req'[r].proposal[p] = "unread" \/ req'[r] = req[r]
  BY DEF Done, Idle, TypeOK
<1> QED
  BY <1>1 DEF Stands, KnownClosed

\* No handler reopens a proposal, and an edit had it loaded as submitted.
LEMMA OffersStand ==
    ASSUME TypeOK, NEW p \in Proposals, KnownClosed(p), NEW q \in Requests,
           \/ BuyerProposalStep(q)
           \/ SupplierRfqStep(q)
           \/ SupplierProposalStep(q)
           \/ AdminProposalStep(q)
    PROVE  proposal'[p] = "none" \/ Stands(p)
<1>1. Done(q)
  BY DEF BuyerProposalStep, SupplierRfqStep, SupplierProposalStep, AdminProposalStep,
         ListForRfq, SetStatus, Accept, AddMessage, Submit, UpdateProposal, DeleteProposal
<1>2. /\ proposal[p] \notin {"none", "submitted"}
      /\ \/ req[q].proposal[p] \in {"unread", "none"}
         \/ req[q].proposal[p] # "submitted" /\ req[q].price[p] = price[p]
  BY DEF KnownClosed
<1>3. CASE ListForRfq(q)
  <2>1. proposal'[p] \notin {"none", "submitted"}
    BY <1>2, <1>3 DEF ListForRfq, Flushed, AfterListing
  <2> QED
    BY <1>1, <1>3, <2>1, EndingStands DEF ListForRfq
<1>4. ASSUME NEW o \in Proposals, NEW status \in {"shortlisted", "rejected", "withdrawn"},
             SetStatus(q, o, status)
      PROVE  Stands(p)
  <2>1. proposal'[p] \notin {"none", "submitted"}
    BY <1>2, <1>4 DEF SetStatus, Flushed, TypeOK
  <2> QED
    BY <1>1, <1>4, <2>1, EndingStands DEF SetStatus
<1>5. ASSUME NEW o \in Proposals, Accept(q, o) PROVE Stands(p)
  <2>1. proposal'[p] \notin {"none", "submitted"}
    BY <1>2, <1>5 DEF Accept, Flushed, RejectedByAccept
  <2>2. agreed'[p] = IF p = o THEN req[q].price[o] ELSE agreed[p]
    BY <1>5 DEF Accept, TypeOK
  <2>3. agreed'[p] \in {agreed[p], price[p]}
    BY <1>2, <1>5, <2>2 DEF Accept, ProposalLoaded
  <2> QED
    BY <1>1, <1>5, <2>1, <2>3, EndingStands DEF Accept
<1>6. ASSUME NEW o \in Proposals, AddMessage(q, o) PROVE Stands(p)
  BY <1>1, <1>2, <1>6, EndingStands DEF AddMessage
<1>7. ASSUME NEW o \in Proposals, NEW x \in Prices, Submit(q, o, x) PROVE Stands(p)
  <2>1. proposal'[p] = proposal[p] /\ price'[p] = price[p]
    BY <1>2, <1>7 DEF Submit, TypeOK
  <2> QED
    BY <1>1, <1>2, <1>7, <2>1, EndingStands DEF Submit
<1>8. ASSUME NEW o \in Proposals, NEW x \in Prices, UpdateProposal(q, o, x) PROVE Stands(p)
  <2>1. o # p
    BY <1>2, <1>8 DEF UpdateProposal, ProposalLoaded, Editable
  <2>2. price'[p] = price[p]
    BY <1>8, <2>1 DEF UpdateProposal, TypeOK
  <2> QED
    BY <1>1, <1>2, <1>8, <2>2, EndingStands DEF UpdateProposal
<1>9. ASSUME NEW o \in Proposals, DeleteProposal(q, o)
      PROVE  proposal'[p] = "none" \/ Stands(p)
  <2>1. CASE o = p
    BY <1>9, <2>1 DEF DeleteProposal, TypeOK
  <2>2. CASE o # p
    <3>1. proposal'[p] = proposal[p] /\ price'[p] = price[p]
      BY <1>9, <2>2 DEF DeleteProposal, TypeOK
    <3> QED
      BY <1>1, <1>2, <1>9, <3>1, EndingStands DEF DeleteProposal
  <2> QED
    BY <2>1, <2>2
<1> QED
  BY <1>3, <1>4, <1>5, <1>6, <1>7, <1>8, <1>9
  DEF BuyerProposalStep, SupplierRfqStep, SupplierProposalStep, AdminProposalStep

\* However requests overlap, the price of a proposal the supplier may not edit
\* any more stands, and is the one it is signed at, once no request in flight has
\* loaded the proposal otherwise (update_proposal, list_for_rfq, accept).
THEOREM KnownOffersAreFinal == Spec => KnownOfferIsFinal
<1>1. ASSUME TypeOK, Next, NEW p \in Proposals, KnownClosed(p)
      PROVE  proposal'[p] = "none" \/ Stands(p)
  <2>1. ASSUME NEW q \in Requests, Read(q) PROVE Stands(p)
    <3>1. UNCHANGED rows
      BY <2>1, ReadRows
    <3>2. \A r \in Requests : \/ req'[r].proposal[p] \in {"unread", "none"}
                              \/ req'[r].proposal[p] # "submitted" /\ req'[r].price[p] = price[p]
      BY <1>1, <2>1, ReadCopies DEF KnownClosed
    <3> QED
      BY <1>1, <3>1, <3>2 DEF Stands, KnownClosed, rows
  <2>2. ASSUME NEW q \in Requests, Done(q), UNCHANGED <<proposal, price, discussed, agreed, shown>>
        PROVE  Stands(p)
    BY <1>1, <2>2, EndingStands DEF KnownClosed
  <2> QED
    BY <1>1, <2>1, <2>2, RfqSteps, OffersStand DEF Next
<1>2. TypeOK /\ [Next]_vars =>
        [\A p \in Proposals : KnownClosed(p) =>
           \/ proposal'[p] = "none"
           \/ /\ KnownClosed(p)'
              /\ price'[p] = price[p]
              /\ agreed'[p] \in {agreed[p], price[p]}]_vars
  BY <1>1 DEF Stands
<1> QED
  BY <1>2, TypeCorrect, PTL DEF Spec, KnownOfferIsFinal

-----------------------------------------------------------------------------
(***************************************************************************)
(* How many proposals a supplier gets into an RFQ when requests overlap.   *)
(*                                                                         *)
(* submit looks for an earlier proposal in a SELECT of its own, with no    *)
(* unique index behind it, so overlapping submissions may all insert.      *)
(* OverlapInv counts those that still may, having found nothing, together  *)
(* with what is in: a request that looks once a proposal is in no longer   *)
(* joins them, and each of them inserts once.                              *)
(***************************************************************************)

OffersBy(s) == {p \in Proposals : Author(p) = s /\ proposal[p] # "none"}

MaySubmit(q, s) == req[q].kind = "rfq" /\ OffersLoaded(q) /\ ~ HasOffered(q, s)

Submitters(s) == {q \in Requests : MaySubmit(q, s)}

\* What a request about the RFQ knows of the proposals it loaded at once.
LoadedAtOnce ==
    \A q \in Requests : req[q].kind = "rfq" =>
        OffersLoaded(q) \/ \A p \in Proposals : req[q].proposal[p] = "unread"

OffersAreCovered ==
    \A s \in Suppliers :
        Cardinality(OffersBy(s)) + Cardinality(Submitters(s)) <= Cardinality(Requests)

OverlapInv == LoadedAtOnce /\ OffersAreCovered

\* Whether handlers interleave or not, each ends the request it belongs to.
LEMMA StepEnds ==
    ASSUME NEW q, \/ BuyerRfqStep(q) \/ AdminRfqStep(q)
                  \/ BuyerProposalStep(q) \/ SupplierRfqStep(q)
                  \/ SupplierProposalStep(q) \/ AdminProposalStep(q)
                  \/ \E status \in {"completed", "disputed"} : ContractMovesRfq(q, status)
                  \/ End(q)
    PROVE  Done(q)
BY RfqSteps DEF BuyerProposalStep, SupplierRfqStep, SupplierProposalStep, AdminProposalStep,
       ListForRfq, SetStatus, Accept, AddMessage, Submit, UpdateProposal, DeleteProposal

LEMMA OffersFinite == \A s \in Suppliers : IsFiniteSet(OffersBy(s))
<1> SUFFICES ASSUME NEW s \in Suppliers PROVE IsFiniteSet(OffersBy(s))
  OBVIOUS
<1>1. IsFiniteSet({s} \X (1..MaxOffers))
  <2>1. IsFiniteSet({s})
    BY FS_Singleton
  <2>2. IsFiniteSet(1..MaxOffers)
    BY FS_Interval, ConstantsAssumption
  <2> QED
    BY <2>1, <2>2, FS_Product
<1>2. OffersBy(s) \in SUBSET ({s} \X (1..MaxOffers))
  BY DEF OffersBy, Author, Proposals
<1> QED
  BY <1>1, <1>2, FS_Subset

\* Fewer of either, fewer together.
LEMMA FewerOfBoth ==
    ASSUME NEW A, NEW B, IsFiniteSet(A), IsFiniteSet(B),
           NEW C \in SUBSET A, NEW D \in SUBSET B,
           NEW n \in Nat, Cardinality(A) + Cardinality(B) <= n
    PROVE  Cardinality(C) + Cardinality(D) <= n
<1>1. /\ Cardinality(C) \in Nat /\ Cardinality(C) <= Cardinality(A)
      /\ Cardinality(D) \in Nat /\ Cardinality(D) <= Cardinality(B)
      /\ Cardinality(A) \in Nat /\ Cardinality(B) \in Nat
  BY FS_Subset, FS_CardinalityType
<1> QED
  BY <1>1

\* One of B becomes one of A.
LEMMA OneMovesOver ==
    ASSUME NEW A, NEW B, IsFiniteSet(A), IsFiniteSet(B), NEW x, NEW y \in B,
           NEW D \in SUBSET (B \ {y}),
           NEW n \in Nat, Cardinality(A) + Cardinality(B) <= n
    PROVE  Cardinality(A \cup {x}) + Cardinality(D) <= n
<1>1. /\ Cardinality(A \cup {x}) \in Nat
      /\ Cardinality(A \cup {x}) <= Cardinality(A) + 1
      /\ Cardinality(A) \in Nat /\ Cardinality(B) \in Nat
  <2>1. /\ IsFiniteSet(A \cup {x})
        /\ Cardinality(A \cup {x}) = IF x \in A THEN Cardinality(A) ELSE Cardinality(A) + 1
    BY FS_AddElement
  <2>2. Cardinality(A) \in Nat /\ Cardinality(B) \in Nat /\ Cardinality(A \cup {x}) \in Nat
    BY <2>1, FS_CardinalityType
  <2> QED
    BY <2>1, <2>2
<1>2. IsFiniteSet(B \ {y}) /\ Cardinality(B \ {y}) = Cardinality(B) - 1
  BY FS_RemoveElement
<1>3. Cardinality(D) \in Nat /\ Cardinality(D) <= Cardinality(B \ {y})
  BY <1>2, FS_Subset, FS_CardinalityType
<1> QED
  BY <1>1, <1>2, <1>3

\* The submissions that still may insert, once a request has ended.
LEMMA DoneSubmitters ==
    ASSUME TypeOK, LoadedAtOnce, NEW q \in Requests, Done(q)
    PROVE  /\ LoadedAtOnce'
           /\ \A s \in Suppliers : Submitters(s)' \in SUBSET (Submitters(s) \ {q})
<1>1. /\ req'[q].kind = "idle"
      /\ \A r \in Requests \ {q} : req'[r] = req[r]
  BY DEF Done, Idle, TypeOK
<1>2. LoadedAtOnce'
  BY <1>1 DEF LoadedAtOnce, OffersLoaded
<1>3. \A s \in Suppliers, r \in Requests : MaySubmit(r, s)' => r # q /\ MaySubmit(r, s)
  BY <1>1 DEF MaySubmit, OffersLoaded, HasOffered
<1> QED
  BY <1>2, <1>3 DEF Submitters

\* A request that looks for proposals joins them only if there is none.
LEMMA ReadSubmitters ==
    ASSUME TypeOK, LoadedAtOnce, NEW q \in Requests, Read(q)
    PROVE  /\ LoadedAtOnce'
           /\ \A s \in Suppliers :
                 OffersBy(s) = {} \/ Submitters(s)' \in SUBSET Submitters(s)
<1>1. req[q] \in LoadedRows /\ req \in [Requests -> LoadedRows]
  BY DEF TypeOK
<1>2. \A r \in Requests \ {q} : req'[r] = req[r]
  BY <1>1 DEF Read, BeginRfq, ReadInvited, BeginProposal, ReadRfq, ReadOffers, Load
<1> DEFINE Found(s) == OffersBy(s) = {} \/ (MaySubmit(q, s)' => MaySubmit(q, s))
           Whole == req'[q].kind = "rfq" =>
                       \/ \A p \in Proposals : req'[q].proposal[p] # "unread"
                       \/ \A p \in Proposals : req'[q].proposal[p] = "unread"
<1>3. Whole /\ \A s \in Suppliers : Found(s)
  <2>1. CASE BeginRfq(q)
    <3>1. \A p \in Proposals : req'[q].proposal[p] = "unread"
      BY <1>1, <2>1 DEF BeginRfq, Load, Idle
    <3>2. \A s \in Suppliers : <<s, 1>> \in Proposals
      BY ConstantsAssumption DEF Proposals
    <3> QED
      BY <3>1, <3>2 DEF MaySubmit, OffersLoaded
  <2>2. CASE ReadInvited(q)
    <3>1. /\ req[q].kind = "rfq" /\ req'[q].kind = "rfq"
          /\ req'[q].proposal = req[q].proposal
      BY <1>1, <2>2 DEF ReadInvited, Load, LoadedRows
    <3>2. Whole
      BY <3>1 DEF LoadedAtOnce, OffersLoaded
    <3>3. \A s \in Suppliers : MaySubmit(q, s)' => MaySubmit(q, s)
      BY <3>1 DEF MaySubmit, OffersLoaded, HasOffered
    <3> QED
      BY <3>2, <3>3
  <2>3. ASSUME NEW p \in Proposals, BeginProposal(q, p)
        PROVE  Whole /\ \A s \in Suppliers : Found(s)
    <3>1. req'[q].kind = "proposal"
      BY <1>1, <2>3 DEF BeginProposal, Load, Idle
    <3> QED
      BY <3>1 DEF MaySubmit
  <2>4. CASE ReadRfq(q)
    <3>1. req'[q].kind = "proposal"
      BY <1>1, <2>4 DEF ReadRfq, Load, LoadedRows
    <3> QED
      BY <3>1 DEF MaySubmit
  <2>5. CASE ReadOffers(q)
    <3>1. /\ req'[q].kind = req[q].kind
          /\ \A p \in Proposals :
                req'[q].proposal[p] = IF req[q].proposal[p] = "unread"
                                      THEN proposal[p] ELSE req[q].proposal[p]
          /\ ~ OffersLoaded(q)
      BY <1>1, <2>5 DEF ReadOffers, Load, LoadedRows
    <3>2. \A p \in Proposals : proposal[p] # "unread"
      BY DEF TypeOK, ProposalStatus
    <3>3. ASSUME NEW s \in Suppliers, NEW p \in OffersBy(s), req[q].kind = "rfq"
          PROVE  ~ MaySubmit(q, s)'
      <4>1. req[q].proposal[p] = "unread" /\ proposal[p] # "none" /\ Author(p) = s
        BY <3>1, <3>3 DEF LoadedAtOnce, OffersBy
      <4> QED
        BY <3>1, <4>1 DEF MaySubmit, HasOffered, OffersBy
    <3>4. \A s \in Suppliers : MaySubmit(q, s)' => req[q].kind = "rfq"
      BY <3>1 DEF MaySubmit
    <3> QED
      BY <3>1, <3>2, <3>3, <3>4
  <2> QED
    BY <2>1, <2>2, <2>3, <2>4, <2>5 DEF Read
<1>4. LoadedAtOnce'
  BY <1>2, <1>3 DEF LoadedAtOnce, OffersLoaded
<1>5. \A s \in Suppliers, r \in Requests \ {q} : MaySubmit(r, s)' => MaySubmit(r, s)
  BY <1>2 DEF MaySubmit, OffersLoaded, HasOffered
<1> QED
  BY <1>3, <1>4, <1>5 DEF Submitters

\* Of the handlers only submit inserts a proposal.
LEMMA NoNewOffers ==
    ASSUME TypeOK, NEW q \in Requests,
           \/ BuyerRfqStep(q) \/ BuyerProposalStep(q) \/ SupplierProposalStep(q)
           \/ AdminRfqStep(q) \/ AdminProposalStep(q) \/ End(q)
           \/ \E status \in {"completed", "disputed"} : ContractMovesRfq(q, status)
    PROVE  \A p \in Proposals : proposal[p] = "none" => proposal'[p] = "none"
<1>1. CASE ListForRfq(q)
  BY <1>1 DEF ListForRfq, Flushed, AfterListing, OffersLoaded, TypeOK
<1>2. ASSUME NEW p \in Proposals, NEW status, SetStatus(q, p, status)
      PROVE  \A o \in Proposals : proposal[o] = "none" => proposal'[o] = "none"
  BY <1>2 DEF SetStatus, ProposalLoaded, TypeOK
<1>3. ASSUME NEW p \in Proposals, Accept(q, p)
      PROVE  \A o \in Proposals : proposal[o] = "none" => proposal'[o] = "none"
  BY <1>3 DEF Accept, ProposalLoaded, Flushed, RejectedByAccept, TypeOK
<1>4. ASSUME NEW p \in Proposals,
             \/ AddMessage(q, p) \/ DeleteProposal(q, p)
             \/ \E x \in Prices : UpdateProposal(q, p, x)
      PROVE  \A o \in Proposals : proposal[o] = "none" => proposal'[o] = "none"
  BY <1>4 DEF AddMessage, DeleteProposal, UpdateProposal, TypeOK
<1> QED
  BY <1>1, <1>2, <1>3, <1>4, RfqSteps
     DEF BuyerProposalStep, SupplierProposalStep, AdminProposalStep

LEMMA OverlapInvInductive ==
    ASSUME IsFiniteSet(Requests), TypeOK, OverlapInv, [Next]_vars
    PROVE  OverlapInv'
<1>1. /\ Cardinality(Requests) \in Nat
      /\ \A s \in Suppliers :
            /\ IsFiniteSet(OffersBy(s))
            /\ IsFiniteSet(Submitters(s))
            /\ Cardinality(OffersBy(s)) + Cardinality(Submitters(s)) <= Cardinality(Requests)
  <2>1. \A s \in Suppliers : Submitters(s) \in SUBSET Requests
    BY DEF Submitters
  <2> QED
    BY <2>1, OffersFinite, FS_Subset, FS_CardinalityType DEF OverlapInv, OffersAreCovered
<1>2. ASSUME NEW s \in Suppliers, OffersBy(s)' \in SUBSET OffersBy(s),
             Submitters(s)' \in SUBSET Submitters(s)
      PROVE  Cardinality(OffersBy(s)') + Cardinality(Submitters(s)') <= Cardinality(Requests)
  BY <1>1, <1>2, FewerOfBoth
<1>3. ASSUME NEW q \in Requests, Read(q) PROVE OverlapInv'
  <2>1. \A s \in Suppliers : OffersBy(s)' = OffersBy(s)
    BY <1>3, ReadRows DEF OffersBy, rows
  <2>2. ASSUME NEW s \in Suppliers, OffersBy(s) = {}
        PROVE  Cardinality(OffersBy(s)') + Cardinality(Submitters(s)') <= Cardinality(Requests)
    <3>1. Submitters(s)' \in SUBSET Requests
      BY DEF Submitters
    <3>2. /\ Cardinality(Submitters(s)') \in Nat
          /\ Cardinality(Submitters(s)') <= Cardinality(Requests)
      BY <3>1, FS_Subset, FS_CardinalityType
    <3>3. OffersBy(s)' = {}
      BY <2>1, <2>2
    <3>4. Cardinality(OffersBy(s)') = 0
      BY <3>3, FS_EmptySet, Zenon
    <3> QED
      BY <1>1, <3>2, <3>4
  <2> QED
    BY <1>2, <1>3, <2>1, <2>2, ReadSubmitters DEF OverlapInv, OffersAreCovered
<1>4. ASSUME NEW q \in Requests, Done(q),
             \A p \in Proposals : proposal[p] = "none" => proposal'[p] = "none"
      PROVE  OverlapInv'
  <2>1. \A s \in Suppliers : OffersBy(s)' \in SUBSET OffersBy(s)
    BY <1>4 DEF OffersBy
  <2> QED
    BY <1>2, <1>4, <2>1, DoneSubmitters DEF OverlapInv, OffersAreCovered
<1>5. ASSUME NEW q \in Requests, SupplierRfqStep(q) PROVE OverlapInv'
  <2>1. PICK p \in Proposals, x \in Prices : Submit(q, p, x)
    BY <1>5 DEF SupplierRfqStep
  <2>2. LoadedAtOnce' /\ \A s \in Suppliers : Submitters(s)' \in SUBSET (Submitters(s) \ {q})
    BY <2>1, DoneSubmitters DEF Submit, OverlapInv
  <2>3. ASSUME NEW s \in Suppliers, s # Author(p)
        PROVE  Cardinality(OffersBy(s)') + Cardinality(Submitters(s)') <= Cardinality(Requests)
    <3>1. OffersBy(s)' \in SUBSET OffersBy(s)
      BY <2>1, <2>3 DEF Submit, OffersBy, TypeOK
    <3> QED
      BY <1>2, <2>2, <3>1
  <2>4. ASSUME NEW s \in Suppliers, s = Author(p)
        PROVE  Cardinality(OffersBy(s)') + Cardinality(Submitters(s)') <= Cardinality(Requests)
    <3>1. q \in Submitters(s)
      BY <2>1, <2>4 DEF Submit, Submitters, MaySubmit, RfqLoaded
    <3>2. OffersBy(s)' = OffersBy(s) \cup {p}
      BY <2>1, <2>4 DEF Submit, OffersBy, TypeOK
    <3>3. Cardinality(OffersBy(s) \cup {p}) + Cardinality(Submitters(s)')
              <= Cardinality(Requests)
      BY <1>1, <2>2, <3>1, OneMovesOver
    <3> QED
      BY <3>2, <3>3, Zenon
  <2> QED
    BY <2>2, <2>3, <2>4 DEF OverlapInv, OffersAreCovered
<1>6. CASE UNCHANGED vars
  BY <1>6 DEF vars, OverlapInv, LoadedAtOnce, OffersLoaded, OffersAreCovered, OffersBy,
              Submitters, MaySubmit, HasOffered
<1> QED
  <2>1. ASSUME NEW q \in Requests,
               \/ BuyerRfqStep(q) \/ BuyerProposalStep(q) \/ SupplierProposalStep(q)
               \/ AdminRfqStep(q) \/ AdminProposalStep(q) \/ End(q)
               \/ \E status \in {"completed", "disputed"} : ContractMovesRfq(q, status)
        PROVE  OverlapInv'
    <3>1. Done(q)
      BY <2>1, RfqSteps, StepEnds
    <3> QED
      BY <1>4, <2>1, <3>1, NoNewOffers
  <2> QED
    BY <1>3, <1>5, <1>6, <2>1 DEF Next

\* Nothing but the check of submit keeps a supplier to one proposal, and that
\* check overlapping submissions defeat; still each request adds one at most,
\* so a supplier never has more proposals in an RFQ than requests overlap, and
\* one if they do not.
THEOREM ProposalsAreBounded ==
    ASSUME IsFiniteSet(Requests)
    PROVE  Spec => [](\A s \in Suppliers : Cardinality(OffersBy(s)) <= Cardinality(Requests))
<1>1. Init => OverlapInv
  <2> SUFFICES ASSUME Init PROVE OverlapInv
    OBVIOUS
  <2>1. LoadedAtOnce
    BY DEF Init, Idle, LoadedAtOnce
  <2>2. ASSUME NEW s \in Suppliers
        PROVE  OffersBy(s) = {} /\ Submitters(s) = {}
    BY DEF Init, Idle, OffersBy, Submitters, MaySubmit
  <2>3. Cardinality({}) = 0 /\ Cardinality(Requests) \in Nat
    BY FS_EmptySet, FS_CardinalityType
  <2>4. ASSUME NEW s \in Suppliers
        PROVE  Cardinality(OffersBy(s)) = 0 /\ Cardinality(Submitters(s)) = 0
    BY <2>2, <2>3, Zenon
  <2>5. OffersAreCovered
    BY <2>3, <2>4 DEF OffersAreCovered
  <2> QED
    BY <2>1, <2>5 DEF OverlapInv
<1>2. TypeOK /\ OverlapInv /\ [Next]_vars => OverlapInv'
  BY OverlapInvInductive
<1>3. OverlapInv => \A s \in Suppliers : Cardinality(OffersBy(s)) <= Cardinality(Requests)
  <2> SUFFICES ASSUME OverlapInv, NEW s \in Suppliers
               PROVE  Cardinality(OffersBy(s)) <= Cardinality(Requests)
    OBVIOUS
  <2>1. Submitters(s) \in SUBSET Requests
    BY DEF Submitters
  <2>2. /\ Cardinality(OffersBy(s)) \in Nat
        /\ Cardinality(Submitters(s)) \in Nat
        /\ Cardinality(Requests) \in Nat
    BY <2>1, OffersFinite, FS_Subset, FS_CardinalityType
  <2>3. Cardinality(OffersBy(s)) + Cardinality(Submitters(s)) <= Cardinality(Requests)
    BY DEF OverlapInv, OffersAreCovered
  <2> QED
    BY <2>2, <2>3
<1> QED
  BY <1>1, <1>2, <1>3, TypeCorrect, PTL DEF Spec

-----------------------------------------------------------------------------
(***************************************************************************)
(* One request at a time.                                                  *)
(***************************************************************************)

\* What a request that nothing overlaps has loaded is what the rows hold.
Current(q) ==
    /\ req[q].rfq \in {"unread", rfq}
    /\ req[q].kind = "rfq" => req[q].rfq = rfq /\ req[q].visibility = visibility
    /\ req[q].invited \in {{"unread"}, invited}
    /\ \A p \in Proposals : req[q].proposal[p] \in {"unread", proposal[p]}
    /\ \A p \in Proposals : req[q].proposal[p] # "unread" => req[q].price[p] = price[p]

\* A request that just ended has nothing loaded.
LEMMA DoneCurrent ==
    ASSUME TypeOK, NEW q \in Requests, Done(q)
    PROVE  Current(q)'
BY DEF Done, Idle, Current, TypeOK

\* Each SELECT loads what the rows hold.
LEMMA ReadCurrent ==
    ASSUME TypeOK, NEW q \in Requests, Current(q), Read(q)
    PROVE  Current(q)'
<1>1. req[q] \in LoadedRows /\ req \in [Requests -> LoadedRows]
  BY DEF TypeOK
<1>2. UNCHANGED rows
  BY ReadRows
<1>3. CASE BeginRfq(q)
  BY <1>1, <1>2, <1>3 DEF BeginRfq, Load, Idle, Current, rows
<1>4. CASE ReadInvited(q)
  <2>1. req'[q] = [req[q] EXCEPT !.invited = invited]
    BY <1>1, <1>4 DEF ReadInvited, Load
  <2>2. /\ req'[q].kind = req[q].kind /\ req'[q].rfq = req[q].rfq
        /\ req'[q].visibility = req[q].visibility /\ req'[q].invited = invited
        /\ req'[q].proposal = req[q].proposal /\ req'[q].price = req[q].price
    BY <1>1, <2>1 DEF LoadedRows
  <2> QED
    BY <1>2, <2>2 DEF Current, rows
<1>5. ASSUME NEW p \in Proposals, BeginProposal(q, p) PROVE Current(q)'
  BY <1>1, <1>2, <1>5 DEF BeginProposal, Load, Idle, Current, rows
<1>6. CASE ReadRfq(q)
  <2>1. req'[q] = [req[q] EXCEPT !.rfq = rfq] /\ req[q].kind = "proposal"
    BY <1>1, <1>6 DEF ReadRfq, Load
  <2>2. /\ req'[q].kind = "proposal" /\ req'[q].rfq = rfq /\ req'[q].invited = req[q].invited
        /\ req'[q].proposal = req[q].proposal /\ req'[q].price = req[q].price
    BY <1>1, <2>1 DEF LoadedRows
  <2> QED
    BY <1>2, <2>2 DEF Current, rows
<1>7. CASE ReadOffers(q)
  <2> DEFINE fresh == {p \in Proposals : req[q].proposal[p] = "unread"}
             statuses == [p \in Proposals |->
                             IF p \in fresh THEN proposal[p] ELSE req[q].proposal[p]]
             prices == [p \in Proposals |-> IF p \in fresh THEN price[p] ELSE req[q].price[p]]
  <2>1. req'[q] = [req[q] EXCEPT !.proposal = statuses, !.price = prices]
    BY <1>1, <1>7 DEF ReadOffers, Load, LoadedRows
  <2>2. /\ \A p \in Proposals : statuses[p] \in {"unread", proposal[p]}
        /\ \A p \in Proposals : prices[p] = price[p]
    BY DEF Current
  <2> HIDE DEF statuses, prices
  <2>3. /\ req'[q].kind = req[q].kind /\ req'[q].rfq = req[q].rfq
        /\ req'[q].visibility = req[q].visibility /\ req'[q].invited = req[q].invited
        /\ req'[q].proposal = statuses /\ req'[q].price = prices
    BY <1>1, <2>1 DEF LoadedRows
  <2> QED
    BY <1>2, <2>2, <2>3 DEF Current, rows
<1> QED
  BY <1>3, <1>4, <1>5, <1>6, <1>7 DEF Read

\* With no other request running, what a request has loaded of the
\* RFQ and the proposals is what is stored (get_db).
THEOREM RequestsAreCurrent ==
    ASSUME NEW q, Requests = {q}
    PROVE  Spec => []Current(q)
<1>1. Init => Current(q)
  BY DEF Init, Current, Idle
<1>2. TypeOK /\ Current(q) /\ [Next]_vars => Current(q)'
  <2> SUFFICES ASSUME TypeOK, Current(q), [Next]_vars PROVE Current(q)'
    OBVIOUS
  <2>1. CASE Next
    BY <2>1, StepEnds, DoneCurrent, ReadCurrent DEF Next
  <2>2. CASE UNCHANGED vars
    BY <2>2 DEF vars, Current
  <2> QED
    BY <2>1, <2>2
<1> QED
  BY <1>1, <1>2, TypeCorrect, PTL DEF Spec

-----------------------------------------------------------------------------
\* The RFQ of a contract takes no more proposals and offers.
Over == rfq \notin {"draft", "published", "receiving_proposals"}

MarketInv ==
    /\ \A o, p \in Proposals : proposal[o] = "accepted" /\ proposal[p] = "accepted" => o = p
    /\ (\E p \in Proposals : Signed(p)) =>
           /\ Over
           /\ \A p \in Proposals : proposal[p] \notin {"submitted", "viewed"}

\* Only a draft lets its visibility be edited, and a draft has no proposals.
EntitledInv ==
    /\ OneEntitledProposalEach
    /\ \A p \in Proposals : proposal[p] # "none" => rfq \notin {"draft", "deleted"}

\* What was shown or signed cannot be edited any more.
ShownInv ==
    \A p \in Proposals :
        /\ shown[p] # NoPrice => shown[p] = price[p] /\ proposal[p] \notin {"none", "submitted"}
        /\ Signed(p) => agreed[p] = price[p] /\ proposal[p] \notin {"none", "submitted"}

SerialInv == MarketInv /\ EntitledInv /\ ShownInv

\* The handlers that touch the RFQ.
LEMMA SerialRfqSteps ==
    ASSUME TypeOK, SerialInv, NEW q \in Requests, Current(q),
           \/ BuyerRfqStep(q)
           \/ AdminRfqStep(q)
           \/ \E status \in {"completed", "disputed"} : ContractMovesRfq(q, status)
           \/ End(q)
    PROVE  SerialInv'
<1> USE DEF Current
<1>1. UNCHANGED <<proposal, price, discussed, agreed, shown>>
  BY RfqSteps
<1>2. ShownInv'
  BY <1>1 DEF SerialInv, ShownInv, Signed
<1>3. ASSUME Over => Over', invited \subseteq invited', visibility' = visibility,
             rfq \notin {"draft", "deleted"} => rfq' \notin {"draft", "deleted"}
      PROVE  SerialInv'
  BY <1>1, <1>2, <1>3 DEF SerialInv, MarketInv, EntitledInv, OneEntitledProposalEach, Signed
<1>4. ASSUME NEW v \in Visibility, Update(q, v) PROVE SerialInv'
  <2>1. rfq = "draft" /\ UNCHANGED rfq
    BY <1>4 DEF Update, Draft, RfqLoaded
  <2>2. \A p \in Proposals : proposal[p] = "none"
    BY <2>1 DEF SerialInv, EntitledInv
  <2> QED
    BY <1>1, <1>2, <2>1, <2>2
    DEF SerialInv, MarketInv, EntitledInv, OneEntitledProposalEach, Signed, Over
<1>5. CASE Publish(q)
  <2>1. rfq = "draft" /\ rfq' = "receiving_proposals"
    BY <1>5 DEF Publish, Publishable, Draft, RfqLoaded, SetRfq, Flushed
  <2> QED
    BY <1>3, <1>5, <2>1 DEF Publish, Over
<1>6. CASE Close(q)
  BY <1>3, <1>6 DEF Close, RfqLoaded, SetRfq, Flushed, Over
<1>7. ASSUME NEW s \in Suppliers, InviteSuppliers(q, s) PROVE SerialInv'
  BY <1>3, <1>7 DEF InviteSuppliers, Over
<1>8. CASE AdminClose(q)
  BY <1>3, <1>8 DEF AdminClose, SetRfq, Flushed, Over
<1>9. CASE Archive(q)
  BY <1>3, <1>9 DEF Archive, SetRfq, Flushed, Over
<1>10. CASE DeleteDraft(q)
  BY <1>1, <1>2, <1>10
  DEF DeleteDraft, RfqLoaded, SerialInv, MarketInv, EntitledInv, OneEntitledProposalEach, Signed, Over
<1>11. ASSUME NEW status \in {"completed", "disputed"}, ContractMovesRfq(q, status)
       PROVE  SerialInv'
  BY <1>3, <1>11 DEF ContractMovesRfq, SetRfq, Flushed, Over
<1>12. CASE End(q)
  BY <1>3, <1>12 DEF End, rows, Over
<1> QED
  BY <1>4, <1>5, <1>6, <1>7, <1>8, <1>9, <1>10, <1>11, <1>12 DEF BuyerRfqStep, AdminRfqStep

\* The handlers that touch a proposal.
LEMMA SerialProposalSteps ==
    ASSUME TypeOK, SerialInv, NEW q \in Requests, Current(q),
           \/ BuyerProposalStep(q)
           \/ SupplierRfqStep(q)
           \/ SupplierProposalStep(q)
           \/ AdminProposalStep(q)
    PROVE  SerialInv'
<1> USE DEF SerialInv, Current
\* Who changes neither the RFQ nor which proposals there are keeps EntitledInv.
<1>1. ASSUME UNCHANGED <<rfq, visibility, invited>>,
             \A p \in Proposals : proposal'[p] # "none" => proposal[p] # "none"
      PROVE  EntitledInv'
  BY <1>1 DEF EntitledInv, OneEntitledProposalEach
\* Who signs, accepts and opens nothing keeps MarketInv.
<1>2. ASSUME UNCHANGED <<rfq, agreed>>,
             \A p \in Proposals : proposal'[p] = "accepted" => proposal[p] = "accepted",
             \A p \in Proposals :
                 proposal'[p] \in {"submitted", "viewed"} => proposal[p] \in {"submitted", "viewed"}
      PROVE  MarketInv'
  BY <1>2 DEF MarketInv, Signed, Over
<1>3. CASE ListForRfq(q)
  <2>1. \A p \in Proposals : proposal'[p] = AfterListing(proposal[p])
    BY <1>3 DEF ListForRfq, OffersLoaded, Flushed, AfterListing
  <2>2. EntitledInv' /\ MarketInv'
    BY <1>1, <1>2, <1>3, <2>1 DEF ListForRfq, AfterListing
  <2>3. \A p \in Proposals : shown'[p] = IF proposal[p] # "none" THEN price[p] ELSE shown[p]
    BY <1>3 DEF ListForRfq, OffersLoaded
  <2>4. ShownInv'
    BY <1>3, <2>1, <2>3 DEF ListForRfq, AfterListing, ShownInv, Signed
  <2> QED
    BY <2>2, <2>4
<1>4. ASSUME NEW p \in Proposals, NEW status \in {"shortlisted", "rejected", "withdrawn"},
             SetStatus(q, p, status)
      PROVE  SerialInv'
  <2>1. proposal[p] # "none" /\ proposal' = [proposal EXCEPT ![p] = status]
    BY <1>4 DEF SetStatus, ProposalLoaded, Flushed, TypeOK
  <2> QED
    BY <1>1, <1>2, <1>4, <2>1 DEF SetStatus, ShownInv, Signed, TypeOK
<1>5. ASSUME NEW p \in Proposals, Accept(q, p) PROVE SerialInv'
  <2>1. /\ proposal[p] # "none"
        /\ \A o \in Proposals : proposal'[o] = IF o = p THEN "accepted" ELSE RejectedByAccept(proposal[o])
    BY <1>5 DEF Accept, ProposalLoaded, OffersLoaded, Flushed, RejectedByAccept
  <2>2. rfq # "deleted" /\ rfq' = "contract_created"
    BY <1>5 DEF Accept
  <2>3. MarketInv'
    BY <2>1, <2>2 DEF MarketInv, RejectedByAccept, Over
  <2>4. EntitledInv'
    BY <1>5, <2>1, <2>2 DEF Accept, EntitledInv, OneEntitledProposalEach, RejectedByAccept
  <2>5. \A o \in Proposals : agreed'[o] = IF o = p THEN price[p] ELSE agreed[o]
    BY <1>5 DEF Accept, OffersLoaded, TypeOK
  <2>6. ShownInv'
    BY <1>5, <2>1, <2>5 DEF Accept, ShownInv, Signed, RejectedByAccept
  <2> QED
    BY <2>3, <2>4, <2>6
<1>6. ASSUME NEW p \in Proposals, AddMessage(q, p) PROVE SerialInv'
  BY <1>1, <1>2, <1>6 DEF AddMessage, ShownInv, Signed
<1>7. ASSUME NEW p \in Proposals, NEW x \in Prices, Submit(q, p, x) PROVE SerialInv'
  <2>1. /\ rfq \in {"published", "receiving_proposals"}
        /\ visibility = "invited_only" => Author(p) \in invited
        /\ \A o \in Proposals : Author(o) = Author(p) => proposal[o] = "none"
    BY <1>7 DEF Submit, RfqLoaded, OffersLoaded, HasOffered
  <2>2. EntitledInv'
    BY <1>7, <2>1 DEF Submit, EntitledInv, OneEntitledProposalEach, TypeOK
  <2>3. shown[p] = NoPrice /\ ~ Signed(p)
    BY <1>7 DEF Submit, ShownInv
  <2>4. ShownInv'
    BY <1>7, <2>3 DEF Submit, ShownInv, Signed, TypeOK
  <2>5. \A o \in Proposals : ~ Signed(o)
    BY <2>1 DEF MarketInv, Over
  <2>6. MarketInv'
    BY <1>7, <2>5 DEF Submit, MarketInv, Signed, TypeOK
  <2> QED
    BY <2>2, <2>4, <2>6
<1>8. ASSUME NEW p \in Proposals, NEW x \in Prices, UpdateProposal(q, p, x) PROVE SerialInv'
  <2>1. proposal[p] = "submitted"
    BY <1>8 DEF UpdateProposal, ProposalLoaded, Editable
  <2>2. shown[p] = NoPrice /\ ~ Signed(p)
    BY <2>1 DEF ShownInv
  <2> QED
    BY <1>1, <1>2, <1>8, <2>2 DEF UpdateProposal, ShownInv, Signed, TypeOK
<1>9. ASSUME NEW p \in Proposals, DeleteProposal(q, p) PROVE SerialInv'
  BY <1>1, <1>2, <1>9 DEF DeleteProposal, Deletable, ShownInv, Signed, TypeOK
<1> QED
  BY <1>3, <1>4, <1>5, <1>6, <1>7, <1>8, <1>9
  DEF BuyerProposalStep, SupplierRfqStep, SupplierProposalStep, AdminProposalStep

\* The invariant of requests that follow one another.
LEMMA SerialInvariant ==
    ASSUME NEW q, Requests = {q}
    PROVE  Spec => []SerialInv
<1>1. Init => SerialInv
  BY DEF Init, SerialInv, MarketInv, EntitledInv, OneEntitledProposalEach, ShownInv, Signed
<1>2. TypeOK /\ SerialInv /\ Current(q) /\ [Next]_vars => SerialInv'
  <2> SUFFICES ASSUME TypeOK, SerialInv, Current(q), [Next]_vars PROVE SerialInv'
    OBVIOUS
  <2>1. CASE UNCHANGED rows
    BY <2>1
    DEF rows, SerialInv, MarketInv, EntitledInv, OneEntitledProposalEach, ShownInv, Signed, Over
  <2>2. CASE Next
    BY <2>1, <2>2, ReadRows, SerialRfqSteps, SerialProposalSteps DEF Next
  <2>3. CASE UNCHANGED vars
    BY <2>1, <2>3 DEF vars, rows
  <2> QED
    BY <2>2, <2>3
<1> QED
  BY <1>1, <1>2, TypeCorrect, RequestsAreCurrent, PTL DEF Spec

\* One request at a time, at most one proposal is accepted, and an RFQ with a
\* contract is on no board and has no proposal left that waits to be accepted
\* (accept, publish, the boards).
THEOREM SignedRfqsAreOffTheMarket ==
    ASSUME NEW q, Requests = {q}
    PROVE  Spec => []SignedRfqIsOffTheMarket
<1>1. SerialInv => SignedRfqIsOffTheMarket
  BY DEF SerialInv, MarketInv, Over, SignedRfqIsOffTheMarket, OnPublicBoard, OnBoardOf
<1> QED
  BY <1>1, SerialInvariant, PTL

\* One request at a time, a supplier has one proposal in an RFQ, and has it by
\* right (submit, update).
THEOREM ProposalsAreEntitled ==
    ASSUME NEW q, Requests = {q}
    PROVE  Spec => []OneEntitledProposalEach
<1>1. SerialInv => OneEntitledProposalEach
  BY DEF SerialInv, EntitledInv
<1> QED
  BY <1>1, SerialInvariant, PTL

\* One request at a time, the buyer signs at the price it was shown
\* (update_proposal, accept).
THEOREM ContractsAreAtShownPrice ==
    ASSUME NEW q, Requests = {q}
    PROVE  Spec => []SignedAtShownPrice
<1>1. SerialInv => SignedAtShownPrice
  BY DEF SerialInv, ShownInv, SignedAtShownPrice
<1> QED
  BY <1>1, SerialInvariant, PTL
=============================================================================
