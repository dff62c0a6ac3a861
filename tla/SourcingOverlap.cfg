SPECIFICATION Spec
CONSTANTS
    Created = {"receiving_proposals"}
    Suppliers = {s1}
    MaxOffers = 1
    MaxDiscussed = 1
    Prices = {1, 2}
    Requests = {q1, q2}
SYMMETRY Symmetry
CHECK_DEADLOCK FALSE
INVARIANT ContractHasProposal
PROPERTY KnownOfferIsFinal
