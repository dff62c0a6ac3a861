SPECIFICATION Spec
CONSTANTS
    Created <- AnyStatus
    Suppliers = {s1, s2}
    MaxOffers = 2
    MaxDiscussed = 1
    Prices = {1, 2}
    Requests = {q1}
SYMMETRY Symmetry
CHECK_DEADLOCK FALSE
INVARIANT SignedRfqIsOffTheMarket
INVARIANT OneEntitledProposalEach
INVARIANT SignedAtShownPrice
