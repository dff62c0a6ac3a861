SPECIFICATION Spec
CONSTANTS
    Milestones = {m1}
    Submissions = {}
    Disputes = {d1, d2}
    Requests = {q1, q2}
    MaxEntries = 1
SYMMETRY Symmetry
INVARIANT PendingPaymentIsUntouched
INVARIANT InvoicedWasPaid
INVARIANT DisputedHasActiveDispute
INVARIANT AppealFollowsDecision
PROPERTY UnpaidSettledOnlyByDecision
PROPERTY KnownOutcomeIsFinal
