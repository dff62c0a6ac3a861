SPECIFICATION Spec
CONSTANTS
    Milestones = {m1, m2}
    Submissions = {s1, s2}
    Disputes = {d1, d2}
    Requests = {q1}
    MaxEntries = 2
SYMMETRY Symmetry
INVARIANT TypeOK
INVARIANT HeldIsShownAsHeld
INVARIANT InvoicedStaysReleased
PROPERTY ResolvedIsFinal
PROPERTY ImplementsEscrow
