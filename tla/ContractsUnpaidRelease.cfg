SPECIFICATION Spec
CONSTANTS
    Milestones = {m1, m2}
    Submissions = {s1}
    Disputes = {d1}
    Requests = {q1}
    MaxEntries = 1
SYMMETRY Symmetry
INVARIANT ReleasedWasPaid
