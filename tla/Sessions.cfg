SPECIFICATION Spec
CONSTANTS
    MaxTime = 5
    Limit = 1
    Window = 3
    Tokens = {t1, t2}
    Lifetime = 4
    MaxLost = 1
SYMMETRY Symmetry
CHECK_DEADLOCK FALSE
INVARIANT AtMostTwiceTheLimit
INVARIANT PatientIsLetIn
INVARIANT LoggedOutIsRefused
