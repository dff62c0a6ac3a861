SPECIFICATION Spec
CONSTANTS
    Users = {u1, u2}
    Companies = {c1}
SYMMETRY Symmetry
INVARIANT EverySideHasItsActor
INVARIANT SuperadminIsNotBlocked
INVARIANT VerifiedTrustWasGranted
PROPERTY DisabledSideReturnsOnlyByAdmin
