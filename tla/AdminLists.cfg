SPECIFICATION WalkSpec
CONSTANTS
    MaxRows = 5
    PageSize = 2
    MaxChanges = 3
CHECK_DEADLOCK FALSE
INVARIANT WalkMissesOnlyMoved
PROPERTY ClampedPageHasRows
