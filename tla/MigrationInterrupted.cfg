SPECIFICATION Spec
CONSTANTS
    Rows = {r1, r2}
    MaxCrashes = 1
CHECK_DEADLOCK FALSE
INVARIANT NothingIsLost
