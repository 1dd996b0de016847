CONSTANTS
    MaxVersion = 2
    MaxKeys = 0
    MaxFaults = 1
    SqlMayFail = FALSE
SPECIFICATION Spec
CHECK_DEADLOCK FALSE
INVARIANT TreeNeverRegresses
