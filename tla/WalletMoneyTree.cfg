CONSTANTS
    MaxVersion = 2
    MaxKeys = 1
    MaxFaults = 2
    SqlMayFail = TRUE
SPECIFICATION Spec
CHECK_DEADLOCK FALSE
INVARIANTS TypeOK RestartIdempotent
