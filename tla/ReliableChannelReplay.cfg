SPECIFICATION Spec
CONSTANTS
    W = 2
    ResendDelay = 2
    MaxRetries = 1
    TimeMod = 16
    MaxSeq = 3
    MaxTime = 2
    MaxHeaders = 1
INVARIANTS
    NoReplay
CHECK_DEADLOCK FALSE
