SPECIFICATION Spec
CONSTANTS
    W = 2
    ServerPatience = 2
    ClientPatience = 2
    ResumeGrace = 1
    HelloDelay = 1
    HeartbeatDelay = 2
    ResendDelay = 1
    MaxRetries = 1
    MaxDelay = 0
    Nothing = Nothing
    MaxClientSeq = 4
    MaxServerSeq = 3
    MaxTime = 11
PROPERTIES
    NewerState
CHECK_DEADLOCK FALSE
