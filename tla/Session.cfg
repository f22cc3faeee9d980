SPECIFICATION Spec
CONSTANTS
    W = 2
    ServerPatience = 4
    ClientPatience = 3
    ResumeGrace = 1
    HelloDelay = 2
    HeartbeatDelay = 4
    ResendDelay = 1
    MaxRetries = 1
    MaxDelay = 1
    Nothing = Nothing
    MaxClientSeq = 3
    MaxServerSeq = 3
    MaxTime = 12
INVARIANTS
    TypeOK
    IdentityAgreement
    HelloAckSound
PROPERTIES
    OneSessionPerClient
CHECK_DEADLOCK FALSE
