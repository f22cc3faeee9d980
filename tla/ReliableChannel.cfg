SPECIFICATION Spec
CONSTANTS
    W = 2
    ResendDelay = 2
    MaxRetries = 1
    TimeMod = 16
    MaxSeq = 4
    MaxTime = 3
    MaxHeaders = 1
INVARIANTS
    TypeOK
    AckSound
    ReplayOnlyAtEdge
    NoFalseDuplicate
PROPERTIES
    ResendSpaced
    ImplementsDelivery
