SPECIFICATION Spec
CONSTANTS
    Image <- MCImage
    Expected <- MCExpected
    HeaderSize = 1
    NoResult = NoResult
    OfGame = OfGame
    MaxClients = 3
INVARIANTS
    TypeOK
    CleanReturn
    RunsWithClient
    GatesAgree
    SafeWhenAlone
PROPERTIES
    GoodbyeBeforeReset
    Returns
    WorkerEnds
CHECK_DEADLOCK FALSE
