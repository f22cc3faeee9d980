SPECIFICATION Spec
CONSTANTS
    p1 = p1
    Player = {p1}
    Place = {0, 3}
    Speed = {0, 1}
    Delay = 2
    MaxExtrapolation = 2
    Capacity = 3
    MaxTick = 5
INVARIANTS
    TypeOK
    Ordered
    ThroughSamples
    NoLeap
PROPERTIES
    PastStable
