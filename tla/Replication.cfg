SPECIFICATION Spec
CONSTANTS
    p = p
    q = q
    Player = {p, q}
    Viewer = {p}
    Bystander <- MCBystander
    Place = {0, 1, 2}
    Speed = 1
    Window = 1
    Radius = 1
    MaxDelay = 1
    MaxAge = 3
    Base = 16
    Magic = 20550
    Version = 1
    Refused = Refused
    DatagramLimit = 114
    MessageLimit = 4096
    SnapshotLimit = 64
    Unseen = Unseen
INVARIANTS
    RoundTrip
    TypeOK
    HonestAccepted
    InterestFollowsTruth
PROPERTIES
    Converges
