SPECIFICATION Spec
CONSTANTS
    outside = outside
    registry = registry
    startPos = startPos
    Storage = {outside, registry}
    Matches <- MCMatches
    Usable = {registry}
    Registry = registry
    NoStorage = NoStorage
    OtherProbes = {startPos}
    SessionPeriod = 2
    SendPeriod = 1
    TickMod = 2
INVARIANTS
    TypeOK
PROPERTIES
    Recovers
    FollowsGame
    ActiveIsTrue
    Replicates
