SPECIFICATION Spec
SYMMETRY Symmetry
CONSTANTS
    e1 = e1
    e2 = e2
    Endpoint = {e1, e2}
    Place = {1, 3}
    MaxStep = 1
    ClientTimeout = 1
    ResumeGrace = 1
    IdSpace = 3
    NoOne = NoOne
    MaxSessions = 3
    MaxTime = 6
    MaxGap = 2
INVARIANTS
    TypeOK
    OneHolder
    IdsDistinct
PROPERTIES
    NoTeleport
    SessionSurvives
    NoLateResume
    GoodbyePrompt
