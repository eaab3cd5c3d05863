SPECIFICATION Spec
CONSTANTS
    r1 = r1
    r2 = r2
    Robots <- MCRobots
    MaxThreads = 2
    MaxGeneration = 1
    MaxClicks = 2
    MaxFeed = 2
SYMMETRY MCSymmetry
INVARIANTS
    TypeOK
    PendingHasCommand
    SingleFlight
    SettledAgreement
CHECK_DEADLOCK FALSE
