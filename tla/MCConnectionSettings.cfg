SPECIFICATION Spec
CONSTANTS
    r1 = r1
    r2 = r2
    Robots <- MCRobots
    Ports = {1, 2}
    DefaultPort = 1
    None = None
    Other = Other
    Malformed = Malformed
INVARIANTS
    ConnectionInv
    NeverLocksItselfOut
PROPERTIES
    SavedIsUsed
