SPECIFICATION Spec
CONSTANTS
    r1 = r1
    r2 = r2
    Robots <- MCRobots
    None = None
    MaxVersion = 3
INVARIANTS
    CachedIsShown
    PosesFitTheMap
    RecordingHasTheImage
