SPECIFICATION Spec
CONSTANTS
    Robots = {r1, r2}
    Tasks = {t1, t2}
    None = None
    MaxRecordings = 2
SYMMETRY Symmetry
INVARIANTS
    TypeOK
    OneRobotOneTask
    RunningTaskIsRecorded
    RecordingHasTheMap
PROPERTIES
    FinishedIsFrozen
    DeletedStaysDeleted
    IsTaskRecorder
CHECK_DEADLOCK FALSE
