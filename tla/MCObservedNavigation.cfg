SPECIFICATION Spec
CONSTANTS
    Tasks = {t1, t2}
    None = None
    QueueSize = 3
    MaxStream = 1
    MaxRecordings = 3
SYMMETRY Symmetry
INVARIANTS
    TypeOK
    SinkFollowsObserver
    OnlyTheActiveIsOpen
    OneTaskPerRecording
    RunningTaskIsRecorded
PROPERTIES
    IsTaskRecorder
CHECK_DEADLOCK FALSE
