SPECIFICATION Spec
CONSTANTS
    Tasks = {t1, t2}
    None = None
    QueueSize = 3
    MaxStream = 1
    MaxRecordings = 3
SYMMETRY Symmetry
INVARIANTS
    RecordsFromSnapshot
CHECK_DEADLOCK FALSE
