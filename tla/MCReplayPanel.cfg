SPECIFICATION Spec
CONSTANTS
    t1 = t1
    t2 = t2
    Tasks <- MCTasks
    None = None
    MaxDirs = 3
SYMMETRY Symmetry
INVARIANTS
    TypeOK
PROPERTIES
    PanelStaysTrue
    DeletionIsExact
