CONSTANTS
    None = None
    Leaves = {l1, l2}
    Projects = {p1, p2}
    Archives = TRUE
    DeleteMode = "after-grace"
    Scoped = TRUE
    MaxFaults = 1
SPECIFICATION Spec
SYMMETRY Symmetry
INVARIANTS
    TypeOK
    OneProjectPerNode
    OneNodePerProject
PROPERTIES
    NoSecondProject
    EndsOnlyRetired
    RemovedOnlyWithoutProject
    DeletionDayStays
