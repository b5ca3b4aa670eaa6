CONSTANTS
    Worker = {w1, w2}
    NMap = 3
    NReduce = 2
    Pieces = 2
    MayCrash = {w1}
    SlowTasks <- MapsAndOneReduce
SPECIFICATION Spec
CHECK_DEADLOCK FALSE
INVARIANTS
    TypeOK
    ReduceFindsInput
    FastOutputsComplete
PROPERTIES
    InstalledOnce
    JobFinishes
