CONSTANTS
    Worker = {w1, w2}
    NMap = 1
    NReduce = 1
    Pieces = 2
    MayCrash = {}
    SlowTasks <- MapsAndOneReduce
SPECIFICATION Spec
CHECK_DEADLOCK FALSE
INVARIANT ExitMeansFinished
