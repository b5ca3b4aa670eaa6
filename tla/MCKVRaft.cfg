SPECIFICATION FairSpec
CONSTANTS
    N = 2
    c1 = c1
    c2 = c2
    k1 = k1
    v1 = v1
    v2 = v2
    Clerk = {c1, c2}
    Key = {k1}
    Value = {v1, v2}
    Workload <- MCWorkload
    MayWin <- MCMayWin
    MayCrash = {0, 1}
    MaxOps = 1
    MaxTerm = 2
    MaxFaults = 1
    NoOp = NoOp
    NoKey = NoKey
    NoRecord = NoRecord
    NoReply = NoReply
    Pending = Pending
\* The clerks have nothing more to ask for.
CHECK_DEADLOCK FALSE
INVARIANT TypeOK
PROPERTY Linearizable OpReturns
