\* One call suffices: calls share no state but the network's.
CONSTANTS
    N = 2
    MaxCalls = 1
    MaxStarts = 2
    MayCrash = {1}
    NoServer = NoServer
    Labs = {"raft", "kvraft", "shardkv"}
SPECIFICATION FairSpec
\* The tests may stop.
CHECK_DEADLOCK FALSE
INVARIANT TypeOK AckedIsSaved CrashedAreSilent
PROPERTY CallReturns
