CONSTANTS
    Server = {s1, s2, s3}
    Command = {x}
    noPeer = noPeer
    MaxTerm = 3
    MaxLog = 0
    MayTimeout = {s1, s2}
    MayCrash = {}
    MaxCalls <- FiveCalls
    LateReplies = {"RequestVote"}
    LateEncoding = FALSE
SPECIFICATION Spec
SYMMETRY Symmetry
CHECK_DEADLOCK FALSE
INVARIANT OneLeaderReported
