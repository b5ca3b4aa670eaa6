CONSTANTS
    Server = {s1, s2, s3}
    Command = {x}
    noPeer = noPeer
    MaxTerm = 4
    MaxLog = 2
    MayTimeout = {s1, s2}
    MayCrash = {}
    MaxCalls <- TwoCalls
    LateReplies = {}
    LateEncoding = FALSE
SPECIFICATION Spec
SYMMETRY Symmetry
VIEW Live
CHECK_DEADLOCK FALSE
INVARIANTS
    LogMatching
    LeaderCompleteness
    PeerIndexInLog
