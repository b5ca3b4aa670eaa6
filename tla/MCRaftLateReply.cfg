CONSTANTS
    s1 = s1
    s2 = s2
    s3 = s3
    s4 = s4
    s5 = s5
    Server = {s1, s2, s3, s4, s5}
    Command = {x}
    noPeer = noPeer
    MaxTerm = 4
    MaxLog = 2
    MayTimeout = {s1, s2}
    MayCrash = {}
    MaxCalls <- FiveCalls
    LateReplies = {"AppendEntries"}
    LateEncoding = FALSE
    Course <- ReplyCourse
SPECIFICATION LateSpec
VIEW ReplicationView
CHECK_DEADLOCK FALSE
INVARIANT StateMachineSafety
