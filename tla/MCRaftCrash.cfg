CONSTANTS
    Server = {s1, s2, s3}
    Command = {x}
    noPeer = noPeer
    MaxTerm = 2
    MaxLog = 1
    MayTimeout = {s1, s2}
    MayCrash = {s1, s2}
    MaxCalls <- ThreeThenTwoCalls
    LateReplies = {"AppendEntries"}
    LateEncoding = FALSE
SPECIFICATION Spec
SYMMETRY Symmetry
VIEW CrashView
INVARIANTS
    TypeOK
    ElectionSafety
    OneVotePerTerm
    StateMachineSafety
    MatchIndexSound
PROPERTIES
    TermNeverGoesBack
    LeaderAppendOnly
    CommitNeverGoesBack
