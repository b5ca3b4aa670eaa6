CONSTANTS
    Committer = {h1, h2}
    Request = {r1, r2}
    Applier = Applier
    Reader = Reader
    Free = Free
    MaxIndex = 3
    NumChecks = 2
SPECIFICATION FairSpec
INVARIANT TypeOK AppliedInOrder
PROPERTY EventuallyApplied HandlersReturn
