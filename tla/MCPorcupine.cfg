CONSTANTS
    k1 = k1
    k2 = k2
    Key = {k1, k2}
    Operations <- MCOperations
    MaxOps = 3
    Width = 2
    Nil = Nil
SPECIFICATION FairSpec
\* The check is over.
CHECK_DEADLOCK FALSE
INVARIANT VerdictCorrect ListIsRest LongestCorrect PictureSound
PROPERTY CheckEnds
