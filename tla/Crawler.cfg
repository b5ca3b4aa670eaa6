CONSTANTS
    Page = {a, b, c}
    Root = a
    Missing = Missing
SPECIFICATION FairSpec
\* The crawl is over.
CHECK_DEADLOCK FALSE
INVARIANTS TypeOK FetchedOnce CompleteOnReturn
PROPERTY Returns
