SPECIFICATION FairSpec
CONSTANTS
    p1 = p1
    p2 = p2
    Proc <- MCTwo
    Gone = gone
    Empty = empty
    MaxFiles = 4
CHECK_DEADLOCK FALSE
INVARIANTS
    ExclusiveUnlessStolen
    OwnInv
PROPERTY
    OpenReturns
