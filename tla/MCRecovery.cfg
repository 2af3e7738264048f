SPECIFICATION FairSpec
CONSTANTS
    Length = 7
    Justify <- MCJustify
    Nonempty = {2, 4}
    KeepDepth = 1
    Setups <- TolerantSetups
    MaxStarts = 3
INVARIANTS
    Recoverable
    FailsForAReason
    EachCommandOnceUnlessEarly
    KeepsRecentBodies
    IInv
PROPERTIES
    DecisionsDurable
    CatchesUp
CHECK_DEADLOCK FALSE
