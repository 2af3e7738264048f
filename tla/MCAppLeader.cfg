SPECIFICATION FairAppSpec
CONSTANTS
    Replica = {r1}
    Amnesiac = {}
    Proposers = {r1}
    Body = {0, 1, 2, 3, 4, 5, 6, 7, 8, 9, 10, 11}
    Genesis <- MCGenesis
    Hash <- MCHash
    MaxHeight = 8
    MaxBlocks = 10
    VHeightModulus = 64
    self = r1
    Pacing = "wait"
    BufferTarget = 2
    Refill = FALSE
    TopValue = 9
INVARIANT
    VMInSync
PROPERTY
    PacemakerProgress
CHECK_DEADLOCK FALSE
