SPECIFICATION MCSpec
CONSTANTS
    r1 = r1
    r2 = r2
    Scripts <- FollowerScripts
    Replica = {r1, r2}
    Amnesiac = {}
    Proposers = {r2}
    Body = {0, 1, 2}
    Genesis <- MCGenesis
    Hash <- MCHash
    MaxHeight = 8
    MaxBlocks = 9
    VHeightModulus = 64
    self = r1
    Pacing = "wait"
    BufferTarget = 0
    Refill = TRUE
    TopValue = 2
INVARIANT
    SyncInv
    VMReplays
PROPERTY
    ImplementsBridge
CHECK_DEADLOCK FALSE
