SPECIFICATION AppSpec
CONSTANTS
    Replica = {r1, r2}
    Amnesiac = {}
    Proposers = {r1, r2}
    Body = {0, 1, 2}
    Genesis <- MCGenesis
    Hash <- MCHash
    MaxHeight = 3
    MaxBlocks = 4
    VHeightModulus = 64
    self = r1
    Pacing = "cancel"
    BufferTarget = 0
    Refill = TRUE
    TopValue = 2
INVARIANT
    StoreComplete
PROPERTY
    CertifiedWhenWoken
    ImplementsCore
CHECK_DEADLOCK FALSE
