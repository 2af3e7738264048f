SPECIFICATION MCSpec
CONSTANTS
    r1 = r1
    r2 = r2
    r3 = r3
    r4 = r4
    Replica = {r1, r2, r3}
    Amnesiac = {}
    Proposers = {r1, r2}
    Body = {0, 1}
    Genesis = 0
    Hash <- MCHash
    Scenarios <- CommitScenarios
    MaxHeight = 7
    MaxBlocks = 10
    VHeightModulus = 16
INVARIANTS
    LeafExtendsCertificate
    CommittedForever
    DecidedOnDisk
    IInv
    Agreement
    NoSafetyBreach
PROPERTY
    ImplementsLog
CHECK_DEADLOCK FALSE
