SPECIFICATION MCSpec
CONSTANTS
    r1 = r1
    r2 = r2
    r3 = r3
    r4 = r4
    Replica = {r1, r2, r3, r4}
    Amnesiac = {r4}
    Proposers = {r1, r2}
    Body = {0, 1}
    Genesis = 0
    Hash <- MCHash
    Scenarios <- RestartScenarios
    MaxHeight = 7
    MaxBlocks = 9
    VHeightModulus = 16
INVARIANT
    CommittedForever
PROPERTIES
    OwnLogKept
    ImplementsLog
CHECK_DEADLOCK FALSE
