SPECIFICATION MCSpec
CONSTANTS
    r1 = r1
    r2 = r2
    r3 = r3
    r4 = r4
    Replica = {r1, r2, r3}
    Amnesiac = {r3}
    Proposers = {r1, r2}
    Body = {0, 1}
    Genesis = 0
    Hash <- MCHash
    Scenarios <- SplitScenarios
    MaxHeight = 7
    MaxBlocks = 11
    VHeightModulus = 16
INVARIANT
    Agreement
CHECK_DEADLOCK FALSE
