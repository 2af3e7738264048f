SPECIFICATION FairSpec
CONSTANTS
    BufferTarget = 2
    Refill = TRUE
    TopHeight = 2
    TopValue = 2
PROPERTY
    ApplyFinishes
CHECK_DEADLOCK FALSE
