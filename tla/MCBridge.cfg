SPECIFICATION FairSpec
CONSTANTS
    BufferTarget = 2
    Refill = TRUE
    TopHeight = 3
    TopValue = 3
INVARIANTS
    SpeculationContiguous
    NeverThrows
    BufferBounded
    IInv
PROPERTIES
    NoCommitmentSkipped
    ProposalServed
    CommitmentDelivered
CHECK_DEADLOCK FALSE
