SPECIFICATION Spec
CONSTANTS
    Length = 7
    Justify <- MCJustify
    Nonempty = {2, 4}
    KeepDepth = 1
    Setups <- CountingSetup
    MaxStarts = 2
INVARIANT
    EmptyBodiesIgnored
CHECK_DEADLOCK FALSE
