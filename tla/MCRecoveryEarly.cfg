SPECIFICATION Spec
CONSTANTS
    Length = 7
    Justify <- MCJustify
    Nonempty = {2, 4}
    KeepDepth = 1
    Setups <- TolerantSetups
    MaxStarts = 2
INVARIANT
    DataOnDisk
CHECK_DEADLOCK FALSE
