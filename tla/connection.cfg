SPECIFICATION Spec
CONSTANTS
    InSize = 1
    OutSize = 1
    MaxPerTick = 2
    MaxIn = 3
    MaxOut = 2
CHECK_DEADLOCK FALSE
INVARIANT PacketsInOrder
INVARIANT CleanedUpOnce
PROPERTY NobodyIsStuck
