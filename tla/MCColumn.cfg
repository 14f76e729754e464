SPECIFICATION Spec
CONSTANTS
    BlockSize = 3
    MaskBits = 2
    MaxInsert = 3
    SomeNulls = {3, 4}
    Bounds <- MCBounds
INVARIANTS
    IndexesNameBlocks
    ReloadIsFaithful
    EachRowOnce
PROPERTIES
    CrashKeepsBlocks
    RowsReachDisk
