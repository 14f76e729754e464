SPECIFICATION Spec
CONSTANTS
    BlockSize = 3
    MaskBits = 4
    MaxRows = 9
    MaxInsert = 3
    Columns <- MCStrings
INVARIANTS
    ModifiedDataPersisted
CHECK_DEADLOCK FALSE
