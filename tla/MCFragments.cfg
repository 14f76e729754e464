SPECIFICATION Spec
CONSTANTS
    BlockSize = 3
    MaskBits = 4
    MaxRows = 9
    MaxInsert = 3
    Columns <- MCColumns
INVARIANTS
    ReloadIsFaithful
    SavesKeepAll
CHECK_DEADLOCK FALSE
