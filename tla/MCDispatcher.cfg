SPECIFICATION Spec
CONSTANTS
    DeviceCount = 3
    Aggregations = 1
    MaxBlocks = 4
    MaxRestarts = 1
INVARIANTS
    ResultSavedWhole
PROPERTIES
    MergedTablesAreFinal
    ThreadsEnd
