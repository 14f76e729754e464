SPECIFICATION Spec
CONSTANTS
    WordBits = 4
    WordBytes = 2
    RowsPerThread = 2
    MaxInt = 15
    Lowest = 0
    Highest = 4
    W = 2
    Garbage = {0, 3}
    SubSize = 3
    Inputs <- MCInputs
INVARIANTS
    SelectedRowsRight
    AggregatesRight
    JoinRight
    MergePointsRight
    MergeOrdered
PROPERTY QueryAnswered
CHECK_DEADLOCK FALSE
