SPECIFICATION Spec
CONSTANTS
    Null = null
    NullConstant = 0
    Shapes <- MCShapes
INVARIANTS
    RowsIntact
    
CHECK_DEADLOCK FALSE
