SPECIFICATION Spec
CONSTANTS
    a = a
    b = b
    x = x
    y = y
    m = m
    n = n
    Columns = {a, b}
    Values = {x, y}
    Null = null
    Names = {m, n}
    MaxListed = 2
    MaxRows = 2
    MaxBatch = 2
SYMMETRY MCSymmetry
INVARIANTS
    NotNullHolds
    UniqueHolds
    HashmapExact
    FlagsConsistent
PROPERTIES
    ErrorsChangeNothing
