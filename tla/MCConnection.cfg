SPECIFICATION Spec
CONSTANTS
    FRAGMENT_SIZE = 2
    MaskBits = 2
    Lengths = {1, 2, 3, 4}
    Databases = {d1, d2}
    MaxQueries = 2
    MaxOther = 1
INVARIANTS
    ResultReceived
    ParserStays
    
PROPERTIES
    RequestsAnswered
CHECK_DEADLOCK FALSE
