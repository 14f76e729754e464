SPECIFICATION Spec
CONSTANTS
    a = a
    b = b
    Columns = {a, b}
    Spans <- MCSpans
    PoolSize = 3
    Unit = 1
    MaxSize = 3
    Device = 0
    DeviceCount = 1
    RegisterSizes = {0, 2}
    MaskedRegisters = {FALSE, TRUE}
    OtherSizes = {1}
    MaxOthers = 1
    MaxBlocks = 2
    MaxWrites = 2
INVARIANTS
    CacheConsistent
    
    
PROPERTIES
    CallsReturn
