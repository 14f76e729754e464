SPECIFICATION Spec
CONSTANTS
    Stride = 2
    BlockDim = 2
    Bits = 3
    Null = Null
    Devices = 2
    Buckets = 1
    BufferSizeMax = 3
    DefaultMultiplier = 2
    Lowest <- MCLowest
    StringHash <- MCStringHash
    MultiHash <- MCMultiHash
    Queries <- MCQueries
INVARIANTS
    OneSlotPerKey
    FullOnlyWhenFull
    GroupsRight
 
