SPECIFICATION Spec
CONSTANTS
    PoolSize = 13
    Unit = 2
    Requests <- MCRequests
INVARIANTS HeapConsistent PointersAligned
PROPERTY ImplementsGpuMemory
