CONSTANTS
    Inst = {i1, i2}
    Accesses <- MCAccesses
    FilterBlkBytes = 32
    Rsc <- MCRsc
    FetchOnWrMiss = {TRUE, FALSE}
    CacheLines = 1
    BufferSize = 2
    Threshold = 0
    Start = {0, 1}
    MaxCalls = 6
SPECIFICATION Spec
SYMMETRY Symmetric
INVARIANTS TraceCoversJob NoBufferedUseIsPruned ReportsAgree
