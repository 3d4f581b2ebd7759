SPECIFICATION Spec
CONSTANTS
    d1 = d1
    d2 = d2
    a1 = a1
    a2 = a2
    a3 = a3
    a4 = a4
    c1 = c1
    c2 = c2
    c3 = c3
    c4 = c4
    Docs = {d1, d2}
    Attempts = {a1, a2, a3, a4}
    Chunks = {c1, c2, c3, c4}
    DocOf <- MCDocOf
    ChunkList <- MCChunkList
    BatchSize = 1
    None = None
INVARIANT
    RetryLeavesNoDuplicates
CHECK_DEADLOCK FALSE
