SPECIFICATION Spec
CONSTANTS
    d1 = d1
    v1 = v1
    v2 = v2
    v3 = v3
    v4 = v4
    r0 = r0
    r1 = r1
    r2 = r2
    c1 = c1
    c2 = c2
    c3 = c3
    qa = qa
    qb = qb
    Docs = {d1}
    Versions = {v1, v2, v3, v4}
    Chunks = {c1, c2, c3}
    Requests = {r0, r1, r2}
    Warm = {r0}
    WarmAnswer <- MCWarmAnswer
    Similarity <- MCSimilarity
    Threshold = 92
    MaxSweeps = 1
    MaxEvents = 3
    DocOf <- MCDocOf
    VersionOf <- MCVersionOf
    AtStart <- MCAtStart
    Payload <- MCPayload
    ChunkIndex <- MCChunkIndex
    DenseOrder <- MCDenseOrder
    SparseOrder <- MCSparseOrder
    RerankScore <- MCRerankScore
    Tokens <- MCTokens
    WordLoss <- MCWordLoss
    Ask <- MCAsk
    RrfK = 60
    Scale = 1000000
    Unset = Unset
    None = None
INVARIANTS
    TypeOK
    HitCountNotAbove
    HitHasOneAuthor
    OrphansOnlyFromRaces
    LiveEntryKept
    FilterBrokenOnlyByCache
    MixedOnlyByChangeOrFailure
    ReportsItsOwn
    CachedWasDelivered
    PromptWithinBudget
PROPERTY
    UsesCache
CHECK_DEADLOCK FALSE
