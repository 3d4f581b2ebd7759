SPECIFICATION FairSpec
CONSTANTS
    d1 = d1
    d2 = d2
    Docs = {d1, d2}
    Perishable = {d2}
    Contents <- MCContents
    UploadTitle <- MCUploadTitle
    FixedSize = 3
    FixedOverlap = 1
    ParentTokens = 5
    ChildTokens = 3
    LeastOverlap = 1
    PreviewTokens = 2
    ListedSections = 1
    MaxTokens = 4
    MinTokens = 2
    BatchSize = 3
    EmbedRetries = 2
    MessageRetries = 2
    Limit = 1
    MaxTopic = 2
    MaxFaults = 2
    None = None
INVARIANTS
    TypeOK
    NothingLost
    ParentsHoldTheirChildren
    OversizedOnlyByTopicOrTitles
    OwnVectors
    UnfinishedIsPending
PROPERTY
    HealedInTheEnd
CHECK_DEADLOCK FALSE
