SPECIFICATION StorageSpec
CONSTANTS
    Sessions = {s1, s2}
    Channels = {c1}
    NoChannel = NoChannel
    Topics = {cron_result}
    Cleaners = {k1}
    SessionTTL = 1
    MessageTTL = 1
    ConsumeLimit = 1
    CleanupBatch = 1
    MaxBatches = 2
    MaxLag = 1
    MaxMessages = 2
    MaxClock = 2
    w1 = w1
    w2 = w2
    q1 = q1
    x1 = x1
    x2 = x2
    k1 = k1
    k2 = k2
    a1 = a1
    a2 = a2
    Streams = {w1, w2}
    Prompts = {q1}
    Compressors = {x1, x2}
    Background = {k1, k2}
    Archivers = {a1, a2}
    RoomOrder <- MCRoomOrder
    Casts <- MCCasts
    MaxItems = 2
    Threshold = 1
    MaxFaults = 1
SYMMETRY SessionSymmetry
INVARIANTS
    StorageTypeOK
    NothingForgotten OneSummary CloseKeepsAll
PROPERTIES ImplementsMailbox CleanupIsLawful
CHECK_DEADLOCK FALSE
