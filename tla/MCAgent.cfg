SPECIFICATION ConversationSpec
CONSTANTS
    Prompts = {s1, s2}
    Streams = {s1, s2}
    Summarizer = Summarizer
    Compressions = {k1, k2}
    MaxTurns = 2
    MaxCalls = 1
    MaxMessages = 5
    SummarizeTurns = 2
    Indices = {0, 1}
    MaxFragments = 1
    MaxText = 1
    ChunkCap = 2
    EventCap = 2
    MaxSaid = 2
    SubCap = 1
    ParentCap = 1
    Inbound = {e1, e2}
    Closers = {c1, c2}
    Life = 6
    Margin = 3
    MaxWait = 1
    MaxTokens = 2
    MaxPrompts = 3
    MaxEvents = 1
INVARIANTS
    ConversationTypeOK StreamsDoNotMix CallsAreWhole SuccessHoldsAnswer
    RepliesAreAuthorised PromptsInOrder
PROPERTIES
    ReplaceKeepsNews OneRefresh EveryCallEnds StreamEnds NothingLeftRunning EveryMessageEnds QueueDrains
CHECK_DEADLOCK FALSE
