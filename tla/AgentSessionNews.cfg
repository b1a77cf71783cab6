SPECIFICATION Spec
CONSTANTS
    Prompts = {s1, p1}
    Streams = {s1}
    Summarizer = Summarizer
    Compressions = {k1, k2}
    MaxTurns = 2
    MaxCalls = 1
    MaxMessages = 100
    SummarizeTurns = 2
PROPERTY NewsMerged
CHECK_DEADLOCK FALSE
