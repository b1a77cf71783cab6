SPECIFICATION JobsSpec
CONSTANTS
    Jobs = {j1}
    Clients = {a, b}
    OnLeader = {a}
    MaxJobs = 1
    Kept = {"paused"}
    MaxOps = 3
    MaxRuns = 2
PROPERTY RunKeepsPause
CHECK_DEADLOCK FALSE
