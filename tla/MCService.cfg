SPECIFICATION ServiceSpec
CONSTANTS
    Holders = {p1, p2}
    NoHolder = NoHolder
    LeaseTTL = 4
    MaxLag = 1
    RenewInterval = 1
    MaxStall = 1
    MaxInflight = 1
    MaxErrors = 1
    Jobs = {j1}
    Clients = {a, b}
    OnLeader = {a}
    MaxJobs = 1
    Kept = {"paused"}
    MaxOps = 2
    MaxRuns = 2
INVARIANTS
    ServiceTypeOK NoSplitBrain StoppedIsQuiet CountsAddUp
PROPERTIES
    ImplementsLease
    StopTerminates ScheduleConverges
CHECK_DEADLOCK FALSE
