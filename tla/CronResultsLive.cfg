SPECIFICATION LiveSpec
CONSTANTS
    Sessions = {p1, p2}
    Cleaners = {p1, p2}
    Channels = {unrouted, c1}
    Unrouted = unrouted
    NoChannel = NoChannel
    Topics = {cron_result}
    CronResult = cron_result
    SessionTTL = 1
    MessageTTL = 1
    ConsumeLimit = 1
    DrainLimit = 1
    MaxAckMessages = 1
    MaxFaults = 0
    CleanupBatch = 1
    MaxBatches = 1
    MaxLag = 0
    MaxMessages = 2
    MaxClock = 0
PROPERTY EveryResultHeard
CHECK_DEADLOCK FALSE
