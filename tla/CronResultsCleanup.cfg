SPECIFICATION Spec
CONSTANTS
    Sessions = {p1, p2}
    Cleaners = {p1, p2}
    Channels = {c1, unrouted}
    Unrouted = unrouted
    NoChannel = NoChannel
    Topics = {cron_result}
    CronResult = cron_result
    SessionTTL = 1
    MessageTTL = 1
    ConsumeLimit = 1
    DrainLimit = 1
    MaxAckMessages = 2
    MaxFaults = 1
    CleanupBatch = 1
    MaxBatches = 1
    MaxLag = 0
    MaxMessages = 2
    MaxClock = 0
PROPERTY CleanupSparesUndelivered
CHECK_DEADLOCK FALSE
