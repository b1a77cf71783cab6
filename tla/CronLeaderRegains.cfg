SPECIFICATION LiveSpec
CONSTANTS
    Holders = {p1, p2}
    NoHolder = NoHolder
    LeaseTTL = 3
    MaxLag = 1
    RenewInterval = 1
    MaxStall = 0
    MaxInflight = 1
    MaxErrors = 1
PROPERTY LeaderRegains
