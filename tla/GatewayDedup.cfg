SPECIFICATION GatewaySpec
CONSTANTS
    Chans = {c1}
    GwChans = {c1}
    HTTPChans = {}
    Guests = {}
    NoChan = NoChan
    Ids = {x}
    SessionIds = {x}
    IdOf <- MCIdOf
    Timeout = 0
    Callbacks = {d1, d2}
    Messages = {m1}
    PruneEvery = 0
    DedupTTL = 1
PROPERTY RecordedOnce
