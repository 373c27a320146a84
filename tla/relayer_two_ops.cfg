SPECIFICATION FairSpec
CONSTANTS
    o1 = o1
    o2 = o2
    r1 = r1
    r2 = r2
    Ops = {o1, o2}
    NoTx = NoTx
    NoJob = NoJob
    PriceBump = 10
    Requests = {r1, r2}
    OpOf <- OnePerOp
    Workers = {w1, w2}
    MarketFees = {26}
    BumpPercent = 15
    MaxAttempts = 1
    MaxNonce = 1
    MaxStalls = 0
    Faults = {"rpc", "evict", "void"}
CHECK_DEADLOCK FALSE
INVARIANTS
    NoCompetingTx
    SubmittedIsWatched
PROPERTIES
    ReplacesRowTx
    ChecksEnd
