SPECIFICATION Spec
CONSTANTS
    o1 = o1
    o2 = o2
    r1 = r1
    r2 = r2
    Ops = {o1}
    NoTx = NoTx
    NoJob = NoJob
    PriceBump = 10
    Requests = {r1, r2}
    OpOf <- TwoForOne
    Workers = {w1, w2}
    MarketFees = {100, 115}
    BumpPercent = 15
    MaxAttempts = 2
    MaxNonce = 1
    MaxStalls = 0
    Faults = {"abort", "rpc", "evict", "void"}
CHECK_DEADLOCK FALSE
INVARIANTS
    TypeOK
    WatchedAtMostOnce
    CheckMatchesRow
    ConfirmedIsMined
    BumpsBounded
PROPERTIES
    ImplementsLifecycle
