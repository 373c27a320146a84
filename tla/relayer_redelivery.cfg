SPECIFICATION Spec
CONSTANTS
    o1 = o1
    o2 = o2
    r1 = r1
    r2 = r2
    Ops = {o1}
    NoTx = NoTx
    NoJob = NoJob
    PriceBump = 10
    Requests = {r1}
    OpOf <- Alone
    Workers = {w1, w2}
    MarketFees = {100}
    BumpPercent = 15
    MaxAttempts = 2
    MaxNonce = 1
    MaxStalls = 1
    Faults = {"abort", "rpc", "evict", "void"}
CHECK_DEADLOCK FALSE
INVARIANTS
    SettledAsMined
