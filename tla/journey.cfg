SPECIFICATION FairJourney
CONSTANTS
    o1 = o1
    r1 = r1
    Ops = {o1}
    NoTx = NoTx
    NoJob = NoJob
    PriceBump = 10
    Requests = {r1}
    OpOf <- Alone
    Workers = {w1, w2}
    MarketFees = {100}
    BumpPercent = 15
    MaxAttempts = 2
    MaxNonce = 1
    MaxStalls = 1
    Faults = {"rpc", "evict", "void"}
    CheckDelay = 3
    Latency = 1
    MaxPolls = 5
    ValidFor = 5
INVARIANTS
    JourneyTypeOK
    AnswersAreTrue
    SettledByDeadline
    MinedInTimeIsNotFailed
PROPERTIES
    MinedInTimeIsSeen
