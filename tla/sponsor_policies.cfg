SPECIFICATION Spec
CONSTANTS
    c1 = c1
    c2 = c2
    c3 = c3
    c4 = c4
    w1 = w1
    w2 = w2
    p1 = p1
    p2 = p2
    huge = huge
    dapp = dapp
    other = other
    transfer = transfer
    burn = burn
    Null = Null
    NoneYet = NoneYet
    Contracts = {dapp, other}
    Selectors = {transfer, burn}
    Wallets = {w1, w2}
    Payloads = {p1, p2, huge}
    Unsignable = {huge}
    Calls = {c1, c2}
    DtoOf <- TwoTargets
    PolicyRows <- LowerCaseRows
    MaxPolicies = 3
    SecondsPerDay = 2
    MaxTime = 0
    ValidSeconds = 2
    Aborts = FALSE
CHECK_DEADLOCK FALSE
PROPERTIES
    OldestWildcardStays
    ScopedTakesPrecedence
