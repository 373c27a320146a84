SPECIFICATION Spec
CONSTANTS
    a1 = a1
    a2 = a2
    none = none
    call1 = call1
    call2 = call2
    k1 = k1
    k2 = k2
    Paymaster = Paymaster
    EntryPoint = EntryPoint
    ZeroAddress = ZeroAddress
    Half = 4
    Senders = {a1, a2}
    Data = {none, call1, call2}
    ChainId = 31337
    PaymasterGas <- Limits
    Signers = {k1, k2}
    Ops <- Variants
    ValidSeconds = 1
    MaxTime = 3
    MaxIssued = 2
CHECK_DEADLOCK FALSE
INVARIANT TypeOK
INVARIANT PaidAsSponsored
INVARIANT SponsorshipHonoured
INVARIANT SeenAsRequested
INVARIANT HashIdentifies
