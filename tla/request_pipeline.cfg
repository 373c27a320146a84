SPECIFICATION FairSpec
CONSTANTS
    r1 = r1
    r2 = r2
    ip1 = ip1
    w1 = w1
    theirs = theirs
    uuid1 = uuid1
    uuid2 = uuid2
    NoId = NoId
    NoSender = NoSender
    NoStatus = NoStatus
    Ips = {ip1}
    Wallets = {w1}
    Uuid <- Uuids
    Slots = {r1, r2}
    Kinds <- EveryKind
    AdminKeySet = TRUE
    IpMax = 2
    IpWindow = 2
    WalletMax = 1
    WalletWindow = 2
INVARIANT TypeOK
INVARIANT BurstBound
INVARIANT SponsorCountedFirst
 
PROPERTY LockoutEnds
