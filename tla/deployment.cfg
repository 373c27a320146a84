SPECIFICATION FairDeployment
CONSTANTS
    o1 = o1
    o2 = o2
    Ops = {o1}
    MaxAttempts = 1
    MaxGen = 2
    MaxUps = 3
    MaxCrashes = 1
    Unset = Unset
CHECK_DEADLOCK FALSE
INVARIANTS
    DeploymentTypeOK
    ServesLiveContracts
    SeededOnce
    GrantHolds
    ConfirmedWasExecuted
PROPERTIES
    ApiComesUp
