SPECIFICATION FairSpec
CONSTANTS
    high1 = high1
    high2 = high2
    low1 = low1
    low2 = low2
    dummy = dummy
    Clients <- MCClients
    Rids <- MCRids
    Total <- TwoUnits
    Priority <- TwoRanks
    Provisioned <- Everybody
    MaxHeld = 1
    MaxLine = 2
    MaxSignals = 2
    MaxFaults = 1
INVARIANTS
    NeverOversold
    NoForgottenUnit
PROPERTIES
    NobodyIsRobbed
    FirstComeFirstServed
    WaitersAreServed
CHECK_DEADLOCK FALSE
