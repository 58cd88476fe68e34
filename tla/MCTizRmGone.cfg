SPECIFICATION Spec
CONSTANTS
    high1 = high1
    high2 = high2
    low1 = low1
    low2 = low2
    dummy = dummy
    Clients <- MCClients
    Rids <- MCRids
    Total <- OneUnit
    Priority <- TwoRanks
    Provisioned <- Everybody
    MaxHeld = 1
    MaxLine = 3
    MaxSignals = 2
    MaxFaults = 3
INVARIANT GoneOwnNothing
CHECK_DEADLOCK FALSE
