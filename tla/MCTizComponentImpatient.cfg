\* All commands but the transition to Pause, sent as soon as the one before is
\* answered, while the servants may still work on it.
SPECIFICATION FairSpec
CONSTANTS
    PortList <- MCPorts
    NBufs = 2
    AllocatorPorts = {"out"}
    Commands <- NoPause
    Cancelling <- Nothing
    MaxCancels = 0
    Patient = FALSE
    MaxBacklog = 2
INVARIANTS
    NoAssertFails
    HeadersAccounted
    BuffersMatchState
    CountMatchesPorts
PROPERTIES
    BothServantsFinish
    CommandsEnd
