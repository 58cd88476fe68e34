\* All commands; the client lets the component come to rest before each and
\* cancels one transition to Idle.
SPECIFICATION FairSpec
CONSTANTS
    PortList <- MCPorts
    NBufs = 2
    AllocatorPorts = {"out"}
    Commands <- Everything
    Cancelling <- CancelLoad
    MaxCancels = 1
    Patient = TRUE
    MaxBacklog = 2
PROPERTIES
    CommandsEnd
