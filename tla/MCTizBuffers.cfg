SPECIFICATION FairSpec
CONSTANTS
    PortList <- MCPorts
    NBufs = 2
    AllocatorPorts = {}
    Commands <- MCCommands
    MaxReady = 4
INVARIANTS
    HeadersKept
    IdleHasNone
PROPERTIES
    EosComesLast
    FlushCollects
    InputComesBack
    EosIsTold
    BufferCommandsEnd

