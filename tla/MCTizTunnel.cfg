SPECIFICATION FairSpec
CONSTANTS
    demuxer = demuxer
    audio = audio
    video = video
    first = first
    second = second
    Components <- MCComponents
    Tunnels <- MCTunnels
    Supplier <- MCSupplier
    Other <- MCOther
    InputSuppliers <- MCInputSuppliers
    PortOrder <- MCPortOrder
    NBufs = 1
    MaxAborts = 1
INVARIANTS
    EachHeaderIsOnce
    BothEndsAgree
    TransitionsBeginOnce
PROPERTY GoalIsReached
CHECK_DEADLOCK FALSE
