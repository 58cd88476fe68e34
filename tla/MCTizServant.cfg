SPECIFICATION FairSpec
CONSTANTS
    s1 = s1
    s2 = s2
    io = io
    timer = timer
    once = once
    Servants = {s1, s2}
    Watchers = {io, once, timer}
    Owner <- MCOwner
    Kind <- MCKind
    Capacity = 1
    MaxId = 2
INVARIANTS
    NoLostEvent
PROPERTY
    ArmedAreNotified
CHECK_DEADLOCK FALSE
