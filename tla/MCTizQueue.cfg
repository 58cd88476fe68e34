SPECIFICATION FairSpec
CONSTANTS
    p1 = p1
    p2 = p2
    c1 = c1
    c2 = c2
    m1 = m1
    m2 = m2
    Producers <- MCProducers
    Consumers <- MCConsumers
    Data <- MCData
    NoData = NoData
    Capacity = 3
    Nodes = 4
INVARIANTS
    RingConsistent
    NoLostWakeup
PROPERTIES
    ImplementsFifo
    SleepersAreWoken
