\* The capacity and the node count the component threads are created with:
\* SCHED_QUEUE_MAX_ITEMS of tizscheduler.c, and the TIZ_QUEUE_MAX_ITEMS - 1
\* nodes of tiz_queue_init.
SPECIFICATION Spec
CONSTANTS
    p1 = p1
    p2 = p2
    c1 = c1
    c2 = c2
    m1 = m1
    m2 = m2
    Producers = {p1}
    Consumers = {c1}
    Data = {m1}
    NoData = NoData
    Capacity = 30
    Nodes = 29
INVARIANT SendBlocksWhenFull
