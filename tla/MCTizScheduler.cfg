\* The client and the first component are callers of the second.
SPECIFICATION FairSpec
CONSTANTS
    t1 = t1
    a = a
    b = b
    Clients = {t1}
    Components <- MCComponents
    Peers <- Tunnel
    Posted = {"Event"}
    Nobody = Nobody
    Capacity = 1
INVARIANTS
    HandlersFindTheirState
    TokenIsOwed
PROPERTIES
    ImplementsSyncCalls
    CallsReturn
