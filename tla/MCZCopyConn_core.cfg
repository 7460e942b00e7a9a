SPECIFICATION Spec
CONSTANTS
    Calls = {h, a, b}
    Hello = h
    NoCall = nocall
    Requests <- CoreRequests
    Credits = 1
    QueueLen = 1
    Window = 2
    SharedLen = 2
    ServerWindow = 2
    MaxObjectSize = 0
    KeepGranted = TRUE
    Faults = {"call", "ack", "close"}
SYMMETRY Symmetry
INVARIANTS TypeOK CreditConservation FlowControl PendingIsLive StreamInSync
CHECK_DEADLOCK FALSE
