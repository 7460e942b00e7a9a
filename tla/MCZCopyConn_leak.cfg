SPECIFICATION Spec
CONSTANTS
    Calls = {h, a}
    Hello = h
    NoCall = nocall
    Requests <- GetRequests
    Credits = 1
    QueueLen = 1
    Window = 2
    SharedLen = 2
    ServerWindow = 2
    MaxObjectSize = 0
    KeepGranted = TRUE
    Faults = {"call"}
INVARIANTS BorrowedReleased
CHECK_DEADLOCK FALSE
