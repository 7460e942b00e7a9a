SPECIFICATION Spec
CONSTANTS
    Calls = {h, a, b, d}
    Hello = h
    NoCall = nocall
    Requests <- OddRequests
    Credits = 2
    QueueLen = 1
    Window = 1
    SharedLen = 3
    ServerWindow = 2
    MaxObjectSize = 1
    KeepGranted = TRUE
    Faults = {"data", "idle", "send"}
SYMMETRY Symmetry
INVARIANTS OkMeansApplied GetOwnPayload
CHECK_DEADLOCK FALSE
