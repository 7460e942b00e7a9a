SPECIFICATION FairSpec

CONSTANTS
    Calls = {h, a, b}
    Hello = h
    NoCall = nocall
    Requests <- PatientRequests
    Credits = 1
    QueueLen = 1
    Window = 1
    SharedLen = 2
    ServerWindow = 2
    MaxObjectSize = 0
    KeepGranted = FALSE
    Faults = {"ack", "close"}

PROPERTIES AllServed CloseTerminates
CHECK_DEADLOCK FALSE
