SPECIFICATION FairSpec
CONSTANTS
    Depth = 4
    Mod = 16
    Interval = 5
    MaxFrames = 5
    Inline = {FALSE, TRUE}
    MRs = {"reg", "staged"}
    Faults = {"timeout", "post", "qp"}
INVARIANTS TypeOK RingBound SlotExclusive PayloadNotRetained WaitHasSignal
PROPERTIES SendReturnsWhileUp
CHECK_DEADLOCK FALSE
