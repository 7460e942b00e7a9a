SPECIFICATION FairSpec
CONSTANTS
    Depth = 2
    Mod = 8
    Interval = 1
    MaxFrames = 3
    Inline = {FALSE, TRUE}
    MRs = {"reg"}
    Faults = {"qp"}
PROPERTIES SendReturns
CHECK_DEADLOCK FALSE
