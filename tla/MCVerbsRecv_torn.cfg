SPECIFICATION Spec
CONSTANTS
    Depth = 2
    RwSlots = 4
    Offsets = {5}
    Kinds = {"frame", "at"}
    MaxMsgs = 3
    Window = 2
    ClosedBy = "other"
    Ahead = FALSE
    Reuse = FALSE
    Faults = {}
INVARIANTS ViewsLive
CHECK_DEADLOCK FALSE
