SPECIFICATION FairSpec
CONSTANTS
    Depth = 2
    RwSlots = 2
    Offsets = {1}
    Kinds = {"frame", "rw", "at"}
    MaxMsgs = 4
    Window = 2
    ClosedBy = "other"
    Ahead = FALSE
    Reuse = TRUE
    Faults = {"post", "ctx", "stop", "wc"}
INVARIANTS TypeOK SlotOnce BorrowedIntact
PROPERTIES  AllDelivered CloseFinishes
CHECK_DEADLOCK FALSE
