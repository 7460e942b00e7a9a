SPECIFICATION Spec

CONSTANTS
    Buckets = {"x", "y"}
    Keys = {"k", "m"}
    MaxBytes = 3
    Policies = {"fifo", "reject"}
    Loads = {"l1", "l2"}
    Folder <- SharedFolder

INVARIANTS TypeOK UsedExact OrderExact CapacityRespected LoadedResident
PROPERTIES OldestEvicted
CHECK_DEADLOCK FALSE
