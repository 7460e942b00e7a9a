SPECIFICATION FairSpec
CONSTANTS
    Apps = {"inmem", "s3rdma"}
    MaxInFlight = 2
INVARIANTS TypeOK NilMeansDrained
PROPERTY ShutsDown
CHECK_DEADLOCK FALSE
