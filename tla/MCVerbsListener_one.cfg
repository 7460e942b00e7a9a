SPECIFICATION FairSpec
CONSTANTS
    Workers = {w1}
    Conns = {c1, c2, c3}
    NoConn = noconn
    OutCap = 1
INVARIANTS TypeOK ConnAlive NoUseAfterFree
PROPERTIES RequestsDrained CloseReturns
CHECK_DEADLOCK FALSE
