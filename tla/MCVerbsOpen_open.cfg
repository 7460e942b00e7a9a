SPECIFICATION FairSpec
CONSTANTS
    MaxAttempts = 2
    Limit = 2
    Deadlines = {FALSE, TRUE}
INVARIANTS TypeOK WinnerWhole FailedHoldsNothing
PROPERTIES LateSuccessClosed OpenReturns
CHECK_DEADLOCK FALSE
