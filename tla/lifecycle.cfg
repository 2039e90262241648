CONSTANTS
    Requests = {r1, r2}
    Scrapes = {s1}
    ShutdownTimeout = 2
SPECIFICATION FairSpec
INVARIANTS TypeOK GracefulStop StopBounded CleanExit
PROPERTY StopsEventually
\* The process exits, or runs on without a signal.
CHECK_DEADLOCK FALSE
