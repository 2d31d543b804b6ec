SPECIFICATION FairSpec
CONSTANTS
    MaxJobs = 2
    Keys = {k1, k2}
    Printers = {p1}
    DrawerPrinters = {}
    Priorities = {1}
    MaxConcurrentJobs = 2
    MaxRetries = 2
    MaxQueueDepth = 1
    MaxTerminalRows = 1
    Ops = {"cancel"}
    Faults = {"kill", "exception"}
    MaxFaults = 2
    SlowRestarts = TRUE
    ScanLimit = 2
    Wedged = {}
INVARIANTS NoOrphan BacklogBounded
PROPERTIES JobsSettle
CHECK_DEADLOCK FALSE
