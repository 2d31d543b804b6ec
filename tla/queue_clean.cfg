SPECIFICATION Spec
CONSTANTS
    MaxJobs = 2
    Keys = {k1, k2}
    Printers = {p1, p2}
    DrawerPrinters = {p2}
    Priorities = {1}
    MaxConcurrentJobs = 2
    MaxRetries = 2
    MaxQueueDepth = 0
    MaxTerminalRows = 1
    Ops = {"cancel", "retry", "clear", "cleanup", "stop"}
    Faults = {}
    MaxFaults = 0
    SlowRestarts = FALSE
    ScanLimit = 2
    Wedged = {}
SYMMETRY KeySymmetry
INVARIANTS AcceptedJobsKept RowsKeepWhatTheyNeed
PROPERTIES CancelledNeverPrints ImplementsLedger
