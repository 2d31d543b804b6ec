SPECIFICATION Spec
CONSTANTS
    MaxJobs = 2
    Keys = {k1, k2}
    Printers = {p1}
    DrawerPrinters = {}
    Priorities = {1}
    MaxConcurrentJobs = 2
    MaxRetries = 2
    MaxQueueDepth = 0
    MaxTerminalRows = 1
    Ops = {}
    Faults = {"exception"}
    MaxFaults = 1
    SlowRestarts = FALSE
    ScanLimit = 2
    Wedged = {}
INVARIANTS NoOrphan
CHECK_DEADLOCK FALSE
