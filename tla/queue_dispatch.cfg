SPECIFICATION FairSpec
CONSTANTS
    MaxJobs = 3
    Keys = {k1, k2, k3}
    Printers = {p1, p2}
    DrawerPrinters = {}
    Priorities = {1}
    MaxConcurrentJobs = 2
    MaxRetries = 1
    MaxQueueDepth = 0
    MaxTerminalRows = 1
    Ops = {}
    Faults = {}
    MaxFaults = 0
    SlowRestarts = FALSE
    ScanLimit = 1
    Wedged = {p1}
INVARIANTS OneJobPerPrinter LoopTakesBatch
PROPERTIES JobsSettle
CHECK_DEADLOCK FALSE
