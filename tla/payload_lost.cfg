\* TLC configuration payload_lost.
SPECIFICATION Spec
CONSTANTS
    MaxJobs = 2
    Keys = {k1, k2}
    Printers = {p1}
    DrawerPrinters = {}
    Priorities = {1, 2}
    MaxConcurrentJobs = 2
    MaxRetries = 1
    MaxQueueDepth = 0
    MaxTerminalRows = 1
    Ops = {"cancel", "retry", "stop", "clear"}
    Faults = {"wasm"}
    MaxFaults = 1
    SlowRestarts = FALSE
    ScanLimit = 2
    Wedged = {}
SYMMETRY KeySymmetry
INVARIANTS RowsKeepWhatTheyNeed
