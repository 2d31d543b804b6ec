SPECIFICATION Spec
CONSTANTS
    MaxJobs = 2
    Keys = {k1, k2}
    Printers = {p1}
    DrawerPrinters = {}
    Priorities = {1, 2}
    MaxConcurrentJobs = 2
    MaxRetries = 1
    MaxQueueDepth = 0
    MaxTerminalRows = 1
    Ops = {"cancel", "retry", "stop", "pause", "printers", "test"}
    Faults = {"kill", "exception", "overrun", "wasm", "corrupt", "diskfull", "ambiguous"}
    MaxFaults = 1
    SlowRestarts = FALSE
    ScanLimit = 2
    Wedged = {}
SYMMETRY KeySymmetry
INVARIANTS CleanMeansSaved CompletedMeansPrinted DispatchInv UniqueKeys
