\* TLC configuration idle_printer_refuses: refuted.
CONSTANTS
    c1 = c1
    c2 = c2
    Clients = {c1}
    MaxReconnectAttempts = 1
    IdleRelease = TRUE
    Operations = {}
SPECIFICATION Spec
PROPERTY IdlePrinterPrints
CHECK_DEADLOCK FALSE
