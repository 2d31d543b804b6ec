\* TLC configuration removed_reconnects: refuted.
CONSTANTS
    c1 = c1
    c2 = c2
    Clients = {c1}
    MaxReconnectAttempts = 1
    IdleRelease = TRUE
    Operations = {"unregister"}
SPECIFICATION Spec
PROPERTY RemovedStaysAway
CHECK_DEADLOCK FALSE
