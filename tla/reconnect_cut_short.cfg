\* TLC configuration reconnect_cut_short: refuted.
CONSTANTS
    c1 = c1
    c2 = c2
    Clients = {c1}
    MaxReconnectAttempts = 1
    IdleRelease = TRUE
    Operations = {"reconnect"}
SPECIFICATION Spec
PROPERTY NewConnectionKept
CHECK_DEADLOCK FALSE
