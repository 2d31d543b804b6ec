\* TLC configuration network_safety.
CONSTANTS
    c1 = c1
    c2 = c2
    Clients = {c1, c2}
    MaxReconnectAttempts = 1
    IdleRelease = TRUE
    Operations = {"reconnect", "unregister"}
SPECIFICATION Spec
SYMMETRY ClientSymmetry
INVARIANT OneConnection
INVARIANT LadderAlive
INVARIANT OneWriter
CHECK_DEADLOCK FALSE
