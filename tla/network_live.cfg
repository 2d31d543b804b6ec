\* TLC configuration network_live.
CONSTANTS
    c1 = c1
    c2 = c2
    Clients = {c1, c2}
    MaxReconnectAttempts = 1
    IdleRelease = TRUE
    Operations = {}
SPECIFICATION FairSpec
PROPERTY TicketsAnswered
PROPERTY Recovers
CHECK_DEADLOCK FALSE
