\* TLC configuration supervisor_orphan: refuted.
CONSTANTS
    s1 = s1
    s2 = s2
    s3 = s3
    Servers = {s1, s2}
    Faults = {"supervisor"}
    MaxFaults = 1
    Installed = FALSE
SPECIFICATION FairSpec
PROPERTY OrphansLeave
CHECK_DEADLOCK FALSE
