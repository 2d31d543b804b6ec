\* TLC configuration supervision.
CONSTANTS
    s1 = s1
    s2 = s2
    s3 = s3
    Servers = {s1, s2, s3}
    Faults = {"kill", "hang", "supervisor", "byhand", "cold", "race", "torn", "readonly"}
    MaxFaults = 2
    Installed = TRUE
SPECIFICATION FairSpec
INVARIANT OneServing
PROPERTIES ServiceReturns QuitEnds
