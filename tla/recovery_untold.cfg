\* TLC configuration recovery_untold: refuted.
CONSTANTS
    Dirs = {"local", "share"}
    RetentionDays = 1
    MaxDays = 2
    MaxRequests = 1
    MaxOrders = 1
    BackupFaults = {"pos", "dump", "copy", "end"}
    MaxBackupFaults = 1
    Stations = {"kitchen", "bar"}
    ConfirmSamples = 2
    MinInterval = 3
    MaxDeviceChanges = 2
    MaxChildFailures = 3
    LastRelease = 3
    Signed = {2}
    Portable = {2, 3}
    MaxAnnouncements = 1
SPECIFICATION Spec
PROPERTY RecoveryAlwaysTold
CHECK_DEADLOCK FALSE
