\* TLC configuration healing.
CONSTANTS
    kitchen = kitchen
    receipt = receipt
    XP = XP
    XPCopy = XPCopy
    TM = TM
    Printers = {kitchen, receipt}
    Names = {XP, XPCopy, TM}
    PortsOf <- TwoPorts
    ModelOf <- TwoModels
    FirstName <- TwoNames
    NameScore <- Scores
    DeviceNamedLike <- NoResemblance
    Changes = {"move", "power", "rename", "remove", "flag", "jam", "spooler", "look", "repair", "restart"}
    MaxChanges = 2
SPECIFICATION FairSpec
INVARIANTS RightStationIfAttached OneQueueEach
PROPERTIES FindsItself
