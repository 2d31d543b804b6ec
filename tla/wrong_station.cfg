\* TLC configuration wrong_station.
CONSTANTS
    kitchen = kitchen
    receipt = receipt
    XP = XP
    XPCopy = XPCopy
    TM = TM
    Printers = {kitchen, receipt}
    Names = {XP, XPCopy, TM}
    PortsOf <- TwoPorts
    ModelOf <- TwoModels
    FirstName <- TwoNames
    NameScore <- Scores
    DeviceNamedLike <- NoResemblance
    Changes = {"move", "power"}
    MaxChanges = 2
SPECIFICATION Spec
INVARIANTS RightStation
