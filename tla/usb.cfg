\* TLC configuration usb.
CONSTANTS
    AtFirst = {"gone"}
    c1 = c1
    c2 = c2
    m1 = m1
    Managers = {m1}
    Clients = {c1, c2}
    World = {"ready", "stuck"}
    Operations = {"reconnect","register","repair","reconcile"}
    MaxOperations = 1
    MaxWriteQueue = 1
SPECIFICATION SceneSpec
INVARIANT OneSend
PROPERTY WritesAnswered RepairedUnattended
