\* TLC configuration added_disabled: refuted.
CONSTANTS
    p1 = p1
    p2 = p2
    a1 = a1
    a2 = a2
    a3 = a3
    r1 = r1
    r2 = r2
    Printers = {p1}
    Adapters = {a1, a2}
    Requests = {r1}
    Entries <- ThreeEntries
    Example <- FullExample
    MaxEdits = 0
SPECIFICATION Spec
INVARIANT EnabledIsDriven
