\* TLC configuration registry.
CONSTANTS
    p1 = p1
    p2 = p2
    a1 = a1
    a2 = a2
    a3 = a3
    r1 = r1
    r2 = r2
    Printers = {p1, p2}
    Adapters = {a1, a2, a3}
    Requests = {r1, r2}
    Entries <- ThreeEntries
    Example <- FullExample
    MaxEdits = 1
SPECIFICATION MCSpec
SYMMETRY Symmetry
INVARIANTS RegistryFollowsConfig DefaultServes NoneForgotten
PROPERTIES PrintersKept
