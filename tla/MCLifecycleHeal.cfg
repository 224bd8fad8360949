CONSTANTS
    Names = {n1, n2}
    Healed = {n1}
    Ids = {i1, i2}
    Ports = {p1, p2}
    Creators = {c1}
    Deleters = {d1}
    Diagnosers = {g1}
    MaxAttempts = 2
    Droppable = {c1, d1, g1}
    Hanging = {}
    MaxOrphans = 0
    NONE = NONE
SPECIFICATION SideSpec
INVARIANTS
    RowsNameProvenLaunch
    RetriedIsBacked
PROPERTY ImplementsRegistry
SYMMETRY Symmetry
