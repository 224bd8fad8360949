\* Two creators and a deleter race for one name.
CONSTANTS
    Names = {n1}
    Ids = {i1, i2}
    Ports = {p1}
    Creators = {c1, c2}
    Deleters = {d1}
    Diagnosers = {}
    MaxAttempts = 1
    Droppable = {c1, c2, d1}
    Hanging = {}
    MaxOrphans = 1
    NONE = NONE
SPECIFICATION Spec
INVARIANTS
    TypeOK
    ReadyHasContainer
    ContainersAreClaimed
PROPERTY ImplementsRegistry
SYMMETRY Symmetry
