\* Two creators of one name: the second one arrives while the first launches.
CONSTANTS
    Names = {n1}
    Ids = {i1, i2}
    Ports = {p1}
    Creators = {c1, c2}
    Deleters = {}
    Diagnosers = {}
    MaxAttempts = 1
    Droppable = {}
    Hanging = {}
    MaxOrphans = 0
    NONE = NONE
SPECIFICATION Spec
INVARIANT RetryStartsNoSecondContainer
