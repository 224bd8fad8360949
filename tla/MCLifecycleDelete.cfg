\* A delete arrives while the workspace is being created.
CONSTANTS
    Names = {n1}
    Ids = {i1, i2}
    Ports = {p1}
    Creators = {c1}
    Deleters = {d1}
    Diagnosers = {}
    MaxAttempts = 1
    Droppable = {}
    Hanging = {}
    MaxOrphans = 0
    NONE = NONE
SPECIFICATION Spec
PROPERTY DeleteStopsContainer
