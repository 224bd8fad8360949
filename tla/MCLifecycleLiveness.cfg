\* A creator that may be dropped or hang in docker, a deleter that may hang, and a
\* creator that does neither.
CONSTANTS
    Names = {n1}
    Ids = {i1, i2}
    Ports = {p1}
    Creators = {c1, c2}
    Deleters = {d1}
    Diagnosers = {}
    MaxAttempts = 1
    Droppable = {c1}
    Hanging = {c1, d1}
    MaxOrphans = 0
    NONE = NONE
SPECIFICATION FairSpec
PROPERTIES
    CreatingSettles
    CreatesAreAnswered
