\* Two requests race; the first began as the creation of the workspace.
SPECIFICATION Spec
CONSTANTS
    Providers = {p1, p2}
    Curated = {p1}
    Toks = {k1, k2, k3}
    Requests = {r1, r2}
    Creators = {r1}
    Ops = {"connect", "list", "disconnect"}
    Failing = {"docker"}
    Droppable = {}
    MaxOrphans = 0
    SENTINEL = SENTINEL
    NONE = NONE
SYMMETRY Symmetry
INVARIANTS
    TypeOK
    ConnectedWasDelivered
    NoUnrestrictedToken
PROPERTIES
    RotationSparesStored
