\* Two providers are connected at the same time; nothing fails.
SPECIFICATION Spec
CONSTANTS
    Providers = {p1, p2}
    Curated = {p1, p2}
    Toks = {k1, k2}
    Requests = {r1, r2}
    Creators = {}
    Ops = {"connect"}
    Failing = {}
    Droppable = {}
    MaxOrphans = 0
    SENTINEL = SENTINEL
    NONE = NONE
SYMMETRY Symmetry
INVARIANTS
    TokenCoversConnected
