\* One request at a time, over a curated and a catalog provider.  The rotation
\* of a workspace creation is in MCTokensRaces.cfg; the theorems have both.
SPECIFICATION Spec
CONSTANTS
    Providers = {p1, p2}
    Curated = {p1}
    Toks = {k1, k2, k3}
    Requests = {r1}
    Creators = {}
    Ops = {"connect", "list", "disconnect", "oauth"}
    Failing = {"openconnector", "database", "docker"}
    Droppable = {r1}
    MaxOrphans = 1
    SENTINEL = SENTINEL
    NONE = NONE
SYMMETRY Symmetry
INVARIANTS
    WorkingToken
    NoTokenLeak
