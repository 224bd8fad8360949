\* Of the daemon two agents and three processes, without status.  Of the
\* watcher three workspaces and three outages, so that one comes during the
\* sweep of another.  Of the relay two frames each way, and room for one.
\* Of the catalog three queries over five hours, of a body four lines.
SPECIFICATION FairSum
CONSTANTS
    Agents = {a1, a2}
    Callers = {t1, t2}
    Sweeper = sw
    Pids = {p1, p2, p3}
    Ops = {"start", "stop"}
    NONE = NONE
    Watched = {v1, v2, v3}
    Cursed = {v1}
    MaxOutages = 3
    MaxFrames = 2
    Buffer = 1
    Queries = {q1, q2, q3}
    TTL = 2
    MaxHours = 5
    Payloads = {"a", "b"}
    MaxLines = 4
    Environments <- MCEnvironments
    EMPTY = EMPTY
INVARIANTS
    TypesOK
    OneChromiumPerAgent
    DeletesItsOwnEntry
    SweepsArePaidFor
    RelayIsTransparent
    WholeEventOfSuccess
    ListensConfigured
    OriginsListedOnce
PROPERTIES
    SweepSparesActive
    QuietReclaimsAll
    SeenOutagesAreHealed
    RelayEnds
    FetchesSpaced
