\* Two users and two workspaces, over one port that changes hands.  Tokens,
\* OAuth states and bearers share their names, and so do requests.
SPECIFICATION Spec
CONSTANTS
    Users = {u1, u2}
    Workspaces = {w1, w2}
    Ports = {p1}
    States = {t1, t2}
    Tokens = {t1, t2}
    Bearers = {t1, t2}
    Handlers = {h1, h2}
    Callers = {h1, h2}
    Proxies = {r1}
    Calls <- MCCalls
    Agents = {a1, a2}
    Pages <- MCPages
    MaxListLimit = 2
    MaxPending = 1
    StateLife = 1
    SessionLife = 1
    MaxTime = 2
    Requests <- MCRequests
    Providers <- MCProviders
    MaxFailures = 2
    Window = 0
    MaxClock = 1
    Failing = {"google", "database", "upstream"}
    NONE = NONE
SYMMETRY Symmetry
INVARIANTS
    TypesOK
    StatesSpentOnce
    CookieWorks
    LateIsRefused
    OwnerWasChecked
    ArrivesAsAsked
    VerdictsAreTheirOwn
    FailuresBounded
    OnlyItsOwn
PROPERTIES
    ChangesHandsToRacers
    LockIsEarned
