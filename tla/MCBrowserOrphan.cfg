SPECIFICATION Spec
CONSTANTS
    Agents = {a1}
    Callers = {t1, t2}
    Sweeper = sw
    Pids = {p1, p2, p3}
    Ops = {"start", "stop", "status"}
    NONE = NONE
SYMMETRY Symmetry
INVARIANTS
    OneChromiumPerAgent
