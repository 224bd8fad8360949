---------------------------- MODULE BrowserManager ----------------------------
(***************************************************************************)
(* The daemon that owns one Chromium per agent in a workspace container    *)
(* (backend/workspace-image/browser_manager.py): HTTP threads that start,  *)
(* stop and query browsers, and the idle sweep, over one registry.         *)
(* start, stop and the sweep hold the process-wide lock; status does not.  *)
(*                                                                         *)
(* Abstractions.  A process id is never reused, and a port belongs to its  *)
(* process.  last_activity is kept as whether it is older than the idle    *)
(* timeout, which is on.  A zombie is dead: every check reaps it first.    *)
(***************************************************************************)
EXTENDS Naturals, FiniteSets

CONSTANTS
    Agents,     \* agent ids
    Callers,    \* threads of the HTTP server
    Sweeper,    \* the idle sweep's thread
    Pids,       \* process ids; bounds the Chromiums ever launched
    Ops,        \* the requests that arrive, of start, stop and status
    NONE        \* no entry, nobody

ASSUME OpsAssumption == Ops \subseteq {"start", "stop", "status"}
ASSUME NamesAssumption ==
    /\ Sweeper \notin Callers
    /\ NONE \notin Agents /\ NONE \notin Pids
    /\ NONE \notin Callers \union {Sweeper}
    /\ NONE \notin [pid: Pids, idle: BOOLEAN]
    /\ NONE \notin {"start", "stop", "status"}

VARIABLES
    registry,   \* _registry: NONE or [pid, idle], by agent
    lock,       \* the thread that holds _lock
    thr,        \* each thread's program counter and locals
    expired,    \* the sweep's list of agents still to kill
    st,         \* the state of each process
    owner       \* the agent whose profile a process was launched on

vars == <<registry, lock, thr, expired, st, owner>>

Threads == Callers \union {Sweeper}
Running == {"up", "term", "killed"}
ProcState == {"unborn", "dead"} \union Running

Entry == [pid: Pids, idle: BOOLEAN]
Thread == [pc: {"idle", "lock", "get", "check", "drop", "launch",
                "scan", "pick", "term", "wait", "del"},
           op: {"start", "stop", "status", NONE},
           agent: Agents \union {NONE}, pid: Pids \union {NONE}]
Idle == [pc |-> "idle", op |-> NONE, agent |-> NONE, pid |-> NONE]

Init ==
    /\ registry = [a \in Agents |-> NONE]
    /\ lock = NONE
    /\ thr = [t \in Threads |-> Idle]
    /\ expired = {}
    /\ st = [p \in Pids |-> "unborn"]
    /\ owner = [p \in Pids |-> NONE]

------------------------------------------------------------------------------
At(t, pc) == thr[t].pc = pc
Goto(t, pc) == thr' = [thr EXCEPT ![t] = [@ EXCEPT !.pc = pc]]

(* An early end that forgets the lock. *)
FinishHolding(t) ==
    /\ thr' = [thr EXCEPT ![t] = Idle]
    /\ UNCHANGED lock

(* The answer, or the exception that ends the request: the lock is released *)
(* by the end of the with block.                                           *)
Finish(t) ==
    /\ thr' = [thr EXCEPT ![t] = Idle]
    /\ lock' = IF lock = t THEN NONE ELSE lock

(* Bound: a start arrives only if a process id is left for it.             *)
Spare ==
    Cardinality({p \in Pids : st[p] = "unborn"}) >
        Cardinality({t \in Callers : ~At(t, "idle") /\ thr[t].op = "start"})

Receive(t, op, a) ==
    /\ At(t, "idle")
    /\ op = "start" => Spare
    /\ thr' = [thr EXCEPT ![t] = [pc |-> IF op = "status" THEN "get" ELSE "lock",
                                  op |-> op, agent |-> a, pid |-> NONE]]
    /\ UNCHANGED <<registry, lock, expired, st, owner>>

(* Without the lock: its holder is not waited for. *)
AcquireUnlocked(t) ==
    /\ At(t, "lock")
    /\ lock' = t
    /\ Goto(t, IF t = Sweeper THEN "scan" ELSE "get")
    /\ UNCHANGED <<registry, expired, st, owner>>

Acquire(t) ==
    /\ At(t, "lock") /\ lock = NONE
    /\ lock' = t
    /\ Goto(t, IF t = Sweeper THEN "scan" ELSE "get")
    /\ UNCHANGED <<registry, expired, st, owner>>

(* _live_entry, a read, a liveness check and a delete: the read. *)
Get(t) ==
    LET entry == registry[thr[t].agent] IN
    /\ At(t, "get")
    /\ \/ /\ entry = NONE
          /\ IF thr[t].op = "start" THEN Goto(t, "launch") /\ UNCHANGED lock ELSE Finish(t)
       \/ /\ entry # NONE
          /\ thr' = [thr EXCEPT ![t] = [@ EXCEPT !.pid = entry.pid, !.pc = "check"]]
          /\ UNCHANGED lock
    /\ UNCHANGED <<registry, expired, st, owner>>

(* The liveness check.  For a live process start refreshes the entry and   *)
(* answers, stop goes on to terminate it, and status answers.              *)
Check(t) ==
    LET a == thr[t].agent
        p == thr[t].pid IN
    /\ At(t, "check")
    /\ \/ st[p] \notin Running /\ Goto(t, "drop") /\ UNCHANGED <<registry, lock>>
       \/ /\ st[p] \in Running /\ thr[t].op = "start"
          /\ registry' = IF registry[a] # NONE /\ registry[a].pid = p
                         THEN [registry EXCEPT ![a] = [pid |-> p, idle |-> FALSE]]
                         ELSE registry
          /\ Finish(t)
       \/ /\ st[p] \in Running /\ thr[t].op = "stop"
          /\ Goto(t, "term")
          /\ UNCHANGED <<registry, lock>>
       \/ st[p] \in Running /\ thr[t].op = "status" /\ Finish(t) /\ UNCHANGED registry
    /\ UNCHANGED <<expired, st, owner>>

(* The delete of a dead process's entry; a KeyError ends the request.      *)
Drop(t) ==
    LET a == thr[t].agent IN
    /\ At(t, "drop")
    /\ \/ registry[a] = NONE /\ Finish(t) /\ UNCHANGED registry
       \/ /\ registry[a] # NONE
          /\ registry' = [registry EXCEPT ![a] = NONE]
          /\ IF thr[t].op = "start" THEN Goto(t, "launch") /\ UNCHANGED lock ELSE Finish(t)
    /\ UNCHANGED <<expired, st, owner>>

(* mkdir, a free port and Popen, any of which may fail, and the new entry  *)
Launch(t) ==
    LET a == thr[t].agent IN
    /\ At(t, "launch")
    /\ Finish(t)
    /\ \/ \E p \in Pids :
             /\ st[p] = "unborn"
             /\ st' = [st EXCEPT ![p] = "up"]
             /\ owner' = [owner EXCEPT ![p] = a]
             /\ registry' = [registry EXCEPT ![a] = [pid |-> p, idle |-> FALSE]]
       \/ UNCHANGED <<st, owner, registry>>
    /\ UNCHANGED expired

------------------------------------------------------------------------------
(* _terminate, for stop and for the sweep *)

SigTerm(t) ==
    LET p == thr[t].pid IN
    /\ At(t, "term")
    /\ st' = IF st[p] = "up" THEN [st EXCEPT ![p] = "term"] ELSE st
    /\ Goto(t, "wait")
    /\ UNCHANGED <<registry, lock, expired, owner>>

(* A process that outlives the grace period is given up on. *)
AwaitExitWithoutKill(t) ==
    /\ At(t, "wait")
    /\ Goto(t, "del")
    /\ UNCHANGED <<registry, lock, expired, st, owner>>

(* Polling ends when the process is dead or the grace period is over; then *)
(* SIGKILL, and no more waiting.                                           *)
AwaitExit(t) ==
    LET p == thr[t].pid IN
    /\ At(t, "wait")
    /\ st' = IF st[p] \in Running THEN [st EXCEPT ![p] = "killed"] ELSE st
    /\ Goto(t, "del")
    /\ UNCHANGED <<registry, lock, expired, owner>>

(* The delete that follows; a KeyError ends the request, or the sweep.     *)
Delete(t) ==
    LET a == thr[t].agent IN
    /\ At(t, "del")
    /\ \/ registry[a] = NONE /\ Finish(t) /\ UNCHANGED registry
       \/ /\ registry[a] # NONE
          /\ registry' = [registry EXCEPT ![a] = NONE]
          /\ IF t = Sweeper THEN Goto(t, "pick") /\ UNCHANGED lock ELSE Finish(t)
    /\ UNCHANGED <<expired, st, owner>>

------------------------------------------------------------------------------
(* sweep_idle, every 30 seconds *)

Wake ==
    /\ At(Sweeper, "idle")
    /\ Goto(Sweeper, "lock")
    /\ UNCHANGED <<registry, lock, expired, st, owner>>

(* The lock is let go before the kills, which may take 5 seconds each. *)
ScanReleasing ==
    /\ At(Sweeper, "scan")
    /\ expired' = {a \in Agents : registry[a] # NONE /\ registry[a].idle}
    /\ Goto(Sweeper, "pick")
    /\ lock' = NONE
    /\ UNCHANGED <<registry, st, owner>>

(* The list of idle agents.  A status that deletes an entry meanwhile makes *)
(* the iteration raise; the loop swallows that until the next sweep.       *)
Scan ==
    /\ At(Sweeper, "scan")
    /\ \/ /\ expired' = {a \in Agents : registry[a] # NONE /\ registry[a].idle}
          /\ Goto(Sweeper, "pick")
          /\ UNCHANGED lock
       \/ /\ \E t \in Callers : At(t, "drop") /\ thr[t].op = "status"
          /\ Finish(Sweeper)
          /\ UNCHANGED expired
    /\ UNCHANGED <<registry, st, owner>>

(* The next agent of the list, in any order; one whose entry is gone is    *)
(* skipped.                                                                *)
Pick ==
    /\ At(Sweeper, "pick")
    /\ \/ expired = {} /\ Finish(Sweeper) /\ UNCHANGED expired
       \/ \E a \in expired :
             /\ expired' = expired \ {a}
             /\ UNCHANGED lock
             /\ \/ registry[a] = NONE /\ UNCHANGED thr
                \/ /\ registry[a] # NONE
                   /\ thr' = [thr EXCEPT ![Sweeper] =
                                 [@ EXCEPT !.agent = a, !.pid = registry[a].pid, !.pc = "term"]]
    /\ UNCHANGED <<registry, st, owner>>

------------------------------------------------------------------------------
(* The environment *)

(* A Chromium exits: it was asked to, it was killed, or it crashed.        *)
Exit(p) ==
    /\ st[p] \in Running
    /\ st' = [st EXCEPT ![p] = "dead"]
    /\ UNCHANGED <<registry, lock, thr, expired, owner>>

(* The idle timeout passes for an agent. *)
Age(a) ==
    /\ registry[a] # NONE /\ ~registry[a].idle
    /\ registry' = [registry EXCEPT ![a] = [pid |-> registry[a].pid, idle |-> TRUE]]
    /\ UNCHANGED <<lock, thr, expired, st, owner>>

Step(t) ==
    \/ Acquire(t) \/ Get(t) \/ Check(t) \/ Drop(t) \/ Launch(t)
    \/ SigTerm(t) \/ AwaitExit(t) \/ Delete(t)
Sweep == Wake \/ Scan \/ Pick

Next ==
    \/ \E t \in Callers, op \in Ops, a \in Agents : Receive(t, op, a)
    \/ \E t \in Threads : Step(t)
    \/ Sweep
    \/ \E p \in Pids : Exit(p)
    \/ \E a \in Agents : Age(a)

Spec == Init /\ [][Next]_vars

(* Threads run, the sweep wakes, time passes and SIGKILL kills.  A Chromium *)
(* need not obey SIGTERM, and the lock is not fair to those who wait for it.*)
FairSpec ==
    /\ Spec
    /\ \A t \in Threads : WF_vars(Step(t))
    /\ WF_vars(Sweep)
    /\ \A p \in Pids : WF_vars(st[p] = "killed" /\ Exit(p))
    /\ \A a \in Agents : WF_vars(Age(a))

------------------------------------------------------------------------------
(* Properties *)

(* The lock is held by a thread that is inside the with block. *)
TypeOK ==
    /\ registry \in [Agents -> Entry \union {NONE}]
    /\ thr \in [Threads -> Thread]
    /\ lock \in {t \in Threads : thr[t].pc \notin {"idle", "lock"}} \union {NONE}
    /\ expired \subseteq Agents
    /\ st \in [Pids -> ProcState]
    /\ owner \in [Pids -> Agents \union {NONE}]

(* No two Chromiums work on one agent's profile (comment at 417-423).  One  *)
(* that has had its SIGKILL is on its way out and does not count.           *)
OneChromiumPerAgent ==
    \A p, q \in Pids :
        p # q /\ st[p] \in {"up", "term"} /\ st[q] \in {"up", "term"} => owner[p] # owner[q]

(* A thread about to delete an entry deletes the one it looked at: no stop  *)
(* or sweep ends in a KeyError after its kill, and nobody's new browser is  *)
(* forgotten (435-446, 489, 568).                                          *)
DeletesItsOwnEntry ==
    \A t \in Threads :
        thr[t].pc \in {"drop", "del"} =>
            /\ registry[thr[t].agent] # NONE
            /\ registry[thr[t].agent].pid = thr[t].pid

(* A sweep never kills a browser that a start has confirmed in time: what   *)
(* it decided on is still so when the signal is sent, even if other kills   *)
(* came first (556-568).                                                   *)
SweepSparesActive ==
    [][At(Sweeper, "pick") /\ thr'[Sweeper].pc = "term" =>
           registry[thr'[Sweeper].agent].idle]_vars

(* The first browser an agent is given is never lost: whatever the races,   *)
(* one that runs without an entry had a predecessor that died.             *)
FirstBrowserNeverLost ==
    \A p \in Pids :
        st[p] \in {"up", "term"} =>
            \/ registry[owner[p]] # NONE /\ registry[owner[p]].pid = p
            \/ \E q \in Pids \ {p} : owner[q] = owner[p] /\ st[q] \in {"killed", "dead"}

(* Once requests stop coming, every browser is reclaimed (143-150).         *)
QuietReclaimsAll ==
    <>[](\A t \in Callers : At(t, "idle")) =>
        <>[](\A p \in Pids : st[p] \notin Running)
==============================================================================
