------------------------------- MODULE DaemonWatch -------------------------------
(***************************************************************************)
(* The watcher of the Docker daemon (workspaces/daemon_watch.rs): it polls *)
(* the daemon and, when it is back after an outage that a poll has seen,   *)
(* diagnoses every ready workspace.                                        *)
(*                                                                         *)
(* Abstractions.  A diagnosis is one step with the outcomes that           *)
(* WorkspaceLifecycle has for it.  An outage stops every container.        *)
(***************************************************************************)
EXTENDS Naturals, FiniteSets

CONSTANTS
    Watched,        \* workspaces
    Cursed,         \* workspaces whose diagnosis may end in an error
    MaxOutages      \* bounds the outages, one of which may come before the gateway

ASSUME WatchAssumption == Cursed \subseteq Watched /\ MaxOutages \in Nat \ {0}

VARIABLES
    daemon,         \* docker info succeeds
    running,        \* the workspaces whose container runs
    ready,          \* the workspaces that have a ready row and a container
    last,           \* last_reachable: "up", "down", or "unseen" before the first poll
    sweep,          \* the records that heal_all_ready_workspaces has yet to do
    outages,        \* history: outages so far
    noticed,        \* history: a poll has seen the current, or the last, outage
    missed,         \* history: an outage was never acted on
    sweeps          \* history: sweeps so far

dwVars == <<daemon, running, ready, last, sweep, outages, noticed, missed, sweeps>>
seenOf == <<outages, noticed, missed>>

InitWatch ==
    /\ daemon \in BOOLEAN /\ noticed = FALSE /\ missed = FALSE
    /\ running = {} /\ ready = Watched
    /\ last = "unseen" /\ sweep = {}
    /\ outages = IF daemon THEN 0 ELSE 1
    /\ sweeps = 0

------------------------------------------------------------------------------
(* run, which sleeps between two polls and polls after a sweep             *)

Polling == sweep = {}

(* Every poll that finds the daemon up is taken for a recovery. *)
PollForgetful ==
    /\ Polling
    /\ noticed' = (noticed \/ ~daemon)
    /\ IF daemon /\ last # "unseen"
       THEN sweep' = ready /\ sweeps' = sweeps + 1
       ELSE UNCHANGED <<sweep, sweeps>>
    /\ last' = IF daemon THEN "up" ELSE "down"
    /\ UNCHANGED <<daemon, running, ready, outages, missed>>

(* The daemon was down at the last poll and is up at this one: the ready   *)
(* rows are read, once; if that fails there is no sweep, and no other try. *)
Poll ==
    /\ Polling
    /\ noticed' = (noticed \/ ~daemon)
    /\ \/ last = "down" /\ daemon /\ sweep' = ready /\ sweeps' = sweeps + 1 /\ UNCHANGED missed
       \/ last = "down" /\ daemon /\ missed' = TRUE /\ UNCHANGED <<sweep, sweeps>>
       \/ ~(last = "down" /\ daemon) /\ UNCHANGED <<sweep, sweeps, missed>>
    /\ last' = IF daemon THEN "up" ELSE "down"
    /\ UNCHANGED <<daemon, running, ready, outages>>

(* One diagnosis that ends in an error ends the sweep. *)
HealOrStop(w) ==
    /\ w \in sweep
    /\ \/ /\ daemon
          /\ running' = running \union {w} /\ sweep' = sweep \ {w} /\ UNCHANGED ready
       \/ (~daemon \/ w \in Cursed) /\ sweep' = {} /\ UNCHANGED <<running, ready>>
    /\ UNCHANGED <<daemon, last, seenOf, sweeps>>

(* diagnose_workspace: the container is brought back, or its row fails, or *)
(* there is an error - the daemon is gone again, the workspace is cursed   *)
(* or its row was deleted meanwhile - and the next one is tried.           *)
Heal(w) ==
    /\ w \in sweep /\ sweep' = sweep \ {w}
    /\ \/ daemon /\ w \in ready /\ running' = running \union {w} /\ UNCHANGED ready
       \/ daemon /\ w \in ready /\ w \notin running /\ ready' = ready \ {w} /\ UNCHANGED running
       \/ ~daemon /\ UNCHANGED <<running, ready>>
       \/ (w \in Cursed \/ w \notin ready) /\ UNCHANGED <<running, ready>>
    /\ UNCHANGED <<daemon, last, seenOf, sweeps>>

------------------------------------------------------------------------------
(* Around it: the daemon, and the creates and deletes of the gateway       *)

Outage ==
    /\ daemon /\ outages < MaxOutages
    /\ daemon' = FALSE /\ running' = {}
    /\ outages' = outages + 1 /\ noticed' = FALSE
    /\ UNCHANGED <<ready, last, sweep, missed, sweeps>>

Reopen ==
    /\ ~daemon /\ daemon' = TRUE
    /\ missed' = (missed \/ ~noticed)
    /\ UNCHANGED <<running, ready, last, sweep, outages, noticed, sweeps>>

CreateReady(w) ==
    /\ daemon /\ w \notin ready
    /\ ready' = ready \union {w} /\ running' = running \union {w}
    /\ UNCHANGED <<daemon, last, sweep, seenOf, sweeps>>

DeleteReady(w) ==
    /\ daemon /\ w \in ready
    /\ ready' = ready \ {w} /\ running' = running \ {w}
    /\ UNCHANGED <<daemon, last, sweep, seenOf, sweeps>>

Watcher == Poll \/ \E w \in Watched : Heal(w)

WatchNext ==
    \/ Watcher \/ Outage \/ Reopen
    \/ \E w \in Watched : CreateReady(w) \/ DeleteReady(w)

WatchSpec == InitWatch /\ [][WatchNext]_dwVars

------------------------------------------------------------------------------
(* Properties *)

WatchTypeOK ==
    /\ daemon \in BOOLEAN /\ noticed \in BOOLEAN /\ missed \in BOOLEAN
    /\ last \in {"unseen", "up", "down"}
    /\ running \subseteq Watched /\ ready \subseteq Watched /\ sweep \subseteq Watched
    /\ outages \in 0..MaxOutages /\ sweeps \in Nat

(* After an outage that a poll has seen every workspace that is still      *)
(* ready runs again, whichever of the others cannot be diagnosed and       *)
(* however often the daemon goes down again - unless an outage slips       *)
(* between two polls, or the rows cannot be read after it, which nothing   *)
(* makes up for (daemon_watch.rs:62-136).                                  *)
SeenOutagesAreHealed ==
    last = "down" ~> missed \/ ready \ Cursed \subseteq running

(* The sweep is paid for by an outage: the watcher never heals twice for   *)
(* one, nor for a daemon that was up at its first poll (48-50, 66-84).     *)
SweepsArePaidFor == sweeps <= outages
==============================================================================
