-------------------------- MODULE WorkspaceLifecycle --------------------------
(***************************************************************************)
(* The life of a workspace in the gateway (src/rust_gateway/src/workspaces):*)
(* requests that create, delete and diagnose workspaces, each a sequence   *)
(* of awaited calls that interleave with the others, over the table        *)
(* workspace_creations and the Docker daemon.                              *)
(*                                                                         *)
(* Abstractions.  A container's three published host ports, picked, stored *)
(* and published together, are one member of Ports (two members share no   *)
(* port).  A container is named hermes-ws-<id>, so its name is written as  *)
(* the id it was derived from.  A database error ends a request where it   *)
(* is, as Drop does.  The wrapper and the desktop answer together.  Of two *)
(* equal orphans (below) one is kept.                                      *)
(***************************************************************************)
EXTENDS Naturals, FiniteSets

CONSTANTS
    Names,          \* workspace names: the idempotency keys
    Ids,            \* workspace ids: version 4 UUIDs
    Ports,          \* triples of host ports
    Creators,       \* POST /workspaces requests; each also stands for its user
    Deleters,       \* DELETE /workspaces/:id requests
    Diagnosers,     \* POST /workspaces/:id/diagnose requests and the watcher's sweep
    MaxAttempts,    \* LaunchRetryPolicy::production().max_attempts
    Droppable,      \* the requests a client disconnect or a restart may end early
    Hanging,        \* the requests of which a docker command may never return
    MaxOrphans,     \* bounds the docker commands that outlive their requests at a time
    NONE            \* an absent row, name or port

ASSUME AttemptsAssumption == MaxAttempts \in Nat \ {0}
ASSUME FaultsAssumption ==
    /\ Droppable \subseteq Creators \union Deleters \union Diagnosers
    /\ Hanging \subseteq Creators \union Deleters \union Diagnosers
    /\ MaxOrphans \in Nat
ASSUME NoneAssumption ==
    /\ NONE \notin Names
    /\ NONE \notin Ids
    /\ NONE \notin Ports
    /\ NONE \notin Creators

VARIABLES
    rows,       \* workspace_creations by idempotency_key: NONE or a Row
    claim,      \* history: the name each id was drawn for
    docker,     \* the container called hermes-ws-<id>, by id
    proven,     \* history: <<id, ports>> that a launch saw answering
    creq,       \* in-flight create requests
    dreq,       \* in-flight delete requests
    greq,       \* in-flight diagnoses
    orphans     \* docker commands still running whose request is gone

vars == <<rows, claim, docker, proven, creq, dreq, greq, orphans>>

------------------------------------------------------------------------------
(* The table *)

Status == {"creating", "ready", "failed"}

Row == [id: Ids, status: Status, name: Ids \union {NONE},
        port: Ports \union {NONE}, owner: Creators \union {NONE}]

(* An absent row is told from every row, and from what Registry sees of one. *)
ASSUME RowAssumption ==
    /\ NONE \notin Row
    /\ NONE \notin [id: Ids, status: Status]

(* WHERE workspace_id = ? *)
RowsOf(i) == {n \in Names : rows[n] # NONE /\ rows[n].id = i}

(* What an UPDATE does to the row it selects; no row, no effect *)
AsReady(r, name, port) ==
    IF r = NONE THEN NONE
    ELSE [id |-> r.id, status |-> "ready", name |-> name, port |-> port, owner |-> r.owner]
AsFailed(r) == IF r = NONE THEN NONE ELSE [r EXCEPT !.status = "failed"]
AsOwned(r, user) == IF r = NONE THEN NONE ELSE [r EXCEPT !.owner = user]

------------------------------------------------------------------------------
(* Docker.  A "mute" container is up and its wrapper does not answer, until *)
(* it is started again: it hangs, or the container booted before the boot  *)
(* script was copied in.                                                   *)

Up == {"running", "mute"}
Container == [st: {"absent", "created", "exited"} \union Up,
              port: Ports \union {NONE}, hook: BOOLEAN]

Absent == [st |-> "absent", port |-> NONE, hook |-> FALSE]
Exists(i) == docker[i].st # "absent"

Bound == {docker[i].port : i \in {j \in Ids : docker[j].st \in Up}}

(* The health checks ask for the workspace's own path on a recorded port.  *)
Answers(i, p) == docker[i].st = "running" /\ docker[i].port = p

Remove(i) == docker' = [docker EXCEPT ![i] = Absent]

Create(i, p) ==
    /\ ~Exists(i)
    /\ docker' = [docker EXCEPT ![i] = [st |-> "created", port |-> p, hook |-> FALSE]]

(* docker cp of the boot script, into whatever has the name by now *)
CopyHook(i) == Exists(i) /\ docker' = [docker EXCEPT ![i].hook = TRUE]

(* docker stop: a missing or stopped container is as good as stopped. *)
Stop(i) == docker' = IF docker[i].st \in Up THEN [docker EXCEPT ![i].st = "exited"] ELSE docker

CanStart(i) == Exists(i) /\ (docker[i].st \in Up \/ docker[i].port \notin Bound)

(* docker start: nothing happens to a container that is already up *)
Start(i) ==
    docker' = IF docker[i].st \in Up THEN docker
              ELSE [docker EXCEPT ![i].st = IF docker[i].hook THEN "running" ELSE "mute"]

(* A docker command, the process, and what it does to the container it names *)
Command == [op: {"rm", "create", "deliver", "start", "stop"}, id: Ids,
            port: Ports \union {NONE}]

Does(o) ==
    \/ o.op = "rm" /\ Remove(o.id)
    \/ o.op = "create" /\ Create(o.id, o.port)
    \/ o.op = "deliver" /\ CopyHook(o.id)
    \/ o.op = "start" /\ CanStart(o.id) /\ Start(o.id)
    \/ o.op = "stop" /\ Stop(o.id)

------------------------------------------------------------------------------
(* Requests *)

LaunchPc == {"rm", "create", "deliver", "start", "await", "cleanup"}
CreatePc == {"idle", "find", "begin", "readback", "mark_ready", "ready_find",
             "mark_failed", "owner"} \union LaunchPc

CreateReq == [pc: CreatePc, name: Names \union {NONE}, id: Ids \union {NONE},
              port: Ports \union {NONE}, tries: 0..MaxAttempts]
NoCreate == [pc |-> "idle", name |-> NONE, id |-> NONE, port |-> NONE, tries |-> 0]

DeleteReq == [pc: {"idle", "find", "rm", "row"}, id: Ids \union {NONE}, name: Ids \union {NONE}]
NoDelete == [pc |-> "idle", id |-> NONE, name |-> NONE]

DiagnosePc == {"idle", "find", "inspect", "probe", "stop", "start", "await",
               "reinspect", "ready", "failed"}
DiagnoseReq == [pc: DiagnosePc, id: Ids \union {NONE}, name: Ids \union {NONE},
                port: Ports \union {NONE}, well: BOOLEAN]
NoDiagnose == [pc |-> "idle", id |-> NONE, name |-> NONE, port |-> NONE, well |-> FALSE]

Init ==
    /\ rows = [n \in Names |-> NONE]
    /\ claim = [i \in Ids |-> NONE]
    /\ docker = [i \in Ids |-> Absent]
    /\ proven = {}
    /\ creq = [c \in Creators |-> NoCreate]
    /\ dreq = [d \in Deleters |-> NoDelete]
    /\ greq = [g \in Diagnosers |-> NoDiagnose]
    /\ orphans = {}

------------------------------------------------------------------------------
(* Creating *)

Goto(c, pc) == creq' = [creq EXCEPT ![c].pc = pc]
Respond(c) == creq' = [creq EXCEPT ![c] = NoCreate]

AtStep(c, pc) ==
    /\ creq[c].pc = pc
    /\ UNCHANGED <<dreq, greq, orphans>>

(* Bound: an undrawn id is left for one more request than those that may   *)
(* still draw one.                                                         *)
Spare ==
    Cardinality({i \in Ids : claim[i] = NONE}) >
        Cardinality({e \in Creators : creq[e].pc \in {"find", "begin"}})

(* The route looks the name up first: a ready one is a collision. *)
Collision(c, n) ==
    /\ creq[c].pc = "idle"
    /\ rows[n] # NONE /\ rows[n].status = "ready"
    /\ UNCHANGED vars

Receive(c, n) ==
    /\ AtStep(c, "idle")
    /\ Spare \/ (rows[n] # NONE /\ \A d \in Deleters : dreq[d].pc = "idle")
    /\ rows[n] # NONE => rows[n].status # "ready"
    /\ creq' = [creq EXCEPT ![c] = [NoCreate EXCEPT !.pc = "find", !.name = n]]
    /\ UNCHANGED <<rows, claim, docker, proven>>

(* create_workspace decides on its own lookup, not on the route's. *)
Find(c) ==
    LET row == rows[creq[c].name] IN
    /\ AtStep(c, "find")
    /\ \/ row = NONE /\ Goto(c, "begin")
       \/ /\ row # NONE
          /\ creq' = [creq EXCEPT ![c] =
                [@ EXCEPT !.id = row.id,
                          !.pc = IF row.status = "ready" THEN "owner" ELSE "rm"]]
    /\ UNCHANGED <<rows, claim, docker, proven>>

(* INSERT OR REPLACE: the late request takes the name over. *)
BeginCreationReplacing(c) ==
    LET n == creq[c].name IN
    /\ AtStep(c, "begin")
    /\ \E i \in {j \in Ids : claim[j] = NONE} :
          /\ rows' = [rows EXCEPT ![n] = [id |-> i, status |-> "creating",
                          name |-> NONE, port |-> NONE, owner |-> NONE]]
          /\ claim' = [claim EXCEPT ![i] = n]
          /\ creq' = [creq EXCEPT ![c] = [@ EXCEPT !.id = i, !.pc = "rm"]]
    /\ UNCHANGED <<docker, proven>>

(* The loser of the race goes on with the UUID it drew itself. *)
BeginCreationUnread(c) ==
    LET n == creq[c].name IN
    /\ AtStep(c, "begin")
    /\ \E i \in {j \in Ids : claim[j] = NONE} :
          /\ creq' = [creq EXCEPT ![c] = [@ EXCEPT !.id = i, !.pc = "rm"]]
          /\ IF rows[n] = NONE
             THEN /\ rows' = [rows EXCEPT ![n] = [id |-> i, status |-> "creating",
                                  name |-> NONE, port |-> NONE, owner |-> NONE]]
                  /\ claim' = [claim EXCEPT ![i] = n]
             ELSE UNCHANGED <<rows, claim>>
    /\ UNCHANGED <<docker, proven>>

(* INSERT with a fresh UUID.  The primary key decides a race: the loser's  *)
(* UUID is forgotten and the row that won is read back.                    *)
BeginCreation(c) ==
    LET n == creq[c].name IN
    /\ AtStep(c, "begin")
    /\ \/ /\ rows[n] # NONE
          /\ Goto(c, "readback")
          /\ UNCHANGED <<rows, claim>>
       \/ /\ rows[n] = NONE
          /\ \E i \in {j \in Ids : claim[j] = NONE} :
                /\ rows' = [rows EXCEPT ![n] = [id |-> i, status |-> "creating",
                                name |-> NONE, port |-> NONE, owner |-> NONE]]
                /\ claim' = [claim EXCEPT ![i] = n]
                /\ creq' = [creq EXCEPT ![c] = [@ EXCEPT !.id = i, !.pc = "rm"]]
    /\ UNCHANGED <<docker, proven>>

(* The row that won may be gone again (RowNotFound), may already name a    *)
(* container (returned as it is, whatever its status), or is launched too. *)
ReadBack(c) ==
    LET row == rows[creq[c].name] IN
    /\ AtStep(c, "readback")
    /\ \/ row = NONE /\ Respond(c)
       \/ /\ row # NONE
          /\ creq' = [creq EXCEPT ![c] =
                [@ EXCEPT !.id = row.id,
                          !.pc = IF row.name # NONE THEN "owner" ELSE "rm"]]
    /\ UNCHANGED <<rows, claim, docker, proven>>

(* Failed attempts are not counted. *)
AttemptFailsUncounted(c) ==
    creq' = [creq EXCEPT ![c] = [@ EXCEPT !.port = NONE, !.pc = "rm"]]

(* Off by one: an attempt too many. *)
AttemptFailsOnceMore(c) ==
    creq' = [creq EXCEPT ![c] =
        [@ EXCEPT !.tries = creq[c].tries + 1, !.port = NONE,
                  !.pc = IF creq[c].tries + 1 <= MaxAttempts THEN "rm" ELSE "mark_failed"]]

(* launch_and_record: another attempt, or the row is marked failed. *)
AttemptFails(c) ==
    creq' = [creq EXCEPT ![c] =
        [@ EXCEPT !.tries = creq[c].tries + 1, !.port = NONE,
                  !.pc = IF creq[c].tries + 1 < MaxAttempts THEN "rm" ELSE "mark_failed"]]

(* launch: `docker rm -f` of the name, whose result is ignored *)
RemoveStale(c) ==
    /\ AtStep(c, "rm")
    /\ Goto(c, "create")
    /\ Remove(creq[c].id) \/ UNCHANGED docker
    /\ UNCHANGED <<rows, claim, proven>>

(* Picking ports and `docker create`.  The ports are free when they are    *)
(* picked and are not held: `docker start` binds them.  A name conflict,   *)
(* like any failure here, ends the attempt and removes nothing.            *)
CreateContainer(c) ==
    /\ AtStep(c, "create")
    /\ \/ \E p \in Ports \ Bound :
             /\ Create(creq[c].id, p)
             /\ creq' = [creq EXCEPT ![c] = [@ EXCEPT !.port = p, !.pc = "deliver"]]
       \/ AttemptFails(c) /\ UNCHANGED docker
    /\ UNCHANGED <<rows, claim, proven>>

(* deliver_boot_script *)
Deliver(c) ==
    /\ AtStep(c, "deliver")
    /\ \/ CopyHook(creq[c].id) /\ Goto(c, "start")
       \/ Goto(c, "cleanup") /\ UNCHANGED docker
    /\ UNCHANGED <<rows, claim, proven>>

StartContainer(c) ==
    /\ AtStep(c, "start")
    /\ \/ CanStart(creq[c].id) /\ Start(creq[c].id) /\ Goto(c, "await")
       \/ Goto(c, "cleanup") /\ UNCHANGED docker
    /\ UNCHANGED <<rows, claim, proven>>

(* A timed-out readiness wait taken for a ready container. *)
AwaitIgnoringTimeout(c) ==
    /\ AtStep(c, "await")
    /\ \/ /\ Answers(creq[c].id, creq[c].port)
          /\ proven' = proven \union {<<creq[c].id, creq[c].port>>}
       \/ UNCHANGED proven
    /\ Goto(c, "mark_ready")
    /\ UNCHANGED <<rows, claim, docker>>

(* The container is removed whether or not the waits succeeded. *)
AwaitAlwaysCleaning(c) ==
    /\ AtStep(c, "await")
    /\ Answers(creq[c].id, creq[c].port)
    /\ proven' = proven \union {<<creq[c].id, creq[c].port>>}
    /\ Goto(c, "mark_ready")
    /\ Remove(creq[c].id)
    /\ UNCHANGED <<rows, claim>>

(* Both readiness waits poll the ports this launch picked until they answer *)
(* or the wait times out.                                                  *)
AwaitReady(c) ==
    /\ AtStep(c, "await")
    /\ \/ /\ Answers(creq[c].id, creq[c].port)
          /\ proven' = proven \union {<<creq[c].id, creq[c].port>>}
          /\ Goto(c, "mark_ready")
       \/ Goto(c, "cleanup") /\ UNCHANGED proven
    /\ UNCHANGED <<rows, claim, docker>>

(* A failure after `docker create` removes the container, best effort. *)
CleanUp(c) ==
    /\ AtStep(c, "cleanup")
    /\ AttemptFails(c)
    /\ Remove(creq[c].id) \/ UNCHANGED docker
    /\ UNCHANGED <<rows, claim, proven>>

(* The status is written on its own, ahead of the container it promises. *)
MarkReadyStatusOnly(c) ==
    LET n == creq[c].name IN
    /\ AtStep(c, "mark_ready")
    /\ rows' = IF rows[n] = NONE THEN rows ELSE [rows EXCEPT ![n].status = "ready"]
    /\ Goto(c, "ready_find")
    /\ UNCHANGED <<claim, docker, proven>>

(* mark_ready's UPDATE goes by name; its read-back is a statement of its own. *)
MarkReady(c) ==
    LET n == creq[c].name IN
    /\ AtStep(c, "mark_ready")
    /\ rows' = [rows EXCEPT ![n] = AsReady(rows[n], creq[c].id, creq[c].port)]
    /\ Goto(c, "ready_find")
    /\ UNCHANGED <<claim, docker, proven>>

ReadyFind(c) ==
    LET row == rows[creq[c].name] IN
    /\ AtStep(c, "ready_find")
    /\ \/ row = NONE /\ Respond(c)
       \/ row # NONE /\ creq' = [creq EXCEPT ![c] = [@ EXCEPT !.id = row.id, !.pc = "owner"]]
    /\ UNCHANGED <<rows, claim, docker, proven>>

(* The outcome of the last attempt is returned but not recorded. *)
MarkFailedUnrecorded(c) ==
    /\ AtStep(c, "mark_failed")
    /\ Respond(c)
    /\ UNCHANGED <<rows, claim, docker, proven>>

(* mark_failed, by name, after the last attempt; the error is the response. *)
MarkFailed(c) ==
    LET n == creq[c].name IN
    /\ AtStep(c, "mark_failed")
    /\ rows' = [rows EXCEPT ![n] = AsFailed(rows[n])]
    /\ Respond(c)
    /\ UNCHANGED <<claim, docker, proven>>

(* set_owner, when the request carries a session, and the response *)
SetOwner(c) ==
    /\ AtStep(c, "owner")
    /\ \/ rows' = [n \in Names |->
                      IF n \in RowsOf(creq[c].id) THEN AsOwned(rows[n], c) ELSE rows[n]]
       \/ UNCHANGED rows
    /\ Respond(c)
    /\ UNCHANGED <<claim, docker, proven>>

CreateStep(c) ==
    \/ Find(c) \/ BeginCreation(c) \/ ReadBack(c)
    \/ RemoveStale(c) \/ CreateContainer(c) \/ Deliver(c) \/ StartContainer(c)
    \/ AwaitReady(c) \/ CleanUp(c)
    \/ MarkReady(c) \/ ReadyFind(c) \/ MarkFailed(c) \/ SetOwner(c)

------------------------------------------------------------------------------
(* Deleting *)

DeleteAt(d, pc) ==
    /\ dreq[d].pc = pc
    /\ UNCHANGED <<claim, proven, creq, greq, orphans>>

(* Bound: a delete arrives only while a name it frees can be claimed again. *)
DeleteReceive(d, i) ==
    /\ DeleteAt(d, "idle")
    /\ claim[i] # NONE /\ Spare
    /\ dreq' = [dreq EXCEPT ![d] = [NoDelete EXCEPT !.pc = "find", !.id = i]]
    /\ UNCHANGED <<rows, docker>>

(* 404, or the container this row names, or straight to the row *)
DeleteFind(d) ==
    /\ DeleteAt(d, "find")
    /\ \/ RowsOf(dreq[d].id) = {} /\ dreq' = [dreq EXCEPT ![d] = NoDelete]
       \/ \E n \in RowsOf(dreq[d].id) :
             dreq' = [dreq EXCEPT ![d] =
                [@ EXCEPT !.name = rows[n].name,
                          !.pc = IF rows[n].name = NONE THEN "row" ELSE "rm"]]
    /\ UNCHANGED <<rows, docker>>

(* A missing container counts as removed; an error keeps the row (502). *)
DeleteContainer(d) ==
    /\ DeleteAt(d, "rm")
    /\ \/ Remove(dreq[d].name) /\ dreq' = [dreq EXCEPT ![d].pc = "row"]
       \/ dreq' = [dreq EXCEPT ![d] = NoDelete] /\ UNCHANGED docker
    /\ UNCHANGED rows

DeleteRow(d) ==
    /\ DeleteAt(d, "row")
    /\ rows' = [n \in Names |-> IF n \in RowsOf(dreq[d].id) THEN NONE ELSE rows[n]]
    /\ dreq' = [dreq EXCEPT ![d] = NoDelete]
    /\ UNCHANGED docker

DeleteStep(d) == DeleteFind(d) \/ DeleteContainer(d) \/ DeleteRow(d)

------------------------------------------------------------------------------
(* Diagnosing: one record read at the start serves to the end. *)

DiagnoseAt(g, pc) ==
    /\ greq[g].pc = pc
    /\ UNCHANGED <<claim, proven, creq, dreq, orphans>>

GotoD(g, pc) == greq' = [greq EXCEPT ![g].pc = pc]
Report(g) == greq' = [greq EXCEPT ![g] = NoDiagnose]

DiagnoseReceive(g, i) ==
    /\ DiagnoseAt(g, "idle")
    /\ claim[i] # NONE
    /\ greq' = [greq EXCEPT ![g] = [NoDiagnose EXCEPT !.pc = "find", !.id = i]]
    /\ UNCHANGED <<rows, docker>>

(* NotFound, NoContainer, or a record to diagnose by *)
DiagnoseFind(g) ==
    /\ DiagnoseAt(g, "find")
    /\ \/ /\ \A n \in RowsOf(greq[g].id) : rows[n].name = NONE
          /\ Report(g)
       \/ \E n \in RowsOf(greq[g].id) :
             /\ rows[n].name # NONE
             /\ greq' = [greq EXCEPT ![g] =
                   [@ EXCEPT !.name = rows[n].name, !.port = rows[n].port, !.pc = "inspect"]]
    /\ UNCHANGED <<rows, docker>>

(* docker inspect: an error is the answer, a missing container is not up *)
Inspect(g) ==
    /\ DiagnoseAt(g, "inspect")
    /\ \/ Report(g)
       \/ GotoD(g, IF docker[greq[g].name].st \in Up THEN "probe" ELSE "stop")
    /\ UNCHANGED <<rows, docker>>

(* One bounded check of both services; a healthy workspace is left alone. *)
Probe(g) ==
    /\ DiagnoseAt(g, "probe")
    /\ IF Answers(greq[g].id, greq[g].port) THEN Report(g) ELSE GotoD(g, "stop")
    /\ UNCHANGED <<rows, docker>>

(* heal: stop (missing is fine), then start; an error is RestartFailed. *)
HealStop(g) ==
    /\ DiagnoseAt(g, "stop")
    /\ \/ Stop(greq[g].name) /\ GotoD(g, "start")
       \/ Report(g) /\ UNCHANGED docker
    /\ UNCHANGED rows

HealStart(g) ==
    /\ DiagnoseAt(g, "start")
    /\ \/ CanStart(greq[g].name) /\ Start(greq[g].name) /\ GotoD(g, "await")
       \/ Report(g) /\ UNCHANGED docker
    /\ UNCHANGED rows

(* The readiness waits of a launch, on the recorded ports *)
HealAwait(g) ==
    /\ DiagnoseAt(g, "await")
    /\ \E well \in BOOLEAN :
          /\ well => Answers(greq[g].id, greq[g].port)
          /\ greq' = [greq EXCEPT ![g] = [@ EXCEPT !.well = well, !.pc = "reinspect"]]
    /\ UNCHANGED <<rows, docker>>

HealInspect(g) ==
    /\ DiagnoseAt(g, "reinspect")
    /\ \/ Report(g)
       \/ GotoD(g, IF greq[g].well /\ docker[greq[g].name].st \in Up THEN "ready" ELSE "failed")
    /\ UNCHANGED <<rows, docker>>

(* The ports are read from Docker instead of the record. *)
HealReadyRereadingPorts(g) ==
    LET i == greq[g].name IN
    /\ DiagnoseAt(g, "ready")
    /\ rows' = [n \in Names |-> IF n \in RowsOf(greq[g].id)
                               THEN AsReady(rows[n], i, docker[i].port) ELSE rows[n]]
    /\ Report(g)
    /\ UNCHANGED docker

(* An upsert instead of an UPDATE: a deleted row comes back. *)
HealReadyUpserting(g) ==
    /\ DiagnoseAt(g, "ready")
    /\ rows' = [rows EXCEPT ![claim[greq[g].id]] =
                   [id |-> greq[g].id, status |-> "ready", name |-> greq[g].name,
                    port |-> greq[g].port, owner |-> NONE]]
    /\ Report(g)
    /\ UNCHANGED docker

(* mark_ready_by_workspace_id, with the record read when the diagnosis began *)
HealReady(g) ==
    /\ DiagnoseAt(g, "ready")
    /\ rows' = [n \in Names |-> IF n \in RowsOf(greq[g].id)
                               THEN AsReady(rows[n], greq[g].name, greq[g].port) ELSE rows[n]]
    /\ Report(g)
    /\ UNCHANGED docker

HealFailed(g) ==
    /\ DiagnoseAt(g, "failed")
    /\ rows' = [n \in Names |-> IF n \in RowsOf(greq[g].id)
                               THEN AsFailed(rows[n]) ELSE rows[n]]
    /\ Report(g)
    /\ UNCHANGED docker

DiagnoseStep(g) ==
    \/ DiagnoseFind(g) \/ Inspect(g) \/ Probe(g)
    \/ HealStop(g) \/ HealStart(g) \/ HealAwait(g) \/ HealInspect(g)
    \/ HealReady(g) \/ HealFailed(g)

------------------------------------------------------------------------------
(* The environment *)

(* A container's process dies (OOM, a killed daemon, a crash inside). *)
ContainerExits(i) ==
    /\ docker[i].st \in Up
    /\ docker' = [docker EXCEPT ![i].st = "exited"]
    /\ UNCHANGED <<rows, claim, proven, creq, dreq, greq, orphans>>

WrapperHangs(i) ==
    /\ docker[i].st = "running"
    /\ docker' = [docker EXCEPT ![i].st = "mute"]
    /\ UNCHANGED <<rows, claim, proven, creq, dreq, greq, orphans>>

(* Command::output is not kill_on_drop: the docker command that a request  *)
(* is waiting for when it is dropped may still run, as an orphan.          *)
Abandon(commands) ==
    \/ UNCHANGED orphans
    \/ /\ Cardinality(orphans) < MaxOrphans
       /\ \E o \in commands : orphans' = orphans \union {o}

OrphanEnds(o) ==
    /\ orphans' = orphans \ {o}
    /\ Does(o) \/ UNCHANGED docker
    /\ UNCHANGED <<rows, claim, proven, creq, dreq, greq>>

(* A client hangs up and its handler is dropped where it waits, the gateway *)
(* restarts, or a database call fails: the request just ends.              *)
DropCreate(c) ==
    LET pc == creq[c].pc
        op == IF pc = "cleanup" THEN "rm" ELSE pc
        picked == IF pc = "create" THEN Ports \ Bound ELSE {NONE} IN
    /\ c \in Droppable /\ pc # "idle"
    /\ Respond(c)
    /\ Abandon(IF pc \in LaunchPc \ {"await"}
               THEN {[op |-> op, id |-> creq[c].id, port |-> p] : p \in picked} ELSE {})
    /\ UNCHANGED <<rows, claim, docker, proven, dreq, greq>>

DropDelete(d) ==
    /\ d \in Droppable /\ dreq[d].pc # "idle"
    /\ dreq' = [dreq EXCEPT ![d] = NoDelete]
    /\ Abandon(IF dreq[d].pc = "rm"
               THEN {[op |-> "rm", id |-> dreq[d].name, port |-> NONE]} ELSE {})
    /\ UNCHANGED <<rows, claim, docker, proven, creq, greq>>

DropDiagnose(g) ==
    /\ g \in Droppable /\ greq[g].pc # "idle"
    /\ Report(g)
    /\ Abandon(IF greq[g].pc \in {"stop", "start"}
               THEN {[op |-> greq[g].pc, id |-> greq[g].name, port |-> NONE]} ELSE {})
    /\ UNCHANGED <<rows, claim, docker, proven, creq, dreq>>

Next ==
    \/ \E c \in Creators :
          \/ \E n \in Names : Collision(c, n) \/ Receive(c, n)
          \/ CreateStep(c)
          \/ DropCreate(c)
    \/ \E d \in Deleters : (\E i \in Ids : DeleteReceive(d, i)) \/ DeleteStep(d) \/ DropDelete(d)
    \/ \E g \in Diagnosers :
          (\E i \in Ids : DiagnoseReceive(g, i)) \/ DiagnoseStep(g) \/ DropDiagnose(g)
    \/ \E i \in Ids : ContainerExits(i) \/ WrapperHangs(i)
    \/ \E o \in orphans : OrphanEnds(o)

Spec == Init /\ [][Next]_vars

(* A handler goes on whenever it does not wait for docker: its other waits *)
(* end (the database is a local file, every HTTP call and both readiness   *)
(* waits have a timeout).  Nothing obliges a client to send a request.     *)
HandlersRun ==
    /\ \A c \in Creators :
          WF_vars(\/ Find(c) \/ BeginCreation(c) \/ ReadBack(c) \/ AwaitReady(c)
                  \/ MarkReady(c) \/ ReadyFind(c) \/ MarkFailed(c) \/ SetOwner(c))
    /\ \A d \in Deleters : WF_vars(DeleteFind(d) \/ DeleteRow(d))
    /\ \A g \in Diagnosers :
          WF_vars(DiagnoseFind(g) \/ Probe(g) \/ HealAwait(g) \/ HealReady(g) \/ HealFailed(g))

(* An assumption about the environment, not about the code: the docker     *)
(* commands of a request return, with success or an error.  The code sets  *)
(* them no timeout (docker_cli.rs:38-54), so those of Hanging need not.    *)
DockerReturns ==
    /\ \A c \in Creators \ Hanging :
          WF_vars(RemoveStale(c) \/ CreateContainer(c) \/ Deliver(c) \/ StartContainer(c)
                      \/ CleanUp(c))
    /\ \A d \in Deleters \ Hanging : WF_vars(DeleteContainer(d))
    /\ \A g \in Diagnosers \ Hanging :
          WF_vars(Inspect(g) \/ HealStop(g) \/ HealStart(g) \/ HealInspect(g))

FairSpec == Spec /\ HandlersRun /\ DockerReturns

------------------------------------------------------------------------------
(* Properties *)

TypeOK ==
    /\ rows \in [Names -> Row \union {NONE}]
    /\ claim \in [Ids -> Names \union {NONE}]
    /\ docker \in [Ids -> Container]
    /\ proven \subseteq Ids \X Ports
    /\ creq \in [Creators -> CreateReq]
    /\ dreq \in [Deleters -> DeleteReq]
    /\ greq \in [Diagnosers -> DiagnoseReq]
    /\ orphans \subseteq Command

(* A ready row always has a container and its ports to forward to, through  *)
(* every race of launches, diagnoses and deletes: resolve_ready_workspace   *)
(* and the sweep after an outage rely on it (resolve.rs:62-69).             *)
ReadyHasContainer ==
    \A n \in Names :
        rows[n] # NONE /\ rows[n].status = "ready" =>
            rows[n].name # NONE /\ rows[n].port # NONE

(* Whatever container and ports a row names were seen answering, on those   *)
(* ports, by a launch made for this very name: no retry, no late launch and *)
(* no stale diagnosis makes a name forward to another name's workspace or   *)
(* to one that never came up (container/mod.rs:83-86).                      *)
RowsNameProvenLaunch ==
    \A n \in Names :
        rows[n] # NONE /\ rows[n].name # NONE =>
            /\ <<rows[n].name, rows[n].port>> \in proven
            /\ claim[rows[n].name] = n

(* Docker holds no container for an id that was never written to the table, *)
(* not even when two first requests for a name race (store.rs:6-14).        *)
ContainersAreClaimed ==
    \A i \in Ids : Exists(i) => claim[i] # NONE

(* The table, seen without the requests, is a registry of names: ids are    *)
(* never reused or exchanged while a name is held.                          *)
Registry == INSTANCE WorkspaceRegistry WITH
    entry <- [n \in Names |-> IF rows[n] = NONE THEN NONE
                              ELSE [id |-> rows[n].id, status |-> rows[n].status]]

ImplementsRegistry == Registry!Spec

(* With one creator at a time, and no orphan, leftovers of dropped and      *)
(* failed attempts never show through: a ready row names its own container, *)
(* which exists with the recorded ports and its boot script, unless a       *)
(* delete has begun (docker_launcher.rs:149-157, 284-290).                  *)
ReadyIsBacked ==
    \A n \in Names :
        rows[n] # NONE /\ rows[n].status = "ready" =>
            \/ /\ rows[n].name = rows[n].id
               /\ docker[rows[n].id].st \in Up \union {"exited"}
               /\ docker[rows[n].id].port = rows[n].port
               /\ docker[rows[n].id].hook
            \/ \E d \in Deleters : dreq[d].id = rows[n].id /\ dreq[d].pc \in {"rm", "row"}

(* Request c is to settle the name n. *)
Asked(c, n) ==
    /\ creq[c].name = n
    /\ creq[c].pc \in {"find", "begin", "readback", "mark_ready", "mark_failed"} \union LaunchPc

(* A name that is creating, be it that its creator was dropped or waits for *)
(* a docker command that never returns, is settled by any request for it of *)
(* which neither is true: launched, marked failed, or by then deleted, no   *)
(* matter who races for it (mod.rs:134-139).                                *)
CreatingSettles ==
    \A n \in Names, c \in Creators \ (Hanging \union Droppable) :
        (Asked(c, n) /\ rows[n] # NONE /\ rows[n].status = "creating") ~>
        (rows[n] = NONE \/ rows[n].status # "creating")

(* A create request whose own docker commands return is answered, however   *)
(* its launches fail, and though another's for the same container hang      *)
(* (mod.rs:105-141): no request waits for another.                          *)
CreatesAreAnswered ==
    \A c \in Creators \ Hanging : creq[c].pc # "idle" ~> creq[c].pc = "idle"

(* Claimed by migrations/0001_workspace_creations.sql:15-16: a retry while  *)
(* the status is creating does not start a second container.                *)
RetryStartsNoSecondContainer ==
    \A c, e \in Creators :
        c # e /\ creq[c].pc \in LaunchPc /\ creq[e].pc \in LaunchPc =>
            creq[c].id # creq[e].id

(* Claimed by route/delete.rs:16: dropping a workspace's row has stopped    *)
(* its container, if one exists.                                            *)
DeleteStopsContainer ==
    [][\A n \in Names : rows[n] # NONE /\ rows'[n] = NONE =>
           docker[rows[n].id].st \notin Up]_rows
==============================================================================
