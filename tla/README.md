# Verification of the aglack gateway and workspace daemons

TLA+ models of the parts of this repository whose correctness depends on
order: requests that interleave between awaits, containers and tokens that
outlive the request that made them, sessions, bearers and ports that are
checked at one moment and used at another, the daemon that owns one browser per
agent, and the order in which the gateway comes up. TLC checks them on small
instances; TLAPS proves what matters most for every value of the constants. The
code is the reference throughout; line numbers are of this commit.

Abbreviations: `ws/` is `src/rust_gateway/src/workspaces/`, `int/` is
`src/rust_gateway/src/integrations/`, `auth/` is `src/rust_gateway/src/auth/`,
`bm` is `src/backend/workspace-image/browser_manager.py`.

## The system

The gateway (Rust, axum, SQLite) gives every workspace a container of its own
and forwards to it. A workspace container runs a wrapper (Python), a desktop
and `bm`. OpenConnector, a separate service, holds the connections to third
parties and the runtime tokens that may use them.

| Component | State it keeps | Operations | Interacts with | What is hard | What makes it correct |
|---|---|---|---|---|---|
| Workspace creation `ws/mod.rs`, `ws/store.rs`, `ws/route/create.rs` | table `workspace_creations` | `POST /workspaces`: find, claim, launch with retries, mark, set owner, issue a token | launcher, table, integrations | two requests of one name, retries, a client that hangs up | a name has one id while it is held; a ready row names a container that answered; a request whose docker commands return is answered, and settles a name it finds creating |
| Container launcher `ws/container/` | Docker's containers, host ports | launch (rm, create, cp, start, wait), remove, stop, start, inspect | Docker | everything is addressed by name, ports are picked before they are bound | leftovers of failed attempts never show through |
| Deletion `ws/route/delete.rs` | the same table | find, `docker rm -f`, delete the row | table, Docker | overlaps a launch in flight | no container outlives its row (it can: see findings) |
| Diagnosis and healing `ws/diagnosis.rs` | a record read once | inspect, probe, stop, start, wait, inspect, record | table, Docker | up to a minute between the read and the write | writes only what was proven for that name, revives no row |
| Workspace list `ws/route/list.rs` | none | read a page of one's own rows, check those that are ready | table, containers | checks end in any order | a verdict is the row's own |
| Docker daemon watcher `ws/daemon_watch.rs` | whether the daemon was up at the last poll | poll; diagnose all ready rows after an outage | diagnosis | outages during a sweep, rows that cannot be diagnosed | after an outage that was seen every ready workspace is healed; one sweep per outage |
| Routing, resolution and proxies `app.rs`, `auth/middleware.rs`, `ws/resolve.rs`, `ws/proxy/`, `proxy/forward.rs` | none; the relay two half-connections | check the owner, route, look a ready row up, forward; relay a WebSocket | table, containers | three parsers of one path, a port used after it was read, two pumps that wait for each other | a request reaches what it names, as its owner, with the agent it names; the relay is transparent and ends |
| Integrations `int/route.rs`, `int/store.rs`, `int/token_delivery.rs` | tables `integration_connections`, `workspace_runtime_tokens`; the token file in the container | connect, oauth/start, list (which reconciles), disconnect; all end in a token rotation | OpenConnector, tables, Docker | five systems and no transaction; requests of one workspace overlap | the stored token is live, allows what is shown as connected, and is the one in the container |
| OpenConnector client, catalog cache `int/openconnector.rs`, `int/catalog.rs` | a cache with an age, behind a lock | call, judge the answer; fetch, serve | OpenConnector | many queries of one stale cache; SSE that comes in any shape | one fetch per TTL, nothing lost by a failed one; the answer is the whole first event |
| MCP proxy `int/mcp_proxy.rs` | failed bearers by workspace, with a window | check, look up, compare, record; sanitize and forward | tables, OpenConnector | the check is before an await, the record after; the token may rotate between | only the workspace's own bearer gets in, under its own connection; a lockout is earned and bounded |
| Authentication `auth/` | tables of users and sessions; pending OAuth states in memory | start, callback, me, log out, check | Google, tables | states replayed, sessions pruned and expired, restarts | a state makes one session; a session works until it ends and no longer |
| Browser daemon `bm` | a registry of processes, a lock | start, stop, status; idle sweep | Chromium processes, the agent seeder | threads, an unlocked reader that deletes, processes that die | one Chromium per profile; idle ones are reclaimed |
| Wrapper and agent seeder, seeder kit | files in the container | requests, seeding at boot | upstream WebUI | order of files | re-running changes nothing |
| Frontend `src/frontend` | React state; the chat stream | views | gateway | switching threads while a stream is on | events go to the thread they belong to |
| Configuration, start-up `config.rs`, `bin/rust_gateway.rs`, `app.rs`; crypto | none | read, validate, wire | all | layers of environments, defaults | nothing that was set is silently replaced by a default |

The components with their status are in `PROJECT.json`, and so is the list of
hazards, each at the line where it bites and with the properties that would
catch it.

## Modules

| Module | Models | Lines up with |
|---|---|---|
| `WorkspaceRegistry` | the abstract specification: what the table promises | claim, settle, release |
| `WorkspaceLifecycle` | creation, launcher, deletion, diagnosis over one table and Docker | one action per awaited call |
| `WorkspaceLifecycleProofs` | its theorems, and that it implements `WorkspaceRegistry` | |
| `BrowserManager` | the browser daemon: threads, lock, sweep, processes | one action per point at which another thread or a process can get in between |
| `BrowserManagerProofs` | its theorems, with status requests and without | |
| `IntegrationTokens` | the integrations of one workspace and the token rotation | one action per awaited call |
| `IntegrationTokensProofs` | its theorems | |
| `GatewayRoutes` | the routing table, the exemptions, the agent's cookie: operators | `app.rs`, `auth/middleware.rs`, `ws/proxy/` |
| `GatewaySessions` | login, sessions, the session check | one action per awaited call |
| `WorkspaceProxies` | the owner's check, resolution, forwarding, beside creates and deletes | one action per awaited call |
| `WorkspaceList` | the list and its concurrent checks, over `WorkspaceProxies` | one action per awaited call and per check |
| `McpProxy` | the bearer check, its lockout, the sanitizer, the forwarding | one action per critical section or awaited call |
| `CatalogCache` | the cache and its read-write lock | one action per lock and per fetch |
| `OpenConnectorClient` | one call: status, body, SSE; the callback of a popup | one action per judgement and per line |
| `DaemonWatch` | the watcher of Docker | a poll, a diagnosis |
| `DesktopRelay` | the two pumps of the WebSocket | one action per frame read or sent |
| `GatewayStartup` | the process from its environment to listening | one action per stage of `main` |
| `GatewayProofs`, `WorkspaceProxiesProofs`, `McpProxyProofs` | theorems of the sessions, the proxies and the list, the MCP proxy, and of the union of them | |
| `BackgroundProofs`, `DesktopRelayProofs` | theorems of the catalog, the watcher, the client, the start-up and the relay, and of the union of them with the browsers | |
| `MCWorkspaceLifecycle`, `MCLifecycleHeal`, `MCBrowserManager`, `MCIntegrationTokens`, `MCGateway`, `MCBackground` | the instances TLC checks | |

`WorkspaceLifecycle` composes four components because they share the table
and Docker's names: their steps are the disjuncts of one `Next`.
`IntegrationTokens` is separate: it takes the workspace as ready with one
container, and sees of the creation only its last step, the token it issues.

`GatewaySessions`, `WorkspaceProxies` and `McpProxy` are what a request meets in
turn, and extend `GatewayRoutes`, which says which of them it meets. They are
not one machine: a request hands on nothing but the user that was found, and
what they share are tables, which each needs only in a form of its own
(`WorkspaceProxies` reduces a creation to what its row shows to others,
`McpProxy` a rotation to the row it writes). The reductions are stated where
they are made; that the full modules stay within them is argued, not checked.

### WorkspaceLifecycle

`rows` is the table, by idempotency key, which is the workspace's name;
`docker` is the container of each name `hermes-ws-<id>`; `creq`, `dreq`,
`greq` are the requests in flight with their locals. `claim` and `proven` are
history: the name an id was drawn for, and the pairs of an id and ports that a
launch saw answering. `orphans` are docker command lines whose request is gone.

A create is `Receive` or `Collision` (the route's check for a ready row),
`Find`, `BeginCreation` and `ReadBack` (the INSERT, and the row that won when
it loses), then a launch: `RemoveStale`, `CreateContainer`, `Deliver` (docker
cp of the boot script), `StartContainer`, `AwaitReady`, `CleanUp`; then
`MarkReady` and `ReadyFind`, or `AttemptFails` and, after the last attempt,
`MarkFailed`; then `SetOwner`. A delete is `DeleteFind`, `DeleteContainer`,
`DeleteRow`. A diagnosis is `DiagnoseFind`, `Inspect`, `Probe`, and if the
workspace is not well `HealStop`, `HealStart`, `HealAwait`, `HealInspect`,
`HealReady` or `HealFailed`. `DropCreate`, `DropDelete` and `DropDiagnose` end
a request between two awaits, which is what axum does when the client hangs
up, what a restart of the gateway does, and also how a database error ends it.
The docker command line it waited for is not killed (`Command::output` is not
`kill_on_drop`): `Abandon` may keep it, and `OrphanEnds` lets it act at any later
time, by name, or fail. A docker command that hangs is a step that is not taken:
nothing in the code bounds it.

Abstractions: a container's three host ports are one value, and two different
values share none; the wrapper and the desktop answer together; drawing the UUID
is part of the INSERT; of two equal late commands one is kept, and `MaxOrphans`
bounds how many there are at a time; a wrapper that hangs is a step of its own
and the probes are otherwise exact; waiting between two attempts takes no state.

### BrowserManager

`registry` is `_registry`, `lock` is `_lock`, `thr` the threads of the HTTP
server and of the sweep. `Get`, `Check` and `Drop` are `_live_entry`: read the
entry, ask for the process, delete the entry. `status` runs them without the
lock. `SigTerm` and `AwaitExit` are `_terminate`, with its five seconds and
its SIGKILL; `Wake`, `Scan` and `Pick` are the sweep. The lock is held by
start and stop for their whole body, and by the sweep from `Scan` to the end.

Abstractions: process ids are not reused, a port belongs to its process, a
zombie is dead (every check reaps it first), `last_activity` is whether the
timeout has passed, launching and registering are one step under the lock, the
sweep may take the agents in any order, the idle timeout is on, the daemon
itself does not restart.

### IntegrationTokens

`conn` and `stored` are the two tables, `file` and `usable` the token file and
its owner, `remote`, `st` and `scope` OpenConnector's connections and tokens,
`req` the requests. `delivered` and `lost` are history: the tokens whose
delivery succeeded, and those that a failed call or a request cut short left
behind. `orphans` are the writes of docker commands that timed out or lost
their request and are not killed; `OrphanEnds` lets one write late, and
`overtaken`, history too, is whether such a write was the file's last.

A rotation is `Previous`, `Issue`, `Store`, `Copy`, `Chown`, `Revoke`
(`rotate_workspace_token` around `issue_and_deliver_runtime_token`).
`finish_connection` is `Allow` (the container and the allow-list), `Pend`, a
rotation, `MarkConnected`, and `MarkError` when any of it fails. A connect is
`Put` before and `Undo` after a failure; the catalog's connect is the same for
a provider that is not curated. A list is `Scan` (the rows), `Peek`
(OpenConnector's connections), and for each pending or missing row `Pick`,
`Find`, and `finish_connection` or `Expire`. A disconnect is `Delete`,
`MarkDisconnected`, `Left`, and a rotation or the four steps of a teardown. A
creation is a rotation from `Issue` to `Chown` for the sentinel connection.

Abstractions: a provider stands for its connection id, and a token for its
bearer, hash and encryption; the age that expires a pending row is a choice; a
call that fails may have taken effect at OpenConnector or in the container, or,
if it is a docker command, take effect later (a late chown or chmod is left out:
it makes the file readable, at worst a new one a moment early);
the audit log is write-only and left out; the workspace stays ready in one
container.

### GatewaySessions

`pending` is the map of OAuth states in memory, `sessions` and `accounts` the
two tables, `issued` what was written of each token, `cookie` what each browser
holds, `work` the requests. `begun` and `ended` are history. A login is
`GoogleStart` (the sweep of old states and the room for one), `GoogleCallback`
(the state is taken out, then judged; browsers reload, so it may come again),
`Exchange`, `Prune` (best effort, and the new token), `Create` (one
transaction; its answer may be lost). `Logout` clears the cookie whether or not
the row went. `Receive` and `RequireSession` are the check in front of the
routes, `Me` asks in its own way. `Tick` lets states and sessions expire,
`Restart` forgets the states and the requests, not the tables.

### GatewayRoutes, WorkspaceProxies, WorkspaceList

A path is the sequence of its segments. `IsExempt`, `WorkspaceId` and `Handler`
are three readers of it, as in the code; `Profile` is the agent's cookie.
`rows` is the table with status, owner and port, `serving` whose container
listens on which port, `claims` the creates in flight, `trip` the requests. A
request is `Enter`, `RequireOwner`, `Dispatch`, `Resolve`, `ForwardTo`,
`Finish`; meanwhile `BeginCreate`, `Launch`, `SetOwner`, `Stop`, `MarkFailed`
and `DropRow` do to the rows what `WorkspaceLifecycle` has in full. `racers` is
history: who asked for a name before it was ready; `stale` marks a request
whose workspace stopped behind its row's back or after its port was read.

The list is `AskList` (the limits), `ReadPage`, `CheckHealth` for each ready
row in any order, `BuildListItems`.

`OwnerWasChecked` leaves out the paths the middleware exempts from sessions, the
nested `/mcp` and `/browser/` (`IsExempt`), which are let in by a bearer instead;
an exempt path is checked against no owner, whatever it names.

Abstractions: the three ports of a workspace are one; headers, bodies and query
strings other than `?agent=` pass through; whether the browser route's bearer is
right is `McpProxy`'s question.

### McpProxy

`token` is the row of each workspace, `holder` to whom a bearer was ever
issued, `lockout` the map in memory, `asks` the requests. A request is `Arrive`
(with any bearer that was ever issued, or none), `Check` (one critical section:
the window, the limit), `Lookup`, `Compare`, `Record` (later, once the audit row
is written), `SanitizeRequest`, `FindToken` (the second read of the row, at
which the bearer may be another), and the forwarding. `Rotate`, `TearDown`,
`TickMcp` and `RestartMcp` go on around it. `failures` is history: when the
last failures of each workspace were recorded.

Abstractions: a bearer, its hash and its encryption are one value; the audit
rows are left out, so that a failure is recorded some time after it was found.

### CatalogCache, OpenConnectorClient

A catalog is the hour it was fetched in; `writer` holds the write lock. A query
is `Ask`, `Read` (the look under the read lock), `Lock`, `Recheck`, `Fetch`, and
may leave at any point, which releases the lock. `exchange` is one call:
`Send`, `JudgeStatus`, then for the MCP route `ReadLine` for each line of
`extract_sse_data`, and `Parse`; `ApiCalls` says for every call of the client
whether it goes by JSON, by the status alone or by an event. The callback of an
OAuth popup is relayed to OpenConnector too, and ends in `AnswerPopup`, or in
`NoAddress` if there is nothing to relay to. `WholeEventOfSuccess` compares that loop with
`Event`, which says of a text, not of a loop, which of its lines are those of
its first event (`EventLines`), and that they are kept in their order.

### DaemonWatch

`last` is `last_reachable`, `sweep` the records a sweep has yet to do, `ready`
and `running` what the table and Docker say. `Poll` is one turn of the loop,
which does not poll during a sweep; `Heal` is one diagnosis with the outcomes
`WorkspaceLifecycle` has for it. `Outage`, `Reopen`, `CreateReady` and
`DeleteReady` come at any time. `noticed` and `missed` are history: whether a
poll saw the outage, and whether one was never acted on.

### DesktopRelay

`inbox` is what a peer sent and the relay has not read, `outbox` what the relay
sent and the peer has not read, bounded by `Buffer`; `pump` is the task that
reads from each peer. A pump is `ReadFrame`, `SendFrame` (which waits for room)
and, however its loop ended, `CloseOther`; the relay has ended when both have.
The peers send, close, answer a Close with a Close, or vanish.

### GatewayStartup

`boot` is how far the process is, in which environment, with which origins;
`clients` what OpenConnector was told. `StartProcess`, `FromEnv` for each of
the four configurations in the order of `main`, `Connect`, `LoadProviders`,
`RegisterClients`, `Launcher`, `Route`, `Bind` and then listening, or the exit
or the panic that each may end in. `LoadDotenvFiles` layers the environment as
dotenvy does. The value of a variable is the class its readers tell apart and
the place it was set in; an origin is a record of scheme, host, port and tail.

Next to some actions stand definitions such as `AllowOnlyItself`: the code as it
was before one of the numbered fixes its comments describe, or with a guard
missing or a step out of order. They are used by no action; replacing the real
one by it must break the property named beside it in `PROJECT.json`.

## What is checked

Bounds are the sets in each `.cfg`; `Spare` (IntegrationTokens) lets a request
arrive only while the tokens it can create are left, and `Pids` and `Ids`
bound the processes and the ids ever drawn. `MaxOrphans` bounds the docker commands
that may act late; in IntegrationTokens another is kept only once the file has been
written anew after one that did. Deadlock is checked in every run.

| Run | Instance | Shows |
|---|---|---|
| `lifecycle_races` | 1 name, 2 ids, 1 port triple, 2 creates, 1 delete, all droppable, 1 docker command that may act late, 1 attempt | `TypeOK`, `ReadyHasContainer`, `ContainersAreClaimed`, and that the table implements `WorkspaceRegistry` |
| `lifecycle_heal` | 2 names, 2 ids, 2 port triples, 1 create with 2 attempts, 1 delete, 1 diagnosis, all droppable, no late command | `RowsNameProvenLaunch`: a stale diagnosis writes only what was proven for the name; `RetriedIsBacked`: leftovers of attempts never show through; the refinement |
| `lifecycle_liveness` | 2 creates of one name, 1 delete, fair; one create may be dropped, and its docker commands and the delete's may hang | `CreatingSettles`, `CreatesAreAnswered` |
| `lifecycle_retry` | 2 creates of one name | finding: a retry while creating starts a second launch |
| `lifecycle_delete` | 1 create, 1 delete | finding: a delete drops the row of a container that is coming up |
| `gateway` | 2 users, 2 workspaces, 1 port, 2 states, 2 session tokens, 2 bearers, 2 requests (in the proxies 1), a clock of 3 (of the lockout 2) | `StatesSpentOnce`, `CookieWorks`, `LateIsRefused`; `OwnerWasChecked`, `ArrivesAsAsked`, `ChangesHandsToRacers`; `VerdictsAreTheirOwn`; `FailuresBounded`, `OnlyItsOwn`, `LockIsEarned` |
| `background` | browsers: 2 agents, 2 threads that start and stop, the sweep, 3 processes; watcher: 3 workspaces, 1 of which may fail, 3 outages; relay: 2 frames each way, room for 1; catalog: 3 queries, TTL 2 of 5 hours; call: bodies of 4 lines; start-up: 590 environments | `OneChromiumPerAgent`, `DeletesItsOwnEntry`, `SweepSparesActive`, `QuietReclaimsAll`; `SeenOutagesAreHealed`, `SweepsArePaidFor`; `RelayIsTransparent`, `RelayEnds`; `FetchesSpaced`; `WholeEventOfSuccess`; `ListensConfigured`, `OriginsListedOnce` |
| `browser_status` | as the browsers of `background`, with status | what survives the unlocked reader: `FirstBrowserNeverLost` |
| `browser_orphan` | 1 agent with status | finding: two Chromiums on one profile |
| `tokens_races` | 2 providers, 3 tokens, 2 requests of any kind, one of which may be a creation that ends late; deliveries fail | `ConnectedWasDelivered`, `NoUnrestrictedToken`, `RotationSparesStored` |
| `tokens_serial` | the same, one request at a time and no creation; every call may fail, every request be cut short, 1 docker command may write late | `WorkingToken`, `NoTokenLeak` |
| `tokens_allow_list` | 2 connects, nothing fails | finding: the stored token lacks a connected provider |

Three runs check several machines in one: in `MCGateway`, `MCBackground` and
`MCLifecycleHeal` the variable `side`, fixed in the initial state, says which of
them a behaviour is of, and the others stand still. The reachable states are
the disjoint union of those of the parts (one copy of each standing part), so
an invariant of the run is an invariant of each part alone. The parts share no
variable that two sides write: the list and the proxies are sides over the same
tables, of which the list leaves the requests alone and has one create at a
time. In `MCLifecycleHeal` the sides are two restrictions of one specification:
`retries` has no diagnosis, deletes that run to their end and no command that acts
late, which `RetriedIsBacked` needs: the `docker rm` of a dropped attempt removes
what the next one made if it acts after it; `heals` has one name and a diagnosis.

Why the bounds are enough to be of use: every race in the code is between two
requests of one name or workspace and what a third did before them, and an id,
a port and a token beyond those the requests hold is there to be the stale
one. Production makes three attempts; two are one that leaves something behind
and one that follows it, and a third begins as the second does, by removing what
the last one left. Where races rather than retries are the question one attempt
keeps the instance small. Three processes are a browser, its successor
and the one too many. With three tokens a rotation has a predecessor and can
be overtaken by another. One late command can hit
what any later step has made; in `lifecycle_heal` and `tokens_races` there is none,
to keep them small (the theorems about their properties hold for any number).
One port is the one that changes hands between two
workspaces; a second would only be one more place for either. Two failures are
a limit that can be reached and passed by requests in flight, and a window of 0
on a clock of 2 ends. Three outages are one before the start, one that is swept
for and one during that sweep. Room for one frame makes every send a send that
may wait. Every variable of the start-up is set wrongly in each way once, with
the other two layers empty, and in combinations of the three layers.

Symmetry is used in runs without liveness only, on the sets whose members the
model never tells apart.

### Fairness

`WorkspaceLifecycle!FairSpec` has two conditions. `HandlersRun` is what the code
guarantees: weak fairness of each request's steps other than those that wait for
docker. The database is a local file, and every HTTP call and both readiness
waits have a timeout (`ws/container/health.rs`), so a handler that is not dropped
goes on. `DockerReturns` is an assumption about the environment: the docker
commands of a request return, with success or an error. The code bounds none of
them (`ws/container/docker_cli.rs:38-54`, `docker_launcher.rs:154-157, 323-326,
353-356`, `inspect.rs:15`); only `int/token_delivery.rs:19-22` has a timeout, and
says why. The requests of `Hanging` are excepted from it. So `CreatesAreAnswered`
says that a create is answered if its own docker commands return, whatever hangs
elsewhere, and `CreatingSettles` that a name left creating, by a creator that was
dropped or hangs, is settled by any request for it that is not and does not: a row
stays creating for as long as nobody asks for the name again. Clients owe
nothing: no request has to arrive. In `lifecycle_liveness` no command acts late,
as none could disable a step of a request.

`BrowserManager!FairSpec` is weak fairness of each thread, of the sweep, of time
passing and of the exit of a process that had a SIGKILL. The lock is not fair to
its waiters, a Chromium need not obey SIGTERM, and `QuietReclaimsAll` has as its
premise that requests cease.
`IntegrationTokens` states no liveness property. Its calls do end: its HTTP client
has a timeout of 15 seconds (`shared/http.rs:17-24`), its docker commands one of 20.

`MCBackground!FairSum` is the fairness of the sides, some conditions of which
serve several, as a behaviour has but one. Of the browsers it has what
`FairSpec` has, or less: of several killed processes, or of several browsers
that age, some one goes on. The watcher goes on, since its loop has no exit;
that `docker info` and the docker commands of its diagnoses return is an
assumption about the environment again, as they have no timeout, and so is that
a daemon that is down is opened again. Both pumps of a relay are polled by one
`tokio::join!`, and a peer that is not gone reads what arrives; that it vanishes
is always possible and never owed. Nothing else of `background` and nothing of
`gateway` is fair.

### What the runs found

Four places where the code does something else than a comment or a document
next to it says; each is a run that TLC ends with the trace.

1. `lifecycle_retry`: `migrations/0001_workspace_creations.sql:15-16` says a
   retry while `creating` must not start a second container. `create_workspace`
   launches for every row that is not ready, so both requests launch, and each
   begins by removing what the other has made.
2. `lifecycle_delete`: `ws/route/delete.rs:16` says a delete stops the
   container if one exists. The table learns the container's name only when the
   launch is over, so a delete before that stops nothing.
3. `browser_orphan`: `bm:419-432` says the unlocked `status` at worst returns a
   stale answer. It deletes an entry, which by then may be another browser's.
4. `tokens_allow_list`: `int/route.rs:957-959` says the token must allow every
   connected provider. Two connects that overlap each miss the other.

One more divergence has no run of its own. `int/route.rs:868-874` says that a
failure in the middle of a rotation leaves the workspace with its old, still
valid token. The new token is stored before it is delivered, so after a failed
delivery the container holds one that the gateway no longer accepts, and the
old one is never revoked. This is why `WorkingToken` speaks of the file only if
the stored token's delivery succeeded, and why `NoTokenLeak` counts it as lost.
Nothing bounds the docker commands of a create, a delete or a diagnosis: one that
hangs leaves its request unanswered and, if it is a create, its row creating until
another request for the name. One that outlives its request may act late, and the
`docker rm` of a dropped attempt then removes the container that a retry has
recorded as ready; no run states it, as no document denies it.
Likewise `docs/diagnose-workspace-plan.md:77-79` says no stop is ever made
against something working; of two diagnoses that overlap the second stops what
the first has healed.

More, met while modelling, of which the models follow the code:

- `config.rs:17-22`, `rust_gateway/.env.example:4-6` and
  `.env.shared.example:10` say that the service's own `.env` overrides
  `.env.shared`. dotenvy keeps what is already set, so the shared file, which is
  loaded first, wins (`LoadDotenvFiles`).
- `ws/route/list.rs:59-61` calls `healthy` the live result of a check that is
  not derived from the status; a row that is not ready gets `false` unchecked.
- `int/mcp_proxy.rs:17-18` says two tools are reachable; the list has nine.
  Its comment at 190-192 speaks of one critical section for the decision and the
  update; they are two, with the lookup between them, hence `FailuresBounded`
  and no sharper bound.
- The cache's comment (`int/catalog.rs:84-87`) says no caller makes a redundant
  call; when the fetch fails, each that waited for the lock makes one.
- `POST /auth/logout` answers ok though its DELETE may have failed
  (`auth/route.rs:284`): the session then lives until it expires.
- `FRONTEND_ORIGIN` that is no header value panics at start-up with CORS
  disabled, too (`app.rs:77`), and `EXTRA_WRAPPER_ALLOWED_ORIGINS` that is not
  UTF-8 is ignored where its siblings end the process (`config.rs:175`).
- The browser's other spelling of the frontend's origin is allowed by the
  router (`browser_allowed_origins`) and not told to containers
  (`wrapper_allowed_origins`).
- An answer of OpenConnector with status 200 whose body does not parse is
  reported as `provider_unreachable`.
- OAuth clients are registered with OpenConnector before the configuration of
  the login has been validated (`bin/rust_gateway.rs:135` and `149`).

## What is proved

`WorkspaceLifecycleProofs`, from the assumptions that `MaxAttempts` is positive
and that `NONE` is no name, id, port, user or row:

- `TypeCorrect`, `ReadyAlwaysHasContainer`, `RowsAlwaysNameProvenLaunch`,
  `ContainersAlwaysClaimed`: the invariants of `lifecycle_races`, for any
  number of names, ids, ports and requests.
- `Implementation`: the table implements `WorkspaceRegistry`.

None of these is inductive alone. `IInv` adds what each request knows at each
of its steps: the id a create works with was drawn for its name (`CreateOK`);
the ports it is about to record were seen answering; the record a diagnosis
works with, stale as it may be, was true of the name its id was drawn for
(`DiagnoseOK`); and a row's container and ports are proven even when the row is
not ready (`RowOK`), since a failed heal keeps them; and a `docker create`
that outlived its request names an id that was drawn (`OrphanInv`), so that it
makes no container the table never knew. `claim` and `proven` only
grow, which is what makes stale knowledge harmless. The proof has a lemma for
each handler and a step for each action; the refinement maps each step to a
claim, a settlement, a release or a stutter.

- `RetriedAlwaysBacked`: `RetriedIsBacked` of `lifecycle_heal`, for the side of
  it in which creates are retried (`SideSpec`: no diagnoses, a delete runs to
  its end, and no docker command acts after its request) and one creator at a
  time (`OneCreator`). Names, ids, ports, deletes and attempts are as many as
  one likes, and any of the creator's steps may fail or be its last.

`RetryInv`, on top of `IInv`, says what a retry can find. While a launch is
under way, its name is not ready and its row is its own or gone
(`LaunchesUnsettled`); what it is about to record is backed by the container of
that id on those ports (`RecordsCovered`); and so is what the table says is ready
(`ReadyCovered`), unless a delete has removed the container and is on its way to
the row. A container that has stopped keeps its ports and its hook, so `Backed`
is about what was launched and not about what runs. Of two creators
`RetriedIsBacked` is false, as TLC shows on `lifecycle_heal` with a second one: the
launch of a retry begins by removing what the first has made (`lifecycle_retry`).

`IntegrationTokensProofs`, from the assumptions that curated providers are
providers, that creations are requests and that `NONE` and the sentinel are no
providers or tokens:

- `ConnectedOnlyAfterDelivery`, `TokensAreRestricted`, `TypeCorrect`.
- `StoredSurvivesRotation`: the action property, that however rotations
  overlap none revokes the stored token.

The strengthening: a token is *published* once it has been created and no
request is about to store it. Whatever a request noted as previous, and
whatever is stored, is published (`TokensOK`, `StoredIsPublished`), and no two
requests hold one token (`NoTokenShared`). So the token a request is about to
store is not one another has noted, and one noted as previous, once replaced
by the request's own store, is never stored again. `OneRequest` states what a
step of one request must respect for all of this to survive, `Moves` is its
special case for steps that touch no token, and the lemmas per flow discharge
the two.

- `NoneLeaksSerially` and `AlwaysWorkingSerially`: `NoTokenLeak` and
  `WorkingToken` of `tokens_serial`, with one request at a time (`OneAtATime`, a
  condition on the constant `Requests`), whatever fails in it and wherever it is
  cut short. With two at a time TLC finds both false, which is why they are
  theorems under a hypothesis and not of `Spec` alone.

`SerialInv`, on top of `IInv`, says what only the lone request can claim: it
knows what is stored while it replaces it or takes it down (`HoldsOK`), every
live token is stored, forsaken or in its hands (`Accounted`), what is connected
works even in the middle of a request (`Works`), and the token it brings allows
all that is connected and is in the container before a provider is shown
(`BringsOK`), unless a late docker command has written the file since.

`BrowserManagerProofs`, for any number of threads, agents and processes, in
two layers:

- Whatever requests arrive, the unlocked status among them: `TypeCorrect`,
  `FirstBrowserKept` and `SweepSparesTheActive`. The strengthening `IInv`: a
  thread inside the with block holds the lock (`LockExcludes`), what a thread
  has seen of a process stays true of it because nothing dead comes back
  (`SightsOK`), a thread about to launch sees no entry because only the lock's
  holder adds one, an entry names a process launched for its agent
  (`EntriesOK`), and the agents still on the sweep's list are idle or without
  an entry (`ExpiredStayIdle`).
- If every request takes the lock (`AllLock`: no status): `LockKeepsOneChromium`
  and `LockKeepsDeletesOwn`. On top of `IInv`, a process that runs is the one
  its agent's entry names (`AllKnown`), and a thread that has seen an entry
  still finds it (`AllSeeEntries`). With status requests both are false:
  `browser_orphan` is the run.

`GatewayProofs`, from the assumptions that the times are naturals and
that `NONE` is no user, workspace, agent, token or state: `StatesAlwaysSpentOnce`,
`CookiesAlwaysWork`, `LateAlwaysRefused`, for any number of browsers, requests
and restarts. `SessionsInv` says where a state and a token are: a state is pending,
or in the hands of one request, or spent on a token (`PendingUnspent`,
`SpendingUnspent`, `SpendingApart`); a token whose row is being inserted is seen
by nobody yet and by no second request (`HoldsToken`, `InsertingApart`), no
token that was logged out has a row, a cookie is its user's and has its row
until it expires (`CookieOK`), and a late request is still at the check with a
session that is still no good (`LateOK`).

`WorkspaceProxiesProofs`, from the same and that paths are sequences of segments:
`OwnerAlwaysChecked`, `AlwaysArrivesAsAsked`, and the action property
`HandsOnlyToRacers`, for any paths, users, workspaces, agents and ports.
`ProxiesInv` carries what a request knows past each of its steps: its workspace is
owned (`CheckedOK`), its port is that of the workspace it names unless that one has
stopped (`PortOK`), its cookie is set (`AgentOK`); and it needs that who listens
on a port is the workspace whose row is ready with it (`ServingIsReady`).
`NamedBySpace` is the lemma that the two namespaces exclude each other.

Of the list, in the same module: `ListInvariance` and `VerdictsAlwaysTheirOwn`,
for pages of any length and any order of the checks. `ListInv` adds that no
workspace is twice on a page (`PageOK`), that each verdict is what the check of
its own workspace has come to (`VerdictOK`), and that a check that has not ended
asks at a port that is still its workspace's, unless the container has stopped
since the rows were read (`CheckOK`).

`McpProxyProofs`, from the assumptions that the limit is positive and the
requests at a time are finitely many: `AlwaysOnlyItsOwn`, and
`FailuresAlwaysBounded` for any limit, window and number of requests. A bearer
that was not the workspace's when it was presented was issued before, and as no
bearer is issued twice it never becomes the workspace's again (`BearerOK`); what
goes out is sanitized (`SentOK`) under a bearer issued to the workspace
(`TokenIsHeld`). The bound is an argument about the cardinality of the requests
in flight: a request joins them only below the limit, and each failure that is
counted leaves them (`FailureLeaves`).

`LocksAreEarned`, of the action property `LockIsEarned`: a workspace is locked
only after as many failures as the limit, all within one window. `HistoryOK` says
that an entry whose window lasts counts failures that came since its start
(`EntryIsBacked`, `Backs`). The history keeps what is recent only, so the lemma
it rests on (`RecentIsEnd`) is that what is dropped is a beginning of it, and old.

`GatewayProofs` also holds `UnionTypes`, the invariant `MCGateway!TypesOK` of the
run: the union of the four keeps the invariants of each.

`DesktopRelayProofs`: `FramesPassInOrder`, for any number of frames and any room
in the connections. `RelayInv` follows each direction from its sender to its
reader: what has been read, what waits to be read, what the pump holds and what it
has yet to read are consecutive frames in this order (`ReadInOrder`,
`RestInOrder`), and a Close that a peer sent itself comes after all of them
(`CloseIsLast`).

`BackgroundProofs`, of the rest of what `MCBackground` unites:

- `CatalogFetchesSpaced`, from the assumption that the TTL is a natural. The lock
  is held by the one query that rechecks or fetches, and so what is being fetched
  is still due (`LockIsHeld`, `FetchIsDue`).
- `SweepsAlwaysPaidFor`, for any number of workspaces and outages: an outage that
  is going on, or that the last poll saw, has not been swept for (`OneIsOwed`).
- `EventsAlwaysWhole`, from the assumption that a blank line is no payload: for
  bodies of any length, what was kept of the lines read so far are those of them
  that belong to the first event (`KeptSoFar`). How many there are is told by a
  cardinality, so no induction over the text is needed.
- `AlwaysListensConfigured`, for any environments: each stage of `main` is
  reached only through those that found its configuration legible (`ReadSoFar`).
- `OriginsAlwaysListedOnce`, from the assumption that the extra origins are a
  sequence. `WrapperAllowedOrigins` and `ParseExtra` are folds, which are
  recursive functions over sets of positions: `FoldExists` shows that there is
  such a function, `FoldCollects` what it comes to, both by the smallest `n` for
  which it might fail, as a set of naturals has a least one (`Least`).
- `UnionTypes`, the invariant `MCBackground!TypesOK` of the run.

Every safety invariant and every action property that a passing run checks is
stated by one of these theorems. Only model-checked are the liveness properties
(`CreatingSettles`, `CreatesAreAnswered`, `QuietReclaimsAll`,
`SeenOutagesAreHealed`, `RelayEnds`), as fairness and ENABLED are out of the
prover's reach; and the runs that expect a violation are TLC's alone.

## What is not modelled

- `crypto.rs`: two pure functions over a library's AES-GCM.
- The search and the paging of the catalog, the payloads of single admin calls
  of OpenConnector, headers and bodies that are passed on: no state.
- The Python wrapper with its agent seeder, a transport around an upstream that
  is not in this tree; the seeder kit, sequential copying of files at build and
  boot; the frontend, React views whose scheduling is the framework's.
- The contents of files and of docker arguments, the wording of answers, the
  audit log.
- OpenConnector, Docker, Chromium, SQLite: only as far as the code relies on
  them; their actions are marked external in `PROJECT.json`.
- A workspace that is deleted or relaunched while integrations of it are in
  flight: the deletion leaves the tokens' rows and OpenConnector's connections
  behind, and nothing in the code comes back to them.
- Restart of the browser daemon, which its own documentation gives up on.

## Plan

Done, in order of importance: the lifecycle of workspaces with its abstract
specification and proofs; the browser daemon and the token rotation with
proofs; then sessions, proxies, the list, the MCP proxy, the catalog's cache,
the watcher, the relay, the client and the start-up, with proofs.

What would add most from here:

1. A composition of `GatewaySessions`, `WorkspaceProxies` and `McpProxy` over one
   set of tables, in which a rotation of `IntegrationTokens` is the `Rotate` of
   `McpProxy`: today the reductions are argued, not checked.
2. An abstract specification of the browser daemon (per agent: none, or one
   browser), implemented when status is left out, and a restart of the daemon.
3. What a stop of a diagnosis may hit when another diagnosis or a sweep
   overlaps, for which the documents first have to say what is wanted.
