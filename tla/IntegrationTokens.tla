--------------------------- MODULE IntegrationTokens ---------------------------
(***************************************************************************)
(* The integrations of one workspace (rust_gateway/src/integrations): the  *)
(* requests that connect, list and disconnect providers, and the rotation  *)
(* of the workspace's runtime token that each of them ends in, over two    *)
(* tables, OpenConnector and the token file in the container.              *)
(*                                                                         *)
(* Abstractions.  A provider is its OpenConnector connection of the name   *)
(* ws-<workspace id>, so a token's allow-list is a set of providers.  A    *)
(* bearer, its hash and its encryption are the token.  The workspace is    *)
(* ready and has one container throughout.                                 *)
(***************************************************************************)
EXTENDS Naturals, FiniteSets, FiniteSetsExt

CONSTANTS
    Providers,      \* provider ids
    Curated,        \* those of providers.yaml; the others are of the catalog
    Toks,           \* runtime tokens; bounds those ever created
    Requests,       \* requests to the integrations routes
    Creators,       \* those that are creations of the workspace, about to end
    Ops,            \* what arrives: of connect, list, disconnect and oauth
    Failing,        \* what may fail: of openconnector, database and docker
    Droppable,      \* requests a client disconnect or a restart may end early
    MaxOrphans,     \* bound: docker commands given up on that may still act
    SENTINEL,       \* the connection id that is nobody's
    NONE            \* no token, no provider

ASSUME KindsAssumption ==
    /\ Ops \subseteq {"connect", "list", "disconnect", "oauth"}
    /\ Failing \subseteq {"openconnector", "database", "docker"}
    /\ Curated \subseteq Providers /\ Creators \subseteq Requests
    /\ MaxOrphans \in Nat
ASSUME SentinelsAssumption ==
    NONE \notin Providers /\ NONE \notin Toks /\ SENTINEL \notin Providers

VARIABLES
    conn,       \* integration_connections: the status of each provider's row
    stored,     \* workspace_runtime_tokens: the token, NONE without a row
    remote,     \* the connections OpenConnector has configured
    st,         \* each token at OpenConnector
    scope,      \* each token's allowed connections
    file,       \* the token in /run/hermes/integrations.token
    usable,     \* that file belongs to the user the agents run as
    orphans,    \* what docker commands given up on may still write; NONE removes
    req,        \* in-flight requests
    delivered,  \* history: tokens whose delivery succeeded
    overtaken,  \* history: such a command was the last to write the file
    lost        \* history: tokens a failed call or a dropped request forsook

vars == <<conn, stored, remote, st, scope, file, usable, orphans, req, delivered, overtaken, lost>>
tokens == <<st, scope>>
container == <<file, usable, orphans, overtaken>>
history == <<delivered, lost>>

RowStatus == {"none", "pending", "connected", "disconnected", "error"}
Links == Providers \union {SENTINEL}

(* The rotation, which every other flow ends in, and what precedes the issue *)
Early == {"put", "delete", "mark", "left", "allow", "pend", "prev", "issue"}
Pc == {"idle", "authorize", "popup", "scan", "peek", "pick", "find", "expire", "store",
       "copy", "chown", "revoke", "connected", "error", "undo",
       "tprev", "trevoke", "tforget", "tfile"} \union Early

Request == [op: Ops \union {"create", NONE}, pc: Pc, p: Providers \union {NONE},
            pending: SUBSET Providers, found: SUBSET Providers,
            scope: SUBSET Links, prev: Toks \union {NONE}, new: Toks \union {NONE}]
NoRequest == [op |-> NONE, pc |-> "idle", p |-> NONE, pending |-> {}, found |-> {},
              scope |-> {}, prev |-> NONE, new |-> NONE]

(* A creation issues a first token for nobody's connection, best effort.   *)
Creation == [NoRequest EXCEPT !.op = "create", !.pc = "issue", !.scope = {SENTINEL}]

Init ==
    /\ conn = [p \in Providers |-> "none"]
    /\ stored = NONE
    /\ remote = {}
    /\ st = [t \in Toks |-> "unborn"]
    /\ scope = [t \in Toks |-> {}]
    /\ file = NONE /\ usable = FALSE /\ orphans = {} /\ overtaken = FALSE
    /\ req = [r \in Requests |-> IF r \in Creators THEN Creation ELSE NoRequest]
    /\ delivered = {} /\ lost = {}

------------------------------------------------------------------------------
At(r, pc) == req[r].pc = pc
Goto(r, pc) == req' = [req EXCEPT ![r] = [@ EXCEPT !.pc = pc]]
Answer(r) == req' = [req EXCEPT ![r] = NoRequest]
Fails(system) == system \in Failing

(* The locals of a rotation go with it. *)
Leave(r, pc) ==
    req' = [req EXCEPT ![r] = [@ EXCEPT !.pc = pc, !.scope = {}, !.prev = NONE, !.new = NONE]]

(* The error path: finish_connection records it, the others just end.      *)
Fail(r) == IF req[r].op \in {"connect", "list"} THEN Leave(r, "error") ELSE Answer(r)

(* The tokens that only a request knows of *)
Forsaken(r) == {req[r].prev, req[r].new} \ {NONE, stored}

Unborn == {t \in Toks : st[t] = "unborn"}
Connected == {p \in Providers : conn[p] = "connected"}

(* Bound: a request arrives only while the tokens that it and the others   *)
(* may still create are left.                                              *)
Draws(r) == Cardinality(req[r].pending) + Cardinality(req[r].found)
                + IF req[r].pc \in Early THEN 1 ELSE 0
Spare(n) == Cardinality(Unborn) >= n + MapThenSumSet(Draws, Requests)

(* An unknown provider or workspace is refused before anything is called.  *)
Refuse(r) == At(r, "idle") /\ UNCHANGED vars

Receive(r, op, p) ==
    /\ At(r, "idle")
    /\ \/ op = "connect" /\ Spare(1)
       \/ op = "disconnect" /\ p \in Curated /\ Spare(1)
       \/ op = "oauth" /\ p \in Curated
    /\ req' = [req EXCEPT ![r] = [NoRequest EXCEPT !.op = op, !.p = p,
                  !.pc = CASE op = "connect" -> "put" [] op = "disconnect" -> "delete"
                           [] op = "oauth" -> "authorize"]]
    /\ UNCHANGED <<conn, stored, remote, tokens, container, history>>

ReceiveList(r) ==
    /\ At(r, "idle") /\ Spare(Cardinality(Curated))
    /\ req' = [req EXCEPT ![r] = [NoRequest EXCEPT !.op = "list", !.pc = "scan",
                                                   !.pending = Curated]]
    /\ UNCHANGED <<conn, stored, remote, tokens, container, history>>

------------------------------------------------------------------------------
(* Connecting with an API key, and the OAuth popup *)

(* connect_with_api_key; an error may be an answer that was lost.          *)
Put(r) ==
    /\ At(r, "put")
    /\ \/ remote' = remote \union {req[r].p} /\ Goto(r, "allow")
       \/ Fails("openconnector") /\ remote' \in {remote, remote \union {req[r].p}} /\ Answer(r)
    /\ UNCHANGED <<conn, stored, tokens, container, history>>

Authorize(r) ==
    /\ At(r, "authorize")
    /\ Goto(r, "popup") \/ (Fails("openconnector") /\ Answer(r))
    /\ UNCHANGED <<conn, stored, remote, tokens, container, history>>

(* mark_pending, whatever the row said before *)
MarkPending(r) ==
    /\ At(r, "popup")
    /\ conn' = [conn EXCEPT ![req[r].p] = "pending"] \/ (Fails("database") /\ UNCHANGED conn)
    /\ Answer(r)
    /\ UNCHANGED <<stored, remote, tokens, container, history>>

------------------------------------------------------------------------------
(* finish_connection *)

(* Only the provider itself, as before the fix of "Bug 1" *)
AllowOnlyItself(r) ==
    /\ At(r, "allow")
    /\ \/ req' = [req EXCEPT ![r] = [@ EXCEPT !.scope = {req[r].p}, !.pc = "pend"]]
       \/ Fails("database") /\ Fail(r)
    /\ UNCHANGED <<conn, stored, remote, tokens, container, history>>

(* The container is looked up, and the allow-list read: whatever is        *)
(* connected now, and this provider.                                       *)
Allow(r) ==
    /\ At(r, "allow")
    /\ \/ req' = [req EXCEPT ![r] =
             [@ EXCEPT !.scope = Connected \union {req[r].p}, !.pc = "pend"]]
       \/ Fails("database") /\ Fail(r)
    /\ UNCHANGED <<conn, stored, remote, tokens, container, history>>

(* The row says so first, as before the fix of "Bug 4". *)
PendConnected(r) ==
    /\ At(r, "pend")
    /\ \/ conn' = [conn EXCEPT ![req[r].p] = "connected"] /\ Goto(r, "prev")
       \/ Fails("database") /\ Fail(r) /\ UNCHANGED conn
    /\ UNCHANGED <<stored, remote, tokens, container, history>>

(* upsert_connection, so that MarkError finds a row *)
Pend(r) ==
    /\ At(r, "pend")
    /\ \/ conn' = [conn EXCEPT ![req[r].p] = "pending"] /\ Goto(r, "prev")
       \/ Fails("database") /\ Fail(r) /\ UNCHANGED conn
    /\ UNCHANGED <<stored, remote, tokens, container, history>>

(* An error taken for "no previous token", as before the fix of "Bug 5" *)
PreviousSwallowing(r) ==
    /\ At(r, "prev")
    /\ \/ req' = [req EXCEPT ![r] = [@ EXCEPT !.prev = stored, !.pc = "issue"]]
       \/ Fails("database") /\ Goto(r, "issue")
    /\ UNCHANGED <<conn, stored, remote, tokens, container, history>>

(* rotate_workspace_token: the previous token is noted first. *)
Previous(r) ==
    /\ At(r, "prev")
    /\ \/ req' = [req EXCEPT ![r] = [@ EXCEPT !.prev = stored, !.pc = "issue"]]
       \/ Fails("database") /\ Fail(r)
    /\ UNCHANGED <<conn, stored, remote, tokens, container, history>>

(* create_runtime_token; a lost answer leaves a token nobody knows of.     *)
Issue(r) ==
    /\ At(r, "issue")
    /\ \/ \E t \in Unborn :
             /\ st' = [st EXCEPT ![t] = "live"]
             /\ scope' = [scope EXCEPT ![t] = req[r].scope]
             /\ \/ /\ req' = [req EXCEPT ![r] = [@ EXCEPT !.new = t, !.pc = "store"]]
                   /\ UNCHANGED lost
                \/ Fails("openconnector") /\ Fail(r) /\ lost' = lost \union {t}
       \/ Fails("openconnector") /\ Fail(r) /\ UNCHANGED <<tokens, lost>>
    /\ UNCHANGED <<conn, stored, remote, container, delivered>>

(* The previous token is looked up after the new one is stored. *)
StoreThenPrevious(r) ==
    /\ At(r, "store")
    /\ stored' = req[r].new
    /\ req' = [req EXCEPT ![r] = [@ EXCEPT !.prev = req[r].new, !.pc = "copy"]]
    /\ UNCHANGED <<conn, remote, tokens, container, history>>

(* upsert_runtime_token *)
Store(r) ==
    /\ At(r, "store")
    /\ \/ stored' = req[r].new /\ Goto(r, "copy") /\ UNCHANGED lost
       \/ /\ Fails("database") /\ Fail(r)
          /\ lost' = lost \union {req[r].new}
          /\ UNCHANGED stored
    /\ UNCHANGED <<conn, remote, tokens, container, delivered>>

(* A failed delivery ends the rotation before it revokes the previous       *)
(* token.                                                                  *)
DeliveryFails(r) == Fail(r) /\ lost' = lost \union Forsaken(r)

(* What docker cp and rm leave: a new file is root's. *)
Leaves(t, late) == file' = t /\ usable' = FALSE /\ overtaken' = late
Writes(t) == Leaves(t, FALSE) /\ UNCHANGED orphans

(* A docker command that timed out or whose request was dropped is not      *)
(* killed.  A late chown or chmod only makes a file readable: not kept.     *)
(* Bound: none is kept, either, while the file is what a late one left.    *)
GivesUp(t) ==
    /\ orphans' \in {orphans} \union
          (IF Cardinality(orphans) < MaxOrphans /\ ~overtaken THEN {orphans \union {t}} ELSE {})
    /\ UNCHANGED <<file, usable, overtaken>>

(* deliver_token_file: mkdir and docker cp ...                             *)
Copy(r) ==
    /\ At(r, "copy")
    /\ \/ Writes(req[r].new) /\ Goto(r, "chown") /\ UNCHANGED lost
       \/ /\ Fails("docker") /\ DeliveryFails(r)
          /\ GivesUp(req[r].new) \/ Writes(req[r].new)
    /\ UNCHANGED <<conn, stored, remote, tokens, delivered>>

(* ... then chown and chmod of the file that is there by now, if one is.   *)
Chown(r) ==
    /\ At(r, "chown")
    /\ \/ /\ file # NONE
          /\ usable' = TRUE
          /\ delivered' = delivered \union {req[r].new}
          /\ IF req[r].op = "create" THEN Answer(r) ELSE Goto(r, "revoke")
          /\ UNCHANGED lost
       \/ /\ file = NONE \/ Fails("docker")
          /\ DeliveryFails(r)
          /\ usable' \in {usable, file # NONE}
          /\ UNCHANGED delivered
    /\ UNCHANGED <<conn, stored, remote, tokens, file, orphans, overtaken>>

(* The rotation is over: a connection is recorded, a disconnect answered.  *)
AfterRotation(r) == IF req[r].op = "disconnect" THEN Answer(r) ELSE Leave(r, "connected")

(* The token to revoke is looked up at the end, when it may be any. *)
RevokeStored(r) ==
    /\ At(r, "revoke")
    /\ st' = IF stored \in {NONE, req[r].new} THEN st ELSE [st EXCEPT ![stored] = "revoked"]
    /\ AfterRotation(r)
    /\ UNCHANGED <<conn, stored, remote, scope, container, history>>

(* revoke_runtime_token of the previous token, best effort *)
Revoke(r) ==
    LET t == req[r].prev IN
    /\ At(r, "revoke")
    /\ \/ t = NONE /\ UNCHANGED <<st, lost>>
       \/ t # NONE /\ st' = [st EXCEPT ![t] = "revoked"] /\ UNCHANGED lost
       \/ t # NONE /\ Fails("openconnector") /\ lost' = lost \union {t} /\ UNCHANGED st
    /\ AfterRotation(r)
    /\ UNCHANGED <<conn, stored, remote, scope, container, delivered>>

(* Either end of finish_connection: list goes on, connect answers. *)
MarkConnected(r) ==
    /\ At(r, "connected")
    /\ \/ /\ conn' = [conn EXCEPT ![req[r].p] = "connected"]
          /\ IF req[r].op = "list" THEN Goto(r, "pick") ELSE Answer(r)
       \/ Fails("database") /\ Fail(r) /\ UNCHANGED conn
    /\ UNCHANGED <<stored, remote, tokens, container, history>>

(* mark_error is an UPDATE and best effort; connect compensates after it.  *)
MarkError(r) ==
    LET p == req[r].p IN
    /\ At(r, "error")
    /\ \/ conn' = IF conn[p] = "none" THEN conn ELSE [conn EXCEPT ![p] = "error"]
       \/ Fails("database") /\ UNCHANGED conn
    /\ Goto(r, IF req[r].op = "list" THEN "pick" ELSE "undo")
    /\ UNCHANGED <<stored, remote, tokens, container, history>>

Undo(r) ==
    /\ At(r, "undo")
    /\ remote' = remote \ {req[r].p} \/ (Fails("openconnector") /\ UNCHANGED remote)
    /\ Answer(r)
    /\ UNCHANGED <<conn, stored, tokens, container, history>>

------------------------------------------------------------------------------
(* list_integrations_route, which reconciles as it lists *)

(* The rows, read once: the pending ones and those that are missing *)
Scan(r) ==
    /\ At(r, "scan")
    /\ \/ req' = [req EXCEPT ![r] =
             [@ EXCEPT !.pending = {p \in Curated : conn[p] = "pending"},
                       !.found = {p \in Curated : conn[p] = "none"}, !.pc = "peek"]]
       \/ Fails("database") /\ Answer(r)
    /\ UNCHANGED <<conn, stored, remote, tokens, container, history>>

(* All connections, read once: those of missing rows are to be finished.   *)
Peek(r) ==
    /\ At(r, "peek")
    /\ \E seen \in {remote} \union (IF Fails("openconnector") THEN {{}} ELSE {}) :
          req' = [req EXCEPT ![r] =
             [@ EXCEPT !.found = req[r].found \intersect seen, !.pc = "pick"]]
    /\ UNCHANGED <<conn, stored, remote, tokens, container, history>>

(* The pending ones come first; then the list is the answer. *)
Pick(r) ==
    /\ At(r, "pick")
    /\ \/ \E p \in req[r].pending :
             req' = [req EXCEPT ![r] =
                [@ EXCEPT !.pending = req[r].pending \ {p}, !.p = p, !.pc = "find"]]
       \/ /\ req[r].pending = {}
          /\ \E p \in req[r].found :
                req' = [req EXCEPT ![r] =
                   [@ EXCEPT !.found = req[r].found \ {p}, !.p = p, !.pc = "allow"]]
       \/ req[r].pending = {} /\ req[r].found = {} /\ Answer(r)
    /\ UNCHANGED <<conn, stored, remote, tokens, container, history>>

(* A pending row is finished, or expired by the age it had when it was     *)
(* read, or left.                                                          *)
Find(r) ==
    /\ At(r, "find")
    /\ \/ req[r].p \in remote /\ Goto(r, "allow")
       \/ /\ req[r].p \notin remote \/ Fails("openconnector")
          /\ Goto(r, "expire") \/ Goto(r, "pick")
    /\ UNCHANGED <<conn, stored, remote, tokens, container, history>>

Expire(r) ==
    LET p == req[r].p IN
    /\ At(r, "expire")
    /\ \/ conn' = IF conn[p] = "none" THEN conn ELSE [conn EXCEPT ![p] = "error"]
       \/ Fails("database") /\ UNCHANGED conn
    /\ Goto(r, "pick")
    /\ UNCHANGED <<stored, remote, tokens, container, history>>

------------------------------------------------------------------------------
(* disconnect_integration_route *)

Delete(r) ==
    LET p == req[r].p IN
    /\ At(r, "delete")
    /\ \/ remote' = remote \ {p} /\ Goto(r, "mark")
       \/ /\ p \notin remote \/ Fails("openconnector")
          /\ remote' \in {remote, remote \ {p}}
          /\ Answer(r)
    /\ UNCHANGED <<conn, stored, tokens, container, history>>

MarkDisconnected(r) ==
    LET p == req[r].p IN
    /\ At(r, "mark")
    /\ \/ /\ conn' = IF conn[p] = "none" THEN conn ELSE [conn EXCEPT ![p] = "disconnected"]
          /\ Goto(r, "left")
       \/ Fails("database") /\ Answer(r) /\ UNCHANGED conn
    /\ UNCHANGED <<stored, remote, tokens, container, history>>

(* Rotating to an empty allow-list, which OpenConnector takes for no limit *)
LeftRotating(r) ==
    /\ At(r, "left")
    /\ req' = [req EXCEPT ![r] = [@ EXCEPT !.scope = Connected, !.pc = "prev"]]
    /\ UNCHANGED <<conn, stored, remote, tokens, container, history>>

(* What is left connected decides: rotate to that, or tear the token down.  *)
Left(r) ==
    /\ At(r, "left")
    /\ \/ /\ Connected # {}
          /\ req' = [req EXCEPT ![r] = [@ EXCEPT !.scope = Connected, !.pc = "prev"]]
       \/ Connected = {} /\ Goto(r, "tprev")
       \/ Fails("database") /\ Answer(r)
    /\ UNCHANGED <<conn, stored, remote, tokens, container, history>>

TearDownPrevious(r) ==
    /\ At(r, "tprev")
    /\ \/ req' = [req EXCEPT ![r] =
             [@ EXCEPT !.prev = stored, !.pc = IF stored = NONE THEN "tfile" ELSE "trevoke"]]
       \/ Fails("database") /\ Answer(r)
    /\ UNCHANGED <<conn, stored, remote, tokens, container, history>>

TearDownRevoke(r) ==
    LET t == req[r].prev IN
    /\ At(r, "trevoke")
    /\ \/ st' = [st EXCEPT ![t] = "revoked"] /\ UNCHANGED lost
       \/ Fails("openconnector") /\ lost' = lost \union {t} /\ UNCHANGED st
    /\ Leave(r, "tforget")
    /\ UNCHANGED <<conn, stored, remote, scope, container, delivered>>

(* delete_runtime_token goes by workspace, whatever the row holds by now.  *)
TearDownForget(r) ==
    /\ At(r, "tforget")
    /\ stored' = NONE \/ (Fails("database") /\ UNCHANGED stored)
    /\ Goto(r, "tfile")
    /\ UNCHANGED <<conn, remote, tokens, container, history>>

TearDownFile(r) ==
    /\ At(r, "tfile")
    /\ \/ Writes(NONE)
       \/ Fails("database") /\ UNCHANGED container
       \/ Fails("docker") /\ GivesUp(NONE)
    /\ Answer(r)
    /\ UNCHANGED <<conn, stored, remote, tokens, history>>

------------------------------------------------------------------------------
(* The environment *)

(* A provider's popup ends well, or an administrator connects it at        *)
(* OpenConnector's dashboard.                                              *)
ConnectsOutOfBand(p) ==
    /\ p \notin remote
    /\ remote' = remote \union {p}
    /\ UNCHANGED <<conn, stored, tokens, container, req, history>>

OrphanEnds(t) ==
    /\ t \in orphans
    /\ Leaves(t, TRUE)
    /\ orphans' = orphans \ {t}
    /\ UNCHANGED <<conn, stored, remote, tokens, req, history>>

Drop(r) ==
    /\ r \in Droppable /\ ~At(r, "idle")
    /\ Answer(r)
    /\ lost' = lost \union Forsaken(r)
    /\ \/ At(r, "copy") /\ GivesUp(req[r].new)
       \/ At(r, "tfile") /\ GivesUp(NONE)
       \/ ~At(r, "copy") /\ ~At(r, "tfile") /\ UNCHANGED container
    /\ UNCHANGED <<conn, stored, remote, tokens, delivered>>

Rotate(r) == Previous(r) \/ Issue(r) \/ Store(r) \/ Copy(r) \/ Chown(r) \/ Revoke(r)
Finish(r) == Allow(r) \/ Pend(r) \/ MarkConnected(r) \/ MarkError(r)
Connect(r) == Put(r) \/ Undo(r) \/ Authorize(r) \/ MarkPending(r)
List(r) == Scan(r) \/ Peek(r) \/ Pick(r) \/ Find(r) \/ Expire(r)
Disconnect(r) ==
    \/ Delete(r) \/ MarkDisconnected(r) \/ Left(r)
    \/ TearDownPrevious(r) \/ TearDownRevoke(r) \/ TearDownForget(r) \/ TearDownFile(r)

Next ==
    \/ \E r \in Requests :
          \/ \E op \in Ops \ {"list"}, p \in Providers : Receive(r, op, p)
          \/ "list" \in Ops /\ ReceiveList(r)
          \/ Refuse(r)
          \/ Rotate(r) \/ Finish(r) \/ Connect(r) \/ List(r) \/ Disconnect(r)
          \/ Drop(r)
    \/ \E p \in Providers : ConnectsOutOfBand(p)
    \/ \E t \in Toks \union {NONE} : OrphanEnds(t)

Spec == Init /\ [][Next]_vars

------------------------------------------------------------------------------
(* Properties *)

(* The previous token of a rotation is never the one it has just created.  *)
TypeOK ==
    /\ conn \in [Providers -> RowStatus]
    /\ stored \in Toks \union {NONE}
    /\ remote \subseteq Providers
    /\ st \in [Toks -> {"unborn", "live", "revoked"}]
    /\ scope \in [Toks -> SUBSET Links]
    /\ file \in Toks \union {NONE} /\ usable \in BOOLEAN
    /\ orphans \subseteq Toks \union {NONE} /\ overtaken \in BOOLEAN
    /\ req \in [Requests -> Request]
    /\ \A r \in Requests : req[r].new # NONE => req[r].prev # req[r].new
    /\ delivered \subseteq Toks /\ lost \subseteq Toks

(* Whatever requests overlap, a rotation never revokes the token the table  *)
(* holds, its own or another's (route.rs:868-874).                          *)
RotationSparesStored ==
    [][(\E r \in Requests : At(r, "revoke") /\ req'[r] # req[r]) /\ stored # NONE =>
           st'[stored] = st[stored]]_vars

(* A provider is never shown as connected before some token that allows it  *)
(* has reached the container ("Bug 4", route.rs:1009-1016).                 *)
ConnectedWasDelivered ==
    \A p \in Connected : \E t \in delivered : p \in scope[t]

(* No token is ever created with an empty allow-list, which OpenConnector   *)
(* takes for no restriction (create.rs:176-186).                            *)
NoUnrestrictedToken == \A t \in Toks : st[t] # "unborn" => scope[t] # {}

Quiet == \A r \in Requests : At(r, "idle")

(* The token must allow every provider the workspace still has connected    *)
(* ("Bug 1", route.rs:957-959).                                             *)
TokenCoversConnected ==
    Quiet => \A p \in Connected : stored # NONE /\ p \in scope[stored]

(* With one request at a time, whatever fails in it or cuts it short, the   *)
(* token the gateway accepts is live, allows all that is shown as connected *)
(* and, unless its own delivery failed or a docker command given up on      *)
(* acted after it, is the one the agents can read (route.rs:868-874).       *)
WorkingToken ==
    Quiet /\ Connected # {} =>
        /\ stored # NONE /\ st[stored] = "live"
        /\ Connected \subseteq scope[stored]
        /\ stored \in delivered => (file = stored /\ usable) \/ overtaken

(* With one request at a time no token is leaked but by a call that failed  *)
(* (of OpenConnector, of the upsert, or of the delivery that the revocation *)
(* of its predecessor waits for) or a request cut short ("Bug 5",           *)
(* route.rs:882-892).                                                       *)
NoTokenLeak ==
    Quiet => \A t \in Toks : st[t] = "live" => t = stored \/ t \in lost
==============================================================================
