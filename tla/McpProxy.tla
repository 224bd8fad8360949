-------------------------------- MODULE McpProxy --------------------------------
(***************************************************************************)
(* The bearer check of the routes that a container calls, its lockout, and *)
(* the MCP proxy behind it (integrations/mcp_proxy.rs).                    *)
(*                                                                         *)
(* Abstractions.  A bearer, its hash and its encrypted copy are one value, *)
(* as one call of OpenConnector makes all three.  The audit rows, and when *)
(* the next is due, are left out: a failure is recorded some time after it *)
(* was found, which is what awaiting the row comes to.                     *)
(***************************************************************************)
EXTENDS GatewayRoutes

CONSTANTS
    Bearers,        \* runtime tokens; bounds those ever issued
    Callers,        \* requests of containers at a time
    Requests,       \* the bodies they send: records as in NoRequest
    Providers,      \* the registry: a sequence of [service, actions]
    MaxFailures,    \* MAX_BEARER_FAILURES_PER_WINDOW
    Window,         \* BEARER_LOCKOUT_WINDOW
    MaxClock        \* bounds the clock

ASSUME LockoutAssumption == MaxFailures \in Nat \ {0} /\ Window \in Nat /\ MaxClock \in Nat
ASSUME NoBearerAssumption == NONE \notin Bearers
ASSUME NoEntryAssumption == NONE \notin [count : Nat, start : Nat]
ASSUME RequestsAssumption == \A q \in Requests :
    q = [shape |-> q.shape, method |-> q.method, tool |-> q.tool, action |-> q.action,
         connection |-> q.connection, alias |-> q.alias]
ASSUME CallersAssumption == IsFiniteSet(Callers)

VARIABLES
    clock,      \* Instant::now
    token,      \* integration_runtime_tokens: the bearer of each workspace
    holder,     \* the workspace each bearer was issued to, ever
    lockout,    \* McpBearerLockout: failures and start of the window
    asks,       \* the requests
    failures    \* history: the failures recorded within the last Window, up to MaxFailures

mcpVars == <<clock, token, holder, lockout, asks, failures>>

Instants == 0..MaxClock
AskPc == {"idle", "check", "locked", "lookup", "compare", "record", "open", "token", "forward"}
NoRequest == [shape |-> "object", method |-> "ping", tool |-> NONE, action |-> NONE,
              connection |-> NONE, alias |-> NONE]
NoAsk == [pc |-> "idle", of |-> NONE, bearer |-> NONE, found |-> NONE, stale |-> FALSE,
          sent |-> NoRequest, as |-> NONE]

InitMcp ==
    /\ clock = 0
    /\ token = [w \in Workspaces |-> NONE] /\ holder = [b \in Bearers |-> NONE]
    /\ lockout = [w \in Workspaces |-> NONE]
    /\ asks = [c \in Callers |-> NoAsk]
    /\ failures = [w \in Workspaces |-> <<>>]

------------------------------------------------------------------------------
(* sanitize_request *)

AllowedMethods == {"initialize", "tools/list", "tools/call", "ping", "notifications/initialized"}
AllowedTools == {"execute_action", "list_connections", "search_actions", "get_action_guide",
                 "list_apps", "find_action", "search_connection", "open_browser", "close_browser"}

(* A provider without a list allows everything, and so does a service that *)
(* no provider of the registry has; of two providers the first decides.    *)
AllowsAction(action) ==
    LET i == SelectInSeq(Providers, LAMBDA p : p.service = action.service) IN
    i = 0 \/ Providers[i].actions = {} \/ action.name \in Providers[i].actions

(* A tool of NONE is one that a tools/call without params, without a name  *)
(* or with arguments that are no object asks for.                          *)
Permitted(q) ==
    /\ q.shape = "object"           \* neither a batch nor broken JSON
    /\ q.method \in AllowedMethods
    /\ q.method = "tools/call" =>
        /\ q.tool \in AllowedTools
        /\ q.tool = "execute_action" /\ q.action # NONE => AllowsAction(q.action)

(* Only the field that the first draft named *)
SanitizedByName(w, q) ==
    IF q.method = "tools/call" THEN [q EXCEPT !.connection = w] ELSE q

(* Whatever connection a tool call names, it gets the workspace's own: the *)
(* connection called ws-<id> is written as the workspace.                  *)
Sanitized(w, q) ==
    IF q.method = "tools/call" THEN [q EXCEPT !.connection = w, !.alias = NONE] ELSE q

------------------------------------------------------------------------------
(* McpBearerLockout *)

NoFailures == [count |-> 0, start |-> clock]

(* The window never ends. *)
EntryForever(w) == IF lockout[w] = NONE THEN NoFailures ELSE lockout[w]

(* check: the entry it leaves behind, in a new window if the old one ended *)
Entry(w) ==
    IF lockout[w] = NONE \/ clock - lockout[w].start > Window THEN NoFailures ELSE lockout[w]

RecordFailure(w) ==
    LET old == IF lockout[w] = NONE THEN NoFailures ELSE lockout[w] IN
    /\ lockout' = [lockout EXCEPT ![w] = [old EXCEPT !.count = @ + 1]]
    /\ failures' = [failures EXCEPT ![w] =
          IF Len(@) < MaxFailures THEN Append(@, clock) ELSE Append(Tail(@), clock)]

(* Of the times of failures, in their order, those of the last Window      *)
Recent(times, now) ==
    SubSeq(times, 1 + SelectLastInSeq(times, LAMBDA t : now - t > Window), Len(times))

RecordSuccess(w) == lockout' = [lockout EXCEPT ![w] = NoFailures] /\ UNCHANGED failures
NothingRecorded == UNCHANGED <<lockout, failures>>

------------------------------------------------------------------------------
(* The request *)

At(c, pc) == asks[c].pc = pc
Goto(c, pc) ==          \* the bearer is looked at no more
    asks' = [asks EXCEPT ![c] = [NoAsk EXCEPT !.pc = pc, !.of = asks[c].of, !.stale = asks[c].stale]]
Answer(c) == asks' = [asks EXCEPT ![c] = NoAsk]
db == <<clock, token, holder>>

(* A container calls in the name of w with whatever bearer it has: the one *)
(* it was given, an older one, another workspace's (a guess is no better)  *)
(* or none (NONE, as also one that is too short or too long to be one).    *)
Arrive(c, w, b) ==
    /\ At(c, "idle") /\ b \in {NONE} \union {x \in Bearers : holder[x] # NONE}
    /\ asks' = [asks EXCEPT ![c] = [NoAsk EXCEPT !.pc = "check", !.of = w, !.bearer = b,
                                                 !.stale = token[w] # b]]
    /\ UNCHANGED <<db, lockout, failures>>

(* One failure late *)
CheckOneLate(c) ==
    LET w == asks[c].of
        entry == Entry(w) IN
    /\ At(c, "check")
    /\ IF asks[c].bearer = NONE THEN Answer(c) /\ UNCHANGED lockout
       ELSE /\ lockout' = [lockout EXCEPT ![w] = entry]
            /\ IF entry.count > MaxFailures THEN Goto(c, "locked")
               ELSE asks' = [asks EXCEPT ![c] = [@ EXCEPT !.pc = "lookup"]]
    /\ UNCHANGED <<db, failures>>

(* A bearer of no plausible shape is refused before it counts as anything; *)
(* a workspace that is locked out gets no further.                         *)
Check(c) ==
    LET w == asks[c].of
        entry == Entry(w) IN
    /\ At(c, "check")
    /\ IF asks[c].bearer = NONE THEN Answer(c) /\ UNCHANGED lockout
       ELSE /\ lockout' = [lockout EXCEPT ![w] = entry]
            /\ IF entry.count >= MaxFailures THEN Goto(c, "locked")
               ELSE asks' = [asks EXCEPT ![c] = [@ EXCEPT !.pc = "lookup"]]
    /\ UNCHANGED <<db, failures>>

(* find_runtime_token *)
Lookup(c) ==
    /\ At(c, "lookup")
    /\ \/ asks' = [asks EXCEPT ![c] = [@ EXCEPT !.pc = "compare", !.found = token[asks[c].of]]]
       \/ May("database") /\ Answer(c)
    /\ UNCHANGED <<db, lockout, failures>>

(* Any bearer that was ever issued to the workspace *)
CompareWithHeld(c) ==
    LET w == asks[c].of IN
    /\ At(c, "compare")
    /\ \/ asks[c].found = NONE /\ RecordFailure(w) /\ Answer(c)
       \/ /\ asks[c].found # NONE /\ holder[asks[c].bearer] = w
          /\ RecordSuccess(w) /\ Goto(c, "open")
       \/ /\ asks[c].found # NONE /\ holder[asks[c].bearer] # w
          /\ NothingRecorded /\ Goto(c, "record")
    /\ UNCHANGED db

(* The row that was read against the bearer that was presented             *)
Compare(c) ==
    LET w == asks[c].of IN
    /\ At(c, "compare")
    /\ \/ asks[c].found = NONE /\ RecordFailure(w) /\ Answer(c)
       \/ asks[c].found = asks[c].bearer /\ RecordSuccess(w) /\ Goto(c, "open")
       \/ /\ asks[c].found \notin {NONE, asks[c].bearer}
          /\ NothingRecorded /\ Goto(c, "record")
    /\ UNCHANGED db

(* The failure is recorded once its audit row is written, if one is due.   *)
Record(c) ==
    /\ At(c, "record")
    /\ RecordFailure(asks[c].of) /\ Answer(c)
    /\ UNCHANGED db

(* The body is judged and rewritten; the browser's route goes on to        *)
(* WorkspaceProxies.                                                       *)
SanitizeRequest(c, q) ==
    /\ At(c, "open")
    /\ IF Permitted(q)
       THEN asks' = [asks EXCEPT ![c] =
                [@ EXCEPT !.pc = "token", !.sent = Sanitized(asks[c].of, q)]]
       ELSE Answer(c)
    /\ UNCHANGED <<db, lockout, failures>>

(* The second find_runtime_token and its decryption: the bearer of by now  *)
FindToken(c) ==
    LET b == token[asks[c].of] IN
    /\ At(c, "token")
    /\ \/ b # NONE /\ asks' = [asks EXCEPT ![c] = [@ EXCEPT !.pc = "forward", !.as = b]]
       \/ (b = NONE \/ May("database")) /\ Answer(c)
    /\ UNCHANGED <<db, lockout, failures>>

(* An answer, whichever, or the container goes away.                       *)
Depart(c) == ~At(c, "idle") /\ Answer(c) /\ UNCHANGED <<db, lockout, failures>>

------------------------------------------------------------------------------
(* What the rest of the gateway does meanwhile, reduced to the row         *)

Rotate(w, b) ==
    /\ holder[b] = NONE
    /\ holder' = [holder EXCEPT ![b] = w] /\ token' = [token EXCEPT ![w] = b]
    /\ UNCHANGED <<clock, lockout, asks, failures>>

TearDown(w) ==
    /\ token[w] # NONE /\ token' = [token EXCEPT ![w] = NONE]
    /\ UNCHANGED <<clock, holder, lockout, asks, failures>>

TickMcp ==
    /\ clock < MaxClock /\ clock' = clock + 1
    /\ failures' = [w \in Workspaces |-> Recent(failures[w], clock')]
    /\ UNCHANGED <<token, holder, lockout, asks>>

(* The gateway restarts: the failures are counted in memory.               *)
RestartMcp ==
    /\ lockout' = [w \in Workspaces |-> NONE]
    /\ asks' = [c \in Callers |-> NoAsk]
    /\ UNCHANGED <<db, failures>>

Call(c) ==
    \/ \E w \in Workspaces, b \in Bearers \union {NONE} : Arrive(c, w, b)
    \/ Check(c) \/ Lookup(c) \/ Compare(c) \/ Record(c)
    \/ \E q \in Requests : SanitizeRequest(c, q)
    \/ FindToken(c) \/ Depart(c)

McpNext ==
    \/ \E c \in Callers : Call(c)
    \/ \E w \in Workspaces, b \in Bearers : Rotate(w, b)
    \/ \E w \in Workspaces : TearDown(w)
    \/ TickMcp
    \/ RestartMcp

McpSpec == InitMcp /\ [][McpNext]_mcpVars

------------------------------------------------------------------------------
(* Properties *)

McpTypeOK ==
    /\ clock \in Instants
    /\ token \in [Workspaces -> Bearers \union {NONE}]
    /\ holder \in [Bearers -> Workspaces \union {NONE}]
    /\ lockout \in [Workspaces -> [count : Nat, start : Instants] \union {NONE}]
    /\ DOMAIN asks = Callers
    /\ \A c \in Callers :
        /\ asks[c].pc \in AskPc
        /\ asks[c].of \in Workspaces \union {NONE}
        /\ {asks[c].bearer, asks[c].found, asks[c].as} \subseteq Bearers \union {NONE}
    /\ failures \in [Workspaces -> Seq(Instants)]

(* However many wrong bearers arrive at once, the failures counted for a   *)
(* workspace pass the limit by no more than the requests that were let in  *)
(* before it was reached (mcp_proxy.rs:190-224: check and record are two   *)
(* critical sections with a database read between them).                   *)
InFlight(w) == {c \in Callers : asks[c].of = w /\ asks[c].pc \in {"lookup", "compare", "record"}}
FailuresBounded ==
    \A w \in Workspaces : lockout[w] # NONE
        => lockout[w].count + Cardinality(InFlight(w)) < MaxFailures + Cardinality(Callers)

(* A workspace is locked out only by its own failures, MaxFailures of them *)
(* within the last window: not by another workspace's, nor by those of an  *)
(* earlier window, so that a container whose bearer is right gets in again *)
(* one window after the last wrong one (mcp_proxy.rs:190-233).             *)
LockIsEarned ==
    [][\A c \in Callers : At(c, "check") /\ asks'[c].pc = "locked" =>
          Len(failures[asks[c].of]) = MaxFailures]_mcpVars

(* A request whose bearer was no longer the workspace's, or never had      *)
(* been, when it arrived does not get past the check, however the lookup   *)
(* interleaves with a rotation; and what OpenConnector is sent goes out    *)
(* under a bearer of this workspace and with the workspace's own           *)
(* connection, under every name that the caller could have used            *)
(* (mcp_proxy.rs:322-391, 438-447, 611-625).                               *)
StaleIsRefused(c) ==
    asks[c].stale => asks[c].pc \notin {"open", "token", "forward"}
ForwardedIsOwn(c) ==
    At(c, "forward") =>
        /\ holder[asks[c].as] = asks[c].of
        /\ asks[c].sent.method = "tools/call" =>
            asks[c].sent.connection = asks[c].of /\ asks[c].sent.alias = NONE
OnlyItsOwn == \A c \in Callers : StaleIsRefused(c) /\ ForwardedIsOwn(c)
==============================================================================
