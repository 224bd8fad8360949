---------------------------- MODULE WorkspaceProxies ----------------------------
(***************************************************************************)
(* What a request meets behind the session check: the query of the         *)
(* workspace's owner (auth/middleware.rs), the workspace's resolution to a *)
(* port (workspaces/resolve.rs) and the proxies that forward to it         *)
(* (workspaces/proxy, proxy/forward.rs), beside the creates and deletes    *)
(* that change the row and the container in the meantime.                  *)
(*                                                                         *)
(* Abstractions.  The three ports of a workspace are one.  A create is     *)
(* reduced to what its row shows to others (WorkspaceLifecycle has it in   *)
(* full).  A request's user is the one GatewaySessions found.              *)
(***************************************************************************)
EXTENDS GatewayRoutes

CONSTANTS
    Ports,          \* ports on the host
    Proxies         \* requests in the proxies at a time

ASSUME NoPortAssumption == NONE \notin Ports
ASSUME NoRowAssumption == NONE \notin [status : {"creating", "ready", "failed"},
                                      owner : Users \union {NONE}, port : Ports \union {NONE}]

VARIABLES
    rows,       \* workspace_creations: status, owner and port
    serving,    \* which workspace's container listens on each port
    claims,     \* create requests in flight: those of a user for a workspace
    trip,       \* the requests
    racers      \* history: who asked to create what before it was ready

wpVars == <<rows, serving, claims, trip, racers>>
tables == <<rows, serving, claims, racers>>

TripPc == {"idle", "owner", "handler", "resolve", "send", "sent"}
Row == [status: {"creating", "ready", "failed"}, owner: Users \union {NONE},
        port: Ports \union {NONE}]
NoTrip == [pc |-> "idle", by |-> NONE, call |-> NoCall, owns |-> NONE, port |-> NONE,
           profile |-> NONE, reached |-> NONE, stale |-> FALSE]

InitProxies ==
    /\ rows = [w \in Workspaces |-> NONE]
    /\ serving = [p \in Ports |-> NONE]
    /\ claims = {} /\ racers = {}
    /\ trip = [r \in Proxies |-> NoTrip]

------------------------------------------------------------------------------
(* The request *)

In(r, pc) == trip[r].pc = pc
Step(r, pc) == trip' = [trip EXCEPT ![r] = [@ EXCEPT !.pc = pc]]
Reply(r) == trip' = [trip EXCEPT ![r] = NoTrip]
Named(r) == WorkspaceId(trip[r].call.path)

Owns(u, w) == w \in Workspaces /\ rows[w] # NONE /\ rows[w].owner = u

(* A user's request that GatewaySessions let pass; the routes without a    *)
(* session carry no user.  The profile cookie, of the agent visited before,*)
(* matters where an agent may be named.                                    *)
Enter(r, u, call, old) ==
    /\ In(r, "idle") /\ (TakesAgent(call.path) \/ old = NONE)
    /\ trip' = [trip EXCEPT ![r] =
          [NoTrip EXCEPT !.pc = IF IsExempt(call.path) \/ WorkspaceId(call.path) = NONE
                                THEN "handler" ELSE "owner",
                         !.by = IF IsExempt(call.path) THEN NONE ELSE u,
                         !.call = call, !.profile = old]]
    /\ UNCHANGED tables

(* The workspace is the user's, or it is not found.                        *)
RequireOwner(r) ==
    LET u == trip[r].by
        w == Named(r) IN
    /\ In(r, "owner")
    /\ \/ Owns(u, w) /\ trip' = [trip EXCEPT ![r] = [@ EXCEPT !.owns = w, !.pc = "handler"]]
       \/ (~Owns(u, w) \/ May("database")) /\ Reply(r)
    /\ UNCHANGED tables

(* The routing.  The browser's proxy asks the container for its bearer     *)
(* first, which may be refused; commands judge the agent before they look  *)
(* the workspace up, chat judges it after that.                            *)
Dispatch(r) ==
    LET call == trip[r].call
        h == Handler(call.path) IN
    /\ In(r, "handler")
    /\ CASE h = "gateway" -> Reply(r)
         [] h = "backend" -> Step(r, "send")
         [] h = "browser" -> Reply(r) \/ (BrowserAction(call.path) /\ Step(r, "resolve"))
         [] h = "commands" /\ Refused(call) -> Reply(r)
         [] OTHER -> Step(r, "resolve")
    /\ UNCHANGED tables

Ready(w) == w \in Workspaces /\ rows[w] # NONE /\ rows[w].status = "ready"

(* Its row says ready, though no container of it listens. *)
Down(w) == rows[w].status = "ready" /\ \A p \in Ports : serving[p] # w

(* Whatever the row's status *)
ResolveUnready(r) ==
    LET call == trip[r].call
        w == Named(r) IN
    /\ In(r, "resolve")
    /\ IF w \in Workspaces /\ rows[w] # NONE /\ rows[w].port # NONE /\ ~Refused(call)
       THEN trip' = [trip EXCEPT ![r] =
                [@ EXCEPT !.port = rows[w].port, !.pc = "send", !.stale = Down(w),
                          !.profile = Profile(call, trip[r].profile)]]
       ELSE Reply(r)
    /\ UNCHANGED tables

(* resolve_ready_workspace, and for chat the agent's cookie after it       *)
Resolve(r) ==
    LET call == trip[r].call
        w == Named(r) IN
    /\ In(r, "resolve")
    /\ \/ /\ Ready(w) /\ rows[w].port # NONE /\ ~Refused(call)
          /\ trip' = [trip EXCEPT ![r] =
                [@ EXCEPT !.port = rows[w].port, !.pc = "send", !.stale = Down(w),
                          !.profile = Profile(call, trip[r].profile)]]
       \/ ~Ready(w) /\ Reply(r)
       \/ (Refused(call) \/ May("database")) /\ Reply(r)
    /\ UNCHANGED tables

(* forward_to: who listens on the port by now gets the request, or nobody  *)
(* does and the answer is 502.                                             *)
ForwardTo(r) ==
    LET p == trip[r].port IN
    /\ In(r, "send")
    /\ \/ /\ p # NONE => serving[p] # NONE
          /\ trip' = [trip EXCEPT ![r] =
                [@ EXCEPT !.pc = "sent", !.reached = IF p = NONE THEN NONE ELSE serving[p]]]
       \/ (May("upstream") \/ (p # NONE /\ serving[p] = NONE)) /\ Reply(r)
    /\ UNCHANGED tables

(* The upstream's answer is streamed to the browser, or the browser goes   *)
(* away at any time before, and the handler with it.                       *)
Finish(r) == ~In(r, "idle") /\ Reply(r) /\ UNCHANGED tables

------------------------------------------------------------------------------
(* The workspaces behind it: what WorkspaceLifecycle does to the rows,     *)
(* reduced to what the proxies read                                        *)

Fresh(w) == \A u \in Users : <<u, w>> \notin racers

(* No check that the name is taken *)
BeginCreateUnchecked(u, w) ==
    /\ rows[w] = NONE => Fresh(w)
    /\ claims' = claims \union {<<u, w>>}
    /\ IF rows[w] = NONE
       THEN /\ rows' = [rows EXCEPT ![w] = [status |-> "creating", owner |-> NONE, port |-> NONE]]
            /\ racers' = racers \union {<<u, w>>}
       ELSE UNCHANGED <<rows, racers>>
    /\ UNCHANGED <<trip, serving>>

(* create_workspace_route_inner: a name that is ready is taken; one that   *)
(* is being created or has failed is created again, whoever began it.      *)
BeginCreate(u, w) ==
    /\ rows[w] = NONE => Fresh(w)
    /\ rows[w] # NONE => rows[w].status # "ready"
    /\ claims' = claims \union {<<u, w>>}
    /\ racers' = racers \union {<<u, w>>}
    /\ rows' = IF rows[w] = NONE
               THEN [rows EXCEPT ![w] = [status |-> "creating", owner |-> NONE, port |-> NONE]]
               ELSE rows
    /\ UNCHANGED <<trip, serving>>

Launch(w, p) ==
    /\ rows[w] # NONE /\ rows[w].status # "ready" /\ serving[p] = NONE
    /\ serving' = [q \in Ports |-> IF q = p THEN w
                                   ELSE IF serving[q] = w THEN NONE ELSE serving[q]]
    /\ rows' = [rows EXCEPT ![w] = [@ EXCEPT !.status = "ready", !.port = p]]
    /\ UNCHANGED <<trip, claims, racers>>

(* set_owner, once the workspace was launched, or the create request fails *)
SetOwner(u, w) ==
    /\ <<u, w>> \in claims
    /\ claims' = claims \ {<<u, w>>}
    /\ \/ /\ rows[w] # NONE /\ rows[w].port # NONE
          /\ rows' = [rows EXCEPT ![w] = [@ EXCEPT !.owner = u]]
       \/ UNCHANGED rows
    /\ UNCHANGED <<trip, serving, racers>>

(* The container of a workspace stops: it crashed, or it is being deleted. *)
Stop(w) ==
    /\ \E p \in Ports : serving[p] = w
    /\ serving' = [p \in Ports |-> IF serving[p] = w THEN NONE ELSE serving[p]]
    /\ trip' = [r \in Proxies |->
          IF In(r, "send") /\ Named(r) = w THEN [trip[r] EXCEPT !.stale = TRUE] ELSE trip[r]]
    /\ UNCHANGED <<rows, claims, racers>>

(* A diagnosis or a launch gives up; the row keeps its ports.              *)
MarkFailed(w) ==
    /\ rows[w] # NONE /\ \A p \in Ports : serving[p] # w
    /\ rows' = [rows EXCEPT ![w] = [@ EXCEPT !.status = "failed"]]
    /\ UNCHANGED <<trip, serving, claims, racers>>

DropRow(w) ==
    /\ rows[w] # NONE /\ \A p \in Ports : serving[p] # w
    /\ rows' = [rows EXCEPT ![w] = NONE]
    /\ UNCHANGED <<trip, serving, claims, racers>>

(* The gateway restarts; the rows and the containers stay. *)
RestartProxies ==
    /\ claims' = {}
    /\ trip' = [r \in Proxies |-> NoTrip]
    /\ UNCHANGED <<rows, serving, racers>>

Travel(r) ==
    \/ \E u \in Users, call \in Calls, old \in Agents \union {NONE} : Enter(r, u, call, old)
    \/ RequireOwner(r) \/ Dispatch(r) \/ Resolve(r)
    \/ ForwardTo(r) \/ Finish(r)

Workspace(w) ==
    \/ \E u \in Users : BeginCreate(u, w) \/ SetOwner(u, w)
    \/ \E p \in Ports : Launch(w, p)
    \/ Stop(w) \/ MarkFailed(w) \/ DropRow(w)

ProxiesNext ==
    \/ \E r \in Proxies : Travel(r)
    \/ \E w \in Workspaces : Workspace(w)
    \/ RestartProxies

ProxiesSpec == InitProxies /\ [][ProxiesNext]_wpVars

------------------------------------------------------------------------------
(* Properties *)

ProxiesTypeOK ==
    /\ rows \in [Workspaces -> Row \union {NONE}]
    /\ serving \in [Ports -> Workspaces \union {NONE}]
    /\ claims \subseteq Users \X Workspaces /\ racers \subseteq Users \X Workspaces
    /\ trip \in [Proxies -> [pc : TripPc, by : Users \union {NONE}, call : Calls \union {NoCall},
                             owns : Workspaces \union {NONE}, port : Ports \union {NONE},
                             profile : Agents \union {NONE, BadAgent},
                             reached : Workspaces \union {NONE}, stale : BOOLEAN]]

(* A request that got past the session check and names a workspace, in     *)
(* whichever of the two namespaces, was found to be its owner's before any *)
(* handler or upstream sees it (middleware.rs:64-114).                     *)
OwnerWasChecked ==
    \A r \in Proxies, space \in Namespaces : LET path == trip[r].call.path IN
        /\ trip[r].pc \in {"handler", "resolve", "send", "sent"}
        /\ ~IsExempt(path) /\ Under(space, path)
        => trip[r].owns = path[Len(space) + 1]

(* What is sent to a workspace arrives as it was asked for: at the         *)
(* container of the workspace that it names, or at another one only if its *)
(* own has stopped, behind the row's back or since the port was read; and  *)
(* with the agent it names, not the one visited before, never a malformed  *)
(* one (resolve.rs:54-80, forward.rs:111, agent_cookie.rs:85-130).         *)
ReachesNamed(r) ==
    trip[r].reached # NONE => trip[r].reached = Named(r) \/ trip[r].stale
AgentAsAsked(r) ==
    LET call == trip[r].call IN
    TakesAgent(call.path) /\ call.agent # NONE
        => trip[r].profile = call.agent /\ call.agent \in Agents
ArrivesAsAsked == \A r \in Proxies : In(r, "sent") => ReachesNamed(r) /\ AgentAsAsked(r)

(* A workspace changes hands only to someone who asked for its name while  *)
(* it was not ready (create.rs:82-112, store.rs set_owner).                *)
ChangesHandsToRacers ==
    [][\A w \in Workspaces :
          rows[w] # NONE /\ rows'[w] # NONE /\ rows'[w].owner # rows[w].owner
          => <<rows'[w].owner, w>> \in racers]_wpVars
==============================================================================
