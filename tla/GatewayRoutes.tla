----------------------------- MODULE GatewayRoutes -----------------------------
(***************************************************************************)
(* The routing table of the gateway (app.rs, integrations/route.rs,        *)
(* catalog.rs, auth/middleware.rs) and what the proxies make of a request  *)
(* (workspaces/proxy).  A path is the sequence of its segments.            *)
(***************************************************************************)
EXTENDS Naturals, Sequences, FiniteSets, SequencesExt

CONSTANTS
    Users,          \* Google accounts, each with one browser
    Workspaces,     \* workspace ids
    Agents,         \* well-formed agent names
    Calls,          \* what may be asked for: records of path and agent
    Failing,        \* what may fail: of google, database and upstream
    NONE            \* nobody, nothing

BadAgent == "bad"       \* an ?agent= that is not a well-formed name

ASSUME FailingAssumption == Failing \subseteq {"google", "database", "upstream"}
ASSUME NobodyAssumption == NONE \notin Users \union Workspaces \union Agents
ASSUME CallsAssumption == \A call \in Calls :
    /\ call.path \in Seq({call.path[i] : i \in DOMAIN call.path})
    /\ \A i \in DOMAIN call.path : call.path[i] # NONE
    /\ call.agent \in Agents \union {NONE, BadAgent}

NoCall == [path |-> <<>>, agent |-> NONE]
May(system) == system \in Failing

Under(prefix, path) == Len(path) > Len(prefix) /\ IsPrefix(prefix, path)

(* Routes without a session: the login, the OAuth callback, and those that *)
(* a container calls with a bearer of its own.                             *)
IsExempt(path) ==
    \/ Under(<<"auth">>, path)
    \/ path = <<"oauth", "callback">>
    \/ Under(<<"workspaces">>, path) /\ Last(path) = "mcp"
    \/ Under(<<"workspaces">>, path) /\ \E i \in 3..(Len(path) - 1) : path[i] = "browser"

(* Only the historical namespace, as before the /api alias was covered *)
WorkspaceIdWithoutApi(path) ==
    IF Under(<<"workspaces">>, path) THEN path[2] ELSE NONE

(* The workspace that a path names, in either namespace *)
WorkspaceId(path) ==
    IF Under(<<"workspaces">>, path) THEN path[2]
    ELSE IF Under(<<"api", "workspaces">>, path) THEN path[3]
    ELSE NONE

Namespaces == {<<"workspaces">>, <<"api", "workspaces">>}
Wrapped == {"onboarding", "agent-seeder", "agent-history", "commands"}
Mounted == {"chat", "hermes-webui"}

(* What the gateway answers itself *)
Answers(path) ==
    \/ Under(<<"integrations">>, path) \/ path = <<"workspaces">>
    \/ /\ Under(<<"workspaces">>, path)
       /\ Len(path) = 2 \/ path[3] \in {"diagnose", "integrations", "mcp"}
    \/ Under(<<"api", "workspaces">>, path) /\ SubSeq(path, 4, Len(path)) = <<"integrations">>

(* register_workspace_proxy_pair: the root of a proxy, and what is below it*)
(* (the last segment of a path may be empty)                               *)
ProxyPair(segment, path) ==
    Under(<<"workspaces">>, path) /\ Len(path) > 3 /\ path[3] = segment

(* The routing table: what answers a path, the legacy backend if nothing   *)
(* else does.                                                              *)
Handler(path) ==
    CASE Answers(path) -> "gateway"
      [] \E s \in Wrapped \union Mounted \union {"desktop"} : ProxyPair(s, path) -> path[3]
      [] Under(<<"workspaces">>, path) /\ SubSeq(path, 3, Len(path)) = <<"commands">> -> "commands"
      [] Under(<<"workspaces">>, path) /\ Len(path) = 5 /\ path[3] = "browser" -> "browser"
      [] OTHER -> "backend"

BrowserAction(path) == Last(path) \in {"start", "stop", "status"}

(* inject_agent_cookie: an ?agent= replaces the profile cookie, if it is a *)
(* well-formed name.                                                       *)
TakesAgent(path) == Handler(path) \in {"chat", "commands"}
Refused(call) == TakesAgent(call.path) /\ call.agent = BadAgent

(* An older profile cookie stays. *)
ProfileKeepingOld(call, old) ==
    IF TakesAgent(call.path) /\ call.agent # NONE /\ old = NONE THEN call.agent ELSE old

Profile(call, old) ==
    IF TakesAgent(call.path) /\ call.agent # NONE THEN call.agent ELSE old
==============================================================================
