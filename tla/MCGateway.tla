------------------------------- MODULE MCGateway -------------------------------
(***************************************************************************)
(* The login and the session check, the proxies, the list of workspaces,   *)
(* and the routes that containers call.  They meet in the tables alone,    *)
(* which each of them changes in its own reduced way, so that TLC checks   *)
(* them in one run, over their disjoint union: a behaviour is about the one*)
(* that side names from the start, and the others stand still.             *)
(***************************************************************************)
EXTENDS GatewaySessions, WorkspaceList, McpProxy, TLC

(* A path of each kind, under both names of a workspace; of the agents,    *)
(* one that is well-formed and one that is not.                            *)
ACall(path, agent) == [path |-> path, agent |-> agent]
MCCalls ==
    LET agent == CHOOSE a \in Agents : TRUE IN
    UNION {{ACall(<<"workspaces", w, "chat", "stream">>, NONE),
            ACall(<<"workspaces", w, "chat", "stream">>, agent),
            ACall(<<"workspaces", w, "commands">>, BadAgent),
            ACall(<<"workspaces", w, "browser", "b", "start">>, NONE),
            ACall(<<"api", "workspaces", w, "integrations">>, NONE)} : w \in Workspaces}
    \union {ACall(<<"models">>, NONE)}

(* A batch, an action that is not on its provider's list, and one that is, *)
(* in the name of whichever connection.                                    *)
Tool(action, connection, alias) ==
    [NoRequest EXCEPT !.method = "tools/call", !.tool = "execute_action", !.action = action,
                      !.connection = connection, !.alias = alias]
Action(s, n) == [service |-> s, name |-> n]
MCRequests ==
    {[NoRequest EXCEPT !.shape = "batch"], Tool(Action("github", "drop"), NONE, NONE)}
    \union {Tool(Action("github", "get"), w, v) : w, v \in Workspaces}
MCProviders == <<[service |-> "slack", actions |-> {}], [service |-> "github", actions |-> {"get"}]>>

(* Both rows, the second one alone, a limit beyond the greatest, and pages *)
(* that are refused.                                                       *)
APage(limit, offset, health) == [limit |-> limit, offset |-> offset, health |-> health]
MCPages == {APage(3, 0, "live"), APage(1, 1, "live"), APage(2, 0, "skip"),
            APage(-1, 0, "live"), APage(1, -1, "live"), APage(1, 0, "other")}

(* Races of creates are for the proxies; the list has one at a time.       *)
OneClaim == Cardinality(claims') <= 1

VARIABLE side

vars == <<side, gwVars, wlVars, mcpVars>>

Init ==
    /\ InitSessions /\ InitList /\ InitMcp
    /\ side \in {"sessions", "proxies", "list", "mcp"}

Next ==
    \/ side = "sessions" /\ SessionsNext /\ UNCHANGED <<side, wlVars, mcpVars>>
    \/ side = "proxies" /\ ProxiesNext /\ UNCHANGED <<side, listing, gwVars, mcpVars>>
    \/ side = "list" /\ ListNext /\ OneClaim /\ UNCHANGED <<side, gwVars, mcpVars>>
    \/ side = "mcp" /\ McpNext /\ UNCHANGED <<side, gwVars, wlVars>>

Spec == Init /\ [][Next]_vars

TypesOK == SessionsTypeOK /\ ProxiesTypeOK /\ ListTypeOK /\ McpTypeOK

Symmetry ==
    Permutations(Users) \union Permutations(Workspaces) \union Permutations(Tokens)
        \union Permutations(Handlers)
==============================================================================
