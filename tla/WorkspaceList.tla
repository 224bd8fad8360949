------------------------------ MODULE WorkspaceList ------------------------------
(***************************************************************************)
(* GET /workspaces (workspaces/route/list.rs): a page of a user's rows, of *)
(* which those that are ready are asked for their health, all at once,     *)
(* while creates and deletes go on.                                        *)
(*                                                                         *)
(* Abstractions.  The rows' order, newest first, is any; limit and offset  *)
(* have their defaults already.  A request is one of many that share       *)
(* nothing.                                                                *)
(***************************************************************************)
EXTENDS WorkspaceProxies, Integers

CONSTANTS
    Pages,          \* what may be asked for: records of limit, offset and health
    MaxListLimit    \* MAX_LIST_LIMIT

ASSUME PagesAssumption ==
    /\ MaxListLimit \in Nat
    /\ \A page \in Pages : page.limit \in Int /\ page.offset \in Int
                           /\ page.health \in {"live", "skip", "other"}

VARIABLE listing        \* the request, and as history who answered its checks

wlVars == <<listing, wpVars>>

NoListing == [pc |-> "idle", by |-> NONE, page |-> NONE, items |-> <<>>, checks |-> {},
              healthy |-> <<>>, answered |-> [w \in Workspaces |-> NONE], stale |-> {}]

InitList == listing = NoListing /\ InitProxies

------------------------------------------------------------------------------
Lists(pc) == listing.pc = pc
Tell(reply) == listing' = reply /\ UNCHANGED wpVars

(* list_workspaces_route_inner judges the query before it reads anything.  *)
AskList(u, page) ==
    /\ Lists("idle")
    /\ page.limit >= 0 /\ page.offset >= 0 /\ page.health # "other"
    /\ Tell([NoListing EXCEPT !.pc = "read", !.by = u, !.page = page])

(* list_for_owner: LIMIT and OFFSET                                        *)
PageOf(page, list) ==
    LET limit == Min({page.limit, MaxListLimit})
    IN  SubSeq(list, page.offset + 1, Min({page.offset + limit, Len(list)}))

(* The page is read, and a check is spawned for each row that is ready.    *)
ReadPage ==
    LET page == listing.page
        mine == {w \in Workspaces : Owns(listing.by, w)}
    IN
    /\ Lists("read")
    /\ \/ \E order \in SetToSeqs(mine) :
            LET list == PageOf(page, order)
                items == [i \in DOMAIN list |-> [id |-> list[i], status |-> rows[list[i]].status,
                                                 port |-> rows[list[i]].port]]
                live == page.health = "live"
            IN Tell([listing EXCEPT !.pc = "check", !.items = items,
                    !.checks = {i \in DOMAIN items :
                        live /\ items[i].status = "ready" /\ items[i].port # NONE},
                    !.healthy = [i \in DOMAIN items |-> IF live THEN "no" ELSE "unknown"],
                    !.stale = {w \in mine : Down(w)}])
       \/ May("database") /\ Tell(NoListing)

(* The verdicts in the order in which the checks end *)
CheckInTurn(i) ==
    LET p == listing.items[i].port
        next == CHOOSE j \in DOMAIN listing.items :
                    j = 1 + Cardinality({k \in DOMAIN listing.items :
                        listing.answered[listing.items[k].id] # NONE})
    IN
    /\ Lists("check") /\ i \in listing.checks
    /\ \/ /\ serving[p] # NONE
          /\ Tell([listing EXCEPT !.checks = @ \ {i}, !.healthy[next] = "yes",
                                  !.answered[listing.items[i].id] = serving[p]])
       \/ /\ serving[p] = NONE \/ May("upstream")
          /\ Tell([listing EXCEPT !.checks = @ \ {i}])

(* check_wrapper_health_at: who listens on the port by now answers, or     *)
(* there is no answer within HEALTH_CHECK_TIMEOUT.                         *)
CheckHealth(i) ==
    LET p == listing.items[i].port IN
    /\ Lists("check") /\ i \in listing.checks
    /\ \/ /\ serving[p] # NONE
          /\ Tell([listing EXCEPT !.checks = @ \ {i}, !.healthy[i] = "yes",
                                  !.answered[listing.items[i].id] = serving[p]])
       \/ /\ serving[p] = NONE \/ May("upstream")
          /\ Tell([listing EXCEPT !.checks = @ \ {i}])

(* build_list_items, once every check has been joined                      *)
BuildListItems ==
    Lists("check") /\ listing.checks = {} /\ Tell([listing EXCEPT !.pc = "answered"])

(* The answer is sent, or the browser goes away at any time before.        *)
LeaveList == ~Lists("idle") /\ Tell(NoListing)

(* Around it, the workspaces.  A container that stops is remembered.       *)
Meanwhile(w) ==
    /\ Workspace(w)
    /\ listing' = IF Lists("check") /\ \E p \in Ports : serving[p] = w /\ serving'[p] # w
                  THEN [listing EXCEPT !.stale = @ \union {w}] ELSE listing

ListNext ==
    \/ \E u \in Users, page \in Pages : AskList(u, page)
    \/ ReadPage \/ BuildListItems \/ LeaveList
    \/ \E i \in listing.checks : CheckHealth(i)
    \/ \E w \in Workspaces : Meanwhile(w)

ListSpec == InitList /\ [][ListNext]_wlVars

------------------------------------------------------------------------------
(* Properties *)

ListTypeOK ==
    /\ listing.pc \in {"idle", "read", "check", "answered"}
    /\ listing.by \in Users \union {NONE} /\ listing.page \in Pages \union {NONE}
    /\ DOMAIN listing.healthy = DOMAIN listing.items
    /\ listing.checks \subseteq DOMAIN listing.items
    /\ Len(listing.items) <= MaxListLimit

(* What a page says of a workspace's health is what the check of that very *)
(* workspace came to, whatever order the checks end in: "yes" only if the  *)
(* row was ready and its own container answered - or one that took its     *)
(* port over, if its own has stopped by then -, nothing in skip mode, and  *)
(* "no" for all the others (list.rs:166-222).                              *)
VerdictsAreTheirOwn ==
    Lists("answered") => \A i \in DOMAIN listing.items :
        LET item == listing.items[i]
            who == listing.answered[item.id]
        IN
        /\ (listing.healthy[i] = "unknown") = (listing.page.health = "skip")
        /\ (listing.healthy[i] = "yes") = (who # NONE)
        /\ who # NONE => item.status = "ready" /\ (who = item.id \/ item.id \in listing.stale)
==============================================================================
