------------------------- MODULE WorkspaceProxiesProofs -------------------------
(***************************************************************************)
(* What holds of the proxies for any number of users, workspaces, ports,   *)
(* requests and paths, whatever fails and whatever becomes of the          *)
(* workspaces while a request is on its way; and of the list, for any page *)
(* and any order in which its checks end.                                  *)
(***************************************************************************)
EXTENDS WorkspaceList, FiniteSetTheorems, SequenceTheorems, TLAPS

Past == {"handler", "resolve", "send", "sent"}
Trip == [pc : TripPc, by : Users \union {NONE}, call : Calls \union {NoCall},
         owns : Workspaces \union {NONE}, port : Ports \union {NONE},
         profile : Agents \union {NONE, BadAgent}, reached : Workspaces \union {NONE}, stale : BOOLEAN]

(* Whoever is past the check of the owner owns what the path names.        *)
CheckedOK(q) == LET path == q.call.path IN
    q.pc \in Past /\ ~IsExempt(path) /\ WorkspaceId(path) # NONE => q.owns = WorkspaceId(path)

(* A port that is about to be sent to is that of the workspace named, or   *)
(* has been lost since; and so is what was reached over it.                *)
PortOK(q) == LET w == WorkspaceId(q.call.path) IN
    /\ q.pc \in {"owner", "handler", "resolve"} => q.port = NONE
    /\ q.pc = "send" /\ q.port # NONE => w \in Workspaces /\ (serving[q.port] = w \/ q.stale)
    /\ q.reached # NONE => q.pc = "sent" /\ (q.reached = w \/ q.stale)

(* The agent's cookie is set before anything is sent.                      *)
AgentOK(q) ==
    q.pc \in {"send", "sent"} /\ TakesAgent(q.call.path) /\ q.call.agent # NONE =>
        q.profile = q.call.agent /\ q.call.agent \in Agents

TripOK(q) == (q.pc # "idle" => q.call \in Calls) /\ CheckedOK(q) /\ PortOK(q) /\ AgentOK(q)
TripsOK == \A r \in Proxies : TripOK(trip[r])

(* What listens on a port is the workspace whose row is ready with it.     *)
ServingIsReady ==
    \A p \in Ports : LET w == serving[p] IN
        w # NONE => rows[w] # NONE /\ rows[w].status = "ready" /\ rows[w].port = p
ClaimsAreRacers == claims \subseteq racers

ProxyTablesOK ==
    /\ rows \in [Workspaces -> Row \union {NONE}]
    /\ serving \in [Ports -> Workspaces \union {NONE}]
    /\ claims \subseteq Users \X Workspaces /\ racers \subseteq Users \X Workspaces

ProxiesInv ==
    /\ ProxyTablesOK /\ trip \in [Proxies -> Trip]
    /\ TripsOK /\ ServingIsReady /\ ClaimsAreRacers

LEMMA ProxiesInvTypes == ProxiesInv => ProxiesTypeOK
  BY DEF ProxiesInv, ProxyTablesOK, Trip, ProxiesTypeOK

------------------------------------------------------------------------------
(* Paths *)

(* The two namespaces exclude each other, and each names its workspace.    *)
LEMMA NamedBySpace ==
    ASSUME NEW call \in Calls, NEW space \in Namespaces, Under(space, call.path)
    PROVE  /\ WorkspaceId(call.path) = call.path[Len(space) + 1]
           /\ WorkspaceId(call.path) # NONE
<1> DEFINE path == call.path
<1>1. path \in Seq({path[i] : i \in DOMAIN path}) /\ \A i \in DOMAIN path : path[i] # NONE
  BY CallsAssumption
<1>2. Len(path) \in Nat /\ DOMAIN path = 1..Len(path)
  BY <1>1
<1>3. CASE space = <<"workspaces">>
  <2>1. Len(space) = 1 /\ Len(path) > 1
    BY <1>3 DEF Under
  <2> QED
    BY <1>1, <1>2, <1>3, <2>1 DEF WorkspaceId
<1>4. CASE space = <<"api", "workspaces">>
  <2>1. Len(space) = 2 /\ Len(path) > 2 /\ SubSeq(space, 1, 2) = SubSeq(path, 1, 2)
    BY <1>4 DEF Under, IsPrefix
  <2>2. SubSeq(path, 1, 2)[1] = path[1] /\ SubSeq(space, 1, 2)[1] = "api"
    BY <1>1, <1>2, <1>4, <2>1
  <2>3. ~Under(<<"workspaces">>, path)
    <3>1. SUFFICES ASSUME Under(<<"workspaces">>, path) PROVE FALSE
      OBVIOUS
    <3>2. SubSeq(<<"workspaces">>, 1, 1) = SubSeq(path, 1, 1)
      BY <3>1 DEF Under, IsPrefix
    <3>3. SubSeq(path, 1, 1)[1] = path[1] /\ SubSeq(<<"workspaces">>, 1, 1)[1] = "workspaces"
      BY <1>1, <1>2, <2>1
    <3> QED
      BY <2>1, <2>2, <3>2, <3>3
  <2> QED
    BY <1>1, <1>2, <1>4, <2>1, <2>3 DEF WorkspaceId
<1> QED
  BY <1>3, <1>4 DEF Namespaces

------------------------------------------------------------------------------
(* The request *)

LEMMA NoTripType == NoTrip \in Trip /\ NoTrip.pc = "idle" /\ TripOK(NoTrip)
<1>1. NoTrip \in Trip
  BY DEF NoTrip, Trip, TripPc
<1>2. NoTrip.pc = "idle" /\ NoTrip.reached = NONE
  BY DEF NoTrip
<1> QED
  BY <1>1, <1>2 DEF TripOK, CheckedOK, PortOK, AgentOK, Past

LEMMA InitProxiesInv == InitProxies => ProxiesInv
  BY NoTripType DEF InitProxies, ProxiesInv, ProxyTablesOK, TripsOK, ServingIsReady, ClaimsAreRacers

(* A step of one request that leaves the tables alone                      *)
LEMMA OneTrip ==
    ASSUME ProxiesInv, NEW r \in Proxies, NEW q \in Trip, TripOK(q),
           trip' = [trip EXCEPT ![r] = q], UNCHANGED tables
    PROVE  ProxiesInv'
<1>1. trip' \in [Proxies -> Trip] /\ \A s \in Proxies : trip'[s] = IF s = r THEN q ELSE trip[s]
  BY DEF ProxiesInv
<1>2. ASSUME NEW s \in Proxies PROVE TripOK(trip[s])'
  <2>1. TripOK(trip'[s])
    BY <1>1 DEF ProxiesInv, TripsOK
  <2> QED
    BY <2>1 DEF TripOK, CheckedOK, PortOK, AgentOK, tables
<1> QED
  BY <1>1, <1>2 DEF ProxiesInv, ProxyTablesOK, TripsOK, ServingIsReady, ClaimsAreRacers, tables

LEMMA Replied == ASSUME ProxiesInv, NEW r \in Proxies, Reply(r), UNCHANGED tables PROVE ProxiesInv'
  BY OneTrip, NoTripType DEF Reply

LEMMA EnterStep ==
    ASSUME ProxiesInv, NEW r \in Proxies, NEW u \in Users, NEW call \in Calls,
           NEW old \in Agents \union {NONE}, Enter(r, u, call, old)
    PROVE  ProxiesInv'
<1> DEFINE p == IF IsExempt(call.path) \/ WorkspaceId(call.path) = NONE THEN "handler" ELSE "owner"
           b == IF IsExempt(call.path) THEN NONE ELSE u
           q == [NoTrip EXCEPT !.pc = p, !.by = b, !.call = call, !.profile = old]
<1>1. trip' = [trip EXCEPT ![r] = q] /\ UNCHANGED tables
  BY DEF Enter
<1>2. p \in TripPc /\ b \in Users \union {NONE}
  BY DEF TripPc
<1>3. q \in Trip /\ q.pc = p /\ q.call = call /\ q.reached = NONE /\ q.port = NONE
  <2> HIDE DEF p, b
  <2> QED
    BY <1>2, NoTripType DEF Trip, NoTrip
<1> HIDE DEF q
<1>4. TripOK(q)
  BY <1>3 DEF TripOK, CheckedOK, PortOK, AgentOK, Past
<1> QED
  BY <1>1, <1>3, <1>4, OneTrip

LEMMA OwnerStep == ASSUME ProxiesInv, NEW r \in Proxies, RequireOwner(r) PROVE ProxiesInv'
<1> DEFINE w == Named(r)
           q == [trip[r] EXCEPT !.owns = w, !.pc = "handler"]
<1>1. trip[r] \in Trip /\ TripOK(trip[r]) /\ trip[r].pc = "owner" /\ UNCHANGED tables
  BY DEF ProxiesInv, TripsOK, RequireOwner, In
<1>2. CASE Owns(trip[r].by, w) /\ trip' = [trip EXCEPT ![r] = q]
  <2>1. w \in Workspaces
    BY <1>2 DEF Owns
  <2>2. q \in Trip
    BY <1>1, <2>1 DEF Trip, TripPc
  <2>3. q.pc = "handler" /\ q.owns = w /\ q.call = trip[r].call /\ q.reached = trip[r].reached
        /\ q.port = trip[r].port
    BY <1>1 DEF Trip
  <2> HIDE DEF q
  <2>4. TripOK(q)
    BY <1>1, <2>3 DEF TripOK, CheckedOK, PortOK, AgentOK, Named
  <2> QED
    BY <1>1, <1>2, <2>2, <2>4, OneTrip
<1>3. CASE Reply(r)
  BY <1>1, <1>3, Replied
<1> QED
  BY <1>2, <1>3 DEF RequireOwner

(* Nothing that may name an agent goes to the backend.                     *)
LEMMA BackendTakesNoAgent == \A path : Handler(path) = "backend" => ~TakesAgent(path)
  BY DEF TakesAgent

LEMMA Stepped ==
    ASSUME ProxiesInv, NEW r \in Proxies, NEW pc \in {"send", "resolve"}, In(r, "handler"),
           pc = "send" => ~TakesAgent(trip[r].call.path),
           Step(r, pc), UNCHANGED tables
    PROVE  ProxiesInv'
<1> DEFINE q == [trip[r] EXCEPT !.pc = pc]
<1>1. trip[r] \in Trip /\ TripOK(trip[r]) /\ trip[r].pc = "handler"
  BY DEF ProxiesInv, TripsOK, In
<1>2. q \in Trip
  BY <1>1 DEF Trip, TripPc
<1>3. q.pc = pc /\ q.call = trip[r].call /\ q.owns = trip[r].owns /\ q.reached = trip[r].reached
      /\ q.port = trip[r].port
  BY <1>1 DEF Trip
<1>4. trip' = [trip EXCEPT ![r] = q]
  BY DEF Step
<1> HIDE DEF q
<1>5. TripOK(q)
  BY <1>1, <1>3 DEF TripOK, CheckedOK, PortOK, AgentOK, Past
<1> QED
  BY <1>2, <1>4, <1>5, OneTrip

LEMMA DispatchStep == ASSUME ProxiesInv, NEW r \in Proxies, Dispatch(r) PROVE ProxiesInv'
<1>1. In(r, "handler") /\ UNCHANGED tables
  BY DEF Dispatch
<1>2. CASE Handler(trip[r].call.path) = "backend"
  BY <1>1, <1>2, Stepped, BackendTakesNoAgent DEF Dispatch
<1>3. CASE Handler(trip[r].call.path) # "backend"
  <2>1. Reply(r) \/ Step(r, "resolve")
    BY <1>3 DEF Dispatch
  <2> QED
    BY <1>1, <2>1, Replied, Stepped
<1> QED
  BY <1>2, <1>3

LEMMA ResolveStep == ASSUME ProxiesInv, NEW r \in Proxies, Resolve(r) PROVE ProxiesInv'
<1> DEFINE call == trip[r].call
           w == Named(r)
           port == rows[w].port
           stale == Down(w)
           profile == Profile(call, trip[r].profile)
           q == [trip[r] EXCEPT !.port = port, !.pc = "send", !.stale = stale, !.profile = profile]
<1>1. trip[r] \in Trip /\ TripOK(trip[r]) /\ trip[r].pc = "resolve" /\ call \in Calls
      /\ UNCHANGED tables /\ ProxyTablesOK
  BY DEF ProxiesInv, TripsOK, TripOK, Resolve, In
<1>2. CASE Reply(r)
  BY <1>1, <1>2, Replied
<1>3. CASE /\ Ready(w) /\ port # NONE /\ ~Refused(call)
           /\ trip' = [trip EXCEPT ![r] = q]
  <2>1. w \in Workspaces /\ rows[w] # NONE /\ rows[w].status = "ready" /\ port \in Ports
    BY <1>1, <1>3 DEF Ready, ProxyTablesOK, Row
  <2>2. call.agent \in Agents \union {NONE, BadAgent} /\ (TakesAgent(call.path) => call.agent # BadAgent)
    BY <1>1, <1>3, CallsAssumption DEF Refused
  <2>3. profile \in Agents \union {NONE, BadAgent}
        /\ (TakesAgent(call.path) /\ call.agent # NONE => profile = call.agent /\ call.agent \in Agents)
    BY <1>1, <2>2 DEF Profile, Trip
  <2>4. stale \in BOOLEAN
    BY DEF Down
  <2>5. q \in Trip
    <3> HIDE DEF port, stale, profile
    <3> QED
      BY <1>1, <2>1, <2>3, <2>4 DEF Trip, TripPc
  <2>6. q.pc = "send" /\ q.call = call /\ q.owns = trip[r].owns /\ q.reached = trip[r].reached
        /\ q.port = port /\ q.profile = profile /\ (q.stale <=> stale)
    <3> HIDE DEF port, stale, profile
    <3> QED
      BY <1>1 DEF Trip
  <2>7. serving[port] = w \/ stale
    <3>1. SUFFICES ASSUME ~stale PROVE serving[port] = w
      OBVIOUS
    <3>2. PICK p \in Ports : serving[p] = w
      BY <2>1, <3>1 DEF Down
    <3>3. rows[w].port = p
      BY <2>1, <3>2, NobodyAssumption DEF ProxiesInv, ServingIsReady
    <3> QED
      BY <3>2, <3>3
  <2> HIDE DEF q, profile, stale, port
  <2>8. TripOK(q)
    BY <1>1, <2>1, <2>3, <2>6, <2>7 DEF TripOK, CheckedOK, PortOK, AgentOK, Past, Named
  <2> QED
    BY <1>1, <1>3, <2>5, <2>8, OneTrip
<1> QED
  BY <1>2, <1>3 DEF Resolve

LEMMA ForwardStep == ASSUME ProxiesInv, NEW r \in Proxies, ForwardTo(r) PROVE ProxiesInv'
<1> DEFINE p == trip[r].port
           reached == IF p = NONE THEN NONE ELSE serving[p]
           q == [trip[r] EXCEPT !.pc = "sent", !.reached = reached]
<1>1. trip[r] \in Trip /\ TripOK(trip[r]) /\ trip[r].pc = "send" /\ UNCHANGED tables /\ ProxyTablesOK
  BY DEF ProxiesInv, TripsOK, ForwardTo, In
<1>2. CASE Reply(r)
  BY <1>1, <1>2, Replied
<1>3. CASE trip' = [trip EXCEPT ![r] = q]
  <2>1. p \in Ports \union {NONE} /\ reached \in Workspaces \union {NONE}
        /\ (reached # NONE => reached = serving[p] /\ p # NONE)
    BY <1>1 DEF Trip, ProxyTablesOK
  <2> HIDE DEF reached
  <2>2. q \in Trip
    BY <1>1, <2>1 DEF Trip, TripPc
  <2>3. q.pc = "sent" /\ q.call = trip[r].call /\ q.owns = trip[r].owns /\ q.reached = reached
        /\ q.profile = trip[r].profile /\ (q.stale <=> trip[r].stale)
    BY <1>1 DEF Trip
  <2> HIDE DEF q
  <2>4. TripOK(q)
    BY <1>1, <2>1, <2>3 DEF TripOK, CheckedOK, PortOK, AgentOK, Past
  <2> QED
    BY <1>1, <1>3, <2>2, <2>4, OneTrip
<1> QED
  BY <1>2, <1>3 DEF ForwardTo

LEMMA TravelStep == ASSUME ProxiesInv, NEW r \in Proxies, Travel(r) PROVE ProxiesInv'
<1>1. CASE Finish(r)
  BY <1>1, Replied DEF Finish
<1> QED
  BY <1>1, EnterStep, OwnerStep, DispatchStep, ResolveStep, ForwardStep DEF Travel

------------------------------------------------------------------------------
(* The workspaces *)

(* The requests bear what happens to the rows, and new owners or ports that*)
(* take nobody else's place.                                               *)
LEMMA RowsStep ==
    ASSUME ProxiesInv, ProxyTablesOK', ServingIsReady', claims' \subseteq racers', trip' = trip,
           \A p \in Ports : serving[p] # NONE => serving'[p] = serving[p]
    PROVE  ProxiesInv'
<1>1. ASSUME NEW r \in Proxies PROVE TripOK(trip[r])'
  <2>1. TripOK(trip[r]) /\ trip[r] \in Trip
    BY DEF ProxiesInv, TripsOK
  <2>2. trip[r].port \in Ports \union {NONE}
    BY <2>1 DEF Trip
  <2> QED
    BY <2>1, <2>2, NobodyAssumption DEF TripOK, CheckedOK, PortOK, AgentOK
<1> QED
  BY <1>1 DEF ProxiesInv, TripsOK, ClaimsAreRacers

LEMMA BeginStep ==
    ASSUME ProxiesInv, NEW u \in Users, NEW w \in Workspaces, BeginCreate(u, w) PROVE ProxiesInv'
<1> DEFINE row == [status |-> "creating", owner |-> NONE, port |-> NONE]
<1>1. serving' = serving /\ trip' = trip
      /\ claims' = claims \union {<<u, w>>} /\ racers' = racers \union {<<u, w>>}
      /\ rows' = IF rows[w] = NONE THEN [rows EXCEPT ![w] = row] ELSE rows
  BY DEF BeginCreate
<1>2. row \in Row
  BY DEF Row
<1> HIDE DEF row
<1>3. ProxyTablesOK' /\ ServingIsReady' /\ claims' \subseteq racers'
  BY <1>1, <1>2 DEF ProxiesInv, ProxyTablesOK, ServingIsReady, ClaimsAreRacers
<1> QED
  BY <1>1, <1>3, RowsStep

LEMMA LaunchStep ==
    ASSUME ProxiesInv, NEW w \in Workspaces, NEW p \in Ports, Launch(w, p) PROVE ProxiesInv'
<1> DEFINE row == [rows[w] EXCEPT !.status = "ready", !.port = p]
<1>1. /\ rows[w] \in Row /\ rows[w].status # "ready" /\ serving[p] = NONE
      /\ rows' = [rows EXCEPT ![w] = row] /\ UNCHANGED <<trip, claims, racers>>
      /\ serving' = [q \in Ports |-> IF q = p THEN w
                                     ELSE IF serving[q] = w THEN NONE ELSE serving[q]]
  BY DEF Launch, ProxiesInv, ProxyTablesOK
<1>2. \A q \in Ports : serving[q] # w
  BY <1>1, NobodyAssumption DEF ProxiesInv, ServingIsReady
<1>3. row \in Row /\ row.status = "ready" /\ row.port = p
  BY <1>1 DEF Row
<1> HIDE DEF row
<1>4. rows' \in [Workspaces -> Row \union {NONE}] /\ rows'[w] = row
      /\ \A v \in Workspaces : v # w => rows'[v] = rows[v]
  BY <1>1, <1>3 DEF ProxiesInv, ProxyTablesOK
<1>5. serving' \in [Ports -> Workspaces \union {NONE}] /\ serving'[p] = w
      /\ \A q \in Ports : q # p => serving'[q] = serving[q]
  BY <1>1, <1>2 DEF ProxiesInv, ProxyTablesOK
<1>6. row # NONE
  BY <1>3, NoRowAssumption DEF Row
<1>7. ProxyTablesOK' /\ ServingIsReady' /\ claims' \subseteq racers'
  BY <1>1, <1>2, <1>3, <1>4, <1>5, <1>6 DEF ProxiesInv, ProxyTablesOK, ServingIsReady, ClaimsAreRacers
<1> QED
  BY <1>1, <1>5, <1>7, RowsStep

LEMMA SetOwnerStep ==
    ASSUME ProxiesInv, NEW u \in Users, NEW w \in Workspaces, SetOwner(u, w) PROVE ProxiesInv'
<1> DEFINE row == [rows[w] EXCEPT !.owner = u]
<1>1. claims' = claims \ {<<u, w>>} /\ UNCHANGED <<trip, serving, racers>>
  BY DEF SetOwner
<1>2. CASE rows' = rows
  BY <1>1, <1>2, RowsStep DEF ProxiesInv, ProxyTablesOK, ServingIsReady, ClaimsAreRacers
<1>3. CASE rows[w] # NONE /\ rows' = [rows EXCEPT ![w] = row]
  <2>1. rows[w] \in Row
    BY <1>3 DEF ProxiesInv, ProxyTablesOK
  <2>2. row \in Row /\ row.status = rows[w].status /\ row.port = rows[w].port
    BY <2>1 DEF Row
  <2> HIDE DEF row
  <2>3. row # NONE
    BY <2>2, NoRowAssumption DEF Row
  <2>4. ProxyTablesOK' /\ ServingIsReady' /\ claims' \subseteq racers'
    BY <1>1, <1>3, <2>2, <2>3 DEF ProxiesInv, ProxyTablesOK, ServingIsReady, ClaimsAreRacers
  <2> QED
    BY <1>1, <2>4, RowsStep
<1> QED
  BY <1>2, <1>3 DEF SetOwner

LEMMA MarkStep ==
    ASSUME ProxiesInv, NEW w \in Workspaces, MarkFailed(w) \/ DropRow(w) PROVE ProxiesInv'
<1>1. UNCHANGED <<trip, serving, claims, racers>> /\ (\A p \in Ports : serving[p] # w)
      /\ rows' = [rows EXCEPT ![w] = rows'[w]] /\ rows[w] # NONE
  BY DEF MarkFailed, DropRow, ProxiesInv, ProxyTablesOK
<1>2. rows'[w] \in Row \union {NONE}
  <2>1. CASE DropRow(w)
    BY <2>1 DEF DropRow, ProxiesInv, ProxyTablesOK
  <2>2. CASE MarkFailed(w)
    <3>1. rows[w] \in Row /\ rows'[w] = [rows[w] EXCEPT !.status = "failed"]
      BY <1>1, <2>2 DEF MarkFailed, ProxiesInv, ProxyTablesOK
    <3> QED
      BY <3>1 DEF Row
  <2> QED
    BY <2>1, <2>2
<1>3. ProxyTablesOK' /\ ServingIsReady' /\ claims' \subseteq racers'
  BY <1>1, <1>2 DEF ProxiesInv, ProxyTablesOK, ServingIsReady, ClaimsAreRacers
<1> QED
  BY <1>1, <1>3, RowsStep

(* A request that was about to be sent to what has stopped is stale from   *)
(* now on, and every other one's port is as it was.                        *)
LEMMA StopStep == ASSUME ProxiesInv, NEW w \in Workspaces, Stop(w) PROVE ProxiesInv'
<1>1. UNCHANGED <<rows, claims, racers>>
      /\ serving' = [p \in Ports |-> IF serving[p] = w THEN NONE ELSE serving[p]]
  BY DEF Stop
<1>2. ProxyTablesOK' /\ ServingIsReady' /\ ClaimsAreRacers'
  BY <1>1 DEF ProxiesInv, ProxyTablesOK, ServingIsReady, ClaimsAreRacers
<1>3. ASSUME NEW r \in Proxies PROVE trip'[r] \in Trip /\ TripOK(trip[r])'
  <2> DEFINE q == [trip[r] EXCEPT !.stale = TRUE]
  <2>1. trip[r] \in Trip /\ TripOK(trip[r])
    BY DEF ProxiesInv, TripsOK
  <2>2. trip'[r] = IF In(r, "send") /\ Named(r) = w THEN q ELSE trip[r]
    BY DEF Stop
  <2>3. CASE In(r, "send") /\ Named(r) = w
    <3>1. q \in Trip
      BY <2>1 DEF Trip
    <3>2. q.pc = "send" /\ q.call = trip[r].call /\ q.owns = trip[r].owns /\ q.stale
          /\ q.reached = trip[r].reached /\ q.profile = trip[r].profile /\ q.port = trip[r].port
      BY <2>1, <2>3 DEF Trip, In
    <3> HIDE DEF q
    <3> QED
      BY <2>1, <2>2, <2>3, <3>1, <3>2 DEF TripOK, CheckedOK, PortOK, AgentOK, In
  <2>4. CASE ~(In(r, "send") /\ Named(r) = w)
    <3>1. trip'[r] = trip[r] /\ trip[r].port \in Ports \union {NONE}
      BY <2>1, <2>2, <2>4 DEF Trip
    <3>2. trip[r].pc = "send" => WorkspaceId(trip[r].call.path) # w
      BY <2>4 DEF In, Named
    <3> QED
      BY <1>1, <2>1, <3>1, <3>2 DEF TripOK, CheckedOK, PortOK, AgentOK
  <2> QED
    BY <2>3, <2>4
<1>4. trip' \in [Proxies -> Trip]
  <2>1. trip' = [r \in Proxies |-> trip'[r]]
    BY DEF Stop
  <2> QED
    BY <1>3, <2>1
<1> QED
  BY <1>2, <1>3, <1>4 DEF ProxiesInv, TripsOK

LEMMA NextProxiesInv == ProxiesInv /\ [ProxiesNext]_wpVars => ProxiesInv'
<1> SUFFICES ASSUME ProxiesInv, [ProxiesNext]_wpVars PROVE ProxiesInv'
  OBVIOUS
<1>1. ASSUME NEW w \in Workspaces, Workspace(w) PROVE ProxiesInv'
  BY <1>1, BeginStep, LaunchStep, SetOwnerStep, MarkStep, StopStep DEF Workspace
<1>2. CASE RestartProxies
  <2>1. claims' = {} /\ trip' = [r \in Proxies |-> NoTrip] /\ UNCHANGED <<rows, serving, racers>>
    BY <1>2 DEF RestartProxies
  <2>2. TripOK(NoTrip)' /\ NoTrip \in Trip
    BY NoTripType DEF TripOK, CheckedOK, PortOK, AgentOK, Past, NoTrip
  <2> QED
    BY <2>1, <2>2 DEF ProxiesInv, ProxyTablesOK, TripsOK, ServingIsReady, ClaimsAreRacers
<1>3. CASE UNCHANGED wpVars
  BY <1>3 DEF wpVars, ProxiesInv, ProxyTablesOK, TripsOK, ServingIsReady, ClaimsAreRacers, TripOK,
              CheckedOK, PortOK, AgentOK
<1> QED
  BY <1>1, <1>2, <1>3, TravelStep DEF ProxiesNext

(* The requests and the rows hold together                                 *)
THEOREM ProxiesInvariance == ProxiesSpec => []ProxiesInv
<1> QED
  BY InitProxiesInv, NextProxiesInv, PTL DEF ProxiesSpec

(* Nothing that names a workspace gets past the session check without its  *)
(* owner (middleware.rs:64-114), whatever the path.                        *)
THEOREM OwnerAlwaysChecked == ProxiesSpec => []OwnerWasChecked
<1>1. ProxiesInv => OwnerWasChecked
  <2> SUFFICES ASSUME ProxiesInv, NEW r \in Proxies, NEW space \in Namespaces,
                      trip[r].pc \in Past, ~IsExempt(trip[r].call.path),
                      Under(space, trip[r].call.path)
               PROVE  trip[r].owns = trip[r].call.path[Len(space) + 1]
    BY DEF OwnerWasChecked, Past
  <2>1. TripOK(trip[r]) /\ trip[r].call \in Calls
    BY DEF ProxiesInv, TripsOK, TripOK, Past
  <2> QED
    BY <2>1, NamedBySpace DEF TripOK, CheckedOK
<1> QED
  BY ProxiesInvariance, <1>1, PTL

(* What is sent arrives as it was asked for, unless what it was to arrive  *)
(* at has stopped (resolve.rs:54-80, forward.rs:111, agent_cookie.rs).     *)
THEOREM AlwaysArrivesAsAsked == ProxiesSpec => []ArrivesAsAsked
<1>1. ProxiesInv => ArrivesAsAsked
  BY DEF ProxiesInv, TripsOK, TripOK, PortOK, AgentOK, ArrivesAsAsked, ReachesNamed, AgentAsAsked, In, Named
<1> QED
  BY ProxiesInvariance, <1>1, PTL

(* Who becomes the owner asked for the name (create.rs:82-112).            *)
Handed == \A w \in Workspaces :
    rows[w] # NONE /\ rows'[w] # NONE /\ rows'[w].owner # rows[w].owner => <<rows'[w].owner, w>> \in racers

LEMMA StepHanded == ProxiesInv /\ [ProxiesNext]_wpVars => [Handed]_wpVars
<1> SUFFICES ASSUME ProxiesInv, ProxiesNext, NEW v \in Workspaces, rows[v] # NONE, rows'[v] # NONE,
                    rows'[v].owner # rows[v].owner
             PROVE  <<rows'[v].owner, v>> \in racers
  BY DEF Handed, wpVars
<1>1. rows \in [Workspaces -> Row \union {NONE}] /\ rows[v] \in Row
  BY DEF ProxiesInv, ProxyTablesOK
<1>2. ASSUME NEW r \in Proxies, Travel(r) PROVE FALSE
  BY <1>2 DEF Travel, Enter, RequireOwner, Dispatch, Resolve, ForwardTo, Finish, tables
<1>3. ASSUME NEW w \in Workspaces, Workspace(w) PROVE <<rows'[v].owner, v>> \in racers
  <2>1. ASSUME NEW u \in Users, BeginCreate(u, w) PROVE FALSE
    BY <1>1, <2>1 DEF BeginCreate
  <2>2. ASSUME NEW p \in Ports, Launch(w, p) PROVE FALSE
    BY <1>1, <2>2 DEF Launch, Row
  <2>3. ASSUME NEW u \in Users, SetOwner(u, w) PROVE <<rows'[v].owner, v>> \in racers
    BY <1>1, <2>3 DEF SetOwner, Row, ProxiesInv, ClaimsAreRacers
  <2>4. CASE Stop(w)
    BY <2>4 DEF Stop
  <2>5. CASE MarkFailed(w)
    BY <1>1, <2>5 DEF MarkFailed, Row
  <2>6. CASE DropRow(w)
    BY <1>1, <2>6 DEF DropRow
  <2> QED
    BY <1>3, <2>1, <2>2, <2>3, <2>4, <2>5, <2>6 DEF Workspace
<1>4. CASE RestartProxies
  BY <1>4 DEF RestartProxies
<1> QED
  BY <1>2, <1>3, <1>4 DEF ProxiesNext

(* A workspace that has an owner changes hands to nobody who did not ask   *)
(* for its name (create.rs:82-112, store.rs set_owner).                    *)
THEOREM HandsOnlyToRacers == ProxiesSpec => ChangesHandsToRacers
<1>1. ProxiesInv /\ [ProxiesNext]_wpVars => [Handed]_wpVars
  BY StepHanded
<1>2. [][Handed]_wpVars => ChangesHandsToRacers
  BY PTL DEF ChangesHandsToRacers, Handed
<1> QED
  BY ProxiesInvariance, <1>1, <1>2, PTL DEF ProxiesSpec

------------------------------------------------------------------------------
(* The list of workspaces *)

ListItem == [id : Workspaces, status : {"creating", "ready", "failed"}, port : Ports \union {NONE}]
Listing == [pc : {"idle", "read", "check", "answered"}, by : Users \union {NONE},
            page : Pages \union {NONE}, items : Seq(ListItem), checks : SUBSET Nat,
            healthy : Seq({"yes", "no", "unknown"}),
            answered : [Workspaces -> Workspaces \union {NONE}], stale : SUBSET Workspaces]

(* What is being answered was asked for.                                   *)
AskedOK(l) ==
    l.pc # "idle" => /\ l.page \in Pages /\ l.page.health # "other"
                     /\ l.page.limit >= 0 /\ l.page.offset >= 0

(* No workspace is twice on a page, and a page is no longer than it may be.*)
PageOK(l) ==
    /\ Len(l.items) <= MaxListLimit /\ Len(l.healthy) = Len(l.items)
    /\ \A i, j \in DOMAIN l.items : l.items[i].id = l.items[j].id => i = j

(* Each verdict is what its workspace's own check has come to so far.      *)
VerdictOK(l, i) == LET item == l.items[i] IN
    /\ (l.healthy[i] = "unknown") <=> (l.page.health = "skip")
    /\ (l.healthy[i] = "yes") <=> (l.answered[item.id] # NONE)
    /\ l.answered[item.id] # NONE =>
          item.status = "ready" /\ (l.answered[item.id] = item.id \/ item.id \in l.stale)

(* A check that has not ended is of a row that was ready, and its port is  *)
(* still that workspace's, unless its container has stopped since.         *)
CheckOK(l, i) == LET item == l.items[i] IN
    /\ i \in DOMAIN l.items /\ l.page.health = "live"
    /\ item.status = "ready" /\ item.port \in Ports /\ l.answered[item.id] = NONE
    /\ serving[item.port] = item.id \/ item.id \in l.stale

ListingOK(l) ==
    /\ AskedOK(l)
    /\ l.pc = "read" => \A w \in Workspaces : l.answered[w] = NONE
    /\ l.pc \in {"check", "answered"} =>
          PageOK(l) /\ \A i \in DOMAIN l.items : VerdictOK(l, i)
    /\ l.pc = "check" => \A i \in l.checks : CheckOK(l, i)
    /\ l.pc # "check" => l.checks = {}
    /\ l.pc \in {"idle", "read"} => l.items = <<>> /\ l.healthy = <<>>

FiniteRows == IsFiniteSet({w \in Workspaces : rows[w] # NONE})
ListInv == ProxiesInv /\ FiniteRows /\ listing \in Listing /\ ListingOK(listing)

LEMMA NoListingOK == NoListing \in Listing /\ ListingOK(NoListing)
<1>1. NoListing \in Listing
  BY DEF NoListing, Listing
<1>2. /\ NoListing.pc = "idle" /\ NoListing.checks = {}
      /\ NoListing.items = <<>> /\ NoListing.healthy = <<>>
  BY DEF NoListing
<1> QED
  BY <1>1, <1>2 DEF ListingOK, AskedOK

LEMMA InitListInv == InitList => ListInv
<1> SUFFICES ASSUME InitList PROVE ListInv
  OBVIOUS
<1>1. {w \in Workspaces : rows[w] # NONE} = {}
  BY DEF InitList, InitProxies
<1>2. FiniteRows
  BY <1>1, FS_EmptySet DEF FiniteRows
<1> QED
  BY <1>2, InitProxiesInv, NoListingOK DEF InitList, ListInv

(* A step of the request that leaves the workspaces alone                  *)
LEMMA Told ==
    ASSUME ListInv, NEW l \in Listing, ListingOK(l), Tell(l)
    PROVE  ListInv'
<1>1. listing' = l /\ UNCHANGED wpVars
  BY DEF Tell
<1>2. ProxiesInv'
  BY <1>1, NextProxiesInv DEF ListInv
<1>3. FiniteRows'
  BY <1>1 DEF ListInv, FiniteRows, wpVars
<1>4. ListingOK(l)'
  BY <1>1 DEF ListingOK, AskedOK, PageOK, VerdictOK, CheckOK, wpVars
<1> QED
  BY <1>1, <1>2, <1>3, <1>4 DEF ListInv

LEMMA AskStep ==
    ASSUME ListInv, NEW u \in Users, NEW page \in Pages, AskList(u, page) PROVE ListInv'
<1> DEFINE l == [NoListing EXCEPT !.pc = "read", !.by = u, !.page = page]
<1>1. /\ l \in Listing /\ l.pc = "read" /\ l.page = page
      /\ l.checks = {} /\ l.items = <<>> /\ l.healthy = <<>>
      /\ \A w \in Workspaces : l.answered[w] = NONE
  BY NoListingOK DEF Listing, NoListing
<1>2. page.health # "other" /\ page.limit >= 0 /\ page.offset >= 0 /\ Tell(l)
  BY DEF AskList
<1> HIDE DEF l
<1>3. ListingOK(l)
  BY <1>1, <1>2 DEF ListingOK, AskedOK
<1> QED
  BY <1>1, <1>2, <1>3, Told

LEMMA MinOfTwo ==
    ASSUME NEW a \in Int, NEW b \in Int
    PROVE  Min({a, b}) \in {a, b} /\ Min({a, b}) <= a /\ Min({a, b}) <= b
<1>1. \E x \in {a, b} : \A y \in {a, b} : x <= y
  OBVIOUS
<1> QED
  BY <1>1 DEF Min

(* A page of the rows of whoever asks: of them, each once, and not too many*)
LEMMA PageRows ==
    ASSUME NEW S, IsFiniteSet(S), NEW order \in SetToSeqs(S),
           NEW page, page.limit \in Nat, page.offset \in Nat
    PROVE  /\ PageOf(page, order) \in Seq(S) /\ Len(PageOf(page, order)) <= MaxListLimit
           /\ \A i, j \in 1..Len(PageOf(page, order)) :
                PageOf(page, order)[i] = PageOf(page, order)[j] => i = j
<1> DEFINE n == Cardinality(S)
           limit == Min({page.limit, MaxListLimit})
           from == page.offset + 1
           to == Min({page.offset + limit, n})
<1>1. n \in Nat
  BY FS_CardinalityType
<1>2. order \in [1..n -> S] /\ \A i, j \in 1..n : i # j => order[i] # order[j]
  BY DEF SetToSeqs
<1>3. Len(order) = n
  BY <1>1, <1>2
<1>4. limit \in Nat /\ limit <= MaxListLimit
  <2>1. page.limit \in Int /\ MaxListLimit \in Int /\ page.limit >= 0 /\ MaxListLimit >= 0
    BY PagesAssumption
  <2>2. limit \in {page.limit, MaxListLimit} /\ limit <= MaxListLimit
    BY <2>1, MinOfTwo
  <2> HIDE DEF limit
  <2> QED
    BY <2>1, <2>2
<1> HIDE DEF limit
<1>6. to \in Int /\ to <= page.offset + limit /\ to <= n
  <2>1. page.offset + limit \in Int /\ n \in Int
    BY <1>1, <1>4
  <2>2. to \in {page.offset + limit, n} /\ to <= page.offset + limit /\ to <= n
    <3> HIDE DEF n
    <3> QED
      BY <2>1, MinOfTwo
  <2> HIDE DEF to, n
  <2> QED
    BY <2>1, <2>2
<1>7. PageOf(page, order) = SubSeq(order, from, to)
  BY <1>3 DEF PageOf, limit
<1> DEFINE list == SubSeq(order, from, to)
<1> HIDE DEF to, n
<1>8. from \in Int /\ \A i \in from..to : i \in 1..n /\ order[i] \in S
  BY <1>1, <1>2, <1>6
<1>9. /\ list \in Seq(S) /\ Len(list) = IF from <= to THEN to - from + 1 ELSE 0
      /\ \A i \in 1..(to - from + 1) : list[i] = order[from + i - 1]
  BY <1>6, <1>8, SubSeqProperties
<1> HIDE DEF list
<1>10. Len(list) <= MaxListLimit
  BY <1>4, <1>6, <1>9, PagesAssumption
<1> HIDE DEF from
<1>11. ASSUME NEW i \in 1..Len(list), NEW j \in 1..Len(list), list[i] = list[j] PROVE i = j
  <2>1. Len(list) <= to - from + 1 \/ Len(list) = 0
    BY <1>6, <1>8, <1>9
  <2>2. i \in 1..(to - from + 1) /\ j \in 1..(to - from + 1)
    BY <1>6, <1>8, <1>9, <2>1
  <2>3. /\ i \in Nat /\ j \in Nat /\ from + i - 1 \in from..to /\ from + j - 1 \in from..to
    BY <1>6, <1>8, <2>2
  <2>4. list[i] = order[from + i - 1] /\ list[j] = order[from + j - 1]
    BY <1>9, <2>2
  <2>5. from + i - 1 = from + j - 1
    BY <1>2, <1>8, <1>11, <2>3, <2>4
  <2> QED
    BY <1>8, <2>3, <2>5
<1> QED
  BY <1>7, <1>9, <1>10, <1>11 DEF list, from

LEMMA ReadStep == ASSUME ListInv, ReadPage PROVE ListInv'
<1> DEFINE page == listing.page
           mine == {w \in Workspaces : Owns(listing.by, w)}
           live == page.health = "live"
<1>1. CASE Tell(NoListing)
  BY <1>1, NoListingOK, Told
<1>2. CASE ~Tell(NoListing)
  <2>1. PICK order \in SetToSeqs(mine) :
          LET list == PageOf(page, order)
              items == [i \in DOMAIN list |-> [id |-> list[i], status |-> rows[list[i]].status,
                                               port |-> rows[list[i]].port]]
          IN Tell([listing EXCEPT !.pc = "check", !.items = items,
                !.checks = {i \in DOMAIN items :
                    live /\ items[i].status = "ready" /\ items[i].port # NONE},
                !.healthy = [i \in DOMAIN items |-> IF live THEN "no" ELSE "unknown"],
                !.stale = {w \in mine : Down(w)}])
    BY <1>2 DEF ReadPage
  <2> DEFINE list == PageOf(page, order)
             items == [i \in DOMAIN list |-> [id |-> list[i], status |-> rows[list[i]].status,
                                              port |-> rows[list[i]].port]]
             checks == {i \in DOMAIN items : live /\ items[i].status = "ready" /\ items[i].port # NONE}
             healthy == [i \in DOMAIN items |-> IF live THEN "no" ELSE "unknown"]
             stale == {w \in mine : Down(w)}
             l == [listing EXCEPT !.pc = "check", !.items = items, !.checks = checks,
                                  !.healthy = healthy, !.stale = stale]
  <2>2. Tell(l) /\ listing.pc = "read" /\ listing \in Listing /\ ListingOK(listing)
    BY <2>1 DEF ReadPage, Lists, ListInv
  <2>3. /\ page \in Pages /\ page.health \in {"live", "skip"} /\ page.limit \in Nat
        /\ page.offset \in Nat
    <3>1. page \in Pages /\ page.health # "other" /\ page.limit >= 0 /\ page.offset >= 0
      BY <2>2 DEF ListingOK, AskedOK
    <3>2. page.limit \in Int /\ page.offset \in Int /\ page.health \in {"live", "skip", "other"}
      BY <3>1, PagesAssumption
    <3> HIDE DEF page
    <3> QED
      BY <3>1, <3>2
  <2>4. IsFiniteSet(mine)
    <3>1. mine \subseteq {w \in Workspaces : rows[w] # NONE}
      BY DEF Owns
    <3> QED
      BY <3>1, FS_Subset DEF ListInv, FiniteRows
  <2>5. /\ list \in Seq(mine) /\ Len(list) <= MaxListLimit
        /\ \A i, j \in 1..Len(list) : list[i] = list[j] => i = j
    <3> HIDE DEF mine
    <3> QED
      BY <2>3, <2>4, PageRows
  <2> HIDE DEF list, page
  <2>6. Len(list) \in Nat /\ DOMAIN list = 1..Len(list) /\ \A i \in 1..Len(list) : list[i] \in mine
    BY <2>5
  <2>7. \A w \in mine : w \in Workspaces /\ rows[w] \in Row /\ rows[w] # NONE
    BY DEF Owns, ListInv, ProxiesInv, ProxyTablesOK
  <2>8. /\ DOMAIN items = 1..Len(list)
        /\ \A i \in 1..Len(list) : items[i].id = list[i] /\ items[i].status = rows[list[i]].status
                                    /\ items[i].port = rows[list[i]].port
    BY <2>6
  <2>9. items \in Seq(ListItem) /\ Len(items) = Len(list)
    <3>1. \A i \in 1..Len(list) : items[i] \in ListItem
      BY <2>6, <2>7 DEF ListItem, Row
    <3>2. items = [i \in 1..Len(list) |-> items[i]]
      BY <2>6
    <3> HIDE DEF items
    <3> QED
      BY <2>6, <3>1, <3>2
  <2>10. /\ healthy \in Seq({"yes", "no", "unknown"}) /\ Len(healthy) = Len(list)
         /\ \A i \in 1..Len(list) : healthy[i] = IF live THEN "no" ELSE "unknown"
    <3>1. healthy = [i \in 1..Len(list) |-> IF live THEN "no" ELSE "unknown"]
      BY <2>8
    <3> HIDE DEF healthy
    <3> QED
      BY <2>6, <3>1
  <2>11. checks \in SUBSET Nat /\ stale \in SUBSET Workspaces
    BY <2>6, <2>7, <2>8
  <2>12. \A w \in Workspaces : listing.answered[w] = NONE
    BY <2>2 DEF ListingOK
  <2> HIDE DEF items, healthy, stale, mine, live
  <2>13. /\ l \in Listing /\ l.pc = "check" /\ l.page = page /\ l.items = items
         /\ l.checks = checks /\ l.healthy = healthy /\ l.stale = stale
         /\ l.answered = listing.answered
    <3> HIDE DEF checks
    <3> QED
      BY <2>2, <2>9, <2>10, <2>11 DEF Listing, page
  <2> HIDE DEF l
  <2>14. PageOK(l)
    <3>1. \A i, j \in DOMAIN items : items[i].id = items[j].id => i = j
      BY <2>5, <2>8
    <3> QED
      BY <2>5, <2>9, <2>10, <2>13, <3>1 DEF PageOK
  <2>15. ASSUME NEW i \in DOMAIN l.items PROVE VerdictOK(l, i)
    <3>1. i \in 1..Len(list) /\ items[i].id \in Workspaces
      BY <2>6, <2>7, <2>8, <2>13
    <3>2. listing.answered[items[i].id] = NONE
      BY <2>12, <3>1
    <3>3. healthy[i] = (IF page.health = "live" THEN "no" ELSE "unknown")
      BY <2>10, <3>1 DEF live
    <3> QED
      BY <2>3, <2>13, <3>2, <3>3 DEF VerdictOK
  <2>16. ASSUME NEW i \in l.checks PROVE CheckOK(l, i)
    <3> DEFINE w == items[i].id
               port == items[i].port
    <3>1. i \in DOMAIN items /\ i \in 1..Len(list) /\ page.health = "live"
          /\ items[i].status = "ready" /\ port # NONE
      BY <2>8, <2>13 DEF live
    <3>2. w \in Workspaces /\ rows[w] \in Row /\ w \in mine /\ rows[w].status = "ready"
          /\ rows[w].port = port /\ port \in Ports
      BY <2>6, <2>7, <2>8, <3>1 DEF Row
    <3>3. serving[port] = w \/ w \in stale
      <4>1. SUFFICES ASSUME w \notin stale PROVE serving[port] = w
        OBVIOUS
      <4>2. PICK p \in Ports : serving[p] = w
        BY <3>2, <4>1 DEF stale, Down
      <4>3. rows[w].port = p
        BY <3>2, <4>2, NobodyAssumption DEF ListInv, ProxiesInv, ServingIsReady
      <4> QED
        BY <3>2, <4>2, <4>3
    <3> QED
      BY <2>12, <2>13, <3>1, <3>2, <3>3 DEF CheckOK
  <2>17. ListingOK(l)
    BY <2>2, <2>13, <2>14, <2>15, <2>16 DEF ListingOK, AskedOK, page
  <2> QED
    BY <2>2, <2>13, <2>17, Told
<1> QED
  BY <1>1, <1>2

LEMMA Items ==
    ASSUME NEW l \in Listing
    PROVE  /\ Len(l.items) \in Nat /\ DOMAIN l.items = 1..Len(l.items)
           /\ Len(l.healthy) \in Nat /\ DOMAIN l.healthy = 1..Len(l.healthy)
           /\ \A i \in DOMAIN l.items :
                l.items[i].id \in Workspaces /\ l.items[i].port \in Ports \union {NONE}
<1>1. l.items \in Seq(ListItem) /\ l.healthy \in Seq({"yes", "no", "unknown"})
  BY DEF Listing
<1>2. \A i \in DOMAIN l.items : l.items[i] \in ListItem
  BY <1>1
<1> QED
  BY <1>1, <1>2 DEF ListItem

(* A check ends, with whoever listens on the port for an answer, or none.  *)
LEMMA CheckStep == ASSUME ListInv, NEW i \in listing.checks, CheckHealth(i) PROVE ListInv'
<1> DEFINE p == listing.items[i].port
           w == listing.items[i].id
           checks == listing.checks \ {i}
<1>1. listing \in Listing /\ ListingOK(listing) /\ listing.pc = "check" /\ ProxyTablesOK
  BY DEF ListInv, ProxiesInv, CheckHealth, Lists
<1>2. PageOK(listing) /\ CheckOK(listing, i) /\ i \in DOMAIN listing.items
  BY <1>1 DEF ListingOK, CheckOK
<1>3. w \in Workspaces /\ i \in 1..Len(listing.healthy) /\ DOMAIN listing.items = 1..Len(listing.items)
      /\ i \in Nat /\ DOMAIN listing.healthy = DOMAIN listing.items
  BY <1>1, <1>2, Items DEF PageOK
<1>4. CASE Tell([listing EXCEPT !.checks = checks])
  <2> DEFINE l == [listing EXCEPT !.checks = checks]
  <2>1. /\ l \in Listing /\ l.pc = "check" /\ l.page = listing.page /\ l.items = listing.items
        /\ l.checks = checks /\ l.healthy = listing.healthy /\ l.stale = listing.stale
        /\ l.answered = listing.answered
    BY <1>1 DEF Listing
  <2> HIDE DEF l
  <2>2. ListingOK(l)
    BY <1>1, <2>1 DEF ListingOK, AskedOK, PageOK, VerdictOK, CheckOK
  <2> QED
    BY <1>4, <2>1, <2>2, Told DEF l
<1>5. CASE /\ serving[p] # NONE
           /\ Tell([listing EXCEPT !.checks = checks, !.healthy[i] = "yes", !.answered[w] = serving[p]])
  <2> DEFINE healthy == [listing.healthy EXCEPT ![i] = "yes"]
             answered == [listing.answered EXCEPT ![w] = serving[p]]
             l == [listing EXCEPT !.checks = checks, !.healthy = healthy, !.answered = answered]
  <2>1. serving[p] \in Workspaces /\ (serving[p] = w \/ w \in listing.stale)
    BY <1>1, <1>2, <1>5 DEF CheckOK, ProxyTablesOK
  <2>2. /\ healthy \in Seq({"yes", "no", "unknown"}) /\ Len(healthy) = Len(listing.healthy)
        /\ healthy[i] = "yes" /\ \A j \in DOMAIN listing.items : j # i => healthy[j] = listing.healthy[j]
    BY <1>1, <1>3 DEF Listing
  <2>3. /\ answered \in [Workspaces -> Workspaces \union {NONE}] /\ answered[w] = serving[p]
        /\ \A v \in Workspaces : v # w => answered[v] = listing.answered[v]
    BY <1>1, <1>3, <2>1 DEF Listing
  <2> HIDE DEF healthy, answered
  <2>4. /\ l \in Listing /\ l.pc = "check" /\ l.page = listing.page /\ l.items = listing.items
        /\ l.checks = checks /\ l.healthy = healthy /\ l.stale = listing.stale
        /\ l.answered = answered
    BY <1>1, <2>2, <2>3 DEF Listing
  <2>5. Tell(l)
    BY <1>1, <1>5 DEF healthy, answered, Listing
  <2> HIDE DEF l
  <2>6. \A j \in DOMAIN listing.items : j # i =>
            listing.items[j].id \in Workspaces /\ listing.items[j].id # w
    BY <1>1, <1>2, Items DEF PageOK
  <2>7. ASSUME NEW j \in DOMAIN l.items PROVE VerdictOK(l, j)
    <3>1. CASE j = i
      BY <1>1, <1>2, <2>1, <2>2, <2>3, <2>4, <3>1, NobodyAssumption DEF VerdictOK, CheckOK
    <3>2. CASE j # i
      <4>1. /\ healthy[j] = listing.healthy[j]
            /\ answered[listing.items[j].id] = listing.answered[listing.items[j].id]
        BY <2>2, <2>3, <2>4, <2>6, <3>2
      <4>2. VerdictOK(listing, j)
        BY <1>1, <2>4 DEF ListingOK
      <4> QED
        BY <2>4, <4>1, <4>2 DEF VerdictOK
    <3> QED
      BY <3>1, <3>2
  <2>8. ASSUME NEW j \in l.checks PROVE CheckOK(l, j)
    <3>1. j # i /\ CheckOK(listing, j) /\ j \in DOMAIN listing.items
      BY <1>1, <2>4 DEF ListingOK, CheckOK
    <3>2. answered[listing.items[j].id] = listing.answered[listing.items[j].id]
      BY <2>3, <2>6, <3>1
    <3> QED
      BY <2>4, <3>1, <3>2 DEF CheckOK
  <2>9. PageOK(l)
    BY <1>2, <2>2, <2>4 DEF PageOK
  <2>10. ListingOK(l)
    BY <1>1, <2>4, <2>7, <2>8, <2>9 DEF ListingOK, AskedOK
  <2> QED
    BY <2>4, <2>5, <2>10, Told
<1> QED
  BY <1>4, <1>5 DEF CheckHealth

LEMMA BuildStep == ASSUME ListInv, BuildListItems PROVE ListInv'
<1> DEFINE l == [listing EXCEPT !.pc = "answered"]
<1>1. /\ listing \in Listing /\ ListingOK(listing) /\ listing.pc = "check" /\ Tell(l)
      /\ listing.checks = {}
  BY DEF ListInv, BuildListItems, Lists
<1>2. /\ l \in Listing /\ l.pc = "answered" /\ l.page = listing.page /\ l.items = listing.items
      /\ l.checks = listing.checks /\ l.healthy = listing.healthy /\ l.stale = listing.stale
      /\ l.answered = listing.answered
  BY <1>1 DEF Listing
<1> HIDE DEF l
<1>3. ListingOK(l)
  BY <1>1, <1>2 DEF ListingOK, AskedOK, PageOK, VerdictOK, CheckOK
<1> QED
  BY <1>1, <1>2, <1>3, Told

(* Only a container that stops leaves its port, and then it is remembered. *)
LEMMA MeanwhileStep == ASSUME ListInv, NEW w \in Workspaces, Meanwhile(w) PROVE ListInv'
<1>1. ProxiesInv /\ Workspace(w) /\ listing \in Listing /\ ListingOK(listing)
  BY DEF ListInv, Meanwhile
<1>2. ProxiesInv'
  BY <1>1, NextProxiesInv DEF ProxiesNext
<1>3. FiniteRows'
  <2> DEFINE S == {v \in Workspaces : rows[v] # NONE}
             T == {v \in Workspaces : rows'[v] # NONE}
  <2>1. T \subseteq S \union {w}
    <3>1. \A v \in Workspaces : v # w => rows'[v] = rows[v]
      BY <1>1 DEF ProxiesInv, ProxyTablesOK, Workspace, BeginCreate, SetOwner, Launch, Stop, MarkFailed, DropRow
    <3> QED
      BY <3>1
  <2>2. IsFiniteSet(S \union {w})
    BY FS_AddElement DEF ListInv, FiniteRows
  <2>3. IsFiniteSet(T)
    BY <2>1, <2>2, FS_Subset
  <2> QED
    BY <2>3 DEF FiniteRows
<1>4. \A p \in Ports : serving'[p] # serving[p] => serving[p] \in {w, NONE}
  BY <1>1 DEF ProxiesInv, ProxyTablesOK, Workspace, BeginCreate, SetOwner, Launch, Stop, MarkFailed, DropRow
<1> DEFINE left == listing.pc = "check" /\ \E p \in Ports : serving[p] = w /\ serving'[p] # w
<1>5. /\ listing' \in Listing /\ listing'.pc = listing.pc /\ listing'.page = listing.page
      /\ listing'.items = listing.items /\ listing'.checks = listing.checks
      /\ listing'.healthy = listing.healthy /\ listing'.answered = listing.answered
      /\ listing.stale \subseteq listing'.stale /\ (left => w \in listing'.stale)
  <2>1. CASE left
    <3>1. listing' = [listing EXCEPT !.stale = @ \union {w}]
      BY <2>1 DEF Meanwhile, Lists
    <3> QED
      BY <1>1, <3>1 DEF Listing
  <2>2. CASE ~left
    <3>1. listing' = listing
      BY <2>2 DEF Meanwhile, Lists
    <3> QED
      BY <1>1, <2>2, <3>1
  <2> QED
    BY <2>1, <2>2
<1>6. ASSUME NEW i \in DOMAIN listing.items, VerdictOK(listing, i) PROVE VerdictOK(listing, i)'
  BY <1>5, <1>6 DEF VerdictOK
<1>7. ASSUME listing.pc = "check", NEW i \in listing.checks, CheckOK(listing, i)
      PROVE  CheckOK(listing, i)'
  <2> DEFINE item == listing.items[i]
  <2>1. item.port \in Ports /\ item.id \in Workspaces
        /\ (serving[item.port] = item.id \/ item.id \in listing.stale)
    BY <1>1, <1>7, Items DEF CheckOK
  <2>2. serving'[item.port] = item.id \/ item.id \in listing'.stale
    <3>1. CASE item.id \in listing.stale
      BY <1>5, <3>1
    <3>2. CASE serving[item.port] = item.id /\ serving'[item.port] # item.id
      <4>1. item.id = w
        BY <1>4, <2>1, <3>2, NobodyAssumption
      <4> QED
        BY <1>5, <1>7, <2>1, <3>2, <4>1
    <3> QED
      BY <2>1, <3>1, <3>2
  <2> QED
    BY <1>5, <1>7, <2>2 DEF CheckOK
<1>8. ListingOK(listing)'
  <2>1. AskedOK(listing)' /\ (listing'.pc = "read" => \A v \in Workspaces : listing'.answered[v] = NONE)
    BY <1>1, <1>5 DEF ListingOK, AskedOK
  <2>2. listing.pc \in {"check", "answered"} => PageOK(listing)'
    BY <1>1, <1>5 DEF ListingOK, PageOK
  <2>3. listing.pc \in {"check", "answered"} => \A i \in DOMAIN listing.items : VerdictOK(listing, i)'
    BY <1>1, <1>6 DEF ListingOK
  <2>4. listing.pc = "check" => \A i \in listing.checks : CheckOK(listing, i)'
    BY <1>1, <1>7 DEF ListingOK
  <2>5. /\ listing.pc # "check" => listing.checks = {}
        /\ listing.pc \in {"idle", "read"} => listing.items = <<>> /\ listing.healthy = <<>>
    BY <1>1 DEF ListingOK
  <2> QED
    BY <1>5, <2>1, <2>2, <2>3, <2>4, <2>5 DEF ListingOK
<1> QED
  BY <1>2, <1>3, <1>5, <1>8 DEF ListInv

LEMMA NextListInv == ListInv /\ [ListNext]_wlVars => ListInv'
<1> SUFFICES ASSUME ListInv, [ListNext]_wlVars PROVE ListInv'
  OBVIOUS
<1>1. CASE LeaveList
  BY <1>1, NoListingOK, Told DEF LeaveList
<1>2. CASE UNCHANGED wlVars
  <2>1. ProxiesInv'
    BY <1>2, NextProxiesInv DEF ListInv, wlVars
  <2>2. FiniteRows'
    BY <1>2 DEF ListInv, FiniteRows, wlVars, wpVars
  <2>3. ListingOK(listing)'
    BY <1>2 DEF ListInv, ListingOK, AskedOK, PageOK, VerdictOK, CheckOK, wlVars, wpVars
  <2> QED
    BY <1>2, <2>1, <2>2, <2>3 DEF ListInv, wlVars
<1> QED
  BY <1>1, <1>2, AskStep, ReadStep, BuildStep, CheckStep, MeanwhileStep DEF ListNext

LEMMA ListInvTypes == ListInv => ListTypeOK
<1> SUFFICES ASSUME ListInv PROVE ListTypeOK
  OBVIOUS
<1>1. listing \in Listing /\ ListingOK(listing)
  BY DEF ListInv
<1>2. /\ DOMAIN listing.items = 1..Len(listing.items)
      /\ DOMAIN listing.healthy = 1..Len(listing.healthy)
  BY <1>1, Items
<1>3. listing.pc \in {"idle", "read", "check", "answered"}
  BY <1>1 DEF Listing
<1>4. CASE listing.pc \in {"idle", "read"}
  <2>1. listing.items = <<>> /\ listing.healthy = <<>> /\ listing.checks = {}
    BY <1>1, <1>4 DEF ListingOK
  <2>2. Len(listing.items) <= MaxListLimit
    BY <2>1, PagesAssumption
  <2> QED
    BY <1>1, <1>3, <2>1, <2>2 DEF Listing, ListTypeOK
<1>5. CASE listing.pc \in {"check", "answered"}
  <2>1. PageOK(listing) /\ listing.checks \subseteq DOMAIN listing.items
    BY <1>1, <1>5 DEF ListingOK, CheckOK
  <2> QED
    BY <1>1, <1>2, <1>3, <2>1 DEF Listing, ListTypeOK, PageOK
<1> QED
  BY <1>3, <1>4, <1>5

(* A page holds what was asked for, and no more than it may, and a check in*)
(* flight still has its own workspace at its port or knows that it stopped *)
(* (list.rs:166-222).                                                      *)
THEOREM ListInvariance == ListSpec => []ListInv
  BY InitListInv, NextListInv, PTL DEF ListSpec

(* No verdict is given to another row of the page than the one it is of,   *)
(* in whichever order the checks end and whatever is created and deleted in*)
(* the meantime (list.rs:166-222).                                         *)
THEOREM VerdictsAlwaysTheirOwn == ListSpec => []VerdictsAreTheirOwn
<1>1. ListInv => VerdictsAreTheirOwn
  <2> SUFFICES ASSUME ListInv, Lists("answered"), NEW i \in DOMAIN listing.items
               PROVE  LET item == listing.items[i]
                          who == listing.answered[item.id]
                      IN  /\ (listing.healthy[i] = "unknown") = (listing.page.health = "skip")
                          /\ (listing.healthy[i] = "yes") = (who # NONE)
                          /\ who # NONE =>
                                item.status = "ready" /\ (who = item.id \/ item.id \in listing.stale)
    BY DEF VerdictsAreTheirOwn
  <2> QED
    BY DEF ListInv, Lists, ListingOK, VerdictOK
<1> QED
  BY ListInvariance, <1>1, PTL
================================================================================
