----------------------------- MODULE McpProxyProofs -----------------------------
(***************************************************************************)
(* What holds of the bearer check and of what is forwarded, for any number *)
(* of containers, requests and bearers, and of the count of failures, for  *)
(* any limit and any window.                                               *)
(***************************************************************************)
EXTENDS McpProxy, Integers, FiniteSetTheorems, SequenceTheorems, WellFoundedInduction, TLAPS

(* What a request can be: its body is none or was sanitized                *)
Body == {NoRequest} \union {Sanitized(w, q) : w \in Workspaces, q \in Requests}
Bearer == Bearers \union {NONE}
Ask == [pc : AskPc, of : Workspaces \union {NONE}, bearer : Bearer, found : Bearer,
        stale : BOOLEAN, sent : Body, as : Bearer]

McpTablesOK ==
    /\ clock \in Instants
    /\ token \in [Workspaces -> Bearer] /\ holder \in [Bearers -> Workspaces \union {NONE}]
LockoutOK == lockout \in [Workspaces -> [count : Nat, start : Instants] \union {NONE}]
AsksOK == asks \in [Callers -> Ask]

(* The bearer of a workspace was issued to it. *)
TokenIsHeld == \A w \in Workspaces : token[w] # NONE => holder[token[w]] = w

(* A bearer that was not the workspace's when it was presented was issued  *)
(* before, and is not going to be issued again.                            *)
Presented == {"lookup", "compare"}
BearerOK(q) ==
    /\ q.pc # "idle" => q.of \in Workspaces
    /\ (q.pc = "check" /\ q.bearer # NONE) \/ q.pc \in Presented =>
          /\ q.bearer \in Bearers /\ holder[q.bearer] # NONE
          /\ q.stale => token[q.of] # q.bearer
    /\ q.stale /\ q.pc = "compare" => q.found # q.bearer
    /\ q.stale => q.pc \notin {"open", "token", "forward"}

(* What goes out is sanitized, under a bearer of the workspace. *)
IsOwn(q, w) == q.method = "tools/call" => q.connection = w /\ q.alias = NONE
SentOK(q) ==
    /\ q.pc \in {"token", "forward"} => IsOwn(q.sent, q.of)
    /\ q.pc = "forward" => q.as \in Bearers /\ holder[q.as] = q.of

RequestsOK == \A c \in Callers : BearerOK(asks[c]) /\ SentOK(asks[c])

McpInv == McpTablesOK /\ LockoutOK /\ AsksOK /\ TokenIsHeld /\ RequestsOK /\ FailuresBounded

(* NoAsk and NoFailures are what the types say they are.                   *)
LEMMA NoAskType == NoAsk \in Ask /\ BearerOK(NoAsk) /\ SentOK(NoAsk)
  BY DEF NoAsk, NoRequest, Ask, AskPc, Body, Bearer, BearerOK, SentOK, Presented

LEMMA Renamed ==
    ASSUME NEW a, NEW b, NEW c, NEW d, NEW e, NEW f, NEW w
    PROVE  LET q == [shape |-> a, method |-> b, tool |-> c, action |-> d, connection |-> e, alias |-> f]
               r == [q EXCEPT !.connection = w, !.alias = NONE]
           IN  r.connection = w /\ r.alias = NONE
  OBVIOUS

LEMMA SanitizedOwn ==
    ASSUME NEW w \in Workspaces, NEW q \in Requests
    PROVE  Sanitized(w, q) \in Body /\ IsOwn(Sanitized(w, q), w)
<1>1. Sanitized(w, q) \in Body
  <2>1. Sanitized(w, q) \in {Sanitized(v, p) : v \in Workspaces, p \in Requests}
    OBVIOUS
  <2> QED
    BY <2>1 DEF Body
<1>2. CASE q.method = "tools/call"
  <2> DEFINE copy == [shape |-> q.shape, method |-> q.method, tool |-> q.tool, action |-> q.action,
                      connection |-> q.connection, alias |-> q.alias]
             sent == [q EXCEPT !.connection = w, !.alias = NONE]
  <2>1. q = copy
    BY RequestsAssumption, Zenon
  <2>2. sent.connection = w /\ sent.alias = NONE
    BY <2>1, Renamed, Zenon
  <2>3. Sanitized(w, q) = sent
    BY <1>2 DEF Sanitized
  <2> QED
    BY <1>1, <2>2, <2>3 DEF IsOwn
<1>3. CASE q.method # "tools/call"
  <2>1. Sanitized(w, q) = q
    BY <1>3 DEF Sanitized
  <2> QED
    BY <1>1, <1>3, <2>1 DEF IsOwn
<1> QED
  BY <1>2, <1>3

------------------------------------------------------------------------------
(* A step of one request that leaves the tables alone                      *)

LEMMA OneAsk ==
    ASSUME McpInv, NEW c \in Callers, NEW q \in Ask, BearerOK(q), SentOK(q),
           asks' = [asks EXCEPT ![c] = q], UNCHANGED <<clock, token, holder>>
    PROVE  (McpTablesOK /\ AsksOK /\ TokenIsHeld /\ RequestsOK)'
<1> USE DEF McpInv
<1>1. McpTablesOK' /\ TokenIsHeld'
  BY DEF McpTablesOK, TokenIsHeld
<1>2. AsksOK'
  BY DEF AsksOK
<1>3. ASSUME NEW d \in Callers PROVE (BearerOK(asks[d]) /\ SentOK(asks[d]))'
  <2>1. asks'[d] = IF d = c THEN q ELSE asks[d]
    BY DEF AsksOK
  <2>2. BearerOK(asks'[d]) /\ SentOK(asks'[d])
    BY <2>1 DEF RequestsOK
  <2> QED
    BY <2>2 DEF BearerOK, SentOK, Presented
<1> QED
  BY <1>1, <1>2, <1>3 DEF RequestsOK

(* Leaving, and going on without the bearer                                *)
LEMMA GoneAsk ==
    ASSUME McpInv, NEW c \in Callers, Answer(c), UNCHANGED <<clock, token, holder>>
    PROVE  (McpTablesOK /\ AsksOK /\ TokenIsHeld /\ RequestsOK)'
  BY OneAsk, NoAskType DEF Answer

LEMMA SettledAsk ==
    ASSUME McpInv, NEW c \in Callers, NEW pc \in {"locked", "record", "open"},
           At(c, "check") \/ At(c, "compare"), Goto(c, pc),
           pc = "open" => ~asks[c].stale,
           UNCHANGED <<clock, token, holder>>
    PROVE  (McpTablesOK /\ AsksOK /\ TokenIsHeld /\ RequestsOK)'
<1> DEFINE q == [NoAsk EXCEPT !.pc = pc, !.of = asks[c].of, !.stale = asks[c].stale]
<1>1. asks[c] \in Ask /\ asks[c].of \in Workspaces
  BY DEF McpInv, AsksOK, RequestsOK, BearerOK, At
<1>2. q \in Ask
  BY <1>1, NoAskType DEF Ask, AskPc
<1>3. q.pc = pc /\ q.of = asks[c].of /\ (q.stale => asks[c].stale)
  BY DEF NoAsk
<1>4. BearerOK(q) /\ SentOK(q)
  BY <1>1, <1>3 DEF BearerOK, SentOK, Presented
<1> QED
  BY <1>2, <1>4, OneAsk DEF Goto

------------------------------------------------------------------------------
(* The count of failures.  Lim is what FailuresBounded compares with.      *)

Lim == MaxFailures + Cardinality(Callers)
Bounded(w) == lockout[w] # NONE => lockout[w].count + Cardinality(InFlight(w)) < Lim

LEMMA InFlightFinite ==
    ASSUME NEW w \in Workspaces
    PROVE  /\ IsFiniteSet(InFlight(w)) /\ Cardinality(InFlight(w)) \in Nat
           /\ Cardinality(Callers) \in Nat /\ Cardinality(InFlight(w)) <= Cardinality(Callers)
<1>1. InFlight(w) \in SUBSET Callers
  BY DEF InFlight
<1> QED
  BY <1>1, CallersAssumption, FS_Subset, FS_CardinalityType

(* Of a request that leaves the flight, and of one that joins it           *)
LEMMA InFlightStep ==
    ASSUME AsksOK, NEW w \in Workspaces, NEW c \in Callers, NEW q, asks' = [asks EXCEPT ![c] = q]
    PROVE  /\ InFlight(w)' \in {InFlight(w), InFlight(w) \ {c}, InFlight(w) \union {c}}
           /\ ~(q.of = w /\ q.pc \in {"lookup", "compare", "record"}) =>
                InFlight(w)' = InFlight(w) \ {c}
           /\ q.of = asks[c].of /\ q.pc \in {"lookup", "compare", "record"}
              /\ asks[c].pc \in {"lookup", "compare", "record"} =>
                InFlight(w)' = InFlight(w)
<1>1. \A d \in Callers : asks'[d] = IF d = c THEN q ELSE asks[d]
  BY DEF AsksOK
<1> QED
  BY <1>1 DEF InFlight

(* A flight that does not grow keeps the bound where nothing is recorded.  *)
LEMMA NothingJoins ==
    ASSUME LockoutOK, NEW w \in Workspaces, Bounded(w), lockout'[w] = lockout[w],
           InFlight(w)' \subseteq InFlight(w)
    PROVE  Bounded(w)'
<1>1. Cardinality(InFlight(w)') \in Nat /\ Cardinality(InFlight(w)') <= Cardinality(InFlight(w))
  BY InFlightFinite, FS_Subset, FS_CardinalityType
<1> QED
  BY <1>1, InFlightFinite, LockoutAssumption DEF Bounded, LockoutOK, Lim

(* A failure that is recorded leaves the flight.                           *)
LEMMA FailureLeaves ==
    ASSUME McpInv, NEW c \in Callers, asks[c].pc \in {"lookup", "compare", "record"},
           RecordFailure(asks[c].of), Answer(c)
    PROVE  LockoutOK' /\ FailuresBounded'
<1> DEFINE w == asks[c].of
<1>1. w \in Workspaces /\ clock \in Instants
  BY DEF McpInv, AsksOK, RequestsOK, BearerOK, McpTablesOK
<1>2. LockoutOK'
  BY <1>1 DEF McpInv, LockoutOK, RecordFailure, NoFailures, Instants
<1>3. ASSUME NEW v \in Workspaces PROVE Bounded(v)'
  <2>1. InFlight(v)' = InFlight(v) \ {c}
    <3>1. NoAsk.pc = "idle"
      BY DEF NoAsk
    <3> QED
      BY <3>1, InFlightStep DEF McpInv, Answer
  <2>2. Bounded(v) /\ AsksOK /\ LockoutOK
    BY DEF McpInv, FailuresBounded, Bounded, Lim
  <2>3. CASE v # w
    BY <2>1, <2>2, <2>3, NothingJoins DEF RecordFailure, LockoutOK
  <2>4. CASE v = w
    <3>1. c \in InFlight(w)
      BY DEF InFlight
    <3>2. Cardinality(InFlight(w) \ {c}) = Cardinality(InFlight(w)) - 1
      BY <1>1, <3>1, InFlightFinite, FS_RemoveElement
    <3>3. lockout'[w].count = (IF lockout[w] = NONE THEN 0 ELSE lockout[w].count) + 1
      BY <1>1, <2>2 DEF RecordFailure, LockoutOK, NoFailures
    <3> QED
      BY <1>1, <2>1, <2>2, <2>4, <3>2, <3>3, InFlightFinite, LockoutAssumption
      DEF Bounded, LockoutOK, Lim
  <2> QED
    BY <2>3, <2>4
<1> QED
  BY <1>2, <1>3 DEF FailuresBounded, Bounded, Lim

(* A window begins with no failures, however many requests are in flight.  *)
LEMMA FreshBounded ==
    ASSUME NEW w \in Workspaces, lockout'[w].count = 0
    PROVE  Bounded(w)'
<1>1. InFlight(w)' \in SUBSET Callers
  BY DEF InFlight
<1>2. Cardinality(InFlight(w)') \in Nat /\ Cardinality(InFlight(w)') <= Cardinality(Callers)
  BY <1>1, CallersAssumption, FS_Subset, FS_CardinalityType
<1> QED
  BY <1>2, CallersAssumption, FS_CardinalityType, LockoutAssumption DEF Bounded, Lim

(* A step of one request that records nothing and joins no flight          *)
LEMMA QuietStep ==
    ASSUME McpInv, NEW c \in Callers, NEW q, asks' = [asks EXCEPT ![c] = q], lockout' = lockout,
           \/ q.pc \notin {"lookup", "compare", "record"}
           \/ /\ q.of = asks[c].of
              /\ q.pc \in {"lookup", "compare", "record"}
              /\ asks[c].pc \in {"lookup", "compare", "record"}
    PROVE  LockoutOK' /\ FailuresBounded'
<1>1. ASSUME NEW w \in Workspaces PROVE Bounded(w)'
  <2>1. InFlight(w)' \in {InFlight(w) \ {c}, InFlight(w)}
    <3>1. AsksOK
      BY DEF McpInv
    <3>2. CASE q.pc \notin {"lookup", "compare", "record"}
      BY <3>1, <3>2, InFlightStep
    <3>3. CASE q.pc \in {"lookup", "compare", "record"}
      BY <3>1, <3>3, InFlightStep
    <3> QED
      BY <3>2, <3>3
  <2>2. Bounded(w) /\ LockoutOK
    BY DEF McpInv, FailuresBounded, Bounded, Lim
  <2> QED
    BY <2>1, <2>2, NothingJoins
<1> QED
  BY <1>1 DEF McpInv, LockoutOK, FailuresBounded, Bounded, Lim

(* A step that leaves every request where it is, and the lockout           *)
LEMMA TablesStep ==
    ASSUME McpInv, asks' = asks, lockout' = lockout
    PROVE  LockoutOK' /\ FailuresBounded' /\ AsksOK'
  BY DEF McpInv, LockoutOK, FailuresBounded, AsksOK, InFlight

LEMMA InitMcpInv == InitMcp => McpInv
<1> SUFFICES ASSUME InitMcp PROVE McpInv
  OBVIOUS
<1>1. McpTablesOK /\ LockoutOK /\ TokenIsHeld /\ FailuresBounded
  BY LockoutAssumption DEF InitMcp, McpTablesOK, LockoutOK, TokenIsHeld, FailuresBounded, Bearer, Instants
<1>2. AsksOK /\ RequestsOK
  BY NoAskType DEF InitMcp, AsksOK, RequestsOK
<1> QED
  BY <1>1, <1>2 DEF McpInv

LEMMA BearerStep == ASSUME McpInv, NEW c \in Callers, Check(c) PROVE McpInv'
<1> DEFINE w == asks[c].of
           entry == Entry(w)
<1>1. /\ At(c, "check") /\ asks[c] \in Ask /\ w \in Workspaces /\ clock \in Instants
      /\ BearerOK(asks[c]) /\ UNCHANGED <<clock, token, holder>> /\ AsksOK /\ LockoutOK
  BY DEF McpInv, AsksOK, RequestsOK, BearerOK, McpTablesOK, At, Check, db
<1>2. CASE asks[c].bearer = NONE
  <2>1. Answer(c) /\ lockout' = lockout
    BY <1>2 DEF Check
  <2>2. NoAsk.pc = "idle"
    BY DEF NoAsk
  <2> QED
    BY <1>1, <2>1, <2>2, GoneAsk, QuietStep DEF McpInv, Answer
<1>3. CASE asks[c].bearer # NONE
  <2> DEFINE q == [asks[c] EXCEPT !.pc = "lookup"]
  <2>1. lockout' = [lockout EXCEPT ![w] = entry]
        /\ \/ entry.count >= MaxFailures /\ Goto(c, "locked")
           \/ ~(entry.count >= MaxFailures) /\ asks' = [asks EXCEPT ![c] = q]
    BY <1>3 DEF Check
  <2>2. entry \in [count : Nat, start : Instants] /\ (entry.count = 0 \/ entry = lockout[w])
    BY <1>1 DEF Entry, NoFailures, LockoutOK, Instants
  <2>3. LockoutOK'
    BY <1>1, <2>1, <2>2 DEF LockoutOK
  <2>4. entry # NONE /\ \A v \in Workspaces : lockout'[v] = IF v = w THEN entry ELSE lockout[v]
    BY <1>1, <2>1, <2>2, NoEntryAssumption DEF LockoutOK, Instants
  <2>5. CASE Goto(c, "locked")
    <3> DEFINE r == [NoAsk EXCEPT !.pc = "locked", !.of = asks[c].of, !.stale = asks[c].stale]
    <3>1. (McpTablesOK /\ AsksOK /\ TokenIsHeld /\ RequestsOK)'
      BY <1>1, <2>5, SettledAsk
    <3>2. asks' = [asks EXCEPT ![c] = r] /\ r.pc = "locked"
      BY <2>5 DEF Goto, NoAsk
    <3>3. ASSUME NEW v \in Workspaces PROVE Bounded(v)'
      <4>1. InFlight(v)' \subseteq InFlight(v)
        <5> HIDE DEF r
        <5>1. InFlight(v)' = InFlight(v) \ {c}
          BY <1>1, <3>2, InFlightStep
        <5> QED
          BY <5>1
      <4>2. Bounded(v)
        BY DEF McpInv, FailuresBounded, Bounded, Lim
      <4>3. CASE lockout'[v] = lockout[v]
        BY <1>1, <4>1, <4>2, <4>3, NothingJoins
      <4>4. CASE lockout'[v].count = 0
        BY <4>4, FreshBounded
      <4> QED
        BY <2>2, <2>4, <4>3, <4>4
    <3> QED
      BY <2>3, <3>1, <3>3 DEF McpInv, FailuresBounded, Bounded, Lim
  <2>6. CASE ~(entry.count >= MaxFailures) /\ asks' = [asks EXCEPT ![c] = q]
    <3>1. q \in Ask /\ q.pc = "lookup" /\ q.of = w /\ q.bearer = asks[c].bearer
          /\ (q.stale <=> asks[c].stale)
      BY <1>1 DEF Ask, AskPc
    <3>2. BearerOK(q) /\ SentOK(q)
      BY <1>1, <1>3, <3>1 DEF BearerOK, SentOK, Presented, At
    <3>3. (McpTablesOK /\ AsksOK /\ TokenIsHeld /\ RequestsOK)'
      BY <1>1, <2>6, <3>1, <3>2, OneAsk
    <3>4. ASSUME NEW v \in Workspaces PROVE Bounded(v)'
      <4>1. Bounded(v) /\ InFlight(v)' \in SUBSET Callers
        BY DEF McpInv, FailuresBounded, Bounded, Lim, InFlight
      <4>2. CASE v = w
        <5>1. Cardinality(InFlight(v)') \in Nat /\ Cardinality(InFlight(v)') <= Cardinality(Callers)
          BY <4>1, CallersAssumption, FS_Subset, FS_CardinalityType
        <5>2. lockout'[v].count \in Nat /\ lockout'[v].count < MaxFailures
          BY <2>2, <2>4, <2>6, <4>2, LockoutAssumption
        <5> QED
          BY <5>1, <5>2, CallersAssumption, FS_CardinalityType, LockoutAssumption DEF Bounded, Lim
      <4>3. CASE v # w
        <5>1. InFlight(v)' \subseteq InFlight(v)
          BY <1>1, <2>6, <3>1, <4>3, InFlightStep
        <5> QED
          BY <1>1, <2>4, <4>1, <4>3, <5>1, NothingJoins
      <4> QED
        BY <4>2, <4>3
    <3> QED
      BY <2>3, <3>3, <3>4 DEF McpInv, FailuresBounded, Bounded, Lim
  <2> QED
    BY <2>1, <2>5, <2>6
<1> QED
  BY <1>2, <1>3

LEMMA ArriveStep ==
    ASSUME McpInv, NEW c \in Callers, NEW w \in Workspaces, NEW b \in Bearers \union {NONE}, Arrive(c, w, b)
    PROVE  McpInv'
<1> DEFINE q == [NoAsk EXCEPT !.pc = "check", !.of = w, !.bearer = b, !.stale = token[w] # b]
<1>1. asks' = [asks EXCEPT ![c] = q] /\ UNCHANGED <<clock, token, holder, lockout>>
      /\ (b # NONE => b \in Bearers /\ holder[b] # NONE)
  BY DEF Arrive, db
<1>2. q \in Ask
  BY NoAskType DEF Ask, AskPc, Bearer
<1>3. q.pc = "check" /\ q.of = w /\ q.bearer = b /\ (q.stale <=> token[w] # b)
  BY DEF NoAsk
<1> HIDE DEF q
<1>4. BearerOK(q) /\ SentOK(q)
  BY <1>1, <1>3 DEF BearerOK, SentOK, Presented
<1> QED
  BY <1>1, <1>2, <1>3, <1>4, OneAsk, QuietStep DEF McpInv

(* A step that only moves a request on, to another step of the same flight *)
(* or out of it                                                            *)
LEMMA MovesOn ==
    ASSUME McpInv, NEW c \in Callers, NEW q \in Ask, BearerOK(q), SentOK(q),
           asks' = [asks EXCEPT ![c] = q], UNCHANGED <<clock, token, holder, lockout>>,
           \/ q.pc \notin {"lookup", "compare", "record"}
           \/ /\ q.of = asks[c].of
              /\ q.pc \in {"lookup", "compare", "record"}
              /\ asks[c].pc \in {"lookup", "compare", "record"}
    PROVE  McpInv'
  BY OneAsk, QuietStep DEF McpInv

LEMMA Departs ==
    ASSUME McpInv, NEW c \in Callers, Answer(c), UNCHANGED <<clock, token, holder, lockout>>
    PROVE  McpInv'
<1>1. NoAsk.pc = "idle"
  BY DEF NoAsk
<1> QED
  BY <1>1, NoAskType, MovesOn DEF Answer

LEMMA LookupStep == ASSUME McpInv, NEW c \in Callers, Lookup(c) PROVE McpInv'
<1> DEFINE b == token[asks[c].of]
           q == [asks[c] EXCEPT !.pc = "compare", !.found = b]
<1>1. UNCHANGED <<clock, token, holder, lockout>> /\ asks[c].pc = "lookup" /\ asks[c] \in Ask
      /\ BearerOK(asks[c]) /\ b \in Bearer
  BY DEF Lookup, db, At, McpInv, AsksOK, RequestsOK, McpTablesOK, BearerOK
<1>2. CASE Answer(c)
  BY <1>1, <1>2, Departs
<1>3. CASE asks' = [asks EXCEPT ![c] = q]
  <2>1. q \in Ask
    BY <1>1 DEF Ask, AskPc
  <2>2. q.pc = "compare" /\ q.of = asks[c].of /\ q.bearer = asks[c].bearer /\ q.found = b
        /\ (q.stale <=> asks[c].stale)
    BY <1>1 DEF Ask
  <2> HIDE DEF q
  <2>3. BearerOK(q) /\ SentOK(q)
    BY <1>1, <2>2 DEF BearerOK, SentOK, Presented
  <2> QED
    BY <1>1, <1>3, <2>1, <2>2, <2>3, MovesOn
<1> QED
  BY <1>2, <1>3 DEF Lookup

LEMMA CompareStep == ASSUME McpInv, NEW c \in Callers, Compare(c) PROVE McpInv'
<1> DEFINE w == asks[c].of
<1>1. UNCHANGED <<clock, token, holder>> /\ asks[c].pc = "compare" /\ asks[c] \in Ask
      /\ BearerOK(asks[c]) /\ w \in Workspaces /\ clock \in Instants /\ AsksOK /\ LockoutOK
  BY DEF Compare, db, At, McpInv, AsksOK, RequestsOK, McpTablesOK, BearerOK
<1>2. CASE RecordFailure(w) /\ Answer(c)
  BY <1>1, <1>2, FailureLeaves, GoneAsk DEF McpInv
<1>3. CASE asks[c].found = asks[c].bearer /\ RecordSuccess(w) /\ Goto(c, "open")
  <2>1. (McpTablesOK /\ AsksOK /\ TokenIsHeld /\ RequestsOK)'
    BY <1>1, <1>3, SettledAsk DEF At, BearerOK
  <2>2. LockoutOK'
    BY <1>1, <1>3 DEF RecordSuccess, NoFailures, LockoutOK, Instants
  <2> DEFINE r == [NoAsk EXCEPT !.pc = "open", !.of = asks[c].of, !.stale = asks[c].stale]
  <2>3. asks' = [asks EXCEPT ![c] = r] /\ r.pc = "open"
    BY <1>3 DEF Goto, NoAsk
  <2> HIDE DEF r
  <2>4. ASSUME NEW v \in Workspaces PROVE Bounded(v)'
    <3>1. Bounded(v) /\ InFlight(v)' = InFlight(v) \ {c}
      BY <1>1, <2>3, InFlightStep DEF McpInv, FailuresBounded, Bounded, Lim
    <3>2. CASE v = w
      <4>1. lockout'[v].count = 0
        BY <1>1, <1>3, <3>2 DEF RecordSuccess, NoFailures, LockoutOK
      <4> QED
        BY <4>1, FreshBounded
    <3>3. CASE v # w
      <4>1. lockout'[v] = lockout[v] /\ InFlight(v)' \subseteq InFlight(v)
        BY <1>1, <1>3, <3>1, <3>3 DEF RecordSuccess, LockoutOK
      <4> QED
        BY <1>1, <3>1, <4>1, NothingJoins
    <3> QED
      BY <3>2, <3>3
  <2> QED
    BY <2>1, <2>2, <2>4 DEF McpInv, FailuresBounded, Bounded, Lim
<1>4. CASE NothingRecorded /\ Goto(c, "record")
  <2> DEFINE r == [NoAsk EXCEPT !.pc = "record", !.of = asks[c].of, !.stale = asks[c].stale]
  <2>1. asks' = [asks EXCEPT ![c] = r] /\ r.pc = "record" /\ r.of = asks[c].of /\ lockout' = lockout
    BY <1>4 DEF Goto, NoAsk, NothingRecorded
  <2>2. (McpTablesOK /\ AsksOK /\ TokenIsHeld /\ RequestsOK)'
    BY <1>1, <1>4, SettledAsk DEF At
  <2> HIDE DEF r
  <2> QED
    BY <1>1, <2>1, <2>2, QuietStep DEF McpInv
<1> QED
  BY <1>2, <1>3, <1>4 DEF Compare

LEMMA RecordStep == ASSUME McpInv, NEW c \in Callers, Record(c) PROVE McpInv'
  BY FailureLeaves, GoneAsk DEF Record, At, McpInv, db

LEMMA SanitizeStep ==
    ASSUME McpInv, NEW c \in Callers, NEW q \in Requests, SanitizeRequest(c, q)
    PROVE  McpInv'
<1> DEFINE w == asks[c].of
           a == [asks[c] EXCEPT !.pc = "token", !.sent = Sanitized(w, q)]
<1>1. UNCHANGED <<clock, token, holder, lockout>> /\ asks[c].pc = "open" /\ asks[c] \in Ask
      /\ BearerOK(asks[c]) /\ w \in Workspaces
  BY DEF SanitizeRequest, db, At, McpInv, AsksOK, RequestsOK, BearerOK
<1>2. CASE Answer(c)
  BY <1>1, <1>2, Departs
<1>3. CASE asks' = [asks EXCEPT ![c] = a]
  <2>1. Sanitized(w, q) \in Body /\ IsOwn(Sanitized(w, q), w)
    BY <1>1, SanitizedOwn
  <2>2. a \in Ask
    BY <1>1, <2>1 DEF Ask, AskPc
  <2>3. a.pc = "token" /\ a.of = w /\ a.sent = Sanitized(w, q) /\ (a.stale <=> asks[c].stale)
    BY <1>1 DEF Ask
  <2> HIDE DEF a
  <2>4. BearerOK(a) /\ SentOK(a)
    BY <1>1, <2>1, <2>3 DEF BearerOK, SentOK, Presented
  <2> QED
    BY <1>1, <1>3, <2>2, <2>3, <2>4, MovesOn
<1> QED
  BY <1>2, <1>3 DEF SanitizeRequest

LEMMA FindStep == ASSUME McpInv, NEW c \in Callers, FindToken(c) PROVE McpInv'
<1> DEFINE w == asks[c].of
           b == token[w]
           a == [asks[c] EXCEPT !.pc = "forward", !.as = b]
<1>1. UNCHANGED <<clock, token, holder, lockout>> /\ asks[c].pc = "token" /\ asks[c] \in Ask
      /\ BearerOK(asks[c]) /\ SentOK(asks[c]) /\ w \in Workspaces /\ b \in Bearer
  BY DEF FindToken, db, At, McpInv, AsksOK, RequestsOK, BearerOK, McpTablesOK
<1>2. CASE Answer(c)
  BY <1>1, <1>2, Departs
<1>3. CASE b # NONE /\ asks' = [asks EXCEPT ![c] = a]
  <2>1. a \in Ask
    BY <1>1 DEF Ask, AskPc
  <2>2. a.pc = "forward" /\ a.of = w /\ a.as = b /\ a.sent = asks[c].sent /\ (a.stale <=> asks[c].stale)
    BY <1>1 DEF Ask
  <2>3. b \in Bearers /\ holder[b] = w
    BY <1>1, <1>3 DEF Bearer, McpInv, TokenIsHeld
  <2> HIDE DEF a
  <2>4. BearerOK(a) /\ SentOK(a)
    BY <1>1, <2>2, <2>3 DEF BearerOK, SentOK, Presented
  <2> QED
    BY <1>1, <1>3, <2>1, <2>2, <2>4, MovesOn
<1> QED
  BY <1>2, <1>3 DEF FindToken

LEMMA RotateStep ==
    ASSUME McpInv, NEW w \in Workspaces, NEW b \in Bearers, Rotate(w, b)
    PROVE  McpInv'
<1>1. asks' = asks /\ lockout' = lockout /\ clock' = clock /\ holder[b] = NONE
      /\ holder' = [holder EXCEPT ![b] = w] /\ token' = [token EXCEPT ![w] = b]
  BY DEF Rotate
<1>2. McpTablesOK' /\ TokenIsHeld'
  BY <1>1, NobodyAssumption, NoBearerAssumption DEF McpInv, McpTablesOK, TokenIsHeld, Bearer
<1>3. ASSUME NEW c \in Callers PROVE (BearerOK(asks[c]) /\ SentOK(asks[c]))'
  <2>1. BearerOK(asks[c]) /\ SentOK(asks[c]) /\ asks[c] \in Ask
    BY DEF McpInv, AsksOK, RequestsOK
  <2>2. \A x \in Bearers : holder[x] # NONE => holder'[x] = holder[x] /\ x # b
    BY <1>1 DEF McpInv, McpTablesOK
  <2>3. \A v \in Workspaces : token'[v] = token[v] \/ token'[v] = b
    BY <1>1 DEF McpInv, McpTablesOK
  <2>4. BearerOK(asks[c])'
    BY <1>1, <2>1, <2>2, <2>3 DEF BearerOK, Presented
  <2>5. SentOK(asks[c])'
    BY <1>1, <2>1, <2>2, NobodyAssumption DEF SentOK, BearerOK
  <2> QED
    BY <2>4, <2>5
<1> QED
  BY <1>1, <1>2, <1>3, TablesStep DEF McpInv, RequestsOK

LEMMA TearDownStep == ASSUME McpInv, NEW w \in Workspaces, TearDown(w) PROVE McpInv'
<1>1. asks' = asks /\ lockout' = lockout /\ clock' = clock /\ holder' = holder
      /\ token' = [token EXCEPT ![w] = NONE]
  BY DEF TearDown
<1>2. McpTablesOK' /\ TokenIsHeld'
  BY <1>1 DEF McpInv, McpTablesOK, TokenIsHeld, Bearer
<1>3. ASSUME NEW c \in Callers PROVE (BearerOK(asks[c]) /\ SentOK(asks[c]))'
  <2>1. BearerOK(asks[c]) /\ SentOK(asks[c])
    BY DEF McpInv, RequestsOK
  <2>2. \A v \in Workspaces : token'[v] = token[v] \/ token'[v] \notin Bearers
    BY <1>1, NoBearerAssumption DEF McpInv, McpTablesOK
  <2> QED
    BY <1>1, <2>1, <2>2 DEF BearerOK, SentOK, Presented
<1> QED
  BY <1>1, <1>2, <1>3, TablesStep DEF McpInv, RequestsOK

LEMMA OtherStep ==
    ASSUME McpInv, TickMcp \/ RestartMcp \/ UNCHANGED mcpVars
    PROVE  McpInv'
<1>1. CASE TickMcp
  <2>1. asks' = asks /\ lockout' = lockout /\ token' = token /\ holder' = holder
        /\ clock' \in Instants
    BY <1>1, LockoutAssumption DEF TickMcp, McpInv, McpTablesOK, Instants
  <2> QED
    BY <2>1, TablesStep DEF McpInv, McpTablesOK, TokenIsHeld, RequestsOK, BearerOK, SentOK
<1>2. CASE RestartMcp
  <2>1. UNCHANGED <<clock, token, holder>> /\ lockout' = [w \in Workspaces |-> NONE]
        /\ asks' = [c \in Callers |-> NoAsk]
    BY <1>2 DEF RestartMcp, db
  <2>2. McpTablesOK' /\ TokenIsHeld' /\ LockoutOK' /\ FailuresBounded'
    BY <2>1 DEF McpInv, McpTablesOK, TokenIsHeld, LockoutOK, FailuresBounded
  <2>3. AsksOK'
    BY <2>1, NoAskType DEF AsksOK
  <2>4. NoAsk.pc = "idle" /\ ~NoAsk.stale
    BY DEF NoAsk
  <2>5. RequestsOK'
    BY <2>1, <2>4 DEF RequestsOK, BearerOK, SentOK, Presented
  <2> QED
    BY <2>2, <2>3, <2>5 DEF McpInv
<1>3. CASE UNCHANGED mcpVars
  BY <1>3, TablesStep DEF mcpVars, McpInv, McpTablesOK, TokenIsHeld, RequestsOK, BearerOK, SentOK
<1> QED
  BY <1>1, <1>2, <1>3

LEMMA NextMcpInv == McpInv /\ [McpNext]_mcpVars => McpInv'
<1> SUFFICES ASSUME McpInv, [McpNext]_mcpVars PROVE McpInv'
  OBVIOUS
<1>1. ASSUME NEW c \in Callers, Call(c) PROVE McpInv'
  <2>1. CASE Depart(c)
    BY <2>1, Departs DEF Depart, db
  <2> QED
    BY <1>1, <2>1, ArriveStep, BearerStep, LookupStep, CompareStep, RecordStep, SanitizeStep, FindStep
    DEF Call
<1> QED
  BY <1>1, RotateStep, TearDownStep, OtherStep DEF McpNext

(* The bearers, the bodies and the count hold together                     *)
THEOREM McpInvariance == McpSpec => []McpInv
<1> QED
  BY InitMcpInv, NextMcpInv, PTL DEF McpSpec

(* No request with a bearer that was stale when it arrived gets past the   *)
(* check, and what is forwarded is the workspace's own (mcp_proxy.rs:      *)
(* 304-391, 438-468, 611-625).                                             *)
THEOREM AlwaysOnlyItsOwn == McpSpec => []OnlyItsOwn
<1>1. McpInv => OnlyItsOwn
  BY DEF McpInv, RequestsOK, BearerOK, SentOK, IsOwn, OnlyItsOwn, StaleIsRefused, ForwardedIsOwn, At
<1> QED
  BY McpInvariance, <1>1, PTL

(* The failures counted pass the limit by no more than the requests there  *)
(* can be at a time (mcp_proxy.rs:182-224).                                *)
THEOREM FailuresAlwaysBounded == McpSpec => []FailuresBounded
<1>1. McpInv => FailuresBounded
  BY DEF McpInv
<1> QED
  BY McpInvariance, <1>1, PTL

------------------------------------------------------------------------------
(* The failures behind an entry *)

(* The last n of the failures came no earlier than s.                      *)
Backs(f, n, s) == n <= Len(f) /\ \A i \in 1..Len(f) : i > Len(f) - n => f[i] >= s

(* What an entry counts are failures since its start, while its window     *)
(* lasts, up to the limit.                                                 *)
Counted(n) == IF n < MaxFailures THEN n ELSE MaxFailures
EntryIsBacked(w) == lockout[w] # NONE =>
    /\ lockout[w].start <= clock
    /\ clock - lockout[w].start <= Window =>
          Backs(failures[w], Counted(lockout[w].count), lockout[w].start)

FailuresOK ==
    /\ failures \in [Workspaces -> Seq(Instants)]
    /\ \A w \in Workspaces : Len(failures[w]) <= MaxFailures
HistoryOK == FailuresOK /\ \A w \in Workspaces : EntryIsBacked(w)

(* A set of numbers has a least one, and a bounded one a greatest.         *)
Less == {p \in Nat \X Nat : p[1] < p[2]}
LEMMA LessIsWellFounded == IsWellFoundedOn(Less, Nat)
<1>1. OpToRel(<, Nat) = Less
  BY Zenon DEF OpToRel, Less
<1> QED
  BY NatLessThanWellFounded, <1>1, Zenon

LEMMA Least ==
    ASSUME NEW T \in SUBSET Nat, T # {}
    PROVE  \E x \in T : \A y \in T : x <= y
<1>1. PICK x \in T : \A y \in T : ~(<<y, x>> \in Less)
  BY LessIsWellFounded, WFMin
<1>2. \A y \in Nat, z \in Nat : y < z => <<y, z>> \in Less
  BY DEF Less
<1>3. ASSUME NEW y \in T PROVE x <= y
  <2>1. x \in Nat /\ y \in Nat /\ ~(y < x)
    BY <1>1, <1>2
  <2> QED
    BY <2>1
<1> QED
  BY <1>3

LEMMA Greatest ==
    ASSUME NEW n \in Nat, NEW T \in SUBSET (1..n), T # {}
    PROVE  Max(T) \in T /\ \A y \in T : Max(T) >= y
<1> DEFINE U == {u \in 0..n : n - u \in T}
<1>1. U \in SUBSET Nat /\ U # {}
  <2>1. PICK x \in T : TRUE
    OBVIOUS
  <2>2. n - x \in 0..n /\ n - (n - x) = x
    OBVIOUS
  <2>3. n - x \in U
    BY <2>2
  <2>4. U \subseteq 0..n /\ 0..n \subseteq Nat
    OBVIOUS
  <2> QED
    BY <2>3, <2>4
<1>2. PICK u \in U : \A v \in U : u <= v
  BY <1>1, Least
<1>3. ASSUME NEW y \in T PROVE n - u >= y
  <2>1. y \in 1..n /\ n - y \in 0..n /\ n - (n - y) = y
    OBVIOUS
  <2>2. u <= n - y /\ u \in 0..n
    BY <1>2, <2>1
  <2> QED
    BY <2>1, <2>2
<1>4. \E x \in T : \A y \in T : x >= y
  BY <1>3
<1> QED
  BY <1>4 DEF Max

(* What is recent is the end of what there was, and nothing of the window  *)
(* is missing from it.                                                     *)
LEMMA RecentIsEnd ==
    ASSUME NEW f \in Seq(Instants), NEW now \in Nat
    PROVE  /\ Recent(f, now) \in Seq(Instants) /\ Len(Recent(f, now)) <= Len(f)
           /\ \A n \in Nat, s \in Nat :
                Backs(f, n, s) /\ now - s <= Window => Backs(Recent(f, now), n, s)
<1> DEFINE I == {i \in 1..Len(f) : now - f[i] > Window}
           k == IF I # {} THEN Max(I) ELSE 0
           g == SubSeq(f, 1 + k, Len(f))
<1>1. Recent(f, now) = g
  BY DEF Recent, SelectLastInSeq
<1>2. Len(f) \in Nat /\ \A i \in 1..Len(f) : f[i] \in Nat
  <2>1. Instants \subseteq Nat
    BY LockoutAssumption DEF Instants
  <2>2. ASSUME NEW i \in 1..Len(f) PROVE f[i] \in Nat
    <3>1. f[i] \in Instants
      BY ElementOfSeq
    <3> QED
      BY <2>1, <3>1
  <2>3. Len(f) \in Nat
    OBVIOUS
  <2> QED
    BY <2>2, <2>3
<1>3. k \in 0..Len(f) /\ (k # 0 => k \in I)
  <2>1. CASE I = {}
    BY <1>2, <2>1
  <2>2. CASE I # {}
    <3>1. I \in SUBSET (1..Len(f))
      OBVIOUS
    <3> HIDE DEF I
    <3>2. Max(I) \in I
      BY <1>2, <2>2, <3>1, Greatest
    <3>3. k = Max(I) /\ k \in 1..Len(f)
      BY <2>2, <3>1, <3>2
    <3> HIDE DEF k
    <3> QED
      BY <1>2, <3>2, <3>3
  <2> QED
    BY <2>1, <2>2
<1> HIDE DEF k
<1>4. g \in Seq(Instants) /\ Len(g) = Len(f) - k /\ \A i \in 1..Len(g) : g[i] = f[k + i]
  <2>1. 1 + k \in Int /\ Len(f) \in Int /\ \A i \in (1 + k)..Len(f) : f[i] \in Instants
    BY <1>2, <1>3
  <2>2. /\ g \in Seq(Instants)
        /\ Len(g) = IF 1 + k <= Len(f) THEN Len(f) - (1 + k) + 1 ELSE 0
        /\ \A i \in 1..(Len(f) - (1 + k) + 1) : g[i] = f[(1 + k) + i - 1]
    BY <2>1, SubSeqProperties
  <2>3. Len(g) = Len(f) - k
    BY <1>2, <1>3, <2>2
  <2>4. ASSUME NEW i \in 1..Len(g) PROVE g[i] = f[k + i]
    <3>1. i \in 1..(Len(f) - (1 + k) + 1) /\ (1 + k) + i - 1 = k + i
      BY <1>2, <1>3, <2>3
    <3> QED
      BY <2>2, <3>1
  <2> QED
    BY <2>2, <2>3, <2>4
<1> HIDE DEF g
<1>5. ASSUME NEW n \in Nat, NEW s \in Nat, Backs(f, n, s), now - s <= Window PROVE Backs(g, n, s)
  <2>1. k <= Len(f) - n
    <3>1. SUFFICES ASSUME k > Len(f) - n PROVE FALSE
      BY <1>2, <1>3
    <3>2. k # 0 /\ k \in 1..Len(f) /\ now - f[k] > Window
      BY <1>2, <1>3, <1>5, <3>1 DEF Backs
    <3>3. f[k] >= s /\ f[k] \in Nat
      BY <1>2, <1>5, <3>1, <3>2 DEF Backs
    <3> QED
      BY <1>5, <3>2, <3>3, LockoutAssumption
  <2>2. n <= Len(g)
    BY <1>2, <1>3, <1>4, <2>1
  <2>3. ASSUME NEW i \in 1..Len(g), i > Len(g) - n PROVE g[i] >= s
    <3>1. k + i \in 1..Len(f) /\ k + i > Len(f) - n
      BY <1>2, <1>3, <1>4, <2>3
    <3> QED
      BY <1>4, <1>5, <3>1 DEF Backs
  <2> QED
    BY <2>2, <2>3 DEF Backs
<1> QED
  BY <1>1, <1>2, <1>3, <1>4, <1>5

(* One more failure of now backs one more in the count, up to the limit.   *)
LEMMA OneMoreBacks ==
    ASSUME NEW f \in Seq(Instants), Len(f) <= MaxFailures, NEW t \in Instants
    PROVE  LET g == IF Len(f) < MaxFailures THEN Append(f, t) ELSE Append(Tail(f), t) IN
           /\ g \in Seq(Instants) /\ Len(g) <= MaxFailures
           /\ \A n \in Nat, s \in Nat :
                s <= t /\ Backs(f, Counted(n), s) => Backs(g, Counted(n + 1), s)
<1> DEFINE g == IF Len(f) < MaxFailures THEN Append(f, t) ELSE Append(Tail(f), t)
           d == IF Len(f) < MaxFailures THEN 0 ELSE 1
<1>1. Len(f) \in Nat /\ MaxFailures \in Nat \ {0} /\ t \in Nat /\ d \in 0..1
  BY LockoutAssumption DEF Instants
<1>2. /\ g \in Seq(Instants) /\ Len(g) = Len(f) + 1 - d /\ g[Len(g)] = t
      /\ \A i \in 1..(Len(g) - 1) : g[i] = f[d + i]
  <2>1. CASE Len(f) < MaxFailures
    BY <1>1, <2>1, AppendProperties
  <2>2. CASE ~(Len(f) < MaxFailures)
    <3> DEFINE h == Tail(f)
    <3>1. f # <<>>
      BY <1>1, <2>2
    <3>2. h \in Seq(Instants) /\ Len(h) = Len(f) - 1 /\ \A i \in 1..Len(h) : h[i] = f[i + 1]
      BY <3>1, HeadTailProperties
    <3> HIDE DEF h
    <3>3. /\ Append(h, t) \in Seq(Instants) /\ Len(Append(h, t)) = Len(h) + 1
          /\ Append(h, t)[Len(h) + 1] = t /\ \A i \in 1..Len(h) : Append(h, t)[i] = h[i]
      BY <3>2, AppendProperties
    <3>4. g = Append(h, t) /\ d = 1
      BY <2>2 DEF h
    <3> HIDE DEF g, d
    <3>5. Len(g) = Len(f) + 1 - d /\ Len(g) - 1 = Len(h)
      BY <1>1, <3>2, <3>3, <3>4
    <3>6. \A i \in 1..(Len(g) - 1) : g[i] = f[d + i]
      BY <3>2, <3>3, <3>4, <3>5
    <3>7. g[Len(g)] = t
      BY <1>1, <3>2, <3>3, <3>4, <3>5
    <3> QED
      BY <3>3, <3>4, <3>5, <3>6, <3>7
  <2> QED
    BY <2>1, <2>2
<1>3. Len(g) <= MaxFailures /\ (Len(g) < MaxFailures => d = 0)
  <2>1. Len(g) = Len(f) + 1 - d
    BY <1>2
  <2> HIDE DEF g
  <2> QED
    BY <1>1, <2>1
<1> HIDE DEF g
<1>4. ASSUME NEW n \in Nat, NEW s \in Nat, s <= t, Backs(f, Counted(n), s)
      PROVE  Backs(g, Counted(n + 1), s)
  <2> DEFINE m == Counted(n)
             m2 == Counted(n + 1)
  <2>1. m \in Nat /\ m2 \in Nat /\ m2 <= m + 1 /\ m2 <= MaxFailures /\ m <= Len(f)
    BY <1>1, <1>4 DEF Counted, Backs
  <2> HIDE DEF m, m2
  <2>2. m2 <= Len(g)
    BY <1>1, <1>2, <2>1
  <2>3. ASSUME NEW i \in 1..Len(g), i > Len(g) - m2 PROVE g[i] >= s
    <3>1. CASE i = Len(g)
      BY <1>1, <1>2, <1>4, <3>1
    <3>2. CASE i # Len(g)
      <4>1. i \in 1..(Len(g) - 1) /\ d + i \in 1..Len(f) /\ d + i > Len(f) - m
        <5> HIDE DEF d
        <5> QED
          BY <1>1, <1>2, <2>1, <2>3, <3>2
      <4>2. f[d + i] >= s
        BY <1>4, <4>1 DEF Backs, m
      <4> QED
        BY <1>2, <4>1, <4>2
    <3> QED
      BY <3>1, <3>2
  <2> QED
    BY <2>2, <2>3 DEF Backs, m2
<1> QED
  BY <1>2, <1>3, <1>4 DEF g

LEMMA InitHistory == InitMcp => HistoryOK
<1> SUFFICES ASSUME InitMcp PROVE HistoryOK
  OBVIOUS
<1>1. \A w \in Workspaces : lockout[w] = NONE /\ failures[w] = <<>>
  BY DEF InitMcp
<1>2. FailuresOK
  BY <1>1, LockoutAssumption DEF InitMcp, FailuresOK
<1> QED
  BY <1>1, <1>2 DEF HistoryOK, EntryIsBacked

LEMMA EntryTypes ==
    ASSUME McpInv, HistoryOK, NEW w \in Workspaces, lockout[w] # NONE
    PROVE  lockout[w] \in [count : Nat, start : Instants] /\ lockout[w].start \in Nat /\ clock \in Nat
  BY LockoutAssumption DEF McpInv, LockoutOK, McpTablesOK, Instants

(* Nothing fails, and at most one workspace's entry begins anew.           *)
LEMMA NothingFails ==
    ASSUME McpInv, HistoryOK, clock' = clock, failures' = failures, NEW w \in Workspaces,
           lockout' = lockout \/ lockout' = [lockout EXCEPT ![w] = NoFailures]
    PROVE  HistoryOK'
<1>1. FailuresOK'
  BY DEF HistoryOK, FailuresOK
<1>2. ASSUME NEW v \in Workspaces PROVE EntryIsBacked(v)'
  <2>1. CASE lockout'[v] = lockout[v]
    BY <2>1 DEF HistoryOK, EntryIsBacked
  <2>2. CASE lockout'[v] = NoFailures
    <3>1. Len(failures[v]) \in Nat /\ clock \in Nat
      BY LockoutAssumption DEF HistoryOK, FailuresOK, McpInv, McpTablesOK, Instants
    <3>2. Backs(failures[v], 0, clock)
      BY <3>1 DEF Backs
    <3>3. NoFailures.count = 0 /\ NoFailures.start = clock /\ Counted(0) = 0
      BY LockoutAssumption DEF NoFailures, Counted
    <3> QED
      BY <2>2, <3>1, <3>2, <3>3 DEF EntryIsBacked
  <2>3. lockout'[v] \in {lockout[v], NoFailures}
    BY DEF McpInv, LockoutOK
  <2> QED
    BY <2>1, <2>2, <2>3
<1> QED
  BY <1>1, <1>2 DEF HistoryOK

LEMMA OneFails ==
    ASSUME McpInv, HistoryOK, clock' = clock, NEW w \in Workspaces, RecordFailure(w)
    PROVE  HistoryOK'
<1> DEFINE old == IF lockout[w] = NONE THEN NoFailures ELSE lockout[w]
           f == failures[w]
           g == IF Len(f) < MaxFailures THEN Append(f, clock) ELSE Append(Tail(f), clock)
<1>1. /\ lockout' = [lockout EXCEPT ![w] = [old EXCEPT !.count = old.count + 1]]
      /\ failures' = [failures EXCEPT ![w] = g]
  BY DEF RecordFailure
<1>2. f \in Seq(Instants) /\ Len(f) \in Nat /\ Len(f) <= MaxFailures /\ clock \in Instants /\ clock \in Nat
  BY LockoutAssumption DEF HistoryOK, FailuresOK, McpInv, McpTablesOK, Instants
<1>3. /\ old \in [count : Nat, start : Instants] /\ old.start \in Nat /\ old.start <= clock
      /\ clock - old.start <= Window => Backs(f, Counted(old.count), old.start)
  <2>1. CASE lockout[w] = NONE
    <3>1. NoFailures \in [count : Nat, start : Instants] /\ NoFailures.count = 0 /\ NoFailures.start = clock
      BY <1>2 DEF NoFailures
    <3>2. Backs(f, Counted(0), clock)
      <4>1. Counted(0) = 0
        BY LockoutAssumption DEF Counted
      <4> QED
        BY <1>2, <4>1 DEF Backs
    <3> QED
      BY <1>2, <2>1, <3>1, <3>2
  <2>2. CASE lockout[w] # NONE
    BY <2>2, EntryTypes DEF HistoryOK, EntryIsBacked
  <2> QED
    BY <2>1, <2>2
<1> HIDE DEF old
<1>4. /\ lockout'[w].count = old.count + 1 /\ lockout'[w].start = old.start
      /\ \A v \in Workspaces : v # w => lockout'[v] = lockout[v]
  BY <1>1, <1>3 DEF McpInv, LockoutOK
<1>5. /\ g \in Seq(Instants) /\ Len(g) <= MaxFailures
      /\ \A n \in Nat, s \in Nat :
            s <= clock /\ Backs(f, Counted(n), s) => Backs(g, Counted(n + 1), s)
  BY <1>2, OneMoreBacks
<1> HIDE DEF g
<1>6. failures'[w] = g /\ \A v \in Workspaces : v # w => failures'[v] = failures[v]
  BY <1>1 DEF HistoryOK, FailuresOK
<1>7. FailuresOK'
  BY <1>1, <1>5, <1>6 DEF HistoryOK, FailuresOK
<1>8. EntryIsBacked(w)'
  <2>1. clock - old.start <= Window => Backs(g, Counted(old.count + 1), old.start)
    BY <1>3, <1>5
  <2> QED
    BY <1>3, <1>4, <1>6, <2>1 DEF EntryIsBacked
<1>9. ASSUME NEW v \in Workspaces, v # w PROVE EntryIsBacked(v)'
  BY <1>4, <1>6, <1>9 DEF HistoryOK, EntryIsBacked
<1> QED
  BY <1>7, <1>8, <1>9 DEF HistoryOK

LEMMA TimePasses == ASSUME McpInv, HistoryOK, TickMcp PROVE HistoryOK'
<1>1. /\ clock' = clock + 1 /\ lockout' = lockout /\ clock \in Nat /\ clock' \in Nat
      /\ failures' = [w \in Workspaces |-> Recent(failures[w], clock')]
  BY LockoutAssumption DEF TickMcp, McpInv, McpTablesOK, Instants
<1>2. ASSUME NEW w \in Workspaces
      PROVE  /\ failures'[w] \in Seq(Instants) /\ Len(failures'[w]) <= MaxFailures
             /\ EntryIsBacked(w)'
  <2> DEFINE f == failures[w]
             e == lockout[w]
  <2>1. f \in Seq(Instants) /\ Len(f) \in Nat /\ Len(f) <= MaxFailures /\ EntryIsBacked(w)
    BY DEF HistoryOK, FailuresOK
  <2>2. /\ failures'[w] \in Seq(Instants) /\ Len(failures'[w]) <= Len(f)
        /\ \A n \in Nat, s \in Nat :
              Backs(f, n, s) /\ clock' - s <= Window => Backs(failures'[w], n, s)
    BY <1>1, <2>1, RecentIsEnd
  <2>3. Len(failures'[w]) <= MaxFailures
    BY <2>1, <2>2, LockoutAssumption
  <2>4. EntryIsBacked(w)'
    <3>1. SUFFICES ASSUME e # NONE
                   PROVE  /\ e.start <= clock'
                          /\ clock' - e.start <= Window => Backs(failures'[w], Counted(e.count), e.start)
      BY <1>1 DEF EntryIsBacked
    <3>2. e.count \in Nat /\ e.start \in Nat /\ e.start <= clock
      BY <2>1, <3>1, EntryTypes DEF EntryIsBacked
    <3>3. Counted(e.count) \in Nat
      BY <3>2, LockoutAssumption DEF Counted
    <3>4. clock' - e.start <= Window => clock - e.start <= Window
      BY <1>1, <3>2, LockoutAssumption
    <3> QED
      BY <1>1, <2>1, <2>2, <3>1, <3>2, <3>3, <3>4 DEF EntryIsBacked
  <2> QED
    BY <2>2, <2>3, <2>4
<1> QED
  BY <1>1, <1>2 DEF HistoryOK, FailuresOK

LEMMA NextHistory == McpInv /\ HistoryOK /\ [McpNext]_mcpVars => HistoryOK'
<1> SUFFICES ASSUME McpInv, HistoryOK, [McpNext]_mcpVars PROVE HistoryOK'
  OBVIOUS
<1>1. CASE UNCHANGED <<clock, failures, lockout>>
  BY <1>1 DEF HistoryOK, FailuresOK, EntryIsBacked
<1>2. ASSUME NEW c \in Callers, Check(c) PROVE HistoryOK'
  <2>1. CASE UNCHANGED lockout
    BY <1>1, <1>2, <2>1 DEF Check, db
  <2>2. CASE lockout' = [lockout EXCEPT ![asks[c].of] = Entry(asks[c].of)]
    <3>1. asks[c].of \in Workspaces
      BY <1>2 DEF Check, At, McpInv, RequestsOK, BearerOK
    <3>2. clock' = clock /\ failures' = failures
      BY <1>2 DEF Check, db
    <3>3. lockout' = lockout \/ lockout' = [lockout EXCEPT ![asks[c].of] = NoFailures]
      BY <2>2, <3>1 DEF Entry, McpInv, LockoutOK
    <3> QED
      BY <3>1, <3>2, <3>3, NothingFails
  <2> QED
    BY <1>2, <2>1, <2>2 DEF Check
<1>3. ASSUME NEW c \in Callers, Compare(c) \/ Record(c) PROVE HistoryOK'
  <2>1. asks[c].of \in Workspaces /\ clock' = clock
    BY <1>3 DEF Compare, Record, At, McpInv, RequestsOK, BearerOK, db
  <2>2. CASE RecordFailure(asks[c].of)
    BY <2>1, <2>2, OneFails
  <2>3. CASE RecordSuccess(asks[c].of)
    BY <2>1, <2>3, NothingFails DEF RecordSuccess
  <2>4. CASE NothingRecorded
    BY <1>1, <2>1, <2>4 DEF NothingRecorded
  <2> QED
    BY <1>3, <2>2, <2>3, <2>4 DEF Compare, Record
<1>4. CASE RestartMcp
  <2>1. clock' = clock /\ failures' = failures /\ \A w \in Workspaces : lockout'[w] = NONE
    BY <1>4 DEF RestartMcp, db
  <2> QED
    BY <2>1 DEF HistoryOK, FailuresOK, EntryIsBacked
<1>5. ASSUME NEW c \in Callers, Call(c) PROVE HistoryOK'
  <2>1. CASE Check(c) \/ Compare(c) \/ Record(c)
    BY <1>2, <1>3, <2>1
  <2>2. CASE ~(Check(c) \/ Compare(c) \/ Record(c))
    <3>1. UNCHANGED <<clock, failures, lockout>>
      BY <1>5, <2>2 DEF Call, Arrive, Lookup, SanitizeRequest, FindToken, Depart, db
    <3> QED
      BY <1>1, <3>1
  <2> QED
    BY <2>1, <2>2
<1>6. ASSUME NEW w \in Workspaces, NEW b \in Bearers, Rotate(w, b) PROVE HistoryOK'
  BY <1>1, <1>6 DEF Rotate
<1>7. ASSUME NEW w \in Workspaces, TearDown(w) PROVE HistoryOK'
  BY <1>1, <1>7 DEF TearDown
<1>8. CASE UNCHANGED mcpVars
  BY <1>1, <1>8 DEF mcpVars
<1> QED
  BY <1>4, <1>5, <1>6, <1>7, <1>8, TimePasses DEF McpNext

(* What the lockout counts, it has the failures of its window for, up to   *)
(* its limit (mcp_proxy.rs:178-219).                                       *)
THEOREM CountIsBacked == McpSpec => []HistoryOK
  BY McpInvariance, InitHistory, NextHistory, PTL DEF McpSpec

(* A step that locks a request out: LockIsEarned without its box           *)
Earned ==
    \A c \in Callers : At(c, "check") /\ asks'[c].pc = "locked" =>
        Len(failures[asks[c].of]) = MaxFailures

LEMMA StepEarned == McpInv /\ HistoryOK /\ [McpNext]_mcpVars => [Earned]_mcpVars
<1> SUFFICES ASSUME McpInv, HistoryOK, McpNext, NEW c \in Callers, At(c, "check"), asks'[c].pc = "locked"
             PROVE  Len(failures[asks[c].of]) = MaxFailures
  BY DEF Earned
<1> DEFINE w == asks[c].of
<1>1. Check(c)
  <2>1. asks \in [Callers -> Ask] /\ NoAsk.pc = "idle" /\ asks[c].pc = "check" /\ asks[c] \in Ask
    BY DEF McpInv, AsksOK, NoAsk, At
  <2>2. ASSUME NEW d \in Callers, Call(d) PROVE Check(c)
    <3>1. CASE d # c
      <4>1. asks'[c] = asks[c]
        BY <2>1, <2>2, <3>1 DEF Call, Arrive, Check, Lookup, Compare, Record, SanitizeRequest,
                                FindToken, Depart, Goto, Answer
      <4> QED
        BY <2>1, <4>1
    <3>2. CASE d = c
      <4>1. CASE Depart(c)
        BY <2>1, <4>1 DEF Depart, Answer
      <4> QED
        BY <2>1, <2>2, <3>2, <4>1 DEF Call, Arrive, Lookup, Compare, Record, SanitizeRequest,
                                      FindToken, At
    <3> QED
      BY <3>1, <3>2
  <2>3. ~RestartMcp
    BY <2>1 DEF RestartMcp
  <2>4. asks'[c] # asks[c]
    BY <2>1
  <2> QED
    BY <2>2, <2>3, <2>4 DEF McpNext, Rotate, TearDown, TickMcp
<1>2. w \in Workspaces /\ Entry(w).count >= MaxFailures
  <2>1. w \in Workspaces
    BY <1>1 DEF Check, At, McpInv, RequestsOK, BearerOK
  <2>2. asks \in [Callers -> Ask] /\ NoAsk.pc = "idle" /\ asks[c] \in Ask
    BY DEF McpInv, AsksOK, NoAsk
  <2> QED
    BY <1>1, <2>1, <2>2 DEF Check, Answer, Ask
<1>3. lockout[w] # NONE /\ ~(clock - lockout[w].start > Window) /\ lockout[w].count >= MaxFailures
  BY <1>2, LockoutAssumption DEF Entry, NoFailures
<1>4. /\ lockout[w].count \in Nat /\ lockout[w].start \in Nat /\ clock \in Nat
      /\ Len(failures[w]) \in Nat /\ Len(failures[w]) <= MaxFailures
  BY <1>2, <1>3, EntryTypes DEF HistoryOK, FailuresOK
<1>5. Backs(failures[w], MaxFailures, lockout[w].start)
  <2>1. clock - lockout[w].start <= Window /\ Counted(lockout[w].count) = MaxFailures
    BY <1>3, <1>4, LockoutAssumption DEF Counted
  <2> QED
    BY <1>2, <1>3, <2>1 DEF HistoryOK, EntryIsBacked
<1> QED
  BY <1>4, <1>5, LockoutAssumption DEF Backs

(* A workspace is locked out by its own failures of the last window only,  *)
(* and by as many of them as the limit says (mcp_proxy.rs:178-233).        *)
THEOREM LocksAreEarned == McpSpec => LockIsEarned
<1>1. McpInv /\ HistoryOK /\ [McpNext]_mcpVars => [Earned]_mcpVars
  BY StepEarned
<1>2. [][Earned]_mcpVars => LockIsEarned
  BY PTL DEF LockIsEarned, Earned
<1> QED
  BY McpInvariance, CountIsBacked, <1>1, <1>2, PTL DEF McpSpec
==============================================================================
