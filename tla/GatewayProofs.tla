----------------------------- MODULE GatewayProofs -----------------------------
(***************************************************************************)
(* What holds of logins, sessions and the session check for any number of  *)
(* users, requests and tokens, whatever fails and whenever the gateway     *)
(* restarts; and that the union of these with the proxies, the list and the*)
(* MCP proxy keeps the types of each.                                      *)
(***************************************************************************)
EXTENDS MCGateway, WorkspaceProxiesProofs, McpProxyProofs

(* A request between the OAuth callback and the new token holds the state; *)
(* one that inserts holds a token nobody else has seen.                    *)
Spending(r) == work[r].pc \in {"exchange", "prune"}
Inserting(r) == work[r].pc = "insert"

HoldsState(r) ==
    Spending(r) => work[r].by \in Users /\ work[r].state \in States
                   /\ begun[work[r].state] # NONE

Unseen(t) == t \notin sessions /\ t \notin ended /\ \A u \in Users : cookie[u] # t
HoldsToken(r) ==
    Inserting(r) =>
        /\ work[r].by \in Users /\ work[r].token \in Tokens
        /\ issued[work[r].token] # NONE /\ issued[work[r].token].user = work[r].by
        /\ Unseen(work[r].token)

Unspent(s) == \A t \in Tokens : issued[t] # NONE => issued[t].state # s
IssuedFromBegun == \A t \in Tokens : issued[t] # NONE => begun[issued[t].state] # NONE

(* A state is in one place: pending, in the hands of one request, or spent *)
(* on a token.                                                             *)
PendingUnspent == \A s \in pending :
    Unspent(s) /\ \A r \in Handlers : Spending(r) => work[r].state # s
SpendingUnspent == \A r \in Handlers : Spending(r) => Unspent(work[r].state)
SpendingApart == \A r, q \in Handlers :
    r # q /\ Spending(r) /\ Spending(q) => work[r].state # work[q].state
InsertingApart == \A r, q \in Handlers :
    r # q /\ Inserting(r) /\ Inserting(q) => work[r].token # work[q].token

(* The states, and what becomes of them                                    *)
StatesOK ==
    /\ \A r \in Handlers : HoldsState(r)
    /\ IssuedFromBegun /\ PendingUnspent /\ SpendingUnspent /\ SpendingApart
    /\ StatesSpentOnce

(* A cookie is its user's, and has its row until it expires.               *)
CookieOK(u) == LET t == cookie[u] IN
    t # NONE => issued[t].user = u /\ u \in accounts
                /\ (t \in sessions \/ issued[t].expires <= now)

(* A late request is still at the check, and its session is still no good. *)
LateOK(r) == LET t == work[r].token IN
    work[r].late => Stands(r, "session")
                    /\ (t # NONE => /\ issued[t] # NONE
                                    /\ t \in ended \/ issued[t].expires <= now)

(* The tokens, and what becomes of them                                    *)
TokensOK ==
    /\ \A r \in Handlers : HoldsToken(r) /\ LateOK(r)
    /\ InsertingApart
    /\ ended \intersect sessions = {}
    /\ \A u \in Users : CookieOK(u)

SessionsInv == SessionsTypeOK /\ StatesOK /\ TokensOK

LEMMA InitSessionsInv == InitSessions => SessionsInv
<1> SUFFICES ASSUME InitSessions PROVE SessionsInv
  OBVIOUS
<1> USE TimesAssumption, NobodyAssumption, NoTokenAssumption DEF InitSessions, NoWork
<1>1. SessionsTypeOK
  BY DEF SessionsTypeOK, Time, WorkPc
<1>2. StatesOK
  BY DEF StatesOK, HoldsState, Spending, IssuedFromBegun, PendingUnspent, SpendingUnspent,
         SpendingApart, StatesSpentOnce
<1>3. TokensOK
  BY DEF TokensOK, HoldsToken, Inserting, LateOK, InsertingApart, CookieOK
<1> QED
  BY <1>1, <1>2, <1>3 DEF SessionsInv

(* A request, and what a change of one of its fields leaves of its type    *)
Request == [pc : WorkPc, by : Users \union {NONE}, token : Tokens \union {NONE},
            state : States \union {NONE}, late : BOOLEAN]

LEMMA TokenStep ==
    ASSUME NEW q \in Request, NEW pc \in WorkPc, NEW t \in Tokens
    PROVE  [q EXCEPT !.pc = pc, !.token = t] \in Request
  BY DEF Request

LEMMA UserStep ==
    ASSUME NEW q \in Request, NEW pc \in WorkPc, NEW u \in Users
    PROVE  [q EXCEPT !.by = u, !.pc = pc] \in Request
  BY DEF Request

LEMMA StateStep ==
    ASSUME NEW pc \in WorkPc, NEW u \in Users, NEW s \in States
    PROVE  [NoWork EXCEPT !.pc = pc, !.by = u, !.state = s] \in Request
<1>1. NoWork \in Request
  BY DEF NoWork, Request, WorkPc
<1> QED
  BY <1>1 DEF Request

(* The types, action by action                                             *)
LEMMA TypeStep == SessionsInv /\ [SessionsNext]_gwVars => SessionsTypeOK'
<1> SUFFICES ASSUME SessionsInv, [SessionsNext]_gwVars PROVE SessionsTypeOK'
  OBVIOUS
<1> USE TimesAssumption, NobodyAssumption, NoTokenAssumption, NoRecordAssumption
    DEF SessionsInv, StatesOK, HoldsState, Spending, TokensOK, HoldsToken, Inserting, SessionsTypeOK, Time, WorkPc,
        login, NoWork, Stands, Move, Respond
<1>1. ASSUME NEW u \in Users, NEW s \in States, GoogleStart(u, s) PROVE SessionsTypeOK'
  BY <1>1 DEF GoogleStart
<1>2. ASSUME NEW u \in Users, Logout(u) PROVE SessionsTypeOK'
  BY <1>2 DEF Logout
<1>3. ASSUME NEW r \in Handlers, NEW s \in States, GoogleCallback(r, s) PROVE SessionsTypeOK'
  <2>1. pending' \subseteq {x \in States : begun[x] # NONE}
    BY <1>3 DEF GoogleCallback
  <2>2. begun[s].by \in Users
    BY <1>3 DEF GoogleCallback
  <2>3. CASE s \in pending /\ now - begun[s].at <= StateLife
    <3>1. [NoWork EXCEPT !.pc = "exchange", !.by = begun[s].by, !.state = s] \in Request
      BY <2>2, StateStep, "exchange" \in WorkPc
    <3>2. work' \in [Handlers -> Request]
      BY <1>3, <2>3, <3>1 DEF GoogleCallback, Request
    <3> QED
      BY <1>3, <2>1, <3>2 DEF GoogleCallback, Request
  <2>4. CASE ~(s \in pending /\ now - begun[s].at <= StateLife)
    BY <1>3, <2>1, <2>4 DEF GoogleCallback
  <2> QED
    BY <2>3, <2>4
<1>4. ASSUME NEW r \in Handlers, Exchange(r) PROVE SessionsTypeOK'
  <2>1. CASE Move(r, "prune")
    BY <1>4, <2>1 DEF Exchange
  <2>2. CASE Respond(r)
    BY <1>4, <2>2 DEF Exchange
  <2> QED
    BY <1>4, <2>1, <2>2 DEF Exchange
<1>5. ASSUME NEW r \in Handlers, Prune(r) PROVE SessionsTypeOK'
  <2>1. PICK t \in Tokens :
          /\ issued[t] = NONE
          /\ issued' = [issued EXCEPT ![t] = [user |-> work[r].by, expires |-> now + SessionLife,
                                              state |-> work[r].state]]
          /\ work' = [work EXCEPT ![r] = [@ EXCEPT !.pc = "insert", !.token = t]]
    BY <1>5 DEF Prune
  <2>2. work[r].by \in Users /\ work[r].state \in States /\ now + SessionLife \in Nat
    BY <1>5 DEF Prune
  <2>3. issued' \in [Tokens -> [user : Users, expires : Nat, state : States] \union {NONE}]
    BY <2>1, <2>2
  <2>4. \A x \in Tokens : issued[x] # NONE => issued'[x] # NONE
    BY <2>1, <2>2
  <2>5. sessions' \subseteq sessions
    BY <1>5 DEF Prune
  <2>6. work' \in [Handlers -> [pc : WorkPc, by : Users \union {NONE},
                               token : Tokens \union {NONE}, state : States \union {NONE},
                               late : BOOLEAN]]
    <3>0. work[r] \in Request
      BY DEF Request
    <3>1. [work[r] EXCEPT !.pc = "insert", !.token = t] \in Request
      BY <3>0, TokenStep
    <3> QED
      BY <2>1, <3>1 DEF Request
  <2> QED
    BY <1>5, <2>3, <2>4, <2>5, <2>6 DEF Prune
<1>6. ASSUME NEW r \in Handlers, Create(r) PROVE SessionsTypeOK'
  BY <1>6 DEF Create
<1>7. ASSUME NEW r \in Handlers, NEW u \in Users, NEW call \in Calls, Receive(r, u, call) PROVE SessionsTypeOK'
  BY <1>7 DEF Receive
<1>8. ASSUME NEW r \in Handlers, RequireSession(r) PROVE SessionsTypeOK'
  <2>1. CASE Respond(r)
    BY <1>8, <2>1 DEF RequireSession
  <2>2. CASE ~Respond(r)
    <3>1. PICK user \in Users :
            work' = [work EXCEPT ![r] = [@ EXCEPT !.by = user, !.pc = "passed"]]
      BY <1>8, <2>2 DEF RequireSession, UserForToken
    <3>0. work[r] \in Request
      BY DEF Request
    <3>2. [work[r] EXCEPT !.by = user, !.pc = "passed"] \in Request
      BY <3>0, UserStep
    <3>3. work' \in [Handlers -> Request]
      BY <3>1, <3>2 DEF Request
    <3> QED
      BY <1>8, <3>3 DEF RequireSession, Request
  <2> QED
    BY <2>1, <2>2
<1>9. ASSUME NEW r \in Handlers, Leave(r) PROVE SessionsTypeOK'
  BY <1>9 DEF Leave
<1>10. CASE Tick
  BY <1>10 DEF Tick
<1>11. CASE Restart
  BY <1>11 DEF Restart
<1>12. CASE UNCHANGED gwVars
  BY <1>12 DEF gwVars
<1> QED
  BY <1>1, <1>2, <1>3, <1>4, <1>5, <1>6, <1>7, <1>8, <1>9, <1>10, <1>11, <1>12 DEF SessionsNext, Serve

(* The states, action by action                                            *)
LEMMA StatesStep == SessionsInv /\ SessionsTypeOK' /\ [SessionsNext]_gwVars => StatesOK'
<1> SUFFICES ASSUME SessionsInv, SessionsTypeOK', [SessionsNext]_gwVars PROVE StatesOK'
  OBVIOUS
<1> USE TimesAssumption, NobodyAssumption, NoTokenAssumption, NoRecordAssumption
    DEF SessionsInv, SessionsTypeOK, Time, WorkPc, login, NoWork, Stands, Move, Respond, 
        StatesOK, HoldsState, Spending, IssuedFromBegun, Unspent, PendingUnspent, SpendingUnspent,
        SpendingApart, StatesSpentOnce
<1>1. ASSUME NEW u \in Users, NEW s \in States, GoogleStart(u, s) PROVE StatesOK'
  BY <1>1 DEF GoogleStart
<1>2. ASSUME NEW u \in Users, Logout(u) PROVE StatesOK'
  BY <1>2 DEF Logout
<1>3. ASSUME NEW r \in Handlers, NEW s \in States, GoogleCallback(r, s) PROVE StatesOK'
  <2>1. CASE s \in pending /\ now - begun[s].at <= StateLife
    <3>0. work' = [work EXCEPT ![r] = [NoWork EXCEPT !.pc = "exchange", !.by = begun[s].by, !.state = s]]
      BY <1>3, <2>1 DEF GoogleCallback
    <3>1. work'[r].pc = "exchange" /\ work'[r].by = begun[s].by /\ work'[r].state = s
          /\ work'[r].token = NONE /\ ~work'[r].late
      BY <3>0
    <3>2. \A q \in Handlers : q # r => work'[q] = work[q]
      BY <3>0
    <3>3. begun[s].by \in Users /\ s \notin pending' /\ begun[s] # NONE /\ pending' \subseteq pending
          /\ UNCHANGED <<now, begun, issued, sessions, accounts, cookie, ended>>
      BY <1>3, <2>1 DEF GoogleCallback
    <3>4. (\A q \in Handlers : HoldsState(q))'
      BY <2>1, <3>1, <3>2, <3>3
    <3>5. IssuedFromBegun'
      BY <2>1, <3>1, <3>2, <3>3
    <3>6. PendingUnspent'
      BY <2>1, <3>1, <3>2, <3>3
    <3>7. SpendingUnspent'
      BY <2>1, <3>1, <3>2, <3>3
    <3>8. SpendingApart'
      BY <2>1, <3>1, <3>2, <3>3
    <3>9. StatesSpentOnce'
      BY <2>1, <3>1, <3>2, <3>3
    <3> QED
      BY <3>4, <3>5, <3>6, <3>7, <3>8, <3>9 DEF StatesOK
  <2>2. CASE ~(s \in pending /\ now - begun[s].at <= StateLife)
    BY <1>3, <2>2 DEF GoogleCallback
  <2> QED
    BY <2>1, <2>2
<1>4. ASSUME NEW r \in Handlers, Exchange(r) PROVE StatesOK'
  <2>1. CASE Move(r, "prune")
    <3>1. /\ work'[r].pc = "prune" /\ work'[r].by = work[r].by /\ work'[r].state = work[r].state
          /\ work'[r].token = work[r].token /\ work'[r].late = work[r].late
          /\ \A q \in Handlers : q # r => work'[q] = work[q]
      BY <2>1
    <3>2. work[r].pc = "exchange" /\ UNCHANGED <<now, begun, pending, issued, sessions, accounts, cookie, ended>>
      BY <1>4 DEF Exchange
    <3>3. (\A q \in Handlers : HoldsState(q))'
      BY <3>1, <3>2
    <3>4. IssuedFromBegun'
      BY <3>1, <3>2
    <3>5. PendingUnspent'
      BY <3>1, <3>2
    <3>6. SpendingUnspent'
      BY <3>1, <3>2
    <3>7. SpendingApart'
      BY <3>1, <3>2
    <3>8. StatesSpentOnce'
      BY <3>1, <3>2
    <3> QED
      BY <3>3, <3>4, <3>5, <3>6, <3>7, <3>8 DEF StatesOK
  <2>2. CASE Respond(r)
    BY <1>4, <2>2 DEF Exchange
  <2> QED
    BY <1>4, <2>1, <2>2 DEF Exchange
<1>5. ASSUME NEW r \in Handlers, Prune(r) PROVE StatesOK'
  BY <1>5 DEF Prune
<1>6. ASSUME NEW r \in Handlers, Create(r) PROVE StatesOK'
  BY <1>6 DEF Create
<1>7. ASSUME NEW r \in Handlers, NEW u \in Users, NEW call \in Calls, Receive(r, u, call) PROVE StatesOK'
  BY <1>7 DEF Receive
<1>8. ASSUME NEW r \in Handlers, RequireSession(r) PROVE StatesOK'
  <2>1. CASE Respond(r)
    BY <1>8, <2>1 DEF RequireSession
  <2>2. CASE ~Respond(r)
    <3>1. PICK user \in Users :
            /\ user = UserForToken(work[r].token) /\ work[r].token # NONE
            /\ work' = [work EXCEPT ![r] = [@ EXCEPT !.by = user, !.pc = "passed"]]
      BY <1>8, <2>2 DEF RequireSession, UserForToken
    <3>2. /\ work'[r].pc = "passed" /\ work'[r].late = work[r].late
          /\ \A q \in Handlers : q # r => work'[q] = work[q]
      BY <3>1
    <3>3. work[r].token \in sessions /\ ~(issued[work[r].token].expires <= now)
      BY <3>1 DEF UserForToken
    <3> QED
      BY <1>8, <3>1, <3>2, <3>3 DEF RequireSession
  <2> QED
    BY <2>1, <2>2
<1>9. ASSUME NEW r \in Handlers, Leave(r) PROVE StatesOK'
  BY <1>9 DEF Leave
<1>10. CASE Tick
  BY <1>10 DEF Tick
<1>11. CASE Restart
  BY <1>11 DEF Restart
<1>12. CASE UNCHANGED gwVars
  BY <1>12 DEF gwVars
<1> QED
  BY <1>1, <1>2, <1>3, <1>4, <1>5, <1>6, <1>7, <1>8, <1>9, <1>10, <1>11, <1>12 DEF SessionsNext, Serve

(* The tokens, action by action                                            *)
LEMMA TokensStep == SessionsInv /\ SessionsTypeOK' /\ [SessionsNext]_gwVars => TokensOK'
<1> SUFFICES ASSUME SessionsInv, SessionsTypeOK', [SessionsNext]_gwVars PROVE TokensOK'
  OBVIOUS
<1> USE TimesAssumption, NobodyAssumption, NoTokenAssumption, NoRecordAssumption
    DEF SessionsInv, SessionsTypeOK, Time, WorkPc, login, NoWork, Stands, Move, Respond, 
        TokensOK, HoldsToken, Inserting, Unseen, LateOK, InsertingApart, CookieOK
<1>1. ASSUME NEW u \in Users, NEW s \in States, GoogleStart(u, s) PROVE TokensOK'
  BY <1>1 DEF GoogleStart
<1>2. ASSUME NEW u \in Users, Logout(u) PROVE TokensOK'
  BY <1>2 DEF Logout
<1>3. ASSUME NEW r \in Handlers, NEW s \in States, GoogleCallback(r, s) PROVE TokensOK'
  <2>1. CASE s \in pending /\ now - begun[s].at <= StateLife
    <3>0. work' = [work EXCEPT ![r] = [NoWork EXCEPT !.pc = "exchange", !.by = begun[s].by, !.state = s]]
      BY <1>3, <2>1 DEF GoogleCallback
    <3>1. work'[r].pc = "exchange" /\ work'[r].by = begun[s].by /\ work'[r].state = s
          /\ work'[r].token = NONE /\ ~work'[r].late
      BY <3>0
    <3>2. \A q \in Handlers : q # r => work'[q] = work[q]
      BY <3>0
    <3>3. begun[s].by \in Users /\ s \notin pending' /\ begun[s] # NONE /\ pending' \subseteq pending
          /\ UNCHANGED <<now, begun, issued, sessions, accounts, cookie, ended>>
      BY <1>3, <2>1 DEF GoogleCallback
    <3>4. (\A q \in Handlers : HoldsToken(q))'
      BY <2>1, <3>1, <3>2, <3>3
    <3>5. (\A q \in Handlers : LateOK(q))'
      BY <2>1, <3>1, <3>2, <3>3
    <3>6. InsertingApart'
      BY <2>1, <3>1, <3>2, <3>3
    <3>7. (ended \intersect sessions = {})'
      BY <2>1, <3>1, <3>2, <3>3
    <3>8. (\A u \in Users : CookieOK(u))'
      BY <2>1, <3>1, <3>2, <3>3
    <3> QED
      BY <3>4, <3>5, <3>6, <3>7, <3>8 DEF TokensOK
  <2>2. CASE ~(s \in pending /\ now - begun[s].at <= StateLife)
    BY <1>3, <2>2 DEF GoogleCallback
  <2> QED
    BY <2>1, <2>2
<1>4. ASSUME NEW r \in Handlers, Exchange(r) PROVE TokensOK'
  <2>1. CASE Move(r, "prune")
    <3>1. /\ work'[r].pc = "prune" /\ work'[r].by = work[r].by /\ work'[r].state = work[r].state
          /\ work'[r].token = work[r].token /\ work'[r].late = work[r].late
          /\ \A q \in Handlers : q # r => work'[q] = work[q]
      BY <2>1
    <3>2. work[r].pc = "exchange" /\ UNCHANGED <<now, begun, pending, issued, sessions, accounts, cookie, ended>>
      BY <1>4 DEF Exchange
    <3>3. (\A q \in Handlers : HoldsToken(q))'
      BY <3>1, <3>2
    <3>4. (\A q \in Handlers : LateOK(q))'
      BY <3>1, <3>2
    <3>5. InsertingApart'
      BY <3>1, <3>2
    <3>6. (ended \intersect sessions = {})'
      BY <3>1, <3>2
    <3>7. (\A u \in Users : CookieOK(u))'
      BY <3>1, <3>2
    <3> QED
      BY <3>3, <3>4, <3>5, <3>6, <3>7 DEF TokensOK
  <2>2. CASE Respond(r)
    BY <1>4, <2>2 DEF Exchange
  <2> QED
    BY <1>4, <2>1, <2>2 DEF Exchange
<1>5. ASSUME NEW r \in Handlers, Prune(r) PROVE TokensOK'
  <2>1. PICK t \in Tokens :
          /\ issued[t] = NONE
          /\ issued' = [issued EXCEPT ![t] = [user |-> work[r].by, expires |-> now + SessionLife,
                                              state |-> work[r].state]]
          /\ work' = [work EXCEPT ![r] = [@ EXCEPT !.pc = "insert", !.token = t]]
    BY <1>5 DEF Prune
  <2>2. /\ work'[r].pc = "insert" /\ work'[r].by = work[r].by /\ work'[r].token = t
        /\ work'[r].late => work[r].late
        /\ \A q \in Handlers : q # r => work'[q] = work[q]
    <3>1. work'[r] = [work[r] EXCEPT !.pc = "insert", !.token = t]
          /\ \A q \in Handlers : q # r => work'[q] = work[q]
      BY <2>1
    <3> QED
      BY <3>1
  <2>3. work[r].pc = "prune" /\ work[r].by \in Users /\ work[r].state \in States
    BY <1>5 DEF Prune, StatesOK, HoldsState, Spending
  <2>4. issued'[t] # NONE /\ issued'[t].user = work[r].by
        /\ \A x \in Tokens : x # t => issued'[x] = issued[x]
    <3>1. [user |-> work[r].by, expires |-> now + SessionLife, state |-> work[r].state] # NONE
      BY <2>3
    <3> QED
      BY <2>1, <3>1
  <2>5. \A x \in sessions : x \in sessions' \/ issued[x].expires <= now
    BY <1>5 DEF Prune
  <2>6. sessions' \subseteq sessions /\ UNCHANGED <<now, begun, pending, accounts, cookie, ended>>
    BY <1>5 DEF Prune
  <2>7. (\A q \in Handlers : HoldsToken(q))'
    BY <2>1, <2>2, <2>3, <2>4, <2>6
  <2>8. (\A q \in Handlers : LateOK(q))'
    BY <2>1, <2>2, <2>3, <2>4, <2>6
  <2>9. InsertingApart'
    BY <2>1, <2>2, <2>3
  <2>10. (ended \intersect sessions = {})'
    BY <2>6
  <2>11. (\A u \in Users : CookieOK(u))'
    BY <2>1, <2>3, <2>5, <2>6
  <2> QED
    BY <2>7, <2>8, <2>9, <2>10, <2>11
<1>6. ASSUME NEW r \in Handlers, Create(r) PROVE TokensOK'
  BY <1>6 DEF Create
<1>7. ASSUME NEW r \in Handlers, NEW u \in Users, NEW call \in Calls, Receive(r, u, call) PROVE TokensOK'
  BY <1>7 DEF Receive
<1>8. ASSUME NEW r \in Handlers, RequireSession(r) PROVE TokensOK'
  <2>1. CASE Respond(r)
    BY <1>8, <2>1 DEF RequireSession
  <2>2. CASE ~Respond(r)
    <3>1. PICK user \in Users :
            /\ user = UserForToken(work[r].token) /\ work[r].token # NONE
            /\ work' = [work EXCEPT ![r] = [@ EXCEPT !.by = user, !.pc = "passed"]]
      BY <1>8, <2>2 DEF RequireSession, UserForToken
    <3>2. /\ work'[r].pc = "passed" /\ work'[r].late = work[r].late
          /\ \A q \in Handlers : q # r => work'[q] = work[q]
      BY <3>1
    <3>3. work[r].token \in sessions /\ ~(issued[work[r].token].expires <= now)
      BY <3>1 DEF UserForToken
    <3> QED
      BY <1>8, <3>1, <3>2, <3>3 DEF RequireSession
  <2> QED
    BY <2>1, <2>2
<1>9. ASSUME NEW r \in Handlers, Leave(r) PROVE TokensOK'
  BY <1>9 DEF Leave
<1>10. CASE Tick
  <2>1. UNCHANGED <<begun, pending, issued, sessions, accounts, cookie, ended, work>>
        /\ now' = now + 1
    BY <1>10 DEF Tick
  <2>2. \A x \in Tokens : issued[x] # NONE /\ issued[x].expires <= now => issued[x].expires <= now'
    BY <2>1
  <2>3. (\A q \in Handlers : HoldsToken(q))' /\ InsertingApart' /\ (ended \intersect sessions = {})'
    BY <2>1
  <2>4. ASSUME NEW q \in Handlers PROVE LateOK(q)'
    BY <2>1, <2>2
  <2>5. (\A u \in Users : CookieOK(u))'
    BY <2>1, <2>2
  <2> QED
    BY <2>3, <2>4, <2>5
<1>11. CASE Restart
  BY <1>11 DEF Restart
<1>12. CASE UNCHANGED gwVars
  BY <1>12 DEF gwVars
<1> QED
  BY <1>1, <1>2, <1>3, <1>4, <1>5, <1>6, <1>7, <1>8, <1>9, <1>10, <1>11, <1>12 DEF SessionsNext, Serve

LEMMA NextSessionsInv == SessionsInv /\ [SessionsNext]_gwVars => SessionsInv'
  BY TypeStep, StatesStep, TokensStep DEF SessionsInv

(* The types, the states and the tokens hold together: neither of the last *)
(* two is inductive without the other's account of what a request holds.   *)
THEOREM SessionsInvariance == SessionsSpec => []SessionsInv
<1> QED
  BY InitSessionsInv, NextSessionsInv, PTL DEF SessionsSpec

(* A state makes one session, however often the browser comes back with it *)
(* (route.rs:144-155): it is pending, in one request's hands or spent.     *)
THEOREM StatesAlwaysSpentOnce == SessionsSpec => []StatesSpentOnce
<1>1. SessionsInv => StatesSpentOnce
  BY DEF SessionsInv, StatesOK
<1> QED
  BY SessionsInvariance, <1>1, PTL

(* A cookie works until its session expires (route.rs:246-302, store.rs).  *)
THEOREM CookiesAlwaysWork == SessionsSpec => []CookieWorks
<1>1. SessionsInv => CookieWorks
  BY NobodyAssumption, NoTokenAssumption
  DEF SessionsInv, SessionsTypeOK, TokensOK, CookieOK, CookieWorks, Me, IsValid, UserForToken, Time
<1> QED
  BY SessionsInvariance, <1>1, PTL

(* A session that was ended or has expired when a request arrived lets it  *)
(* no further (middleware.rs:81-105, route.rs:282-285).                    *)
THEOREM LateAlwaysRefused == SessionsSpec => []LateIsRefused
<1>1. SessionsInv => LateIsRefused
  BY DEF SessionsInv, TokensOK, LateOK, LateIsRefused, Stands
<1> QED
  BY SessionsInvariance, <1>1, PTL

------------------------------------------------------------------------------
(* The union.  What stands still keeps its invariant; the proxies move the  *)
(* tables of the list, but then there is no listing.                        *)
UnionInv ==
    /\ side \in {"sessions", "proxies", "list", "mcp"}
    /\ SessionsInv /\ McpInv /\ HistoryOK /\ ProxiesInv
    /\ side = "list" => ListInv
    /\ side # "list" => listing = NoListing

LEMMA InitUnionInv == Init => UnionInv
<1>1. Init => InitSessions /\ InitMcp /\ InitProxies /\ InitList /\ listing = NoListing
  BY DEF Init, InitList
<1>2. Init => side \in {"sessions", "proxies", "list", "mcp"}
  BY DEF Init
<1> QED
  BY <1>1, <1>2, InitSessionsInv, InitMcpInv, InitHistory, InitProxiesInv, InitListInv DEF UnionInv

LEMMA NextUnionInv == UnionInv /\ [Next]_vars => UnionInv'
<1> SUFFICES ASSUME UnionInv, [Next]_vars PROVE UnionInv'
  OBVIOUS
<1>1. /\ [SessionsNext]_gwVars /\ [McpNext]_mcpVars /\ UNCHANGED side
      /\ side = "list" => [ListNext]_wlVars
      /\ side # "list" => [ProxiesNext]_wpVars /\ UNCHANGED listing
  BY DEF Next, vars, wlVars
<1>2. SessionsInv'
  BY <1>1, NextSessionsInv DEF UnionInv
<1>3. McpInv' /\ HistoryOK'
  BY <1>1, NextMcpInv, NextHistory DEF UnionInv
<1>4. CASE side = "list"
  <2>1. ListInv'
    BY <1>1, <1>4, NextListInv DEF UnionInv
  <2> QED
    BY <1>1, <1>2, <1>3, <1>4, <2>1 DEF UnionInv, ListInv
<1>5. CASE side # "list"
  <2>1. ProxiesInv'
    BY <1>1, <1>5, NextProxiesInv DEF UnionInv
  <2> QED
    BY <1>1, <1>2, <1>3, <1>5, <2>1 DEF UnionInv
<1> QED
  BY <1>4, <1>5

(* TypesOK: the types of the four, over their union, which the gateway run  *)
(* checks.                                                                  *)
THEOREM UnionTypes == Spec => []TypesOK
<1>1. UnionInv => SessionsTypeOK /\ ProxiesTypeOK
  BY ProxiesInvTypes DEF UnionInv, SessionsInv
<1>2. UnionInv => McpTypeOK
  <2> SUFFICES ASSUME McpInv, HistoryOK PROVE McpTypeOK
    BY DEF UnionInv
  <2>1. asks \in [Callers -> Ask]
    BY DEF McpInv, AsksOK
  <2>2. DOMAIN asks = Callers
    BY <2>1
  <2>3. ASSUME NEW c \in Callers
        PROVE  /\ asks[c].pc \in AskPc
               /\ asks[c].of \in Workspaces \union {NONE}
               /\ {asks[c].bearer, asks[c].found, asks[c].as} \subseteq Bearers \union {NONE}
    BY <2>1 DEF Ask, Bearer
  <2> QED
    BY <2>2, <2>3 DEF McpInv, McpTablesOK, Bearer, LockoutOK, HistoryOK, FailuresOK, McpTypeOK
<1>3. UnionInv => ListTypeOK
  <2>1. CASE side = "list"
    BY <2>1, ListInvTypes DEF UnionInv
  <2>2. CASE side # "list" /\ UnionInv
    <3>1. listing = NoListing
      BY <2>2 DEF UnionInv
    <3>2. /\ NoListing.pc = "idle" /\ NoListing.by = NONE /\ NoListing.page = NONE
          /\ NoListing.items = <<>> /\ NoListing.healthy = <<>> /\ NoListing.checks = {}
      BY DEF NoListing
    <3>3. Len(<<>>) <= MaxListLimit
      BY PagesAssumption
    <3> QED
      BY <3>1, <3>2, <3>3 DEF ListTypeOK
  <2> QED
    BY <2>1, <2>2
<1> QED
  BY InitUnionInv, NextUnionInv, <1>1, <1>2, <1>3, PTL DEF Spec, TypesOK
==============================================================================
