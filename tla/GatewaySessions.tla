---------------------------- MODULE GatewaySessions ----------------------------
(***************************************************************************)
(* The login through Google, the session table and the session check in    *)
(* front of every route (rust_gateway/src/auth).                           *)
(*                                                                         *)
(* Abstractions.  A session token and its hash are one value.  A browser   *)
(* is its user's Google account.  Time is a counter that the stored time   *)
(* stamps are compared with.                                               *)
(***************************************************************************)
EXTENDS GatewayRoutes

CONSTANTS
    States,         \* OAuth states; bounds the logins ever started
    Tokens,         \* session tokens; bounds the sessions ever created
    Handlers,       \* requests the gateway works on at a time
    MaxPending,     \* MAX_PENDING_OAUTH_STATES
    StateLife,      \* OAUTH_STATE_LIFETIME
    SessionLife,    \* SESSION_LIFETIME_SECS
    MaxTime         \* bounds the clock

ASSUME TimesAssumption ==
    MaxPending \in Nat /\ StateLife \in Nat /\ SessionLife \in Nat /\ MaxTime \in Nat
ASSUME NoTokenAssumption == NONE \notin Tokens \union States
ASSUME NoRecordAssumption ==
    NONE \notin [by : Users, at : Nat] \union [user : Users, expires : Nat, state : States]

VARIABLES
    now,        \* the clock
    begun,      \* each OAuth state: whose browser carries it, and since when
    pending,    \* pending_oauth_states, in memory
    issued,     \* each session token: its user, its expiry, the state behind it
    sessions,   \* gateway_sessions: the tokens that have a row
    accounts,   \* gateway_users
    cookie,     \* gw_session of each browser
    work,       \* the requests
    ended       \* history: tokens whose row a logout has deleted

gwVars == <<now, begun, pending, issued, sessions, accounts, cookie, work, ended>>
login == <<begun, pending, issued, sessions, accounts, cookie, ended>>

Time == 0..MaxTime
WorkPc == {"idle", "exchange", "prune", "insert", "session", "passed"}
NoWork == [pc |-> "idle", by |-> NONE, token |-> NONE, state |-> NONE, late |-> FALSE]

InitSessions ==
    /\ now = 0
    /\ begun = [s \in States |-> NONE] /\ pending = {}
    /\ issued = [t \in Tokens |-> NONE] /\ sessions = {} /\ accounts = {}
    /\ cookie = [u \in Users |-> NONE]
    /\ work = [r \in Handlers |-> NoWork]
    /\ ended = {}

------------------------------------------------------------------------------
Stands(r, pc) == work[r].pc = pc
Move(r, pc) == work' = [work EXCEPT ![r] = [@ EXCEPT !.pc = pc]]
Respond(r) == work' = [work EXCEPT ![r] = NoWork]

(* is_valid, and user_for_token, which joins the users *)
IsValid(t) == t \in sessions /\ issued[t].expires > now
UserForToken(t) ==
    IF t \in sessions /\ issued[t].user \in accounts /\ issued[t].expires > now
    THEN issued[t].user ELSE NONE

------------------------------------------------------------------------------
(* Login: auth/route.rs *)

(* google_start_route: old states are swept, and there is room for one.    *)
GoogleStart(u, s) ==
    LET fresh == {x \in pending : now - begun[x].at <= StateLife} IN
    /\ begun[s] = NONE
    /\ \/ /\ Cardinality(fresh) >= MaxPending
          /\ pending' = fresh
          /\ UNCHANGED begun
       \/ /\ Cardinality(fresh) < MaxPending
          /\ pending' = fresh \union {s}
          /\ begun' = [begun EXCEPT ![s] = [by |-> u, at |-> now]]
    /\ UNCHANGED <<now, issued, sessions, accounts, cookie, ended, work>>

(* The state is looked up, and stays. *)
GoogleCallbackWithoutRemove(r, s) ==
    /\ Stands(r, "idle") /\ begun[s] # NONE
    /\ IF s \in pending /\ now - begun[s].at <= StateLife
       THEN work' = [work EXCEPT ![r] =
                [NoWork EXCEPT !.pc = "exchange", !.by = begun[s].by, !.state = s]]
       ELSE UNCHANGED work
    /\ UNCHANGED <<now, login>>

(* google_callback_route: Google sends the browser back, once, again when  *)
(* it reloads, or not at all.  The state is removed before it is judged.   *)
GoogleCallback(r, s) ==
    /\ Stands(r, "idle") /\ begun[s] # NONE
    /\ pending' = pending \ {s}
    /\ IF s \in pending /\ now - begun[s].at <= StateLife
       THEN work' = [work EXCEPT ![r] =
                [NoWork EXCEPT !.pc = "exchange", !.by = begun[s].by, !.state = s]]
       ELSE UNCHANGED work
    /\ UNCHANGED <<now, begun, issued, sessions, accounts, cookie, ended>>

(* The token exchange and the user's lookup, two calls to Google of which  *)
(* either may fail, and an e-mail address that may be unverified.          *)
Exchange(r) ==
    /\ Stands(r, "exchange")
    /\ Move(r, "prune") \/ (May("google") /\ Respond(r))
    /\ UNCHANGED <<now, login>>

(* Rows that are about to expire go, too. *)
PruneAll(r) ==
    /\ Stands(r, "prune")
    /\ sessions' = {t \in sessions : issued[t].expires > now + 1}
    /\ \E t \in Tokens :
          /\ issued[t] = NONE
          /\ issued' = [issued EXCEPT ![t] = [user |-> work[r].by, expires |-> now + SessionLife,
                                              state |-> work[r].state]]
          /\ work' = [work EXCEPT ![r] = [@ EXCEPT !.pc = "insert", !.token = t]]
    /\ UNCHANGED <<now, begun, pending, accounts, cookie, ended>>

(* prune_expired, best effort; then the new token and its expiry           *)
Prune(r) ==
    /\ Stands(r, "prune")
    /\ \/ sessions' = {t \in sessions : issued[t].expires > now}
       \/ May("database") /\ UNCHANGED sessions
    /\ \E t \in Tokens :
          /\ issued[t] = NONE
          /\ issued' = [issued EXCEPT ![t] = [user |-> work[r].by, expires |-> now + SessionLife,
                                              state |-> work[r].state]]
          /\ work' = [work EXCEPT ![r] = [@ EXCEPT !.pc = "insert", !.token = t]]
    /\ UNCHANGED <<now, begun, pending, accounts, cookie, ended>>

(* create: the user and the session in one transaction, then the cookie.   *)
Create(r) ==
    LET t == work[r].token IN
    /\ Stands(r, "insert")
    /\ \/ /\ accounts' = accounts \union {work[r].by}
          /\ sessions' = sessions \union {t}
          /\ cookie' = [cookie EXCEPT ![work[r].by] = t]
       \/ /\ accounts' = accounts \union {work[r].by}     \* the answer is lost
          /\ sessions' = sessions \union {t}
          /\ UNCHANGED cookie
       \/ May("database") /\ UNCHANGED <<accounts, sessions, cookie>>
    /\ Respond(r)
    /\ UNCHANGED <<now, begun, pending, issued, ended>>

(* The cookie is not asked for. *)
LogoutAnyway(u) ==
    /\ \/ sessions' = sessions \ {cookie[u]} /\ ended' = ended \union {cookie[u]}
       \/ May("database") /\ UNCHANGED <<sessions, ended>>
    /\ cookie' = [cookie EXCEPT ![u] = NONE]
    /\ UNCHANGED <<now, begun, pending, issued, accounts, work>>

(* logout_route answers and clears the cookie whether or not the row went. *)
Logout(u) ==
    /\ cookie[u] # NONE
    /\ \/ sessions' = sessions \ {cookie[u]} /\ ended' = ended \union {cookie[u]}
       \/ May("database") /\ UNCHANGED <<sessions, ended>>
    /\ cookie' = [cookie EXCEPT ![u] = NONE]
    /\ UNCHANGED <<now, begun, pending, issued, accounts, work>>

------------------------------------------------------------------------------
(* A browser asks for something *)

(* A request of a browser, with the cookie it has by now; an exempt path   *)
(* is not asked for one.                                                   *)
Receive(r, u, call) ==
    LET t == cookie[u] IN
    /\ Stands(r, "idle")
    /\ work' = [work EXCEPT ![r] =
          IF IsExempt(call.path) THEN [NoWork EXCEPT !.pc = "passed"]
          ELSE [NoWork EXCEPT !.pc = "session", !.by = u, !.token = t,
                              !.late = t = NONE \/ t \in ended \/ issued[t].expires <= now]]
    /\ UNCHANGED <<now, login>>

(* me_route answers by is_valid alone. *)
Me(u) == cookie[u] # NONE /\ IsValid(cookie[u])

(* Any cookie will do. *)
RequireCookie(r) ==
    /\ Stands(r, "session")
    /\ IF work[r].token = NONE THEN Respond(r) ELSE Move(r, "passed")
    /\ UNCHANGED <<now, login>>

(* require_session: a cookie, and a user for it; what comes then is        *)
(* WorkspaceProxies.                                                       *)
RequireSession(r) ==
    LET user == IF work[r].token = NONE THEN NONE ELSE UserForToken(work[r].token) IN
    /\ Stands(r, "session")
    /\ \/ user # NONE /\ work' = [work EXCEPT ![r] = [@ EXCEPT !.by = user, !.pc = "passed"]]
       \/ (user = NONE \/ May("database")) /\ Respond(r)
    /\ UNCHANGED <<now, login>>

(* The handler answers, the check refuses or the browser goes away.        *)
Leave(r) ==
    /\ work[r].pc \notin {"idle", "insert"}
    /\ Respond(r)
    /\ UNCHANGED <<now, login>>

Tick ==
    /\ now < MaxTime /\ now' = now + 1
    /\ UNCHANGED <<login, work>>

(* The gateway restarts: the pending states and the requests are gone, the *)
(* tables are not.                                                         *)
Restart ==
    /\ pending' = {}
    /\ work' = [r \in Handlers |-> NoWork]
    /\ UNCHANGED <<now, begun, issued, sessions, accounts, cookie, ended>>

Serve(r) ==
    \/ \E s \in States : GoogleCallback(r, s)
    \/ Exchange(r) \/ Prune(r) \/ Create(r)
    \/ \E u \in Users, call \in Calls : Receive(r, u, call)
    \/ RequireSession(r) \/ Leave(r)

SessionsNext ==
    \/ \E u \in Users, s \in States : GoogleStart(u, s)
    \/ \E u \in Users : Logout(u)
    \/ \E r \in Handlers : Serve(r)
    \/ Tick
    \/ Restart

SessionsSpec == InitSessions /\ [][SessionsNext]_gwVars

------------------------------------------------------------------------------
(* Properties *)

SessionsTypeOK ==
    /\ now \in Time
    /\ begun \in [States -> [by : Users, at : Time] \union {NONE}]
    /\ pending \subseteq {s \in States : begun[s] # NONE}
    /\ issued \in [Tokens -> [user : Users, expires : Nat, state : States] \union {NONE}]
    /\ sessions \subseteq {t \in Tokens : issued[t] # NONE}
    /\ ended \subseteq {t \in Tokens : issued[t] # NONE}
    /\ accounts \subseteq Users
    /\ cookie \in [Users -> {t \in Tokens : issued[t] # NONE} \union {NONE}]
    /\ work \in [Handlers -> [pc : WorkPc, by : Users \union {NONE}, token : Tokens \union {NONE},
                              state : States \union {NONE}, late : BOOLEAN]]

(* One OAuth state makes one session, however often and however late the   *)
(* browser comes back with it (route.rs:144-155).                          *)
StatesSpentOnce ==
    \A t, v \in Tokens : t # v /\ issued[t] # NONE /\ issued[v] # NONE
        => issued[t].state # issued[v].state

(* What a login put into a browser lets it in, as its own account and both *)
(* ways it is looked up, until it expires or is logged out: no other login,*)
(* pruning or restart takes it away (route.rs:246-276, 302; store.rs).     *)
CookieWorks ==
    \A u \in Users : LET t == cookie[u] IN
        t # NONE /\ issued[t].expires > now => Me(u) /\ UserForToken(t) = u

(* A request that arrives with a session that was logged out or has        *)
(* expired, or without one, gets no further than the exempt routes         *)
(* (middleware.rs:81-105, route.rs:282-285).                               *)
LateIsRefused ==
    \A r \in Handlers : work[r].late => ~Stands(r, "passed")
==============================================================================
