------------------------ MODULE IntegrationTokensProofs ------------------------
(***************************************************************************)
(* What holds of the rotation of a workspace's token for any number of     *)
(* overlapping requests, providers and tokens, and whatever fails.         *)
(***************************************************************************)
EXTENDS IntegrationTokens, TLAPS

Holding == {"store", "copy", "chown", "revoke"}
Scoped == {"pend", "prev", "issue"} \union Holding
Finishing == {"connect", "list"}

(* What a request is at each of its steps, told from the request alone     *)
RequestOK(q) ==
    /\ q \in Request
    /\ q.pc \in {"put", "undo"} => q.op = "connect"
    /\ q.pc \in {"scan", "peek", "pick", "find", "expire"} => q.op = "list"
    /\ q.pc \in {"delete", "mark", "left", "tprev", "trevoke", "tforget", "tfile"} =>
          q.op = "disconnect"
    /\ q.pc \in {"allow", "pend", "connected", "error"} => q.op \in Finishing
    /\ q.pc \in {"prev", "revoke"} => q.op \in Finishing \union {"disconnect"}
    /\ q.pc \in Scoped => q.op \in Finishing \union {"disconnect", "create"}
    /\ q.pc \notin {"idle", "scan", "peek", "pick"} => q.op = "create" \/ q.p \in Providers
    /\ q.pc \in Scoped => q.scope # {} /\ (q.op \in Finishing => q.p \in q.scope)
    /\ q.pc \in Holding <=> q.new # NONE
    /\ q.new # NONE => q.prev # q.new
    /\ q.pc = "trevoke" => q.prev # NONE

(* A token is published once its creator has written it to the table: no   *)
(* request will write it there again.                                      *)
Published(t) ==
    st[t] # "unborn" /\ \A s \in Requests : req[s].pc = "store" => req[s].new # t

(* What a request's tokens are                                             *)
TokensOK(q) ==
    /\ q.pc \in Holding => st[q.new] # "unborn" /\ scope[q.new] = q.scope
    /\ q.pc = "revoke" => q.new \in delivered
    /\ q.pc = "connected" => \E t \in delivered : q.p \in scope[t]
    /\ q.prev # NONE => Published(q.prev)
    /\ q.pc \in {"copy", "chown", "revoke"} /\ q.prev # NONE => stored # q.prev

RequestsOK == \A r \in Requests : RequestOK(req[r])
RequestTokensOK == \A r \in Requests : TokensOK(req[r])
NoTokenShared ==
    \A r, s \in Requests :
        r # s /\ req[r].pc \in Holding /\ req[s].pc \in Holding => req[r].new # req[s].new
StoredIsPublished == stored # NONE => Published(stored)
DeliveredIsBorn == \A t \in delivered : st[t] # "unborn"

(* The inductive invariant                                                 *)
IInv ==
    /\ TypeOK
    /\ RequestsOK /\ RequestTokensOK /\ NoTokenShared
    /\ StoredIsPublished /\ DeliveredIsBorn
    /\ NoUnrestrictedToken /\ ConnectedWasDelivered

(* Every action changes at most one request, and TypeOK by its parts        *)
TablesOK ==
    /\ conn \in [Providers -> RowStatus]
    /\ stored \in Toks \union {NONE}
    /\ remote \subseteq Providers
    /\ st \in [Toks -> {"unborn", "live", "revoked"}]
    /\ scope \in [Toks -> SUBSET Links]
    /\ file \in Toks \union {NONE} /\ usable \in BOOLEAN
    /\ orphans \subseteq Toks \union {NONE} /\ overtaken \in BOOLEAN
    /\ delivered \subseteq Toks /\ lost \subseteq Toks

FileOK ==
    /\ file \in Toks \union {NONE} /\ usable \in BOOLEAN
    /\ orphans \subseteq Toks \union {NONE} /\ overtaken \in BOOLEAN

(* The file and what may still be written to it keep their types           *)
LEMMA FileSteps ==
    ASSUME FileOK, NEW t \in Toks \union {NONE}, Writes(t) \/ GivesUp(t)
    PROVE  FileOK'
  <1>1. CASE Writes(t)
    BY <1>1 DEF FileOK, Writes, Leaves
  <1>2. CASE GivesUp(t)
    <2>1. orphans' \in {orphans, orphans \union {t}}
      BY <1>2 DEF GivesUp
    <2> QED
      BY <1>2, <2>1 DEF FileOK, GivesUp
  <1> QED
    BY <1>1, <1>2

Only(r) == req' = [req EXCEPT ![r] = req'[r]] /\ RequestOK(req'[r])

LEMMA InitIInv == Init => IInv
  <1> SUFFICES ASSUME Init PROVE IInv
    OBVIOUS
  <1>1. \A r \in Requests : req[r] = Creation \/ req[r] = NoRequest
    BY DEF Init
  <1>2. \A r \in Requests :
            RequestOK(req[r]) /\ TokensOK(req[r]) /\ req[r].pc \notin Holding
    <2> SUFFICES ASSUME NEW r \in Requests
                 PROVE  RequestOK(req[r]) /\ TokensOK(req[r]) /\ req[r].pc \notin Holding
      OBVIOUS
    <2>1. CASE req[r] = NoRequest
      BY <2>1 DEF RequestOK, TokensOK, NoRequest, Request, Pc, Early, Holding, Scoped
    <2>2. CASE req[r] = Creation
      BY <2>2 DEF RequestOK, TokensOK, Creation, NoRequest, Request, Pc, Early, Holding,
                  Scoped, Links, Finishing
    <2> QED
      BY <1>1, <2>1, <2>2
  <1>3. TypeOK
    BY <1>2 DEF Init, TypeOK, RequestOK, RowStatus
  <1> QED
    BY <1>2, <1>3
       DEF Init, IInv, RequestsOK, RequestTokensOK, NoTokenShared, StoredIsPublished,
           DeliveredIsBorn, NoUnrestrictedToken, ConnectedWasDelivered, Connected

(* What a step of one request must respect for the invariant to survive it: *)
(* tokens are born once, with an allow-list that is kept; only a token just *)
(* born is ever about to be stored; and what is stored was about to be.     *)
LEMMA OneRequest ==
    ASSUME IInv, NEW r \in Requests, Only(r), TablesOK', TokensOK(req[r])',
           \A t \in Toks : st[t] # "unborn" => st'[t] # "unborn" /\ scope'[t] = scope[t],
           \A t \in Toks : st'[t] # "unborn" => st[t] # "unborn" \/ scope'[t] # {},
           delivered \subseteq delivered',
           \A t \in delivered' : t \in delivered \/ st[t] # "unborn",
           req'[r].pc = "store" => st[req'[r].new] = "unborn",
           req'[r].pc \in Holding =>
               \/ st[req'[r].new] = "unborn"
               \/ req[r].pc \in Holding /\ req'[r].new = req[r].new,
           \/ stored' \in {stored, NONE}
           \/ req[r].pc = "store" /\ stored' = req[r].new /\ req'[r].pc # "store",
           \A p \in Providers : conn'[p] = "connected" =>
               conn[p] = "connected" \/ \E t \in delivered : p \in scope[t]
    PROVE  IInv'
  <1> USE DEF IInv
  <1>1. req' \in [Requests -> Request] /\ \A s \in Requests : RequestOK(req'[s])
    BY DEF Only, RequestsOK, RequestOK, TypeOK
  <1>2. TypeOK'
    BY <1>1 DEF TypeOK, TablesOK, RequestOK
  <1>3. RequestsOK'
    BY <1>1 DEF RequestsOK
  <1>4. \A s \in Requests : s # r => req'[s] = req[s]
    BY DEF Only, TypeOK
  <1>5. req'[r].new \in Toks \union {NONE} /\ req[r].new \in Toks \union {NONE}
    BY <1>1 DEF Request, TypeOK
  <1>6. \A s \in Requests : req[s].pc \in Holding =>
            req[s].new \in Toks /\ st[req[s].new] # "unborn"
    BY DEF RequestsOK, RequestOK, RequestTokensOK, TokensOK, Request
  <1>7. \A t \in Toks : Published(t) => Published(t)'
    BY <1>4 DEF Published
  <1>8. ASSUME NEW s \in Requests, s # r PROVE TokensOK(req[s])'
    <2>1. TokensOK(req[s]) /\ RequestOK(req[s]) /\ req'[s] = req[s]
      BY <1>4, <1>8 DEF RequestsOK, RequestTokensOK
    <2>2. req[s].new \in Toks \union {NONE} /\ req[s].prev \in Toks \union {NONE}
      BY <2>1 DEF RequestOK, Request
    <2>3. req[s].pc \in Holding =>
              st'[req[s].new] # "unborn" /\ scope'[req[s].new] = req[s].scope
      BY <1>6, <2>1 DEF TokensOK
    <2>4. req[s].pc = "connected" => \E t \in delivered' : req[s].p \in scope'[t]
      BY <2>1 DEF TokensOK, DeliveredIsBorn, TypeOK
    <2>5. req[s].prev # NONE => Published(req[s].prev)'
      BY <1>7, <2>1, <2>2 DEF TokensOK
    <2>6. req[s].pc \in {"copy", "chown", "revoke"} /\ req[s].prev # NONE =>
              stored' # req[s].prev
      BY <2>1 DEF TokensOK, Published
    <2> QED
      BY <2>1, <2>3, <2>4, <2>5, <2>6 DEF TokensOK
  <1>9. RequestTokensOK'
    BY <1>8 DEF RequestTokensOK
  <1>10. NoTokenShared'
    <2> SUFFICES ASSUME NEW s \in Requests, s # r, req'[r].pc \in Holding,
                        req[s].pc \in Holding
                 PROVE  req'[r].new # req[s].new
      BY <1>4 DEF NoTokenShared
    <2> QED
      BY <1>6 DEF NoTokenShared
  <1>11. StoredIsPublished'
    <2>1. CASE stored' \in {stored, NONE}
      BY <2>1, <1>7 DEF StoredIsPublished, TypeOK
    <2>2. CASE req[r].pc = "store" /\ stored' = req[r].new /\ req'[r].pc # "store"
      BY <2>2, <1>4, <1>6 DEF StoredIsPublished, Published, NoTokenShared, Holding
    <2> QED
      BY <2>1, <2>2
  <1>12. DeliveredIsBorn'
    BY DEF DeliveredIsBorn, TypeOK, TablesOK
  <1>13. NoUnrestrictedToken'
    BY DEF NoUnrestrictedToken
  <1>14. ConnectedWasDelivered'
    <2> SUFFICES ASSUME NEW p \in Providers, conn'[p] = "connected"
                 PROVE  \E t \in delivered' : p \in scope'[t]
      BY DEF ConnectedWasDelivered, Connected
    <2>1. PICK t \in delivered : p \in scope[t]
      BY DEF ConnectedWasDelivered, Connected
    <2> QED
      BY <2>1 DEF DeliveredIsBorn, TypeOK
  <1> QED
    BY <1>2, <1>3, <1>9, <1>10, <1>11, <1>12, <1>13, <1>14

(* A step that touches no token may rely on no more than that it is one.    *)
LEMMA Moves ==
    ASSUME IInv, NEW r \in Requests, Only(r), TablesOK',
           UNCHANGED <<stored, tokens, delivered>>,
           req'[r].pc \notin Holding \union {"connected"},
           req'[r].prev \in {NONE, req[r].prev, stored},
           \A p \in Providers : conn'[p] = "connected" =>
               conn[p] = "connected" \/ \E t \in delivered : p \in scope[t]
    PROVE  IInv'
  <1>1. req'[r].prev # NONE => Published(req'[r].prev)
    BY DEF IInv, RequestTokensOK, TokensOK, StoredIsPublished
  <1>2. \A s \in Requests : s # r => req'[s] = req[s]
    BY DEF Only, IInv, TypeOK
  <1>3. \A t : Published(t) => Published(t)'
    BY <1>2 DEF Published, Holding, tokens
  <1>4. TokensOK(req[r])'
    BY <1>1, <1>3 DEF TokensOK, Published, Holding, tokens
  <1> QED
    BY <1>4, OneRequest DEF tokens, Holding, IInv, DeliveredIsBorn

LEMMA Quits ==
    ASSUME IInv, NEW r \in Requests,
           \/ Answer(r)
           \/ Fail(r) /\ req[r].pc \in Scoped \union {"allow", "connected"}
    PROVE  /\ Only(r) /\ TokensOK(req[r])'
           /\ req'[r].pc \notin Holding \union {"connected"} /\ req'[r].prev = NONE
  <1> USE DEF IInv
  <1>1. RequestOK(req[r]) /\ req \in [Requests -> Request]
    BY DEF TypeOK, RequestsOK
  <1>2. CASE Answer(r)
    <2>1. req' = [req EXCEPT ![r] = req'[r]] /\ req'[r] = NoRequest
      BY <1>1, <1>2 DEF Answer
    <2>2. RequestOK(NoRequest)
      BY DEF RequestOK, NoRequest, Request, Pc, Early, Holding, Scoped
    <2>3. NoRequest.pc = "idle" /\ NoRequest.prev = NONE
      BY DEF NoRequest
    <2> QED
      BY <2>1, <2>2, <2>3 DEF Only, TokensOK, Holding
  <1>3. CASE Leave(r, "error") /\ req[r].op \in Finishing
             /\ req[r].pc \in Scoped \union {"allow", "connected"}
    <2>1. /\ req' = [req EXCEPT ![r] = req'[r]]
          /\ req'[r] = [req[r] EXCEPT !.pc = "error", !.scope = {}, !.prev = NONE, !.new = NONE]
      BY <1>1, <1>3 DEF Leave
    <2>2. RequestOK(req'[r])
      BY <1>1, <1>3, <2>1 DEF RequestOK, Request, Pc, Early, Holding, Scoped, Finishing
    <2>3. req'[r].pc = "error" /\ req'[r].prev = NONE
      BY <1>1, <2>1 DEF Request
    <2> QED
      BY <2>1, <2>2, <2>3 DEF Only, TokensOK, Holding
  <1> QED
    BY <1>2, <1>3 DEF Fail, Finishing

LEMMA Arrivals ==
    ASSUME IInv, NEW r \in Requests,
           \/ \E op \in Ops \ {"list"}, p \in Providers : Receive(r, op, p)
           \/ "list" \in Ops /\ ReceiveList(r)
    PROVE  IInv'
  <1> USE DEF IInv
  <1>1. RequestOK(req[r]) /\ req \in [Requests -> Request]
    BY DEF TypeOK, RequestsOK
  <1>2. TablesOK' /\ UNCHANGED <<conn, stored, tokens, delivered>>
    BY DEF TypeOK, TablesOK, Receive, ReceiveList, tokens, container, history
  <1>3. ASSUME NEW op \in Ops, NEW p \in Providers, Receive(r, op, p) PROVE IInv'
    <2>1. /\ req' = [req EXCEPT ![r] = req'[r]]
          /\ req'[r] = [NoRequest EXCEPT !.op = op, !.p = p, !.pc = req'[r].pc]
          /\ <<op, req'[r].pc>> \in
                 {<<"connect", "put">>, <<"disconnect", "delete">>, <<"oauth", "authorize">>}
      BY <1>1, <1>3 DEF Receive, NoRequest
    <2>2. RequestOK(req'[r]) /\ req'[r].prev = NONE /\ req'[r].pc \notin Holding \union {"connected"}
      BY <2>1 DEF RequestOK, NoRequest, Request, Pc, Early, Holding, Scoped
    <2> QED
      BY <1>2, <2>1, <2>2, Moves DEF Only
  <1>4. CASE "list" \in Ops /\ ReceiveList(r)
    <2>1. /\ req' = [req EXCEPT ![r] = req'[r]]
          /\ req'[r] = [NoRequest EXCEPT !.op = "list", !.pc = "scan", !.pending = Curated]
      BY <1>1, <1>4 DEF ReceiveList
    <2>2. RequestOK(req'[r]) /\ req'[r].prev = NONE /\ req'[r].pc \notin Holding \union {"connected"}
      BY <1>4, <2>1, KindsAssumption
         DEF RequestOK, NoRequest, Request, Pc, Early, Holding, Scoped
    <2> QED
      BY <1>2, <2>1, <2>2, Moves DEF Only
  <1> QED
    BY <1>3, <1>4

(* Most steps of a request move its control alone.                          *)
LEMMA GotoMoves ==
    ASSUME IInv, NEW r \in Requests, NEW pc, Goto(r, pc), RequestOK([req[r] EXCEPT !.pc = pc])
    PROVE  /\ Only(r) /\ req'[r] = [req[r] EXCEPT !.pc = pc]
           /\ req'[r].pc = pc /\ req'[r].prev = req[r].prev /\ req'[r].new = req[r].new
  BY DEF IInv, TypeOK, RequestsOK, Goto, Only, Request

LEMMA ConnectSteps ==
    ASSUME IInv, NEW r \in Requests, Connect(r)
    PROVE  IInv'
  <1> USE DEF IInv
  <1>1. RequestOK(req[r]) /\ req \in [Requests -> Request]
    BY DEF TypeOK, RequestsOK
  <1>2. /\ TablesOK' /\ UNCHANGED <<stored, tokens, delivered>>
        /\ \A p \in Providers : conn'[p] = "connected" => conn[p] = "connected"
    <2> USE DEF TypeOK, TablesOK, tokens, container, history
    <2>1. CASE Put(r)
      BY <1>1, <2>1 DEF Put, At, RequestOK
    <2>2. CASE Undo(r)
      BY <2>2 DEF Undo
    <2>3. CASE Authorize(r)
      BY <2>3 DEF Authorize
    <2>4. CASE MarkPending(r)
      BY <1>1, <2>4 DEF MarkPending, At, RequestOK, RowStatus
    <2> QED
      BY <2>1, <2>2, <2>3, <2>4 DEF Connect
  <1>3. CASE Answer(r)
    BY <1>2, <1>3, Quits, Moves
  <1>4. CASE At(r, "put") /\ Goto(r, "allow")
    <2>1. RequestOK([req[r] EXCEPT !.pc = "allow"])
      BY <1>1, <1>4 DEF At, RequestOK, Request, Pc, Early, Holding, Scoped, Finishing
    <2> QED
      BY <1>2, <1>4, <2>1, GotoMoves, Moves DEF Holding
  <1>5. CASE At(r, "authorize") /\ Goto(r, "popup")
    <2>1. RequestOK([req[r] EXCEPT !.pc = "popup"])
      BY <1>1, <1>5 DEF At, RequestOK, Request, Pc, Holding, Scoped, Finishing
    <2> QED
      BY <1>2, <1>5, <2>1, GotoMoves, Moves DEF Holding
  <1> QED
    BY <1>3, <1>4, <1>5 DEF Connect, Put, Undo, Authorize, MarkPending

LEMMA FinishSteps ==
    ASSUME IInv, NEW r \in Requests, Finish(r)
    PROVE  IInv'
  <1> USE DEF IInv
  <1>1. RequestOK(req[r]) /\ req \in [Requests -> Request]
    BY DEF TypeOK, RequestsOK
  <1>2. /\ TablesOK' /\ UNCHANGED <<stored, tokens, delivered>>
        /\ \A p \in Providers : conn'[p] = "connected" =>
               conn[p] = "connected" \/ \E t \in delivered : p \in scope[t]
    <2> USE DEF TypeOK, TablesOK, tokens, container, history
    <2>1. CASE Allow(r)
      BY <2>1 DEF Allow
    <2>2. CASE Pend(r)
      BY <1>1, <2>2 DEF Pend, At, RequestOK, RowStatus
    <2>3. CASE MarkConnected(r)
      <3>1. \E t \in delivered : req[r].p \in scope[t]
        BY <2>3 DEF MarkConnected, At, RequestTokensOK, TokensOK
      <3> QED
        BY <2>3, <3>1 DEF MarkConnected, RowStatus
    <2>4. CASE MarkError(r)
      BY <1>1, <2>4 DEF MarkError, At, RequestOK, RowStatus
    <2> QED
      BY <2>1, <2>2, <2>3, <2>4 DEF Finish
  <1>3. CASE Answer(r) \/ (Fail(r) /\ req[r].pc \in Scoped \union {"allow", "connected"})
    BY <1>2, <1>3, Quits, Moves
  <1>4. CASE /\ At(r, "allow")
             /\ req' = [req EXCEPT ![r] =
                    [@ EXCEPT !.scope = Connected \union {req[r].p}, !.pc = "pend"]]
    <2>1. req[r].op \in Finishing /\ req[r].p \in Providers /\ Connected \subseteq Providers
      BY <1>1, <1>4 DEF At, RequestOK, Finishing, Connected
    <2>2. /\ req' = [req EXCEPT ![r] = req'[r]]
          /\ req'[r] = [req[r] EXCEPT !.scope = Connected \union {req[r].p}, !.pc = "pend"]
      BY <1>1, <1>4
    <2>3. /\ RequestOK(req'[r])
          /\ req'[r].prev = req[r].prev /\ req'[r].pc \notin Holding \union {"connected"}
      BY <1>1, <1>4, <2>1, <2>2
         DEF At, RequestOK, Request, Pc, Early, Holding, Scoped, Finishing, Links
    <2> QED
      BY <1>2, <2>2, <2>3, Moves DEF Only
  <1>5. ASSUME NEW pc, Goto(r, pc),
               \/ At(r, "pend") /\ pc = "prev"
               \/ At(r, "connected") /\ pc = "pick" /\ req[r].op = "list"
               \/ At(r, "error") /\ pc = IF req[r].op = "list" THEN "pick" ELSE "undo"
        PROVE  IInv'
    <2>1. RequestOK([req[r] EXCEPT !.pc = pc]) /\ pc \notin Holding \union {"connected"}
      BY <1>1, <1>5 DEF At, RequestOK, Request, Pc, Early, Holding, Scoped, Finishing
    <2> QED
      BY <1>2, <1>5, <2>1, GotoMoves, Moves
  <1>6. CASE Allow(r)
    BY <1>3, <1>4, <1>6 DEF Allow, At
  <1>7. CASE Pend(r)
    BY <1>3, <1>5, <1>7 DEF Pend, At, Scoped
  <1>8. CASE MarkConnected(r)
    BY <1>3, <1>5, <1>8 DEF MarkConnected, At
  <1>9. CASE MarkError(r)
    BY <1>5, <1>9 DEF MarkError
  <1> QED
    BY <1>6, <1>7, <1>8, <1>9 DEF Finish

LEMMA ListSteps ==
    ASSUME IInv, NEW r \in Requests, List(r)
    PROVE  IInv'
  <1> USE DEF IInv
  <1>1. RequestOK(req[r]) /\ req \in [Requests -> Request]
    BY DEF TypeOK, RequestsOK
  <1>2. /\ TablesOK' /\ UNCHANGED <<stored, tokens, delivered>>
        /\ \A p \in Providers : conn'[p] = "connected" => conn[p] = "connected"
    <2> USE DEF TypeOK, TablesOK, tokens, container, history
    <2>1. CASE Scan(r) \/ Peek(r) \/ Pick(r) \/ Find(r)
      BY <2>1 DEF Scan, Peek, Pick, Find
    <2>2. CASE Expire(r)
      BY <1>1, <2>2 DEF Expire, At, RequestOK, RowStatus
    <2> QED
      BY <2>1, <2>2 DEF List
  <1>3. CASE Answer(r)
    BY <1>2, <1>3, Quits, Moves
  <1>4. ASSUME NEW pc, Goto(r, pc),
               \/ At(r, "find") /\ pc \in {"allow", "expire", "pick"}
               \/ At(r, "expire") /\ pc = "pick"
        PROVE  IInv'
    <2>1. RequestOK([req[r] EXCEPT !.pc = pc]) /\ pc \notin Holding \union {"connected"}
      BY <1>1, <1>4 DEF At, RequestOK, Request, Pc, Early, Holding, Scoped, Finishing
    <2> QED
      BY <1>2, <1>4, <2>1, GotoMoves, Moves
  <1>5. ASSUME NEW pending \in SUBSET Providers, NEW found \in SUBSET Providers,
               NEW p \in Providers \union {NONE},
               req' = [req EXCEPT ![r] = [@ EXCEPT !.pending = pending, !.found = found,
                                                   !.p = p, !.pc = req'[r].pc]],
               \/ At(r, "scan") /\ req'[r].pc = "peek"
               \/ At(r, "peek") /\ req'[r].pc = "pick"
               \/ At(r, "pick") /\ p \in Providers /\ req'[r].pc \in {"find", "allow"}
        PROVE  IInv'
    <2>1. /\ req' = [req EXCEPT ![r] = req'[r]]
          /\ req'[r] = [req[r] EXCEPT !.pending = pending, !.found = found, !.p = p,
                                      !.pc = req'[r].pc]
      BY <1>1, <1>5
    <2>2. /\ RequestOK(req'[r])
          /\ req'[r].prev = req[r].prev /\ req'[r].pc \notin Holding \union {"connected"}
      BY <1>1, <1>5, <2>1
         DEF At, RequestOK, Request, Pc, Early, Holding, Scoped, Finishing
    <2> QED
      BY <1>2, <2>1, <2>2, Moves DEF Only
  <1>6. req[r].pending \in SUBSET Providers /\ req[r].found \in SUBSET Providers
        /\ req[r].p \in Providers \union {NONE}
    BY <1>1 DEF RequestOK, Request
  <1>7. CASE Scan(r)
    <2> DEFINE pending == {p \in Curated : conn[p] = "pending"}
               found == {p \in Curated : conn[p] = "none"}
    <2>1. pending \in SUBSET Providers /\ found \in SUBSET Providers
      BY KindsAssumption
    <2> HIDE DEF pending, found
    <2>2. CASE req' = [req EXCEPT ![r] =
                  [@ EXCEPT !.pending = pending, !.found = found, !.pc = "peek"]]
      <3>1. req' = [req EXCEPT ![r] = [@ EXCEPT !.pending = pending, !.found = found,
                                                !.p = req[r].p, !.pc = req'[r].pc]]
        BY <1>1, <2>2 DEF RequestOK, Request
      <3>2. req'[r].pc = "peek"
        BY <1>1, <2>2 DEF RequestOK, Request
      <3> QED
        BY <1>5, <1>6, <1>7, <2>1, <3>1, <3>2 DEF Scan
    <2> QED
      BY <1>3, <1>7, <2>2 DEF Scan, pending, found
  <1>8. CASE Peek(r)
    <2>1. PICK seen : req' = [req EXCEPT ![r] =
                  [@ EXCEPT !.found = req[r].found \intersect seen, !.pc = "pick"]]
      BY <1>8 DEF Peek
    <2>2. /\ req' = [req EXCEPT ![r] =
                [@ EXCEPT !.pending = req[r].pending, !.found = req[r].found \intersect seen,
                          !.p = req[r].p, !.pc = req'[r].pc]]
          /\ req'[r].pc = "pick"
      BY <1>1, <2>1 DEF RequestOK, Request
    <2>3. req[r].found \intersect seen \in SUBSET Providers
      BY <1>6
    <2> QED
      BY <1>5, <1>6, <1>8, <2>2, <2>3 DEF Peek
  <1>9. CASE Pick(r)
    <2>1. ASSUME NEW p \in req[r].pending,
                 req' = [req EXCEPT ![r] =
                    [@ EXCEPT !.pending = req[r].pending \ {p}, !.p = p, !.pc = "find"]]
          PROVE  IInv'
      <3>1. /\ req' = [req EXCEPT ![r] =
                  [@ EXCEPT !.pending = req[r].pending \ {p}, !.found = req[r].found,
                            !.p = p, !.pc = req'[r].pc]]
            /\ req'[r].pc = "find"
        BY <1>1, <2>1 DEF RequestOK, Request
      <3>2. p \in Providers /\ req[r].pending \ {p} \in SUBSET Providers
        BY <1>6, <2>1
      <3> QED
        BY <1>5, <1>6, <1>9, <3>1, <3>2 DEF Pick
    <2>2. ASSUME NEW p \in req[r].found,
                 req' = [req EXCEPT ![r] =
                    [@ EXCEPT !.found = req[r].found \ {p}, !.p = p, !.pc = "allow"]]
          PROVE  IInv'
      <3>1. /\ req' = [req EXCEPT ![r] =
                  [@ EXCEPT !.pending = req[r].pending, !.found = req[r].found \ {p},
                            !.p = p, !.pc = req'[r].pc]]
            /\ req'[r].pc = "allow"
        BY <1>1, <2>2 DEF RequestOK, Request
      <3>2. p \in Providers /\ req[r].found \ {p} \in SUBSET Providers
        BY <1>6, <2>2
      <3> QED
        BY <1>5, <1>6, <1>9, <3>1, <3>2 DEF Pick
    <2> QED
      BY <1>3, <1>9, <2>1, <2>2 DEF Pick
  <1>10. CASE Find(r)
    BY <1>4, <1>10 DEF Find
  <1>11. CASE Expire(r)
    BY <1>4, <1>11 DEF Expire
  <1> QED
    BY <1>7, <1>8, <1>9, <1>10, <1>11 DEF List

LEMMA DisconnectSteps ==
    ASSUME IInv, NEW r \in Requests, Disconnect(r)
    PROVE  IInv'
  <1> USE DEF IInv
  <1>1. RequestOK(req[r]) /\ TokensOK(req[r]) /\ req \in [Requests -> Request]
    BY DEF TypeOK, RequestsOK, RequestTokensOK
  <1>2. /\ TablesOK' /\ UNCHANGED <<scope, delivered>>
        /\ \A p \in Providers : conn'[p] = "connected" => conn[p] = "connected"
        /\ \A t \in Toks : st'[t] # "unborn" <=> st[t] # "unborn"
    <2> USE DEF TypeOK, TablesOK, tokens, container, history
    <2>1. CASE Delete(r) \/ Left(r) \/ TearDownPrevious(r) \/ TearDownForget(r)
      BY <2>1 DEF Delete, Left, TearDownPrevious, TearDownForget
    <2>2. CASE MarkDisconnected(r)
      BY <1>1, <2>2 DEF MarkDisconnected, At, RequestOK, RowStatus
    <2>3. CASE TearDownRevoke(r)
      <3>1. req[r].prev \in Toks /\ st[req[r].prev] # "unborn"
        BY <1>1, <2>3 DEF TearDownRevoke, At, RequestOK, Request, TokensOK, Published
      <3> QED
        BY <2>3, <3>1 DEF TearDownRevoke
    <2>4. CASE TearDownFile(r)
      <3>1. FileOK'
        BY <2>4, FileSteps DEF TearDownFile, FileOK
      <3> QED
        BY <2>4, <3>1 DEF TearDownFile, FileOK
    <2> QED
      BY <2>1, <2>2, <2>3, <2>4 DEF Disconnect
  <1>3. CASE UNCHANGED <<stored, tokens>> /\ Answer(r)
    BY <1>2, <1>3, Quits, Moves
  <1>4. ASSUME UNCHANGED <<stored, tokens>>, NEW pc, Goto(r, pc),
               \/ At(r, "delete") /\ pc = "mark"
               \/ At(r, "mark") /\ pc = "left"
               \/ At(r, "left") /\ pc = "tprev"
        PROVE  IInv'
    <2>1. RequestOK([req[r] EXCEPT !.pc = pc]) /\ pc \notin Holding \union {"connected"}
      BY <1>1, <1>4 DEF At, RequestOK, Request, Pc, Early, Holding, Scoped, Finishing
    <2> QED
      BY <1>2, <1>4, <2>1, GotoMoves, Moves
  <1>5. CASE Delete(r) \/ MarkDisconnected(r) \/ TearDownFile(r)
    BY <1>3, <1>4, <1>5 DEF Delete, MarkDisconnected, TearDownFile
  <1>6. CASE Left(r)
    <2>1. CASE /\ Connected # {}
               /\ req' = [req EXCEPT ![r] = [@ EXCEPT !.scope = Connected, !.pc = "prev"]]
      <3>1. /\ req' = [req EXCEPT ![r] = req'[r]]
            /\ req'[r] = [req[r] EXCEPT !.scope = Connected, !.pc = "prev"]
        BY <1>1, <2>1
      <3>2. Connected \in SUBSET Links
        BY DEF Connected, Links
      <3>3. /\ RequestOK(req'[r])
            /\ req'[r].prev = req[r].prev /\ req'[r].pc \notin Holding \union {"connected"}
        BY <1>1, <1>6, <2>1, <3>1, <3>2
           DEF Left, At, RequestOK, Request, Pc, Early, Holding, Scoped, Finishing
      <3> QED
        BY <1>2, <1>6, <3>1, <3>3, Moves DEF Left, Only
    <2> QED
      BY <1>3, <1>4, <1>6, <2>1 DEF Left
  <1>7. CASE TearDownPrevious(r)
    <2>1. CASE req' = [req EXCEPT ![r] =
             [@ EXCEPT !.prev = stored, !.pc = IF stored = NONE THEN "tfile" ELSE "trevoke"]]
      <3>1. /\ req' = [req EXCEPT ![r] = req'[r]]
            /\ req'[r] = [req[r] EXCEPT !.prev = stored,
                               !.pc = IF stored = NONE THEN "tfile" ELSE "trevoke"]
        BY <1>1, <2>1
      <3>2. /\ stored \in Toks \union {NONE}
            /\ req[r].op = "disconnect" /\ req[r].p \in Providers /\ req[r].new = NONE
        BY <1>1, <1>7 DEF TypeOK, TearDownPrevious, At, RequestOK, Holding
      <3>3. ASSUME NEW pc \in {"tfile", "trevoke"}, pc = "trevoke" => stored # NONE
            PROVE  RequestOK([req[r] EXCEPT !.prev = stored, !.pc = pc])
        BY <1>1, <3>2, <3>3 DEF RequestOK, Request, Pc, Early, Holding, Scoped, Finishing
      <3>4. req'[r].prev = stored /\ req'[r].pc = IF stored = NONE THEN "tfile" ELSE "trevoke"
        BY <1>1, <3>1 DEF RequestOK, Request
      <3>5. RequestOK(req'[r]) /\ req'[r].pc \notin Holding \union {"connected"}
        BY <3>1, <3>3, <3>4 DEF Holding
      <3> QED
        BY <1>2, <1>7, <3>1, <3>4, <3>5, Moves DEF TearDownPrevious, Only
    <2> QED
      BY <1>3, <1>7, <2>1 DEF TearDownPrevious
  <1>8. CASE TearDownRevoke(r)
    <2>1. /\ req' = [req EXCEPT ![r] = req'[r]]
          /\ req'[r] = [req[r] EXCEPT !.pc = "tforget", !.scope = {}, !.prev = NONE, !.new = NONE]
      BY <1>1, <1>8 DEF TearDownRevoke, Leave
    <2>2. /\ RequestOK(req'[r]) /\ TokensOK(req[r])'
          /\ req'[r].pc \notin Holding \union {"connected"}
      BY <1>1, <1>8, <2>1 DEF TearDownRevoke, At, RequestOK, TokensOK, Request, Pc, Early,
                              Holding, Scoped, Finishing
    <2> QED
      BY <1>2, <1>8, <2>1, <2>2, OneRequest
         DEF TearDownRevoke, Only, DeliveredIsBorn, Holding
  <1>9. CASE TearDownForget(r)
    <2>1. RequestOK([req[r] EXCEPT !.pc = "tfile"])
      BY <1>1, <1>9 DEF TearDownForget, At, RequestOK, Request, Pc, Early, Holding, Scoped,
                        Finishing
    <2>2. /\ Only(r) /\ req'[r] = [req[r] EXCEPT !.pc = "tfile"]
          /\ req'[r].pc = "tfile" /\ req'[r].prev = req[r].prev /\ req'[r].new = req[r].new
      BY <1>9, <2>1, GotoMoves DEF TearDownForget
    <2>3. \A t : Published(t) => Published(t)'
      BY <1>1, <1>9, <2>2 DEF TearDownForget, Published, tokens, Only
    <2>4. TokensOK(req[r])'
      BY <1>1, <2>2, <2>3 DEF TokensOK, Holding
    <2> QED
      BY <1>2, <1>9, <2>2, <2>4, OneRequest
         DEF TearDownForget, tokens, DeliveredIsBorn, Holding
  <1> QED
    BY <1>5, <1>6, <1>7, <1>8, <1>9 DEF Disconnect

LEMMA ForsakenAreTokens ==
    ASSUME IInv, NEW r \in Requests
    PROVE  lost \union Forsaken(r) \subseteq Toks
  BY DEF IInv, TypeOK, Request, Forsaken

(* The rotation itself, the only part that makes a token                    *)
LEMMA RotateSteps ==
    ASSUME IInv, NEW r \in Requests, Rotate(r)
    PROVE  IInv'
  <1> USE DEF IInv
  <1>1. /\ RequestOK(req[r]) /\ TokensOK(req[r]) /\ req \in [Requests -> Request]
        /\ stored \in Toks \union {NONE} /\ st \in [Toks -> {"unborn", "live", "revoked"}]
        /\ scope \in [Toks -> SUBSET Links]
    BY DEF TypeOK, RequestsOK, RequestTokensOK
  <1>2. req[r].pc \in Holding => req[r].new \in Toks /\ st[req[r].new] # "unborn"
    BY <1>1 DEF RequestOK, Request, TokensOK
  <1>3. DeliveredIsBorn /\ delivered \subseteq Toks
    BY DEF TypeOK
  <1>4. ASSUME UNCHANGED <<conn, stored, tokens>>, TablesOK', UNCHANGED delivered,
               Answer(r) \/ (Fail(r) /\ req[r].pc \in Scoped)
        PROVE  IInv'
    BY <1>4, Quits, Moves
  <1>5. CASE Previous(r)
    <2>1. TablesOK'
      BY <1>5 DEF Previous, TypeOK, TablesOK, tokens, container, history
    <2>2. CASE req' = [req EXCEPT ![r] = [@ EXCEPT !.prev = stored, !.pc = "issue"]]
      <3>1. /\ req' = [req EXCEPT ![r] = req'[r]]
            /\ req'[r] = [req[r] EXCEPT !.prev = stored, !.pc = "issue"]
            /\ req'[r].prev = stored /\ req'[r].pc = "issue"
        BY <1>1, <2>2 DEF Request
      <3>2. RequestOK(req'[r])
        BY <1>1, <1>5, <3>1 DEF Previous, At, RequestOK, Request, Pc, Early, Holding, Scoped,
                                Finishing
      <3> QED
        BY <1>5, <2>1, <3>1, <3>2, Moves DEF Previous, Only, Holding, history
    <2> QED
      BY <1>4, <1>5, <2>1, <2>2 DEF Previous, At, Scoped, history
  <1>6. CASE Issue(r)
    <2>1. CASE Fail(r) /\ UNCHANGED <<tokens, lost>>
      <3>1. TablesOK'
        BY <1>6, <2>1 DEF Issue, TypeOK, TablesOK, tokens, container
      <3> QED
        BY <1>4, <1>6, <2>1, <3>1 DEF Issue, At, Scoped
    <2>2. ASSUME NEW t \in Unborn,
                 st' = [st EXCEPT ![t] = "live"],
                 scope' = [scope EXCEPT ![t] = req[r].scope],
                 \/ /\ req' = [req EXCEPT ![r] = [@ EXCEPT !.new = t, !.pc = "store"]]
                    /\ UNCHANGED lost
                 \/ Fail(r) /\ lost' = lost \union {t}
          PROVE  IInv'
      <3>1. t \in Toks /\ st[t] = "unborn" /\ t # NONE
        BY <2>2, SentinelsAssumption DEF Unborn
      <3>2. req[r].scope \subseteq Links /\ req[r].scope # {}
        BY <1>1, <1>6 DEF Issue, At, RequestOK, Request, Scoped
      <3>3. TablesOK'
        BY <1>6, <2>2, <3>1, <3>2 DEF Issue, TypeOK, TablesOK, container
      <3>4. /\ \A u \in Toks : st[u] # "unborn" => st'[u] # "unborn" /\ scope'[u] = scope[u]
            /\ \A u \in Toks : st'[u] # "unborn" => st[u] # "unborn" \/ scope'[u] # {}
        BY <1>1, <2>2, <3>1, <3>2
      <3>5. CASE Fail(r)
        <4>1. /\ Only(r) /\ TokensOK(req[r])'
              /\ req'[r].pc \notin Holding \union {"connected"}
          BY <1>6, <3>5, Quits DEF Issue, At, Scoped
        <4> QED
          BY <1>3, <1>6, <3>3, <3>4, <4>1, OneRequest DEF Issue, Holding, DeliveredIsBorn
      <3>6. CASE req' = [req EXCEPT ![r] = [@ EXCEPT !.new = t, !.pc = "store"]]
        <4>1. /\ req' = [req EXCEPT ![r] = req'[r]]
              /\ req'[r] = [req[r] EXCEPT !.new = t, !.pc = "store"]
              /\ req'[r].new = t /\ req'[r].pc = "store" /\ req'[r].prev = req[r].prev
              /\ req'[r].scope = req[r].scope
          BY <1>1, <3>6 DEF Request
        <4>2. req[r].prev # NONE => st[req[r].prev] # "unborn" /\ Published(req[r].prev)
          BY <1>1 DEF TokensOK, Published
        <4>3. RequestOK(req'[r])
          BY <1>1, <1>6, <3>1, <4>1, <4>2
             DEF Issue, At, RequestOK, Request, Pc, Early, Holding, Scoped, Finishing
        <4>4. req[r].prev # NONE => req[r].prev \in Toks
          BY <1>1 DEF RequestOK, Request
        <4>5. req[r].prev # NONE => Published(req[r].prev)'
          BY <1>1, <3>1, <3>4, <4>1, <4>2, <4>4 DEF Published
        <4>6. TokensOK(req[r])'
          BY <1>1, <2>2, <3>1, <4>1, <4>5 DEF TokensOK
        <4> QED
          BY <1>3, <1>6, <3>1, <3>3, <3>4, <4>1, <4>3, <4>6, OneRequest
             DEF Issue, Holding, DeliveredIsBorn, Only
      <3> QED
        BY <2>2, <3>5, <3>6
    <2> QED
      BY <1>6, <2>1, <2>2 DEF Issue
  <1>7. CASE Store(r)
    <2>1. TablesOK'
      BY <1>2, <1>7 DEF Store, At, Holding, TypeOK, TablesOK, tokens, container
    <2>2. CASE Fail(r) /\ UNCHANGED stored
      BY <1>4, <1>7, <2>1, <2>2 DEF Store, At, Scoped, Holding
    <2>3. CASE stored' = req[r].new /\ Goto(r, "copy")
      <3>1. RequestOK([req[r] EXCEPT !.pc = "copy"])
        BY <1>1, <1>7 DEF Store, At, RequestOK, Request, Pc, Early, Holding, Scoped, Finishing
      <3>2. /\ Only(r) /\ req'[r] = [req[r] EXCEPT !.pc = "copy"]
            /\ req'[r].pc = "copy" /\ req'[r].prev = req[r].prev /\ req'[r].new = req[r].new
        BY <2>3, <3>1, GotoMoves
      <3>3. \A t : Published(t) => Published(t)'
        BY <1>1, <1>7, <3>2 DEF Store, Published, tokens, Only
      <3>4. TokensOK(req[r])'
        BY <1>1, <1>7, <2>3, <3>2, <3>3
           DEF Store, At, TokensOK, RequestOK, Request, Holding, tokens
      <3> QED
        BY <1>3, <1>7, <2>1, <2>3, <3>2, <3>4, OneRequest
           DEF Store, At, tokens, DeliveredIsBorn, Holding
    <2> QED
      BY <1>7, <2>2, <2>3 DEF Store
  <1>8. ASSUME UNCHANGED <<conn, stored, tokens>>, TablesOK',
               delivered \subseteq delivered',
               \A t \in delivered' : t \in delivered \/ t = req[r].new,
               NEW pc, Goto(r, pc),
               \/ At(r, "copy") /\ pc = "chown"
               \/ At(r, "chown") /\ pc = "revoke" /\ req[r].op # "create"
                  /\ req[r].new \in delivered'
        PROVE  IInv'
    <2>1. RequestOK([req[r] EXCEPT !.pc = pc])
      BY <1>1, <1>8 DEF At, RequestOK, Request, Pc, Early, Holding, Scoped, Finishing
    <2>2. /\ Only(r) /\ req'[r] = [req[r] EXCEPT !.pc = pc]
          /\ req'[r].pc = pc /\ req'[r].prev = req[r].prev /\ req'[r].new = req[r].new
          /\ req'[r].scope = req[r].scope
      BY <1>1, <1>8, <2>1, GotoMoves DEF RequestOK, Request
    <2>3. \A t : Published(t) => Published(t)'
      BY <1>1, <1>8, <2>2 DEF Published, tokens, Only
    <2>4. TokensOK(req[r])'
      BY <1>1, <1>8, <2>2, <2>3 DEF At, TokensOK, Holding, tokens
    <2> QED
      BY <1>2, <1>3, <1>8, <2>2, <2>4, OneRequest DEF At, tokens, DeliveredIsBorn, Holding
  <1>9. CASE Copy(r)
    <2>1. req[r].new \in Toks /\ (Writes(req[r].new) \/ GivesUp(req[r].new))
      BY <1>2, <1>9 DEF Copy, At, Holding
    <2>2. FileOK'
      BY <1>9, <2>1, FileSteps DEF TypeOK, FileOK
    <2>3. TablesOK'
      BY <1>9, <2>2, ForsakenAreTokens DEF Copy, DeliveryFails, TypeOK, TablesOK, FileOK, tokens
    <2> QED
      BY <1>4, <1>8, <1>9, <2>3 DEF Copy, DeliveryFails, At, Scoped, Holding
  <1>10. CASE Chown(r)
    <2>1. TablesOK'
      BY <1>2, <1>10, ForsakenAreTokens
         DEF Chown, DeliveryFails, At, Holding, TypeOK, TablesOK, tokens
    <2>2. CASE delivered' = delivered \union {req[r].new} /\ Answer(r)
      <3>1. /\ Only(r) /\ TokensOK(req[r])' /\ req'[r].pc \notin Holding \union {"connected"}
        BY <2>2, Quits
      <3> QED
        BY <1>2, <1>3, <1>10, <2>1, <2>2, <3>1, OneRequest
           DEF Chown, At, tokens, DeliveredIsBorn, Holding
    <2>3. CASE delivered' = delivered \union {req[r].new} /\ req[r].op # "create"
               /\ Goto(r, "revoke")
      BY <1>8, <1>10, <2>1, <2>3 DEF Chown
    <2>4. CASE UNCHANGED delivered /\ Fail(r)
      BY <1>4, <1>10, <2>1, <2>4 DEF Chown, At, Scoped, Holding
    <2> QED
      BY <1>10, <2>2, <2>3, <2>4 DEF Chown, DeliveryFails
  <1>11. CASE Revoke(r)
    <2>1. req[r].prev # NONE => req[r].prev \in Toks /\ st[req[r].prev] # "unborn"
      BY <1>1 DEF RequestOK, Request, TokensOK, Published
    <2>2. TablesOK' /\ \A t \in Toks : st'[t] # "unborn" <=> st[t] # "unborn"
      BY <1>11, <2>1 DEF Revoke, TypeOK, TablesOK, container
    <2>3. CASE Answer(r)
      <3>1. /\ Only(r) /\ TokensOK(req[r])' /\ req'[r].pc \notin Holding \union {"connected"}
        BY <2>3, Quits
      <3> QED
        BY <1>3, <1>11, <2>2, <3>1, OneRequest DEF Revoke, DeliveredIsBorn, Holding
    <2>4. CASE Leave(r, "connected") /\ req[r].op # "disconnect"
      <3>1. /\ req' = [req EXCEPT ![r] = req'[r]]
            /\ req'[r] = [req[r] EXCEPT !.pc = "connected", !.scope = {}, !.prev = NONE,
                                        !.new = NONE]
        BY <1>1, <2>4 DEF Leave
      <3>2. req'[r].pc = "connected" /\ req'[r].prev = NONE /\ req'[r].p = req[r].p
        BY <1>1, <3>1 DEF Request
      <3>3. RequestOK(req'[r])
        BY <1>1, <1>11, <2>4, <3>1 DEF Revoke, At, RequestOK, Request, Pc, Early, Holding,
                                       Scoped, Finishing
      <3>4. req[r].new \in delivered /\ req[r].p \in scope[req[r].new]
        BY <1>1, <1>11, <2>4 DEF Revoke, At, RequestOK, TokensOK, Holding, Scoped, Finishing
      <3>5. TokensOK(req[r])'
        BY <1>11, <3>2, <3>4 DEF Revoke, TokensOK, Holding
      <3> QED
        BY <1>3, <1>11, <2>2, <3>1, <3>2, <3>3, <3>5, OneRequest
           DEF Revoke, DeliveredIsBorn, Holding, Only
    <2> QED
      BY <1>11, <2>3, <2>4 DEF Revoke, AfterRotation
  <1> QED
    BY <1>5, <1>6, <1>7, <1>9, <1>10, <1>11 DEF Rotate

LEMMA StepIInv == IInv /\ [Next]_vars => IInv'
  <1> SUFFICES ASSUME IInv, [Next]_vars PROVE IInv'
    OBVIOUS
  <1>1. CASE UNCHANGED vars
    BY <1>1 DEF vars, tokens, container, history, IInv, TypeOK, RequestsOK, RequestTokensOK,
                TokensOK, Published, NoTokenShared, StoredIsPublished, DeliveredIsBorn,
                NoUnrestrictedToken, ConnectedWasDelivered, Connected
  <1>2. ASSUME NEW r \in Requests, Refuse(r) PROVE IInv'
    BY <1>1, <1>2 DEF Refuse
  <1>3. ASSUME NEW r \in Requests, Drop(r) PROVE IInv'
    <2>1. FileOK'
      <3>1. FileOK /\ req[r].new \in Toks \union {NONE}
        BY DEF IInv, TypeOK, FileOK, Request
      <3>2. GivesUp(req[r].new) \/ GivesUp(NONE) \/ UNCHANGED container
        BY <1>3 DEF Drop
      <3> QED
        BY <3>1, <3>2, FileSteps DEF FileOK, container
    <2>2. TablesOK'
      BY <1>3, <2>1, ForsakenAreTokens DEF Drop, IInv, TypeOK, TablesOK, FileOK, tokens
    <2> QED
      BY <1>3, <2>2, Quits, Moves DEF Drop
  <1>4. ASSUME NEW p \in Providers, ConnectsOutOfBand(p) PROVE IInv'
    BY <1>4 DEF ConnectsOutOfBand, tokens, container, history, IInv, TypeOK, RequestsOK,
                RequestTokensOK, TokensOK, Published, NoTokenShared, StoredIsPublished,
                DeliveredIsBorn, NoUnrestrictedToken, ConnectedWasDelivered, Connected
  <1>5. ASSUME NEW t \in Toks \union {NONE}, OrphanEnds(t) PROVE IInv'
    <2>1. /\ file' = t /\ usable' = FALSE /\ overtaken' = TRUE /\ orphans' \subseteq orphans
          /\ UNCHANGED <<conn, stored, remote, st, scope, req, delivered, lost>>
      BY <1>5 DEF OrphanEnds, Leaves, tokens, history
    <2>2. TypeOK'
      BY <2>1 DEF IInv, TypeOK
    <2> QED
      BY <2>1, <2>2 DEF IInv, RequestsOK, RequestTokensOK, TokensOK, Published, NoTokenShared,
                        StoredIsPublished, DeliveredIsBorn, NoUnrestrictedToken,
                        ConnectedWasDelivered, Connected
  <1> QED
    BY <1>1, <1>2, <1>3, <1>4, <1>5, Arrivals, RotateSteps, FinishSteps, ConnectSteps, ListSteps,
       DisconnectSteps
       DEF Next

------------------------------------------------------------------------------
(* The theorems *)

(* The strengthening is an invariant of the integrations.                  *)
THEOREM Invariance == Spec => []IInv
  BY InitIInv, StepIInv, PTL DEF Spec

(* The state has the type it should, and no rotation ever takes the token  *)
(* it has just created for the previous one (rotate_workspace_token).      *)
THEOREM TypeCorrect == Spec => []TypeOK
  <1>1. IInv => TypeOK
    BY DEF IInv
  <1> QED
    BY <1>1, Invariance, PTL

(* A provider is shown as connected only after a token that allows it has  *)
(* reached the container, however requests overlap (finish_connection).    *)
THEOREM ConnectedOnlyAfterDelivery == Spec => []ConnectedWasDelivered
  <1>1. IInv => ConnectedWasDelivered
    BY DEF IInv
  <1> QED
    BY <1>1, Invariance, PTL

(* No flow ever asks OpenConnector for a token with an empty allow-list.   *)
THEOREM TokensAreRestricted == Spec => []NoUnrestrictedToken
  <1>1. IInv => NoUnrestrictedToken
    BY DEF IInv
  <1> QED
    BY <1>1, Invariance, PTL

(* However rotations overlap, none revokes the token the table holds       *)
(* (rotate_workspace_token).                                               *)
THEOREM StoredSurvivesRotation == Spec => RotationSparesStored
  <1> DEFINE Spares ==
          (\E r \in Requests : At(r, "revoke") /\ req'[r] # req[r]) /\ stored # NONE =>
              st'[stored] = st[stored]
  <1>1. ASSUME IInv, Next, NEW r \in Requests, At(r, "revoke"), req'[r] # req[r],
               stored # NONE
        PROVE  st'[stored] = st[stored]
    <2>1. /\ stored \in Toks /\ st[stored] # "unborn" /\ st \in [Toks -> {"unborn", "live", "revoked"}]
          /\ req \in [Requests -> Request]
      BY <1>1 DEF IInv, StoredIsPublished, Published, TypeOK
    <2>2. ASSUME NEW s \in Requests, Issue(s) PROVE st'[stored] = st[stored]
      BY <2>1, <2>2 DEF Issue, Unborn, tokens
    <2>3. ASSUME NEW s \in Requests, Revoke(s) PROVE st'[stored] = st[stored]
      <3>1. req[s].prev # NONE => stored # req[s].prev
        BY <1>1, <2>3 DEF IInv, RequestTokensOK, TokensOK, Revoke, At
      <3> QED
        BY <2>1, <2>3, <3>1 DEF Revoke
    <2>4. ASSUME NEW s \in Requests, TearDownRevoke(s) PROVE FALSE
      <3>1. s # r /\ req'[r] = req[r]
        BY <1>1, <2>1, <2>4 DEF TearDownRevoke, At, Leave
      <3> QED
        BY <1>1, <3>1
    <2>5. CASE UNCHANGED st
      BY <2>5
    <2>6. ASSUME NEW s \in Requests,
                 Previous(s) \/ Store(s) \/ Copy(s) \/ Chown(s) \/ Finish(s) \/ Connect(s)
                     \/ List(s) \/ Drop(s) \/ Refuse(s) \/ ReceiveList(s)
          PROVE  UNCHANGED st
      BY <2>6 DEF Previous, Store, Copy, Chown, Finish, Allow, Pend, MarkConnected, MarkError,
                  Connect, Put, Undo, Authorize, MarkPending, List, Scan, Peek, Pick, Find,
                  Expire, Drop, Refuse, ReceiveList, vars, tokens
    <2>7. ASSUME NEW s \in Requests, Disconnect(s) PROVE UNCHANGED st
      BY <2>4, <2>7 DEF Disconnect, Delete, MarkDisconnected, Left, TearDownPrevious,
                        TearDownForget, TearDownFile, tokens
    <2>8. ASSUME NEW s \in Requests, NEW op \in Ops, NEW p \in Providers, Receive(s, op, p)
          PROVE  UNCHANGED st
      BY <2>8 DEF Receive, tokens
    <2>9. ASSUME NEW p \in Providers, ConnectsOutOfBand(p) PROVE UNCHANGED st
      BY <2>9 DEF ConnectsOutOfBand, tokens
    <2>10. ASSUME NEW t, OrphanEnds(t) PROVE UNCHANGED st
      BY <2>10 DEF OrphanEnds, tokens
    <2> QED
      BY <1>1, <2>2, <2>3, <2>5, <2>6, <2>7, <2>8, <2>9, <2>10 DEF Next, Rotate
  <1>2. IInv /\ [Next]_vars => [Spares]_vars
    BY <1>1
  <1>3. []IInv /\ [][Next]_vars => [][Spares]_vars
    BY <1>2, PTL
  <1> QED
    BY <1>3, Invariance DEF Spec, RotationSparesStored
------------------------------------------------------------------------------
(* One request at a time: what the table holds, and who knows of a token   *)

OneAtATime == \A r, s \in Requests : r = s

(* A live token is the stored one, or the request's, or is forsaken.       *)
Accounted ==
    \A t \in Toks : st[t] = "live" =>
        t = stored \/ t \in lost \/ \E r \in Requests : t \in {req[r].prev, req[r].new}

(* The request knows what is stored while it rotates it, or takes it down. *)
HoldsOK(q) ==
    /\ q.pc \in {"issue", "store", "trevoke"} => q.prev = stored
    /\ q.pc \notin {"issue", "store", "copy", "chown", "revoke", "trevoke"} => q.prev = NONE
    /\ q.op = "create" => q.prev = NONE
    /\ q.pc \in {"copy", "chown", "revoke"} => q.new = stored
    /\ q.pc = "tforget" /\ stored # NONE => st[stored] # "live" \/ stored \in lost

(* WorkingToken, which holds while a request is at it, too                 *)
Works ==
    Connected # {} =>
        /\ stored # NONE /\ st[stored] = "live"
        /\ Connected \subseteq scope[stored]
        /\ stored \in delivered => (file = stored /\ usable) \/ overtaken

(* What a rotation brings is no less than what is connected, and it is in  *)
(* the container, but for a late write, before a provider is shown as      *)
(* connected; nothing is while the token is taken down.                    *)
TakingDown == {"tprev", "trevoke", "tforget", "tfile"}
BringsOK(q) ==
    /\ q.pc \in Scoped => Connected \subseteq q.scope
    /\ q.pc \in Holding => st[q.new] = "live"
    /\ q.pc \in {"store", "copy", "chown"} => q.new \notin delivered
    /\ q.pc \in {"chown", "revoke"} => file = q.new \/ overtaken
    /\ q.pc = "revoke" => usable \/ overtaken
    /\ q.pc = "connected" =>
        /\ stored # NONE /\ st[stored] = "live" /\ Connected \union {q.p} \subseteq scope[stored]
        /\ (file = stored /\ usable) \/ overtaken
    /\ q.pc \in TakingDown => Connected = {}

SerialInv ==
    /\ OneAtATime /\ Accounted /\ Works
    /\ \A r \in Requests : HoldsOK(req[r]) /\ BringsOK(req[r])

(* It is enough to look at the one request there is.                       *)
LEMMA TheRequest ==
    ASSUME IInv, SerialInv, NEW r \in Requests
    PROVE  /\ req \in [Requests -> Request] /\ RequestOK(req[r]) /\ TokensOK(req[r])
           /\ HoldsOK(req[r]) /\ BringsOK(req[r]) /\ Works
           /\ \A t \in Toks : st[t] = "live" =>
                t = stored \/ t \in lost \/ t \in {req[r].prev, req[r].new}
  BY DEF IInv, SerialInv, TypeOK, RequestsOK, RequestTokensOK, OneAtATime, Accounted

LEMMA TheRequestNext ==
    ASSUME SerialInv, NEW r \in Requests, Works', HoldsOK(req[r])', BringsOK(req[r])',
           \A t \in Toks : st'[t] = "live" =>
                t = stored' \/ t \in lost' \/ t \in {req'[r].prev, req'[r].new}
    PROVE  SerialInv'
  BY DEF SerialInv, OneAtATime, Accounted

LEMMA WorksStill ==
    ASSUME Works, UNCHANGED <<stored, tokens, container, delivered>>, Connected' \subseteq Connected
    PROVE  Works'
  BY DEF Works, tokens, container

(* Steps to where a request holds no token, and has none to bring          *)
Loaded == Scoped \union {"connected"} \union TakingDown

LEMMA Settles ==
    ASSUME IInv, SerialInv, NEW r \in Requests, Works', UNCHANGED <<stored, st>>, lost \subseteq lost',
           req'[r].pc \notin Loaded, req'[r].prev = NONE,
           \A t \in {req[r].prev, req[r].new} : t = NONE \/ t = stored \/ t \in lost'
    PROVE  SerialInv'
  <1>1. HoldsOK(req[r])' /\ BringsOK(req[r])'
    BY DEF HoldsOK, BringsOK, Loaded, Scoped, Holding, TakingDown
  <1>2. NONE \notin Toks
    BY SentinelsAssumption
  <1> QED
    BY <1>1, <1>2, TheRequest, TheRequestNext

(* ... and those of a request that knows of none but the stored one        *)
LEMMA SettlesUnloaded ==
    ASSUME IInv, SerialInv, NEW r \in Requests,
           UNCHANGED <<stored, tokens, container, delivered>>, lost \subseteq lost',
           Connected' \subseteq Connected,
           req[r].pc \notin Holding \union {"trevoke"},
           req'[r].pc \notin Loaded, req'[r].prev = NONE
    PROVE  SerialInv'
  <1>1. req[r].new = NONE /\ req[r].prev \in {NONE, stored}
    BY TheRequest DEF RequestOK, HoldsOK, Holding
  <1>2. Works'
    BY TheRequest, WorksStill
  <1> QED
    BY <1>1, <1>2, Settles DEF tokens

LEMMA QuitsSettle ==
    ASSUME IInv, NEW r \in Requests,
           \/ Answer(r)
           \/ Fail(r) /\ req[r].pc \in Scoped \union {"allow", "connected"}
    PROVE  req'[r].pc \notin Loaded /\ req'[r].prev = NONE
  <1>1. req \in [Requests -> Request]
    BY DEF IInv, TypeOK
  <1>2. CASE Answer(r)
    BY <1>1, <1>2 DEF Answer, NoRequest, Loaded, Scoped, Holding, TakingDown
  <1>3. CASE Leave(r, "error")
    <2>1. req'[r] = [req[r] EXCEPT !.pc = "error", !.scope = {}, !.prev = NONE, !.new = NONE]
      BY <1>1, <1>3 DEF Leave
    <2>2. req'[r].pc = "error" /\ req'[r].prev = NONE
      BY <1>1, <2>1 DEF Request
    <2> QED
      BY <2>2 DEF Loaded, Scoped, Holding, TakingDown
  <1> QED
    BY <1>2, <1>3 DEF Fail

LEMMA SerialArrivals ==
    ASSUME IInv, SerialInv, NEW r \in Requests,
           \/ \E op \in Ops \ {"list"}, p \in Providers : Receive(r, op, p)
           \/ "list" \in Ops /\ ReceiveList(r)
    PROVE  SerialInv'
  <1>1. req \in [Requests -> Request] /\ req[r].pc = "idle"
    BY DEF IInv, TypeOK, Receive, ReceiveList, At
  <1>2. /\ UNCHANGED <<stored, tokens, container, delivered>> /\ lost \subseteq lost'
        /\ Connected' = Connected
    BY DEF Receive, ReceiveList, history, Connected
  <1>3. req'[r].prev = NONE /\ req'[r].pc \in {"put", "delete", "authorize", "scan"}
    <2>1. ASSUME NEW op \in Ops, NEW p \in Providers, Receive(r, op, p)
          PROVE  req'[r].prev = NONE /\ req'[r].pc \in {"put", "delete", "authorize"}
      BY <1>1, <2>1 DEF Receive, NoRequest
    <2>2. ASSUME ReceiveList(r) PROVE req'[r].prev = NONE /\ req'[r].pc = "scan"
      BY <1>1, <2>2 DEF ReceiveList, NoRequest
    <2> QED
      BY <2>1, <2>2
  <1> QED
    BY <1>1, <1>2, <1>3, SettlesUnloaded DEF Loaded, Scoped, Holding, TakingDown

(* A step that moves control, where the request holds nothing              *)
LEMMA GotoSettles ==
    ASSUME IInv, SerialInv, NEW r \in Requests, NEW pc, Goto(r, pc),
           pc \notin Loaded, req[r].prev = NONE
    PROVE  req'[r].pc \notin Loaded /\ req'[r].prev = NONE
  <1>1. req \in [Requests -> Request]
    BY DEF IInv, TypeOK
  <1>2. req'[r] = [req[r] EXCEPT !.pc = pc]
    BY <1>1 DEF Goto
  <1> QED
    BY <1>1, <1>2 DEF Request

LEMMA SerialConnect ==
    ASSUME IInv, SerialInv, NEW r \in Requests, Connect(r)
    PROVE  SerialInv'
  <1>1. req[r].pc \in {"put", "undo", "authorize", "popup"}
    BY DEF Connect, Put, Undo, Authorize, MarkPending, At
  <1>2. req[r].prev = NONE /\ RequestOK(req[r])
    BY <1>1, TheRequest DEF HoldsOK
  <1>3. UNCHANGED <<stored, tokens, container, delivered>> /\ lost \subseteq lost'
    BY DEF Connect, Put, Undo, Authorize, MarkPending, history
  <1>4. Connected' \subseteq Connected
    <2>1. CASE MarkPending(r)
      BY <2>1 DEF MarkPending, Connected, IInv, TypeOK
    <2>2. CASE UNCHANGED conn
      BY <2>2 DEF Connected
    <2> QED
      BY <2>1, <2>2 DEF Connect, Put, Undo, Authorize
  <1>5. Answer(r) \/ Goto(r, "allow") \/ Goto(r, "popup")
    BY DEF Connect, Put, Undo, Authorize, MarkPending
  <1>6. req'[r].pc \notin Loaded /\ req'[r].prev = NONE
    BY <1>2, <1>5, QuitsSettle, GotoSettles DEF Loaded, Scoped, Holding, TakingDown
  <1> QED
    BY <1>1, <1>3, <1>4, <1>6, SettlesUnloaded DEF Holding

LEMMA SerialList ==
    ASSUME IInv, SerialInv, NEW r \in Requests, List(r)
    PROVE  SerialInv'
  <1>1. req[r].pc \in {"scan", "peek", "pick", "find", "expire"}
    BY DEF List, Scan, Peek, Pick, Find, Expire, At
  <1>2. req[r].prev = NONE /\ req \in [Requests -> Request] /\ RequestOK(req[r])
    BY <1>1, TheRequest DEF HoldsOK
  <1>3. UNCHANGED <<stored, tokens, container, delivered>> /\ lost \subseteq lost'
    BY DEF List, Scan, Peek, Pick, Find, Expire, history
  <1>4. Connected' \subseteq Connected
    <2>1. CASE Expire(r)
      BY <2>1 DEF Expire, Connected, IInv, TypeOK
    <2>2. CASE UNCHANGED conn
      BY <2>2 DEF Connected
    <2> QED
      BY <2>1, <2>2 DEF List, Scan, Peek, Pick, Find
  <1>5. req'[r].pc \notin Loaded /\ req'[r].prev = NONE
    <2>1. CASE Answer(r)
      BY <2>1, QuitsSettle
    <2>2. CASE Goto(r, "allow") \/ Goto(r, "expire") \/ Goto(r, "pick")
      BY <1>2, <2>2, GotoSettles DEF Loaded, Scoped, Holding, TakingDown
    <2>3. CASE (Scan(r) \/ Peek(r) \/ Pick(r)) /\ ~Answer(r)
      <3>1. req'[r].pc \in {"peek", "pick", "find", "allow"} /\ req'[r].prev = req[r].prev
        <4>1. CASE Scan(r)
          BY <1>2, <2>3, <4>1 DEF Scan, Request
        <4>2. CASE Peek(r)
          <5>1. \E some : req' = [req EXCEPT ![r] = [@ EXCEPT !.found = some, !.pc = "pick"]]
            BY <4>2 DEF Peek
          <5> QED
            BY <1>2, <5>1 DEF Request
        <4>3. CASE Pick(r)
          <5>1. CASE \E p, some : req' = [req EXCEPT ![r] =
                        [@ EXCEPT !.pending = some, !.p = p, !.pc = "find"]]
            BY <1>2, <5>1 DEF Request
          <5>2. CASE \E p, some : req' = [req EXCEPT ![r] =
                        [@ EXCEPT !.found = some, !.p = p, !.pc = "allow"]]
            BY <1>2, <5>2 DEF Request
          <5> QED
            BY <2>3, <4>3, <5>1, <5>2 DEF Pick
        <4> QED
          BY <2>3, <4>1, <4>2, <4>3
      <3> QED
        BY <1>2, <3>1 DEF Loaded, Scoped, Holding, TakingDown
    <2> QED
      BY <2>1, <2>2, <2>3 DEF List, Find, Expire
  <1> QED
    BY <1>1, <1>3, <1>4, <1>5, SettlesUnloaded DEF Holding

LEMMA SerialFinish ==
    ASSUME IInv, SerialInv, NEW r \in Requests, Finish(r)
    PROVE  SerialInv'
  <1>1. /\ req \in [Requests -> Request] /\ RequestOK(req[r]) /\ HoldsOK(req[r]) /\ BringsOK(req[r])
        /\ Works
        /\ \A t \in Toks : st[t] = "live" => t = stored \/ t \in lost \/ t \in {req[r].prev, req[r].new}
    BY TheRequest
  <1>2. /\ req[r].pc \in {"allow", "pend", "connected", "error"}
        /\ req[r].prev = NONE /\ req[r].new = NONE /\ req[r].p \in Providers
    <2>1. req[r].pc \in {"allow", "pend", "connected", "error"}
      BY DEF Finish, Allow, Pend, MarkConnected, MarkError, At
    <2> QED
      BY <1>1, <2>1 DEF HoldsOK, RequestOK, Holding, Finishing
  <1>3. UNCHANGED <<stored, tokens, container, delivered>> /\ lost = lost'
    BY DEF Finish, Allow, Pend, MarkConnected, MarkError, history
  <1>4. CASE Answer(r) \/ (Fail(r) /\ req[r].pc \in Scoped \union {"allow", "connected"})
    <2>1. req'[r].pc \notin Loaded /\ req'[r].prev = NONE
      BY <1>4, QuitsSettle
    <2>2. Works'
      <3>1. CASE Connected' \subseteq Connected
        BY <1>1, <1>3, <3>1, WorksStill
      <3>2. CASE req[r].pc = "connected" /\ Connected' \subseteq Connected \union {req[r].p}
        BY <1>1, <1>3, <3>2 DEF Works, BringsOK, tokens, container
      <3> QED
        BY <1>4, <3>1, <3>2 DEF Finish, Allow, Pend, MarkConnected, MarkError, Connected, IInv, TypeOK, At, Goto
    <2> QED
      BY <1>2, <1>3, <2>1, <2>2, Settles DEF tokens
  <1>5. CASE Allow(r) /\ ~Fail(r)
    <2>1. /\ req'[r].pc = "pend" /\ req'[r].prev = NONE /\ req'[r].new = NONE
          /\ req'[r].scope = Connected \union {req[r].p} /\ req'[r].op = req[r].op
      <3>1. req' = [req EXCEPT ![r] = [@ EXCEPT !.scope = Connected \union {req[r].p}, !.pc = "pend"]]
        BY <1>5 DEF Allow
      <3> QED
        BY <1>1, <1>2, <3>1 DEF Request
    <2>2. Connected' = Connected
      BY <1>5 DEF Allow, Connected
    <2>3. HoldsOK(req[r])' /\ BringsOK(req[r])'
      BY <2>1, <2>2 DEF HoldsOK, BringsOK, Scoped, Holding, TakingDown
    <2> QED
      BY <1>1, <1>2, <1>3, <2>1, <2>2, <2>3, WorksStill, TheRequestNext DEF tokens
  <1>6. CASE Pend(r) /\ Goto(r, "prev")
    <2>1. /\ req'[r].pc = "prev" /\ req'[r].prev = NONE /\ req'[r].new = NONE
          /\ req'[r].scope = req[r].scope
      BY <1>1, <1>2, <1>6 DEF Goto, Request
    <2>2. Connected' \subseteq Connected
      BY <1>6 DEF Pend, Connected, IInv, TypeOK
    <2>3. Connected \subseteq req[r].scope
      BY <1>1, <1>6 DEF BringsOK, Pend, At, Scoped
    <2>4. HoldsOK(req[r])' /\ BringsOK(req[r])'
      BY <2>1, <2>2, <2>3 DEF HoldsOK, BringsOK, Scoped, Holding, TakingDown
    <2> QED
      BY <1>1, <1>2, <1>3, <2>1, <2>2, <2>4, WorksStill, TheRequestNext DEF tokens
  <1>7. CASE Goto(r, "pick") \/ Goto(r, "undo")
    <2>1. req'[r].pc \notin Loaded /\ req'[r].prev = NONE
      BY <1>2, <1>7, GotoSettles DEF Loaded, Scoped, Holding, TakingDown
    <2>2. Works'
      <3>1. CASE MarkConnected(r)
        <4>1. Connected' \subseteq Connected \union {req[r].p} /\ req[r].pc = "connected"
          BY <3>1 DEF MarkConnected, Connected, IInv, TypeOK, At
        <4> QED
          BY <1>1, <1>3, <4>1 DEF Works, BringsOK, tokens, container
      <3>2. CASE MarkError(r)
        <4>1. Connected' \subseteq Connected
          BY <3>2 DEF MarkError, Connected, IInv, TypeOK
        <4> QED
          BY <1>1, <1>3, <4>1, WorksStill
      <3>3. CASE Pend(r) \/ Allow(r)
        <4>1. Connected' \subseteq Connected
          BY <3>3 DEF Pend, Allow, Connected, IInv, TypeOK
        <4> QED
          BY <1>1, <1>3, <4>1, WorksStill
      <3> QED
        BY <3>1, <3>2, <3>3 DEF Finish
    <2> QED
      BY <1>2, <1>3, <2>1, <2>2, Settles DEF tokens
  <1> QED
    BY <1>4, <1>5, <1>6, <1>7 DEF Finish, Allow, Pend, MarkConnected, MarkError, At, Scoped

LEMMA SerialDisconnect ==
    ASSUME IInv, SerialInv, NEW r \in Requests, Disconnect(r)
    PROVE  SerialInv'
  <1>1. /\ req \in [Requests -> Request] /\ RequestOK(req[r]) /\ HoldsOK(req[r]) /\ BringsOK(req[r])
        /\ Works /\ NONE \notin Toks /\ st \in [Toks -> {"unborn", "live", "revoked"}]
        /\ \A t \in Toks : st[t] = "live" => t = stored \/ t \in lost \/ t \in {req[r].prev, req[r].new}
    BY TheRequest, SentinelsAssumption DEF IInv, TypeOK
  <1>2. req[r].pc \in {"delete", "mark", "left"} \union TakingDown /\ req[r].new = NONE
    <2>1. req[r].pc \in {"delete", "mark", "left"} \union TakingDown
      BY DEF Disconnect, Delete, MarkDisconnected, Left, TearDownPrevious, TearDownRevoke,
             TearDownForget, TearDownFile, At, TakingDown
    <2> QED
      BY <1>1, <2>1 DEF RequestOK, Holding, TakingDown
  <1>3. UNCHANGED delivered /\ lost \subseteq lost'
    BY DEF Disconnect, Delete, MarkDisconnected, Left, TearDownPrevious, TearDownRevoke,
           TearDownForget, TearDownFile, history
  <1>4. Connected' \subseteq Connected
    <2>1. CASE MarkDisconnected(r)
      BY <2>1 DEF MarkDisconnected, Connected, IInv, TypeOK
    <2>2. CASE UNCHANGED conn
      BY <2>2 DEF Connected
    <2> QED
      BY <2>1, <2>2 DEF Disconnect, Delete, Left, TearDownPrevious, TearDownRevoke,
                        TearDownForget, TearDownFile
  <1>5. CASE Answer(r) /\ UNCHANGED <<stored, tokens>>
    <2>1. req'[r].pc \notin Loaded /\ req'[r].prev = NONE
      BY <1>5, QuitsSettle
    <2>2. req[r].pc # "trevoke"
      <3>1. CASE TearDownRevoke(r)
        <4>1. req'[r].pc = "tforget"
          BY <1>1, <3>1 DEF TearDownRevoke, Leave, Request
        <4>2. req'[r].pc = "idle"
          BY <1>1, <1>5 DEF Answer, NoRequest
        <4> QED
          BY <4>1, <4>2
      <3> QED
        BY <3>1 DEF Disconnect, Delete, MarkDisconnected, Left, TearDownPrevious, TearDownForget,
                    TearDownFile, At
    <2>3. req[r].prev \in {NONE, stored}
      BY <1>1, <1>2, <2>2 DEF HoldsOK, TakingDown
    <2>4. Works'
      <3>1. CASE req[r].pc \in TakingDown
        BY <1>1, <1>4, <3>1 DEF Works, BringsOK
      <3>2. CASE req[r].pc \notin TakingDown
        BY <1>1, <1>3, <1>4, <1>5, <3>2, WorksStill
           DEF Disconnect, Delete, MarkDisconnected, Left, TearDownPrevious, TearDownRevoke,
               TearDownForget, TearDownFile, At, TakingDown
      <3> QED
        BY <3>1, <3>2
    <2> QED
      BY <1>2, <1>3, <1>5, <2>1, <2>3, <2>4, Settles DEF tokens
  <1>6. CASE (Delete(r) \/ MarkDisconnected(r)) /\ ~Answer(r)
    <2>1. Goto(r, "mark") \/ Goto(r, "left")
      BY <1>6 DEF Delete, MarkDisconnected
    <2>2. req[r].pc \in {"delete", "mark"}
      BY <1>6 DEF Delete, MarkDisconnected, At
    <2>3. req'[r].pc \notin Loaded /\ req'[r].prev = NONE
      BY <1>1, <2>1, <2>2, GotoSettles DEF HoldsOK, Loaded, Scoped, Holding, TakingDown
    <2>4. UNCHANGED <<stored, tokens, container>>
      BY <1>6 DEF Delete, MarkDisconnected
    <2> QED
      BY <1>3, <1>4, <2>2, <2>3, <2>4, SettlesUnloaded DEF Holding
  <1>7. CASE Left(r) /\ ~Answer(r)
    <2>1. UNCHANGED <<stored, tokens, container>> /\ lost' = lost /\ Connected' = Connected
      BY <1>7 DEF Left, history, Connected
    <2>2. req[r].prev = NONE
      BY <1>1, <1>7 DEF Left, At, HoldsOK
    <2>3. \/ /\ req'[r].pc = "prev" /\ req'[r].scope = Connected
             /\ req'[r].prev = NONE /\ req'[r].new = NONE
          \/ req'[r].pc = "tprev" /\ Connected = {} /\ req'[r].prev = NONE /\ req'[r].new = NONE
      <3>1. CASE req' = [req EXCEPT ![r] = [@ EXCEPT !.scope = Connected, !.pc = "prev"]]
        BY <1>1, <1>2, <2>2, <3>1 DEF Request
      <3>2. CASE Goto(r, "tprev") /\ Connected = {}
        BY <1>1, <1>2, <2>2, <3>2 DEF Goto, Request
      <3> QED
        BY <1>7, <3>1, <3>2 DEF Left
    <2>4. HoldsOK(req[r])' /\ BringsOK(req[r])'
      BY <2>1, <2>3 DEF HoldsOK, BringsOK, Scoped, Holding, TakingDown
    <2> QED
      BY <1>1, <1>2, <1>3, <2>1, <2>2, <2>3, <2>4, WorksStill, TheRequestNext DEF tokens
  <1>8. CASE TearDownPrevious(r) /\ ~Answer(r)
    <2>1. UNCHANGED <<stored, tokens, container>> /\ lost' = lost /\ Connected' = Connected
      BY <1>8 DEF TearDownPrevious, history, Connected
    <2>2. Connected = {}
      BY <1>1, <1>8 DEF TearDownPrevious, At, BringsOK, TakingDown
    <2>3. /\ req'[r].pc = IF stored = NONE THEN "tfile" ELSE "trevoke"
          /\ req'[r].prev = stored /\ req'[r].new = NONE /\ req'[r].op = req[r].op
      <3>1. req' = [req EXCEPT ![r] =
               [@ EXCEPT !.prev = stored, !.pc = IF stored = NONE THEN "tfile" ELSE "trevoke"]]
        BY <1>8 DEF TearDownPrevious
      <3> QED
        BY <1>1, <1>2, <3>1 DEF Request
    <2>4. req[r].op = "disconnect"
      BY <1>1, <1>8 DEF TearDownPrevious, At, RequestOK
    <2>5. HoldsOK(req[r])' /\ BringsOK(req[r])'
      BY <2>1, <2>2, <2>3, <2>4 DEF HoldsOK, BringsOK, Scoped, Holding, TakingDown
    <2>6. req[r].prev = NONE
      BY <1>1, <1>8 DEF TearDownPrevious, At, HoldsOK
    <2> QED
      BY <1>1, <1>2, <1>3, <2>1, <2>3, <2>5, <2>6, WorksStill, TheRequestNext DEF tokens
  <1>9. CASE TearDownRevoke(r)
    <2>1. req[r].pc = "trevoke" /\ req[r].prev = stored /\ stored # NONE /\ stored \in Toks
      BY <1>1, <1>9 DEF TearDownRevoke, At, HoldsOK, RequestOK, IInv, TypeOK
    <2>2. Connected = {} /\ Connected' = {}
      BY <1>1, <1>4, <2>1 DEF BringsOK, TakingDown
    <2>3. req'[r].pc = "tforget" /\ req'[r].prev = NONE /\ req'[r].new = NONE
      BY <1>1, <1>9 DEF TearDownRevoke, Leave, Request
    <2>4. /\ stored' = stored
          /\ \/ st' = [st EXCEPT ![stored] = "revoked"]
             \/ st' = st /\ stored \in lost'
      BY <1>9, <2>1, Zenon DEF TearDownRevoke
    <2>5. HoldsOK(req[r])' /\ BringsOK(req[r])'
      BY <1>1, <2>1, <2>2, <2>3, <2>4 DEF HoldsOK, BringsOK, Scoped, Holding, TakingDown
    <2>6. \A t \in Toks : st'[t] = "live" => st[t] = "live"
      BY <1>1, <2>1, <2>4
    <2>7. Works'
      BY <2>2 DEF Works
    <2> QED
      BY <1>1, <1>2, <1>3, <2>1, <2>3, <2>4, <2>5, <2>6, <2>7, TheRequestNext
  <1>10. CASE TearDownForget(r)
    <2>1. req[r].pc = "tforget" /\ req[r].prev = NONE
      BY <1>1, <1>10 DEF TearDownForget, At, HoldsOK
    <2>2. Connected = {} /\ Connected' = {}
      BY <1>1, <1>4, <2>1 DEF BringsOK, TakingDown
    <2>3. req'[r].pc = "tfile" /\ req'[r].prev = NONE /\ req'[r].new = NONE
      BY <1>1, <1>2, <1>10, <2>1 DEF TearDownForget, Goto, Request
    <2>4. stored' \in {stored, NONE} /\ st' = st /\ lost' = lost
      BY <1>10 DEF TearDownForget, tokens, history
    <2>5. HoldsOK(req[r])' /\ BringsOK(req[r])'
      BY <2>2, <2>3 DEF HoldsOK, BringsOK, Scoped, Holding, TakingDown
    <2>6. \A t \in Toks : st'[t] = "live" => t = stored' \/ t \in lost'
      BY <1>1, <1>2, <2>1, <2>4 DEF HoldsOK
    <2>7. Works'
      BY <2>2 DEF Works
    <2> QED
      BY <2>5, <2>6, <2>7, TheRequestNext
  <1> QED
    BY <1>5, <1>6, <1>7, <1>8, <1>9, <1>10
       DEF Disconnect, Delete, MarkDisconnected, Left, TearDownPrevious, TearDownFile, tokens

LEMMA SerialRotate ==
    ASSUME IInv, SerialInv, NEW r \in Requests, Rotate(r)
    PROVE  SerialInv'
  <1>1. /\ req \in [Requests -> Request] /\ RequestOK(req[r]) /\ TokensOK(req[r])
        /\ HoldsOK(req[r]) /\ BringsOK(req[r])
        /\ Works /\ NONE \notin Toks
        /\ st \in [Toks -> {"unborn", "live", "revoked"}] /\ scope \in [Toks -> SUBSET Links]
        /\ stored \in Toks \union {NONE} /\ delivered \subseteq Toks
        /\ \A t \in delivered : st[t] # "unborn"
        /\ \A t \in Toks : st[t] = "live" => t = stored \/ t \in lost \/ t \in {req[r].prev, req[r].new}
    BY TheRequest, SentinelsAssumption DEF IInv, TypeOK, DeliveredIsBorn
  <1>2. Connected' = Connected /\ lost \subseteq lost' /\ req[r].pc \in Scoped \ {"pend"}
    BY DEF Rotate, Previous, Issue, Store, Copy, Chown, Revoke, DeliveryFails, Connected, At, Scoped,
           Holding, history
  <1>3. /\ req[r].pc \in Holding => req[r].new \in Toks /\ scope[req[r].new] = req[r].scope
        /\ req[r].prev \in Toks \union {NONE}
    BY <1>1 DEF RequestOK, Request, TokensOK
  <1>4. ASSUME Answer(r) \/ Fail(r)
        PROVE  req'[r].pc \notin Loaded /\ req'[r].prev = NONE
    BY <1>2, <1>4, QuitsSettle
  <1>5. CASE Previous(r)
    <2>1. UNCHANGED <<stored, tokens, container, delivered>> /\ lost' = lost /\ req[r].pc = "prev"
      BY <1>5 DEF Previous, history, At
    <2>2. CASE Fail(r)
      BY <1>2, <1>4, <2>1, <2>2, SettlesUnloaded DEF Holding
    <2>3. CASE req' = [req EXCEPT ![r] = [@ EXCEPT !.prev = stored, !.pc = "issue"]]
      <3>1. /\ req[r].op # "create" /\ req[r].prev = NONE /\ req[r].new = NONE
            /\ Connected \subseteq req[r].scope
        BY <1>1, <2>1 DEF RequestOK, HoldsOK, BringsOK, Holding, Scoped, Finishing
      <3>2. /\ req'[r].pc = "issue" /\ req'[r].prev = stored /\ req'[r].new = NONE
            /\ req'[r].op = req[r].op /\ req'[r].scope = req[r].scope
        BY <1>1, <2>3, <3>1 DEF Request
      <3>3. HoldsOK(req[r])' /\ BringsOK(req[r])'
        BY <1>2, <2>1, <3>1, <3>2 DEF HoldsOK, BringsOK, Scoped, Holding, TakingDown
      <3> QED
        BY <1>1, <1>2, <2>1, <3>1, <3>2, <3>3, WorksStill, TheRequestNext DEF tokens
    <2> QED
      BY <1>5, <2>2, <2>3 DEF Previous
  <1>6. CASE Issue(r)
    <2>1. /\ UNCHANGED <<stored, container, delivered>> /\ req[r].pc = "issue"
          /\ req[r].prev = stored /\ req[r].new = NONE /\ Connected \subseteq req[r].scope
      BY <1>1, <1>6 DEF Issue, At, HoldsOK, BringsOK, RequestOK, Holding, Scoped
    <2>2. CASE Fail(r) /\ UNCHANGED <<tokens, lost>>
      BY <1>2, <1>4, <2>1, <2>2, SettlesUnloaded DEF Holding
    <2>3. ASSUME NEW t \in Unborn,
                 st' = [st EXCEPT ![t] = "live"],
                 scope' = [scope EXCEPT ![t] = req[r].scope],
                 \/ /\ req' = [req EXCEPT ![r] = [@ EXCEPT !.new = t, !.pc = "store"]]
                    /\ UNCHANGED lost
                 \/ Fail(r) /\ lost' = lost \union {t}
          PROVE  SerialInv'
      <3>1. t \in Toks /\ st[t] = "unborn" /\ t \notin delivered
        BY <1>1 DEF Unborn
      <3>2. /\ st'[t] = "live" /\ scope'[t] = req[r].scope
            /\ \A u \in Toks : u # t => st'[u] = st[u] /\ scope'[u] = scope[u]
        BY <1>1, <2>3, <3>1
      <3>3. Works'
        BY <1>1, <1>2, <2>1, <3>1, <3>2 DEF Works, container
      <3>4. CASE Fail(r) /\ lost' = lost \union {t}
        <4>1. HoldsOK(req[r])' /\ BringsOK(req[r])'
          BY <1>4, <3>4 DEF HoldsOK, BringsOK, Loaded, Scoped, Holding, TakingDown
        <4> QED
          BY <1>1, <2>1, <3>2, <3>3, <3>4, <4>1, TheRequestNext
      <3>5. CASE /\ req' = [req EXCEPT ![r] = [@ EXCEPT !.new = t, !.pc = "store"]]
                 /\ UNCHANGED lost
        <4>1. /\ req'[r].pc = "store" /\ req'[r].prev = stored /\ req'[r].new = t
              /\ req'[r].op = req[r].op /\ req'[r].scope = req[r].scope
          BY <1>1, <2>1, <3>5 DEF Request
        <4>2. HoldsOK(req[r])'
          BY <1>1, <2>1, <4>1 DEF HoldsOK
        <4>3. BringsOK(req[r])'
          BY <1>2, <2>1, <3>1, <3>2, <4>1 DEF BringsOK, Scoped, Holding, TakingDown
        <4> QED
          BY <1>1, <2>1, <3>2, <3>3, <3>5, <4>1, <4>2, <4>3, TheRequestNext
      <3> QED
        BY <2>3, <3>4, <3>5
    <2> QED
      BY <1>6, <2>2, <2>3 DEF Issue
  <1>7. CASE Store(r)
    <2>1. /\ UNCHANGED <<tokens, container, delivered>> /\ req[r].pc = "store"
          /\ req[r].prev = stored /\ req[r].new \in Toks /\ st[req[r].new] = "live"
          /\ req[r].new \notin delivered
          /\ Connected \subseteq req[r].scope /\ scope[req[r].new] = req[r].scope
      BY <1>1, <1>3, <1>7 DEF Store, At, HoldsOK, BringsOK, Holding, Scoped
    <2>2. CASE Fail(r) /\ lost' = lost \union {req[r].new} /\ UNCHANGED stored
      <3>1. Works'
        BY <1>1, <1>2, <2>1, <2>2, WorksStill
      <3> QED
        BY <1>2, <1>4, <2>1, <2>2, <3>1, Settles DEF tokens
    <2>3. CASE stored' = req[r].new /\ Goto(r, "copy") /\ UNCHANGED lost
      <3>1. /\ req'[r].pc = "copy" /\ req'[r].prev = stored /\ req'[r].new = req[r].new
            /\ req'[r].op = req[r].op /\ req'[r].scope = req[r].scope
        BY <1>1, <2>1, <2>3 DEF Goto, Request
      <3>2. HoldsOK(req[r])'
        BY <1>1, <2>1, <2>3, <3>1 DEF HoldsOK
      <3>3. BringsOK(req[r])'
        BY <1>2, <2>1, <2>3, <3>1 DEF BringsOK, Scoped, Holding, TakingDown, tokens
      <3>4. Works'
        BY <1>1, <1>2, <2>1, <2>3 DEF Works, tokens
      <3> QED
        BY <1>1, <2>1, <2>3, <3>1, <3>2, <3>3, <3>4, TheRequestNext DEF tokens
    <2> QED
      BY <1>7, <2>2, <2>3 DEF Store
  <1>8. ASSUME DeliveryFails(r), UNCHANGED <<stored, tokens, delivered>>,
               req[r].pc \in {"copy", "chown"}
        PROVE  SerialInv'
    <2>1. stored = req[r].new /\ stored \notin delivered
      BY <1>1, <1>8 DEF HoldsOK, BringsOK
    <2>2. Works'
      BY <1>1, <1>2, <1>8, <2>1 DEF Works, tokens
    <2>3. Fail(r) /\ \A t \in {req[r].prev, req[r].new} : t = NONE \/ t = stored \/ t \in lost'
      BY <1>8 DEF DeliveryFails, Forsaken
    <2> QED
      BY <1>2, <1>4, <1>8, <2>2, <2>3, Settles DEF tokens
  <1>9. CASE Copy(r)
    <2>1. /\ UNCHANGED <<stored, tokens, delivered>> /\ req[r].pc = "copy"
          /\ stored = req[r].new /\ stored \notin delivered /\ st[stored] = "live"
          /\ Connected \subseteq req[r].scope
      BY <1>1, <1>9 DEF Copy, At, HoldsOK, BringsOK, Holding, Scoped
    <2>2. CASE Writes(req[r].new) /\ Goto(r, "chown") /\ UNCHANGED lost
      <3>1. /\ req'[r].pc = "chown" /\ req'[r].prev = req[r].prev /\ req'[r].new = req[r].new
            /\ req'[r].op = req[r].op /\ req'[r].scope = req[r].scope
        BY <1>1, <2>2 DEF Goto, Request
      <3>2. HoldsOK(req[r])'
        BY <1>1, <2>1, <3>1 DEF HoldsOK
      <3>3. BringsOK(req[r])'
        BY <1>2, <2>1, <2>2, <3>1 DEF BringsOK, Scoped, Holding, TakingDown, tokens, Writes, Leaves
      <3>4. Works'
        BY <1>1, <1>2, <2>1 DEF Works, tokens
      <3> QED
        BY <1>1, <2>1, <2>2, <3>1, <3>2, <3>3, <3>4, TheRequestNext DEF tokens
    <2> QED
      BY <1>8, <1>9, <2>1, <2>2 DEF Copy
  <1>10. CASE Chown(r)
    <2>1. /\ UNCHANGED <<stored, tokens, file, overtaken>> /\ req[r].pc = "chown"
          /\ stored = req[r].new /\ stored # NONE /\ st[stored] = "live"
          /\ file = stored \/ overtaken
          /\ Connected \subseteq req[r].scope /\ scope[stored] = req[r].scope
      BY <1>1, <1>3, <1>10 DEF Chown, At, HoldsOK, BringsOK, Holding, Scoped
    <2>2. CASE DeliveryFails(r) /\ UNCHANGED delivered
      BY <1>8, <2>1, <2>2
    <2>3. CASE usable' = TRUE /\ req[r].op = "create" /\ Answer(r)
      <3>1. Works'
        BY <1>2, <2>1, <2>3 DEF Works, tokens
      <3>2. req[r].prev = NONE
        BY <1>1, <2>3 DEF HoldsOK
      <3> QED
        BY <1>2, <1>4, <2>1, <2>3, <3>1, <3>2, Settles DEF tokens
    <2>4. CASE usable' = TRUE /\ Goto(r, "revoke") /\ UNCHANGED lost
      <3>1. /\ req'[r].pc = "revoke" /\ req'[r].prev = req[r].prev /\ req'[r].new = req[r].new
            /\ req'[r].op = req[r].op /\ req'[r].scope = req[r].scope
        BY <1>1, <2>4 DEF Goto, Request
      <3>2. HoldsOK(req[r])'
        BY <1>1, <2>1, <3>1 DEF HoldsOK
      <3>3. BringsOK(req[r])'
        BY <1>2, <2>1, <2>4, <3>1 DEF BringsOK, Scoped, Holding, TakingDown, tokens
      <3>4. Works'
        BY <1>2, <2>1, <2>4 DEF Works, tokens
      <3> QED
        BY <1>1, <2>1, <2>4, <3>1, <3>2, <3>3, <3>4, TheRequestNext DEF tokens
    <2> QED
      BY <1>10, <2>2, <2>3, <2>4 DEF Chown
  <1>11. CASE Revoke(r)
    <2>1. /\ UNCHANGED <<stored, scope, container, delivered>> /\ req[r].pc = "revoke"
          /\ stored = req[r].new /\ stored \in Toks /\ stored # NONE /\ st[stored] = "live"
          /\ (file = stored /\ usable) \/ overtaken
          /\ scope[stored] = req[r].scope
          /\ Connected \subseteq req[r].scope /\ stored # req[r].prev
          /\ req[r].op \in Finishing \union {"disconnect"}
      BY <1>1, <1>3, <1>11 DEF Revoke, At, HoldsOK, BringsOK, TokensOK, RequestOK, Holding, Scoped
    <2>2. /\ \A t \in Toks : t # req[r].prev => st'[t] = st[t]
          /\ req[r].prev # NONE => st'[req[r].prev] = "revoked" \/ req[r].prev \in lost'
      BY <1>1, <1>3, <1>11 DEF Revoke
    <2>3. Works'
      BY <1>2, <2>1, <2>2 DEF Works, container
    <2>4. \A t \in Toks : st'[t] = "live" => t = stored' \/ t \in lost'
      BY <1>1, <1>2, <2>1, <2>2
    <2>5. CASE Answer(r)
      <3>1. HoldsOK(req[r])' /\ BringsOK(req[r])'
        BY <1>4, <2>5 DEF HoldsOK, BringsOK, Loaded, Scoped, Holding, TakingDown
      <3> QED
        BY <2>3, <2>4, <3>1, TheRequestNext
    <2>6. CASE Leave(r, "connected") /\ req[r].op # "disconnect"
      <3>1. /\ req'[r].pc = "connected" /\ req'[r].prev = NONE /\ req'[r].p = req[r].p
            /\ req'[r].op = req[r].op
        BY <1>1, <2>6 DEF Leave, Request
      <3>2. req[r].p \in scope[stored]
        BY <1>1, <2>1, <2>6 DEF RequestOK, Holding, Scoped
      <3>3. HoldsOK(req[r])'
        BY <2>1, <3>1 DEF HoldsOK
      <3>4. BringsOK(req[r])'
        BY <1>2, <2>1, <2>2, <3>1, <3>2 DEF BringsOK, Scoped, Holding, TakingDown, container
      <3> QED
        BY <2>3, <2>4, <3>3, <3>4, TheRequestNext
    <2> QED
      BY <1>11, <2>5, <2>6 DEF Revoke, AfterRotation
  <1> QED
    BY <1>5, <1>6, <1>7, <1>9, <1>10, <1>11 DEF Rotate

LEMMA InitSerialInv == OneAtATime /\ Init => SerialInv
  <1> SUFFICES ASSUME OneAtATime, Init PROVE SerialInv
    OBVIOUS
  <1>1. \A r \in Requests : req[r] = Creation \/ req[r] = NoRequest
    BY DEF Init
  <1>2. ASSUME NEW r \in Requests
        PROVE  req[r].pc \in {"idle", "issue"} /\ req[r].prev = NONE
    <2>1. NoRequest.pc = "idle" /\ NoRequest.prev = NONE
      BY DEF NoRequest
    <2>2. Creation.pc = "issue" /\ Creation.prev = NONE
      BY DEF Creation, NoRequest
    <2> QED
      BY <1>1, <2>1, <2>2
  <1>3. Connected = {} /\ stored = NONE
    BY DEF Init, Connected
  <1>4. \A r \in Requests : HoldsOK(req[r]) /\ BringsOK(req[r])
    BY <1>2, <1>3 DEF HoldsOK, BringsOK, Scoped, Holding, TakingDown
  <1> QED
    BY <1>3, <1>4 DEF Init, SerialInv, Works, Accounted

LEMMA StepSerialInv == IInv /\ SerialInv /\ [Next]_vars => SerialInv'
  <1> SUFFICES ASSUME IInv, SerialInv, [Next]_vars PROVE SerialInv'
    OBVIOUS
  <1>1. CASE UNCHANGED vars
    BY <1>1 DEF vars, tokens, container, history, SerialInv, OneAtATime, Accounted, Works, HoldsOK,
                BringsOK, Connected
  <1>2. ASSUME NEW r \in Requests, Refuse(r) PROVE SerialInv'
    BY <1>1, <1>2 DEF Refuse
  <1>3. ASSUME NEW r \in Requests, Drop(r) PROVE SerialInv'
    <2>1. /\ UNCHANGED <<stored, tokens, file, usable, overtaken, delivered>>
          /\ Connected' = Connected /\ lost' = lost \union Forsaken(r) /\ Answer(r)
      BY <1>3 DEF Drop, Connected, GivesUp, container
    <2>2. Works'
      BY <2>1, TheRequest DEF Works, tokens
    <2> QED
      BY <2>1, <2>2, QuitsSettle, Settles DEF Forsaken, tokens
  <1>4. ASSUME NEW p \in Providers, ConnectsOutOfBand(p) PROVE SerialInv'
    BY <1>4 DEF ConnectsOutOfBand, tokens, container, history, SerialInv, OneAtATime, Accounted,
                Works, HoldsOK, BringsOK, Connected
  <1>5. ASSUME NEW t, OrphanEnds(t) PROVE SerialInv'
    <2>1. overtaken' = TRUE /\ UNCHANGED <<conn, stored, st, scope, req, delivered, lost>>
      BY <1>5 DEF OrphanEnds, Leaves, tokens, history
    <2>2. Works' /\ \A r \in Requests : HoldsOK(req[r])' /\ BringsOK(req[r])'
      BY <2>1 DEF SerialInv, Works, HoldsOK, BringsOK, Connected
    <2> QED
      BY <2>1, <2>2 DEF SerialInv, OneAtATime, Accounted
  <1> QED
    BY <1>1, <1>2, <1>3, <1>4, <1>5, SerialArrivals, SerialRotate, SerialFinish, SerialConnect, SerialList,
       SerialDisconnect
       DEF Next

LEMMA SerialInvWorks == IInv /\ SerialInv => NoTokenLeak /\ WorkingToken
  <1> SUFFICES ASSUME IInv, SerialInv PROVE NoTokenLeak /\ WorkingToken
    OBVIOUS
  <1>1. WorkingToken
    BY DEF SerialInv, Works, WorkingToken
  <1>2. ASSUME Quiet PROVE \A r \in Requests : req[r].prev = NONE /\ req[r].new = NONE
    BY <1>2 DEF Quiet, At, SerialInv, HoldsOK, IInv, RequestsOK, RequestOK, Holding
  <1> QED
    BY <1>1, <1>2, SentinelsAssumption DEF NoTokenLeak, SerialInv, Accounted

(* With one request at a time, whatever fails in it or cuts it short, every*)
(* live token is the stored one or was forsaken by a failure ("Bug 5",     *)
(* route.rs:882-892).                                                      *)
THEOREM NoneLeaksSerially == OneAtATime /\ Spec => []NoTokenLeak
  <1>1. OneAtATime /\ Spec => []SerialInv
    BY InitSerialInv, StepSerialInv, Invariance, PTL DEF Spec
  <1> QED
    BY <1>1, SerialInvWorks, Invariance, PTL

(* With one request at a time, what is shown as connected goes by a token  *)
(* that is stored, live and, once delivered, in the container unless a     *)
(* docker command given up on acted after the delivery (route.rs:868-874). *)
THEOREM AlwaysWorkingSerially == OneAtATime /\ Spec => []WorkingToken
  <1>1. OneAtATime /\ Spec => []SerialInv
    BY InitSerialInv, StepSerialInv, Invariance, PTL DEF Spec
  <1> QED
    BY <1>1, SerialInvWorks, Invariance, PTL
==============================================================================
