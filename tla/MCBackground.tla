------------------------------ MODULE MCBackground ------------------------------
(***************************************************************************)
(* What runs beside the requests, or before them, and shares nothing: the  *)
(* browser daemon of a container, the watcher of Docker, a relay, the cache*)
(* of the catalog, a call of OpenConnector, and the start of the gateway.  *)
(* TLC checks them in one run, over their disjoint union: a behaviour is   *)
(* about the one that side names from the start, and the others stand still.*)
(***************************************************************************)
EXTENDS BrowserManager, DaemonWatch, DesktopRelay, CatalogCache, OpenConnectorClient,
        GatewayStartup

(* Environments of the gateway: everything set as it should be but for one *)
(* variable, in one place or in several; origins that coincide; registries *)
(* that are not to be used.                                                *)
Fits ==
    LET Fit(rule) == CASE rule \in {"required", "list"} -> "word"
                       [] rule \in {"default", "bool"} -> "unset"
                       [] OTHER -> rule
    IN  [k \in Keys |-> Fit(Rule[k])]
Origin(scheme, host, tail) == [scheme |-> scheme, host |-> host, port |-> 80, tail |-> tail]
Provider(id, service, secret) ==
    [id |-> id, service |-> service, client_id |-> "word", client_secret |-> secret]
Registry(entries) == [parsed |-> TRUE, entries |-> entries]
Plain ==
    LET nothing == [k \in Keys |-> "unset"] IN
    [process |-> Fits, shared |-> nothing, local |-> nothing,
     origins |-> [frontend |-> Origin("http", "localhost", ""), host |-> "127.0.0.1",
                  port |-> 80, extras |-> <<>>],
     registry |-> Registry(<<Provider("x", "s1", "word"), Provider("y", "s2", "blank")>>)]

Odd == {<<k, r, "unset", "unset">> : k \in Keys, r \in Raw} \union
       (Keys \X {"unset", "binary", "word"} \X {"unset", "sqlite"} \X {"true", "word"})
Spelled == [plain |-> Origin("http", "localhost", ""), dotted |-> Origin("http", "127.0.0.1", ""),
            slashed |-> Origin("https", "localhost", "/"), bare |-> Origin("", "localhost", "")]
Coinciding == {"plain", "dotted", "slashed"} \X {"localhost", "127.0.0.1"}
                \X {"plain", "dotted", "bare"} \X {"plain", "bare"}
Unusable == [twice |-> Registry(<<Provider("x", "s1", "word"), Provider("x", "s2", "word")>>),
             noservice |-> Registry(<<Provider("x", "", "word")>>),
             noid |-> Registry(<<Provider("", "s1", "word")>>),
             broken |-> [parsed |-> FALSE, entries |-> <<>>]]
MCEnvironments == [e \in Odd \union Coinciding \union {<<r>> : r \in DOMAIN Unusable} |->
    CASE Len(e) = 1 -> [Plain EXCEPT !.registry = Unusable[e[1]]]
      [] e[1] \in Keys ->
            [Plain EXCEPT !.process[e[1]] = e[2], !.shared[e[1]] = e[3], !.local[e[1]] = e[4]]
      [] OTHER -> [Plain EXCEPT !.origins.frontend = Spelled[e[1]], !.origins.host = e[2],
                                !.origins.extras = <<Spelled[e[3]], Spelled[e[4]]>>]]

VARIABLE side

small == <<catVars, exchange, suVars>>
allVars == <<side, vars, dwVars, drVars, small>>

SumInit ==
    /\ Init /\ InitWatch /\ InitRelay /\ InitCatalog /\ InitExchange /\ InitBoot
    /\ side \in {"browsers", "watch", "relay", "catalog", "exchange", "startup"}
    /\ side # "watch" => daemon         \* one state of what stands still
    /\ side # "relay" => ~Ended
    /\ side # "exchange" => exchange.kind = "admin"

Browsers(A) == side = "browsers" /\ A /\ UNCHANGED <<side, dwVars, drVars, small>>
Watch(A) == side = "watch" /\ A /\ UNCHANGED <<side, vars, drVars, small>>
Relay(A) == side = "relay" /\ A /\ UNCHANGED <<side, vars, dwVars, small>>
Rest == UNCHANGED <<side, vars, dwVars, drVars>>

SumNext ==
    \/ Browsers(Next) \/ Watch(WatchNext) \/ Relay(RelayNext)
    \/ side = "catalog" /\ CatalogNext /\ Rest /\ UNCHANGED <<exchange, suVars>>
    \/ side = "exchange" /\ ExchangeNext /\ Rest /\ UNCHANGED <<catVars, suVars>>
    \/ side = "startup" /\ BootNext /\ Rest /\ UNCHANGED <<catVars, exchange>>

(* Of the browsers, what FairSpec has, though weaker: of several processes *)
(* that were killed, or browsers that age, some goes on.  The watcher goes *)
(* on, and a daemon is opened again; both pumps are polled, and a peer     *)
(* reads what arrives until it is gone.  One condition may serve several   *)
(* sides, as a behaviour has but one of them.                              *)
FairSum ==
    /\ SumInit /\ [][SumNext]_allVars
    /\ \A t \in Threads : WF_allVars(Browsers(Step(t)))
    /\ WF_allVars(\/ Browsers(Sweep) \/ Watch(Watcher)
                  \/ Relay(\E p \in Peers : Pump(p) \/ TakeFrame(p)))
    /\ WF_allVars(\/ Browsers(\E p \in Pids : st[p] = "killed" /\ Exit(p))
                  \/ Watch(Reopen))
    /\ WF_allVars(Browsers(\E a \in Agents : Age(a)))

TypesOK ==
    /\ TypeOK /\ WatchTypeOK /\ RelayTypeOK
    /\ CatalogTypeOK /\ ExchangeTypeOK /\ BootTypeOK
==============================================================================
