---------------------------- MODULE BackgroundProofs ----------------------------
(***************************************************************************)
(* Of what runs beside the requests, or before them: the catalog is fetched*)
(* once per TTL, for any number of queries, any TTL and whichever of the   *)
(* fetches fail or are abandoned; the watcher sweeps once per outage at    *)
(* most, for any number of workspaces and outages and whatever the creates,*)
(* the deletes and the diagnoses do; a gateway that listens is configured, *)
(* in any environments; an event is read whole, from bodies of any length; *)
(* and the union of these with the browsers and the relay is a union: what *)
(* holds of each holds of it.                                              *)
(***************************************************************************)
EXTENDS MCBackground, BrowserManagerProofs, DesktopRelayProofs, FiniteSetTheorems,
        FunctionTheorems, WellFoundedInduction

------------------------------------------------------------------------------
(* The catalog *)

(* The lock is held by the query that rechecks or fetches, and by no other.*)
LockIsHeld == \A q \in Queries : writer = q <=> asked[q] \in {"recheck", "fetch"}

(* What is being fetched is still missing, as only the holder of the lock  *)
(* could have brought it.                                                  *)
FetchIsDue == \A q \in Queries : asked[q] = "fetch" => ~IsFresh

(* Nothing was fetched in the future.                                      *)
CachedIsPast == cached # EMPTY => cached <= hour

CatalogInv == CatalogTypeOK /\ LockIsHeld /\ FetchIsDue /\ CachedIsPast

LEMMA InitCatalogInv == InitCatalog => CatalogInv
  BY CatalogAssumption, EmptyAssumption
  DEF InitCatalog, CatalogInv, CatalogTypeOK, QueryPc, LockIsHeld, FetchIsDue, CachedIsPast

(* Every query that is not the holder stands outside the lock.             *)
LEMMA OthersOutside ==
    ASSUME CatalogInv, NEW q \in Queries, writer = q
    PROVE  \A r \in Queries : r # q => asked[r] \notin {"recheck", "fetch"}
  BY DEF CatalogInv, LockIsHeld

LEMMA NextCatalogInv == CatalogInv /\ [CatalogNext]_catVars => CatalogInv'
<1> SUFFICES ASSUME CatalogInv, [CatalogNext]_catVars PROVE CatalogInv'
  OBVIOUS
<1> USE CatalogAssumption, EmptyAssumption
    DEF CatalogInv, CatalogTypeOK, QueryPc, LockIsHeld, FetchIsDue, CachedIsPast, IsFresh, Is, To
<1>1. ASSUME NEW q \in Queries, Ask(q) PROVE CatalogInv'
  BY <1>1 DEF Ask
<1>2. ASSUME NEW q \in Queries, Read(q) PROVE CatalogInv'
  BY <1>2 DEF Read
<1>3. ASSUME NEW q \in Queries, Lock(q) PROVE CatalogInv'
  BY <1>3 DEF Lock
<1>4. ASSUME NEW q \in Queries, Recheck(q) PROVE CatalogInv'
  <2>1. writer = q /\ \A r \in Queries : r # q => asked[r] \notin {"recheck", "fetch"}
    BY <1>4, OthersOutside DEF Recheck
  <2> QED
    BY <1>4, <2>1 DEF Recheck
<1>5. ASSUME NEW q \in Queries, Fetch(q) PROVE CatalogInv'
  <2>1. writer = q /\ \A r \in Queries : r # q => asked[r] \notin {"recheck", "fetch"}
    BY <1>5, OthersOutside DEF Fetch
  <2> QED
    BY <1>5, <2>1 DEF Fetch
<1>6. ASSUME NEW q \in Queries, Leaves(q) PROVE CatalogInv'
  BY <1>6 DEF Leaves
<1>7. CASE Hour
  BY <1>7 DEF Hour
<1>8. CASE RestartCatalog
  BY <1>8 DEF RestartCatalog
<1>9. CASE UNCHANGED catVars
  BY <1>9 DEF catVars
<1> QED
  BY <1>1, <1>2, <1>3, <1>4, <1>5, <1>6, <1>7, <1>8, <1>9 DEF CatalogNext

(* The three facts together: the lock, the fetch that is due, and the past *)
(* hold of every state (catalog.rs:84-116).                                *)
THEOREM CatalogInvariance == CatalogSpec => []CatalogInv
<1> QED
  BY InitCatalogInv, NextCatalogInv, PTL DEF CatalogSpec

(* What one step may do to the cache: FetchesSpaced without its box        *)
Spaced ==
    /\ cached # EMPTY /\ cached' # cached /\ ~RestartCatalog =>
         cached' \in Nat /\ cached' - cached >= TTL
    /\ \A q \in Queries : ~Is(q, "error") /\ asked'[q] = "error" => cached = EMPTY

LEMMA StepSpaced == CatalogInv /\ [CatalogNext]_catVars => [Spaced]_catVars
<1> SUFFICES ASSUME CatalogInv, CatalogNext PROVE Spaced
  BY DEF catVars
<1> USE CatalogAssumption, EmptyAssumption
    DEF CatalogInv, CatalogTypeOK, QueryPc, FetchIsDue, CachedIsPast, IsFresh, Is, To, Spaced
<1>1. ASSUME NEW q \in Queries, Ask(q) \/ Read(q) \/ Lock(q) \/ Recheck(q) \/ Leaves(q)
      PROVE  Spaced
  <2>1. cached' = cached
    BY <1>1 DEF Ask, Read, Lock, Recheck, Leaves
  <2>2. \A r \in Queries : ~Is(r, "error") => asked'[r] # "error"
    BY <1>1 DEF Ask, Read, Lock, Recheck, Leaves
  <2> QED
    BY <2>1, <2>2
<1>2. ASSUME NEW q \in Queries, Fetch(q) PROVE Spaced
  BY <1>2 DEF Fetch
<1>3. CASE Hour
  BY <1>3 DEF Hour
<1>4. CASE RestartCatalog
  BY <1>4 DEF RestartCatalog
<1> QED
  BY <1>1, <1>2, <1>3, <1>4 DEF CatalogNext

(* What was fetched stays for its TTL at least, and no browser is told that*)
(* there is no catalog once there is one (catalog.rs:84-116).              *)
THEOREM CatalogFetchesSpaced == CatalogSpec => FetchesSpaced
<1>1. CatalogInv /\ [CatalogNext]_catVars => [Spaced]_catVars
  BY StepSpaced
<1>2. [][Spaced]_catVars => FetchesSpaced
  BY PTL DEF FetchesSpaced, Spaced
<1> QED
  BY CatalogInvariance, <1>1, <1>2, PTL DEF CatalogSpec

------------------------------------------------------------------------------
(* The watcher *)

(* An outage that is going on, or that the last poll has seen, has not been*)
(* swept for: there are more outages than sweeps.                          *)
OneIsOwed == last = "down" \/ ~daemon => sweeps < outages

WatchInv == WatchTypeOK /\ OneIsOwed /\ SweepsArePaidFor

(* What the type invariant says of the flags, and of all else              *)
FlagsOK == daemon \in BOOLEAN /\ noticed \in BOOLEAN /\ missed \in BOOLEAN
RestOK ==
    /\ last \in {"unseen", "up", "down"}
    /\ running \subseteq Watched /\ ready \subseteq Watched /\ sweep \subseteq Watched
    /\ outages \in 0..MaxOutages /\ sweeps \in Nat

LEMMA InitWatchInv == InitWatch => WatchInv
<1> SUFFICES ASSUME InitWatch PROVE WatchInv
  OBVIOUS
<1>1. FlagsOK
  BY DEF InitWatch, FlagsOK
<1>2. RestOK
  BY WatchAssumption DEF InitWatch, RestOK
<1>3. OneIsOwed /\ SweepsArePaidFor
  BY <1>1 DEF InitWatch, OneIsOwed, SweepsArePaidFor
<1> QED
  BY <1>1, <1>2, <1>3 DEF WatchInv, WatchTypeOK, FlagsOK, RestOK

LEMMA NextWatchInv == WatchInv /\ [WatchNext]_dwVars => WatchInv'
<1> SUFFICES ASSUME WatchInv, [WatchNext]_dwVars PROVE WatchInv'
  OBVIOUS
<1> USE WatchAssumption DEF WatchInv, WatchTypeOK, OneIsOwed, SweepsArePaidFor
<1>1. CASE Poll
  <2>1. FlagsOK'
    BY <1>1 DEF Poll, FlagsOK
  <2>2. RestOK'
    BY <1>1 DEF Poll, RestOK
  <2>3. (OneIsOwed /\ SweepsArePaidFor)'
    BY <1>1 DEF Poll
  <2> QED
    BY <2>1, <2>2, <2>3 DEF FlagsOK, RestOK
<1>2. ASSUME NEW w \in Watched, Heal(w) PROVE WatchInv'
  <2>1. running' \subseteq Watched /\ ready' \subseteq Watched /\ sweep' \subseteq Watched
    BY <1>2 DEF Heal
  <2> QED
    BY <1>2, <2>1 DEF Heal, seenOf
<1>3. CASE Outage
  <2>1. FlagsOK'
    BY <1>3 DEF Outage, FlagsOK
  <2>2. RestOK'
    BY <1>3 DEF Outage, RestOK
  <2>3. (OneIsOwed /\ SweepsArePaidFor)'
    BY <1>3 DEF Outage
  <2> QED
    BY <2>1, <2>2, <2>3 DEF FlagsOK, RestOK
<1>4. CASE Reopen
  BY <1>4 DEF Reopen
<1>5. ASSUME NEW w \in Watched, CreateReady(w) PROVE WatchInv'
  BY <1>5 DEF CreateReady, seenOf
<1>6. ASSUME NEW w \in Watched, DeleteReady(w) PROVE WatchInv'
  BY <1>6 DEF DeleteReady, seenOf
<1>7. CASE UNCHANGED dwVars
  BY <1>7 DEF dwVars
<1> QED
  BY <1>1, <1>2, <1>3, <1>4, <1>5, <1>6, <1>7 DEF WatchNext, Watcher

(* No outage is swept for twice, and none that never was (daemon_watch.rs: *)
(* 48-50, 66-84): what an outage is owed is paid by one sweep.             *)
THEOREM SweepsAlwaysPaidFor == WatchSpec => []SweepsArePaidFor
<1>1. WatchInv => SweepsArePaidFor
  BY DEF WatchInv
<1> QED
  BY InitWatchInv, NextWatchInv, <1>1, PTL DEF WatchSpec

------------------------------------------------------------------------------
(* The start of the gateway *)

(* A configuration every variable of which can be read                     *)
Configured(c) ==
    \A k \in DOMAIN Variables[c] : Legible(Variables[c][k], LoadDotenvFiles(Given)[k])

(* What has been read has been found legible, and the registry valid: each *)
(* of the stages is reached through those before it.                       *)
ReadSoFar ==
    LET from(stages) == boot.at \in stages
        bound == {"watch", "route", "bind", "listening"}
        oauth == {"oauth", "auth"} \union bound
        late == {"integrations", "providers"} \union oauth
    IN
    /\ from({"workspaces", "database"} \union late) => Configured("gateway")
    /\ from({"database"} \union late) => Configured("workspaces")
    /\ from({"providers"} \union oauth) => Configured("integrations")
    /\ from(bound) => Configured("auth")
    /\ from(oauth) => ValidRegistry(Given.registry)

BootOK ==
    /\ \E a, g, b, w : boot = [at |-> a, given |-> g, browsers |-> b, wrapper |-> w]
    /\ boot.at \in {"off", "gateway", "workspaces", "database", "integrations", "providers",
                    "oauth", "auth", "watch", "route", "bind"} \union Ends
    /\ Reached("off") \/ boot.given \in DOMAIN Environments
    /\ \A s \in clients : s # ""

BootInv == BootOK /\ ReadSoFar

LEMMA AfterStage ==
    ASSUME NEW i \in 1..11
    PROVE  After(Stages[i]) = Stages[i + 1]
<1> DEFINE I == {j \in 1..Len(Stages) : Stages[j] = Stages[i]}
<1>1. Len(Stages) = 12
  BY DEF Stages
<1>2. \A j \in 1..12 : Stages[j] = Stages[i] => j = i
  BY SMTT(60) DEF Stages
<1>3. I = {i}
  BY <1>1, <1>2
<1>4. Min(I) = i
  BY <1>3 DEF Min
<1>5. SelectInSeq(Stages, LAMBDA s : s = Stages[i]) = i
  BY <1>3, <1>4 DEF SelectInSeq
<1> QED
  BY <1>5 DEF After

LEMMA AfterEach ==
    /\ After("off") = "gateway" /\ After("gateway") = "workspaces"
    /\ After("workspaces") = "database" /\ After("database") = "integrations"
    /\ After("integrations") = "providers" /\ After("providers") = "oauth"
    /\ After("oauth") = "auth" /\ After("auth") = "watch" /\ After("watch") = "route"
    /\ After("route") = "bind" /\ After("bind") = "listening"
<1>1. /\ Stages[1] = "off" /\ Stages[2] = "gateway" /\ Stages[3] = "workspaces"
      /\ Stages[4] = "database" /\ Stages[5] = "integrations" /\ Stages[6] = "providers"
      /\ Stages[7] = "oauth" /\ Stages[8] = "auth" /\ Stages[9] = "watch"
      /\ Stages[10] = "route" /\ Stages[11] = "bind" /\ Stages[12] = "listening"
  BY DEF Stages
<1>2. \A i \in 1..11 : After(Stages[i]) = Stages[i + 1]
  BY AfterStage
<1> QED
  BY <1>1, <1>2

LEMMA InitBootInv == InitBoot => BootInv
<1> SUFFICES ASSUME InitBoot PROVE BootInv
  OBVIOUS
<1>1. boot = [at |-> "off", given |-> <<>>, browsers |-> {}, wrapper |-> <<>>] /\ clients = {}
  BY DEF InitBoot, Off
<1>2. \E a, g, b, w : boot = [at |-> a, given |-> g, browsers |-> b, wrapper |-> w]
  BY <1>1
<1>3. boot.at = "off"
  BY <1>1
<1> QED
  BY <1>1, <1>2, <1>3 DEF BootInv, BootOK, ReadSoFar, Reached

(* The stages and the environment are all that the invariant looks at, and *)
(* a step that goes on, or ends, in the same environment is of this form.  *)
LEMMA GoesOn ==
    ASSUME BootOK, NEW stage,
           \/ boot' = [boot EXCEPT !.at = stage]
           \/ \E w : boot' = [boot EXCEPT !.at = stage, !.wrapper = w]
           \/ \E b : boot' = [boot EXCEPT !.at = stage, !.browsers = b]
    PROVE  /\ boot'.at = stage /\ boot'.given = boot.given
           /\ Given' = Given
           /\ \E a, g, b, w : boot' = [at |-> a, given |-> g, browsers |-> b, wrapper |-> w]
           /\ \A c : Configured(c)' <=> Configured(c)
<1>1. PICK a, g, b, w : boot = [at |-> a, given |-> g, browsers |-> b, wrapper |-> w]
  BY DEF BootOK
<1>2. /\ boot'.at = stage /\ boot'.given = boot.given
      /\ \E a1, g1, b1, w1 : boot' = [at |-> a1, given |-> g1, browsers |-> b1, wrapper |-> w1]
  BY <1>1
<1>3. Given' = Given
  BY <1>2 DEF Given
<1> QED
  BY <1>2, <1>3 DEF Configured

LEMMA NextBootInv == BootInv /\ [BootNext]_suVars => BootInv'
<1> SUFFICES ASSUME BootInv, [BootNext]_suVars PROVE BootInv'
  OBVIOUS
<1> USE AfterEach DEF BootInv, Reached
<1>1. ASSUME NEW e \in DOMAIN Environments, StartProcess(e) PROVE BootInv'
  <2>1. PICK a, g, b, w : boot = [at |-> a, given |-> g, browsers |-> b, wrapper |-> w]
    BY DEF BootOK
  <2>2. boot'.at = "gateway" /\ boot'.given = e /\ clients' = clients
    BY <1>1, <2>1 DEF StartProcess
  <2>3. \E a1, g1, b1, w1 : boot' = [at |-> a1, given |-> g1, browsers |-> b1, wrapper |-> w1]
    BY <1>1, <2>1 DEF StartProcess
  <2> QED
    BY <2>2, <2>3 DEF BootOK, ReadSoFar
<1>2. ASSUME NEW c \in Configs, FromEnv(c) PROVE BootInv'
  <2>1. c \in {"gateway", "workspaces", "integrations", "auth"} /\ boot.at = c /\ clients' = clients
    BY <1>2 DEF FromEnv, Configs, Variables
  <2>2. CASE Configured(c)
    <3>1. boot' = [boot EXCEPT !.at = After(c)]
      BY <1>2, <2>1, <2>2 DEF FromEnv, Configured, Advance
    <3>2. /\ boot'.at = After(c) /\ boot'.given = boot.given /\ Given' = Given
          /\ \E a, g, b, w : boot' = [at |-> a, given |-> g, browsers |-> b, wrapper |-> w]
          /\ \A d : Configured(d)' <=> Configured(d)
      BY <3>1, GoesOn
    <3> QED
      BY <2>1, <2>2, <3>2 DEF BootOK, ReadSoFar
  <2>3. CASE ~Configured(c)
    <3>1. boot' = [boot EXCEPT !.at = "exited"]
      BY <1>2, <2>1, <2>3 DEF FromEnv, Configured, End
    <3>2. /\ boot'.at = "exited" /\ boot'.given = boot.given
          /\ \E a, g, b, w : boot' = [at |-> a, given |-> g, browsers |-> b, wrapper |-> w]
      BY <3>1, GoesOn
    <3> QED
      BY <2>1, <3>2 DEF BootOK, ReadSoFar, Ends
  <2> QED
    BY <2>2, <2>3
<1>3. CASE Connect \/ Bind
  <2>1. clients' = clients
    BY <1>3 DEF Connect, Bind
  <2>2. PICK stage : boot' = [boot EXCEPT !.at = stage]
            /\ (stage \in {"exited", "panicked"} \/ stage = After(boot.at))
    BY <1>3 DEF Connect, Bind, Advance, End
  <2>3. /\ boot'.at = stage /\ boot'.given = boot.given /\ Given' = Given
        /\ \E a, g, b, w : boot' = [at |-> a, given |-> g, browsers |-> b, wrapper |-> w]
        /\ \A d : Configured(d)' <=> Configured(d)
    BY <2>2, GoesOn
  <2>4. \/ boot.at \in {"database", "bind"} /\ stage \in {"exited", "panicked"}
        \/ boot.at = "database" /\ stage = "integrations"
        \/ boot.at = "bind" /\ stage = "listening"
    BY <1>3, <2>2 DEF Connect, Bind
  <2>5. ValidRegistry(Given.registry)' <=> ValidRegistry(Given.registry)
    BY <2>3
  <2>6. BootOK'
    BY <2>1, <2>3, <2>4 DEF BootOK, Ends
  <2>7. ReadSoFar'
    BY <2>3, <2>4, <2>5 DEF ReadSoFar
  <2> QED
    BY <2>6, <2>7
<1>4. CASE LoadProviders
  <2>1. clients' = clients /\ boot.at = "providers"
    BY <1>4 DEF LoadProviders
  <2>2. PICK stage : boot' = [boot EXCEPT !.at = stage]
            /\ (stage = "exited" \/ (stage = "oauth" /\ ValidRegistry(Given.registry)))
    BY <1>4 DEF LoadProviders, Advance, End
  <2>3. /\ boot'.at = stage /\ boot'.given = boot.given /\ Given' = Given
        /\ \E a, g, b, w : boot' = [at |-> a, given |-> g, browsers |-> b, wrapper |-> w]
        /\ \A d : Configured(d)' <=> Configured(d)
    BY <2>2, GoesOn
  <2>4. ValidRegistry(Given.registry)' <=> ValidRegistry(Given.registry)
    BY <2>3
  <2> QED
    BY <2>1, <2>2, <2>3, <2>4 DEF BootOK, ReadSoFar, Ends
<1>5. CASE RegisterClients
  <2>1. boot' = [boot EXCEPT !.at = "auth"] /\ boot.at = "oauth"
    BY <1>5 DEF RegisterClients, Advance
  <2>2. /\ boot'.at = "auth" /\ boot'.given = boot.given /\ Given' = Given
        /\ \E a, g, b, w : boot' = [at |-> a, given |-> g, browsers |-> b, wrapper |-> w]
        /\ \A d : Configured(d)' <=> Configured(d)
    BY <2>1, GoesOn
  <2>3. \A s \in clients' : s # ""
    <3>1. \A p \in ToSet(Given.registry.entries) : p.service # ""
      BY <2>1 DEF ReadSoFar, ValidRegistry, ToSet
    <3>2. PICK some \in SUBSET {p.service : p \in {p \in ToSet(Given.registry.entries) :
                                                        OAuthCredentials(p)}} :
              clients' = clients \union some
      BY <1>5 DEF RegisterClients
    <3> QED
      BY <3>1, <3>2 DEF BootOK
  <2>4. ValidRegistry(Given.registry)' <=> ValidRegistry(Given.registry)
    BY <2>2
  <2> QED
    BY <2>1, <2>2, <2>3, <2>4 DEF BootOK, ReadSoFar
<1>6. CASE Launcher \/ Route
  <2>1. clients' = clients /\ boot.at \in {"watch", "route"}
    BY <1>6 DEF Launcher, Route
  <2>2. PICK stage :
            /\ \/ boot' = [boot EXCEPT !.at = stage]
               \/ \E w : boot' = [boot EXCEPT !.at = stage, !.wrapper = w]
               \/ \E b : boot' = [boot EXCEPT !.at = stage, !.browsers = b]
            /\ stage = "panicked" \/ stage = After(boot.at)
    <3>1. CASE Launcher
      BY <3>1 DEF Launcher
    <3>2. CASE Route
      BY <3>2 DEF Route, End
    <3> QED
      BY <1>6, <3>1, <3>2
  <2>3. /\ boot'.at = stage /\ boot'.given = boot.given /\ Given' = Given
        /\ \E a, g, b, w : boot' = [at |-> a, given |-> g, browsers |-> b, wrapper |-> w]
        /\ \A d : Configured(d)' <=> Configured(d)
    BY <2>2, GoesOn
  <2>4. ValidRegistry(Given.registry)' <=> ValidRegistry(Given.registry)
    BY <2>3
  <2> QED
    BY <2>1, <2>2, <2>3, <2>4 DEF BootOK, ReadSoFar, Ends
<1>7. CASE EndProcess
  <2>1. boot' = [at |-> "off", given |-> <<>>, browsers |-> {}, wrapper |-> <<>>] /\ clients' = clients
    BY <1>7 DEF EndProcess, Off
  <2>2. boot'.at = "off"
    BY <2>1
  <2>3. \E a, g, b, w : boot' = [at |-> a, given |-> g, browsers |-> b, wrapper |-> w]
    BY <2>1
  <2> QED
    BY <2>1, <2>2, <2>3 DEF BootOK, ReadSoFar
<1>8. CASE UNCHANGED suVars
  <2>1. Given' = Given /\ boot' = boot /\ clients' = clients
    BY <1>8 DEF suVars, Given
  <2>2. \A d : Configured(d)' <=> Configured(d)
    BY <2>1 DEF Configured
  <2> QED
    BY <2>1, <2>2 DEF BootOK, ReadSoFar
<1> QED
  BY <1>1, <1>2, <1>3, <1>4, <1>5, <1>6, <1>7, <1>8 DEF BootNext

(* The value a variable has after both files: what the process was started *)
(* with if that is text, and nothing only where none of the three has any. *)
LEMMA FirstPlaceWins ==
    ASSUME NEW k \in Keys
    PROVE  LET value == LoadDotenvFiles(Given)[k] IN
           /\ value # Default
           /\ Given.process[k] \in Text => value = Value("process", Given.process[k])
           /\ value.raw = "unset" => /\ Given.process[k] = "unset"
                                     /\ Given.shared[k] = "unset" /\ Given.local[k] = "unset"
<1> DEFINE started == [l \in Keys |-> Value("process", Given.process[l])]
           shared == FromFilename(started, "shared", Given.shared)
           both == FromFilename(shared, "local", Given.local)
<1>1. LoadDotenvFiles(Given)[k] = both[k]
  BY DEF LoadDotenvFiles
<1>2. started[k] = Value("process", Given.process[k])
  OBVIOUS
<1>3. shared[k] = IF started[k].raw \in Text \/ Given.shared[k] = "unset" THEN started[k]
                  ELSE Value("shared", Given.shared[k])
  BY DEF FromFilename
<1>4. both[k] = IF shared[k].raw \in Text \/ Given.local[k] = "unset" THEN shared[k]
                ELSE Value("local", Given.local[k])
  BY DEF FromFilename
<1> HIDE DEF started, shared, both
<1>5. "unset" \notin Text
  BY DEF Text
<1> QED
  BY <1>1, <1>2, <1>3, <1>4, <1>5 DEF Value, Default

LEMMA BootInvListens == BootInv => BootTypeOK /\ ListensConfigured
<1> SUFFICES ASSUME BootInv PROVE BootTypeOK /\ ListensConfigured
  OBVIOUS
<1> USE DEF BootInv, Reached
<1>1. BootTypeOK
  <2>1. boot.at \in ToSet(Stages) \union Ends
    <3>1. \A i \in 1..11 : Stages[i] \in ToSet(Stages)
      BY DEF ToSet, Stages
    <3>2. {"off", "gateway", "workspaces", "database", "integrations", "providers", "oauth",
           "auth", "watch", "route", "bind"} \subseteq {Stages[i] : i \in 1..11}
      BY DEF Stages
    <3>3. boot.at \in {"off", "gateway", "workspaces", "database", "integrations", "providers",
                      "oauth", "auth", "watch", "route", "bind"} \union Ends
      BY DEF BootOK
    <3>4. {Stages[i] : i \in 1..11} \subseteq ToSet(Stages)
      BY <3>1
    <3> HIDE DEF BootInv, Reached
    <3> QED
      BY <3>2, <3>3, <3>4
  <2> QED
    BY <2>1 DEF BootTypeOK, BootOK
<1>2. ASSUME boot.at = "listening", NEW k \in Keys
      PROVE  /\ Conf[k] # Default => Conf[k].raw \in Readable[Rule[k]]
             /\ Given.process[k] \in Text => Conf[k] = Value("process", Given.process[k])
             /\ Conf[k] = Default /\ Rule[k] # "list" =>
                 /\ Rule[k] \in Optional
                 /\ {Given[layer][k] : layer \in {"process", "shared", "local"}} = {"unset"}
  <2> DEFINE value == LoadDotenvFiles(Given)[k]
  <2>1. Conf[k] = Understood(Rule[k], value)
    BY <1>2 DEF Conf
  <2>2. PICK c \in Configs : k \in DOMAIN Variables[c] /\ Rule[k] = Variables[c][k]
    <3>1. \E c \in Configs : k \in DOMAIN Variables[c]
      BY DEF Keys
    <3> QED
      BY <3>1 DEF Rule
  <2>3. Legible(Rule[k], value)
    <3>1. c \in {"gateway", "workspaces", "integrations", "auth"}
      BY DEF Configs, Variables
    <3>2. Configured(c)
      BY <1>2, <3>1 DEF ReadSoFar
    <3> QED
      BY <2>2, <3>2 DEF Configured
  <2>4. /\ value # Default
        /\ Given.process[k] \in Text => value = Value("process", Given.process[k])
        /\ value.raw = "unset" => /\ Given.process[k] = "unset"
                                  /\ Given.shared[k] = "unset" /\ Given.local[k] = "unset"
    BY FirstPlaceWins
  <2> HIDE DEF value
  <2>5. CASE TakesDefault(Rule[k], value)
    <3>1. Conf[k] = Default
      BY <2>1, <2>5 DEF Understood
    <3>2. value.raw \in {"unset", "binary"} /\ (Rule[k] # "list" => value.raw = "unset" /\ Rule[k] \in Optional)
      BY <2>5 DEF TakesDefault
    <3>3. Given.process[k] \notin Text
      BY <2>4, <3>2 DEF Text, Value
    <3>4. value.raw = "unset" =>
            {Given[layer][k] : layer \in {"process", "shared", "local"}} = {"unset"}
      BY <2>4
    <3> QED
      BY <3>1, <3>2, <3>3, <3>4
  <2>6. CASE ~TakesDefault(Rule[k], value)
    BY <2>1, <2>3, <2>4, <2>6 DEF Understood, Legible
  <2> QED
    BY <2>5, <2>6
<1> QED
  BY <1>1, <1>2 DEF ListensConfigured

(* Whatever the environments and the registries are, how far the process is*)
(* shows what it has found legible, and no client has an empty name        *)
(* (rust_gateway.rs, config.rs).                                           *)
THEOREM StartupTypes == BootSpec => []BootTypeOK
<1> QED
  BY InitBootInv, NextBootInv, BootInvListens, PTL DEF BootSpec

(* A gateway that listens has a usable value for every variable, the one it*)
(* was started with if that is legible, and a default only where nothing   *)
(* was set (config.rs:158-161, 253-281, 449-501): in any environments, and *)
(* after any number of starts that failed.                                 *)
THEOREM AlwaysListensConfigured == BootSpec => []ListensConfigured
<1> QED
  BY InitBootInv, NextBootInv, BootInvListens, PTL DEF BootSpec

------------------------------------------------------------------------------
(* The origins that containers are told of.  What a fold comes to is shown *)
(* of the smallest set of positions for which it might come to something   *)
(* else: there is none.                                                    *)

(* A set of numbers has a least one, and a bounded one a greatest.         *)
Less == {p \in Nat \X Nat : p[1] < p[2]}
LEMMA LessIsWellFounded == IsWellFoundedOn(Less, Nat)
<1>1. OpToRel(<, Nat) = Less
  BY Zenon DEF OpToRel, Less
<1> QED
  BY NatLessThanWellFounded, <1>1, Zenon

LEMMA Least ==
    ASSUME NEW T \in SUBSET Nat, T # {}
    PROVE  \E x \in T : \A y \in T : x <= y
<1>1. PICK x \in T : \A y \in T : ~(<<y, x>> \in Less)
  BY LessIsWellFounded, WFMin
<1>2. \A y \in Nat, z \in Nat : y < z => <<y, z>> \in Less
  BY DEF Less
<1>3. ASSUME NEW y \in T PROVE x <= y
  <2>1. x \in Nat /\ y \in Nat /\ ~(y < x)
    BY <1>1, <1>2
  <2> QED
    BY <2>1
<1> QED
  BY <1>3

LEMMA Greatest ==
    ASSUME NEW n \in Nat, NEW T \in SUBSET (1..n), T # {}
    PROVE  Max(T) \in T /\ \A y \in T : Max(T) >= y
<1> DEFINE U == {u \in 0..n : n - u \in T}
<1>1. U \in SUBSET Nat /\ U # {}
  <2>1. PICK x \in T : TRUE
    OBVIOUS
  <2>2. n - x \in 0..n /\ n - (n - x) = x
    OBVIOUS
  <2>3. n - x \in U
    BY <2>2
  <2>4. U \subseteq 0..n /\ 0..n \subseteq Nat
    OBVIOUS
  <2> QED
    BY <2>3, <2>4
<1>2. PICK u \in U : \A v \in U : u <= v
  BY <1>1, Least
<1>3. ASSUME NEW y \in T PROVE n - u >= y
  <2>1. y \in 1..n /\ n - y \in 0..n /\ n - (n - y) = y
    OBVIOUS
  <2>2. u <= n - y /\ u \in 0..n
    BY <1>2, <2>1
  <2> QED
    BY <2>1, <2>2
<1>4. \E x \in T : \A y \in T : x >= y
  BY <1>3
<1> QED
  BY <1>4 DEF Max

(* Without its greatest number, a set of the first n is one of the first   *)
(* n - 1.                                                                  *)
LEMMA WithoutMax ==
    ASSUME NEW n \in Nat, NEW s \in SUBSET (1..n), s # {}
    PROVE  /\ n - 1 \in Nat /\ Max(s) \in s /\ Max(s) \in 1..n
           /\ s \ {Max(s)} \in SUBSET (1..(n - 1))
<1>1. Max(s) \in s /\ \A y \in s : Max(s) >= y
  BY Greatest
<1>2. ASSUME NEW x \in s, \A y \in s : x >= y
      PROVE  n - 1 \in Nat /\ x \in 1..n /\ s \ {x} \in SUBSET (1..(n - 1))
  <2>1. x \in 1..n /\ n - 1 \in Nat
    OBVIOUS
  <2>2. ASSUME NEW y \in s \ {x} PROVE y \in 1..(n - 1)
    <3>1. y \in 1..n /\ x >= y /\ y # x
      BY <1>2
    <3> QED
      BY <2>1, <3>1
  <2> QED
    BY <2>1, <2>2
<1> QED
  BY <1>1, <1>2

(* Both folds over the origins leave out some, and append the others.      *)
LeftOut(how, list, o) == IF how = "once" THEN o \in ToSet(list) ELSE o.scheme = ""
Grown(how, list, o) == IF LeftOut(how, list, o) THEN list ELSE Append(list, o)
FoldsTo(f, how, base, seq, n) ==
    f = [s \in SUBSET (1..n) |->
            IF s = {} THEN base ELSE Grown(how, f[s \ {Max(s)}], seq[Max(s)])]

LEMMA FoldExists ==
    ASSUME NEW how, NEW base, NEW seq, NEW m \in Nat
    PROVE  \E f : FoldsTo(f, how, base, seq, m)
<1> DEFINE None(n) == ~ \E f : FoldsTo(f, how, base, seq, n)
           T == {n \in Nat : None(n)}
<1> SUFFICES ASSUME T # {} PROVE FALSE
  OBVIOUS
<1>1. PICK n \in T : \A k \in T : n <= k
  BY Least
<1>2. n # 0
  <2> DEFINE g == [s \in SUBSET (1..0) |-> base]
  <2>1. SUBSET (1..0) = {{}}
    OBVIOUS
  <2>2. g = [s \in SUBSET (1..0) |->
                IF s = {} THEN base ELSE Grown(how, g[s \ {Max(s)}], seq[Max(s)])]
    BY <2>1
  <2> QED
    BY <2>2 DEF FoldsTo
<1>3. n - 1 \in Nat /\ n - 1 \notin T
  BY <1>1, <1>2
<1>4. PICK f : FoldsTo(f, how, base, seq, n - 1)
  BY <1>3
<1> DEFINE g == [s \in SUBSET (1..n) |->
                    IF s = {} THEN base ELSE Grown(how, f[s \ {Max(s)}], seq[Max(s)])]
<1>5. ASSUME NEW s \in SUBSET (1..(n - 1)) PROVE g[s] = f[s]
  <2>1. s \in SUBSET (1..n)
    BY <1>3
  <2>2. f[s] = IF s = {} THEN base ELSE Grown(how, f[s \ {Max(s)}], seq[Max(s)])
    BY <1>4 DEF FoldsTo
  <2> QED
    BY <2>1, <2>2
<1>6. ASSUME NEW s \in SUBSET (1..n), s # {} PROVE g[s \ {Max(s)}] = f[s \ {Max(s)}]
  BY <1>5, <1>6, WithoutMax
<1>7. g = [s \in SUBSET (1..n) |->
              IF s = {} THEN base ELSE Grown(how, g[s \ {Max(s)}], seq[Max(s)])]
  <2> HIDE DEF g
  <2>1. \A s \in SUBSET (1..n) : s # {} => g[s \ {Max(s)}] = f[s \ {Max(s)}]
    BY <1>6
  <2>2. g = [s \in SUBSET (1..n) |->
                IF s = {} THEN base ELSE Grown(how, f[s \ {Max(s)}], seq[Max(s)])]
    BY DEF g
  <2> QED
    BY <2>1, <2>2
<1> QED
  BY <1>1, <1>7 DEF FoldsTo

(* What is in the list after the elements in s                             *)
Apart(list) == \A i, j \in 1..Len(list) : list[i] = list[j] => i = j
Collects(list, how, base, seq, s, V) ==
    /\ list \in Seq(V)
    /\ ToSet(list) = ToSet(base) \union
            {seq[i] : i \in {j \in s : how = "once" \/ seq[j].scheme # ""}}
    /\ how = "once" => Apart(list)

LEMMA ElementsAre ==
    ASSUME NEW V, NEW list \in Seq(V)
    PROVE  ToSet(list) = {list[i] : i \in 1..Len(list)}
  BY DEF ToSet

LEMMA GrownCollects ==
    ASSUME NEW how, NEW base, NEW seq, NEW V, NEW s, NEW k \in s, seq[k] \in V, NEW list,
           Collects(list, how, base, seq, s \ {k}, V)
    PROVE  Collects(Grown(how, list, seq[k]), how, base, seq, s, V)
<1> DEFINE In(z) == {seq[i] : i \in {j \in z : how = "once" \/ seq[j].scheme # ""}}
<1>1. list \in Seq(V) /\ ToSet(list) = ToSet(base) \union In(s \ {k}) /\ (how = "once" => Apart(list))
  BY DEF Collects
<1>2. CASE LeftOut(how, list, seq[k])
  <2>1. In(s) = In(s \ {k}) \/ (In(s) = In(s \ {k}) \union {seq[k]} /\ seq[k] \in ToSet(list))
    <3>1. CASE how = "once"
      <4>1. In(s) = In(s \ {k}) \union {seq[k]}
        BY <3>1
      <4> QED
        BY <1>2, <3>1, <4>1 DEF LeftOut
    <3>2. CASE how # "once"
      <4>1. seq[k].scheme = ""
        BY <1>2, <3>2 DEF LeftOut
      <4> QED
        BY <3>2, <4>1
    <3> QED
      BY <3>1, <3>2
  <2>2. ToSet(list) = ToSet(base) \union In(s)
    BY <1>1, <2>1
  <2> QED
    BY <1>1, <1>2, <2>2 DEF Collects, Grown
<1>3. CASE ~LeftOut(how, list, seq[k])
  <2> DEFINE new == Append(list, seq[k])
  <2>1. /\ new \in Seq(V) /\ Len(new) = Len(list) + 1 /\ Len(list) \in Nat
        /\ \A i \in 1..Len(list) : new[i] = list[i]
        /\ new[Len(list) + 1] = seq[k]
    <3>1. list \in Seq(V) /\ seq[k] \in V
      BY <1>1
    <3> QED
      BY <3>1
  <2>2. ToSet(new) = ToSet(list) \union {seq[k]}
    <3> HIDE DEF new
    <3>1. /\ ToSet(new) = {new[i] : i \in 1..Len(new)}
          /\ ToSet(list) = {list[i] : i \in 1..Len(list)}
      BY <1>1, <2>1, ElementsAre
    <3>2. 1..Len(new) = (1..Len(list)) \union {Len(list) + 1}
      BY <2>1
    <3> QED
      BY <2>1, <3>1, <3>2
  <2>3. In(s) = In(s \ {k}) \union {seq[k]}
    BY <1>3 DEF LeftOut
  <2>4. ToSet(new) = ToSet(base) \union In(s)
    BY <1>1, <2>2, <2>3
  <2>5. how = "once" => Apart(new)
    <3> SUFFICES ASSUME how = "once" PROVE Apart(new)
      OBVIOUS
    <3>1. Apart(list) /\ \A i \in 1..Len(list) : list[i] # seq[k]
      BY <1>1, <1>3 DEF LeftOut, ToSet
    <3> HIDE DEF new
    <3> QED
      BY <2>1, <3>1 DEF Apart
  <2> QED
    BY <1>3, <2>1, <2>4, <2>5 DEF Collects, Grown
<1> QED
  BY <1>2, <1>3

LEMMA FoldCollects ==
    ASSUME NEW how, NEW V, NEW base \in Seq(V), how = "once" => Apart(base),
           NEW seq, NEW m \in Nat, \A i \in 1..m : seq[i] \in V,
           NEW f, FoldsTo(f, how, base, seq, m)
    PROVE  Collects(f[1..m], how, base, seq, 1..m, V)
<1> DEFINE Bad(n) == \E s \in SUBSET (1..n) : ~Collects(f[s], how, base, seq, s, V)
           T == {n \in 0..m : Bad(n)}
<1> SUFFICES ASSUME T # {} PROVE FALSE
  <2>1. m \in 0..m
    OBVIOUS
  <2> QED
    BY <2>1
<1>1. PICK n \in T : \A k \in T : n <= k
  <2>1. T \in SUBSET Nat
    OBVIOUS
  <2> QED
    BY <2>1, Least
<1>2. n \in 0..m
  OBVIOUS
<1>3. PICK s \in SUBSET (1..n) : ~Collects(f[s], how, base, seq, s, V)
  BY <1>1
<1>4. s \in SUBSET (1..m)
  BY <1>2
<1>5. f[s] = IF s = {} THEN base ELSE Grown(how, f[s \ {Max(s)}], seq[Max(s)])
  BY <1>4 DEF FoldsTo
<1>6. CASE s = {}
  BY <1>3, <1>5, <1>6 DEF Collects
<1>7. CASE s # {}
  <2>1. /\ n - 1 \in Nat /\ Max(s) \in s /\ Max(s) \in 1..n
        /\ s \ {Max(s)} \in SUBSET (1..(n - 1))
    BY <1>2, <1>7, WithoutMax
  <2>2. n - 1 \notin T /\ n - 1 \in 0..m
    <3>1. n - 1 \in 0..m /\ ~(n <= n - 1)
      BY <1>2, <2>1
    <3> QED
      BY <1>1, <3>1
  <2>3. Collects(f[s \ {Max(s)}], how, base, seq, s \ {Max(s)}, V)
    BY <2>1, <2>2
  <2>4. seq[Max(s)] \in V
    BY <1>2, <2>1
  <2>5. Collects(Grown(how, f[s \ {Max(s)}], seq[Max(s)]), how, base, seq, s, V)
    BY <2>1, <2>3, <2>4, GrownCollects
  <2> QED
    BY <1>3, <1>5, <1>7, <2>5
<1> QED
  BY <1>6, <1>7

(* What the first fold keeps are the extra origins that have a scheme.     *)
LEMMA ExtrasKept ==
    ASSUME NEW V, NEW extras \in Seq(V)
    PROVE  /\ ParseExtra(extras) \in Seq(V)
           /\ ToSet(ParseExtra(extras)) = {x \in ToSet(extras) : x.scheme # ""}
<1> DEFINE G(f) == [s \in SUBSET DOMAIN extras |->
                    IF s = {} THEN <<>>
                    ELSE IF extras[Max(s)].scheme = "" THEN f[s \ {Max(s)}]
                    ELSE Append(f[s \ {Max(s)}], extras[Max(s)])]
           e == CHOOSE f : f = G(f)
<1>1. ParseExtra(extras) = e[DOMAIN extras]
  BY Zenon DEF ParseExtra, FoldLeft, MapThenFoldSet
<1>2. DOMAIN extras = 1..Len(extras) /\ Len(extras) \in Nat /\ \A i \in 1..Len(extras) : extras[i] \in V
  OBVIOUS
<1>3. \A f : FoldsTo(f, "scheme", <<>>, extras, Len(extras)) <=> f = G(f)
  BY <1>2, Zenon DEF FoldsTo, Grown, LeftOut
<1>4. \E f : f = G(f)
  BY <1>2, <1>3, FoldExists
<1>5. e = G(e)
  BY <1>4, Zenon
<1> HIDE DEF e, G
<1>6. <<>> \in Seq(V)
  OBVIOUS
<1>7. Collects(e[1..Len(extras)], "scheme", <<>>, extras, 1..Len(extras), V)
  BY <1>2, <1>3, <1>5, <1>6, FoldCollects
<1>8. ToSet(<<>>) = {}
  BY DEF ToSet
<1> QED
  BY <1>1, <1>2, <1>7, <1>8 DEF Collects, ToSet

(* The second fold lists each of its origins once.                         *)
LEMMA ListedOnce ==
    ASSUME NEW V, NEW frontend \in V, NEW own \in V, NEW extras \in Seq(V)
    PROVE  LET list == WrapperAllowedOrigins(frontend, own, extras) IN
           /\ ToSet(list) = {frontend, own} \union ToSet(extras)
           /\ Len(list) = Cardinality(ToSet(list))
<1> DEFINE all == <<own>> \o extras
           G(f) == [s \in SUBSET DOMAIN all |->
                    IF s = {} THEN <<frontend>>
                    ELSE IF all[Max(s)] \in ToSet(f[s \ {Max(s)}]) THEN f[s \ {Max(s)}]
                    ELSE Append(f[s \ {Max(s)}], all[Max(s)])]
           w == CHOOSE f : f = G(f)
           list == w[DOMAIN all]
<1>1. WrapperAllowedOrigins(frontend, own, extras) = list
  BY Zenon DEF WrapperAllowedOrigins, FoldLeft, MapThenFoldSet
<1>2. /\ DOMAIN all = 1..Len(all) /\ Len(all) \in Nat /\ \A i \in 1..Len(all) : all[i] \in V
      /\ Len(all) = Len(extras) + 1 /\ all[1] = own
      /\ \A i \in 1..Len(extras) : all[i + 1] = extras[i]
  <2>1. <<own>> \in Seq(V) /\ Len(<<own>>) = 1 /\ <<own>>[1] = own
    OBVIOUS
  <2> QED
    BY <2>1, ConcatProperties
<1> HIDE DEF all
<1>3. \A f : FoldsTo(f, "once", <<frontend>>, all, Len(all)) <=> f = G(f)
  BY <1>2, Zenon DEF FoldsTo, Grown, LeftOut
<1>4. \E f : f = G(f)
  BY <1>2, <1>3, FoldExists
<1>5. w = G(w)
  BY <1>4, Zenon
<1> HIDE DEF w, G
<1>6. <<frontend>> \in Seq(V) /\ Apart(<<frontend>>) /\ ToSet(<<frontend>>) = {frontend}
  BY DEF Apart, ToSet
<1>7. Collects(w[1..Len(all)], "once", <<frontend>>, all, 1..Len(all), V)
  BY <1>2, <1>3, <1>5, <1>6, FoldCollects
<1>8. list \in Seq(V) /\ Apart(list) /\ ToSet(list) = {frontend} \union {all[i] : i \in 1..Len(all)}
  BY <1>2, <1>6, <1>7 DEF Collects
<1>9. {all[i] : i \in 1..Len(all)} = {own} \union ToSet(extras)
  <2>1. ToSet(extras) = {extras[i] : i \in 1..Len(extras)}
    BY DEF ToSet
  <2>2. ASSUME NEW i \in 1..Len(all) PROVE all[i] \in {own} \union ToSet(extras)
    <3>1. i = 1 \/ (i - 1 \in 1..Len(extras) /\ (i - 1) + 1 = i)
      BY <1>2
    <3> QED
      BY <1>2, <2>1, <3>1
  <2>3. ASSUME NEW i \in 1..Len(extras) PROVE i + 1 \in 1..Len(all)
    BY <1>2
  <2>4. 1 \in 1..Len(all)
    BY <1>2
  <2> QED
    BY <1>2, <2>1, <2>2, <2>3, <2>4
<1> HIDE DEF list
<1>10. Len(list) = Cardinality(ToSet(list))
  <2>1. list \in Bijection(1..Len(list), ToSet(list))
    <3>1. /\ list = [i \in 1..Len(list) |-> list[i]]
          /\ ToSet(list) = {list[i] : i \in 1..Len(list)}
      BY <1>8 DEF ToSet
    <3>2. list \in [1..Len(list) -> ToSet(list)]
      BY <3>1, Zenon
    <3> QED
      BY <1>8, <3>1, <3>2 DEF Bijection, Injection, Surjection, IsInjective, Apart
  <2>2. ExistsBijection(1..Len(list), ToSet(list)) /\ Len(list) \in Nat
    <3>1. Len(list) \in Nat
      BY <1>8
    <3> QED
      BY <2>1, <3>1, Zenon DEF ExistsBijection
  <2> QED
    BY <2>2, FS_CountingElements
<1> QED
  BY <1>1, <1>8, <1>9, <1>10

(* What is told is what the launcher was set up with.                      *)
Extras(o) == IF Conf["EXTRA_WRAPPER_ALLOWED_ORIGINS"] = Default THEN <<>> ELSE ParseExtra(o.extras)
Told ==
    boot.at \in {"route", "bind", "listening"} =>
        boot.wrapper = WrapperAllowedOrigins(Given.origins.frontend, Own(Given.origins),
                                             Extras(Given.origins))

LEMMA InitTold == InitBoot => Told
  BY DEF InitBoot, Off, Told

LEMMA NextTold == BootInv /\ Told /\ [BootNext]_suVars => Told'
<1> SUFFICES ASSUME BootInv, Told, [BootNext]_suVars PROVE Told'
  OBVIOUS
<1> USE AfterEach DEF Reached
<1>1. PICK a, g, b, w : boot = [at |-> a, given |-> g, browsers |-> b, wrapper |-> w]
  BY DEF BootInv, BootOK
<1>2. CASE Launcher
  <2>1. /\ boot'.at = "route" /\ boot'.given = boot.given
        /\ boot'.wrapper = WrapperAllowedOrigins(Given.origins.frontend, Own(Given.origins),
                                                 Extras(Given.origins))
    BY <1>1, <1>2 DEF Launcher, Extras
  <2>2. Given' = Given /\ Conf' = Conf
    BY <2>1 DEF Given, Conf
  <2> QED
    BY <2>1, <2>2 DEF Told, Extras
<1>3. CASE Route \/ Bind \/ UNCHANGED suVars
  <2>1. boot'.wrapper = boot.wrapper /\ boot'.given = boot.given
    BY <1>1, <1>3 DEF Route, Bind, Advance, End, suVars
  <2>2. Given' = Given /\ Conf' = Conf
    BY <2>1 DEF Given, Conf
  <2>3. boot'.at \in {"route", "bind", "listening"} => boot.at \in {"route", "bind", "listening"}
    BY <1>3 DEF Route, Bind, suVars
  <2> QED
    BY <2>1, <2>2, <2>3 DEF Told, Extras
<1>4. ASSUME \/ \E e \in DOMAIN Environments : StartProcess(e)
             \/ \E config \in Configs : FromEnv(config)
             \/ Connect \/ LoadProviders \/ RegisterClients \/ EndProcess
      PROVE  boot'.at \notin {"route", "bind", "listening"}
  <2>1. CASE \E e \in DOMAIN Environments : StartProcess(e)
    BY <1>1, <2>1 DEF StartProcess
  <2>2. ASSUME NEW c \in Configs, FromEnv(c) PROVE boot'.at \notin {"route", "bind", "listening"}
    <3>1. c \in {"gateway", "workspaces", "integrations", "auth"} /\ boot.at = c
      BY <2>2 DEF FromEnv, Configs, Variables
    <3>2. boot'.at \in {After(c), "exited"}
      BY <1>1, <2>2, <3>1 DEF FromEnv, Advance, End
    <3> QED
      BY <3>1, <3>2
  <2>3. CASE Connect \/ LoadProviders \/ RegisterClients
    BY <1>1, <2>3 DEF Connect, LoadProviders, RegisterClients, Advance, End
  <2>4. CASE EndProcess
    BY <2>4 DEF EndProcess, Off
  <2> QED
    BY <1>4, <2>1, <2>2, <2>3, <2>4
<1> QED
  BY <1>2, <1>3, <1>4 DEF BootNext, Told

LEMMA ToldOnce == BootInv /\ Told => OriginsListedOnce
<1> SUFFICES ASSUME BootInv, Told, Reached("listening") PROVE OriginsListedOnce
  BY DEF OriginsListedOnce
<1> DEFINE o == Given.origins
           V == ToSet(o.extras) \union {o.frontend, Own(o)}
           few == Conf["EXTRA_WRAPPER_ALLOWED_ORIGINS"] = Default
<1>1. o.extras \in Seq(ToSet(o.extras))
  BY OriginsAssumption DEF BootInv, BootOK, Reached, Given
<1>2. o.extras \in Seq(V) /\ o.frontend \in V /\ Own(o) \in V
  BY <1>1, SeqMonotonic
<1>3. boot.wrapper = WrapperAllowedOrigins(o.frontend, Own(o), Extras(o))
  BY DEF Told, Reached
<1>4. /\ Extras(o) \in Seq(V)
      /\ ToSet(Extras(o)) = IF few THEN {} ELSE {x \in ToSet(o.extras) : x.scheme # ""}
  <2>1. <<>> \in Seq(V) /\ ToSet(<<>>) = {}
    BY DEF ToSet
  <2> HIDE DEF V, o
  <2> QED
    BY <1>2, <2>1, ExtrasKept DEF Extras
<1> HIDE DEF V, o
<1>5. /\ ToSet(boot.wrapper) = {o.frontend, Own(o)} \union ToSet(Extras(o))
      /\ Len(boot.wrapper) = Cardinality(ToSet(boot.wrapper))
  <2>1. \A F \in V, G \in V, E \in Seq(V) :
            LET list == WrapperAllowedOrigins(F, G, E) IN
            /\ ToSet(list) = {F, G} \union ToSet(E)
            /\ Len(list) = Cardinality(ToSet(list))
    BY ListedOnce, Zenon
  <2>2. Extras(o) \in Seq(V)
    BY <1>4
  <2> QED
    <3> DEFINE list == WrapperAllowedOrigins(o.frontend, Own(o), Extras(o))
    <3>1. ToSet(list) = {o.frontend, Own(o)} \union ToSet(Extras(o)) /\ Len(list) = Cardinality(ToSet(list))
      BY <1>2, <2>1, <2>2
    <3> QED
      BY <1>3, <3>1
<1> QED
  BY <1>4, <1>5 DEF OriginsListedOnce, o

(* The containers are told of the frontend's origin, the gateway's own and *)
(* the extra ones that have a scheme, each once, however many there are and*)
(* whichever coincide (config.rs:65-85, 225-237).                          *)
THEOREM OriginsAlwaysListedOnce == BootSpec => []OriginsListedOnce
<1>1. BootSpec => [](BootInv /\ Told)
  BY InitBootInv, NextBootInv, InitTold, NextTold, PTL DEF BootSpec
<1> QED
  BY <1>1, ToldOnce, PTL

------------------------------------------------------------------------------
(* A call of OpenConnector *)

ExchangeType ==
    [pc : {"send", "status", "lines", "parse", "done"}, kind : Kinds, status : Statuses,
     text : Seq(Lines), at : Nat, data : Seq(Lines), code : Codes]

(* Of a text that is read so far as the line before i, the lines that      *)
(* belong to the event                                                     *)
Before(text, i) == EventLines(text) \intersect 1..(i - 1)

(* What is kept are the data of the lines read so far, and the event has   *)
(* not ended yet.                                                          *)
KeptSoFar(x) ==
    /\ \A k \in 1..(x.at - 1) : ~EventEnds(x.text, k)
    /\ Len(x.data) = Cardinality(Before(x.text, x.at))
    /\ \A i \in Before(x.text, x.at) :
          x.data[Cardinality(EventLines(x.text) \intersect 1..i)] = x.text[i]

ExchangeInv ==
    /\ exchange \in ExchangeType
    /\ exchange.at \in 1..(Len(exchange.text) + 1)
    /\ Reading("lines") => exchange.kind = "mcp" /\ exchange.status = "success" /\ KeptSoFar(exchange)
    /\ exchange.pc \in {"send", "status"} => exchange.at = 1 /\ exchange.data = <<>>
    /\ Reading("parse") /\ exchange.kind = "mcp" =>
          exchange.status = "success" /\ Event(exchange.data, exchange.text)
    /\ WholeEventOfSuccess

LEMMA KindsAre == Kinds = {"admin", "status", "mcp", "popup"}
  BY DEF Kinds, ApiCalls

(* The lines of an event among the first ones are finitely many, and one   *)
(* more if the next line belongs to it.                                    *)
LEMMA BeforeFinite ==
    ASSUME NEW text \in Seq(Lines), NEW i \in 1..(Len(text) + 1)
    PROVE  /\ IsFiniteSet(Before(text, i)) /\ Cardinality(Before(text, i)) \in Nat
           /\ Before(text, i) = {} <=> Cardinality(Before(text, i)) = 0
<1>1. IsFiniteSet(1..(i - 1))
  BY FS_Interval
<1>2. IsFiniteSet(Before(text, i))
  BY <1>1, FS_Subset DEF Before
<1> QED
  BY <1>2, FS_CardinalityType, FS_EmptySet DEF Before

LEMMA BeforeNext ==
    ASSUME NEW text \in Seq(Lines), NEW i \in 1..Len(text)
    PROVE  /\ i \notin EventLines(text) => Before(text, i + 1) = Before(text, i)
           /\ i \in EventLines(text) =>
                /\ Before(text, i + 1) = Before(text, i) \union {i}
                /\ Cardinality(Before(text, i + 1)) = Cardinality(Before(text, i)) + 1
<1>0. i \in Nat /\ Len(text) \in Nat
  OBVIOUS
<1>1. 1..((i + 1) - 1) = (1..(i - 1)) \union {i}
  BY <1>0
<1>2. i \notin EventLines(text) => Before(text, i + 1) = Before(text, i)
  BY <1>1 DEF Before
<1>3. i \in EventLines(text) => Before(text, i + 1) = Before(text, i) \union {i}
  BY <1>1 DEF Before
<1>4. i \notin Before(text, i)
  BY <1>0 DEF Before
<1>5. IsFiniteSet(Before(text, i))
  BY BeforeFinite, <1>0
<1> QED
  BY <1>2, <1>3, <1>4, <1>5, FS_AddElement

(* Before the event has ended, its lines are all those with data.          *)
LEMMA LinesWithData ==
    ASSUME NEW text \in Seq(Lines), NEW i \in 1..(Len(text) + 1),
           \A k \in 1..(i - 1) : ~EventEnds(text, k)
    PROVE  /\ \A j \in 1..(i - 1) : text[j] \in Payloads => j \in Before(text, i)
           /\ i <= Len(text) => (i \in EventLines(text) <=> text[i] \in Payloads)
<1>0. i \in Nat /\ Len(text) \in Nat
  OBVIOUS
<1>1. ASSUME NEW j \in 1..(i - 1), text[j] \in Payloads PROVE j \in Before(text, i)
  <2>1. j \in Nat /\ j \in 1..Len(text) /\ \A k \in 1..j : k \in 1..(i - 1)
    BY <1>0
  <2> QED
    BY <1>1, <2>1 DEF Before, EventLines
<1>2. ASSUME i <= Len(text), text[i] \in Payloads PROVE i \in EventLines(text)
  <2>1. ~EventEnds(text, i)
    BY <1>2, LinesAssumption DEF EventEnds
  <2>2. \A k \in 1..i : k \in 1..(i - 1) \/ k = i
    BY <1>0
  <2> QED
    BY <1>0, <1>2, <2>1, <2>2 DEF EventLines
<1> QED
  BY <1>1, <1>2 DEF EventLines

(* Where the event ends, or the text, all of its lines have been read.     *)
LEMMA AllRead ==
    ASSUME NEW text \in Seq(Lines), NEW i \in 1..(Len(text) + 1),
           i > Len(text) \/ EventEnds(text, i)
    PROVE  Before(text, i) = EventLines(text)
<1>0. i \in Nat /\ Len(text) \in Nat
  OBVIOUS
<1>1. ASSUME NEW j \in EventLines(text) PROVE j \in 1..(i - 1)
  <2>1. j \in 1..Len(text) /\ \A k \in 1..j : ~EventEnds(text, k)
    BY DEF EventLines
  <2>2. CASE i > Len(text)
    BY <1>0, <2>1, <2>2
  <2>3. CASE EventEnds(text, i)
    <3>1. i \notin 1..j
      BY <2>1, <2>3
    <3> QED
      BY <1>0, <2>1, <3>1
  <2> QED
    BY <2>2, <2>3
<1> QED
  BY <1>1 DEF Before

(* An empty line, by a name: the SMT backend has no empty string.          *)
IsEmpty(line) == line = ""

LEMMA EmptyLines ==
    /\ \A line : IsEmpty(line) => line \notin Payloads
    /\ \A text, k : EventEnds(text, k) <=> IsEmpty(text[k]) /\ \E j \in 1..k : text[j] \in Payloads
<1>1. \A line : IsEmpty(line) => line \notin Payloads
  BY LinesAssumption, Zenon DEF IsEmpty
<1> QED
  BY <1>1, Zenon DEF IsEmpty, EventEnds

LEMMA LineCases ==
    ASSUME ReadLine
    PROVE  LET i == exchange.at IN
           /\ Reading("lines")
           /\ IF i > Len(exchange.text) \/ (IsEmpty(exchange.text[i]) /\ exchange.data # <<>>)
              THEN Set("parse")
              ELSE exchange' = [exchange EXCEPT !.at = @ + 1,
                    !.data = IF exchange.text[i] \in Payloads THEN Append(@, exchange.text[i]) ELSE @]
  BY Zenon DEF ReadLine, IsEmpty

(* One more line: what the first ones kept, these keep.                    *)
LEMMA KeepsOneMore ==
    ASSUME NEW x \in ExchangeType, x.at \in 1..Len(x.text), KeptSoFar(x),
           ~(IsEmpty(x.text[x.at]) /\ x.data # <<>>),
           NEW y \in ExchangeType, y.text = x.text, y.at = x.at + 1,
           y.data = IF x.text[x.at] \in Payloads THEN Append(x.data, x.text[x.at]) ELSE x.data
    PROVE  KeptSoFar(y)
<1> DEFINE text == x.text
           i == x.at
           n == Cardinality(Before(text, i))
<1>1. text \in Seq(Lines) /\ i \in 1..Len(text) /\ x.data \in Seq(Lines) /\ y.data \in Seq(Lines)
  BY DEF ExchangeType
<1>2. /\ \A k \in 1..(i - 1) : ~EventEnds(text, k)
      /\ Len(x.data) = n
      /\ \A j \in Before(text, i) :
            x.data[Cardinality(EventLines(text) \intersect 1..j)] = text[j]
  BY DEF KeptSoFar
<1>3. i \in EventLines(text) <=> text[i] \in Payloads
  BY <1>1, <1>2, LinesWithData
<1>4. n \in Nat /\ (Before(text, i) = {} <=> n = 0)
  BY <1>1, BeforeFinite
<1>5. ~EventEnds(text, i)
  <2> SUFFICES ASSUME EventEnds(text, i) PROVE FALSE
    OBVIOUS
  <2>1. IsEmpty(text[i]) /\ x.data = <<>>
    BY EmptyLines
  <2>2. PICK j \in 1..i : text[j] \in Payloads
    BY EmptyLines
  <2>3. j # i
    BY <2>1, <2>2, EmptyLines
  <2>4. j \in 1..(i - 1)
    BY <1>1, <2>3
  <2>5. j \in Before(text, i)
    BY <1>1, <1>2, <2>2, <2>4, LinesWithData
  <2>6. n = 0
    BY <1>2, <2>1
  <2> QED
    BY <1>4, <2>5, <2>6
<1>6. \A k \in 1..((i + 1) - 1) : ~EventEnds(text, k)
  <2>1. \A k \in 1..((i + 1) - 1) : k \in 1..(i - 1) \/ k = i
    BY <1>1
  <2> QED
    BY <1>2, <1>5, <2>1
<1>7. \A j \in Before(text, i) : Cardinality(EventLines(text) \intersect 1..j) \in 1..n
  <2> TAKE j \in Before(text, i)
  <2>1. j \in 1..(i - 1) /\ j \in EventLines(text) /\ j \in Nat
    BY <1>1 DEF Before
  <2>2. EventLines(text) \intersect 1..j \subseteq Before(text, i)
    BY <1>1, <2>1 DEF Before
  <2>3. IsFiniteSet(Before(text, i))
    BY <1>1, BeforeFinite
  <2>4. Cardinality(EventLines(text) \intersect 1..j) <= n
    BY <2>2, <2>3, FS_Subset
  <2>5. /\ IsFiniteSet(EventLines(text) \intersect 1..j)
        /\ EventLines(text) \intersect 1..j # {}
    BY <2>1, <2>2, <2>3, FS_Subset
  <2>6. /\ Cardinality(EventLines(text) \intersect 1..j) \in Nat
        /\ Cardinality(EventLines(text) \intersect 1..j) # 0
    BY <2>5, FS_CardinalityType, FS_EmptySet
  <2> QED
    BY <1>4, <2>4, <2>6
<1>8. CASE text[i] \in Payloads
  <2>1. /\ Before(text, i + 1) = Before(text, i) \union {i}
        /\ Cardinality(Before(text, i + 1)) = n + 1
    BY <1>1, <1>3, <1>8, BeforeNext
  <2>2. EventLines(text) \intersect 1..i = Before(text, i + 1)
    BY <1>1 DEF Before
  <2>3. y.data = Append(x.data, text[i])
    BY <1>8
  <2>4. text[i] \in Lines
    BY <1>1, ElementOfSeq
  <2>5. /\ Len(y.data) = n + 1 /\ y.data[n + 1] = text[i]
        /\ \A m \in 1..n : y.data[m] = x.data[m]
    BY <1>1, <1>2, <1>4, <2>3, <2>4, AppendProperties
  <2>6. \A j \in Before(text, i) :
            y.data[Cardinality(EventLines(text) \intersect 1..j)] = text[j]
    BY <1>2, <1>7, <2>5
  <2>7. y.data[Cardinality(EventLines(text) \intersect 1..i)] = text[i]
    BY <2>1, <2>2, <2>5
  <2> HIDE DEF text, i, n
  <2> QED
    BY <1>6, <2>1, <2>5, <2>6, <2>7 DEF KeptSoFar, text, i
<1>9. CASE text[i] \notin Payloads
  <2>1. Before(text, i + 1) = Before(text, i)
    BY <1>1, <1>3, <1>9, BeforeNext
  <2>2. y.data = x.data
    BY <1>9
  <2> QED
    BY <1>2, <1>6, <2>1, <2>2 DEF KeptSoFar
<1> QED
  BY <1>8, <1>9

(* Before the first line nothing was kept.                                 *)
LEMMA KeptNothing ==
    ASSUME NEW x \in ExchangeType, x.at = 1, x.data = <<>>
    PROVE  KeptSoFar(x)
<1>1. 1..(x.at - 1) = {}
  BY SMT
<1>2. Before(x.text, x.at) = {}
  BY <1>1 DEF Before
<1>3. Cardinality({}) = 0 /\ Len(<<>>) = 0
  BY FS_EmptySet
<1> QED
  BY <1>1, <1>2, <1>3 DEF KeptSoFar

(* Where the loop leaves, it has the event.                                *)
LEMMA KeptIsEvent ==
    ASSUME NEW x \in ExchangeType, x.at \in 1..(Len(x.text) + 1), KeptSoFar(x),
           x.at > Len(x.text) \/ (IsEmpty(x.text[x.at]) /\ x.data # <<>>)
    PROVE  Event(x.data, x.text)
<1>1. x.text \in Seq(Lines) /\ x.data \in Seq(Lines) /\ x.at \in Nat
  BY DEF ExchangeType
<1>2. CASE x.at > Len(x.text)
  <2>1. Before(x.text, x.at) = EventLines(x.text)
    BY <1>1, <1>2, AllRead
  <2> QED
    BY <2>1 DEF KeptSoFar, Event
<1>3. CASE IsEmpty(x.text[x.at]) /\ x.data # <<>>
  <2>1. Cardinality(Before(x.text, x.at)) # 0
    BY <1>1, <1>3, EmptySeq DEF KeptSoFar
  <2>2. PICK j : j \in Before(x.text, x.at)
    BY <1>1, <2>1, BeforeFinite
  <2>3. j \in 1..x.at /\ x.text[j] \in Payloads
    BY <1>1, <2>2 DEF Before, EventLines
  <2>4. EventEnds(x.text, x.at)
    BY <1>3, <2>3, EmptyLines
  <2>5. Before(x.text, x.at) = EventLines(x.text)
    BY <1>1, <2>4, AllRead
  <2> QED
    BY <2>5 DEF KeptSoFar, Event
<1> QED
  BY <1>2, <1>3

(* An event without lines is the empty one.                                *)
LEMMA EventIsEmpty ==
    ASSUME NEW x \in ExchangeType, Event(x.data, x.text)
    PROVE  x.data = <<>> <=> EventLines(x.text) = {}
<1>1. x.text \in Seq(Lines) /\ x.data \in Seq(Lines) /\ Len(x.text) \in Nat
  BY DEF ExchangeType
<1>2. EventLines(x.text) = Before(x.text, Len(x.text) + 1)
  BY <1>1, AllRead
<1>3. EventLines(x.text) = {} <=> Cardinality(EventLines(x.text)) = 0
  BY <1>1, <1>2, BeforeFinite
<1>4. x.data = <<>> <=> Len(x.data) = 0
  BY <1>1, EmptySeq
<1> QED
  BY <1>3, <1>4 DEF Event

LEMMA InitExchangeInv == InitExchange => ExchangeInv
<1> SUFFICES ASSUME InitExchange PROVE ExchangeInv
  OBVIOUS
<1>1. PICK kind \in Kinds :
        exchange = [pc |-> "send", kind |-> kind, status |-> "other", text |-> <<>>,
                    at |-> 1, data |-> <<>>, code |-> "ok"]
  BY DEF InitExchange
<1>2. exchange \in ExchangeType
  BY <1>1, EmptySeq DEF ExchangeType, Statuses, Codes
<1> QED
  BY <1>1, <1>2, EmptySeq DEF ExchangeInv, WholeEventOfSuccess, Reading

(* What every step that does not answer an MCP request has to show         *)
LEMMA NothingForMcp ==
    ASSUME exchange' \in ExchangeType, exchange'.at \in 1..(Len(exchange'.text) + 1),
           exchange'.pc # "lines",
           exchange'.pc \in {"send", "status"} => exchange'.at = 1 /\ exchange'.data = <<>>,
           exchange'.pc = "parse" => exchange'.kind # "mcp",
           exchange'.pc = "done" => exchange'.kind # "mcp" \/ exchange'.code # "ok"
    PROVE  ExchangeInv'
  BY DEF ExchangeInv, WholeEventOfSuccess, Reading

LEMMA MaxLinesIsNat == MaxLines \in Nat
  BY LinesAssumption, Zenon

(* A text of n lines, whatever they are                                    *)
LEMMA TextOfLines ==
    ASSUME NEW n \in Nat, NEW text \in [1..n -> Lines]
    PROVE  text \in Seq(Lines) /\ Len(text) = n
  OBVIOUS

LEMMA NextExchangeInv == ExchangeInv /\ [ExchangeNext]_exchange => ExchangeInv'
<1> SUFFICES ASSUME ExchangeInv, [ExchangeNext]_exchange PROVE ExchangeInv'
  OBVIOUS
<1>0. exchange \in ExchangeType /\ exchange.at \in 1..(Len(exchange.text) + 1)
  BY DEF ExchangeInv
<1>1. CASE Send
  <2>0. exchange.at = 1 /\ exchange.data = <<>>
    BY <1>1, Zenon DEF Send, Reading, ExchangeInv
  <2>1. ASSUME NEW status \in Statuses, NEW n \in 0..MaxLines, NEW text \in [1..n -> Lines],
               exchange' = [exchange EXCEPT !.pc = "status", !.status = status, !.text = text]
        PROVE  ExchangeInv'
    <3>1. text \in Seq(Lines) /\ Len(text) = n /\ n \in Nat
      <4>1. n \in Nat
        BY MaxLinesIsNat
      <4> HIDE DEF Lines
      <4> QED
        BY <4>1, TextOfLines
    <3>2. exchange' \in ExchangeType
      BY <1>0, <2>1, <3>1 DEF ExchangeType
    <3>3. /\ exchange'.pc = "status" /\ exchange'.at = exchange.at /\ exchange'.text = text
          /\ exchange'.data = exchange.data
      BY <1>0, <2>1 DEF ExchangeType
    <3>4. 1 \in 1..(Len(text) + 1)
      BY <3>1
    <3> QED
      BY <2>0, <3>2, <3>3, <3>4, NothingForMcp, Zenon
  <2>2. ASSUME Tell(IF exchange.kind = "popup" THEN "passed_on" ELSE "provider_unreachable")
        PROVE  ExchangeInv'
    BY <1>0, <2>2, NothingForMcp DEF Tell, ExchangeType, Codes
  <2> QED
    BY <1>1, <2>1, <2>2 DEF Send
<1>2. CASE NoAddress
  BY <1>0, <1>2, NothingForMcp DEF NoAddress, Tell, ExchangeType, Codes
<1>3. CASE AnswerPopup
  BY <1>0, <1>3, NothingForMcp DEF AnswerPopup, ExchangeType, Codes, Reading
<1>4. CASE JudgeStatus
  <2>0. exchange.at = 1 /\ exchange.data = <<>>
    BY <1>4, Zenon DEF JudgeStatus, Reading, ExchangeInv
  <2>1. CASE exchange.kind = "mcp" /\ exchange.status = "success"
    <3>1. exchange' = [exchange EXCEPT !.pc = "lines"]
      BY <1>4, <2>1 DEF JudgeStatus, Set
    <3>2. exchange' \in ExchangeType
      BY <1>0, <3>1 DEF ExchangeType
    <3>3. /\ exchange'.pc = "lines" /\ exchange'.at = exchange.at /\ exchange'.text = exchange.text
          /\ exchange'.kind = "mcp" /\ exchange'.status = "success" /\ exchange'.data = <<>>
          /\ exchange'.at = 1
      BY <1>0, <2>0, <2>1, <3>1 DEF ExchangeType
    <3>4. KeptSoFar(exchange')
      BY <3>2, <3>3, KeptNothing
    <3> QED
      BY <1>0, <3>2, <3>3, <3>4 DEF ExchangeInv, Reading, WholeEventOfSuccess
  <2>2. CASE ~(exchange.kind = "mcp" /\ exchange.status = "success")
    BY <1>0, <1>4, <2>2, NothingForMcp DEF JudgeStatus, Set, Tell, SafeCode, ExchangeType, Codes
  <2> QED
    BY <2>1, <2>2
<1>5. CASE ReadLine
  <2> DEFINE i == exchange.at
  <2>1. Reading("lines") /\ exchange.kind = "mcp" /\ exchange.status = "success" /\ KeptSoFar(exchange)
    BY <1>5, LineCases DEF ExchangeInv
  <2>2. CASE i > Len(exchange.text) \/ (IsEmpty(exchange.text[i]) /\ exchange.data # <<>>)
    <3>1. exchange' = [exchange EXCEPT !.pc = "parse"]
      BY <1>5, <2>2, LineCases DEF Set
    <3>2. Event(exchange.data, exchange.text)
      BY <1>0, <2>1, <2>2, KeptIsEvent
    <3>3. exchange' \in ExchangeType
      BY <1>0, <3>1 DEF ExchangeType
    <3>4. /\ exchange'.pc = "parse" /\ exchange'.at = exchange.at /\ exchange'.text = exchange.text
          /\ exchange'.status = "success" /\ exchange'.data = exchange.data
      BY <1>0, <2>1, <3>1 DEF ExchangeType
    <3> QED
      BY <1>0, <3>2, <3>3, <3>4 DEF ExchangeInv, Reading, WholeEventOfSuccess
  <2>3. CASE ~(i > Len(exchange.text) \/ (IsEmpty(exchange.text[i]) /\ exchange.data # <<>>))
    <3>1. exchange' = [exchange EXCEPT !.at = @ + 1,
              !.data = IF exchange.text[i] \in Payloads THEN Append(@, exchange.text[i]) ELSE @]
      BY <1>5, <2>3, LineCases
    <3>2. i \in 1..Len(exchange.text) /\ exchange.text \in Seq(Lines) /\ exchange.data \in Seq(Lines)
      BY <1>0, <2>3 DEF ExchangeType
    <3>3. exchange.text[i] \in Lines
      BY <3>2, ElementOfSeq
    <3>4. exchange' \in ExchangeType
      <4>1. /\ (IF exchange.text[i] \in Payloads THEN Append(exchange.data, exchange.text[i])
               ELSE exchange.data) \in Seq(Lines)
            /\ i + 1 \in Nat
        BY <3>2, <3>3, AppendProperties
      <4> QED
        BY <1>0, <3>1, <4>1 DEF ExchangeType
    <3>5. /\ exchange'.pc = "lines" /\ exchange'.at = i + 1 /\ exchange'.text = exchange.text
          /\ exchange'.kind = "mcp" /\ exchange'.status = "success"
          /\ exchange'.data = IF exchange.text[i] \in Payloads
                              THEN Append(exchange.data, exchange.text[i]) ELSE exchange.data
      BY <1>0, <2>1, <3>1 DEF ExchangeType, Reading
    <3>6. KeptSoFar(exchange')
      BY <1>0, <2>1, <2>3, <3>2, <3>4, <3>5, KeepsOneMore
    <3>7. exchange'.at \in 1..(Len(exchange'.text) + 1)
      BY <3>2, <3>5
    <3> QED
      BY <3>4, <3>5, <3>6, <3>7 DEF ExchangeInv, Reading, WholeEventOfSuccess
  <2> QED
    BY <2>2, <2>3
<1>6. CASE Parse
  <2>1. ASSUME exchange' = [exchange EXCEPT !.pc = "done", !.code = "ok",
                    !.data = IF exchange.data = <<>> THEN exchange.text ELSE exchange.data]
        PROVE  ExchangeInv'
    <3>1. exchange' \in ExchangeType
      BY <1>0, <2>1 DEF ExchangeType, Codes
    <3>2. /\ exchange'.pc = "done" /\ exchange'.at = exchange.at /\ exchange'.text = exchange.text
          /\ exchange'.status = exchange.status /\ exchange'.kind = exchange.kind
          /\ exchange'.data = IF exchange.data = <<>> THEN exchange.text ELSE exchange.data
      BY <1>0, <2>1 DEF ExchangeType
    <3>3. exchange.kind = "mcp" =>
            /\ exchange.status = "success" /\ Event(exchange.data, exchange.text)
            /\ exchange.data = <<>> <=> EventLines(exchange.text) = {}
      BY <1>0, <1>6, EventIsEmpty DEF Parse, ExchangeInv
    <3>4. WholeEventOfSuccess'
      BY <3>2, <3>3 DEF WholeEventOfSuccess
    <3> QED
      BY <1>0, <3>1, <3>2, <3>4 DEF ExchangeInv, Reading
  <2>2. ASSUME Tell("provider_unreachable") PROVE ExchangeInv'
    BY <1>0, <2>2, NothingForMcp DEF Tell, ExchangeType, Codes
  <2> QED
    BY <1>6, <2>1, <2>2 DEF Parse
<1>7. CASE Again
  <2>1. exchange' = [exchange EXCEPT !.pc = "send", !.status = "other", !.text = <<>>,
                                     !.at = 1, !.data = <<>>, !.code = "ok"]
    BY <1>7 DEF Again
  <2>2. <<>> \in Seq(Lines) /\ Len(<<>>) = 0
    BY EmptySeq
  <2>3. exchange' \in ExchangeType
    BY <1>0, <2>1, <2>2 DEF ExchangeType, Statuses, Codes
  <2>4. exchange'.pc = "send" /\ exchange'.at = 1 /\ exchange'.text = <<>> /\ exchange'.data = <<>>
    BY <1>0, <2>1 DEF ExchangeType
  <2>5. 1 \in 1..(Len(exchange'.text) + 1)
    BY <2>2, <2>4
  <2> QED
    BY <2>3, <2>4, <2>5, NothingForMcp, Zenon
<1>8. CASE UNCHANGED exchange
  BY <1>8 DEF ExchangeInv, WholeEventOfSuccess, Reading
<1> QED
  BY <1>1, <1>2, <1>3, <1>4, <1>5, <1>6, <1>7, <1>8 DEF ExchangeNext

(* A call is somewhere in a body of its own, whatever came back, and has   *)
(* read no further than its end (openconnector.rs, route.rs).              *)
THEOREM ExchangeTypes == ExchangeSpec => []ExchangeTypeOK
<1>1. ExchangeInv => ExchangeTypeOK
  BY DEF ExchangeInv, ExchangeType, ExchangeTypeOK
<1> QED
  BY InitExchangeInv, NextExchangeInv, <1>1, PTL DEF ExchangeSpec

(* A container gets the whole first event of a success, or its body if it  *)
(* has none, and never the body of an error (openconnector.rs:436-457,     *)
(* 486-512): for bodies of any length.                                     *)
THEOREM EventsAlwaysWhole == ExchangeSpec => []WholeEventOfSuccess
<1>1. ExchangeInv => WholeEventOfSuccess
  BY DEF ExchangeInv
<1> QED
  BY InitExchangeInv, NextExchangeInv, <1>1, PTL DEF ExchangeSpec

------------------------------------------------------------------------------
(* The union: what stands still keeps its invariant. *)
UnionInv == IInv /\ WatchInv /\ RelayInv /\ CatalogInv /\ ExchangeInv /\ BootInv

LEMMA InitUnionInv == SumInit => UnionInv
<1>1. SumInit => Init /\ InitWatch /\ InitRelay /\ InitCatalog /\ InitExchange /\ InitBoot
  BY DEF SumInit
<1> QED
  BY <1>1, InitIInv, InitWatchInv, NewRelay, InitCatalogInv, InitExchangeInv, InitBootInv
  DEF UnionInv

LEMMA NextUnionInv == UnionInv /\ [SumNext]_allVars => UnionInv'
<1> SUFFICES ASSUME UnionInv, [SumNext]_allVars PROVE UnionInv'
  OBVIOUS
<1>1. /\ [Next]_vars /\ [WatchNext]_dwVars /\ [RelayNext]_drVars
      /\ [CatalogNext]_catVars /\ [ExchangeNext]_exchange /\ [BootNext]_suVars
  BY DEF SumNext, allVars, small, Browsers, Watch, Relay, Rest
<1> QED
  BY <1>1, StepIInv, NextWatchInv, NextRelayInv, NextCatalogInv, NextExchangeInv, NextBootInv
  DEF UnionInv

(* TypesOK: the types of the six, over their union, which the background    *)
(* run checks.                                                              *)
THEOREM UnionTypes == FairSum => []TypesOK
<1>1. UnionInv => TypeOK /\ WatchTypeOK /\ CatalogTypeOK
  BY DEF UnionInv, IInv, WatchInv, CatalogInv
<1>2. UnionInv => RelayTypeOK
  BY RelayInvTypes DEF UnionInv
<1>3. UnionInv => ExchangeTypeOK
  BY DEF UnionInv, ExchangeInv, ExchangeType, ExchangeTypeOK
<1>4. UnionInv => BootTypeOK
  BY BootInvListens DEF UnionInv
<1>5. SumInit /\ [][SumNext]_allVars => []UnionInv
  BY InitUnionInv, NextUnionInv, PTL
<1>6. FairSum => SumInit /\ [][SumNext]_allVars
  BY PTL DEF FairSum
<1> QED
  BY <1>1, <1>2, <1>3, <1>4, <1>5, <1>6, PTL DEF TypesOK
==============================================================================
