------------------------------ MODULE CatalogCache ------------------------------
(***************************************************************************)
(* The cache of OpenConnector's catalog, and the route that searches and   *)
(* pages what it holds (integrations/catalog.rs).                          *)
(*                                                                         *)
(* Abstractions.  A catalog is the hour it was fetched in.  What a search  *)
(* and a page leave of it changes nothing and is left out.                 *)
(***************************************************************************)
EXTENDS Naturals

CONSTANTS
    Queries,        \* requests of the catalog at a time
    TTL,            \* CATALOG_CACHE_TTL
    MaxHours,       \* bounds the clock
    EMPTY           \* of the cache, and of the lock

ASSUME CatalogAssumption == TTL \in Nat /\ MaxHours \in Nat
ASSUME EmptyAssumption == EMPTY \notin Queries \union Nat

VARIABLES
    hour,           \* the clock
    cached,         \* CatalogCache: when what it holds was fetched
    writer,         \* the query that holds the write lock
    asked           \* the queries

catVars == <<hour, cached, writer, asked>>

QueryPc == {"idle", "read", "queue", "recheck", "fetch", "fresh", "stale", "error"}

InitCatalog ==
    /\ hour = 0 /\ cached = EMPTY /\ writer = EMPTY
    /\ asked = [q \in Queries |-> "idle"]

------------------------------------------------------------------------------
Is(q, pc) == asked[q] = pc
To(q, pc) == asked' = [asked EXCEPT ![q] = pc]
IsFresh == IF cached = EMPTY THEN FALSE ELSE hour - cached < TTL

(* catalog_route; a negative offset or limit is refused before.            *)
Ask(q) == Is(q, "idle") /\ To(q, "read") /\ UNCHANGED <<hour, cached, writer>>

(* get_or_refresh: the cheap look, under the read lock                     *)
Read(q) ==
    /\ Is(q, "read") /\ writer = EMPTY
    /\ To(q, IF IsFresh THEN "fresh" ELSE "queue")
    /\ UNCHANGED <<hour, cached, writer>>

Lock(q) ==
    /\ Is(q, "queue") /\ writer = EMPTY
    /\ writer' = q /\ To(q, "recheck")
    /\ UNCHANGED <<hour, cached>>

(* Straight to the fetch *)
RecheckNothing(q) ==
    /\ Is(q, "recheck") /\ To(q, "fetch")
    /\ UNCHANGED <<hour, cached, writer>>

(* The second look, under the write lock                                   *)
Recheck(q) ==
    /\ Is(q, "recheck")
    /\ IF IsFresh THEN To(q, "fresh") /\ writer' = EMPTY ELSE To(q, "fetch") /\ UNCHANGED writer
    /\ UNCHANGED <<hour, cached>>

(* A failed fetch empties the cache. *)
FetchOrForget(q) ==
    /\ Is(q, "fetch")
    /\ \/ cached' = hour /\ To(q, "fresh")
       \/ cached' = EMPTY /\ To(q, "error")
    /\ writer' = EMPTY
    /\ UNCHANGED hour

(* list_providers_catalog, under the lock: what it fetched is kept; if it  *)
(* failed, what was kept is served, however old.                           *)
Fetch(q) ==
    /\ Is(q, "fetch")
    /\ \/ cached' = hour /\ To(q, "fresh")
       \/ UNCHANGED cached /\ To(q, IF cached = EMPTY THEN "error" ELSE "stale")
    /\ writer' = EMPTY
    /\ UNCHANGED hour

(* The answer, or the browser goes away, at any point: what the query held *)
(* is released.                                                            *)
Leaves(q) ==
    /\ ~Is(q, "idle") /\ To(q, "idle")
    /\ writer' = IF writer = q THEN EMPTY ELSE writer
    /\ UNCHANGED <<hour, cached>>

Hour == hour < MaxHours /\ hour' = hour + 1 /\ UNCHANGED <<cached, writer, asked>>

(* The gateway restarts, with an empty cache.                              *)
RestartCatalog ==
    /\ cached' = EMPTY /\ writer' = EMPTY
    /\ asked' = [q \in Queries |-> "idle"]
    /\ UNCHANGED hour

CatalogNext ==
    \/ \E q \in Queries :
          Ask(q) \/ Read(q) \/ Lock(q) \/ Recheck(q) \/ Fetch(q) \/ Leaves(q)
    \/ Hour
    \/ RestartCatalog

CatalogSpec == InitCatalog /\ [][CatalogNext]_catVars

------------------------------------------------------------------------------
(* Properties *)

CatalogTypeOK ==
    /\ hour \in 0..MaxHours /\ cached \in (0..MaxHours) \union {EMPTY}
    /\ writer \in Queries \union {EMPTY}
    /\ asked \in [Queries -> QueryPc]

(* However many queries find the catalog stale at once, what one of them   *)
(* fetched is used by all that waited for it: it is replaced a TTL later   *)
(* at the earliest, by a query that held the lock meanwhile, and never     *)
(* dropped by a fetch that fails; and no browser is told that there is no  *)
(* catalog once one was fetched, however old it is (catalog.rs:84-116).    *)
FetchesSpaced ==
    [][/\ cached # EMPTY /\ cached' # cached /\ ~RestartCatalog =>
            cached' \in Nat /\ cached' - cached >= TTL
       /\ \A q \in Queries : ~Is(q, "error") /\ asked'[q] = "error" => cached = EMPTY]_catVars
==============================================================================
