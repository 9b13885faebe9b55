---------------------------- MODULE SearchCache ----------------------------
(***************************************************************************)
(* search-service (main.py, search_service.py, es_client.py): the index of   *)
(* products in Elasticsearch and the answers cached in Redis.               *)
(*                                                                          *)
(* A search that is not in the cache asks Elasticsearch and stores the       *)
(* answer. A write through the API deletes the cached searches when          *)
(* Elasticsearch has confirmed it; one that comes as an event does not. No   *)
(* write waits until queries see it (refresh="false"): that is up to the     *)
(* refresh interval of the index.                                           *)
(***************************************************************************)
EXTENDS DbSessions

CONSTANTS
    SearchProducts,     \* product ids
    Texts               \* what the document of a product may say

VARIABLES
    doc,            \* the index as written
    shown,          \* the index as queries see it
    cache,          \* Redis: the keys "search:..." and "ac:..." of one request each
    searchReq,      \* the state of each request
    behind          \* history: shown has changed, and no write is about to clear the cache

searchVars == <<doc, shown, cache, searchReq, behind>>

Doc == [text: Texts, active: BOOLEAN]
Index == [SearchProducts -> Doc \cup {None}]
Keys == {"search", "ac"}

\* raced is history: shown changed while the answer was on its way to the cache.
Result == [found: SUBSET (SearchProducts \X Texts), fallback: BOOLEAN]
Entry == [result: Result, raced: BOOLEAN]

SearchTypeOK ==
    /\ doc \in Index /\ shown \in Index
    /\ cache \in [Keys -> Entry \cup {None}]
    /\ searchReq \in [Sessions -> {Idle} \cup [pc: {"query"}, key: Keys]
                                  \cup [pc: {"store"}, key: Keys, result: Result]
                                  \cup [pc: {"invalidate"}]]
    /\ behind \in BOOLEAN

SearchInit ==
    /\ doc = [p \in SearchProducts |-> None]
    /\ shown = doc
    /\ cache = [k \in Keys |-> None]
    /\ searchReq = [s \in Sessions |-> Idle]
    /\ behind = FALSE

\* The filters of search_products are on is_active and status; suggest has none.
Hits(key) ==
    [found |-> {<<p, shown[p].text>> : p \in {q \in SearchProducts :
                   shown[q] # None /\ (key = "search" => shown[q].active)}},
     fallback |-> FALSE]

NoHits == [found |-> {}, fallback |-> TRUE]

Become(s, req) == searchReq' = [searchReq EXCEPT ![s] = req]

-----------------------------------------------------------------------------
(* POST /search and GET /search/autocomplete *)

\* The answer is not in the cache.
MissCache(s, key) ==
    /\ searchReq[s] = Idle /\ cache[key] = None
    /\ Become(s, [pc |-> "query", key |-> key])
    /\ UNCHANGED <<doc, shown, cache, behind>>

QueryIndex(s) ==
    LET q == searchReq[s]
    IN  /\ q.pc = "query"
        /\ Become(s, [pc |-> "store", key |-> q.key, result |-> Hits(q.key)])
        /\ UNCHANGED <<doc, shown, cache, behind>>

\* Mutant: the answer of an outage is cached like any other.
BugQueryFails(s) ==
    LET q == searchReq[s]
    IN  /\ q.pc = "query"
        /\ Become(s, [pc |-> "store", key |-> q.key, result |-> NoHits])
        /\ UNCHANGED <<doc, shown, cache, behind>>

\* Elasticsearch fails: a search is answered with the fallback, which is not cached;
\* suggest returns an empty list, and that is.
QueryFails(s) ==
    LET q == searchReq[s]
    IN  /\ q.pc = "query"
        /\ Become(s, IF q.key = "search" THEN Idle
                     ELSE [pc |-> "store", key |-> q.key, result |-> NoHits])
        /\ UNCHANGED <<doc, shown, cache, behind>>

\* setex, whatever was deleted or stored since the request looked.
StoreAnswer(s) ==
    LET q == searchReq[s]
    IN  /\ q.pc = "store"
        /\ cache' = [cache EXCEPT ![q.key] =
                       [result |-> q.result, raced |-> q.result # Hits(q.key)]]
        /\ Become(s, Idle)
        /\ UNCHANGED <<doc, shown, behind>>

\* SEARCH_CACHE_TTL, AUTOCOMPLETE_CACHE_TTL
ExpireEntry(key) ==
    /\ cache' = [cache EXCEPT ![key] = None]
    /\ UNCHANGED <<doc, shown, searchReq, behind>>

-----------------------------------------------------------------------------
(* Writes *)

\* Elasticsearch has done it, and the service has heard of it or not.
WriteIndex(s, index) ==
    /\ searchReq[s] = Idle
    /\ doc' = index
    /\ \/ Become(s, [pc |-> "invalidate"])
       \/ UNCHANGED searchReq
    /\ UNCHANGED <<shown, cache, behind>>

IndexProduct(s, p, d) == WriteIndex(s, [doc EXCEPT ![p] = d])

\* Some of the documents may fail; one success is enough to clear the cache.
BulkIndex(s, P, d) ==
    WriteIndex(s, [p \in SearchProducts |-> IF p \in P THEN d ELSE doc[p]])

\* A document that is not there (404) counts as deleted.
DeleteProduct(s, p) == WriteIndex(s, [doc EXCEPT ![p] = None])

\* Mutant: the suggestions are cleared instead of the searches.
BugInvalidate(s) ==
    /\ searchReq[s].pc = "invalidate"
    /\ cache' = [cache EXCEPT !["ac"] = None]
    /\ behind' = FALSE
    /\ Become(s, Idle)
    /\ UNCHANGED <<doc, shown>>

\* _invalidate_search_cache: suggestions are kept.
Invalidate(s) ==
    /\ searchReq[s].pc = "invalidate"
    /\ cache' = [cache EXCEPT !["search"] = None]
    /\ behind' = FALSE
    /\ Become(s, Idle)
    /\ UNCHANGED <<doc, shown>>

\* Redis fails, or the process dies.
InvalidateFails(s) ==
    /\ searchReq[s].pc = "invalidate"
    /\ behind' = TRUE
    /\ Become(s, Idle)
    /\ UNCHANGED <<doc, shown, cache>>

\* _consume_product_events: product.create and product.update carry the document,
\* product.delete the id. What Elasticsearch refuses is logged and forgotten.
ConsumeEvent(p, d) ==
    /\ doc' = [doc EXCEPT ![p] = d]
    /\ UNCHANGED <<shown, cache, searchReq, behind>>

Clearing == \E s \in Sessions : searchReq[s].pc = "invalidate"

\* refresh_interval
RefreshIndex ==
    /\ shown # doc
    /\ shown' = doc
    /\ behind' = (behind \/ ~Clearing)
    /\ UNCHANGED <<doc, cache, searchReq>>

SearchNext ==
    \/ RefreshIndex
    \/ \E key \in Keys : ExpireEntry(key)
    \/ \E p \in SearchProducts : \E d \in Doc \cup {None} : ConsumeEvent(p, d)
    \/ \E s \in Sessions :
         \/ \E key \in Keys : MissCache(s, key)
         \/ QueryIndex(s) \/ QueryFails(s) \/ StoreAnswer(s) \/ Invalidate(s) \/ InvalidateFails(s)
         \/ \E p \in SearchProducts : DeleteProduct(s, p) \/ \E d \in Doc : IndexProduct(s, p, d)
         \/ \E P \in (SUBSET SearchProducts) \ {{}}, d \in Doc : BulkIndex(s, P, d)

SearchSpec == SearchInit /\ [][SearchNext]_searchVars

-----------------------------------------------------------------------------
(* Properties *)

\* A cached search is the answer Elasticsearch would give now, unless queries came to see
\* a write only when its cache clearing was over (or there was none), or the answer was
\* under way when they did.
CachedIsCurrent ==
    ~behind /\ ~Clearing /\ cache["search"] # None /\ ~cache["search"].raced =>
        cache["search"].result = Hits("search")

\* An outage of Elasticsearch ends with the outage: no search is answered with the
\* fallback from the cache.
OutageIsNotCached == cache["search"] # None => ~cache["search"].result.fallback

\* What the cache of searches may hold.
SearchSafety ==
    /\ SearchTypeOK
    /\ CachedIsCurrent
    /\ OutageIsNotCached
=============================================================================
