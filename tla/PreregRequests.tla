---------------------------- MODULE PreregRequests ----------------------------
(***************************************************************************)
(* A worker that answers requests for preregistered queries while it keeps *)
(* its set of known ids in step with the database (module Prereg): the     *)
(* cache of query texts, filled once at start-up, and onParams, which      *)
(* checks the known ids, then waits for the cache, and then for the        *)
(* database.                                                               *)
(*                                                                         *)
(* The text of an id never changes, so a cached id stands for its text.    *)
(***************************************************************************)
EXTENDS Prereg, Sequences, FiniteSets, MemoryStore

CONSTANTS
    Requests,
    MaxCacheSize,    \* maxCacheSize
    None

ASSUME CacheAssumption == MaxCacheSize \in Nat \ {0} /\ None \notin Id /\ IsFiniteSet(Id)

VARIABLES
    preload,      \* the rows preloadCache's SELECT found, or None
    cache,
    req,          \* what onParams of each request is at
    unheeded      \* history: when id was committed or removed last, or Heeded if a
                  \* load that had to notice it has been answered since

serving == <<preload, cache, req>>
allVars == <<vars, serving, unheeded>>

Heeded == 0

Idle == [at |-> "idle", id |-> None, due |-> "either"]

ServeInit ==
    /\ Init
    /\ preload = None
    /\ cache = <<>>
    /\ req = [r \in Requests |-> Idle]
    /\ unheeded = [id \in Id |-> now]

-----------------------------------------------------------------------------
(* The known ids and the database, as in Prereg.                           *)

Keep == UNCHANGED <<serving, unheeded>>

Changes(id) ==
    /\ Publish(id) \/ Remove(id)
    /\ unheeded' = [unheeded EXCEPT ![id] = now]
    /\ UNCHANGED serving

\* A load notices what was committed more than the time of a query before it was
\* sent, and a full refresh what was removed.
Notices(q, id) ==
    /\ q.started > unheeded[id] + MaxDelay
    /\ id \in Published \/ q.refresh

Loaded(q) ==
    /\ Populate(q)
    /\ unheeded' = [id \in Id |-> IF Notices(q, id) THEN Heeded ELSE unheeded[id]]
    /\ UNCHANGED serving

-----------------------------------------------------------------------------
(* preloadCache: the rows of the latest update, as many as the cache holds. *)

Latest == {id \in Published : \A x \in Published : updated[x] <= updated[id]}

Preload ==
    /\ phase = "preloading"
    /\ preload = None
    /\ \E S \in SUBSET Latest :
          /\ S = Latest \/ Cardinality(S) = MaxCacheSize
          /\ Cardinality(S) <= MaxCacheSize
          /\ preload' = S
    /\ UNCHANGED <<vars, cache, req, unheeded>>

\* What mset makes of a cache that requests may have filled before: the rows in some
\* order, then what was in it, as many as fit.
WithAll(S) ==
    LET entries == {[key |-> id, val |-> id] : id \in S \cup Keys(cache)}
        age(e) == IF e.key \in S THEN 0 ELSE PositionOf(cache, e.key)
    IN {c \in Filled(entries, MaxCacheSize) :
           /\ \A i, j \in DOMAIN c : i < j => age(c[i]) <= age(c[j])
           /\ \A e \in entries : Has(c, e.key) \/ \A i \in DOMAIN c : age(c[i]) <= age(e)}

\* The rows arrive, or the query fails, and the timer is started.
StartTimer ==
    /\ FinishInit
    /\ \/ preload # None /\ cache' \in WithAll(preload)
       \/ UNCHANGED cache
    /\ preload' = None
    /\ UNCHANGED <<req, unheeded>>

-----------------------------------------------------------------------------
(* onParams.                                                               *)

Goes(r, at) ==
    /\ req' = [req EXCEPT ![r].at = at]
    /\ UNCHANGED <<vars, preload, unheeded>>

\* Every id is let through while none is known.
Accepts(id) == id \in knownQueries \/ knownQueries = {}

\* History: what a worker that keeps up with the database does with the id.
Due(id) ==
    IF unheeded[id] # Heeded THEN "either"
    ELSE IF id \in Published THEN "known"
    ELSE IF knownQueries # {} THEN "unknown" ELSE "either"

\* The ids are checked when the request comes in, and not again.
Check(r) ==
    /\ req[r].at = "idle"
    /\ \E id \in Id :
          req' = [req EXCEPT ![r] =
              [at |-> IF Accepts(id) THEN "cache" ELSE "404", id |-> id, due |-> Due(id)]]
    /\ UNCHANGED <<vars, preload, cache, unheeded>>

CacheGet(r) ==
    /\ req[r].at = "cache"
    /\ Goes(r, IF Has(cache, req[r].id) THEN "resolved" ELSE "lookup")
    /\ cache' = Touch(cache, req[r].id, MaxCacheSize)

\* lookupQuery: the row is found or not, or the query fails; all but the first
\* look the same to the caller.
LookupQuery(r) ==
    /\ req[r].at = "lookup"
    /\ \/ req[r].id \in Published /\ Goes(r, "found")
       \/ Goes(r, "503")
    /\ UNCHANGED cache

CacheSet(r) ==
    /\ req[r].at = "found"
    /\ Goes(r, "resolved")
    /\ cache' = Put(cache, req[r].id, req[r].id, MaxCacheSize)

OnParams(r) == Check(r) \/ CacheGet(r) \/ LookupQuery(r) \/ CacheSet(r)

ServeNext ==
    \/ \E id \in Id : Changes(id)
    \/ \E q \in queries : Loaded(q) \/ ((Select(q) \/ PopulateFails(q)) /\ Keep)
    \/ Preload
    \/ StartTimer
    \/ Tick /\ Keep
    \/ \E r \in Requests : OnParams(r)

ServeSpec == ServeInit /\ [][ServeNext]_allVars

-----------------------------------------------------------------------------
(* Properties.                                                             *)

\* A query that was removed is refused, whatever overlapping loads and late answers
\* did and whatever the cache holds, by every request that comes in after a full
\* refresh was answered that began more than the time of a query after the removal,
\* as long as any id at all is known.
RemovedIsRefused ==
    \A r \in Requests : req[r].due = "unknown" => req[r].at = "404"

\* A published query is not refused as unknown by a request that comes in after any
\* load was answered that began more than the time of a query after it was
\* committed, no matter which refreshes were answered late.
PublishedIsKnown ==
    \A r \in Requests : req[r].due = "known" => req[r].at # "404"

\* Types; the cache never outgrows its size, nor holds an id twice.
ServeTypeOK ==
    /\ TypeOK
    /\ preload \in {None} \cup SUBSET Id
    /\ Len(cache) <= MaxCacheSize /\ Keys(cache) \subseteq Id
    /\ \A i, j \in DOMAIN cache : cache[i].key = cache[j].key => i = j
    /\ \A r \in Requests :
          /\ req[r].at \in {"idle", "cache", "lookup", "found", "resolved", "404", "503"}
          /\ req[r].at = "idle" \/ req[r].id \in Id
    /\ unheeded \in [Id -> 0 .. now]
===============================================================================
