---------------------------- MODULE QueryPipeline ----------------------------
(***************************************************************************)
(* The operations of one worker, from its requests to its answers         *)
(* (server/useSvco, useSchema, apq, packages/security, caching).           *)
(*                                                                         *)
(* A worker loads the preregistered and the persisted queries and warms    *)
(* its caches with them before it serves.  A request with service          *)
(* overrides that belong to another worker is forwarded; one with its own   *)
(* awaits the schema they make.  Its params then pass the security, the     *)
(* persisted query and the preregistered query plugins, each of which may   *)
(* replace the query or refuse the request; the query is parsed, validated  *)
(* and executed through three caches.  Requests interleave at every await.  *)
(*                                                                         *)
(* Documents and schemas are objects: parsing a text or building a schema   *)
(* again makes another one.  Validation results and compiled code belong to *)
(* a schema and a document.                                                *)
(***************************************************************************)
EXTENDS MemoryStore

CONSTANTS
    Requests, Texts, Ids, None,
    Code,            \* the text registered under each id
    Unparsable, Uncompilable,  \* sets of texts
    Invalid,         \* texts that are not valid in the default schema; all are in others
    Shared,          \* texts with two operations, "op1" and "op2"
    Kinds,           \* the params a client may send
    Jit,             \* ENABLE_FEATURES.graphqlJIT
    RunUntrusted,    \* SECURITY.runUntrustedOperations
    MaxDocuments,    \* size of each document store
    MaxPersisted,    \* size of the memory store of persisted queries
    NonstitchedRoles,  \* roles known not to be part of the schema
    Overrides,       \* service overrides, as sets of roles, that this worker serves
    MaxBuilds        \* bound on the schemas built for one of Overrides

Operations == {"op1", "op2"}
OperationsOf(text) == IF text \in Shared THEN Operations ELSE {"op1"}

ASSUME PipelineAssumption ==
    /\ Code \in [Ids -> Texts]
    /\ Unparsable \cup Invalid \cup Uncompilable \cup Shared \subseteq Texts
    /\ None \notin Texts \cup Ids \cup Operations /\ "prewarm" \notin Requests
    /\ IsFiniteSet(Ids) /\ IsFiniteSet(Texts)
    /\ \A k \in Kinds :
          k \in [id : Ids \cup {None}, hash : Texts \cup {None}, query : Texts \cup {None, k.id},
                trusted : BOOLEAN, op : Operations, svco : {k.svco}]
    /\ \A o \in Overrides : ~(o \subseteq NonstitchedRoles)
    /\ {Jit, RunUntrusted} \subseteq BOOLEAN
    /\ {MaxDocuments, MaxPersisted} \subseteq Nat \ {0} /\ MaxBuilds \in Nat

Stores == {"preregistered", "persisted", "default"}

VARIABLES
    serving,    \* whether the worker has finished its start-up
    warmed,     \* ids loaded by loadCurrentQueries
    redisUp, redis,  \* whether redis can be reached, the persisted queries it holds
    persisted,  \* memory store of persisted queries
    documents,  \* the three document stores
    schemas,    \* the store of schemas made by overrides
    building,   \* the overrides a schema is being built for
    built,      \* history: how many schemas were built for each of them
    validated,  \* cached validation results: whether valid, by schema and document
    jit,        \* compiled code, or Compiling or Failed, by schema and document
    timers,     \* compilations scheduled by lazyCompile
    req

startup == <<serving, warmed>>
queries == <<redisUp, redis, persisted>>
overrides == <<schemas, building, built>>
caches == <<documents, validated, jit, timers>>
vars == <<startup, queries, overrides, caches, req>>

\* Hashes stand for the text they are the hash of.
\* A schema is known by the overrides it is made of and its number.
Default == [of |-> {}, n |-> 0]
Schema == {Default} \cup [of : Overrides, n : 1 .. MaxBuilds]
Absent == [schema |-> Default, state |-> "absent"]

Doc == [text : Texts, store : Stores, by : Requests \cup {"prewarm"}]

-----------------------------------------------------------------------------
(***************************************************************************)
(* Validation and compilation, cached in BiWeakMaps.                       *)
(***************************************************************************)
KeyOfDocument(schema, doc) == <<Default, doc>>

Key(schema, doc) == <<schema, doc>>

BiWeakMapSet(map, key, val) ==
    [k \in {key} \cup DOMAIN map |-> IF k = key THEN val ELSE map[k]]

Valid(schema, doc) == schema # Default \/ doc.text \notin Invalid

\* The operation name is not in the key.  Without a name a document of two
\* operations does not compile, and with the name of an operation it has not no
\* document does; what graphql-jit returns instead of compiled code is cached all the
\* same.
Compiling == [kind |-> "compiling", schema |-> Default, op |-> None]
Announced == [kind |-> "announced", schema |-> Default, op |-> None]
Failed == [kind |-> "error", schema |-> Default, op |-> None]
NoCode == [kind |-> "none", schema |-> Default, op |-> None]

Names(op, text) == IF op = None THEN text \notin Shared ELSE op \in OperationsOf(text)

Compiled(schema, doc, op) ==
    IF doc.text \in Uncompilable \/ ~Names(op, doc.text) THEN Failed
    ELSE [kind |-> "code", schema |-> schema, op |-> IF op = None THEN "op1" ELSE op]

-----------------------------------------------------------------------------
(***************************************************************************)
(* Start-up: makePlugins.                                                  *)
(***************************************************************************)
Idle == [phase |-> "idle", params |-> None, query |-> None, schema |-> Default,
         doc |-> None, run |-> NoCode, parsed |-> FALSE, answer |-> None]

Init ==
    /\ serving = FALSE /\ warmed = {}
    /\ redisUp \in BOOLEAN /\ redis \in SUBSET ({k.hash : k \in Kinds} \ {None})
    /\ persisted = <<>>
    /\ documents = [s \in Stores |-> <<>>]
    /\ schemas = [o \in Overrides |-> Absent] /\ building = {}
    /\ built = [o \in Overrides |-> 0]
    /\ validated = <<>> /\ jit = <<>> /\ timers = {}
    /\ req = [r \in Requests |-> Idle]

\* Every loaded query is parsed; a parse error takes its document's place.
PrewarmDocuments(preregistered, loaded) ==
    LET entry(key, t, s) ==
            [key |-> key, val |-> [text |-> t, store |-> s, by |-> "prewarm"]]
    IN \E p \in Filled({entry(i, Code[i], "preregistered") : i \in preregistered}, MaxDocuments),
          q \in Filled({entry(t, t, "persisted") : t \in loaded}, MaxDocuments) :
          documents' = [documents EXCEPT !["preregistered"] = p, !["persisted"] = q]

ParsedOf(preregistered, loaded) ==
    {d \in [text : {Code[i] : i \in preregistered}, store : {"preregistered"}, by : {"prewarm"}]
           \cup [text : loaded, store : {"persisted"}, by : {"prewarm"}] :
        d.text \notin Unparsable}

PrewarmValidationSkipped(docs) == UNCHANGED validated

PrewarmValidation(docs) ==
    validated' = [k \in {Key(Default, d) : d \in docs} |-> Valid(Default, k[2])]

PrewarmJit(docs) ==
    jit' = IF Jit THEN [k \in {Key(Default, d) : d \in docs} |-> Compiled(Default, k[2], None)]
           ELSE jit

\* useUnifiedCaching: the documents are validated and compiled, even those the
\* store has no room for.
Prewarm(preregistered, loaded) ==
    /\ PrewarmDocuments(preregistered, loaded)
    /\ PrewarmValidation(ParsedOf(preregistered, loaded))
    /\ PrewarmJit(ParsedOf(preregistered, loaded))

\* What an operation on redis results in: one that fails is as one that found, or
\* did, nothing (instrumentedStore, emptyOnError).
HandleOperation(result, nothing) == IF redisUp THEN result ELSE nothing
RedisGet(key) == HandleOperation(key \in redis, FALSE)
RedisSet(key) == redis' = HandleOperation(redis \cup {key}, redis)

\* A scan may fail half-way; what was read by then is used.
NodePersistedQueries == SUBSET redis
Ready == redisUp
LoadPersistedQueries == IF Ready THEN NodePersistedQueries ELSE {{}}

\* The queries updated last.
LoadCurrentQueries == SUBSET Ids

\* makePlugins asks the database and redis at the same time.
MakePlugins ==
    \E preregistered \in LoadCurrentQueries, loaded \in LoadPersistedQueries :
        /\ warmed' = preregistered
        /\ Prewarm(preregistered, loaded)

\* createYogaMiddleware (its own first request is left out).
Start ==
    /\ ~serving
    /\ MakePlugins
    /\ serving' = TRUE
    /\ UNCHANGED <<queries, overrides, timers, req>>

\* Redis is lost and comes back; an entry reaches its ttl, in redis or in memory.
RedisChanges ==
    /\ \/ redisUp' = ~redisUp /\ UNCHANGED redis
       \/ \E t \in redis : redis' = redis \ {t} /\ UNCHANGED redisUp
    /\ UNCHANGED <<startup, persisted, overrides, caches, req>>

ExpirePersisted ==
    /\ \E t \in Texts :
          Has(persisted, t) /\ persisted' = Without(persisted, t)
    /\ UNCHANGED <<startup, redisUp, redis, overrides, caches, req>>

-----------------------------------------------------------------------------
(***************************************************************************)
(* Service overrides: useSvco, then useSchema.  A request that is refused  *)
(* is answered with an error.                                              *)
(***************************************************************************)
Error == [text |-> "error", op |-> None, schema |-> Default]
Function == [text |-> "function", op |-> None, schema |-> Default]
RefusedIn(rs, r) == [rs EXCEPT ![r].phase = "done", ![r].answer = Error]
Refused(r) == req' = RefusedIn(req, r)

\* Overrides of nothing but roles that are not stitched are none.
OverriddenBy(svco) == ~(svco \subseteq NonstitchedRoles)

\* The length of the overrides says which worker serves them.  A request for
\* another worker is forwarded, and never comes back: its answer is
\* copied past this one.
Receive(r) ==
    /\ serving
    /\ req[r].phase = "idle"
    /\ \E k \in Kinds :
          req' = [req EXCEPT ![r].params = k,
                             ![r].phase = IF ~OverriddenBy(k.svco) THEN "params"
                                          ELSE IF k.svco \in Overrides THEN "schema"
                                          ELSE "forwarded"]
    /\ UNCHANGED <<startup, queries, overrides, caches>>

\* lruCache.fetch with allowStale: a schema that was built is used, and built again
\* if it is stale; otherwise the request joins the build under way, or begins one.
FetchSchema(r) ==
    LET o == req[r].params.svco
    IN /\ req[r].phase = "schema"
       /\ req' = IF schemas[o].state = "absent" THEN [req EXCEPT ![r].phase = "building"]
                 ELSE [req EXCEPT ![r].phase = "params", ![r].schema = schemas[o].schema]
       /\ building' = IF schemas[o].state = "fresh" THEN building ELSE building \cup {o}
       /\ UNCHANGED <<startup, queries, schemas, built, caches>>

\* The build ends, for all that wait for it; what does not differ from the default
\* schema, or is no schema, is replaced by it.
Builds(o, schema) ==
    /\ schemas' = [schemas EXCEPT ![o] = [schema |-> schema, state |-> "fresh"]]
    /\ req' = [r \in Requests |->
                  IF req[r].phase = "building" /\ req[r].params.svco = o
                  THEN [req[r] EXCEPT !.phase = "params", !.schema = schema] ELSE req[r]]

\* It fails: the schema in the store, if it was stale, is lost as well.
BuildFails(o) ==
    /\ schemas' = [schemas EXCEPT ![o] = Absent]
    /\ req' = [r \in Requests |->
                  IF req[r].phase = "building" /\ req[r].params.svco = o
                  THEN RefusedIn(req, r)[r] ELSE req[r]]

\* The subgraph the overrides name may not answer, or be the one that is stitched
\* already; stitching another may go wrong altogether, or end with errors and no schema.
GetLegacySubgraph == {"failed", "unchanged", "other"}
MakeSchema == {"failed", "errors", "stitched"}
OverrideSupergraph == (GetLegacySubgraph \ {"other"}) \cup MakeSchema

BuildSchema(o) ==
    /\ o \in building
    /\ building' = building \ {o}
    /\ \E outcome \in OverrideSupergraph :
          \/ /\ outcome = "stitched" /\ built[o] < MaxBuilds
             /\ built' = [built EXCEPT ![o] = @ + 1]
             /\ Builds(o, [of |-> o, n |-> built'[o]])
          \/ outcome \in {"unchanged", "errors"} /\ Builds(o, Default) /\ UNCHANGED built
          \/ outcome = "failed" /\ BuildFails(o) /\ UNCHANGED built
    /\ UNCHANGED <<startup, queries, caches>>

\* The ttl of a schema ends.
SchemaExpires(o) ==
    /\ schemas[o].state = "fresh"
    /\ schemas' = [schemas EXCEPT ![o].state = "stale"]
    /\ UNCHANGED <<startup, queries, building, built, caches, req>>

-----------------------------------------------------------------------------
(***************************************************************************)
(* onParams.                                                               *)
(***************************************************************************)
\* useTaqlSecurity: an untrusted client may send nothing but a preregistered id (or
\* that id for the query).
Untrusted(k) == ~RunUntrusted /\ ~k.trusted
Secured(k) == IF Untrusted(k) THEN [k EXCEPT !.hash = None, !.query = None] ELSE k
Refuses(k) == Untrusted(k) /\ k.query \notin {None, k.id}

\* useAPQ on the two-tier store: a hash alone is looked up, in memory and then in
\* redis; a hash with its query is stored in both; errors of redis are swallowed.
Persisted(r) ==
    LET params == Secured(req[r].params)
        hash == params.hash
        query == params.query
        found == Has(persisted, hash) \/ RedisGet(hash)
        pass(q) == req' = [req EXCEPT ![r].phase = "preregistered",
                                      ![r].params = params, ![r].query = q]
    IN /\ req[r].phase = "params"
       /\ \/ /\ Refuses(req[r].params)
             /\ Refused(r) /\ UNCHANGED <<redis, persisted>>
          \/ /\ ~Refuses(req[r].params) /\ hash = None
             /\ pass(query) /\ UNCHANGED <<redis, persisted>>
          \/ /\ hash # None /\ query = None
             /\ IF found THEN pass(hash) ELSE Refused(r)
             /\ persisted' = Touch(persisted, hash, MaxPersisted) /\ UNCHANGED redis
          \/ /\ hash # None /\ query = hash
             /\ pass(query)
             /\ persisted' = Put(persisted, hash, hash, MaxPersisted)
             /\ RedisSet(hash)
          \/ /\ hash # None /\ query \notin {None, hash}
             /\ Refused(r) /\ UNCHANGED <<redis, persisted>>
       /\ UNCHANGED <<startup, redisUp, overrides, caches>>

\* usePreregisteredQueries (module PreregRequests says when it refuses).  Without a
\* query in the end graphql-yoga refuses the request.
Preregistered(r) ==
    LET id == req[r].params.id
    IN /\ req[r].phase = "preregistered"
       /\ \/ id = None /\ req[r].query # None /\ req' = [req EXCEPT ![r].phase = "parse"]
          \/ id # None /\ req' = [req EXCEPT ![r].phase = "parse", ![r].query = Code[id]]
          \/ (id # None \/ req[r].query = None) /\ Refused(r)
       /\ UNCHANGED <<startup, queries, overrides, caches>>

-----------------------------------------------------------------------------
(***************************************************************************)
(* Parsing, validation, execution.                                         *)
(***************************************************************************)
PickDocumentCacheByQuery(r) ==
    IF req[r].params.hash # None THEN <<"persisted", req[r].params.hash>>
    ELSE <<"default", req[r].query>>

\* pickDocumentCache: the store, and the key in it.
PickDocumentCache(r) ==
    LET p == req[r].params
    IN IF p.id # None THEN <<"preregistered", p.id>>
       ELSE IF p.hash # None THEN <<"persisted", p.hash>>
       ELSE <<"default", req[r].query>>

\* onParse: the document in the store, or the query parsed; a parse error is cached in
\* its document's place.
Parsed(r) ==
    LET store == PickDocumentCache(r)[1]
        key == PickDocumentCache(r)[2]
    IN IF Has(documents[store], key) THEN ValueOf(documents[store], key)
       ELSE [text |-> req[r].query, store |-> store, by |-> r]

OnParse(r) ==
    LET store == PickDocumentCache(r)[1]
        key == PickDocumentCache(r)[2]
    IN documents' = [documents EXCEPT ![store] = Put(@, key, Parsed(r), MaxDocuments)]

\* onValidate: the cached result, or a new one.
IsValid(schema, doc) ==
    LET key == Key(schema, doc)
    IN IF key \in DOMAIN validated THEN validated[key] ELSE Valid(schema, doc)

OnValidate(schema, doc) ==
    validated' = BiWeakMapSet(validated, Key(schema, doc), IsValid(schema, doc))

\* There is no await between them.
ParseAndValidate(r) ==
    LET doc == Parsed(r)
        schema == req[r].schema
        parsed == doc.text \notin Unparsable
    IN /\ req[r].phase = "parse"
       /\ OnParse(r)
       /\ IF parsed THEN OnValidate(schema, doc) ELSE UNCHANGED validated
       /\ IF parsed /\ IsValid(schema, doc)
          THEN req' = [req EXCEPT ![r].phase = "execute", ![r].doc = doc,
                                  ![r].parsed = (doc.by = r)]
          ELSE Refused(r)
       /\ UNCHANGED <<startup, queries, overrides, jit, timers>>

ExecuteEager(r) ==
    LET key == Key(req[r].schema, req[r].doc)
        code == IF key \in DOMAIN jit THEN jit[key] ELSE Compiling
    IN /\ req[r].phase = "execute"
       /\ req' = [req EXCEPT ![r].phase = "executing",
                             ![r].run = IF code = Compiling THEN Announced ELSE code]
       /\ jit' = BiWeakMapSet(jit, key, code)
       /\ UNCHANGED <<startup, queries, overrides, documents, validated, timers>>

\* onExecute: run compiled code if there is any, otherwise the interpreter; the
\* first to find nothing announces that it will compile.
Execute(r) ==
    LET key == Key(req[r].schema, req[r].doc)
        found == IF key \in DOMAIN jit THEN jit[key] ELSE IF Jit THEN Announced ELSE NoCode
    IN /\ req[r].phase = "execute"
       /\ req' = [req EXCEPT ![r].phase = "executing",
                             ![r].run = IF found = Compiling THEN NoCode ELSE found]
       /\ jit' = IF found = Announced THEN BiWeakMapSet(jit, key, Compiling) ELSE jit
       /\ UNCHANGED <<startup, queries, overrides, documents, validated, timers>>

\* The execution ends: onExecuteDone schedules the compilation.  The interpreter
\* answers with an error if there is no such operation; a cached error is returned as
\* a function.
Finish(r) ==
    LET op == req[r].params.op
        run == req[r].run
        text == req[r].doc.text
        answer == IF run = Failed THEN Function
                  ELSE IF run \notin {NoCode, Announced}
                  THEN [text |-> text, op |-> run.op, schema |-> run.schema]
                  ELSE IF Names(op, text) THEN [text |-> text, op |-> op, schema |-> req[r].schema]
                  ELSE Error
    IN /\ req[r].phase = "executing"
       /\ req' = [req EXCEPT ![r].phase = "done", ![r].answer = answer]
       /\ timers' = IF run = Announced
                    THEN timers \cup {[schema |-> req[r].schema, doc |-> req[r].doc, op |-> op, by |-> r]}
                    ELSE timers
       /\ UNCHANGED <<startup, queries, overrides, documents, validated, jit>>

\* The execution throws: onExecuteDone is not called.
Throw(r) ==
    /\ req[r].phase = "executing"
    /\ Refused(r)
    /\ UNCHANGED <<startup, queries, overrides, caches>>

CompileSuccesses(t) ==
    LET code == Compiled(t.schema, t.doc, t.op)
    IN /\ t \in timers
       /\ timers' = timers \ {t}
       /\ jit' = IF code = Failed THEN jit ELSE BiWeakMapSet(jit, Key(t.schema, t.doc), code)
       /\ UNCHANGED <<startup, queries, overrides, documents, validated, req>>

\* The timer of lazyCompile.
Compile(t) ==
    /\ t \in timers
    /\ timers' = timers \ {t}
    /\ jit' = BiWeakMapSet(jit, Key(t.schema, t.doc), Compiled(t.schema, t.doc, t.op))
    /\ UNCHANGED <<startup, queries, overrides, documents, validated, req>>

Next ==
    \/ Start \/ RedisChanges \/ ExpirePersisted
    \/ \E o \in Overrides : BuildSchema(o) \/ SchemaExpires(o)
    \/ \E r \in Requests : \/ Receive(r) \/ FetchSchema(r) \/ Persisted(r) \/ Preregistered(r)
                            \/ ParseAndValidate(r) \/ Execute(r) \/ Finish(r) \/ Throw(r)
    \/ \E t \in timers : Compile(t)

Spec == Init /\ [][Next]_vars

\* Executions end, and timers fire.
Fairness ==
    /\ \A r \in Requests : WF_vars(Finish(r) \/ Throw(r))
    /\ WF_vars(\E t \in timers : Compile(t))

FairSpec == Spec /\ Fairness

-----------------------------------------------------------------------------
\* Types; every cached document is kept in the store it was parsed for.
TypeOK ==
    /\ serving \in BOOLEAN /\ redisUp \in BOOLEAN
    /\ warmed \subseteq Ids /\ redis \subseteq Texts
    /\ Len(persisted) <= MaxPersisted
    /\ \A s \in Stores : /\ Len(documents[s]) <= MaxDocuments
                          /\ \A i \in DOMAIN documents[s] :
                                documents[s][i].val \in [text : Texts, store : {s},
                                                         by : Requests \cup {"prewarm"}]
    /\ building \subseteq Overrides
    /\ \A o \in Overrides : schemas[o].schema \in {Default} \cup [of : {o}, n : 1 .. built[o]]
    /\ DOMAIN validated \subseteq Schema \X Doc /\ DOMAIN jit \subseteq DOMAIN validated
    /\ \A k \in DOMAIN jit : jit[k] \in {Compiling, Failed} \/ jit[k].op \in Operations
    /\ timers \subseteq [schema : Schema, doc : Doc, op : Operations, by : Requests]

Wanted(r) == LET p == req[r].params
             IN [text |-> IF p.id # None THEN Code[p.id]
                          ELSE IF p.hash # None THEN p.hash ELSE p.query,
                 op |-> p.op, schema |-> req[r].schema]

\* Whether the request that had a document compiled in a schema named an operation
\* the document has not.
Misnamed(schema, doc) ==
    \E q \in Requests : /\ req[q].run = Announced
                        /\ Key(req[q].schema, req[q].doc) = Key(schema, doc)
                        /\ ~Names(req[q].params.op, doc.text)

OwnAnswer(r) ==
    \/ req[r].answer = Wanted(r)
    \/ /\ Jit
       /\ Wanted(r).text \in Shared \/ ~Names(req[r].params.op, Wanted(r).text)
       /\ \E op \in OperationsOf(Wanted(r).text) : req[r].answer = [Wanted(r) EXCEPT !.op = op]
    \/ /\ Jit /\ req[r].answer = Function
       /\ \/ Wanted(r).text \in Uncompilable \cup Shared
          \/ Misnamed(req[r].schema, req[r].doc)

\* Whatever was cached, evicted or parsed by other requests in the meantime, and
\* under whichever of its three keys a query is asked for, a request that is
\* executed runs its own query in its own schema, the default one or one built for its
\* overrides, in which it is valid; and an untrusted one a registered query.  The
\* exceptions are the compiled code of a document, which runs the operation of the first
\* one executed whichever the request names, and code that could not
\* be compiled, in whose place a function is returned: that of an uncompilable text,
\* of a shared one compiled at start-up without a name, and of one whose compilation a
\* request with a name it has not brought about.
AnswersOwnQuery ==
    \A r \in Requests : req[r].phase = "done" /\ req[r].answer # Error =>
        /\ OwnAnswer(r)
        /\ Valid(req[r].schema, req[r].doc)
        /\ req[r].schema # Default =>
              OverriddenBy(req[r].params.svco) /\ req[r].schema.of = req[r].params.svco
        /\ Untrusted(req[r].params) => req[r].params.id # None

\* No document is compiled twice, or while compiled code is there, however many
\* requests execute it at a time.
CompiledOnce ==
    \A t \in timers :
        LET key == Key(t.schema, t.doc)
        IN /\ jit[key] = Compiling
           /\ \A u \in timers : Key(u.schema, u.doc) = key => u = t
           /\ \A r \in Requests :
                 req[r].run = Announced /\ Key(req[r].schema, req[r].doc) = key => r = t.by

\* A document that is being compiled is compiled in the end, unless the execution
\* that announced it threw.
CompilingEnds ==
    \A r \in Requests :
        req[r].run = Announced ~>
            \/ req[r].answer = Error
            \/ LET key == Key(req[r].schema, req[r].doc)
               IN key \in DOMAIN jit /\ jit[key] # Compiling

\* A preregistered query that was loaded at start-up is not parsed again while
\* the worker serves, if the store has room for all of them.
WarmedIsNotParsed ==
    Cardinality(Ids) <= MaxDocuments =>
        \A r \in Requests : req[r].parsed => req[r].params.id \notin warmed
=============================================================================
