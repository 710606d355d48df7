------------------------- MODULE QueryPipelineProofs -------------------------
(***************************************************************************)
(* Theorems about QueryPipeline, for every set of requests, texts, ids,    *)
(* kinds of params and overrides, and every size of the stores.            *)
(*                                                                         *)
(* What a request is answered was put together by others: the document may *)
(* come out of a store another request filled, its validity out of a       *)
(* cache, and the code out of a third one.  The invariant says of each     *)
(* cache that what it holds is true of the key it is held under, and of    *)
(* each request what it has established by the phase it is in.             *)
(***************************************************************************)
EXTENDS QueryPipeline, MemoryStoreProofs, FiniteSetTheorems, TLAPS

KeysOf(store) == IF store = "preregistered" THEN Ids ELSE Texts
DocsOf(store) == [text : Texts, store : {store}, by : Requests \cup {"prewarm"}]
TextOf(store, key) == IF store = "preregistered" THEN Code[key] ELSE key

\* The document under a key is one of the text the key stands for.
StoreOK(store) ==
    /\ documents[store] \in LRU(KeysOf(store), DocsOf(store), MaxDocuments)
    /\ \A i \in DOMAIN documents[store] :
          documents[store][i].val.text = TextOf(store, documents[store][i].key)

StoresOK == DOMAIN documents = Stores /\ \A s \in Stores : StoreOK(s)

\* A cached validation result is the one validation would give.
ValidatedOK ==
    /\ DOMAIN validated \subseteq Schema \X Doc
    /\ \A k \in DOMAIN validated : validated[k] = Valid(k[1], k[2])

Codes == [kind : {"code"}, schema : Schema, op : Operations]

\* Compiled code runs an operation of its document in its schema; there is a reason
\* for one that failed.
RightCode(code, schema, doc) ==
    /\ code.kind = "code" => code.schema = schema /\ code.op \in OperationsOf(doc.text)
    /\ code = Failed => doc.text \in Uncompilable \cup Shared \/ Misnamed(schema, doc)

JitOK ==
    /\ DOMAIN jit \subseteq DOMAIN validated
    /\ ~Jit => DOMAIN jit = {}
    /\ \A k \in DOMAIN jit : jit[k] \in Codes \cup {Compiling, Failed} /\ RightCode(jit[k], k[1], k[2])

ParamsOf ==
    {p \in [id : Ids \cup {None}, hash : Texts \cup {None}, query : Texts \cup Ids \cup {None},
            trusted : BOOLEAN, op : Operations, svco : {k.svco : k \in Kinds}] :
        p.query \in Texts \cup {None, p.id}}
Phases == {"idle", "forwarded", "schema", "building", "params", "preregistered", "parse",
           "execute", "executing", "done"}
Answers == [text : Texts \cup {"error", "function"}, op : Operations \cup {None}, schema : Schema]
RequestType ==
    [phase : Phases, params : ParamsOf \cup {None}, query : Texts \cup Ids \cup {None},
     schema : Schema, doc : Doc \cup {None}, run : Codes \cup {NoCode, Announced, Failed},
     parsed : BOOLEAN, answer : Answers \cup {None}]

Types ==
    /\ serving \in BOOLEAN /\ redisUp \in BOOLEAN
    /\ warmed \subseteq Ids /\ redis \subseteq Texts
    /\ persisted \in LRU(Texts, Texts, MaxPersisted)
    /\ building \subseteq Overrides /\ built \in [Overrides -> 0 .. MaxBuilds]
    /\ schemas \in [Overrides -> [schema : Schema, state : {"absent", "fresh", "stale"}]]
    /\ req \in [Requests -> RequestType]
    /\ timers \subseteq [schema : Schema, doc : Doc, op : Operations, by : Requests]

SchemasOK ==
    \A o \in Overrides : schemas[o].schema \in {Default} \cup [of : {o}, n : 1 .. built[o]]

\* What a request has established by its phase.
TextWanted(p) == IF p.id # None THEN Code[p.id] ELSE IF p.hash # None THEN p.hash ELSE p.query

RequestOK(r) ==
    LET q == req[r]
    IN /\ q.phase = "idle" => q = Idle
       /\ q.phase # "idle" => q.params \in ParamsOf
       /\ q.phase \in {"schema", "building"} =>
             q.params.svco \in Overrides /\ OverriddenBy(q.params.svco)
       /\ q.schema # Default => OverriddenBy(q.params.svco) /\ q.schema.of = q.params.svco
       /\ q.phase = "preregistered" =>
             /\ (Untrusted(q.params) => q.params.hash = None /\ q.query = None)
             /\ q.params.id = None /\ q.query # None =>
                   q.query = TextWanted(q.params) /\ q.query \in Texts
       /\ q.phase \in {"parse", "execute", "executing"} /\ Untrusted(q.params) =>
             q.params.id # None
       /\ q.phase = "parse" => q.query = TextWanted(q.params) /\ q.query \in Texts
       /\ q.phase \in {"execute", "executing"} =>
             /\ q.doc \in Doc /\ q.doc.text = TextWanted(q.params)
             /\ Valid(q.schema, q.doc)
             /\ Key(q.schema, q.doc) \in DOMAIN validated
       /\ q.parsed => q.phase \in {"execute", "executing", "done"}
       /\ q.run # NoCode =>
             /\ Jit /\ q.phase \in {"executing", "done"} /\ q.doc \in Doc
             /\ RightCode(q.run, q.schema, q.doc)

RequestsOK == \A r \in Requests : RequestOK(r)

BeforeServing == ~serving => timers = {} /\ \A r \in Requests : req[r] = Idle

\* Whoever announced that it will compile is the only one to have, and its document
\* is not compiled before it has ended.
AnnouncedOnce ==
    /\ \A r \in Requests : req[r].run = Announced =>
          /\ Key(req[r].schema, req[r].doc) \in DOMAIN jit
          /\ req[r].phase = "executing" => jit[Key(req[r].schema, req[r].doc)] = Compiling
    /\ \A q, r \in Requests :
          /\ req[q].run = Announced /\ req[r].run = Announced
          /\ Key(req[q].schema, req[q].doc) = Key(req[r].schema, req[r].doc)
          => q = r

\* A timer is that of a request that announced it.
TimersOK ==
    \A t \in timers :
        LET q == req[t.by]
        IN /\ q.run = Announced /\ q.phase = "done"
           /\ t.schema = q.schema /\ t.doc = q.doc /\ t.op = q.params.op
           /\ jit[Key(t.schema, t.doc)] = Compiling

\* A store with room for all ids keeps the documents it was warmed with.
WarmedStay ==
    serving /\ Cardinality(Ids) <= MaxDocuments =>
        \A id \in warmed : \E i \in DOMAIN documents["preregistered"] :
            LET e == documents["preregistered"][i]
            IN e.key = id /\ e.val.by = "prewarm"

IInv ==
    /\ Types /\ SchemasOK /\ StoresOK /\ ValidatedOK /\ JitOK
    /\ RequestsOK /\ BeforeServing /\ AnnouncedOnce /\ TimersOK /\ WarmedStay
    /\ AnswersOwnQuery /\ WarmedIsNotParsed

-----------------------------------------------------------------------------
(***************************************************************************)
(* What steps leave alone.                                                 *)
(***************************************************************************)

LEMMA RequestFacts ==
    ASSUME Types, NEW r \in Requests
    PROVE  /\ req[r] \in RequestType
           /\ req[r].phase \in Phases /\ req[r].params \in ParamsOf \cup {None}
           /\ req[r].query \in Texts \cup Ids \cup {None} /\ req[r].schema \in Schema
           /\ req[r].doc \in Doc \cup {None} /\ req[r].run \in Codes \cup {NoCode, Announced, Failed}
           /\ req[r].parsed \in BOOLEAN /\ req[r].answer \in Answers \cup {None}
  <1>1. req[r] \in RequestType BY DEF Types
  <1>2. QED BY <1>1 DEF RequestType

\* An announced compilation stays announced, by the same request.
AnnouncedStay ==
    \A q \in Requests : req[q].run = Announced =>
        /\ req'[q].run = Announced /\ req'[q].params = req[q].params
        /\ req'[q].schema = req[q].schema /\ req'[q].doc = req[q].doc

LEMMA MisnamedStays ==
    ASSUME AnnouncedStay, NEW schema, NEW doc, Misnamed(schema, doc)
    PROVE  Misnamed(schema, doc)'
  BY DEF AnnouncedStay, Misnamed

LEMMA RightCodeStays ==
    ASSUME AnnouncedStay, NEW code, NEW schema, NEW doc, RightCode(code, schema, doc)
    PROVE  RightCode(code, schema, doc)'
  BY MisnamedStays DEF RightCode

LEMMA RequestStays ==
    ASSUME AnnouncedStay, NEW q \in Requests, RequestOK(q), req'[q] = req[q],
           DOMAIN validated \subseteq DOMAIN validated'
    PROVE  RequestOK(q)'
  <1>1. PICK x : x = req[q] OBVIOUS
  <1>2. RightCode(x.run, x.schema, x.doc) => RightCode(x.run, x.schema, x.doc)'
    BY RightCodeStays
  <1>3. RightCode(req[q].run, req[q].schema, req[q].doc)
        => RightCode(req[q].run, req[q].schema, req[q].doc)'
    BY <1>1, <1>2 DEF RightCode, Misnamed
  <1>4. QED BY <1>3 DEF RequestOK

LEMMA AnswerStays ==
    ASSUME AnnouncedStay, NEW q \in Requests, OwnAnswer(q), req'[q] = req[q]
    PROVE  OwnAnswer(q)'
  <1>1. PICK x : x = req[q] OBVIOUS
  <1>2. Misnamed(x.schema, x.doc) => Misnamed(x.schema, x.doc)' BY MisnamedStays
  <1>3. Misnamed(req[q].schema, req[q].doc) => Misnamed(req[q].schema, req[q].doc)'
    BY <1>1, <1>2 DEF Misnamed
  <1>4. Wanted(q)' = Wanted(q) BY DEF Wanted
  <1>5. QED BY <1>3, <1>4 DEF OwnAnswer

AnsweredOK(r) ==
    req[r].phase = "done" /\ req[r].answer # Error =>
        /\ OwnAnswer(r)
        /\ Valid(req[r].schema, req[r].doc)
        /\ req[r].schema # Default =>
              OverriddenBy(req[r].params.svco) /\ req[r].schema.of = req[r].params.svco
        /\ Untrusted(req[r].params) => req[r].params.id # None

LEMMA AnswersStay ==
    ASSUME AnnouncedStay, AnswersOwnQuery,
           \A q \in Requests : req'[q] = req[q] \/ AnsweredOK(q)'
    PROVE  AnswersOwnQuery'
  <1>1. ASSUME NEW q \in Requests PROVE AnsweredOK(q)'
    <2>1. CASE req'[q] = req[q]
      <3>1. AnsweredOK(q) BY DEF AnswersOwnQuery, AnsweredOK
      <3>2. OwnAnswer(q) => OwnAnswer(q)' BY <2>1, AnswerStays
      <3>3. QED BY <2>1, <3>1, <3>2 DEF AnsweredOK
    <2>2. QED BY <2>1
  <1>2. QED BY <1>1 DEF AnswersOwnQuery, AnsweredOK

LEMMA RequestsStay ==
    ASSUME AnnouncedStay, RequestsOK, DOMAIN validated \subseteq DOMAIN validated',
           \A q \in Requests : req'[q] = req[q] \/ RequestOK(q)'
    PROVE  RequestsOK'
  <1>1. ASSUME NEW q \in Requests, req'[q] = req[q] PROVE RequestOK(q)'
    BY <1>1, RequestStays DEF RequestsOK
  <1>2. QED BY <1>1 DEF RequestsOK

LEMMA JitStays ==
    ASSUME AnnouncedStay, JitOK, jit' = jit, DOMAIN validated \subseteq DOMAIN validated'
    PROVE  JitOK'
  <1>1. ASSUME NEW k \in DOMAIN jit PROVE RightCode(jit[k], k[1], k[2])'
    <2>1. PICK c : c = jit[k] OBVIOUS
    <2>2. RightCode(c, k[1], k[2])' BY <2>1, RightCodeStays DEF JitOK
    <2>3. QED BY <2>1, <2>2 DEF RightCode, Misnamed
  <1>2. QED BY <1>1 DEF JitOK

\* What a request that is not executed yet may do.
Harmless(q) ==
    /\ serving
    /\ req[q].run = NoCode /\ req'[q].run = NoCode /\ ~req'[q].parsed
    /\ RequestOK(q)'
    /\ req'[q].phase = "done" => req'[q].answer = Error

\* A step before execution.
LEMMA EarlyStep ==
    ASSUME IInv, Types', SchemasOK', UNCHANGED <<startup, caches>>,
           \A q \in Requests : req'[q] = req[q] \/ Harmless(q)
    PROVE  IInv'
  <1>1. /\ Types /\ StoresOK /\ ValidatedOK /\ JitOK /\ RequestsOK /\ BeforeServing
        /\ AnnouncedOnce /\ TimersOK /\ WarmedStay /\ AnswersOwnQuery /\ WarmedIsNotParsed
    BY DEF IInv
  <1>2. /\ serving' = serving /\ warmed' = warmed /\ documents' = documents
        /\ validated' = validated /\ jit' = jit /\ timers' = timers
    BY DEF startup, caches
  <1>3. NoCode # Announced BY DEF NoCode, Announced
  <1>4. \A q \in Requests : req[q].run = Announced \/ req'[q].run = Announced => req'[q] = req[q]
    BY <1>3 DEF Harmless
  <1>5. AnnouncedStay BY <1>4 DEF AnnouncedStay
  <1>6. StoresOK' BY <1>1, <1>2 DEF StoresOK, StoreOK
  <1>7. ValidatedOK' BY <1>1, <1>2 DEF ValidatedOK
  <1>8. JitOK' BY <1>1, <1>2, <1>5, JitStays
  <1>9. RequestsOK'
    <2>1. \A q \in Requests : req'[q] = req[q] \/ RequestOK(q)' BY DEF Harmless
    <2>2. QED BY <1>1, <1>2, <1>5, <2>1, RequestsStay
  <1>10. BeforeServing'
    <2>1. ~serving => \A q \in Requests : req'[q] = req[q] BY DEF Harmless
    <2>2. QED BY <1>1, <1>2, <2>1 DEF BeforeServing
  <1>11. AnnouncedOnce' BY <1>1, <1>2, <1>4 DEF AnnouncedOnce, Key
  <1>12. TimersOK'
    <2>1. \A t \in timers : t.by \in Requests BY <1>1 DEF Types
    <2>2. QED BY <1>1, <1>2, <1>4, <2>1 DEF TimersOK
  <1>13. WarmedStay' BY <1>1, <1>2 DEF WarmedStay
  <1>14. AnswersOwnQuery'
    <2>1. \A q \in Requests : req'[q] = req[q] \/ AnsweredOK(q)' BY DEF Harmless, AnsweredOK
    <2>2. QED BY <1>1, <1>5, <2>1, AnswersStay
  <1>15. WarmedIsNotParsed'
    BY <1>1, <1>2 DEF WarmedIsNotParsed, Harmless
  <1>16. QED
    BY <1>6, <1>7, <1>8, <1>9, <1>10, <1>11, <1>12, <1>13, <1>14, <1>15 DEF IInv

-----------------------------------------------------------------------------
(***************************************************************************)
(* Steps that touch no request.                                            *)
(***************************************************************************)

LEMMA RedisChangesInv == ASSUME IInv, RedisChanges PROVE IInv'
  <1>1. Types /\ SchemasOK BY DEF IInv
  <1>2. /\ \/ redisUp' = ~redisUp /\ redis' = redis
           \/ redisUp' = redisUp /\ redis' \subseteq redis
        /\ UNCHANGED <<startup, persisted, overrides, caches, req>>
    BY DEF RedisChanges
  <1>3. redisUp' \in BOOLEAN /\ redis' \subseteq Texts BY <1>1, <1>2 DEF Types
  <1>4. Types' BY <1>1, <1>2, <1>3 DEF Types, startup, overrides, caches
  <1>5. SchemasOK' BY <1>1, <1>2 DEF SchemasOK, overrides
  <1>6. QED BY <1>2, <1>4, <1>5, EarlyStep

LEMMA ExpirePersistedInv == ASSUME IInv, ExpirePersisted PROVE IInv'
  <1>1. Types /\ SchemasOK BY DEF IInv
  <1>2. PICK t \in Texts : persisted' = Without(persisted, t) BY DEF ExpirePersisted
  <1>3. UNCHANGED <<startup, redisUp, redis, overrides, caches, req>> BY DEF ExpirePersisted
  <1>4. persisted \in LRU(Texts, Texts, MaxPersisted) /\ MaxPersisted \in Nat
    BY <1>1, PipelineAssumption DEF Types
  <1>5. persisted' \in LRU(Texts, Texts, MaxPersisted) BY <1>2, <1>4, WithoutOne
  <1>6. Types' BY <1>1, <1>3, <1>5 DEF Types, startup, overrides, caches
  <1>7. SchemasOK' BY <1>1, <1>3 DEF SchemasOK, overrides
  <1>8. QED BY <1>3, <1>6, <1>7, EarlyStep

LEMMA SchemaExpiresInv == ASSUME IInv, NEW o \in Overrides, SchemaExpires(o) PROVE IInv'
  <1>1. Types /\ SchemasOK BY DEF IInv
  <1>2. /\ schemas' = [schemas EXCEPT ![o].state = "stale"]
        /\ UNCHANGED <<startup, queries, building, built, caches, req>>
    BY DEF SchemaExpires
  <1>3. /\ schemas' \in [Overrides -> [schema : Schema, state : {"absent", "fresh", "stale"}]]
        /\ \A x \in Overrides : schemas'[x].schema = schemas[x].schema
    BY <1>1, <1>2 DEF Types
  <1>4. Types' BY <1>1, <1>2, <1>3 DEF Types, startup, queries, caches
  <1>5. SchemasOK' BY <1>1, <1>2, <1>3 DEF SchemasOK
  <1>6. QED BY <1>2, <1>4, <1>5, EarlyStep

-----------------------------------------------------------------------------
(***************************************************************************)
(* Steps of a request before it is executed.                               *)
(***************************************************************************)

Early == {"schema", "building", "params", "preregistered"}

LEMMA EarlyFacts ==
    ASSUME IInv, NEW r \in Requests, req[r].phase \in Early
    PROVE  /\ serving /\ req[r].run = NoCode /\ ~req[r].parsed
           /\ req[r].params \in ParamsOf /\ req[r].answer \in Answers \cup {None}
  <1>1. RequestOK(r) /\ BeforeServing /\ Types BY DEF IInv, RequestsOK
  <1>2. req[r].run = NoCode /\ ~req[r].parsed /\ req[r].params \in ParamsOf
    BY <1>1 DEF RequestOK, Early
  <1>3. serving BY <1>1 DEF BeforeServing, Idle, Early
  <1>4. QED BY <1>1, <1>2, <1>3, RequestFacts

LEMMA ErrorIsAnswer == Error \in Answers
  BY DEF Error, Answers, Schema

\* A request that is refused.
LEMMA RefusedRequest ==
    ASSUME IInv, NEW r \in Requests, req[r].phase \in Early, req'[r] = RefusedIn(req, r)[r]
    PROVE  req'[r] \in RequestType /\ Harmless(r)
  <1>1. RequestOK(r) /\ Types BY DEF IInv, RequestsOK
  <1>2. /\ serving /\ req[r].run = NoCode /\ ~req[r].parsed /\ req[r].params \in ParamsOf
    BY EarlyFacts
  <1>3. req \in [Requests -> RequestType] /\ req[r] \in RequestType BY <1>1, RequestFacts DEF Types
  <1>4. req'[r] = [req[r] EXCEPT !.phase = "done", !.answer = Error]
    BY <1>3 DEF RefusedIn, RequestType
  <1>5. "done" \in Phases /\ Error \in Answers BY ErrorIsAnswer DEF Phases
  <1>6. req'[r] \in RequestType BY <1>3, <1>4, <1>5 DEF RequestType
  <1>7. /\ req'[r].phase = "done" /\ req'[r].answer = Error /\ req'[r].params = req[r].params
        /\ req'[r].schema = req[r].schema /\ req'[r].run = req[r].run
        /\ req'[r].parsed = req[r].parsed
    BY <1>3, <1>4 DEF RequestType
  <1>8. RequestOK(r)' BY <1>1, <1>2, <1>7 DEF RequestOK
  <1>9. QED BY <1>2, <1>6, <1>7, <1>8 DEF Harmless

LEMMA RefusedStep ==
    ASSUME IInv, NEW r \in Requests, req[r].phase \in Early, Refused(r)
    PROVE  /\ req' \in [Requests -> RequestType]
           /\ \A q \in Requests : req'[q] = req[q] \/ Harmless(q)
  <1>1. req \in [Requests -> RequestType] BY DEF IInv, Types
  <1>2. req' = RefusedIn(req, r) BY DEF Refused
  <1>3. \A q \in Requests : q # r => req'[q] = req[q] BY <1>1, <1>2 DEF RefusedIn
  <1>4. req'[r] \in RequestType /\ Harmless(r) BY <1>2, RefusedRequest
  <1>5. DOMAIN req' = Requests /\ req' = [q \in Requests |-> req'[q]] BY <1>1, <1>2 DEF RefusedIn
  <1>6. \A q \in Requests : req'[q] \in RequestType BY <1>1, <1>3, <1>4
  <1>7. QED BY <1>3, <1>4, <1>5, <1>6

LEMMA KindsAreParams == ASSUME NEW k \in Kinds PROVE k \in ParamsOf
  BY PipelineAssumption DEF ParamsOf

\* Types of a step that changes nothing else.
LEMMA TypesOfRequest ==
    ASSUME Types, UNCHANGED <<startup, queries, schemas, built, caches>>, building' \subseteq Overrides,
           req' \in [Requests -> RequestType]
    PROVE  Types'
  BY DEF Types, startup, queries, caches

LEMMA ReceiveInv == ASSUME IInv, NEW r \in Requests, Receive(r) PROVE IInv'
  <1>1. Types /\ SchemasOK /\ RequestOK(r) BY DEF IInv, RequestsOK
  <1>2. PICK k \in Kinds, p \in {"params", "schema", "forwarded"} :
           /\ req' = [req EXCEPT ![r].params = k, ![r].phase = p]
           /\ p = "schema" => OverriddenBy(k.svco) /\ k.svco \in Overrides
    BY DEF Receive
  <1>3. serving /\ req[r].phase = "idle" /\ UNCHANGED <<startup, queries, overrides, caches>>
    BY DEF Receive
  <1>4. req \in [Requests -> RequestType] /\ req[r] \in RequestType BY <1>1, RequestFacts DEF Types
  <1>5. req[r] = Idle BY <1>1, <1>3 DEF RequestOK
  <1>6. k \in ParamsOf BY KindsAreParams
  <1>7. /\ req'[r].params = k /\ req'[r].phase = p /\ req'[r].run = NoCode
        /\ req'[r].parsed = FALSE /\ req'[r].schema = Default
    BY <1>2, <1>4, <1>5 DEF RequestType, Idle
  <1>8. p \in Phases BY DEF Phases
  <1>9. req' \in [Requests -> RequestType] BY <1>2, <1>4, <1>6, <1>8 DEF RequestType
  <1>10. RequestOK(r)' BY <1>2, <1>6, <1>7 DEF RequestOK
  <1>11. Harmless(r) BY <1>3, <1>5, <1>7, <1>10 DEF Harmless, Idle
  <1>12. \A q \in Requests : q # r => req'[q] = req[q] BY <1>2, <1>4
  <1>13. Types' BY <1>1, <1>3, <1>9, TypesOfRequest DEF overrides, Types
  <1>14. SchemasOK' BY <1>1, <1>3 DEF SchemasOK, overrides
  <1>15. QED BY <1>3, <1>11, <1>12, <1>13, <1>14, EarlyStep

LEMMA FetchSchemaInv == ASSUME IInv, NEW r \in Requests, FetchSchema(r) PROVE IInv'
  <1> DEFINE o == req[r].params.svco
  <1>1. Types /\ SchemasOK /\ RequestOK(r) BY DEF IInv, RequestsOK
  <1>2. /\ req[r].phase = "schema"
        /\ req' = IF schemas[o].state = "absent" THEN [req EXCEPT ![r].phase = "building"]
                  ELSE [req EXCEPT ![r].phase = "params", ![r].schema = schemas[o].schema]
        /\ building' \subseteq building \cup {o}
        /\ UNCHANGED <<startup, queries, schemas, built, caches>>
    BY DEF FetchSchema
  <1>3. req \in [Requests -> RequestType] /\ req[r] \in RequestType BY <1>1, RequestFacts DEF Types
  <1>4. o \in Overrides /\ OverriddenBy(o) BY <1>1, <1>2 DEF RequestOK
  <1>5. /\ serving /\ req[r].run = NoCode /\ ~req[r].parsed /\ req[r].params \in ParamsOf
    BY <1>2, EarlyFacts DEF Early
  <1>6. PICK s : s = schemas[o].schema OBVIOUS
  <1>7. s \in Schema /\ s # Default => s.of = o
    BY <1>1, <1>4, <1>6 DEF Types, SchemasOK
  <1>8. /\ req'[r].params = req[r].params /\ req'[r].run = req[r].run
        /\ req'[r].parsed = req[r].parsed
        /\ \/ req'[r].phase = "building" /\ req'[r].schema = req[r].schema
           \/ req'[r].phase = "params" /\ req'[r].schema = s
    BY <1>2, <1>3, <1>6 DEF RequestType
  <1>9. s \in Schema BY <1>1, <1>4, <1>6 DEF Types
  <1>10. "building" \in Phases /\ "params" \in Phases BY DEF Phases
  <1>11. req' \in [Requests -> RequestType] BY <1>2, <1>3, <1>6, <1>9, <1>10 DEF RequestType
  <1>12. RequestOK(r)' BY <1>1, <1>4, <1>5, <1>7, <1>8, <1>9 DEF RequestOK
  <1>13. Harmless(r) BY <1>5, <1>8, <1>12 DEF Harmless
  <1>14. \A q \in Requests : q # r => req'[q] = req[q] BY <1>2, <1>3
  <1>15. Types' BY <1>1, <1>2, <1>4, <1>11, TypesOfRequest DEF Types
  <1>16. SchemasOK' BY <1>1, <1>2 DEF SchemasOK
  <1>17. QED BY <1>2, <1>13, <1>14, <1>15, <1>16, EarlyStep

LEMMA SecuredFacts ==
    ASSUME NEW p \in ParamsOf
    PROVE  LET s == Secured(p)
           IN /\ s \in ParamsOf /\ s.id = p.id /\ s.svco = p.svco
              /\ Untrusted(s) => s.hash = None /\ s.query = None
  <1>1. CASE Untrusted(p)
    <2>1. Secured(p) = [p EXCEPT !.hash = None, !.query = None] BY <1>1 DEF Secured
    <2>2. QED BY <2>1 DEF ParamsOf
  <1>2. CASE ~Untrusted(p) BY <1>2 DEF Secured
  <1>3. QED BY <1>1, <1>2

\* A request that passes the plugin of persisted queries.
LEMMA PassedRequest ==
    ASSUME IInv, NEW r \in Requests, req[r].phase = "params", NEW p, NEW q,
           p = Secured(req[r].params), q \in Texts \cup Ids \cup {None},
           Untrusted(p) => q = None,
           p.id = None /\ q # None => q = TextWanted(p) /\ q \in Texts,
           req' = [req EXCEPT ![r].phase = "preregistered", ![r].params = p, ![r].query = q]
    PROVE  /\ req' \in [Requests -> RequestType]
           /\ \A x \in Requests : req'[x] = req[x] \/ Harmless(x)
  <1>1. RequestOK(r) /\ Types BY DEF IInv, RequestsOK
  <1>2. /\ serving /\ req[r].run = NoCode /\ ~req[r].parsed /\ req[r].params \in ParamsOf
    BY EarlyFacts DEF Early
  <1>3. req \in [Requests -> RequestType] /\ req[r] \in RequestType BY <1>1, RequestFacts DEF Types
  <1>4. /\ p \in ParamsOf /\ p.svco = req[r].params.svco
        /\ Untrusted(p) => p.hash = None /\ p.query = None
    BY <1>2, SecuredFacts
  <1>5. /\ req'[r].phase = "preregistered" /\ req'[r].params = p /\ req'[r].query = q
        /\ req'[r].schema = req[r].schema /\ req'[r].run = req[r].run
        /\ req'[r].parsed = req[r].parsed
    BY <1>3 DEF RequestType
  <1>6. "preregistered" \in Phases BY DEF Phases
  <1>7. req' \in [Requests -> RequestType] BY <1>3, <1>4, <1>6 DEF RequestType
  <1>8. RequestOK(r)' BY <1>1, <1>2, <1>4, <1>5 DEF RequestOK
  <1>9. Harmless(r) BY <1>2, <1>5, <1>8 DEF Harmless
  <1>10. QED BY <1>3, <1>7, <1>9

LEMMA PersistedInv == ASSUME IInv, NEW r \in Requests, Persisted(r) PROVE IInv'
  <1>1. Types /\ SchemasOK BY DEF IInv
  <1>2. PICK p : p = Secured(req[r].params) OBVIOUS
  <1>3. req[r].phase = "params" /\ UNCHANGED <<startup, redisUp, overrides, caches>>
    BY DEF Persisted
  <1>4. req[r].params \in ParamsOf BY <1>3, EarlyFacts DEF Early
  <1>5. /\ p \in ParamsOf
        /\ Untrusted(p) => p.hash = None /\ p.query = None
    BY <1>2, <1>4, SecuredFacts
  <1>6. /\ p.id \in Ids \cup {None} /\ p.hash \in Texts \cup {None}
        /\ p.query \in Texts \cup {None, p.id}
    BY <1>5 DEF ParamsOf
  <1>7. MaxPersisted \in Nat \ {0} /\ None \notin Texts \cup Ids BY PipelineAssumption
  <1>8. persisted \in LRU(Texts, Texts, MaxPersisted) /\ redis \subseteq Texts BY <1>1 DEF Types
  <1> DEFINE Done == /\ redis' \subseteq Texts /\ persisted' \in LRU(Texts, Texts, MaxPersisted)
                     /\ req' \in [Requests -> RequestType]
                     /\ \A x \in Requests : req'[x] = req[x] \/ Harmless(x)
  <1>9. ASSUME Refused(r), UNCHANGED <<redis, persisted>> PROVE Done
    BY <1>3, <1>8, <1>9, RefusedStep DEF Early
  <1>10. ASSUME p.hash = None, UNCHANGED <<redis, persisted>>,
                req' = [req EXCEPT ![r].phase = "preregistered", ![r].params = p,
                                   ![r].query = p.query]
         PROVE  Done
    <2>1. p.id = None /\ p.query # None => p.query = TextWanted(p) /\ p.query \in Texts
      BY <1>6, <1>10 DEF TextWanted
    <2>2. p.query \in Texts \cup Ids \cup {None} BY <1>6
    <2>3. /\ req' \in [Requests -> RequestType]
          /\ \A x \in Requests : req'[x] = req[x] \/ Harmless(x)
      BY <1>2, <1>3, <1>5, <1>10, <2>1, <2>2, PassedRequest
    <2>4. QED BY <1>8, <1>10, <2>3
  <1>11. ASSUME p.hash # None, redis' \subseteq redis \cup {p.hash},
                req' = [req EXCEPT ![r].phase = "preregistered", ![r].params = p,
                                   ![r].query = p.hash],
                \/ persisted' = Touch(persisted, p.hash, MaxPersisted)
                \/ persisted' = Put(persisted, p.hash, p.hash, MaxPersisted)
         PROVE  Done
    <2>1. p.hash \in Texts BY <1>6, <1>11
    <2>2. p.id = None => p.hash = TextWanted(p) BY <1>11 DEF TextWanted
    <2>3. Untrusted(p) => p.hash = None BY <1>5
    <2>4. /\ req' \in [Requests -> RequestType]
          /\ \A x \in Requests : req'[x] = req[x] \/ Harmless(x)
      BY <1>2, <1>3, <1>11, <2>1, <2>2, <2>3, PassedRequest
    <2>5. persisted' \in LRU(Texts, Texts, MaxPersisted)
      BY <1>7, <1>8, <1>11, <2>1, TouchOne, PutOne
    <2>6. QED BY <1>8, <1>11, <2>1, <2>4, <2>5
  <1>12. ASSUME p.hash # None, Refused(r), UNCHANGED redis,
                persisted' = Touch(persisted, p.hash, MaxPersisted)
         PROVE  Done
    <2>1. persisted' \in LRU(Texts, Texts, MaxPersisted) BY <1>7, <1>8, <1>12, TouchOne
    <2>2. QED BY <1>3, <1>8, <1>12, <2>1, RefusedStep DEF Early
  <1>13. Done
    <2>1. \/ Refused(r) /\ UNCHANGED <<redis, persisted>>
          \/ /\ p.hash = None
             /\ req' = [req EXCEPT ![r].phase = "preregistered", ![r].params = p,
                                   ![r].query = p.query]
             /\ UNCHANGED <<redis, persisted>>
          \/ /\ p.hash # None
             /\ \/ req' = [req EXCEPT ![r].phase = "preregistered", ![r].params = p,
                                      ![r].query = p.hash]
                \/ Refused(r)
             /\ persisted' = Touch(persisted, p.hash, MaxPersisted) /\ UNCHANGED redis
          \/ /\ p.hash # None /\ p.query = p.hash
             /\ req' = [req EXCEPT ![r].phase = "preregistered", ![r].params = p,
                                   ![r].query = p.query]
             /\ persisted' = Put(persisted, p.hash, p.hash, MaxPersisted)
             /\ redis' \subseteq redis \cup {p.hash}
      BY <1>2 DEF Persisted, RedisSet, HandleOperation
    <2> HIDE DEF Done
    <2>2. QED BY <1>9, <1>10, <1>11, <1>12, <2>1
  <1>14. Types' BY <1>1, <1>3, <1>13 DEF Types, startup, overrides, caches
  <1>15. SchemasOK' BY <1>1, <1>3 DEF SchemasOK, overrides
  <1>16. QED BY <1>3, <1>13, <1>14, <1>15, EarlyStep

LEMMA PreregisteredInv == ASSUME IInv, NEW r \in Requests, Preregistered(r) PROVE IInv'
  <1> DEFINE p == req[r].params
  <1>1. Types /\ SchemasOK /\ RequestOK(r) BY DEF IInv, RequestsOK
  <1>2. req[r].phase = "preregistered" /\ UNCHANGED <<startup, queries, overrides, caches>>
    BY DEF Preregistered
  <1>3. req \in [Requests -> RequestType] /\ req[r] \in RequestType BY <1>1, RequestFacts DEF Types
  <1>4. /\ serving /\ req[r].run = NoCode /\ ~req[r].parsed /\ p \in ParamsOf
    BY <1>2, EarlyFacts DEF Early
  <1>5. CASE Refused(r)
    <2>1. /\ req' \in [Requests -> RequestType]
          /\ \A x \in Requests : req'[x] = req[x] \/ Harmless(x)
      BY <1>2, <1>5, RefusedStep DEF Early
    <2>2. Types' BY <1>1, <1>2, <2>1, TypesOfRequest DEF overrides, Types
    <2>3. SchemasOK' BY <1>1, <1>2 DEF SchemasOK, overrides
    <2>4. QED BY <1>2, <2>1, <2>2, <2>3, EarlyStep
  <1>6. ASSUME NEW q \in Texts, q = TextWanted(p), Untrusted(p) => p.id # None,
               req' = [req EXCEPT ![r].phase = "parse", ![r].query = q]
        PROVE  IInv'
    <2>1. /\ req'[r].phase = "parse" /\ req'[r].query = q /\ req'[r].params = p
          /\ req'[r].schema = req[r].schema /\ req'[r].run = req[r].run
          /\ req'[r].parsed = req[r].parsed
      BY <1>3, <1>6 DEF RequestType
    <2>2. "parse" \in Phases BY DEF Phases
    <2>3. req' \in [Requests -> RequestType] BY <1>3, <1>6, <2>2 DEF RequestType
    <2>4. RequestOK(r)' BY <1>1, <1>4, <1>6, <2>1 DEF RequestOK
    <2>5. Harmless(r) BY <1>4, <2>1, <2>4 DEF Harmless
    <2>6. \A x \in Requests : x # r => req'[x] = req[x] BY <1>3, <1>6
    <2>7. Types' BY <1>1, <1>2, <2>3, TypesOfRequest DEF overrides, Types
    <2>8. SchemasOK' BY <1>1, <1>2 DEF SchemasOK, overrides
    <2>9. QED BY <1>2, <2>5, <2>6, <2>7, <2>8, EarlyStep
  <1>7. CASE p.id = None /\ req[r].query # None /\ req' = [req EXCEPT ![r].phase = "parse"]
    <2>1. req[r].query = TextWanted(p) /\ req[r].query \in Texts /\ ~Untrusted(p)
      BY <1>1, <1>2, <1>7 DEF RequestOK
    <2>2. PICK q \in Texts : q = req[r].query BY <2>1
    <2>3. req' = [req EXCEPT ![r].phase = "parse", ![r].query = q]
      BY <1>3, <1>7, <2>2 DEF RequestType
    <2>4. QED BY <1>6, <2>1, <2>2, <2>3
  <1>8. CASE p.id # None /\ req' = [req EXCEPT ![r].phase = "parse", ![r].query = Code[p.id]]
    <2>1. p.id \in Ids BY <1>4, <1>8 DEF ParamsOf
    <2>2. Code[p.id] \in Texts /\ Code[p.id] = TextWanted(p)
      BY <1>8, <2>1, PipelineAssumption DEF TextWanted
    <2>3. QED BY <1>6, <1>8, <2>2
  <1>9. QED BY <1>5, <1>7, <1>8 DEF Preregistered

\* What a build ends with, for the requests that wait for it.
LEMMA BuildsInv ==
    ASSUME IInv, NEW o \in Overrides, o \in building, NEW schema \in Schema,
           schema # Default => schema.of = o, Builds(o, schema), SchemasOK',
           building' = building \ {o}, built' \in [Overrides -> 0 .. MaxBuilds],
           UNCHANGED <<startup, queries, caches>>
    PROVE  IInv'
  <1>1. Types /\ RequestsOK BY DEF IInv
  <1>2. req \in [Requests -> RequestType] BY <1>1 DEF Types
  <1>3. /\ schemas' = [schemas EXCEPT ![o] = [schema |-> schema, state |-> "fresh"]]
        /\ req' = [q \in Requests |->
                     IF req[q].phase = "building" /\ req[q].params.svco = o
                     THEN [req[q] EXCEPT !.phase = "params", !.schema = schema] ELSE req[q]]
    BY DEF Builds
  <1>4. ASSUME NEW q \in Requests, req[q].phase = "building", req[q].params.svco = o
        PROVE  req'[q] \in RequestType /\ Harmless(q)
    <2>1. req'[q] = [req[q] EXCEPT !.phase = "params", !.schema = schema] BY <1>3, <1>4
    <2>2. req[q] \in RequestType /\ RequestOK(q) BY <1>1, <1>2 DEF RequestsOK
    <2>3. /\ serving /\ req[q].run = NoCode /\ ~req[q].parsed /\ req[q].params \in ParamsOf
      BY <1>4, EarlyFacts DEF Early
    <2>4. OverriddenBy(o) BY <1>4, <2>2 DEF RequestOK
    <2>5. /\ req'[q].phase = "params" /\ req'[q].schema = schema
          /\ req'[q].params = req[q].params /\ req'[q].run = req[q].run
          /\ req'[q].parsed = req[q].parsed
      BY <2>1, <2>2 DEF RequestType
    <2>6. "params" \in Phases BY DEF Phases
    <2>7. req'[q] \in RequestType BY <2>1, <2>2, <2>6 DEF RequestType
    <2>8. RequestOK(q)' BY <1>4, <2>3, <2>4, <2>5 DEF RequestOK
    <2>9. QED BY <2>3, <2>5, <2>7, <2>8 DEF Harmless
  <1>5. \A q \in Requests : req'[q] = req[q] \/ Harmless(q) BY <1>3, <1>4
  <1>6. req' \in [Requests -> RequestType]
    <2>1. \A q \in Requests : req'[q] \in RequestType BY <1>2, <1>3, <1>4
    <2>2. req' = [q \in Requests |-> req'[q]] BY <1>3
    <2>3. QED BY <2>1, <2>2
  <1>7. schemas' \in [Overrides -> [schema : Schema, state : {"absent", "fresh", "stale"}]]
    BY <1>1, <1>3 DEF Types
  <1>8. Types' BY <1>1, <1>6, <1>7 DEF Types, startup, queries, caches
  <1>9. QED BY <1>5, <1>8, EarlyStep

LEMMA BuildFailsInv ==
    ASSUME IInv, NEW o \in Overrides, BuildFails(o),
           building' = building \ {o}, UNCHANGED <<startup, queries, built, caches>>
    PROVE  IInv'
  <1>1. Types /\ SchemasOK BY DEF IInv
  <1>2. req \in [Requests -> RequestType] BY <1>1 DEF Types
  <1>3. /\ schemas' = [schemas EXCEPT ![o] = Absent]
        /\ req' = [q \in Requests |->
                     IF req[q].phase = "building" /\ req[q].params.svco = o
                     THEN RefusedIn(req, q)[q] ELSE req[q]]
    BY DEF BuildFails
  <1>4. ASSUME NEW q \in Requests, req[q].phase = "building", req[q].params.svco = o
        PROVE  req'[q] \in RequestType /\ Harmless(q)
    BY <1>3, <1>4, RefusedRequest DEF Early
  <1>5. \A q \in Requests : req'[q] = req[q] \/ Harmless(q) BY <1>3, <1>4
  <1>6. req' \in [Requests -> RequestType]
    <2>1. \A q \in Requests : req'[q] \in RequestType BY <1>2, <1>3, <1>4
    <2>2. req' = [q \in Requests |-> req'[q]] BY <1>3
    <2>3. QED BY <2>1, <2>2
  <1>7. Absent \in [schema : Schema, state : {"absent", "fresh", "stale"}] /\ Absent.schema = Default
    BY DEF Absent, Schema
  <1>8. schemas' \in [Overrides -> [schema : Schema, state : {"absent", "fresh", "stale"}]]
    BY <1>1, <1>3, <1>7 DEF Types
  <1>9. Types' BY <1>1, <1>6, <1>8 DEF Types, startup, queries, caches
  <1>10. SchemasOK'
    <2>1. \A x \in Overrides : schemas'[x] = IF x = o THEN Absent ELSE schemas[x]
      BY <1>1, <1>3 DEF Types
    <2>2. QED BY <1>1, <1>7, <2>1 DEF SchemasOK
  <1>11. QED BY <1>5, <1>9, <1>10, EarlyStep

LEMMA BuildSchemaInv == ASSUME IInv, NEW o \in Overrides, BuildSchema(o) PROVE IInv'
  <1>1. Types /\ SchemasOK BY DEF IInv
  <1>2. o \in building /\ building' = building \ {o} /\ UNCHANGED <<startup, queries, caches>>
    BY DEF BuildSchema
  <1>3. /\ built \in [Overrides -> 0 .. MaxBuilds] /\ MaxBuilds \in Nat /\ DOMAIN schemas = Overrides
    BY <1>1, PipelineAssumption DEF Types
  <1>4. CASE /\ built[o] < MaxBuilds /\ built' = [built EXCEPT ![o] = @ + 1]
             /\ Builds(o, [of |-> o, n |-> built'[o]])
    <2>1. PICK s : s = [of |-> o, n |-> built[o] + 1] OBVIOUS
    <2>2. built' \in [Overrides -> 0 .. MaxBuilds] /\ built'[o] = built[o] + 1 BY <1>3, <1>4
    <2>3. s \in Schema /\ s.of = o /\ s.n = built'[o] BY <1>3, <1>4, <2>1, <2>2 DEF Schema
    <2>4. Builds(o, s) BY <1>4, <2>1, <2>2
    <2>5. \A x \in Overrides : schemas'[x] = IF x = o THEN [schema |-> s, state |-> "fresh"]
                                             ELSE schemas[x]
      BY <1>3, <2>4 DEF Builds
    <2>6. SchemasOK'
      <3>1. ASSUME NEW x \in Overrides
            PROVE  schemas'[x].schema \in {Default} \cup [of : {x}, n : 1 .. built'[x]]
        <4>1. CASE x = o
          <5>1. s \in [of : {o}, n : 1 .. built'[o]] BY <1>3, <2>1, <2>2
          <5>2. QED BY <2>5, <4>1, <5>1
        <4>2. CASE x # o
          <5>1. schemas'[x] = schemas[x] /\ built'[x] = built[x] BY <1>3, <1>4, <2>5, <4>2
          <5>2. QED BY <1>1, <5>1 DEF SchemasOK
        <4>3. QED BY <4>1, <4>2
      <3>2. QED BY <3>1 DEF SchemasOK
    <2>7. QED BY <1>2, <2>2, <2>3, <2>4, <2>6, BuildsInv
  <1>5. CASE Builds(o, Default) /\ UNCHANGED built
    <2>1. Default \in Schema BY DEF Schema
    <2>2. \A x \in Overrides : schemas'[x].schema = Default \/ schemas'[x] = schemas[x]
      BY <1>3, <1>5 DEF Builds
    <2>3. SchemasOK' BY <1>1, <1>5, <2>2 DEF SchemasOK
    <2>4. QED BY <1>2, <1>3, <1>5, <2>1, <2>3, BuildsInv
  <1>6. CASE BuildFails(o) /\ UNCHANGED built
    BY <1>2, <1>6, BuildFailsInv
  <1>7. QED BY <1>4, <1>5, <1>6 DEF BuildSchema

-----------------------------------------------------------------------------
(***************************************************************************)
(* Parsing and validation.                                                 *)
(***************************************************************************)

\* The key a document is looked up under stands for the text the request wants.
LEMMA PickedKey ==
    ASSUME IInv, NEW r \in Requests, req[r].phase = "parse"
    PROVE  LET store == PickDocumentCache(r)[1]
               key == PickDocumentCache(r)[2]
           IN /\ store \in Stores /\ key \in KeysOf(store)
              /\ TextOf(store, key) = TextWanted(req[r].params)
              /\ req[r].params.id # None => store = "preregistered" /\ key = req[r].params.id
              /\ req[r].params.id = None => store # "preregistered"
  <1> DEFINE p == req[r].params
  <1>1. /\ p \in ParamsOf /\ req[r].query = TextWanted(p) /\ req[r].query \in Texts
    BY DEF IInv, RequestsOK, RequestOK
  <1>2. p.id \in Ids \cup {None} /\ p.hash \in Texts \cup {None} BY <1>1 DEF ParamsOf
  <1>3. CASE p.id # None
    <2>1. PickDocumentCache(r)[1] = "preregistered" /\ PickDocumentCache(r)[2] = p.id
      BY <1>3 DEF PickDocumentCache
    <2>2. QED BY <1>2, <1>3, <2>1 DEF Stores, KeysOf, TextOf, TextWanted
  <1>4. CASE p.id = None /\ p.hash # None
    <2>1. PickDocumentCache(r)[1] = "persisted" /\ PickDocumentCache(r)[2] = p.hash
      BY <1>4 DEF PickDocumentCache
    <2>2. QED BY <1>2, <1>4, <2>1 DEF Stores, KeysOf, TextOf, TextWanted
  <1>5. CASE p.id = None /\ p.hash = None
    <2>1. PickDocumentCache(r)[1] = "default" /\ PickDocumentCache(r)[2] = req[r].query
      BY <1>5 DEF PickDocumentCache
    <2>2. QED BY <1>1, <1>5, <2>1 DEF Stores, KeysOf, TextOf, TextWanted
  <1>6. QED BY <1>3, <1>4, <1>5

\* Whether it was found or parsed, the document is that text.
LEMMA ParsedIsWanted ==
    ASSUME IInv, NEW r \in Requests, req[r].phase = "parse"
    PROVE  LET store == PickDocumentCache(r)[1]
               key == PickDocumentCache(r)[2]
           IN /\ Parsed(r) \in DocsOf(store) /\ Parsed(r) \in Doc
              /\ Parsed(r).text = TextWanted(req[r].params)
              /\ \A i \in DOMAIN documents[store] :
                    documents[store][i].key = key => Parsed(r) = documents[store][i].val
  <1>1. PICK store, key : store = PickDocumentCache(r)[1] /\ key = PickDocumentCache(r)[2]
    OBVIOUS
  <1>2. store \in Stores /\ TextOf(store, key) = TextWanted(req[r].params) BY <1>1, PickedKey
  <1>3. PICK lru : lru = documents[store] OBVIOUS
  <1>4. /\ lru \in LRU(KeysOf(store), DocsOf(store), MaxDocuments)
        /\ \A i \in DOMAIN lru : lru[i].val.text = TextOf(store, lru[i].key)
    BY <1>2, <1>3 DEF IInv, StoresOK, StoreOK
  <1>5. /\ \A i \in DOMAIN lru : lru[i].val \in DocsOf(store)
        /\ \A i, j \in DOMAIN lru : lru[i].key = lru[j].key => i = j
    BY <1>4, LRUFacts
  <1>6. /\ Parsed(r) \in DocsOf(store) /\ Parsed(r).text = TextWanted(req[r].params)
        /\ \A i \in DOMAIN lru : lru[i].key = key => Parsed(r) = lru[i].val
    <2>1. CASE Has(lru, key)
      <3>1. Parsed(r) = ValueOf(lru, key) BY <1>1, <1>3, <2>1 DEF Parsed
      <3>2. PICK i \in DOMAIN lru : lru[i].key = key /\ ValueOf(lru, key) = lru[i].val
        BY <1>4, <2>1, FoundValue
      <3>3. QED BY <1>2, <1>4, <1>5, <3>1, <3>2
    <2>2. CASE ~Has(lru, key)
      <3>1. Parsed(r) = [text |-> req[r].query, store |-> store, by |-> r]
        BY <1>1, <1>3, <2>2 DEF Parsed
      <3>2. req[r].query = TextWanted(req[r].params) /\ req[r].query \in Texts
        BY DEF IInv, RequestsOK, RequestOK
      <3>3. \A i \in DOMAIN lru : lru[i].key # key BY <2>2 DEF Has
      <3>4. QED BY <3>1, <3>2, <3>3 DEF DocsOf
    <2>3. QED BY <2>1, <2>2
  <1>7. Parsed(r) \in Doc BY <1>2, <1>6 DEF DocsOf, Doc
  <1>8. QED BY <1>1, <1>3, <1>6, <1>7

\* What onParse makes of the stores.
LEMMA OnParseStores ==
    ASSUME IInv, NEW r \in Requests, req[r].phase = "parse", OnParse(r), UNCHANGED startup
    PROVE  StoresOK' /\ WarmedStay'
  <1>1. PICK store, key, doc :
           store = PickDocumentCache(r)[1] /\ key = PickDocumentCache(r)[2] /\ doc = Parsed(r)
    OBVIOUS
  <1>2. /\ store \in Stores /\ key \in KeysOf(store)
        /\ TextOf(store, key) = TextWanted(req[r].params)
    BY <1>1, PickedKey
  <1>3. /\ doc \in DocsOf(store) /\ doc.text = TextWanted(req[r].params)
        /\ \A i \in DOMAIN documents[store] :
              documents[store][i].key = key => doc = documents[store][i].val
    BY <1>1, ParsedIsWanted
  <1>4. StoresOK /\ Types /\ WarmedStay BY DEF IInv
  <1>5. MaxDocuments \in Nat \ {0} /\ IsFiniteSet(Ids) BY PipelineAssumption
  <1>6. PICK lru : lru = documents[store] OBVIOUS
  <1>7. /\ lru \in LRU(KeysOf(store), DocsOf(store), MaxDocuments)
        /\ \A i \in DOMAIN lru : lru[i].val.text = TextOf(store, lru[i].key)
    BY <1>2, <1>4, <1>6 DEF StoresOK, StoreOK
  <1>8. PICK new : new = Put(lru, key, doc, MaxDocuments) OBVIOUS
  <1>9. PICK e : e = [key |-> key, val |-> doc] OBVIOUS
  <1>10. DOMAIN documents' = Stores /\ documents'[store] = new
         /\ \A s \in Stores : s # store => documents'[s] = documents[s]
    BY <1>1, <1>2, <1>4, <1>6, <1>8 DEF OnParse, StoresOK
  <1>11. /\ new \in LRU(KeysOf(store), DocsOf(store), MaxDocuments)
         /\ \A i \in DOMAIN new :
               new[i] = e \/ \E j \in DOMAIN lru : lru[j].key # key /\ new[i] = lru[j]
    BY <1>2, <1>3, <1>5, <1>7, <1>8, <1>9, PutOne
  <1>12. e.val.text = TextOf(store, e.key) BY <1>2, <1>3, <1>9
  <1>13. \A i \in DOMAIN new : new[i].val.text = TextOf(store, new[i].key)
    BY <1>7, <1>11, <1>12
  <1>14. StoresOK'
    <2>1. ASSUME NEW s \in Stores PROVE StoreOK(s)'
      <3>1. CASE s = store BY <1>10, <1>11, <1>13, <3>1 DEF StoreOK
      <3>2. CASE s # store BY <1>4, <1>10, <3>2 DEF StoreOK, StoresOK
      <3>3. QED BY <3>1, <3>2
    <2>2. QED BY <1>10, <2>1 DEF StoresOK
  <1>15. WarmedStay'
    <2>1. SUFFICES ASSUME serving, Cardinality(Ids) <= MaxDocuments, NEW id \in warmed
                   PROVE  \E i \in DOMAIN documents'["preregistered"] :
                             /\ documents'["preregistered"][i].key = id
                             /\ documents'["preregistered"][i].val.by = "prewarm"
      BY DEF WarmedStay, startup
    <2>2. PICK j \in DOMAIN documents["preregistered"] :
             /\ documents["preregistered"][j].key = id
             /\ documents["preregistered"][j].val.by = "prewarm"
      BY <1>4, <2>1 DEF WarmedStay
    <2>3. CASE store # "preregistered" BY <1>10, <2>2, <2>3 DEF Stores
    <2>4. CASE store = "preregistered"
      <3>1. KeysOf(store) = Ids BY <2>4 DEF KeysOf
      <3>2. /\ \E i \in DOMAIN new : new[i] = e
            /\ \A x \in DOMAIN lru : lru[x].key # key => \E i \in DOMAIN new : new[i] = lru[x]
        BY <1>2, <1>3, <1>5, <1>7, <1>8, <1>9, <2>1, <3>1, PutForgetsNothing
      <3>3. j \in DOMAIN lru /\ lru[j].key = id /\ lru[j].val.by = "prewarm"
        BY <1>6, <2>2, <2>4
      <3>4. CASE id = key
        <4>1. e.key = id /\ e.val.by = "prewarm" BY <1>3, <1>6, <1>9, <3>3, <3>4
        <4>2. QED BY <1>10, <2>4, <3>2, <4>1
      <3>5. CASE id # key BY <1>10, <2>4, <3>2, <3>3, <3>5
      <3>6. QED BY <3>4, <3>5
    <2>5. QED BY <2>3, <2>4
  <1>16. QED BY <1>14, <1>15

\* A document that the request itself has parsed was not there at start-up.
LEMMA ParsedIsNotWarmed ==
    ASSUME IInv, NEW r \in Requests, req[r].phase = "parse", Parsed(r).by = r,
           Cardinality(Ids) <= MaxDocuments
    PROVE  req[r].params.id \notin warmed
  <1>1. SUFFICES ASSUME req[r].params.id \in warmed PROVE FALSE OBVIOUS
  <1>2. WarmedStay /\ BeforeServing /\ Types BY DEF IInv
  <1>3. serving BY <1>2 DEF BeforeServing, Idle
  <1>4. PICK i \in DOMAIN documents["preregistered"] :
           /\ documents["preregistered"][i].key = req[r].params.id
           /\ documents["preregistered"][i].val.by = "prewarm"
    BY <1>1, <1>2, <1>3 DEF WarmedStay
  <1>5. req[r].params.id # None BY <1>1, <1>2, PipelineAssumption DEF Types
  <1>6. /\ PickDocumentCache(r)[1] = "preregistered"
        /\ PickDocumentCache(r)[2] = req[r].params.id
    BY <1>5, PickedKey
  <1>7. Parsed(r) = documents["preregistered"][i].val BY <1>4, <1>6, ParsedIsWanted
  <1>8. QED BY <1>4, <1>7, PipelineAssumption

LEMMA IsValidIsValid ==
    ASSUME ValidatedOK, NEW schema, NEW doc
    PROVE  IsValid(schema, doc) = Valid(schema, doc)
  BY DEF ValidatedOK, IsValid, Key

LEMMA OnValidateResults ==
    ASSUME ValidatedOK, NEW schema \in Schema, NEW doc \in Doc, OnValidate(schema, doc)
    PROVE  /\ ValidatedOK' /\ DOMAIN validated' = {Key(schema, doc)} \cup DOMAIN validated
  <1>1. validated' = BiWeakMapSet(validated, Key(schema, doc), Valid(schema, doc))
    BY IsValidIsValid DEF OnValidate
  <1>2. /\ DOMAIN validated' = {Key(schema, doc)} \cup DOMAIN validated
        /\ validated'[Key(schema, doc)] = Valid(schema, doc)
        /\ \A k \in DOMAIN validated : k # Key(schema, doc) => validated'[k] = validated[k]
    BY <1>1 DEF BiWeakMapSet
  <1>3. Key(schema, doc) \in Schema \X Doc BY DEF Key
  <1>4. Key(schema, doc)[1] = schema /\ Key(schema, doc)[2] = doc BY DEF Key
  <1>5. QED BY <1>2, <1>3, <1>4 DEF ValidatedOK

LEMMA ParseAndValidateInv == ASSUME IInv, NEW r \in Requests, ParseAndValidate(r) PROVE IInv'
  <1>1. /\ Types /\ SchemasOK /\ StoresOK /\ ValidatedOK /\ JitOK /\ RequestsOK /\ BeforeServing
        /\ AnnouncedOnce /\ TimersOK /\ WarmedStay /\ AnswersOwnQuery /\ WarmedIsNotParsed
    BY DEF IInv
  <1>2. PICK doc, schema : doc = Parsed(r) /\ schema = req[r].schema OBVIOUS
  <1>3. /\ req[r].phase = "parse" /\ OnParse(r)
        /\ OnValidate(schema, doc) \/ validated' = validated
        /\ UNCHANGED <<startup, queries, overrides, jit, timers>>
        /\ \/ /\ doc.text \notin Unparsable /\ IsValid(schema, doc) /\ OnValidate(schema, doc)
              /\ req' = [req EXCEPT ![r].phase = "execute", ![r].doc = doc,
                                    ![r].parsed = (doc.by = r)]
           \/ Refused(r)
    BY <1>2 DEF ParseAndValidate
  <1>4. req \in [Requests -> RequestType] /\ req[r] \in RequestType BY <1>1, RequestFacts DEF Types
  <1>5. RequestOK(r) BY <1>1 DEF RequestsOK
  <1>6. /\ req[r].params \in ParamsOf /\ req[r].run = NoCode /\ ~req[r].parsed
        /\ Untrusted(req[r].params) => req[r].params.id # None
    BY <1>3, <1>5 DEF RequestOK
  <1>7. serving BY <1>1, <1>3 DEF BeforeServing, Idle
  <1>8. doc \in Doc /\ doc.text = TextWanted(req[r].params) BY <1>2, <1>3, ParsedIsWanted
  <1>9. schema \in Schema BY <1>1, <1>2, RequestFacts
  <1>10. /\ ValidatedOK' /\ DOMAIN validated \subseteq DOMAIN validated'
         /\ OnValidate(schema, doc) => Key(schema, doc) \in DOMAIN validated'
    <2>1. CASE OnValidate(schema, doc) BY <1>1, <1>8, <1>9, <2>1, OnValidateResults
    <2>2. CASE validated' = validated /\ ~OnValidate(schema, doc) BY <1>1, <2>2 DEF ValidatedOK
    <2>3. QED BY <1>3, <2>1, <2>2
  <1>11. StoresOK' /\ WarmedStay' BY <1>3, OnParseStores
  <1>12. /\ req' \in [Requests -> RequestType] /\ RequestOK(r)'
         /\ req'[r].run = NoCode /\ req'[r].params = req[r].params
         /\ req'[r].phase = "execute" \/ (req'[r].phase = "done" /\ req'[r].answer = Error)
         /\ req'[r].parsed => doc.by = r
         /\ \A q \in Requests : q # r => req'[q] = req[q]
    <2>1. CASE /\ IsValid(schema, doc) /\ OnValidate(schema, doc)
               /\ req' = [req EXCEPT ![r].phase = "execute", ![r].doc = doc,
                                     ![r].parsed = (doc.by = r)]
      <3>1. (doc.by = r) \in BOOLEAN OBVIOUS
      <3>2. PICK b \in BOOLEAN : b = (doc.by = r) BY <3>1
      <3>3. /\ req'[r].phase = "execute" /\ req'[r].doc = doc /\ req'[r].parsed = b
            /\ req'[r].params = req[r].params /\ req'[r].schema = schema
            /\ req'[r].run = req[r].run /\ req'[r].query = req[r].query
        BY <1>2, <1>4, <2>1, <3>2 DEF RequestType
      <3>4. "execute" \in Phases BY DEF Phases
      <3>5. req' \in [Requests -> RequestType] BY <1>4, <1>8, <2>1, <3>2, <3>4 DEF RequestType
      <3>6. Valid(schema, doc) BY <1>1, <2>1, IsValidIsValid
      <3>7. Key(req[r].schema, doc) \in DOMAIN validated' BY <1>2, <1>10, <2>1
      <3>8. RequestOK(r)'
        BY <1>2, <1>5, <1>6, <1>8, <3>3, <3>6, <3>7 DEF RequestOK, Key
      <3>9. \A q \in Requests : q # r => req'[q] = req[q] BY <1>4, <2>1
      <3>10. req'[r].parsed => doc.by = r BY <3>2, <3>3
      <3>11. QED BY <1>6, <3>3, <3>5, <3>8, <3>9, <3>10
    <2>2. CASE Refused(r)
      <3>1. req' = [req EXCEPT ![r].phase = "done", ![r].answer = Error]
        BY <2>2 DEF Refused, RefusedIn
      <3>2. "done" \in Phases /\ Error \in Answers BY ErrorIsAnswer DEF Phases
      <3>3. /\ req'[r].phase = "done" /\ req'[r].answer = Error /\ req'[r].params = req[r].params
            /\ req'[r].schema = req[r].schema /\ req'[r].run = req[r].run
            /\ req'[r].parsed = req[r].parsed
        BY <1>4, <3>1 DEF RequestType
      <3>4. req' \in [Requests -> RequestType] BY <1>4, <3>1, <3>2 DEF RequestType
      <3>5. RequestOK(r)' BY <1>5, <1>6, <3>3 DEF RequestOK
      <3>6. \A q \in Requests : q # r => req'[q] = req[q] BY <1>4, <3>1
      <3>7. QED BY <1>6, <3>3, <3>4, <3>5, <3>6
    <2>3. QED BY <1>3, <2>1, <2>2
  <1>13. Types' BY <1>1, <1>3, <1>12 DEF Types, startup, queries, overrides
  <1>14. SchemasOK' BY <1>1, <1>3 DEF SchemasOK, overrides
  <1>15. NoCode # Announced BY DEF NoCode, Announced
  <1>16. \A q \in Requests : req[q].run = Announced \/ req'[q].run = Announced => req'[q] = req[q]
    BY <1>6, <1>12, <1>15
  <1>17. AnnouncedStay BY <1>16 DEF AnnouncedStay
  <1>18. JitOK' BY <1>1, <1>3, <1>10, <1>17, JitStays
  <1>19. RequestsOK' BY <1>1, <1>10, <1>12, <1>17, RequestsStay
  <1>20. BeforeServing' BY <1>3, <1>7 DEF BeforeServing, startup
  <1>21. AnnouncedOnce' BY <1>1, <1>3, <1>16 DEF AnnouncedOnce, Key
  <1>22. TimersOK'
    <2>1. \A t \in timers : t.by \in Requests BY <1>1 DEF Types
    <2>2. QED BY <1>1, <1>3, <1>16, <2>1 DEF TimersOK
  <1>23. AnswersOwnQuery'
    <2>1. \A q \in Requests : req'[q] = req[q] \/ AnsweredOK(q)' BY <1>12 DEF AnsweredOK
    <2>2. QED BY <1>1, <1>17, <2>1, AnswersStay
  <1>24. WarmedIsNotParsed'
    <2>1. Cardinality(Ids) <= MaxDocuments /\ doc.by = r => req[r].params.id \notin warmed
      BY <1>2, <1>3, ParsedIsNotWarmed
    <2>2. QED BY <1>1, <1>3, <1>12, <2>1 DEF WarmedIsNotParsed, startup
  <1>25. QED
    BY <1>10, <1>11, <1>13, <1>14, <1>18, <1>19, <1>20, <1>21, <1>22, <1>23, <1>24 DEF IInv

-----------------------------------------------------------------------------
(***************************************************************************)
(* Execution and compilation.                                              *)
(***************************************************************************)

LEMMA KindsOfCode ==
    /\ \A c \in Codes : c.kind = "code" /\ c \notin {NoCode, Announced, Compiling, Failed}
    /\ NoCode.kind # "code" /\ Announced.kind # "code" /\ Compiling.kind # "code"
    /\ Failed.kind # "code"
    /\ NoCode # Announced /\ NoCode # Compiling /\ NoCode # Failed
    /\ Announced # Compiling /\ Announced # Failed /\ Compiling # Failed
  BY DEF Codes, NoCode, Announced, Compiling, Failed

\* What a request that executes relies on.
LEMMA ExecuteFacts ==
    ASSUME IInv, NEW r \in Requests, req[r].phase \in {"execute", "executing"}
    PROVE  /\ serving /\ req[r].params \in ParamsOf /\ req[r].schema \in Schema
           /\ req[r].doc \in Doc /\ req[r].doc.text = TextWanted(req[r].params)
           /\ Valid(req[r].schema, req[r].doc)
           /\ Key(req[r].schema, req[r].doc) \in DOMAIN validated
           /\ Untrusted(req[r].params) => req[r].params.id # None
           /\ req[r].schema # Default =>
                 OverriddenBy(req[r].params.svco) /\ req[r].schema.of = req[r].params.svco
           /\ req[r].phase = "execute" => req[r].run = NoCode
  <1>1. RequestOK(r) /\ BeforeServing /\ Types BY DEF IInv, RequestsOK
  <1>2. serving BY <1>1 DEF BeforeServing, Idle
  <1>3. req[r].schema \in Schema BY <1>1, RequestFacts
  <1>4. QED BY <1>1, <1>2, <1>3 DEF RequestOK

\* A step of the execution, whose caches are still to be looked at.
LEMMA LateStep ==
    ASSUME IInv, NEW r \in Requests, req[r].phase \in {"execute", "executing"},
           UNCHANGED <<startup, queries, overrides, documents, validated>>,
           timers' \subseteq [schema : Schema, doc : Doc, op : Operations, by : Requests],
           req' \in [Requests -> RequestType], \A q \in Requests : q # r => req'[q] = req[q],
           AnnouncedStay, RequestOK(r)', AnsweredOK(r)',
           req'[r].parsed = req[r].parsed, req'[r].params = req[r].params,
           JitOK', AnnouncedOnce', TimersOK'
    PROVE  IInv'
  <1>1. /\ Types /\ SchemasOK /\ StoresOK /\ ValidatedOK /\ JitOK /\ RequestsOK
        /\ WarmedStay /\ AnswersOwnQuery /\ WarmedIsNotParsed
    BY DEF IInv
  <1>2. Types' BY <1>1 DEF Types, startup, queries, overrides
  <1>3. SchemasOK' BY <1>1 DEF SchemasOK, overrides
  <1>4. StoresOK' BY <1>1 DEF StoresOK, StoreOK
  <1>5. ValidatedOK' BY <1>1 DEF ValidatedOK
  <1>6. RequestsOK' BY <1>1, RequestsStay
  <1>7. BeforeServing' BY ExecuteFacts DEF BeforeServing, startup
  <1>8. WarmedStay' BY <1>1 DEF WarmedStay, startup
  <1>9. AnswersOwnQuery' BY <1>1, AnswersStay
  <1>10. WarmedIsNotParsed' BY <1>1 DEF WarmedIsNotParsed, startup
  <1>11. QED BY <1>2, <1>3, <1>4, <1>5, <1>6, <1>7, <1>8, <1>9, <1>10 DEF IInv

\* The timers and announcements of others, in a step of a request that announces nothing.
LEMMA OthersStay ==
    ASSUME IInv, NEW r \in Requests, jit' = jit, timers' = timers, req[r].run # Announced,
           req'[r].run # Announced, \A q \in Requests : q # r => req'[q] = req[q]
    PROVE  AnnouncedStay /\ AnnouncedOnce' /\ TimersOK'
  <1>1. AnnouncedOnce /\ TimersOK /\ Types BY DEF IInv
  <1>2. \A q \in Requests : req[q].run = Announced \/ req'[q].run = Announced => req'[q] = req[q]
    OBVIOUS
  <1>3. AnnouncedStay BY <1>2 DEF AnnouncedStay
  <1>4. AnnouncedOnce' BY <1>1, <1>2 DEF AnnouncedOnce, Key
  <1>5. \A t \in timers : t.by \in Requests BY <1>1 DEF Types
  <1>6. TimersOK' BY <1>1, <1>2, <1>5 DEF TimersOK
  <1>7. QED BY <1>3, <1>4, <1>6

LEMMA ExecuteInv == ASSUME IInv, NEW r \in Requests, Execute(r) PROVE IInv'
  <1>1. /\ Types /\ JitOK /\ RequestsOK /\ AnnouncedOnce /\ TimersOK BY DEF IInv
  <1>2. PICK key : key = Key(req[r].schema, req[r].doc) OBVIOUS
  <1>3. /\ req[r].phase = "execute"
        /\ UNCHANGED <<startup, queries, overrides, documents, validated, timers>>
    BY DEF Execute
  <1>4. PICK found :
           /\ found = IF key \in DOMAIN jit THEN jit[key] ELSE IF Jit THEN Announced ELSE NoCode
           /\ req' = [req EXCEPT ![r].phase = "executing",
                                 ![r].run = IF found = Compiling THEN NoCode ELSE found]
           /\ jit' = IF found = Announced THEN BiWeakMapSet(jit, key, Compiling) ELSE jit
    BY <1>2 DEF Execute
  <1>5. PICK run : run = IF found = Compiling THEN NoCode ELSE found OBVIOUS
  <1>6. req \in [Requests -> RequestType] /\ req[r] \in RequestType BY <1>1, RequestFacts DEF Types
  <1>7. RequestOK(r) /\ req[r].run = NoCode BY <1>1, <1>3, ExecuteFacts DEF RequestsOK
  <1>8. /\ key[1] = req[r].schema /\ key[2] = req[r].doc /\ key \in DOMAIN validated
    BY <1>2, <1>3, ExecuteFacts DEF Key
  <1>9. found \in Codes \cup {Compiling, Failed, Announced, NoCode}
    BY <1>1, <1>4 DEF JitOK
  <1>10. run \in Codes \cup {NoCode, Announced, Failed} BY <1>5, <1>9
  <1>11. "executing" \in Phases BY DEF Phases
  <1>12. req' \in [Requests -> RequestType] BY <1>4, <1>5, <1>6, <1>10, <1>11 DEF RequestType
  <1>13. /\ req'[r].phase = "executing" /\ req'[r].run = run /\ req'[r].params = req[r].params
         /\ req'[r].schema = req[r].schema /\ req'[r].doc = req[r].doc
         /\ req'[r].parsed = req[r].parsed /\ req'[r].query = req[r].query
    BY <1>4, <1>5, <1>6 DEF RequestType
  <1>14. \A q \in Requests : q # r => req'[q] = req[q] BY <1>4, <1>6
  <1>15. AnnouncedStay BY <1>7, <1>14, KindsOfCode DEF AnnouncedStay
  <1>16. run # NoCode => Jit /\ RightCode(run, req[r].schema, req[r].doc)'
    <2>1. PICK s, d : s = req[r].schema /\ d = req[r].doc OBVIOUS
    <2>2. run # NoCode => Jit /\ RightCode(run, s, d)
      <3>1. CASE key \in DOMAIN jit
        <4>1. Jit /\ RightCode(jit[key], s, d) BY <1>1, <1>8, <2>1, <3>1 DEF JitOK
        <4>2. QED BY <1>4, <1>5, <3>1, <4>1
      <3>2. CASE key \notin DOMAIN jit
        BY <1>4, <1>5, <3>2, KindsOfCode DEF RightCode
      <3>3. QED BY <3>1, <3>2
    <2>3. RightCode(run, s, d) => RightCode(run, s, d)' BY <1>15, RightCodeStays
    <2>4. RightCode(run, s, d)' => RightCode(run, req[r].schema, req[r].doc)'
      BY <1>13, <2>1 DEF RightCode, Misnamed
    <2>5. QED BY <2>2, <2>3, <2>4
  <1>17. RequestOK(r)'
    <2>1. run # NoCode => RightCode(req[r].run, req[r].schema, req[r].doc)'
      BY <1>13, <1>16 DEF RightCode, Misnamed
    <2>2. RequestOK(r) /\ req[r].phase = "execute" /\ req[r].doc \in Doc
      BY <1>3, <1>7, ExecuteFacts
    <2>3. QED BY <1>3, <1>13, <1>16, <2>1, <2>2 DEF RequestOK, Key
  <1>18. AnsweredOK(r)' BY <1>13 DEF AnsweredOK
  <1>19. CASE found = Announced
    <2>1. key \notin DOMAIN jit /\ Jit
      <3>1. key \in DOMAIN jit => jit[key] # Announced BY <1>1, KindsOfCode DEF JitOK
      <3>2. QED BY <1>4, <1>19, <3>1, KindsOfCode
    <2>2. run = Announced BY <1>5, <1>19, KindsOfCode
    <2>3. jit' = BiWeakMapSet(jit, key, Compiling) BY <1>4, <1>19
    <2>4. /\ DOMAIN jit' = {key} \cup DOMAIN jit /\ jit'[key] = Compiling
          /\ \A k \in DOMAIN jit : jit'[k] = jit[k]
      BY <2>1, <2>3 DEF BiWeakMapSet
    <2>5. JitOK'
      <3>1. ASSUME NEW k \in DOMAIN jit
            PROVE  RightCode(jit[k], k[1], k[2])' /\ jit'[k] \in Codes \cup {Compiling, Failed}
        <4>1. PICK c : c = jit[k] OBVIOUS
        <4>2. c \in Codes \cup {Compiling, Failed} /\ RightCode(c, k[1], k[2])'
          BY <1>1, <1>15, <4>1, RightCodeStays DEF JitOK
        <4>3. QED BY <2>4, <4>1, <4>2 DEF RightCode, Misnamed
      <3>2. RightCode(jit[key], key[1], key[2])' BY <2>4, KindsOfCode DEF RightCode
      <3>3. QED BY <1>1, <1>3, <1>8, <2>1, <2>4, <3>1, <3>2 DEF JitOK
    <2>6. \A q \in Requests : q # r /\ req[q].run = Announced =>
             Key(req[q].schema, req[q].doc) \in DOMAIN jit
      BY <1>1 DEF AnnouncedOnce
    <2>7. AnnouncedOnce'
      BY <1>1, <1>2, <1>13, <1>14, <2>1, <2>2, <2>4, <2>6 DEF AnnouncedOnce, Key
    <2>8. TimersOK'
      <3>1. ASSUME NEW t \in timers
            PROVE  /\ t.by \in Requests /\ req'[t.by] = req[t.by]
                   /\ Key(t.schema, t.doc) \in DOMAIN jit
        <4>1. t.by \in Requests /\ req[t.by].run = Announced BY <1>1 DEF Types, TimersOK
        <4>2. t.by # r BY <1>7, <4>1, KindsOfCode
        <4>3. QED BY <1>1, <1>14, <4>1, <4>2 DEF AnnouncedOnce, TimersOK
      <3>2. QED BY <1>1, <1>3, <2>4, <3>1 DEF TimersOK, Key
    <2>9. QED
      BY <1>1, <1>3, <1>12, <1>13, <1>14, <1>15, <1>17, <1>18, <2>5, <2>7, <2>8, LateStep
         DEF Types
  <1>20. CASE found # Announced
    <2>1. jit' = jit /\ run # Announced BY <1>4, <1>5, <1>20, KindsOfCode
    <2>2. AnnouncedOnce' /\ TimersOK'
      BY <1>3, <1>7, <1>13, <1>14, <2>1, KindsOfCode, OthersStay
    <2>3. JitOK' BY <1>1, <1>3, <1>15, <2>1, JitStays
    <2>4. QED
      BY <1>1, <1>3, <1>12, <1>13, <1>14, <1>15, <1>17, <1>18, <2>2, <2>3, LateStep DEF Types
  <1>21. QED BY <1>19, <1>20

\* What an execution answers.
LEMMA FinishAnswer ==
    ASSUME IInv, NEW r \in Requests, req[r].phase = "executing", AnnouncedStay,
           req'[r].params = req[r].params, req'[r].schema = req[r].schema,
           req'[r].doc = req[r].doc, req'[r].answer # Error,
           req'[r].answer =
               IF req[r].run = Failed THEN Function
               ELSE IF req[r].run \notin {NoCode, Announced}
               THEN [text |-> req[r].doc.text, op |-> req[r].run.op, schema |-> req[r].run.schema]
               ELSE IF Names(req[r].params.op, req[r].doc.text)
               THEN [text |-> req[r].doc.text, op |-> req[r].params.op, schema |-> req[r].schema]
               ELSE Error
    PROVE  OwnAnswer(r)'
  <1>1. PICK text, op, s, d, run, answer :
           /\ text = req[r].doc.text /\ op = req[r].params.op /\ s = req[r].schema
           /\ d = req[r].doc /\ run = req[r].run /\ answer = req'[r].answer
    OBVIOUS
  <1>2. /\ text = TextWanted(req[r].params) /\ req[r].params \in ParamsOf
        /\ d.text = text
    BY <1>1, ExecuteFacts
  <1>3. op \in Operations /\ op # None BY <1>1, <1>2, PipelineAssumption DEF ParamsOf
  <1>4. PICK wanted : wanted = [text |-> text, op |-> op, schema |-> s] OBVIOUS
  <1>5. Wanted(r)' = wanted /\ Wanted(r)'.text = text BY <1>1, <1>2, <1>4 DEF Wanted, TextWanted
  <1>6. RequestOK(r) /\ Types BY DEF IInv, RequestsOK
  <1>7. run \in Codes \cup {NoCode, Announced, Failed} BY <1>1, <1>6, RequestFacts
  <1>8. run # NoCode => Jit /\ RightCode(run, s, d) BY <1>1, <1>6 DEF RequestOK
  <1>9. CASE run = Failed
    <2>1. Jit /\ (text \in Uncompilable \cup Shared \/ Misnamed(s, d))
      BY <1>2, <1>8, <1>9, KindsOfCode DEF RightCode
    <2>2. answer = Function BY <1>1, <1>9
    <2>3. Misnamed(s, d) => Misnamed(s, d)' BY MisnamedStays
    <2>4. Misnamed(s, d)' => Misnamed(req[r].schema, req[r].doc)' BY <1>1 DEF Misnamed
    <2>5. QED BY <1>1, <1>5, <2>1, <2>2, <2>3, <2>4 DEF OwnAnswer
  <1>10. CASE run \in Codes
    <2>1. Jit /\ run.schema = s /\ run.op \in OperationsOf(text)
      BY <1>2, <1>8, <1>10, KindsOfCode DEF RightCode
    <2>2. answer = [text |-> text, op |-> run.op, schema |-> s]
      BY <1>1, <1>10, <2>1, KindsOfCode
    <2>3. answer = [wanted EXCEPT !.op = run.op] BY <1>4, <2>2
    <2>4. CASE text \in Shared \/ ~Names(op, text)
      BY <1>1, <1>5, <2>1, <2>3, <2>4 DEF OwnAnswer
    <2>5. CASE text \notin Shared /\ Names(op, text)
      <3>1. run.op = op BY <1>3, <2>1, <2>5 DEF Names, OperationsOf
      <3>2. answer = wanted BY <1>4, <2>2, <3>1
      <3>3. QED BY <1>1, <1>5, <3>2 DEF OwnAnswer
    <2>6. QED BY <2>4, <2>5
  <1>11. CASE run \in {NoCode, Announced}
    <2>1. answer = wanted BY <1>1, <1>4, <1>11, KindsOfCode
    <2>2. QED BY <1>1, <1>5, <2>1 DEF OwnAnswer
  <1>12. QED BY <1>7, <1>9, <1>10, <1>11

LEMMA FinishTypes ==
    ASSUME IInv, NEW r \in Requests, req[r].phase = "executing", NEW answer,
           answer = IF req[r].run = Failed THEN Function
                    ELSE IF req[r].run \notin {NoCode, Announced}
                    THEN [text |-> req[r].doc.text, op |-> req[r].run.op,
                          schema |-> req[r].run.schema]
                    ELSE IF Names(req[r].params.op, req[r].doc.text)
                    THEN [text |-> req[r].doc.text, op |-> req[r].params.op,
                          schema |-> req[r].schema]
                    ELSE Error
    PROVE  answer \in Answers
  <1>1. /\ req[r].params \in ParamsOf /\ req[r].schema \in Schema /\ req[r].doc \in Doc
    BY ExecuteFacts
  <1>2. req[r].doc.text \in Texts /\ req[r].params.op \in Operations BY <1>1 DEF Doc, ParamsOf
  <1>3. req[r].run \in Codes \cup {NoCode, Announced, Failed} BY RequestFacts DEF IInv
  <1>4. req[r].run \in Codes => req[r].run.op \in Operations /\ req[r].run.schema \in Schema
    BY DEF Codes
  <1>5. Function \in Answers /\ Error \in Answers BY DEF Function, Error, Answers, Schema
  <1>6. \A t \in Texts, op \in Operations, s \in Schema :
           [text |-> t, op |-> op, schema |-> s] \in Answers
    BY DEF Answers
  <1>7. QED BY <1>1, <1>2, <1>3, <1>4, <1>5, <1>6

LEMMA FinishInv == ASSUME IInv, NEW r \in Requests, Finish(r) PROVE IInv'
  <1>1. /\ Types /\ JitOK /\ RequestsOK /\ AnnouncedOnce /\ TimersOK BY DEF IInv
  <1>2. PICK answer :
           /\ answer = IF req[r].run = Failed THEN Function
                       ELSE IF req[r].run \notin {NoCode, Announced}
                       THEN [text |-> req[r].doc.text, op |-> req[r].run.op,
                             schema |-> req[r].run.schema]
                       ELSE IF Names(req[r].params.op, req[r].doc.text)
                       THEN [text |-> req[r].doc.text, op |-> req[r].params.op,
                             schema |-> req[r].schema]
                       ELSE Error
           /\ req' = [req EXCEPT ![r].phase = "done", ![r].answer = answer]
    BY DEF Finish
  <1>3. /\ req[r].phase = "executing"
        /\ UNCHANGED <<startup, queries, overrides, documents, validated, jit>>
    BY DEF Finish
  <1>4. PICK timer : timer = [schema |-> req[r].schema, doc |-> req[r].doc,
                              op |-> req[r].params.op, by |-> r]
    OBVIOUS
  <1>5. timers' = IF req[r].run = Announced THEN timers \cup {timer} ELSE timers
    BY <1>4 DEF Finish
  <1>6. req \in [Requests -> RequestType] /\ req[r] \in RequestType BY <1>1, RequestFacts DEF Types
  <1>7. RequestOK(r) BY <1>1 DEF RequestsOK
  <1>8. answer \in Answers BY <1>2, <1>3, FinishTypes
  <1>9. "done" \in Phases BY DEF Phases
  <1>10. req' \in [Requests -> RequestType] BY <1>2, <1>6, <1>8, <1>9 DEF RequestType
  <1>11. /\ req'[r].phase = "done" /\ req'[r].answer = answer /\ req'[r].params = req[r].params
         /\ req'[r].schema = req[r].schema /\ req'[r].doc = req[r].doc
         /\ req'[r].parsed = req[r].parsed /\ req'[r].run = req[r].run
    BY <1>2, <1>6 DEF RequestType
  <1>12. \A q \in Requests : q # r => req'[q] = req[q] BY <1>2, <1>6
  <1>13. AnnouncedStay BY <1>11, <1>12 DEF AnnouncedStay
  <1>14. /\ req[r].params \in ParamsOf /\ req[r].schema \in Schema /\ req[r].doc \in Doc
         /\ Valid(req[r].schema, req[r].doc)
         /\ Untrusted(req[r].params) => req[r].params.id # None
         /\ req[r].schema # Default =>
               OverriddenBy(req[r].params.svco) /\ req[r].schema.of = req[r].params.svco
    BY <1>3, ExecuteFacts
  <1>15. RequestOK(r)'
    <2>1. PICK c, s, d : c = req[r].run /\ s = req[r].schema /\ d = req[r].doc OBVIOUS
    <2>2. RightCode(c, s, d) => RightCode(c, s, d)' BY <1>13, RightCodeStays
    <2>3. RightCode(req[r].run, req[r].schema, req[r].doc)
          => RightCode(req[r].run, req[r].schema, req[r].doc)'
      BY <1>11, <2>1, <2>2 DEF RightCode, Misnamed
    <2>4. QED BY <1>3, <1>7, <1>11, <1>14, <2>3 DEF RequestOK
  <1>16. AnsweredOK(r)'
    <2>1. req'[r].answer # Error => OwnAnswer(r)' BY <1>2, <1>3, <1>11, <1>13, FinishAnswer
    <2>2. QED BY <1>11, <1>14, <2>1 DEF AnsweredOK
  <1>17. JitOK' BY <1>1, <1>3, <1>13, JitStays
  <1>18. \A q \in Requests : /\ req'[q].run = req[q].run /\ req'[q].schema = req[q].schema
                             /\ req'[q].doc = req[q].doc /\ req'[q].params = req[q].params
                             /\ req'[q].phase = req[q].phase \/ req'[q].phase = "done"
    BY <1>11, <1>12
  <1>19. AnnouncedOnce' BY <1>1, <1>3, <1>18 DEF AnnouncedOnce, Key
  <1>20. timers' \subseteq [schema : Schema, doc : Doc, op : Operations, by : Requests]
    <2>1. req[r].params.op \in Operations BY <1>14 DEF ParamsOf
    <2>2. timer \in [schema : Schema, doc : Doc, op : Operations, by : Requests]
      BY <1>4, <1>14, <2>1
    <2>3. QED BY <1>1, <1>5, <2>2 DEF Types
  <1>21. TimersOK'
    <2>1. ASSUME NEW t \in timers'
          PROVE  /\ t.by \in Requests /\ req'[t.by].run = Announced /\ req'[t.by].phase = "done"
                 /\ t.schema = req'[t.by].schema /\ t.doc = req'[t.by].doc
                 /\ t.op = req'[t.by].params.op
                 /\ jit[Key(t.schema, t.doc)] = Compiling
      <3>1. CASE t \in timers
        <4>1. t.by \in Requests BY <1>1, <3>1 DEF Types
        <4>2. QED BY <1>1, <1>18, <3>1, <4>1 DEF TimersOK
      <3>2. CASE t = timer /\ req[r].run = Announced
        <4>1. jit[Key(req[r].schema, req[r].doc)] = Compiling
          BY <1>1, <1>3, <3>2 DEF AnnouncedOnce
        <4>2. QED BY <1>4, <1>11, <3>2, <4>1
      <3>3. QED BY <1>5, <3>1, <3>2
    <2>2. QED BY <1>3, <2>1 DEF TimersOK, Key
  <1>22. QED
    BY <1>3, <1>10, <1>11, <1>12, <1>13, <1>15, <1>16, <1>17, <1>19, <1>20, <1>21, LateStep

LEMMA ThrowInv == ASSUME IInv, NEW r \in Requests, Throw(r) PROVE IInv'
  <1>1. /\ Types /\ JitOK /\ RequestsOK /\ AnnouncedOnce /\ TimersOK BY DEF IInv
  <1>2. /\ req[r].phase = "executing" /\ UNCHANGED <<startup, queries, overrides, caches>>
        /\ req' = [req EXCEPT ![r].phase = "done", ![r].answer = Error]
    BY DEF Throw, Refused, RefusedIn
  <1>3. req \in [Requests -> RequestType] /\ req[r] \in RequestType BY <1>1, RequestFacts DEF Types
  <1>4. RequestOK(r) /\ req[r].params \in ParamsOf BY <1>1, <1>2, ExecuteFacts DEF RequestsOK
  <1>5. "done" \in Phases /\ Error \in Answers BY ErrorIsAnswer DEF Phases
  <1>6. req' \in [Requests -> RequestType] BY <1>2, <1>3, <1>5 DEF RequestType
  <1>7. /\ req'[r].phase = "done" /\ req'[r].answer = Error /\ req'[r].params = req[r].params
        /\ req'[r].schema = req[r].schema /\ req'[r].doc = req[r].doc
        /\ req'[r].parsed = req[r].parsed /\ req'[r].run = req[r].run
    BY <1>2, <1>3 DEF RequestType
  <1>8. \A q \in Requests : q # r => req'[q] = req[q] BY <1>2, <1>3
  <1>9. AnnouncedStay BY <1>7, <1>8 DEF AnnouncedStay
  <1>10. RequestOK(r)'
    <2>1. PICK c, s, d : c = req[r].run /\ s = req[r].schema /\ d = req[r].doc OBVIOUS
    <2>2. RightCode(c, s, d) => RightCode(c, s, d)' BY <1>9, RightCodeStays
    <2>3. RightCode(req[r].run, req[r].schema, req[r].doc)
          => RightCode(req[r].run, req[r].schema, req[r].doc)'
      BY <1>7, <2>1, <2>2 DEF RightCode, Misnamed
    <2>4. QED BY <1>2, <1>4, <1>7, <2>3 DEF RequestOK
  <1>11. AnsweredOK(r)' BY <1>7 DEF AnsweredOK
  <1>12. jit' = jit /\ timers' = timers /\ documents' = documents /\ validated' = validated
    BY <1>2 DEF caches
  <1>13. JitOK' BY <1>1, <1>9, <1>12, JitStays
  <1>14. \A q \in Requests : /\ req'[q].run = req[q].run /\ req'[q].schema = req[q].schema
                             /\ req'[q].doc = req[q].doc /\ req'[q].params = req[q].params
                             /\ req'[q].phase = req[q].phase \/ req'[q].phase = "done"
    BY <1>7, <1>8
  <1>15. AnnouncedOnce' BY <1>1, <1>12, <1>14 DEF AnnouncedOnce, Key
  <1>16. TimersOK'
    <2>1. ASSUME NEW t \in timers
          PROVE  /\ t.by \in Requests /\ req'[t.by].run = Announced /\ req'[t.by].phase = "done"
                 /\ t.schema = req'[t.by].schema /\ t.doc = req'[t.by].doc
                 /\ t.op = req'[t.by].params.op
                 /\ jit[Key(t.schema, t.doc)] = Compiling
      <3>1. t.by \in Requests BY <1>1 DEF Types
      <3>2. QED BY <1>1, <1>14, <3>1 DEF TimersOK
    <2>2. QED BY <1>12, <2>1 DEF TimersOK, Key
  <1>17. QED
    BY <1>1, <1>2, <1>6, <1>7, <1>8, <1>9, <1>10, <1>11, <1>12, <1>13, <1>15, <1>16, LateStep
       DEF Types

\* Code compiled for a document is right, if there is a reason for what does not compile.
LEMMA CompiledIsRight ==
    ASSUME NEW schema \in Schema, NEW doc \in Doc, NEW op \in Operations \cup {None},
           ~Names(op, doc.text) => doc.text \in Shared \/ Misnamed(schema, doc)
    PROVE  /\ Compiled(schema, doc, op) \in Codes \cup {Failed}
           /\ RightCode(Compiled(schema, doc, op), schema, doc)
  <1>1. PICK c : c = Compiled(schema, doc, op) OBVIOUS
  <1>2. CASE doc.text \in Uncompilable \/ ~Names(op, doc.text)
    <2>1. c = Failed BY <1>1, <1>2 DEF Compiled
    <2>2. QED BY <1>1, <1>2, <2>1, KindsOfCode DEF RightCode
  <1>3. CASE ~(doc.text \in Uncompilable \/ ~Names(op, doc.text))
    <2>1. PICK o : o = IF op = None THEN "op1" ELSE op OBVIOUS
    <2>2. c = [kind |-> "code", schema |-> schema, op |-> o] BY <1>1, <1>3, <2>1 DEF Compiled
    <2>3. o \in Operations /\ o \in OperationsOf(doc.text)
      BY <1>3, <2>1 DEF Names, OperationsOf, Operations
    <2>4. c \in Codes BY <2>2, <2>3 DEF Codes
    <2>5. RightCode(c, schema, doc) BY <2>2, <2>3, <2>4, KindsOfCode DEF RightCode
    <2>6. QED BY <1>1, <2>4, <2>5
  <1>4. QED BY <1>2, <1>3

LEMMA CompileInv == ASSUME IInv, NEW t \in timers, Compile(t) PROVE IInv'
  <1>1. /\ Types /\ SchemasOK /\ StoresOK /\ ValidatedOK /\ JitOK /\ RequestsOK /\ BeforeServing
        /\ AnnouncedOnce /\ TimersOK /\ WarmedStay /\ AnswersOwnQuery /\ WarmedIsNotParsed
    BY DEF IInv
  <1>2. PICK key, code : key = Key(t.schema, t.doc) /\ code = Compiled(t.schema, t.doc, t.op)
    OBVIOUS
  <1>3. /\ timers' = timers \ {t} /\ jit' = BiWeakMapSet(jit, key, code)
        /\ UNCHANGED <<startup, queries, overrides, documents, validated, req>>
    BY <1>2 DEF Compile
  <1>4. /\ t.schema \in Schema /\ t.doc \in Doc /\ t.op \in Operations /\ t.by \in Requests
    BY <1>1 DEF Types
  <1>5. /\ req[t.by].run = Announced /\ req[t.by].phase = "done" /\ t.schema = req[t.by].schema
        /\ t.doc = req[t.by].doc /\ t.op = req[t.by].params.op
    BY <1>1, <1>4 DEF TimersOK
  <1>6. key \in DOMAIN jit BY <1>1, <1>2, <1>4, <1>5 DEF AnnouncedOnce
  <1>7. /\ DOMAIN jit' = DOMAIN jit /\ jit'[key] = code
        /\ \A k \in DOMAIN jit : k # key => jit'[k] = jit[k]
    BY <1>3, <1>6 DEF BiWeakMapSet
  <1>8. AnnouncedStay BY <1>3 DEF AnnouncedStay
  <1>9. code \in Codes \cup {Failed} /\ RightCode(code, t.schema, t.doc)
    <2>1. ~Names(t.op, t.doc.text) => Misnamed(t.schema, t.doc)
      BY <1>4, <1>5 DEF Misnamed, Key
    <2>2. QED BY <1>2, <1>4, <2>1, CompiledIsRight
  <1>10. JitOK'
    <2>1. key[1] = t.schema /\ key[2] = t.doc BY <1>2 DEF Key
    <2>2. ASSUME NEW k \in DOMAIN jit
          PROVE  jit'[k] \in Codes \cup {Compiling, Failed} /\ RightCode(jit[k], k[1], k[2])'
      <3>1. PICK c : c = jit'[k] OBVIOUS
      <3>2. c \in Codes \cup {Compiling, Failed} /\ RightCode(c, k[1], k[2])
        <4>1. CASE k = key BY <1>7, <1>9, <2>1, <3>1, <4>1
        <4>2. CASE k # key BY <1>1, <1>7, <3>1, <4>2 DEF JitOK
        <4>3. QED BY <4>1, <4>2
      <3>3. RightCode(c, k[1], k[2])' BY <1>8, <3>2, RightCodeStays
      <3>4. QED BY <3>1, <3>2, <3>3 DEF RightCode, Misnamed
    <2>3. QED BY <1>1, <1>3, <1>7, <2>2 DEF JitOK
  <1>11. Types' BY <1>1, <1>3 DEF Types, startup, queries, overrides
  <1>12. SchemasOK' BY <1>1, <1>3 DEF SchemasOK, overrides
  <1>13. StoresOK' BY <1>1, <1>3 DEF StoresOK, StoreOK
  <1>14. ValidatedOK' BY <1>1, <1>3 DEF ValidatedOK
  <1>15. RequestsOK' BY <1>1, <1>3, <1>8, RequestsStay
  <1>16. BeforeServing' BY <1>1, <1>3 DEF BeforeServing, startup
  <1>17. AnnouncedOnce'
    <2>1. ASSUME NEW q \in Requests, req[q].run = Announced, req[q].phase = "executing"
          PROVE  Key(req[q].schema, req[q].doc) # key
      BY <1>1, <1>2, <1>4, <1>5, <2>1 DEF AnnouncedOnce
    <2>2. QED BY <1>1, <1>3, <1>7, <2>1 DEF AnnouncedOnce, Key
  <1>18. TimersOK'
    <2>1. ASSUME NEW u \in timers, u # t PROVE Key(u.schema, u.doc) # key
      <3>1. SUFFICES ASSUME Key(u.schema, u.doc) = key PROVE u = t BY <2>1
      <3>2. u \in [schema : Schema, doc : Doc, op : Operations, by : Requests]
            /\ t \in [schema : Schema, doc : Doc, op : Operations, by : Requests]
        BY <1>1 DEF Types
      <3>3. /\ u.by \in Requests /\ req[u.by].run = Announced /\ u.schema = req[u.by].schema
            /\ u.doc = req[u.by].doc /\ u.op = req[u.by].params.op
        BY <1>1, <3>2 DEF TimersOK
      <3>4. u.by = t.by BY <1>1, <1>2, <1>4, <1>5, <3>1, <3>3 DEF AnnouncedOnce
      <3>5. u.schema = t.schema /\ u.doc = t.doc /\ u.op = t.op BY <1>5, <3>3, <3>4
      <3>6. QED BY <3>2, <3>4, <3>5
    <2>2. ASSUME NEW u \in timers, u # t
          PROVE  Key(u.schema, u.doc) \in DOMAIN jit
      BY <1>1 DEF TimersOK, AnnouncedOnce, Types
    <2>3. QED BY <1>1, <1>3, <1>7, <2>1, <2>2 DEF TimersOK, Key
  <1>19. WarmedStay' BY <1>1, <1>3 DEF WarmedStay, startup
  <1>20. AnswersOwnQuery' BY <1>1, <1>3, <1>8, AnswersStay
  <1>21. WarmedIsNotParsed' BY <1>1, <1>3 DEF WarmedIsNotParsed, startup
  <1>22. QED
    BY <1>10, <1>11, <1>12, <1>13, <1>14, <1>15, <1>16, <1>17, <1>18, <1>19, <1>20, <1>21 DEF IInv

-----------------------------------------------------------------------------
(***************************************************************************)
(* Start-up.                                                               *)
(***************************************************************************)

\* What start-up makes of the document stores.
LEMMA PrewarmedStores ==
    ASSUME StoresOK, NEW preregistered \in SUBSET Ids, NEW loaded \in SUBSET Texts,
           PrewarmDocuments(preregistered, loaded)
    PROVE  /\ StoresOK'
           /\ Cardinality(Ids) <= MaxDocuments =>
                 \A id \in preregistered : \E i \in DOMAIN documents'["preregistered"] :
                     LET e == documents'["preregistered"][i]
                     IN e.key = id /\ e.val.by = "prewarm"
  <1>1. PICK v, w :
           /\ v = [i \in preregistered |->
                     [text |-> Code[i], store |-> "preregistered", by |-> "prewarm"]]
           /\ w = [t \in loaded |-> [text |-> t, store |-> "persisted", by |-> "prewarm"]]
    OBVIOUS
  <1>2. PICK p \in Filled(EntriesOf(preregistered, v), MaxDocuments),
             q \in Filled(EntriesOf(loaded, w), MaxDocuments) :
           documents' = [documents EXCEPT !["preregistered"] = p, !["persisted"] = q]
    <2>1. EntriesOf(preregistered, v) =
             {[key |-> i, val |-> [text |-> Code[i], store |-> "preregistered",
                                   by |-> "prewarm"]] : i \in preregistered}
      BY <1>1 DEF EntriesOf
    <2>2. EntriesOf(loaded, w) =
             {[key |-> t, val |-> [text |-> t, store |-> "persisted", by |-> "prewarm"]] :
                 t \in loaded}
      BY <1>1 DEF EntriesOf
    <2>3. QED BY <2>1, <2>2 DEF PrewarmDocuments
  <1>0. Code \in [Ids -> Texts] /\ IsFiniteSet(Ids) /\ IsFiniteSet(Texts)
        /\ MaxDocuments \in Nat \ {0}
    BY PipelineAssumption
  <1>3. /\ p \in LRU(Ids, DocsOf("preregistered"), MaxDocuments)
        /\ \A i \in DOMAIN p : p[i].val.text = Code[p[i].key] /\ p[i].val.by = "prewarm"
        /\ Cardinality(preregistered) <= MaxDocuments =>
              \A k \in preregistered : \E i \in DOMAIN p : p[i].key = k
    <2>1. \A k \in preregistered : v[k].text = Code[k] /\ v[k].by = "prewarm" BY <1>1
    <2>2. \A k \in preregistered : v[k] \in DocsOf("preregistered") BY <1>0, <1>1 DEF DocsOf
    <2>3. p \in LRU(Ids, DocsOf("preregistered"), MaxDocuments) BY <1>0, <2>2, FilledOne
    <2>4. IsFiniteSet(preregistered) BY <1>0, FS_Subset
    <2>5. /\ \A i \in DOMAIN p : p[i].key \in preregistered /\ p[i].val = v[p[i].key]
          /\ Cardinality(preregistered) <= MaxDocuments =>
                \A k \in preregistered : \E i \in DOMAIN p : p[i].key = k
      BY <1>0, <2>4, FilledEntries
    <2>6. QED BY <2>1, <2>3, <2>5
  <1>4. /\ q \in LRU(Texts, DocsOf("persisted"), MaxDocuments)
        /\ \A i \in DOMAIN q : q[i].val.text = q[i].key
    <2>1. \A k \in loaded : w[k].text = k BY <1>1
    <2>2. \A k \in loaded : w[k] \in DocsOf("persisted") BY <1>1 DEF DocsOf
    <2>3. q \in LRU(Texts, DocsOf("persisted"), MaxDocuments) BY <1>0, <2>2, FilledOne
    <2>4. IsFiniteSet(loaded) BY <1>0, FS_Subset
    <2>5. \A i \in DOMAIN q : q[i].key \in loaded /\ q[i].val = w[q[i].key]
      BY <1>0, <2>4, FilledEntries
    <2>6. QED BY <2>1, <2>3, <2>5
  <1>5. /\ DOMAIN documents = Stores /\ DOMAIN documents' = Stores
        /\ documents'["preregistered"] = p /\ documents'["persisted"] = q
        /\ documents'["default"] = documents["default"]
    BY <1>2 DEF StoresOK, Stores
  <1>6. ASSUME NEW s \in Stores PROVE StoreOK(s)'
    <2>1. CASE s = "preregistered"
      <3>1. KeysOf(s) = Ids /\ \A k : TextOf(s, k) = Code[k] BY <2>1 DEF KeysOf, TextOf
      <3>2. QED BY <1>3, <1>5, <2>1, <3>1 DEF StoreOK
    <2>2. CASE s = "persisted"
      <3>1. KeysOf(s) = Texts /\ \A k : TextOf(s, k) = k BY <2>2 DEF KeysOf, TextOf
      <3>2. QED BY <1>4, <1>5, <2>2, <3>1 DEF StoreOK
    <2>3. CASE s = "default" BY <1>5, <2>3 DEF StoresOK, StoreOK
    <2>4. QED BY <2>1, <2>2, <2>3 DEF Stores
  <1>7. ASSUME Cardinality(Ids) <= MaxDocuments, NEW id \in preregistered
        PROVE  \E i \in DOMAIN documents'["preregistered"] :
                   LET e == documents'["preregistered"][i]
                   IN e.key = id /\ e.val.by = "prewarm"
    <2>1. IsFiniteSet(preregistered) /\ Cardinality(preregistered) <= Cardinality(Ids)
      BY <1>0, FS_Subset
    <2>2. Cardinality(preregistered) \in Nat /\ Cardinality(Ids) \in Nat
      BY <1>0, <2>1, FS_CardinalityType
    <2>3. Cardinality(preregistered) <= MaxDocuments BY <1>0, <1>7, <2>1, <2>2
    <2>4. QED BY <1>3, <1>5, <2>3
  <1>8. QED BY <1>5, <1>6, <1>7 DEF StoresOK

\* What start-up caches of the documents.
LEMMA PrewarmedCaches ==
    ASSUME JitOK, UNCHANGED req, NEW docs \in SUBSET Doc,
           PrewarmValidation(docs), PrewarmJit(docs)
    PROVE  ValidatedOK' /\ JitOK'
  <1>1. validated' = [k \in {Key(Default, d) : d \in docs} |-> Valid(Default, k[2])]
    BY DEF PrewarmValidation
  <1>2. \A k \in {Key(Default, d) : d \in docs} :
           k[1] = Default /\ k[2] \in docs /\ k[2] \in Doc /\ k \in Schema \X Doc
    BY DEF Key, Schema
  <1>3. ValidatedOK' BY <1>1, <1>2 DEF ValidatedOK
  <1>4. CASE Jit
    <2>1. jit' = [k \in {Key(Default, d) : d \in docs} |-> Compiled(Default, k[2], None)]
      BY <1>4 DEF PrewarmJit
    <2>2. ASSUME NEW k \in DOMAIN jit'
          PROVE  jit'[k] \in Codes \cup {Compiling, Failed} /\ RightCode(jit[k], k[1], k[2])'
      <3>1. k[1] = Default /\ k[2] \in Doc /\ jit'[k] = Compiled(Default, k[2], None)
        BY <1>2, <2>1, <2>2
      <3>2. PICK c, d : c = jit'[k] /\ d = k[2] OBVIOUS
      <3>3. d \in Doc /\ Default \in Schema /\ None \in Operations \cup {None}
            /\ c = Compiled(Default, d, None)
        BY <3>1, <3>2 DEF Schema
      <3>4. ~Names(None, d.text) => d.text \in Shared BY DEF Names
      <3>5. c \in Codes \cup {Failed} /\ RightCode(c, Default, d)
        BY <3>3, <3>4, CompiledIsRight
      <3>6. RightCode(c, Default, d)' BY <3>5, RightCodeStays DEF AnnouncedStay
      <3>7. RightCode(jit[k], k[1], k[2])'
        <4>1. k[1] = Default /\ k[2] = d /\ jit'[k] = c BY <3>1, <3>2
        <4>2. QED BY <3>6, <4>1 DEF RightCode, Misnamed, Default
      <3>8. QED BY <3>2, <3>5, <3>7
    <2>3. DOMAIN jit' = DOMAIN validated' BY <1>1, <2>1
    <2>4. QED BY <1>3, <1>4, <2>2, <2>3 DEF JitOK
  <1>5. CASE ~Jit
    <2>1. jit' = jit /\ DOMAIN jit = {} BY <1>5 DEF PrewarmJit, JitOK
    <2>2. QED BY <1>3, <2>1 DEF JitOK
  <1>6. QED BY <1>3, <1>4, <1>5

LEMMA StartInv == ASSUME IInv, Start PROVE IInv'
  <1>1. /\ Types /\ SchemasOK /\ StoresOK /\ ValidatedOK /\ JitOK /\ RequestsOK /\ BeforeServing
    BY DEF IInv
  <1>2. /\ ~serving /\ serving' = TRUE
        /\ UNCHANGED <<queries, overrides, timers, req>>
    BY DEF Start
  <1>3. PICK preregistered \in LoadCurrentQueries, loaded \in LoadPersistedQueries :
           warmed' = preregistered /\ Prewarm(preregistered, loaded)
    BY DEF Start, MakePlugins
  <1>4. preregistered \in SUBSET Ids /\ loaded \in SUBSET Texts
    <2>1. redis \subseteq Texts BY <1>1 DEF Types
    <2>2. loaded \in SUBSET redis
      BY DEF LoadPersistedQueries, NodePersistedQueries
    <2>3. QED BY <2>1, <2>2 DEF LoadCurrentQueries
  <1>5. PICK docs : docs = ParsedOf(preregistered, loaded) OBVIOUS
  <1>6. docs \subseteq Doc
    <2>1. \A i \in preregistered : Code[i] \in Texts BY <1>4, PipelineAssumption
    <2>2. QED BY <1>4, <1>5, <2>1 DEF ParsedOf, Doc, Stores
  <1>7. /\ PrewarmDocuments(preregistered, loaded)
        /\ PrewarmValidation(docs) /\ PrewarmJit(docs)
    BY <1>3, <1>5 DEF Prewarm
  <1>8. req' = req /\ timers' = timers /\ timers = {} /\ \A r \in Requests : req[r] = Idle
    BY <1>1, <1>2 DEF BeforeServing
  <1>9. StoresOK' /\ WarmedStay'
    <2>1. /\ StoresOK'
          /\ Cardinality(Ids) <= MaxDocuments =>
                \A id \in preregistered : \E i \in DOMAIN documents'["preregistered"] :
                    LET e == documents'["preregistered"][i]
                    IN e.key = id /\ e.val.by = "prewarm"
      BY <1>1, <1>4, <1>7, PrewarmedStores
    <2>2. QED BY <1>3, <2>1 DEF WarmedStay
  <1>10. ValidatedOK' /\ JitOK' BY <1>1, <1>6, <1>7, <1>8, PrewarmedCaches
  <1>11. Types' BY <1>1, <1>2, <1>3, <1>4, <1>8 DEF Types, queries, overrides
  <1>12. SchemasOK' BY <1>1, <1>2 DEF SchemasOK, overrides
  <1>13. \A r \in Requests :
            /\ req'[r] = Idle /\ Idle.phase = "idle" /\ Idle.run = NoCode /\ ~Idle.parsed
            /\ Idle.schema = Default /\ Idle.run # Announced
    BY <1>8, KindsOfCode DEF Idle
  <1>14. RequestsOK' BY <1>13 DEF RequestsOK, RequestOK
  <1>15. BeforeServing' BY <1>2 DEF BeforeServing
  <1>16. AnnouncedOnce' BY <1>13 DEF AnnouncedOnce
  <1>17. TimersOK' BY <1>8 DEF TimersOK
  <1>18. AnswersOwnQuery' /\ WarmedIsNotParsed'
    BY <1>13 DEF AnswersOwnQuery, WarmedIsNotParsed
  <1>19. QED
    BY <1>9, <1>10, <1>11, <1>12, <1>14, <1>15, <1>16, <1>17, <1>18 DEF IInv

-----------------------------------------------------------------------------
(***************************************************************************)
(* The invariant and the properties.                                       *)
(***************************************************************************)

LEMMA InitInv == Init => IInv
  <1> SUFFICES ASSUME Init PROVE IInv
    OBVIOUS
  <1>1. /\ serving = FALSE /\ warmed = {} /\ redisUp \in BOOLEAN
        /\ redis \in SUBSET ({k.hash : k \in Kinds} \ {None})
        /\ persisted = <<>> /\ documents = [s \in Stores |-> <<>>]
        /\ schemas = [o \in Overrides |-> Absent] /\ building = {}
        /\ built = [o \in Overrides |-> 0]
        /\ validated = <<>> /\ jit = <<>> /\ timers = {}
        /\ req = [r \in Requests |-> Idle]
    BY DEF Init
  <1>2. \A K, V : \A max \in Nat : <<>> \in LRU(K, V, max) BY DEF LRU
  <1>3. MaxDocuments \in Nat /\ MaxPersisted \in Nat /\ MaxBuilds \in Nat
    BY PipelineAssumption
  <1>4. redis \subseteq Texts
    <2>1. \A k \in Kinds : k.hash \in Texts \cup {None} BY PipelineAssumption
    <2>2. QED BY <1>1, <2>1
  <1>5. Idle \in RequestType BY DEF Idle, RequestType, Phases, Schema
  <1>6. Types
    <2>1. built \in [Overrides -> 0 .. MaxBuilds] BY <1>1, <1>3
    <2>2. schemas \in [Overrides -> [schema : Schema, state : {"absent", "fresh", "stale"}]]
      BY <1>1 DEF Absent, Schema
    <2>3. QED BY <1>1, <1>2, <1>3, <1>4, <1>5, <2>1, <2>2 DEF Types
  <1>7. SchemasOK BY <1>1 DEF SchemasOK, Absent
  <1>8. StoresOK BY <1>1, <1>2, <1>3 DEF StoresOK, StoreOK
  <1>9. ValidatedOK /\ JitOK
    <2>1. DOMAIN validated = {} /\ DOMAIN jit = {} BY <1>1
    <2>2. QED BY <2>1 DEF ValidatedOK, JitOK
  <1>10. \A r \in Requests :
            /\ req[r] = Idle /\ Idle.phase = "idle" /\ Idle.run = NoCode /\ ~Idle.parsed
            /\ Idle.schema = Default /\ Idle.run # Announced
    BY <1>1, KindsOfCode DEF Idle
  <1>11. RequestsOK BY <1>10 DEF RequestsOK, RequestOK
  <1>12. BeforeServing /\ TimersOK /\ WarmedStay
    BY <1>1, <1>10 DEF BeforeServing, TimersOK, WarmedStay
  <1>13. AnnouncedOnce BY <1>10 DEF AnnouncedOnce
  <1>14. AnswersOwnQuery /\ WarmedIsNotParsed
    BY <1>10 DEF AnswersOwnQuery, WarmedIsNotParsed
  <1>15. QED BY <1>6, <1>7, <1>8, <1>9, <1>11, <1>12, <1>13, <1>14 DEF IInv

LEMMA StutterInv == ASSUME IInv, UNCHANGED vars PROVE IInv'
  <1>1. UNCHANGED <<startup, caches>> /\ UNCHANGED <<queries, overrides, req>> BY DEF vars
  <1>2. Types' /\ SchemasOK'
    BY <1>1 DEF IInv, Types, SchemasOK, startup, queries, overrides, caches
  <1>3. QED BY <1>1, <1>2, EarlyStep

LEMMA NextInv == IInv /\ [Next]_vars => IInv'
  <1> SUFFICES ASSUME IInv, [Next]_vars PROVE IInv'
    OBVIOUS
  <1>1. CASE Start BY <1>1, StartInv
  <1>2. CASE RedisChanges BY <1>2, RedisChangesInv
  <1>3. CASE ExpirePersisted BY <1>3, ExpirePersistedInv
  <1>4. ASSUME NEW o \in Overrides, BuildSchema(o) PROVE IInv' BY <1>4, BuildSchemaInv
  <1>5. ASSUME NEW o \in Overrides, SchemaExpires(o) PROVE IInv' BY <1>5, SchemaExpiresInv
  <1>6. ASSUME NEW r \in Requests, Receive(r) PROVE IInv' BY <1>6, ReceiveInv
  <1>7. ASSUME NEW r \in Requests, FetchSchema(r) PROVE IInv' BY <1>7, FetchSchemaInv
  <1>8. ASSUME NEW r \in Requests, Persisted(r) PROVE IInv' BY <1>8, PersistedInv
  <1>9. ASSUME NEW r \in Requests, Preregistered(r) PROVE IInv' BY <1>9, PreregisteredInv
  <1>10. ASSUME NEW r \in Requests, ParseAndValidate(r) PROVE IInv'
    BY <1>10, ParseAndValidateInv
  <1>11. ASSUME NEW r \in Requests, Execute(r) PROVE IInv' BY <1>11, ExecuteInv
  <1>12. ASSUME NEW r \in Requests, Finish(r) PROVE IInv' BY <1>12, FinishInv
  <1>13. ASSUME NEW r \in Requests, Throw(r) PROVE IInv' BY <1>13, ThrowInv
  <1>14. ASSUME NEW t \in timers, Compile(t) PROVE IInv' BY <1>14, CompileInv
  <1>15. CASE UNCHANGED vars BY <1>15, StutterInv
  <1>16. QED
    BY <1>1, <1>2, <1>3, <1>4, <1>5, <1>6, <1>7, <1>8, <1>9, <1>10, <1>11, <1>12, <1>13,
       <1>14, <1>15 DEF Next

LEMMA Invariance == Spec => []IInv
  <1>1. QED BY InitInv, NextInv, PTL DEF Spec

\* Every store keeps to its size and every document in the store it was parsed for;
\* nothing is compiled that was not validated.
THEOREM TypeCorrect == Spec => []TypeOK
<1>1. ASSUME IInv PROVE TypeOK
  <2>1. /\ Types /\ SchemasOK /\ StoresOK /\ ValidatedOK /\ JitOK
    BY <1>1 DEF IInv
  <2>2. Len(persisted) <= MaxPersisted BY <2>1, LRUFacts DEF Types
  <2>3. ASSUME NEW s \in Stores
        PROVE  /\ Len(documents[s]) <= MaxDocuments
               /\ \A i \in DOMAIN documents[s] :
                     documents[s][i].val \in [text : Texts, store : {s},
                                              by : Requests \cup {"prewarm"}]
    <3>1. documents[s] \in LRU(KeysOf(s), DocsOf(s), MaxDocuments)
      BY <2>1 DEF StoresOK, StoreOK
    <3>2. \A i \in DOMAIN documents[s] : documents[s][i].val \in DocsOf(s)
      BY <3>1, LRUFacts
    <3>3. QED BY <3>1, <3>2 DEF LRU, DocsOf
  <2>4. \A k \in DOMAIN jit : jit[k] \in {Compiling, Failed} \/ jit[k].op \in Operations
    BY <2>1 DEF JitOK, Codes
  <2>5. QED BY <2>1, <2>2, <2>3, <2>4 DEF TypeOK, Types, SchemasOK, ValidatedOK, JitOK
<1> QED BY <1>1, Invariance, PTL

\* An answer is that of the request's own query, run in its own schema, whatever
\* other requests put into the caches and the stores forgot meanwhile.
THEOREM AnswersAreAlwaysOwn == Spec => []AnswersOwnQuery
<1>1. IInv => AnswersOwnQuery BY DEF IInv
<1> QED BY <1>1, Invariance, PTL

\* However many requests execute a document at a time, one has it compiled.
THEOREM CompiledAtMostOnce == Spec => []CompiledOnce
<1>1. ASSUME IInv PROVE CompiledOnce
  <2>1. Types /\ AnnouncedOnce /\ TimersOK BY <1>1 DEF IInv
  <2>2. ASSUME NEW t \in timers
        PROVE  /\ t.by \in Requests /\ req[t.by].run = Announced
               /\ t.schema = req[t.by].schema /\ t.doc = req[t.by].doc
               /\ t.op = req[t.by].params.op
               /\ jit[Key(t.schema, t.doc)] = Compiling
               /\ t \in [schema : Schema, doc : Doc, op : Operations, by : Requests]
    BY <2>1, <2>2 DEF Types, TimersOK
  <2>3. ASSUME NEW t \in timers, NEW u \in timers, Key(u.schema, u.doc) = Key(t.schema, t.doc)
        PROVE  u = t
    <3>1. u.by = t.by BY <2>1, <2>2, <2>3 DEF AnnouncedOnce
    <3>2. u.schema = t.schema /\ u.doc = t.doc /\ u.op = t.op BY <2>2, <3>1
    <3>3. QED BY <2>2, <3>1, <3>2
  <2>4. ASSUME NEW t \in timers, NEW r \in Requests, req[r].run = Announced,
               Key(req[r].schema, req[r].doc) = Key(t.schema, t.doc)
        PROVE  r = t.by
    BY <2>1, <2>2, <2>4 DEF AnnouncedOnce
  <2>5. QED BY <2>2, <2>3, <2>4 DEF CompiledOnce
<1> QED BY <1>1, Invariance, PTL

\* The preregistered queries that start-up parsed are not parsed again, if there is
\* room for every id.
THEOREM WarmedIsNeverParsed == Spec => []WarmedIsNotParsed
<1>1. IInv => WarmedIsNotParsed BY DEF IInv
<1> QED BY <1>1, Invariance, PTL

=============================================================================
