------------------------------- MODULE Batching -------------------------------
(***************************************************************************)
(* What happens to the requests one DataLoader batch holds                 *)
(* (packages/batching): batchByKey divides them into batches by series,    *)
(* key and comparison, splits the batches by deadline, each batch is sent  *)
(* to the subgraph, and restoreOrder hands every request a result.         *)
(*                                                                         *)
(* A BatchEntry is kept as its idx alone: its val is vals[idx].  Indices   *)
(* count from 1.                                                           *)
(***************************************************************************)
EXTENDS Integers, Sequences, SequencesExt

CONSTANTS
    Context,    \* the incoming requests the calls to the subgraph are made for
    ForwardHeaders,     \* ForwardHeaders[c]: the headers of c, as a set, that may be forwarded
    LegacyContextOf,    \* LegacyContextOf[c]: what of c legacy graphql is told beside them
    BatchIgnoreHeaders, \* the headers batching does not look at
    InsecureAllowedHeaders,  \* the headers the insecure strategy forwards
    HashOf,     \* HashOf[h]: the hash of a set of headers h; two may share one
    DeadlineOf, \* DeadlineOf[c]: the deadline of c, or Missing
    Operation,  \* the operation types that are batched
    Wait,       \* config.wait.millis
    MaxSizes,   \* the values of config.maxSize considered
    MaxLoads    \* bound: requests made before the loader dispatches

Missing == -1

ASSUME ProfileAssumption ==
    /\ DOMAIN ForwardHeaders = Context /\ DOMAIN DeadlineOf = Context
    /\ DOMAIN LegacyContextOf = Context
    /\ \A c \in Context : ForwardHeaders[c] \ BatchIgnoreHeaders \in DOMAIN HashOf
    /\ \A c \in Context : DeadlineOf[c] \in Nat \cup {Missing}
ASSUME SizeAssumption == {Wait, MaxLoads} \cup MaxSizes \subseteq Nat \ {0}

Request == [context : Context, operation : Operation]

VARIABLES
    config,   \* the subgraph's batching configuration: strategy and maxSize
    phase,    \* "loading", "batching", "clustering", "sending", "done"
    vals,     \* the requests of this batch of the loader, in order
    results,  \* the batches, in order; each a sequence of indices into vals
    ids,      \* ids[k]: positions in results of the open batches with key k
    series,   \* the series of the previous request
    next,     \* the index the current loop is at
    clusters, \* the clusters the batch at next was divided into so far
    cluster,  \* the cluster being filled
    sent,     \* sent[b]: what is sent along with batch b
    replies,  \* replies[b]: how the remote call for batch b ended, if it has
    answers   \* answers[i]: what the loader settles request i with

clustering == <<clusters, cluster>>
vars == <<config, phase, vals, results, ids, series, next, clustering, sent, replies,
          answers>>

-----------------------------------------------------------------------------
(* The strategies.                                                         *)

\* batchByHeaders, and their hash.
BatchByHeaders(c) == ForwardHeaders[c] \ BatchIgnoreHeaders
BatchByHeadersHash(c) == HashOf[BatchByHeaders(c)]

\* subBatchIdFn: the request it is made for, the hash of its headers, or nothing.
KeyOf(v) ==
    CASE config.strategy = "Request"  -> <<"request", v.context>>
      [] config.strategy = "Headers"  -> <<"hash", BatchByHeadersHash(v.context)>>
      [] config.strategy = "Insecure" -> <<"all", 0>>

Keys == ({"request"} \X Context) \cup ({"hash"} \X {HashOf[h] : h \in DOMAIN HashOf})
            \cup {<<"all", 0>>}

\* subBatchEqFn: only the headers strategy has one.
Matches(v, w) ==
    config.strategy = "Headers" => BatchByHeaders(v.context) = BatchByHeaders(w.context)

\* seriesIdFn: the insecure strategy has none.
SeriesOf(v) == IF config.strategy = "Insecure" THEN "undefined" ELSE v.operation

\* The comparator of the deadline clustering; entries that compare equal keep
\* their order (Array.prototype.sort is stable, and batches are in order).
SortKey(i) == LET d == DeadlineOf[vals[i].context] IN IF d = Missing THEN 0 ELSE d
Before(i, j) == SortKey(i) < SortKey(j) \/ (SortKey(i) = SortKey(j) /\ i < j)

\* clusterable: a missing deadline makes the difference NaN, which is less than
\* nothing.
Clusterable(base, update) ==
    LET d == DeadlineOf[vals[base].context]
        e == DeadlineOf[vals[update].context]
    IN  Missing \notin {d, e} /\ e - d < Wait

-----------------------------------------------------------------------------
(* The steps.                                                              *)

Init ==
    /\ config \in [strategy : {"Request", "Headers", "Insecure"}, maxSize : MaxSizes]
    /\ phase = "loading"
    /\ vals = << >> /\ results = << >>
    /\ ids = [k \in Keys |-> << >>]
    /\ series = "undefined"
    /\ next = 1
    /\ clusters = << >> /\ cluster = << >>
    /\ sent = << >> /\ replies = << >>
    /\ answers = << >>

LoaderUnbounded == TRUE

\* The loader's own limit, maxBatchSize, is the same maxSize.
LoaderHasRoom == Len(vals) < config.maxSize

\* loader.load(request): a batch of the loader that is full takes no more.
Load(r) ==
    /\ phase = "loading"
    /\ Len(vals) < MaxLoads
    /\ LoaderHasRoom
    /\ vals' = Append(vals, r)
    /\ UNCHANGED <<config, phase, results, ids, series, next, clustering, sent, replies,
                   answers>>

\* mergeInsecureHeaders: those of any request of a batch, if they are allowed.
MergeInsecureHeaders(batch) ==
    InsecureAllowedHeaders \cap UNION {ForwardHeaders[vals[i].context] : i \in ToSet(batch)}

\* What a call is given beside the requests: the headers of the first, or of all; legacy
\* graphql is also sent the context of the first.
ArgsOf(batch) ==
    LET first == vals[Head(batch)].context
    IN  [headers |-> IF config.strategy = "Insecure" THEN MergeInsecureHeaders(batch)
                     ELSE ForwardHeaders[first],
         legacy |-> LegacyContextOf[first]]

\* executor is called on every batch.
Send(batches) ==
    /\ phase' = "sending"
    /\ sent' = [b \in DOMAIN batches |-> ArgsOf(batches[b])]
    /\ replies' = [b \in DOMAIN batches |-> "awaited"]

\* The timer set by batchScheduleFn fires.  One request alone is a batch as it is.
Dispatch ==
    /\ phase = "loading"
    /\ vals # << >>
    /\ IF Len(vals) = 1
       THEN results' = <<<<1>>>> /\ Send(results')
       ELSE phase' = "batching" /\ UNCHANGED <<results, sent, replies>>
    /\ UNCHANGED <<config, vals, ids, series, next, clustering, answers>>

OpenBatchesUnfrozen(v) == ids

\* The open batches a value may join: a new series freezes those of before.
OpenBatches(v) == IF SeriesOf(v) # series THEN [k \in Keys |-> << >>] ELSE ids

\* The position in a list of batches of the first one whose first entry matches v.
FindBatch(list, v) ==
    SelectInSeq(list, LAMBDA b : Matches(vals[Head(results[b])], v))

\* The list with a full batch at position p taken out of consideration.
DropFull(list, p) ==
    IF p \in DOMAIN list /\ Len(results[list[p]]) >= config.maxSize
    THEN RemoveAt(list, p) ELSE list

NewBatchFirst(batches, i) == <<<<i>>>> \o batches

\* A batch is added behind the others, with its first entry.
NewBatch(batches, i) == Append(batches, <<i>>)

\* One turn of batchByKey's loop.  The batch it adds to is looked up by the position
\* found before a full batch was taken out of the list.
BatchNext ==
    /\ phase = "batching" /\ next <= Len(vals)
    /\ LET v    == vals[next]
           open == OpenBatches(v)
           p    == FindBatch(open[KeyOf(v)], v)
           list == DropFull(open[KeyOf(v)], p)
       IN  IF p \in DOMAIN list
           THEN /\ results' = [results EXCEPT ![list[p]] = Append(@, next)]
                /\ ids' = [open EXCEPT ![KeyOf(v)] = list]
           ELSE /\ results' = NewBatch(results, next)
                /\ ids' = [open EXCEPT ![KeyOf(v)] = Append(list, Len(results) + 1)]
    /\ series' = SeriesOf(vals[next])
    /\ next' = next + 1
    /\ UNCHANGED <<config, phase, vals, clustering, sent, replies, answers>>

\* The loop is over; the clustering goes through the batches backwards.
BeginClustering ==
    /\ phase = "batching" /\ next > Len(vals)
    /\ phase' = "clustering"
    /\ next' = Len(results)
    /\ UNCHANGED <<config, vals, results, ids, series, clustering, sent, replies, answers>>

\* What is yet to be clustered of the batch at next.
Unclustered ==
    ToSet(results[next]) \ (ToSet(cluster) \cup UNION {ToSet(c) : c \in ToSet(clusters)})

\* One turn of the inner loop, which goes through the sorted batch.
AddToCluster ==
    /\ phase = "clustering" /\ next > 0
    /\ \E i \in Unclustered :
          /\ \A j \in Unclustered \ {i} : Before(i, j)
          /\ IF cluster # << >> /\ ~Clusterable(Head(cluster), i)
             THEN clusters' = Append(clusters, cluster) /\ cluster' = <<i>>
             ELSE cluster' = Append(cluster, i) /\ UNCHANGED clusters
    /\ UNCHANGED <<config, phase, vals, results, ids, series, next, sent, replies, answers>>

\* results.splice(n, 1, ...items)
Splice(list, n, items) == SubSeq(list, 1, n - 1) \o items \o SubSeq(list, n + 1, Len(list))

\* Mutant: a batch is replaced when there is a cluster.
SeveralPushedOne == Len(clusters) > 0

SeveralPushed == Len(clusters) > 1

\* The end of a turn of the outer loop: a batch is replaced when several clusters were
\* pushed.  The one still being filled is not.
ClusterNext ==
    /\ phase = "clustering" /\ next > 0
    /\ Unclustered = {}
    /\ results' = IF SeveralPushed THEN Splice(results, next, clusters) ELSE results
    /\ next' = next - 1
    /\ clusters' = << >> /\ cluster' = << >>
    /\ UNCHANGED <<config, phase, vals, ids, series, sent, replies, answers>>

\* The batches are sent together: batches.map(executor).
BeginSending ==
    /\ phase = "clustering" /\ next = 0
    /\ Send(results)
    /\ UNCHANGED <<config, vals, results, ids, series, next, clustering, answers>>

\* The remote call of a batch ends: with one result per request, with a single
\* object for the batch as a whole, or with a failure (an error, a timeout).
ReceiveReply(b, reply) ==
    /\ phase = "sending"
    /\ replies[b] = "awaited"
    /\ replies' = [replies EXCEPT ![b] = reply]
    /\ UNCHANGED <<config, phase, vals, results, ids, series, next, clustering, sent,
                   answers>>

\* What a request can be settled with, beside the result of request i, which is i.
Object    == 0  \* a reply that is no list of results
Undefined == -1
Rejection == -2

\* resultBatches, flattened.
Flattened ==
    FlattenSeq([b \in DOMAIN results |->
                   IF replies[b] = "results" THEN results[b] ELSE <<Object>>])

\* Mutant: where each request was sent is mistaken for where its result goes.
RestoreOrderSwapped(flattened) ==
    LET order == FlattenSeq(results)
    IN  [i \in DOMAIN order |->
            IF order[i] \in DOMAIN flattened THEN flattened[order[i]] ELSE Undefined]

\* Mutant: order and results are paired from their ends.
RestoreOrderFromEnd(flattened) ==
    LET order == FlattenSeq(results)
        ahead == Len(order) - Len(flattened)
        given == {<<order[i + ahead], flattened[i]>> : i \in DOMAIN flattened}
    IN  [i \in DOMAIN order |->
            IF \E g \in given : g[1] = i
            THEN (CHOOSE g \in given : g[1] = i)[2] ELSE Undefined]

\* restoreOrder: the i-th result goes to the index of the i-th request sent.  The
\* array grows when an index lies beyond its end, and has holes.
RestoreOrder(flattened) ==
    LET order == FlattenSeq(results)
        given == {<<order[i], flattened[i]>> : i \in DOMAIN flattened}
        size  == Max({Len(order)} \cup {g[1] : g \in given})
    IN  [i \in 1..size |->
            IF \E g \in given : g[1] = i
            THEN (CHOOSE g \in given : g[1] = i)[2] ELSE Undefined]

\* Mutant: the loader is given what there is, a list of the right length or not.
SettleUnchecked ==
    /\ phase = "sending"
    /\ \A b \in DOMAIN replies : replies[b] # "awaited"
    /\ phase' = "done"
    /\ answers' = RestoreOrder(Flattened)
    /\ UNCHANGED <<config, vals, results, ids, series, next, clustering, sent, replies>>

\* Promise.all fails with the first failure, and the loader then rejects every
\* request, as it does when it is given a list of another length than its batch.
Settle ==
    /\ phase = "sending"
    /\ \/ \E b \in DOMAIN replies : replies[b] = "failed"
       \/ \A b \in DOMAIN replies : replies[b] # "awaited"
    /\ phase' = "done"
    /\ LET restored == RestoreOrder(Flattened)
           accepted == /\ \A b \in DOMAIN replies : replies[b] # "failed"
                       /\ DOMAIN restored = DOMAIN vals
       IN  answers' = IF accepted THEN restored ELSE [i \in DOMAIN vals |-> Rejection]
    /\ UNCHANGED <<config, vals, results, ids, series, next, clustering, sent, replies>>

\* The batch of the loader is settled; the next one starts afresh.
Terminated == phase = "done" /\ UNCHANGED vars

Next ==
    \/ \E r \in Request : Load(r)
    \/ Dispatch
    \/ BatchNext
    \/ BeginClustering
    \/ AddToCluster
    \/ ClusterNext
    \/ BeginSending
    \/ \E b \in DOMAIN replies, reply \in {"results", "object", "failed"} :
           ReceiveReply(b, reply)
    \/ Settle
    \/ Terminated

Spec == Init /\ [][Next]_vars

-----------------------------------------------------------------------------
(* Properties.                                                             *)

Entries(b) == ToSet(results[b])
Batched == UNION {Entries(b) : b \in DOMAIN results}

\* Every variable has its type, and the answers are one per request.
TypeOK ==
    /\ config \in [strategy : {"Request", "Headers", "Insecure"}, maxSize : MaxSizes]
    /\ phase \in {"loading", "batching", "clustering", "sending", "done"}
    /\ vals \in Seq(Request)
    /\ results \in Seq(Seq(DOMAIN vals) \ {<< >>})
    /\ ids \in [Keys -> Seq(DOMAIN results)]
    /\ series \in Operation \cup {"undefined"}
    /\ next \in 0..(Len(vals) + 1)
    /\ clusters \in Seq(Seq(DOMAIN vals) \ {<< >>}) /\ cluster \in Seq(DOMAIN vals)
    /\ phase \in {"sending", "done"} => DOMAIN replies = DOMAIN results /\ DOMAIN sent = DOMAIN results
    /\ phase = "done" => DOMAIN answers = DOMAIN vals

\* The order batchByKey's comment promises (utils.ts:91-93), of its loop: every value
\* so far is in exactly one batch, batches hold their values in the order of the
\* input and are ordered by their first.
BatchesInInputOrder ==
    phase = "batching" =>
        /\ Batched = 1..(next - 1)
        /\ \A b, c \in DOMAIN results : b # c => Entries(b) \cap Entries(c) = {}
        /\ \A b \in DOMAIN results : \A m, n \in DOMAIN results[b] :
               m < n => results[b][m] < results[b][n]
        /\ \A b, c \in DOMAIN results : b < c => Head(results[b]) < Head(results[c])

\* A series is never crossed (strategies.ts:22-30): two requests share a batch only
\* if every request made between them is of the same operation type.
SeriesRespected ==
    config.strategy # "Insecure" =>
        \A b \in DOMAIN results : \A i, j \in Entries(b) : \A k \in i..j :
            vals[k].operation = vals[i].operation

\* What is sent for a request with others are its own headers (utils.ts:85-89): all of
\* them, or up to those batching ignores; under the insecure strategy, those of its
\* own that are allowed are sent, and none that is not.
HeadersAreOwn ==
    \A b \in DOMAIN sent : \A i \in Entries(b) :
        LET own == ForwardHeaders[vals[i].context]
            headers == sent[b].headers
        IN CASE config.strategy = "Request" -> headers = own
             [] config.strategy = "Headers" ->
                    headers \ BatchIgnoreHeaders = own \ BatchIgnoreHeaders
             [] config.strategy = "Insecure" ->
                    own \cap InsecureAllowedHeaders \subseteq headers
                    /\ headers \subseteq InsecureAllowedHeaders

\* When the subgraph gave a result per request, a request is settled with its own
\* result and no other's, whatever the batches were made into.  A batch answered with
\* one object shifts the results behind it, which restoreOrder then gives to other
\* requests (utils.ts:233-235): the batches before it are spared, and each of their
\* requests has its own result, unless the loader rejects all.
AnswersAreOwn ==
    phase = "done" =>
        /\ (\A b \in DOMAIN replies : replies[b] = "results") =>
              \A i \in DOMAIN vals : answers[i] \in {i, Undefined, Rejection}
        /\ \A b \in DOMAIN replies : (\A c \in 1..b : replies[c] = "results") =>
              \A i \in Entries(b) : answers[i] \in {i, Rejection}

\* If the subgraph gave a result per request and none was left out of all batches, each
\* request has its result.
BatchedAreAnswered ==
    /\ phase = "done" /\ (\A b \in DOMAIN replies : replies[b] = "results")
    /\ Batched = DOMAIN vals
    => \A i \in DOMAIN vals : answers[i] = i

\* The comment on clustering (utils.ts:47-53) breaks batches down into sub-batches, and
\* the one on restoreOrder (utils.ts:207-222) has the results of values.map(F): every
\* request of the loader's batch is sent in some batch.
EveryRequestIsSent == phase \in {"sending", "done"} => Batched = DOMAIN vals

\* How far the code is from that comment: a request is left out of all batches by the
\* clustering only (utils.ts:192-194), and only if, in the order of the deadlines,
\* two requests of its key that are sent come before it, the second could not join
\* the first, and the first one left out could not join the second.
OnlyLatestAreLost ==
    phase \in {"clustering", "sending", "done"} =>
        LET lost == DOMAIN vals \ Batched
        IN  \A l \in lost : \E i, j \in Batched, k \in lost :
                /\ \A x \in {i, j, k} : KeyOf(vals[x]) = KeyOf(vals[l])
                /\ Before(i, j) /\ ~Clusterable(i, j)
                /\ Before(j, k) /\ ~Clusterable(j, k)
                /\ k = l \/ Before(k, l)

\* The comment in makeLegacyGqlExecutor (executors.ts:136-137) takes any request's legacy
\* context for that of all, the headers it is made of being batch-compatible: no
\* request that is batched by headers is sent with another's.
LegacyContextIsOwn ==
    config.strategy # "Insecure" =>
        \A b \in DOMAIN sent : \A i \in Entries(b) :
            sent[b].legacy = LegacyContextOf[vals[i].context]
=============================================================================
