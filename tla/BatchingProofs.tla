----------------------------- MODULE BatchingProofs -----------------------------
(***************************************************************************)
(* Theorems about Batching, for every set of requests, headers, deadlines  *)
(* and sizes, and whatever the hash of the headers.                        *)
(*                                                                         *)
(* The argument: requests that share a batch may do so two by two, and     *)
(* that stays true of whatever part of a batch the clustering makes into a *)
(* batch of its own.  No batch is ever full when a request looks for one,  *)
(* since the loader holds no more requests than a batch may.               *)
(*                                                                         *)
(* The second half is about what becomes of each request: none is in two   *)
(* batches, so each is settled with the result at its own place, and the   *)
(* clustering loses only the latest of those it could not put together.    *)
(***************************************************************************)
EXTENDS Batching, FunctionTheorems, SequenceTheorems, WellFoundedInduction, TLAPS

\* Requests i and j may share a batch: as do all pairs in S.
MayShare(i, j) ==
    /\ config.strategy = "Request" => vals[i].context = vals[j].context
    /\ config.strategy = "Headers" =>
          BatchByHeaders(vals[i].context) = BatchByHeaders(vals[j].context)
    /\ config.strategy # "Insecure" =>
          \A k \in i..j : vals[k].operation = vals[i].operation
Compatible(S) == \A i, j \in S : MayShare(i, j)

BatchesAreCompatible == \A b \in DOMAIN results : Compatible(Entries(b))

\* Before the loop there are no batches.
NothingYet ==
    phase = "loading" =>
        /\ results = << >> /\ next = 1 /\ series = "undefined"
        /\ ids = [k \in Keys |-> << >>]

\* No batch is longer than what the loop went through.
BatchesAreShort ==
    phase = "batching" =>
        /\ next >= 1
        /\ Len(results) <= next - 1
        /\ \A b \in DOMAIN results : Len(results[b]) <= next - 1

\* An open batch is looked for under the key of its first request, and since its
\* requests were made all were of the same series.
OpenBatchesFit ==
    phase = "batching" =>
        \A k \in Keys : \A p \in DOMAIN ids[k] :
            /\ KeyOf(vals[Head(results[ids[k][p]])]) = k
            /\ \A i \in Entries(ids[k][p]) : \A j \in i..(next - 1) :
                  SeriesOf(vals[j]) = series

\* The clusters hold requests of the batch they are to replace.
ClustersAreParts ==
    /\ phase # "clustering" \/ next = 0 => clusters = << >> /\ cluster = << >>
    /\ phase = "clustering" => next <= Len(results)
    /\ phase = "clustering" /\ next > 0 =>
          /\ \A c \in DOMAIN clusters : ToSet(clusters[c]) \subseteq Entries(next)
          /\ ToSet(cluster) \subseteq Entries(next)

SentAlong ==
    sent = IF phase \in {"sending", "done"}
           THEN [b \in DOMAIN results |-> ArgsOf(results[b])] ELSE << >>

\* No request is settled with the result of another if each batch had its results.
OwnOrNothing ==
    phase = "done" /\ (\A b \in DOMAIN replies : replies[b] = "results") =>
        \A i \in DOMAIN vals : answers[i] \in {i, Undefined, Rejection}

IInv ==
    /\ TypeOK
    /\ Len(vals) <= config.maxSize
    /\ BatchesAreCompatible
    /\ NothingYet
    /\ BatchesAreShort
    /\ BatchesInInputOrder
    /\ OpenBatchesFit
    /\ ClustersAreParts
    /\ SentAlong
    /\ OwnOrNothing

-----------------------------------------------------------------------------
(* Facts about the operators.                                              *)

\* Positions have a minimum.
LEMMA NatMinimum ==
    ASSUME NEW S \in SUBSET Nat, S # {}
    PROVE  \E m \in S : \A n \in S : m <= n
<1> DEFINE lt == OpToRel(<, Nat)
<1>1. IsWellFoundedOn(lt, Nat)
  BY NatLessThanWellFounded
<1>2. \A m, n \in Nat : <<m, n>> \in lt <=> m < n
  BY DEF OpToRel
<1> HIDE DEF lt
<1>3. PICK m \in S : \A n \in S : ~(<<n, m>> \in lt)
  BY <1>1, WFMin
<1>4. \A n \in S : m \in Nat /\ n \in Nat /\ ~(n < m)
  BY <1>2, <1>3
<1> QED
  BY <1>4

\* What the type of the variables says of lengths and numbers.
LEMMA TypeFacts ==
    ASSUME TypeOK
    PROVE  /\ Len(vals) \in Nat /\ DOMAIN vals = 1..Len(vals)
           /\ Len(results) \in Nat /\ DOMAIN results = 1..Len(results)
           /\ \A b \in DOMAIN results :
                 /\ results[b] \in Seq(DOMAIN vals) /\ results[b] # << >>
                 /\ Len(results[b]) \in Nat \ {0}
                 /\ DOMAIN results[b] = 1..Len(results[b])
           /\ next \in Nat /\ next <= Len(vals) + 1
           /\ config.strategy \in {"Request", "Headers", "Insecure"}
           /\ config.maxSize \in Nat
<1>1. vals \in Seq(Request) /\ results \in Seq(Seq(DOMAIN vals) \ {<< >>})
      /\ next \in 0..(Len(vals) + 1)
      /\ config \in [strategy : {"Request", "Headers", "Insecure"}, maxSize : MaxSizes]
  BY DEF TypeOK
<1>2. Len(vals) \in Nat /\ DOMAIN vals = 1..Len(vals)
  BY <1>1
<1>3. Len(results) \in Nat /\ DOMAIN results = 1..Len(results)
  BY <1>1
<1>4. \A b \in DOMAIN results : results[b] \in Seq(DOMAIN vals) /\ results[b] # << >>
  BY <1>1
<1>5. \A b \in DOMAIN results :
          Len(results[b]) \in Nat \ {0} /\ DOMAIN results[b] = 1..Len(results[b])
  BY <1>4
<1>6. next \in Nat /\ next <= Len(vals) + 1
  BY <1>1, <1>2
<1>7. config.strategy \in {"Request", "Headers", "Insecure"} /\ config.maxSize \in Nat
  BY <1>1, SizeAssumption
<1> QED
  BY <1>2, <1>3, <1>4, <1>5, <1>6, <1>7

\* findIndex returns the position of a batch whose first request matches.
LEMMA FoundBatchMatches ==
    ASSUME NEW list \in Seq(DOMAIN results), NEW v, FindBatch(list, v) \in DOMAIN list
    PROVE  Matches(vals[Head(results[list[FindBatch(list, v)]])], v)
<1> DEFINE I == {p \in 1..Len(list) : Matches(vals[Head(results[list[p]])], v)}
<1>1. FindBatch(list, v) = IF I # {} THEN Min(I) ELSE 0
  BY DEF FindBatch, SelectInSeq
<1>2. I # {}
  BY <1>1
<1>3. Min(I) \in I
  <2>1. PICK m \in I : \A n \in I : m <= n
    <3>1. I \in SUBSET Nat
      OBVIOUS
    <3> HIDE DEF I
    <3> QED
      BY <1>2, <3>1, NatMinimum
  <2> HIDE DEF I
  <2> QED
    BY <2>1 DEF Min
<1> QED
  BY <1>1, <1>2, <1>3

\* What it is to append to a list, and to replace one of its elements.
LEMMA AppendedOne ==
    ASSUME NEW S, NEW s \in Seq(S), s # << >>, NEW e \in S, NEW t, t = Append(s, e)
    PROVE  /\ t \in Seq(S) \ {<< >>} /\ Len(t) = Len(s) + 1 /\ DOMAIN t = 1..(Len(s) + 1)
           /\ \A n \in 1..(Len(s) + 1) : t[n] = IF n <= Len(s) THEN s[n] ELSE e
           /\ Head(t) = Head(s)
<1>1. /\ Len(s) \in Nat \ {0} /\ t \in Seq(S) /\ Len(t) = Len(s) + 1
      /\ \A n \in 1..Len(s) : t[n] = s[n]
      /\ t[Len(s) + 1] = e
  BY AppendProperties
<1>2. DOMAIN t = 1..(Len(s) + 1) /\ t # << >>
  BY <1>1
<1>3. \A n \in 1..(Len(s) + 1) :
          (n <= Len(s) /\ n \in 1..Len(s)) \/ (~(n <= Len(s)) /\ n = Len(s) + 1)
  BY <1>1
<1>4. Head(t) = t[1] /\ Head(s) = s[1] /\ 1 \in 1..Len(s)
  BY <1>1, <1>2
<1> QED
  BY <1>1, <1>2, <1>3, <1>4

LEMMA ReplacedOne ==
    ASSUME NEW B, NEW s \in Seq(B), NEW b \in DOMAIN s, NEW e \in B,
           NEW t, t = [s EXCEPT ![b] = e]
    PROVE  /\ t \in Seq(B) /\ DOMAIN t = DOMAIN s /\ Len(t) = Len(s) /\ t[b] = e
           /\ \A c \in DOMAIN s : c # b => t[c] = s[c]
<1>1. Len(s) \in Nat /\ DOMAIN s = 1..Len(s)
  OBVIOUS
<1>2. t \in Seq(B)
  BY <1>1, ExceptSeq
<1>3. DOMAIN t = DOMAIN s /\ t[b] = e /\ \A c \in DOMAIN s : c # b => t[c] = s[c]
  OBVIOUS
<1>4. Len(t) \in Nat /\ DOMAIN t = 1..Len(t)
  BY <1>2
<1>5. Len(t) = Len(s)
  BY <1>1, <1>2, <1>3
<1> QED
  BY <1>2, <1>3, <1>5

\* subBatchIdFn returns a key.
LEMMA KeysAreKeys ==
    ASSUME TypeOK, NEW v \in Request
    PROVE  KeyOf(v) \in Keys
<1>1. config.strategy \in {"Request", "Headers", "Insecure"}
  BY DEF TypeOK
<1>2. v.context \in Context
  BY DEF Request
<1>3. BatchByHeaders(v.context) \in DOMAIN HashOf
  BY <1>2, ProfileAssumption DEF BatchByHeaders
<1> QED
  BY <1>1, <1>2, <1>3 DEF KeyOf, Keys, BatchByHeadersHash

\* The elements of a sequence, when one is appended.
LEMMA ElementsOfAppend ==
    ASSUME NEW S, NEW s \in Seq(S), NEW e \in S
    PROVE  ToSet(Append(s, e)) = ToSet(s) \cup {e}
<1>1. /\ Len(s) \in Nat /\ DOMAIN s = 1..Len(s)
      /\ DOMAIN Append(s, e) = 1..(Len(s) + 1)
      /\ \A n \in 1..Len(s) : Append(s, e)[n] = s[n]
      /\ Append(s, e)[Len(s) + 1] = e
  OBVIOUS
<1>2. ASSUME NEW x \in ToSet(Append(s, e)) PROVE x \in ToSet(s) \cup {e}
  <2>1. PICK n \in 1..(Len(s) + 1) : x = Append(s, e)[n]
    BY <1>1, <1>2 DEF ToSet
  <2>2. n \in 1..Len(s) \/ n = Len(s) + 1
    BY <1>1
  <2> QED
    BY <1>1, <2>1, <2>2 DEF ToSet
<1>3. ASSUME NEW x \in ToSet(s) PROVE x \in ToSet(Append(s, e))
  <2>1. PICK n \in 1..Len(s) : x = s[n]
    BY <1>1, <1>3 DEF ToSet
  <2>2. n \in 1..(Len(s) + 1)
    BY <1>1
  <2> QED
    BY <1>1, <2>1, <2>2 DEF ToSet
<1>4. e \in ToSet(Append(s, e))
  <2>1. Len(s) + 1 \in 1..(Len(s) + 1)
    BY <1>1
  <2> QED
    BY <1>1, <2>1 DEF ToSet
<1> QED
  BY <1>2, <1>3, <1>4

LEMMA ElementOfOne ==
    ASSUME NEW e
    PROVE  ToSet(<<e>>) = {e}
  BY DEF ToSet

LEMMA PartsAreCompatible ==
    ASSUME NEW T, Compatible(T), NEW S \in SUBSET T
    PROVE  Compatible(S)
  BY DEF Compatible

\* The headers the insecure strategy sends along are allowed ones, of all requests.
LEMMA MergedHeaders ==
    ASSUME NEW batch
    PROVE  /\ MergeInsecureHeaders(batch) \subseteq InsecureAllowedHeaders
           /\ \A i \in ToSet(batch) :
                 ForwardHeaders[vals[i].context] \cap InsecureAllowedHeaders
                     \subseteq MergeInsecureHeaders(batch)
<1> DEFINE all == {ForwardHeaders[vals[i].context] : i \in ToSet(batch)}
<1>1. MergeInsecureHeaders(batch) = InsecureAllowedHeaders \cap UNION all
  BY DEF MergeInsecureHeaders
<1>2. \A i \in ToSet(batch) : ForwardHeaders[vals[i].context] \in all
  OBVIOUS
<1> HIDE DEF all
<1>3. \A h \in all : h \cap InsecureAllowedHeaders \subseteq MergeInsecureHeaders(batch)
  BY <1>1
<1>4. MergeInsecureHeaders(batch) \subseteq InsecureAllowedHeaders
  BY <1>1
<1> QED
  BY <1>2, <1>3, <1>4

\* A batch in results, its first request, and its requests.
LEMMA BatchesHaveEntries ==
    ASSUME TypeOK, NEW b \in DOMAIN results
    PROVE  /\ results[b] \in Seq(DOMAIN vals) /\ results[b] # << >>
           /\ Head(results[b]) \in Entries(b)
           /\ Entries(b) \subseteq DOMAIN vals
           /\ Entries(b) \subseteq Nat
<1>1. results[b] \in Seq(DOMAIN vals) /\ results[b] # << >>
  BY DEF TypeOK
<1>2. Len(results[b]) \in Nat /\ DOMAIN results[b] = 1..Len(results[b])
  BY <1>1
<1>3. 1 \in DOMAIN results[b] /\ Head(results[b]) = results[b][1]
  BY <1>1, <1>2
<1>4. DOMAIN vals = 1..Len(vals) /\ Len(vals) \in Nat
  BY DEF TypeOK
<1> QED
  BY <1>1, <1>3, <1>4 DEF Entries, ToSet

-----------------------------------------------------------------------------
(* The loader fills, and the first loop divides what it holds.             *)

LEMMA InitIInv == Init => IInv
<1> SUFFICES ASSUME Init PROVE IInv
  OBVIOUS
<1> USE DEF Init
<1>1. TypeOK
  <2>1. vals \in Seq(Request) /\ ids \in [Keys -> Seq(DOMAIN results)]
    OBVIOUS
  <2>2. results \in Seq(Seq(DOMAIN vals) \ {<< >>}) /\ next \in 0..(Len(vals) + 1)
    OBVIOUS
  <2>3. clusters \in Seq(Seq(DOMAIN vals) \ {<< >>}) /\ cluster \in Seq(DOMAIN vals)
    OBVIOUS
  <2> QED
    BY <2>1, <2>2, <2>3 DEF TypeOK
<1>2. Len(vals) <= config.maxSize
  BY SizeAssumption
<1>3. BatchesAreCompatible /\ NothingYet /\ BatchesAreShort /\ BatchesInInputOrder
  BY DEF BatchesAreCompatible, NothingYet, BatchesAreShort, BatchesInInputOrder
<1>4. OpenBatchesFit /\ ClustersAreParts /\ SentAlong /\ OwnOrNothing
  BY DEF OpenBatchesFit, ClustersAreParts, SentAlong, OwnOrNothing
<1> QED
  BY <1>1, <1>2, <1>3, <1>4 DEF IInv

LEMMA LoadIInv ==
    ASSUME IInv, NEW r \in Request, Load(r)
    PROVE  IInv'
<1> USE DEF IInv, Load, clustering
<1>1. /\ results = << >> /\ next = 1 /\ series = "undefined"
      /\ ids = [k \in Keys |-> << >>] /\ clusters = << >> /\ cluster = << >>
      /\ sent = << >>
  BY DEF NothingYet, ClustersAreParts, SentAlong
<1>2. vals' \in Seq(Request) /\ Len(vals') = Len(vals) + 1 /\ Len(vals) \in Nat
  BY DEF TypeOK
<1>3. TypeOK'
  <2>1. results' \in Seq(Seq(DOMAIN vals') \ {<< >>}) /\ next' \in 0..(Len(vals') + 1)
    BY <1>1, <1>2
  <2>2. clusters' \in Seq(Seq(DOMAIN vals') \ {<< >>}) /\ cluster' \in Seq(DOMAIN vals')
    BY <1>1
  <2> QED
    BY <1>2, <2>1, <2>2 DEF TypeOK
<1>4. Len(vals') <= config'.maxSize
  BY <1>2, SizeAssumption DEF LoaderHasRoom, TypeOK
<1>5. BatchesAreCompatible' /\ NothingYet' /\ BatchesAreShort' /\ BatchesInInputOrder'
  BY <1>1 DEF BatchesAreCompatible, NothingYet, BatchesAreShort, BatchesInInputOrder
<1>6. OpenBatchesFit' /\ ClustersAreParts' /\ SentAlong' /\ OwnOrNothing'
  BY <1>1 DEF OpenBatchesFit, ClustersAreParts, SentAlong, OwnOrNothing
<1> QED
  BY <1>3, <1>4, <1>5, <1>6

\* What is sent is chosen when it is sent.
LEMMA SendIsSentAlong ==
    ASSUME Send(results'), UNCHANGED <<config, vals>>
    PROVE  /\ phase' = "sending" /\ SentAlong'
           /\ DOMAIN replies' = DOMAIN results' /\ DOMAIN sent' = DOMAIN results'
  BY DEF Send, SentAlong, ArgsOf, MergeInsecureHeaders

LEMMA DispatchIInv ==
    ASSUME IInv, Dispatch
    PROVE  IInv'
<1> USE DEF IInv, Dispatch, clustering
<1>1. /\ results = << >> /\ next = 1 /\ series = "undefined"
      /\ ids = [k \in Keys |-> << >>] /\ clusters = << >> /\ cluster = << >>
      /\ sent = << >>
  BY DEF NothingYet, ClustersAreParts, SentAlong
<1>2. CASE Len(vals) = 1
  <2>1. /\ results' = <<<<1>>>> /\ phase' = "sending" /\ SentAlong'
        /\ DOMAIN replies' = DOMAIN results' /\ DOMAIN sent' = DOMAIN results'
    BY <1>2, SendIsSentAlong
  <2>2. DOMAIN vals = {1} /\ vals[1] \in Request
    BY <1>2 DEF TypeOK
  <2>3. results' \in Seq(Seq(DOMAIN vals') \ {<< >>}) /\ ids' \in [Keys -> Seq(DOMAIN results')]
    BY <1>1, <2>1, <2>2
  <2>4. TypeOK'
    BY <2>1, <2>3 DEF TypeOK
  <2>5. Entries(1)' = {1} /\ DOMAIN results' = {1}
    BY <2>1 DEF Entries, ToSet
  <2>6. MayShare(1, 1)'
    BY <2>1, <2>2 DEF MayShare
  <2>7. BatchesAreCompatible'
    BY <2>5, <2>6 DEF BatchesAreCompatible, Compatible
  <2>8. NothingYet' /\ BatchesAreShort' /\ BatchesInInputOrder' /\ OpenBatchesFit'
    BY <2>1 DEF NothingYet, BatchesAreShort, BatchesInInputOrder, OpenBatchesFit
  <2>9. ClustersAreParts' /\ OwnOrNothing'
    BY <2>1, <1>1 DEF ClustersAreParts, OwnOrNothing
  <2> QED
    BY <2>1, <2>4, <2>7, <2>8, <2>9
<1>3. CASE Len(vals) # 1
  <2>1. phase' = "batching" /\ UNCHANGED <<results, sent, replies>>
    BY <1>3
  <2>2. TypeOK'
    BY <2>1 DEF TypeOK
  <2>3. BatchesAreCompatible' /\ NothingYet' /\ BatchesAreShort'
    BY <1>1, <2>1 DEF BatchesAreCompatible, NothingYet, BatchesAreShort
  <2>4. BatchesInInputOrder'
    BY <1>1, <2>1 DEF BatchesInInputOrder, Batched
  <2>5. OpenBatchesFit' /\ ClustersAreParts' /\ SentAlong' /\ OwnOrNothing'
    BY <1>1, <2>1 DEF OpenBatchesFit, ClustersAreParts, SentAlong, OwnOrNothing
  <2> QED
    BY <2>2, <2>3, <2>4, <2>5
<1> QED
  BY <1>2, <1>3

\* A turn of the loop is about a request, all requests before it are in batches, and
\* the batches hold nothing else.
LEMMA TurnContext ==
    ASSUME IInv, phase = "batching", next <= Len(vals)
    PROVE  /\ next \in 1..Len(vals) /\ next \in DOMAIN vals /\ vals[next] \in Request
           /\ KeyOf(vals[next]) \in Keys
           /\ OpenBatches(vals[next]) \in [Keys -> Seq(DOMAIN results)]
           /\ \A b \in DOMAIN results : \A i \in Entries(b) : i \in 1..(next - 1)
<1> USE DEF IInv
<1>1. next \in 1..Len(vals) /\ next \in DOMAIN vals /\ vals[next] \in Request
  BY DEF TypeOK, BatchesAreShort
<1>2. OpenBatches(vals[next]) \in [Keys -> Seq(DOMAIN results)]
  BY DEF OpenBatches, TypeOK
<1>3. \A b \in DOMAIN results : \A i \in Entries(b) : i \in 1..(next - 1)
  BY DEF BatchesInInputOrder, Batched
<1> QED
  BY <1>1, <1>2, <1>3, KeysAreKeys

\* No batch is full before the last request is in one.
LEMMA NoBatchIsFull ==
    ASSUME IInv, phase = "batching", next <= Len(vals), NEW list \in Seq(DOMAIN results), NEW p
    PROVE  DropFull(list, p) = list
<1>1. ASSUME p \in DOMAIN list PROVE ~(Len(results[list[p]]) >= config.maxSize)
  <2>1. list[p] \in DOMAIN results
    BY <1>1
  <2>2. Len(results[list[p]]) <= next - 1 /\ Len(vals) <= config.maxSize
    BY <2>1 DEF IInv, BatchesAreShort
  <2> QED
    BY <2>1, <2>2, TypeFacts DEF IInv
<1> QED
  BY <1>1 DEF DropFull

\* The batches a request finds open, it may be added to as far as series go.
LEMMA OpenBatchesAreOfOneSeries ==
    ASSUME IInv, phase = "batching", next <= Len(vals), NEW k \in Keys,
           NEW p \in DOMAIN OpenBatches(vals[next])[k]
    PROVE  LET b == OpenBatches(vals[next])[k][p]
           IN  /\ b \in DOMAIN results
               /\ b = ids[k][p] /\ p \in DOMAIN ids[k]
               /\ SeriesOf(vals[next]) = series
               /\ KeyOf(vals[Head(results[b])]) = k
               /\ \A i \in Entries(b) : \A j \in i..next : SeriesOf(vals[j]) = series
<1> DEFINE b == OpenBatches(vals[next])[k][p]
<1>1. SeriesOf(vals[next]) = series /\ OpenBatches(vals[next]) = ids
  BY DEF OpenBatches
<1>2. b = ids[k][p] /\ p \in DOMAIN ids[k] /\ b \in DOMAIN results
  BY <1>1, TurnContext
<1>3. KeyOf(vals[Head(results[b])]) = k
  BY <1>2 DEF IInv, OpenBatchesFit
<1>4. ASSUME NEW i \in Entries(b), NEW j \in i..next PROVE SeriesOf(vals[j]) = series
  <2>1. i \in Int /\ next \in Int
    BY <1>2, TurnContext
  <2>2. j = next \/ j \in i..(next - 1)
    BY <2>1
  <2> QED
    BY <1>1, <1>2, <2>2 DEF IInv, OpenBatchesFit
<1> QED
  BY <1>1, <1>2, <1>3, <1>4

\* The batch found for a request holds none it may not share it with.
LEMMA FoundBatchMayBeJoined ==
    ASSUME IInv, phase = "batching", next <= Len(vals),
           NEW k, k = KeyOf(vals[next]),
           NEW list, list = OpenBatches(vals[next])[k],
           NEW p, p = FindBatch(list, vals[next]), p \in DOMAIN list
    PROVE  Compatible(Entries(list[p]) \cup {next})
<1> DEFINE b == list[p]
           h == Head(results[b])
<1>1. /\ k \in Keys /\ list \in Seq(DOMAIN results) /\ b \in DOMAIN results
      /\ next \in 1..Len(vals)
  BY TurnContext
<1>2. /\ KeyOf(vals[h]) = KeyOf(vals[next]) /\ SeriesOf(vals[next]) = series
      /\ \A i \in Entries(b) : \A j \in i..next : SeriesOf(vals[j]) = series
  BY <1>1, OpenBatchesAreOfOneSeries
<1>3. Matches(vals[h], vals[next])
  BY <1>1, FoundBatchMatches
<1>4. /\ h \in Entries(b) /\ \A i \in Entries(b) : i \in 1..(next - 1)
      /\ Compatible(Entries(b)) /\ config.strategy \in {"Request", "Headers", "Insecure"}
  BY <1>1, BatchesHaveEntries, TurnContext DEF IInv, BatchesAreCompatible, TypeOK
<1> HIDE DEF b, h
<1>5. ASSUME NEW i \in Entries(b) PROVE MayShare(i, next) /\ MayShare(next, i)
  <2>1. MayShare(i, h) /\ MayShare(h, i)
    BY <1>4 DEF Compatible
  <2>2. config.strategy = "Request" => vals[i].context = vals[next].context
    BY <1>2, <2>1 DEF MayShare, KeyOf
  <2>3. config.strategy = "Headers" =>
            BatchByHeaders(vals[i].context) = BatchByHeaders(vals[next].context)
    BY <1>3, <2>1 DEF MayShare, Matches
  <2>4. i \in i..next /\ next..i = {} /\ i \in Int /\ next \in Int
    BY <1>1, <1>4
  <2>5. config.strategy # "Insecure" =>
            \A j \in i..next : vals[j].operation = vals[i].operation
    BY <1>2, <2>4 DEF SeriesOf
  <2> QED
    BY <2>2, <2>3, <2>4, <2>5 DEF MayShare
<1>6. MayShare(next, next)
  <2>1. next..next = {next}
    BY <1>1
  <2> QED
    BY <2>1 DEF MayShare
<1>7. Compatible(Entries(b))
  BY <1>4
<1> QED
  BY <1>5, <1>6, <1>7 DEF Compatible, b

\* What a turn of the loop does, wherever the request goes.
Turns ==
    /\ phase = "batching" /\ next \in 1..Len(vals) /\ vals[next] \in Request
    /\ series' = SeriesOf(vals[next])
    /\ next' = next + 1
    /\ UNCHANGED <<config, phase, vals, clusters, cluster, sent, replies, answers>>
    /\ \A b \in DOMAIN results : \A i \in Entries(b) : i \in 1..(next - 1)

LEMMA BatchNextTurns ==
    ASSUME IInv, BatchNext
    PROVE  Turns
<1>1. phase = "batching" /\ next <= Len(vals)
  BY DEF BatchNext
<1>2. /\ series' = SeriesOf(vals[next]) /\ next' = next + 1
      /\ UNCHANGED <<config, phase, vals, clusters, cluster, sent, replies, answers>>
  BY DEF BatchNext, clustering
<1> QED
  BY <1>1, <1>2, TurnContext DEF Turns

\* The parts of the invariant that do not speak of the batches of the loop.
LEMMA TurnsKeep ==
    ASSUME IInv, Turns
    PROVE  NothingYet' /\ ClustersAreParts' /\ SentAlong' /\ OwnOrNothing'
  BY DEF IInv, Turns, NothingYet, ClustersAreParts, SentAlong, OwnOrNothing

\* The request joins a batch.
LEMMA JoinIInv ==
    ASSUME IInv, Turns, NEW b \in DOMAIN results,
           SeriesOf(vals[next]) = series, UNCHANGED ids,
           results' = [results EXCEPT ![b] = Append(@, next)],
           Compatible(Entries(b) \cup {next})
    PROVE  IInv'
<1>1. TypeOK
  BY DEF IInv
<1>2. /\ phase = "batching" /\ next \in 1..Len(vals) /\ next \in DOMAIN vals
      /\ vals[next] \in Request
      /\ \A c \in DOMAIN results : \A i \in Entries(c) : i \in 1..(next - 1)
      /\ series' = SeriesOf(vals[next]) /\ next' = next + 1
      /\ UNCHANGED <<config, phase, vals, clusters, cluster, sent, replies, answers>>
  BY <1>1, TypeFacts DEF Turns
<1>0. PICK B : B = Seq(DOMAIN vals) \ {<< >>}
  OBVIOUS
<1>13. PICK longer : longer = Append(results[b], next)
  OBVIOUS
<1>14. /\ Len(longer) = Len(results[b]) + 1
       /\ DOMAIN longer = 1..(Len(results[b]) + 1)
       /\ \A n \in 1..(Len(results[b]) + 1) :
             longer[n] = IF n <= Len(results[b]) THEN results[b][n] ELSE next
       /\ Head(longer) = Head(results[b]) /\ longer \in B
  <2>1. results[b] \in Seq(DOMAIN vals) /\ results[b] # << >> /\ next \in DOMAIN vals
    BY <1>1, <1>2, TypeFacts
  <2> QED
    BY <2>1, <1>0, <1>13, AppendedOne
<1>15. results \in Seq(B)
  BY <1>0, <1>1 DEF TypeOK
<1>3. /\ DOMAIN results' = DOMAIN results /\ Len(results') = Len(results)
      /\ results'[b] = longer /\ results' \in Seq(B)
      /\ \A c \in DOMAIN results : c # b => results'[c] = results[c]
  BY <1>13, <1>14, <1>15, ReplacedOne
<1>4. /\ Len(results'[b]) = Len(results[b]) + 1
      /\ DOMAIN results'[b] = 1..(Len(results[b]) + 1)
      /\ \A n \in 1..(Len(results[b]) + 1) :
            results'[b][n] = IF n <= Len(results[b]) THEN results[b][n] ELSE next
      /\ Head(results'[b]) = Head(results[b])
  BY <1>3, <1>14
<1>5. Entries(b)' = Entries(b) \cup {next}
  <2>1. ToSet(Append(results[b], next)) = ToSet(results[b]) \cup {next}
    <3>1. results[b] \in Seq(DOMAIN vals)
      BY <1>1, TypeFacts
    <3> QED
      BY <3>1, <1>2, ElementsOfAppend
  <2> QED
    BY <2>1, <1>3, <1>13 DEF Entries
<1>6. \A c \in DOMAIN results : c # b => Entries(c)' = Entries(c)
  BY <1>3 DEF Entries
<1>7. TypeOK'
  <2>3. results' \in Seq(Seq(DOMAIN vals') \ {<< >>})
    BY <1>0, <1>2, <1>3
  <2>4. series' \in Operation \cup {"undefined"}
    BY <1>2 DEF SeriesOf, Request
  <2>5. next' \in 0..(Len(vals') + 1)
    BY <1>1, <1>2, TypeFacts
  <2> QED
    BY <1>1, <1>2, <1>3, <2>3, <2>4, <2>5 DEF TypeOK
<1>8. BatchesAreCompatible'
  <2>1. \A c \in DOMAIN results : Compatible(Entries(c)')
    BY <1>5, <1>6 DEF IInv, BatchesAreCompatible
  <2>2. \A S : Compatible(S) => Compatible(S)'
    BY <1>2 DEF Compatible, MayShare, BatchByHeaders
  <2> QED
    BY <1>3, <2>1, <2>2 DEF BatchesAreCompatible, Compatible, MayShare
<1>9. BatchesAreShort'
  <2>1. /\ next >= 1 /\ Len(results) <= next - 1
        /\ \A c \in DOMAIN results : Len(results[c]) <= next - 1
    BY <1>2 DEF IInv, BatchesAreShort
  <2>2. /\ next \in Nat /\ Len(results) \in Nat /\ next' - 1 = next
        /\ \A c \in DOMAIN results : Len(results[c]) \in Nat
    BY <1>1, <1>2, TypeFacts
  <2>3. next' >= 1 /\ Len(results') <= next' - 1
    BY <2>1, <2>2, <1>2, <1>3
  <2>4. ASSUME NEW c \in DOMAIN results' PROVE Len(results'[c]) <= next' - 1
    <3>1. CASE c = b
      BY <3>1, <2>1, <2>2, <1>4
    <3>2. CASE c \in DOMAIN results /\ c # b
      BY <3>2, <2>1, <2>2, <1>3
    <3> QED
      BY <3>1, <3>2, <1>3
  <2> QED
    BY <2>3, <2>4 DEF BatchesAreShort
<1>10. BatchesInInputOrder'
  <2>1. Batched' = 1..(next' - 1)
    <3>1. Batched = 1..(next - 1)
      BY <1>2 DEF IInv, BatchesInInputOrder
    <3>2. Batched' = Batched \cup {next}
      BY <1>3, <1>5, <1>6 DEF Batched
    <3> QED
      BY <3>1, <3>2, <1>1, <1>2, TypeFacts
  <2>2. \A c, d \in DOMAIN results' : c # d => Entries(c)' \cap Entries(d)' = {}
    <3>1. \A c, d \in DOMAIN results : c # d => Entries(c) \cap Entries(d) = {}
      BY <1>2 DEF IInv, BatchesInInputOrder
    <3>2. \A c \in DOMAIN results : next \notin Entries(c)
      BY <1>2
    <3> QED
      BY <3>1, <3>2, <1>3, <1>5, <1>6
  <2>3. \A c \in DOMAIN results' : \A m, n \in DOMAIN results'[c] :
            m < n => results'[c][m] < results'[c][n]
    <3>1. \A c \in DOMAIN results : \A m, n \in DOMAIN results[c] :
              m < n => results[c][m] < results[c][n]
      BY <1>2 DEF IInv, BatchesInInputOrder
    <3>2. ASSUME NEW m \in DOMAIN results'[b], NEW n \in DOMAIN results'[b], m < n
          PROVE  results'[b][m] < results'[b][n]
      <4>1. m \in DOMAIN results[b] /\ results'[b][m] = results[b][m]
        BY <3>2, <1>1, <1>4, TypeFacts
      <4>2. results[b][m] \in 1..(next - 1)
        BY <4>1, <1>2 DEF Entries, ToSet
      <4>3. CASE n \in DOMAIN results[b]
        BY <3>1, <3>2, <4>1, <4>3, <1>1, <1>4, TypeFacts
      <4>4. CASE n \notin DOMAIN results[b]
        BY <4>1, <4>2, <4>4, <1>1, <1>2, <1>4, TypeFacts
      <4> QED
        BY <4>3, <4>4
    <3> QED
      BY <3>1, <3>2, <1>3
  <2>4. \A c, d \in DOMAIN results' : c < d => Head(results'[c]) < Head(results'[d])
    <3>1. \A c, d \in DOMAIN results : c < d => Head(results[c]) < Head(results[d])
      BY <1>2 DEF IInv, BatchesInInputOrder
    <3> QED
      BY <3>1, <1>3, <1>4
  <2> QED
    BY <2>1, <2>2, <2>3, <2>4 DEF BatchesInInputOrder
<1>11. OpenBatchesFit'
  <2> SUFFICES ASSUME NEW k \in Keys, NEW p \in DOMAIN ids[k],
                      NEW c, c = ids[k][p]
               PROVE  /\ KeyOf(vals[Head(results[c])])' = k
                      /\ \A i \in Entries(c)' : \A j \in i..(next' - 1) :
                            SeriesOf(vals[j])' = series'
    BY <1>2 DEF OpenBatchesFit
  <2>1. /\ c \in DOMAIN results /\ KeyOf(vals[Head(results[c])]) = k
        /\ \A i \in Entries(c) : \A j \in i..(next - 1) : SeriesOf(vals[j]) = series
    <3>1. ids[k] \in Seq(DOMAIN results)
      BY <1>1 DEF TypeOK
    <3> QED
      BY <3>1, <1>2 DEF IInv, OpenBatchesFit
  <2>2. Head(results'[c]) = Head(results[c])
    BY <2>1, <1>3, <1>4
  <2>3. KeyOf(vals[Head(results[c])])' = k
    BY <2>1, <2>2, <1>2 DEF KeyOf, BatchByHeadersHash, BatchByHeaders
  <2>4. ASSUME NEW i \in Entries(c)', NEW j \in i..(next' - 1)
        PROVE  SeriesOf(vals[j])' = series'
    <3>1. i \in 1..next /\ (i # next => i \in Entries(c))
      <4>1. i \in Entries(c) \/ i = next
        BY <2>1, <1>5, <1>6
      <4>2. i \in Entries(c) => i \in 1..(next - 1)
        BY <2>1, <1>2
      <4> QED
        BY <4>1, <4>2, <1>2, <1>1, TypeFacts
    <3>2. j = next \/ (j \in i..(next - 1) /\ i \in Entries(c))
      BY <3>1, <1>2, <1>1, TypeFacts
    <3> QED
      BY <3>2, <2>1, <1>2 DEF SeriesOf
  <2> QED
    BY <2>3, <2>4
<1>12. Len(vals') <= config'.maxSize
  BY <1>2 DEF IInv
<1> QED
  BY <1>7, <1>8, <1>9, <1>10, <1>11, <1>12, TurnsKeep DEF IInv

\* The request begins a batch.
LEMMA NewBatchIInv ==
    ASSUME IInv, Turns, NEW k, k = KeyOf(vals[next]),
           NEW open, open = OpenBatches(vals[next]),
           results' = NewBatch(results, next),
           ids' = [open EXCEPT ![k] = Append(open[k], Len(results) + 1)]
    PROVE  IInv'
<1>0. PICK new : new = Len(results) + 1
  OBVIOUS
<1>1. TypeOK
  BY DEF IInv
<1>2. /\ phase = "batching" /\ next \in 1..Len(vals) /\ next <= Len(vals)
      /\ next \in DOMAIN vals /\ vals[next] \in Request
      /\ \A c \in DOMAIN results : \A i \in Entries(c) : i \in 1..(next - 1)
      /\ series' = SeriesOf(vals[next]) /\ next' = next + 1
      /\ UNCHANGED <<config, phase, vals, clusters, cluster, sent, replies, answers>>
  BY <1>1, TypeFacts DEF Turns
<1>3. k \in Keys /\ open \in [Keys -> Seq(DOMAIN results)]
  BY <1>2, TurnContext
<1>4. /\ DOMAIN results' = 1..new /\ Len(results') = new
      /\ results'[new] = <<next>>
      /\ \A c \in DOMAIN results : c \in DOMAIN results' /\ c # new /\ results'[c] = results[c]
      /\ \A c \in DOMAIN results' : c = new \/ c \in DOMAIN results
  <2>1. results \in Seq(Seq(DOMAIN vals) \ {<< >>}) /\ <<next>> \in Seq(DOMAIN vals) \ {<< >>}
    BY <1>1, <1>2 DEF TypeOK
  <2>2. /\ Len(results') = new /\ results'[new] = <<next>>
        /\ results' \in Seq(Seq(DOMAIN vals) \ {<< >>})
        /\ \A c \in 1..Len(results) : results'[c] = results[c]
    BY <1>0, <2>1, AppendProperties DEF NewBatch
  <2>3. DOMAIN results' = 1..new
    BY <2>2
  <2>4. Len(results) \in Nat /\ DOMAIN results = 1..Len(results)
    BY <1>1, TypeFacts
  <2>5. \A c : (c \in 1..new <=> c \in 1..Len(results) \/ c = new)
    BY <1>0, <2>4
  <2>6. new \notin 1..Len(results)
    BY <1>0, <2>4
  <2> QED
    BY <2>2, <2>3, <2>4, <2>5, <2>6
<1>5. Entries(new)' = {next} /\ \A c \in DOMAIN results : Entries(c)' = Entries(c)
  <2>1. Entries(new)' = {next}
    BY <1>4, ElementOfOne DEF Entries
  <2>2. \A c \in DOMAIN results : Entries(c)' = Entries(c)
    BY <1>4 DEF Entries
  <2> QED
    BY <2>1, <2>2
<1>6. TypeOK'
  <2>1. results' \in Seq(Seq(DOMAIN vals') \ {<< >>})
    <3>1. results \in Seq(Seq(DOMAIN vals) \ {<< >>})
      BY <1>1 DEF TypeOK
    <3>2. <<next>> \in Seq(DOMAIN vals) \ {<< >>}
      BY <1>2
    <3> QED
      BY <3>1, <3>2, <1>2 DEF NewBatch
  <2>2. ids' \in [Keys -> Seq(DOMAIN results')]
    <3>1. DOMAIN results \subseteq DOMAIN results' /\ new \in DOMAIN results'
      BY <1>4, <1>1, TypeFacts, <1>0
    <3>2. \A l \in Keys : open[l] \in Seq(DOMAIN results')
      BY <1>3, <3>1
    <3>3. Append(open[k], new) \in Seq(DOMAIN results')
      BY <1>3, <3>1, <3>2
    <3> QED
      BY <1>3, <3>2, <3>3, <1>0
  <2>3. series' \in Operation \cup {"undefined"}
    BY <1>2 DEF SeriesOf, Request
  <2>4. next' \in 0..(Len(vals') + 1)
    BY <1>1, <1>2, TypeFacts
  <2> QED
    BY <1>1, <1>2, <2>1, <2>2, <2>3, <2>4 DEF TypeOK
<1>7. BatchesAreCompatible'
  <2>1. Compatible({next})
    <3>1. next..next = {next}
      BY <1>2, <1>1, TypeFacts
    <3> QED
      BY <3>1 DEF Compatible, MayShare
  <2>2. ASSUME NEW c \in DOMAIN results' PROVE Compatible(Entries(c)')
    <3>1. CASE c = new
      BY <3>1, <2>1, <1>5
    <3>2. CASE c \in DOMAIN results
      BY <3>2, <1>5 DEF IInv, BatchesAreCompatible
    <3> QED
      BY <3>1, <3>2, <1>4
  <2>3. \A S : Compatible(S) => Compatible(S)'
    BY <1>2 DEF Compatible, MayShare, BatchByHeaders
  <2> QED
    BY <2>2, <2>3 DEF BatchesAreCompatible, Compatible, MayShare
<1>8. BatchesAreShort'
  <2>1. Len(<<next>>) = 1
    OBVIOUS
  <2>2. /\ next >= 1 /\ Len(results) <= next - 1
        /\ \A c \in DOMAIN results : Len(results[c]) <= next - 1
    BY <1>2 DEF IInv, BatchesAreShort
  <2>3. next' - 1 = next /\ next \in Nat /\ Len(results') = Len(results) + 1
    BY <1>1, <1>2, <1>4, TypeFacts, <1>0
  <2>4. ASSUME NEW c \in DOMAIN results' PROVE Len(results'[c]) <= next' - 1
    <3>1. CASE c = new
      BY <3>1, <2>1, <2>2, <2>3, <1>4
    <3>2. CASE c \in DOMAIN results
      BY <3>2, <2>2, <2>3, <1>1, <1>4, TypeFacts
    <3> QED
      BY <3>1, <3>2, <1>4
  <2>5. next' >= 1 /\ Len(results') <= next' - 1
    BY <2>2, <2>3, <1>1, <1>2, TypeFacts
  <2> QED
    BY <2>4, <2>5 DEF BatchesAreShort
<1>9. BatchesInInputOrder'
  <2>1. Batched' = 1..(next' - 1)
    <3>1. Batched = 1..(next - 1)
      BY <1>2 DEF IInv, BatchesInInputOrder
    <3>2. Batched' = Batched \cup {next}
      <4>1. new \in DOMAIN results'
        BY <1>4, <1>1, TypeFacts, <1>0
      <4> QED
        BY <4>1, <1>4, <1>5 DEF Batched, Entries
    <3> QED
      BY <3>1, <3>2, <1>1, <1>2, TypeFacts
  <2>2. \A c, d \in DOMAIN results' : c # d => Entries(c)' \cap Entries(d)' = {}
    <3>1. \A c, d \in DOMAIN results : c # d => Entries(c) \cap Entries(d) = {}
      BY <1>2 DEF IInv, BatchesInInputOrder
    <3>2. \A c \in DOMAIN results : next \notin Entries(c)
      BY <1>2
    <3> QED
      BY <3>1, <3>2, <1>4, <1>5 DEF Entries
  <2>3. \A c \in DOMAIN results' : \A m, n \in DOMAIN results'[c] :
            m < n => results'[c][m] < results'[c][n]
    <3>1. \A c \in DOMAIN results : \A m, n \in DOMAIN results[c] :
              m < n => results[c][m] < results[c][n]
      BY <1>2 DEF IInv, BatchesInInputOrder
    <3>2. \A m, n \in DOMAIN <<next>> : ~(m < n)
      OBVIOUS
    <3> QED
      BY <3>1, <3>2, <1>4
  <2>4. \A c, d \in DOMAIN results' : c < d => Head(results'[c]) < Head(results'[d])
    <3>1. \A c, d \in DOMAIN results : c < d => Head(results[c]) < Head(results[d])
      BY <1>2 DEF IInv, BatchesInInputOrder
    <3>2. \A c \in DOMAIN results : Head(results[c]) \in 1..(next - 1)
      BY <1>1, <1>2, BatchesHaveEntries
    <3>3. Head(results'[new]) = next
      BY <1>4
    <3> SUFFICES ASSUME NEW c \in DOMAIN results', NEW d \in DOMAIN results', c < d
                 PROVE  Head(results'[c]) < Head(results'[d])
      OBVIOUS
    <3>4. c \in DOMAIN results /\ results'[c] = results[c]
      BY <1>0, <1>1, <1>4, TypeFacts
    <3>5. CASE d = new
      BY <3>2, <3>3, <3>4, <3>5, <1>1, TypeFacts
    <3>6. CASE d \in DOMAIN results
      BY <3>1, <3>4, <3>6, <1>4
    <3> QED
      BY <3>5, <3>6, <1>4
  <2> QED
    BY <2>1, <2>2, <2>3, <2>4 DEF BatchesInInputOrder
<1>10. OpenBatchesFit'
  <2> SUFFICES ASSUME NEW l \in Keys, NEW p \in DOMAIN ids'[l],
                      NEW c, c = ids'[l][p]
               PROVE  /\ KeyOf(vals[Head(results[c])])' = l
                      /\ \A i \in Entries(c)' : \A j \in i..(next' - 1) :
                            SeriesOf(vals[j])' = series'
    BY DEF OpenBatchesFit
  <2>1. next' - 1 = next
    BY <1>1, <1>2, TypeFacts
  <2>2. CASE p \in DOMAIN open[l] /\ c = open[l][p]
    <3>1. /\ c \in DOMAIN results /\ SeriesOf(vals[next]) = series
          /\ KeyOf(vals[Head(results[c])]) = l
          /\ \A i \in Entries(c) : \A j \in i..next : SeriesOf(vals[j]) = series
      BY <2>2, <1>2, OpenBatchesAreOfOneSeries
    <3>2. results'[c] = results[c] /\ Entries(c)' = Entries(c)
      BY <3>1, <1>4, <1>5
    <3> QED
      BY <3>1, <3>2, <2>1, <1>2
      DEF KeyOf, BatchByHeadersHash, BatchByHeaders, SeriesOf
  <2>3. CASE l = k /\ c = new
    <3>1. Head(results'[c]) = next
      BY <2>3, <1>4
    <3>2. \A i \in Entries(c)' : i..(next' - 1) = {next}
      <4>1. next..next = {next}
        BY <1>1, TypeFacts
      <4>2. Entries(c)' = {next}
        BY <2>3, <1>5
      <4> QED
        BY <4>1, <4>2, <2>1
    <3> QED
      BY <2>3, <3>1, <3>2, <1>2 DEF KeyOf, BatchByHeadersHash, BatchByHeaders, SeriesOf
  <2>4. \/ p \in DOMAIN open[l] /\ c = open[l][p]
        \/ l = k /\ c = new
    <3>1. CASE l # k
      BY <3>1, <1>3
    <3>2. CASE l = k
      BY <3>2, <1>3, <1>0
    <3> QED
      BY <3>1, <3>2
  <2> QED
    BY <2>2, <2>3, <2>4
<1>11. Len(vals') <= config'.maxSize
  BY <1>2 DEF IInv
<1> QED
  BY <1>6, <1>7, <1>8, <1>9, <1>10, <1>11, TurnsKeep DEF IInv

LEMMA BatchNextIInv ==
    ASSUME IInv, BatchNext
    PROVE  IInv'
<1> DEFINE v == vals[next]
           k == KeyOf(v)
           open == OpenBatches(v)
           p == FindBatch(open[k], v)
<1>1. phase = "batching" /\ next <= Len(vals)
  BY DEF BatchNext
<1>2. k \in Keys /\ open \in [Keys -> Seq(DOMAIN results)]
  BY <1>1, TurnContext
<1>3. DropFull(open[k], p) = open[k]
  BY <1>1, <1>2, NoBatchIsFull
<1>4. CASE p \in DOMAIN open[k]
  <2>1. /\ open[k][p] \in DOMAIN results /\ SeriesOf(v) = series
    BY <1>1, <1>2, <1>4, OpenBatchesAreOfOneSeries
  <2>2. Compatible(Entries(open[k][p]) \cup {next})
    BY <1>1, <1>4, FoundBatchMayBeJoined
  <2>3. open = ids
    BY <2>1 DEF OpenBatches
  <2>4. /\ results' = [results EXCEPT ![open[k][p]] = Append(@, next)]
        /\ ids' = [open EXCEPT ![k] = open[k]]
    BY <1>3, <1>4 DEF BatchNext
  <2>5. ids' = ids
    BY <1>2, <2>3, <2>4
  <2> QED
    BY <2>1, <2>2, <2>4, <2>5, JoinIInv, BatchNextTurns
<1>5. CASE p \notin DOMAIN open[k]
  <2>1. /\ results' = NewBatch(results, next)
        /\ ids' = [open EXCEPT ![k] = Append(open[k], Len(results) + 1)]
    BY <1>3, <1>5 DEF BatchNext
  <2> QED
    BY <2>1, NewBatchIInv, BatchNextTurns
<1> QED
  BY <1>4, <1>5

-----------------------------------------------------------------------------
(* The clustering makes batches out of parts of batches.                   *)

LEMMA BeginClusteringIInv ==
    ASSUME IInv, BeginClustering
    PROVE  IInv'
<1>1. TypeOK
  BY DEF IInv
<1>2. /\ phase = "batching" /\ phase' = "clustering" /\ next' = Len(results)
      /\ UNCHANGED <<config, vals, results, ids, series, clusters, cluster, sent, replies,
                     answers>>
  BY DEF BeginClustering, clustering
<1>3. Len(results) <= next - 1
  BY <1>2 DEF IInv, BatchesAreShort
<1>4. next' \in 0..(Len(vals) + 1)
  BY <1>1, <1>2, <1>3, TypeFacts
<1>5. TypeOK'
  BY <1>1, <1>2, <1>4 DEF TypeOK
<1>6. BatchesAreCompatible' /\ Len(vals') <= config'.maxSize
  BY <1>2 DEF IInv, BatchesAreCompatible, Compatible, MayShare, BatchByHeaders, Entries
<1>7. NothingYet' /\ BatchesAreShort' /\ BatchesInInputOrder' /\ OpenBatchesFit'
  BY <1>2 DEF NothingYet, BatchesAreShort, BatchesInInputOrder, OpenBatchesFit
<1>8. ClustersAreParts'
  <2>1. clusters = << >> /\ cluster = << >>
    BY <1>2 DEF IInv, ClustersAreParts
  <2>2. next' <= Len(results')
    BY <1>1, <1>2, TypeFacts
  <2> QED
    BY <1>2, <2>1, <2>2 DEF ClustersAreParts, ToSet
<1>9. SentAlong' /\ OwnOrNothing'
  BY <1>2 DEF IInv, SentAlong, OwnOrNothing
<1> QED
  BY <1>5, <1>6, <1>7, <1>8, <1>9 DEF IInv

LEMMA AddToClusterIInv ==
    ASSUME IInv, AddToCluster
    PROVE  IInv'
<1>1. TypeOK
  BY DEF IInv
<1>2. PICK i \in Unclustered :
          IF cluster # << >> /\ ~Clusterable(Head(cluster), i)
          THEN clusters' = Append(clusters, cluster) /\ cluster' = <<i>>
          ELSE cluster' = Append(cluster, i) /\ UNCHANGED clusters
  BY DEF AddToCluster
<1>3. /\ phase = "clustering" /\ next > 0
      /\ UNCHANGED <<config, phase, vals, results, ids, series, next, sent, replies, answers>>
  BY DEF AddToCluster
<1>4. next \in DOMAIN results /\ i \in Entries(next) /\ i \in DOMAIN vals
  <2>1. next \in DOMAIN results
    BY <1>1, <1>3, TypeFacts DEF IInv, ClustersAreParts
  <2>2. i \in Entries(next)
    BY DEF Unclustered, Entries
  <2> QED
    BY <1>1, <2>1, <2>2, BatchesHaveEntries
<1>5. /\ clusters \in Seq(Seq(DOMAIN vals) \ {<< >>}) /\ cluster \in Seq(DOMAIN vals)
      /\ \A c \in DOMAIN clusters : ToSet(clusters[c]) \subseteq Entries(next)
      /\ ToSet(cluster) \subseteq Entries(next)
  BY <1>1, <1>3 DEF IInv, TypeOK, ClustersAreParts
<1>6. /\ cluster' \in Seq(DOMAIN vals) /\ ToSet(cluster') \subseteq Entries(next)
  <2>1. CASE cluster' = <<i>>
    BY <2>1, <1>4, ElementOfOne
  <2>2. CASE cluster' = Append(cluster, i)
    BY <2>2, <1>4, <1>5, ElementsOfAppend, AppendProperties
  <2> QED
    BY <2>1, <2>2, <1>2
<1>7. /\ clusters' \in Seq(Seq(DOMAIN vals) \ {<< >>})
      /\ \A c \in DOMAIN clusters' : ToSet(clusters'[c]) \subseteq Entries(next)
  <2>1. CASE clusters' = Append(clusters, cluster) /\ cluster # << >>
    <3> DEFINE B == Seq(DOMAIN vals) \ {<< >>}
    <3>1. clusters \in Seq(B) /\ cluster \in B
      BY <2>1, <1>5
    <3> HIDE DEF B
    <3>2. /\ clusters' \in Seq(B) /\ Len(clusters) \in Nat
          /\ DOMAIN clusters' = 1..(Len(clusters) + 1) /\ DOMAIN clusters = 1..Len(clusters)
          /\ \A c \in 1..Len(clusters) : clusters'[c] = clusters[c]
          /\ clusters'[Len(clusters) + 1] = cluster
      BY <2>1, <3>1
    <3>3. \A c \in DOMAIN clusters' : c = Len(clusters) + 1 \/ c \in DOMAIN clusters
      BY <3>2
    <3> QED
      BY <3>2, <3>3, <1>5 DEF B
  <2>2. CASE UNCHANGED clusters
    BY <2>2, <1>5
  <2> QED
    BY <2>1, <2>2, <1>2
<1>8. TypeOK'
  BY <1>1, <1>3, <1>6, <1>7 DEF TypeOK
<1>9. ClustersAreParts'
  BY <1>3, <1>6, <1>7 DEF IInv, ClustersAreParts, Entries
<1>10. BatchesAreCompatible' /\ Len(vals') <= config'.maxSize
  BY <1>3 DEF IInv, BatchesAreCompatible, Compatible, MayShare, BatchByHeaders, Entries
<1>11. NothingYet' /\ BatchesAreShort' /\ BatchesInInputOrder' /\ OpenBatchesFit'
  BY <1>3 DEF NothingYet, BatchesAreShort, BatchesInInputOrder, OpenBatchesFit
<1>12. SentAlong' /\ OwnOrNothing'
  BY <1>3 DEF IInv, SentAlong, OwnOrNothing
<1> QED
  BY <1>8, <1>9, <1>10, <1>11, <1>12 DEF IInv

\* Where the element at position b of the spliced list u is from.
SpliceTakes(s, n, t, u, b) ==
    \/ b \in DOMAIN s /\ b < n /\ u[b] = s[b]
    \/ b - (n - 1) \in DOMAIN t /\ u[b] = t[b - (n - 1)]
    \/ /\ b - (Len(t) - 1) \in DOMAIN s /\ b - (Len(t) - 1) > n
       /\ u[b] = s[b - (Len(t) - 1)]

\* Where the elements of the list and what is put in have gone.
SpliceKeeps(s, n, t, u) ==
    /\ \A b \in DOMAIN s : b < n => b \in DOMAIN u /\ u[b] = s[b]
    /\ \A c \in DOMAIN t : n - 1 + c \in DOMAIN u /\ u[n - 1 + c] = t[c]
    /\ \A b \in DOMAIN s :
          b > n => b + (Len(t) - 1) \in DOMAIN u /\ u[b + (Len(t) - 1)] = s[b]

\* splice: what is in the list afterwards was in it before, or is put in; nothing but
\* the element at n is gone.
LEMMA Spliced ==
    ASSUME NEW B, NEW s \in Seq(B), NEW t \in Seq(B), NEW n \in 1..Len(s)
    PROVE  /\ Splice(s, n, t) \in Seq(B) /\ Len(Splice(s, n, t)) = Len(s) - 1 + Len(t)
           /\ ToSet(Splice(s, n, t)) \subseteq ToSet(s) \cup ToSet(t)
           /\ \A b \in DOMAIN Splice(s, n, t) : SpliceTakes(s, n, t, Splice(s, n, t), b)
           /\ SpliceKeeps(s, n, t, Splice(s, n, t))
<1>0. PICK u : u = Splice(s, n, t)
  OBVIOUS
<1> DEFINE before == SubSeq(s, 1, n - 1)
           after == SubSeq(s, n + 1, Len(s))
<1>1. /\ Len(s) \in Nat /\ DOMAIN s = 1..Len(s) /\ n \in Nat
      /\ Len(t) \in Nat /\ DOMAIN t = 1..Len(t)
  OBVIOUS
<1>2. /\ before \in Seq(B) /\ Len(before) = n - 1
      /\ \A i \in 1..(n - 1) : before[i] = s[i] /\ i \in DOMAIN s
  BY <1>1, SubSeqProperties
<1>3. /\ after \in Seq(B) /\ Len(after) = Len(s) - n
      /\ \A i \in 1..(Len(s) - n) : after[i] = s[n + i] /\ n + i \in DOMAIN s
  <2>1. \A i \in (n + 1)..Len(s) : s[i] \in B
    BY <1>1
  <2>2. /\ after \in Seq(B)
        /\ Len(after) = IF n + 1 <= Len(s) THEN Len(s) - (n + 1) + 1 ELSE 0
        /\ \A i \in 1..(Len(s) - (n + 1) + 1) : after[i] = s[(n + 1) + i - 1]
    BY <1>1, <2>1, SubSeqProperties
  <2> HIDE DEF after
  <2>3. Len(after) = Len(s) - n
    <3>1. n \in Int /\ n <= Len(s) /\ Len(s) \in Int
      BY <1>1
    <3>2. CASE n + 1 <= Len(s)
      BY <2>2, <3>1, <3>2
    <3>3. CASE ~(n + 1 <= Len(s))
      BY <2>2, <3>1, <3>3
    <3> QED
      BY <3>2, <3>3
  <2>4. ASSUME NEW i \in 1..(Len(s) - n) PROVE after[i] = s[n + i] /\ n + i \in DOMAIN s
    <3>1. i \in 1..(Len(s) - (n + 1) + 1) /\ (n + 1) + i - 1 = n + i /\ n + i \in 1..Len(s)
      BY <1>1
    <3> QED
      BY <3>1, <2>2, <1>1
  <2> QED
    BY <2>2, <2>3, <2>4
<1>7. u = (before \o t) \o after
  BY <1>0 DEF Splice
<1> HIDE DEF before, after
<1>4. /\ before \o t \in Seq(B) /\ Len(before \o t) = n - 1 + Len(t)
      /\ \A i \in 1..(n - 1 + Len(t)) :
            (before \o t)[i] = IF i <= n - 1 THEN before[i] ELSE t[i - (n - 1)]
  <2>1. \A i \in 1..(Len(before) + Len(t)) :
            (before \o t)[i] = IF i <= Len(before) THEN before[i] ELSE t[i - Len(before)]
    BY <1>2, ConcatProperties
  <2>2. before \o t \in Seq(B) /\ Len(before \o t) = Len(before) + Len(t)
    BY <1>2, ConcatProperties
  <2> QED
    BY <2>1, <2>2, <1>2
<1>5. /\ u \in Seq(B) /\ Len(u) = n - 1 + Len(t) + (Len(s) - n)
      /\ \A i \in 1..(n - 1 + Len(t) + (Len(s) - n)) :
            u[i] = IF i <= n - 1 + Len(t) THEN (before \o t)[i] ELSE after[i - (n - 1 + Len(t))]
  <2> DEFINE bt == before \o t
  <2>1. bt \in Seq(B) /\ after \in Seq(B)
    BY <1>3, <1>4
  <2>2. /\ \A i \in 1..(Len(bt) + Len(after)) :
               u[i] = IF i <= Len(bt) THEN bt[i] ELSE after[i - Len(bt)]
        /\ u \in Seq(B) /\ Len(u) = Len(bt) + Len(after)
    <3> HIDE DEF bt
    <3>1. /\ \A i \in 1..(Len(bt) + Len(after)) :
                (bt \o after)[i] = IF i <= Len(bt) THEN bt[i] ELSE after[i - Len(bt)]
          /\ bt \o after \in Seq(B) /\ Len(bt \o after) = Len(bt) + Len(after)
      BY <2>1, ConcatProperties
    <3> QED
      BY <3>1, <1>7 DEF bt
  <2> QED
    BY <2>2, <1>3, <1>4
<1>8. DOMAIN u = 1..(n - 1 + Len(t) + (Len(s) - n))
  <2>1. DOMAIN u = 1..Len(u)
    BY <1>5
  <2> QED
    BY <2>1, <1>5
<1>9. /\ n \in Int /\ Len(s) \in Int /\ Len(t) \in Int
      /\ 1 <= n /\ n <= Len(s) /\ 0 <= Len(t)
  BY <1>1
<1>10. \A b \in 1..(n - 1) : b \in DOMAIN u /\ b \in DOMAIN s /\ u[b] = s[b]
  <2> SUFFICES ASSUME NEW b \in 1..(n - 1)
               PROVE  b \in DOMAIN u /\ b \in DOMAIN s /\ u[b] = s[b]
    OBVIOUS
  <2>1. /\ b \in 1..(n - 1 + Len(t)) /\ b <= n - 1 + Len(t) /\ b <= n - 1
        /\ b \in 1..(n - 1 + Len(t) + (Len(s) - n))
    BY <1>9
  <2>2. u[b] = (before \o t)[b] /\ (before \o t)[b] = before[b]
    BY <2>1, <1>4, <1>5
  <2> QED
    BY <2>1, <2>2, <1>2, <1>8
<1>11. \A c \in 1..Len(t) : n - 1 + c \in DOMAIN u /\ u[n - 1 + c] = t[c]
  <2> SUFFICES ASSUME NEW c \in 1..Len(t), NEW b, b = n - 1 + c
               PROVE  b \in DOMAIN u /\ u[b] = t[c]
    OBVIOUS
  <2>1. /\ b \in 1..(n - 1 + Len(t)) /\ b <= n - 1 + Len(t) /\ ~(b <= n - 1)
        /\ b \in 1..(n - 1 + Len(t) + (Len(s) - n)) /\ b - (n - 1) = c
    BY <1>9
  <2>2. u[b] = (before \o t)[b] /\ (before \o t)[b] = t[c]
    BY <2>1, <1>4, <1>5
  <2> QED
    BY <2>1, <2>2, <1>8
<1>12. \A i \in 1..(Len(s) - n) :
           /\ n - 1 + Len(t) + i \in DOMAIN u /\ n + i \in DOMAIN s
           /\ u[n - 1 + Len(t) + i] = s[n + i]
  <2> SUFFICES ASSUME NEW i \in 1..(Len(s) - n), NEW b, b = n - 1 + Len(t) + i
               PROVE  b \in DOMAIN u /\ n + i \in DOMAIN s /\ u[b] = s[n + i]
    OBVIOUS
  <2>1. /\ b \in 1..(n - 1 + Len(t) + (Len(s) - n)) /\ ~(b <= n - 1 + Len(t))
        /\ b - (n - 1 + Len(t)) = i
    BY <1>9
  <2>2. u[b] = after[i]
    BY <2>1, <1>5
  <2> QED
    BY <2>1, <2>2, <1>3, <1>8
<1>13. SpliceKeeps(s, n, t, u)
  <2>1. ASSUME NEW b \in DOMAIN s, b < n PROVE b \in DOMAIN u /\ u[b] = s[b]
    <3>1. b \in 1..(n - 1)
      BY <2>1, <1>1, <1>9
    <3> QED
      BY <3>1, <1>10
  <2>2. ASSUME NEW b \in DOMAIN s, b > n
        PROVE  b + (Len(t) - 1) \in DOMAIN u /\ u[b + (Len(t) - 1)] = s[b]
    <3>1. /\ b - n \in 1..(Len(s) - n) /\ n + (b - n) = b
          /\ n - 1 + Len(t) + (b - n) = b + (Len(t) - 1)
      BY <2>2, <1>1, <1>9
    <3> QED
      BY <3>1, <1>12
  <2> QED
    BY <2>1, <2>2, <1>1, <1>11 DEF SpliceKeeps
<1>14. ASSUME NEW b \in DOMAIN u PROVE SpliceTakes(s, n, t, u, b)
  <2>1. b \in Int /\ 1 <= b /\ b <= n - 1 + Len(t) + (Len(s) - n)
    BY <1>8, <1>9
  <2>2. CASE b <= n - 1
    <3>1. b \in 1..(n - 1) /\ b < n
      BY <2>1, <2>2, <1>9
    <3> QED
      BY <3>1, <1>10 DEF SpliceTakes
  <2>3. CASE ~(b <= n - 1) /\ b <= n - 1 + Len(t)
    <3>1. b - (n - 1) \in 1..Len(t) /\ n - 1 + (b - (n - 1)) = b
      BY <2>1, <2>3, <1>9
    <3> QED
      BY <3>1, <1>1, <1>11 DEF SpliceTakes
  <2>4. CASE ~(b <= n - 1 + Len(t))
    <3>1. PICK i : i = b - (n - 1 + Len(t))
      OBVIOUS
    <3>2. /\ i \in 1..(Len(s) - n) /\ n - 1 + Len(t) + i = b
          /\ b - (Len(t) - 1) = n + i /\ n + i > n
      BY <3>1, <2>1, <2>4, <1>9
    <3> QED
      BY <3>2, <1>12 DEF SpliceTakes
  <2> QED
    BY <2>2, <2>3, <2>4
<1>15. ToSet(u) \subseteq ToSet(s) \cup ToSet(t)
  BY <1>14 DEF SpliceTakes, ToSet
<1>16. Len(u) = Len(s) - 1 + Len(t)
  BY <1>5, <1>9
<1> QED
  BY <1>0, <1>5, <1>13, <1>14, <1>15, <1>16

LEMMA ClusterNextIInv ==
    ASSUME IInv, ClusterNext
    PROVE  IInv'
<1>1. TypeOK
  BY DEF IInv
<1>2. /\ phase = "clustering" /\ next > 0 /\ next' = next - 1
      /\ clusters' = << >> /\ cluster' = << >>
      /\ UNCHANGED <<config, phase, vals, ids, series, sent, replies, answers>>
  BY DEF ClusterNext
<1>3. /\ next \in DOMAIN results /\ next \in 1..Len(results)
      /\ \A c \in DOMAIN clusters : ToSet(clusters[c]) \subseteq Entries(next)
  BY <1>1, <1>2, TypeFacts DEF IInv, ClustersAreParts
<1>4. PICK B : B = Seq(DOMAIN vals) \ {<< >>}
  OBVIOUS
<1>5. /\ results' \in Seq(B) /\ Len(results') >= Len(results)
      /\ ToSet(results') \subseteq ToSet(results) \cup ToSet(clusters)
  <2>1. results \in Seq(B) /\ clusters \in Seq(B) /\ Len(clusters) \in Nat
    BY <1>1, <1>4 DEF TypeOK
  <2>2. CASE Len(clusters) > 1
    <3>1. results' = Splice(results, next, clusters)
      BY <2>2 DEF ClusterNext, SeveralPushed
    <3>2. /\ results \in Seq(B) /\ clusters \in Seq(B) /\ next \in 1..Len(results)
      BY <1>3, <2>1
    <3>3. /\ results' \in Seq(B) /\ Len(results') = Len(results) - 1 + Len(clusters)
          /\ ToSet(results') \subseteq ToSet(results) \cup ToSet(clusters)
      BY <3>1, <3>2, Spliced
    <3> QED
      BY <2>1, <2>2, <3>3, <1>1, TypeFacts
  <2>3. CASE ~(Len(clusters) > 1)
    <3>1. results' = results
      BY <2>3 DEF ClusterNext, SeveralPushed
    <3> QED
      BY <2>1, <3>1, <1>1, TypeFacts
  <2> QED
    BY <2>2, <2>3
<1>6. TypeOK'
  <2>1. DOMAIN results \subseteq DOMAIN results'
    BY <1>1, <1>5, TypeFacts
  <2>2. ids \in [Keys -> Seq(DOMAIN results')]
    BY <1>1, <2>1, SeqMonotonic DEF TypeOK
  <2>3. next' \in 0..(Len(vals) + 1)
    BY <1>1, <1>2, TypeFacts
  <2>4. clusters' \in Seq(Seq(DOMAIN vals) \ {<< >>}) /\ cluster' \in Seq(DOMAIN vals)
    BY <1>2
  <2> QED
    BY <1>1, <1>2, <1>4, <1>5, <2>2, <2>3, <2>4 DEF TypeOK
<1>7. BatchesAreCompatible'
  <2>1. ASSUME NEW b \in DOMAIN results' PROVE Compatible(ToSet(results'[b]))
    <3>1. PICK c \in DOMAIN results : ToSet(results'[b]) \subseteq ToSet(results[c])
      <4>1. \/ \E c \in DOMAIN results : results'[b] = results[c]
            \/ \E c \in DOMAIN clusters : results'[b] = clusters[c]
        BY <1>5 DEF ToSet
      <4> QED
        BY <4>1, <1>3 DEF Entries
    <3>2. Compatible(ToSet(results[c]))
      BY <3>1 DEF IInv, BatchesAreCompatible, Entries
    <3> QED
      BY <3>1, <3>2, PartsAreCompatible
  <2>2. \A S : Compatible(S) => Compatible(S)'
    BY <1>2 DEF Compatible, MayShare, BatchByHeaders
  <2> QED
    BY <2>1, <2>2 DEF BatchesAreCompatible, Entries, Compatible, MayShare
<1>8. NothingYet' /\ BatchesAreShort' /\ BatchesInInputOrder' /\ OpenBatchesFit'
  BY <1>2 DEF NothingYet, BatchesAreShort, BatchesInInputOrder, OpenBatchesFit
<1>9. ClustersAreParts'
  <2>1. next' <= Len(results')
    <3>1. Len(results') \in Nat
      BY <1>5
    <3> QED
      BY <3>1, <1>1, <1>2, <1>3, <1>5, TypeFacts
  <2> QED
    BY <2>1, <1>2 DEF ClustersAreParts, ToSet
<1>10. SentAlong' /\ OwnOrNothing' /\ Len(vals') <= config'.maxSize
  BY <1>2 DEF IInv, SentAlong, OwnOrNothing
<1> QED
  BY <1>6, <1>7, <1>8, <1>9, <1>10 DEF IInv

-----------------------------------------------------------------------------
(* The batches are sent, and the requests settled.                         *)

LEMMA BeginSendingIInv ==
    ASSUME IInv, BeginSending
    PROVE  IInv'
<1>1. TypeOK
  BY DEF IInv
<1>2. /\ phase = "clustering" /\ next = 0 /\ Send(results)
      /\ UNCHANGED <<config, vals, results, ids, series, next, clusters, cluster, answers>>
  BY DEF BeginSending, clustering
<1>3. Send(results')
  BY <1>2
<1>4. /\ phase' = "sending" /\ SentAlong'
      /\ DOMAIN replies' = DOMAIN results' /\ DOMAIN sent' = DOMAIN results'
  BY <1>2, <1>3, SendIsSentAlong
<1>5. TypeOK'
  BY <1>1, <1>2, <1>4 DEF TypeOK
<1>6. BatchesAreCompatible' /\ Len(vals') <= config'.maxSize
  BY <1>2 DEF IInv, BatchesAreCompatible, Compatible, MayShare, BatchByHeaders, Entries
<1>7. NothingYet' /\ BatchesAreShort' /\ BatchesInInputOrder' /\ OpenBatchesFit'
  BY <1>4 DEF NothingYet, BatchesAreShort, BatchesInInputOrder, OpenBatchesFit
<1>8. ClustersAreParts' /\ OwnOrNothing'
  BY <1>2, <1>4 DEF IInv, ClustersAreParts, OwnOrNothing
<1> QED
  BY <1>4, <1>5, <1>6, <1>7, <1>8 DEF IInv

LEMMA ReceiveReplyIInv ==
    ASSUME IInv, NEW b, NEW reply, ReceiveReply(b, reply)
    PROVE  IInv'
<1>1. TypeOK
  BY DEF IInv
<1>2. /\ phase = "sending" /\ DOMAIN replies' = DOMAIN replies
      /\ UNCHANGED <<config, phase, vals, results, ids, series, next, clusters, cluster,
                     sent, answers>>
  BY DEF ReceiveReply, clustering
<1>3. TypeOK'
  BY <1>1, <1>2 DEF TypeOK
<1>4. BatchesAreCompatible' /\ Len(vals') <= config'.maxSize
  BY <1>2 DEF IInv, BatchesAreCompatible, Compatible, MayShare, BatchByHeaders, Entries
<1>5. NothingYet' /\ BatchesAreShort' /\ BatchesInInputOrder' /\ OpenBatchesFit'
  BY <1>2 DEF NothingYet, BatchesAreShort, BatchesInInputOrder, OpenBatchesFit
<1>6. ClustersAreParts' /\ OwnOrNothing'
  BY <1>2 DEF IInv, ClustersAreParts, OwnOrNothing
<1>7. SentAlong'
  BY <1>2 DEF IInv, SentAlong, ArgsOf, MergeInsecureHeaders
<1> QED
  BY <1>3, <1>4, <1>5, <1>6, <1>7 DEF IInv

\* restoreOrder hands a result to the request it is the result of, if the results come
\* in the order the requests were sent.
LEMMA ResultsGoToTheirRequests ==
    ASSUME NEW i \in DOMAIN RestoreOrder(FlattenSeq(results))
    PROVE  RestoreOrder(FlattenSeq(results))[i] \in {i, Undefined}
<1> DEFINE order == FlattenSeq(results)
           given == {<<order[n], order[n]>> : n \in DOMAIN order}
           size == Max({Len(order)} \cup {g[1] : g \in given})
<1>1. RestoreOrder(order) =
          [n \in 1..size |-> IF \E g \in given : g[1] = n
                             THEN (CHOOSE g \in given : g[1] = n)[2] ELSE Undefined]
  BY DEF RestoreOrder
<1>2. \A g \in given : g[1] = g[2]
  OBVIOUS
<1> HIDE DEF order, given, size
<1>3. CASE \E g \in given : g[1] = i
  <2>1. PICK h : h = CHOOSE g \in given : g[1] = i
    OBVIOUS
  <2>2. h \in given /\ h[1] = i
    BY <2>1, <1>3
  <2>3. RestoreOrder(order)[i] = h[2]
    BY <2>1, <1>1, <1>3 DEF order
  <2> QED
    BY <2>2, <2>3, <1>2 DEF order
<1>4. CASE ~(\E g \in given : g[1] = i)
  BY <1>1, <1>4 DEF order
<1> QED
  BY <1>3, <1>4

LEMMA SettleIInv ==
    ASSUME IInv, Settle
    PROVE  IInv'
<1>1. TypeOK
  BY DEF IInv
<1>2. /\ phase = "sending" /\ phase' = "done"
      /\ UNCHANGED <<config, vals, results, ids, series, next, clusters, cluster, sent,
                     replies>>
  BY DEF Settle, clustering
<1>3. \/ answers' = RestoreOrder(Flattened) /\ DOMAIN RestoreOrder(Flattened) = DOMAIN vals
      \/ answers' = [i \in DOMAIN vals |-> Rejection]
  BY DEF Settle
<1>4. TypeOK'
  <2>1. DOMAIN answers' = DOMAIN vals
    BY <1>3
  <2> QED
    BY <1>1, <1>2, <2>1 DEF TypeOK
<1>5. BatchesAreCompatible' /\ Len(vals') <= config'.maxSize
  BY <1>2 DEF IInv, BatchesAreCompatible, Compatible, MayShare, BatchByHeaders, Entries
<1>6. NothingYet' /\ BatchesAreShort' /\ BatchesInInputOrder' /\ OpenBatchesFit'
  BY <1>2 DEF NothingYet, BatchesAreShort, BatchesInInputOrder, OpenBatchesFit
<1>7. ClustersAreParts'
  BY <1>2 DEF IInv, ClustersAreParts
<1>8. SentAlong'
  BY <1>2 DEF IInv, SentAlong, ArgsOf, MergeInsecureHeaders
<1>9. OwnOrNothing'
  <2> SUFFICES ASSUME \A b \in DOMAIN replies : replies[b] = "results", NEW i \in DOMAIN vals
               PROVE  answers'[i] \in {i, Undefined, Rejection}
    BY <1>2 DEF OwnOrNothing, Undefined, Rejection
  <2>1. Flattened = FlattenSeq(results)
    <3>1. DOMAIN replies = DOMAIN results
      BY <1>1, <1>2 DEF TypeOK
    <3>2. results = [b \in DOMAIN results |-> results[b]]
      BY <1>1 DEF TypeOK
    <3>3. [b \in DOMAIN results |-> IF replies[b] = "results" THEN results[b] ELSE <<Object>>]
              = results
      BY <3>1, <3>2
    <3> QED
      BY <3>3 DEF Flattened
  <2> QED
    BY <2>1, <1>3, ResultsGoToTheirRequests
<1> QED
  BY <1>4, <1>5, <1>6, <1>7, <1>8, <1>9 DEF IInv

-----------------------------------------------------------------------------
(* The invariant, and what follows from it.                                *)

LEMMA StutterIInv ==
    ASSUME IInv, UNCHANGED vars
    PROVE  IInv'
<1> USE DEF IInv, vars, clustering
<1>1. TypeOK' /\ Len(vals') <= config'.maxSize
  BY DEF TypeOK
<1>2. BatchesAreCompatible' /\ BatchesInInputOrder'
  BY DEF BatchesAreCompatible, Compatible, MayShare, BatchByHeaders, Entries,
         BatchesInInputOrder, Batched
<1>3. NothingYet' /\ BatchesAreShort' /\ ClustersAreParts'
  BY DEF NothingYet, BatchesAreShort, ClustersAreParts, Entries
<1>4. OpenBatchesFit'
  BY DEF OpenBatchesFit, KeyOf, BatchByHeadersHash, BatchByHeaders, Entries, SeriesOf
<1>5. SentAlong' /\ OwnOrNothing'
  BY DEF SentAlong, ArgsOf, MergeInsecureHeaders, OwnOrNothing
<1> QED
  BY <1>1, <1>2, <1>3, <1>4, <1>5

LEMMA NextIInv == IInv /\ [Next]_vars => IInv'
<1> SUFFICES ASSUME IInv, [Next]_vars PROVE IInv'
  OBVIOUS
<1>1. CASE \E r \in Request : Load(r)
  BY <1>1, LoadIInv
<1>2. CASE Dispatch \/ BatchNext
  BY <1>2, DispatchIInv, BatchNextIInv
<1>3. CASE BeginClustering \/ AddToCluster \/ ClusterNext
  BY <1>3, BeginClusteringIInv, AddToClusterIInv, ClusterNextIInv
<1>4. CASE BeginSending \/ Settle
  BY <1>4, BeginSendingIInv, SettleIInv
<1>5. CASE \E b \in DOMAIN replies, reply \in {"results", "object", "failed"} :
               ReceiveReply(b, reply)
  BY <1>5, ReceiveReplyIInv
<1>6. CASE Terminated \/ UNCHANGED vars
  BY <1>6, StutterIInv DEF Terminated
<1> QED
  BY <1>1, <1>2, <1>3, <1>4, <1>5, <1>6 DEF Next

LEMMA Invariance == Spec => []IInv
  BY InitIInv, NextIInv, PTL DEF Spec

\* Every variable keeps its type; in the end there is an answer for every request.
THEOREM TypeCorrect == Spec => []TypeOK
<1>1. IInv => TypeOK
  BY DEF IInv
<1> QED
  BY <1>1, Invariance, PTL

\* The order that batchByKey's comment promises is that of its loop, at every turn.
THEOREM BatchesFollowTheInput == Spec => []BatchesInInputOrder
<1>1. IInv => BatchesInInputOrder
  BY DEF IInv
<1> QED
  BY <1>1, Invariance, PTL

\* Unless all requests are of one series, two share a batch only if no request of
\* another operation type was made between them, after clustering as before.
THEOREM SeriesAreRespected == Spec => []SeriesRespected
<1>1. IInv => SeriesRespected
  BY DEF IInv, BatchesAreCompatible, Compatible, MayShare, SeriesRespected
<1> QED
  BY <1>1, Invariance, PTL

\* No request is sent with another's headers, even when the hashes of two sets of
\* headers collide.
THEOREM HeadersStayOwn == Spec => []HeadersAreOwn
<1>1. ASSUME IInv PROVE HeadersAreOwn
  <2> DEFINE Own(own, headers) ==
              CASE config.strategy = "Request" -> headers = own
                [] config.strategy = "Headers" ->
                       headers \ BatchIgnoreHeaders = own \ BatchIgnoreHeaders
                [] config.strategy = "Insecure" ->
                       own \cap InsecureAllowedHeaders \subseteq headers
                       /\ headers \subseteq InsecureAllowedHeaders
  <2>0. HeadersAreOwn <=>
            \A b \in DOMAIN sent : \A i \in Entries(b) :
                Own(ForwardHeaders[vals[i].context], sent[b].headers)
    BY Zenon DEF HeadersAreOwn
  <2> SUFFICES ASSUME NEW b \in DOMAIN sent, NEW i \in Entries(b),
                      NEW own, own = ForwardHeaders[vals[i].context],
                      NEW headers, headers = sent[b].headers
               PROVE  Own(own, headers)
    <3> HIDE DEF Own
    <3> QED
      BY <2>0
  <2>1. b \in DOMAIN results /\ sent[b] = ArgsOf(results[b])
    BY <1>1 DEF IInv, SentAlong
  <2>2. MayShare(Head(results[b]), i)
    BY <1>1, <2>1, BatchesHaveEntries DEF IInv, BatchesAreCompatible, Compatible
  <2>3. config.strategy \in {"Request", "Headers", "Insecure"}
    BY <1>1, TypeFacts DEF IInv
  <2>4. CASE config.strategy = "Request"
    BY <2>1, <2>2, <2>4 DEF MayShare, ArgsOf
  <2>5. CASE config.strategy = "Headers"
    BY <2>1, <2>2, <2>5 DEF MayShare, ArgsOf, BatchByHeaders
  <2>6. CASE config.strategy = "Insecure"
    <3>1. headers = MergeInsecureHeaders(results[b])
      BY <2>1, <2>6 DEF ArgsOf
    <3>2. own \cap InsecureAllowedHeaders \subseteq headers
          /\ headers \subseteq InsecureAllowedHeaders
      BY <3>1, MergedHeaders DEF Entries
    <3> QED
      BY <2>6, <3>2
  <2> QED
    BY <2>3, <2>4, <2>5, <2>6
<1> QED
  BY <1>1, Invariance, PTL

-----------------------------------------------------------------------------
(* The batches in one sequence.                                            *)

\* No two positions of a sequence hold the same, nor do any of several sequences.
NoRepeats(s) == \A m, n \in DOMAIN s : s[m] = s[n] => m = n
Apart(ss) ==
    /\ \A b \in DOMAIN ss : NoRepeats(ss[b])
    /\ \A b, c \in DOMAIN ss : b # c => ToSet(ss[b]) \cap ToSet(ss[c]) = {}

\* What two sequences hold, one behind the other.
LEMMA Concatenated ==
    ASSUME NEW T, NEW s \in Seq(T), NEW t \in Seq(T)
    PROVE  /\ s \o t \in Seq(T)
           /\ ToSet(s \o t) = ToSet(s) \cup ToSet(t)
           /\ NoRepeats(s) /\ NoRepeats(t) /\ ToSet(s) \cap ToSet(t) = {} => NoRepeats(s \o t)
<1>0. PICK u : u = s \o t
  OBVIOUS
<1>1. /\ Len(s) \in Nat /\ DOMAIN s = 1..Len(s)
      /\ Len(t) \in Nat /\ DOMAIN t = 1..Len(t)
  OBVIOUS
<1>2. /\ u \in Seq(T) /\ Len(u) = Len(s) + Len(t)
      /\ \A n \in 1..(Len(s) + Len(t)) :
            u[n] = IF n <= Len(s) THEN s[n] ELSE t[n - Len(s)]
  BY <1>0, ConcatProperties
<1>3. DOMAIN u = 1..(Len(s) + Len(t))
  <2>1. DOMAIN u = 1..Len(u)
    BY <1>2
  <2> QED
    BY <2>1, <1>2
<1>4. ASSUME NEW n \in DOMAIN u
      PROVE  \/ n \in DOMAIN s /\ u[n] = s[n]
             \/ n - Len(s) \in DOMAIN t /\ n > Len(s) /\ u[n] = t[n - Len(s)]
  <2>1. CASE n <= Len(s)
    BY <2>1, <1>1, <1>2, <1>3
  <2>2. CASE ~(n <= Len(s))
    <3>1. n - Len(s) \in 1..Len(t) /\ n > Len(s)
      BY <2>2, <1>1, <1>3
    <3> QED
      BY <3>1, <2>2, <1>1, <1>2, <1>3
  <2> QED
    BY <2>1, <2>2
<1>5. \A n \in DOMAIN s : n \in DOMAIN u /\ u[n] = s[n]
  <2>1. ASSUME NEW n \in DOMAIN s PROVE n \in 1..(Len(s) + Len(t)) /\ n <= Len(s)
    BY <1>1
  <2> QED
    BY <2>1, <1>2, <1>3
<1>6. ASSUME NEW n \in DOMAIN t PROVE \E m \in DOMAIN u : u[m] = t[n]
  <2>1. PICK m : m = n + Len(s)
    OBVIOUS
  <2>2. m \in 1..(Len(s) + Len(t)) /\ ~(m <= Len(s)) /\ m - Len(s) = n
    BY <2>1, <1>1
  <2> QED
    BY <2>2, <1>2, <1>3
<1>7. ToSet(u) = ToSet(s) \cup ToSet(t)
  <2>1. ToSet(u) \subseteq ToSet(s) \cup ToSet(t)
    BY <1>4 DEF ToSet
  <2>2. ToSet(s) \subseteq ToSet(u)
    BY <1>5 DEF ToSet
  <2>3. ToSet(t) \subseteq ToSet(u)
    BY <1>6 DEF ToSet
  <2> QED
    BY <2>1, <2>2, <2>3
<1>8. ASSUME NoRepeats(s), NoRepeats(t), ToSet(s) \cap ToSet(t) = {} PROVE NoRepeats(u)
  <2> SUFFICES ASSUME NEW m \in DOMAIN u, NEW n \in DOMAIN u, u[m] = u[n]
               PROVE  m = n
    BY DEF NoRepeats
  <2>1. \A i \in DOMAIN s, j \in DOMAIN t : s[i] # t[j]
    BY <1>8 DEF ToSet
  <2>2. CASE m \in DOMAIN s /\ u[m] = s[m] /\ n \in DOMAIN s /\ u[n] = s[n]
    BY <2>2, <1>8 DEF NoRepeats
  <2>3. CASE /\ m - Len(s) \in DOMAIN t /\ u[m] = t[m - Len(s)]
             /\ n - Len(s) \in DOMAIN t /\ u[n] = t[n - Len(s)]
    <3>1. m - Len(s) = n - Len(s)
      BY <2>3, <1>8 DEF NoRepeats
    <3> QED
      BY <3>1, <1>1, <1>3
  <2> QED
    BY <2>1, <2>2, <2>3, <1>4
<1> QED
  BY <1>0, <1>2, <1>7, <1>8

\* The table FlattenSeq fills exists: its n-th entry is the first n of the sequences.
FlattenTable(ss, f, n) ==
    f = [i \in 1..n |-> IF i = 1 THEN ss[i] ELSE f[i - 1] \o ss[i]]

LEMMA FlattenTableExists ==
    ASSUME NEW ss, NEW n \in Nat
    PROVE  \E f : FlattenTable(ss, f, n)
<1> DEFINE Bad == {m \in Nat : ~(\E f : FlattenTable(ss, f, m))}
<1>1. SUFFICES ASSUME Bad # {} PROVE FALSE
  OBVIOUS
<1>2. PICK m \in Bad : \A k \in Bad : m <= k
  BY <1>1, NatMinimum
<1>3. m \in Nat /\ ~(\E f : FlattenTable(ss, f, m))
  OBVIOUS
<1>4. CASE m = 0
  <2>1. PICK f : f = [i \in 1..0 |-> IF i = 1 THEN ss[i] ELSE << >>]
    OBVIOUS
  <2>2. FlattenTable(ss, f, 0)
    BY <2>1 DEF FlattenTable
  <2> QED
    BY <2>2, <1>3, <1>4
<1>5. CASE m # 0
  <2>1. m - 1 \in Nat /\ ~(m <= m - 1)
    BY <1>3, <1>5
  <2>2. m - 1 \notin Bad
    BY <2>1, <1>2
  <2>3. PICK f : FlattenTable(ss, f, m - 1)
    BY <2>1, <2>2
  <2>4. PICK g : g = [i \in 1..m |-> IF i = 1 THEN ss[i] ELSE f[i - 1] \o ss[i]]
    OBVIOUS
  <2>5. /\ \A i \in 1..(m - 1) : i \in 1..m
        /\ \A i \in 1..(m - 1) : f[i] = IF i = 1 THEN ss[i] ELSE f[i - 1] \o ss[i]
    <3>1. \A i \in 1..(m - 1) : i \in 1..m
      BY <1>3
    <3> QED
      BY <3>1, <2>3 DEF FlattenTable
  <2>6. \A i \in 1..(m - 1) : g[i] = f[i]
    BY <2>4, <2>5
  <2>7. \A i \in 1..m : i # 1 => i - 1 \in 1..(m - 1)
    BY <1>3
  <2>8. FlattenTable(ss, g, m)
    BY <2>4, <2>6, <2>7 DEF FlattenTable
  <2> QED
    BY <2>8, <1>3
<1> QED
  BY <1>4, <1>5

\* A sequence that s begins.
Begins(T, s, t) == \E p \in Seq(T) : t = s \o p

\* It still does when more comes behind.
LEMMA BeginsLonger ==
    ASSUME NEW T, NEW s \in Seq(T), NEW t \in Seq(T), NEW u \in Seq(T), Begins(T, s, t),
           NEW v, v = t \o u
    PROVE  Begins(T, s, v)
<1>1. PICK p \in Seq(T) : t = s \o p
  BY DEF Begins
<1>2. (s \o p) \o u = s \o (p \o u)
  OBVIOUS
<1>3. p \o u \in Seq(T)
  BY ConcatProperties
<1> QED
  BY <1>1, <1>2, <1>3 DEF Begins

\* What the first of two sequences holds.
LEMMA LeadsConcatenated ==
    ASSUME NEW T, NEW s \in Seq(T), NEW t \in Seq(T), NEW m \in DOMAIN s
    PROVE  m \in DOMAIN (s \o t) /\ (s \o t)[m] = s[m]
<1>1. Len(s) \in Nat /\ Len(t) \in Nat /\ DOMAIN s = 1..Len(s)
  OBVIOUS
<1>2. m \in 1..(Len(s) + Len(t)) /\ m <= Len(s)
  BY <1>1
<1>3. s \o t \in Seq(T) /\ Len(s \o t) = Len(s) + Len(t)
  BY ConcatProperties
<1>4. (s \o t)[m] = s[m]
  BY <1>2, ConcatProperties
<1>5. DOMAIN (s \o t) = 1..Len(s \o t)
  BY <1>3
<1> QED
  BY <1>2, <1>3, <1>4, <1>5

\* FlattenSeq is the last entry of its table.
LEMMA FlattenedByTable ==
    ASSUME NEW ss, Len(ss) \in Nat, Len(ss) # 0
    PROVE  \E f : /\ FlattenSeq(ss) = f[Len(ss)]
                  /\ \A i \in 1..Len(ss) : f[i] = IF i = 1 THEN ss[i] ELSE f[i - 1] \o ss[i]
<1> DEFINE f == CHOOSE g : g = [i \in 1..Len(ss) |->
                                   IF i = 1 THEN ss[i] ELSE g[i - 1] \o ss[i]]
<1>1. FlattenTable(ss, f, Len(ss))
  <2>1. PICK g : g = [i \in 1..Len(ss) |-> IF i = 1 THEN ss[i] ELSE g[i - 1] \o ss[i]]
    BY FlattenTableExists DEF FlattenTable
  <2> QED
    BY <2>1, Zenon DEF FlattenTable
<1>2. FlattenSeq(ss) = f[Len(ss)]
  BY Zenon DEF FlattenSeq
<1> HIDE DEF f
<1>3. \A i \in 1..Len(ss) : f[i] = IF i = 1 THEN ss[i] ELSE f[i - 1] \o ss[i]
  BY <1>1 DEF FlattenTable
<1> QED
  BY <1>2, <1>3

\* What FlattenSeq makes of the first b sequences is the beginning of what it makes of all.
LEMMA FlattenSplits ==
    ASSUME NEW T, NEW ss \in Seq(Seq(T)), NEW b \in 1..Len(ss)
    PROVE  /\ FlattenSeq(SubSeq(ss, 1, b)) \in Seq(T)
           /\ \E p \in Seq(T) : FlattenSeq(ss) = FlattenSeq(SubSeq(ss, 1, b)) \o p
<1>0. /\ Len(ss) \in Nat /\ Len(ss) # 0 /\ b \in Nat /\ 1 <= b /\ b <= Len(ss)
      /\ \A i \in 1..Len(ss) : ss[i] \in Seq(T)
  OBVIOUS
<1>1. PICK tt : tt = SubSeq(ss, 1, b)
  OBVIOUS
<1>2. Len(tt) = b /\ \A i \in 1..b : tt[i] = ss[i]
  BY <1>0, <1>1
<1>3. PICK f : /\ FlattenSeq(ss) = f[Len(ss)]
               /\ \A i \in 1..Len(ss) : f[i] = IF i = 1 THEN ss[i] ELSE f[i - 1] \o ss[i]
  BY <1>0, FlattenedByTable
<1>4. PICK g : /\ FlattenSeq(tt) = g[Len(tt)]
               /\ \A i \in 1..Len(tt) : g[i] = IF i = 1 THEN tt[i] ELSE g[i - 1] \o tt[i]
  <2>1. Len(tt) \in Nat /\ Len(tt) # 0
    BY <1>0, <1>2
  <2> QED
    BY <2>1, FlattenedByTable
<1>5. ASSUME NEW m \in 1..Len(ss), m # 1
      PROVE  m - 1 \in 1..Len(ss) /\ ~(m <= m - 1) /\ (m <= b => m - 1 \in 1..b)
             /\ (~(m <= b) => b <= m - 1)
  BY <1>0, <1>5
<1> DEFINE Good(i) == /\ f[i] \in Seq(T)
                      /\ i <= b => f[i] = g[i]
                      /\ b <= i => Begins(T, g[b], f[i])
           Bad == {i \in 1..Len(ss) : ~Good(i)}
<1>6. Bad = {}
  <2>1. SUFFICES ASSUME Bad # {} PROVE FALSE
    OBVIOUS
  <2>2. Bad \in SUBSET Nat
    BY <1>0
  <2> HIDE DEF Bad
  <2>3. PICK m \in Bad : \A k \in Bad : m <= k
    BY <2>1, <2>2, NatMinimum
  <2>4. m \in 1..Len(ss) /\ ~Good(m) /\ m \in Nat
    <3>1. m \in Nat
      BY <2>2, <2>3
    <3> QED
      BY <3>1, <2>3 DEF Bad
  <2>5. f[m] \in Seq(T) /\ (m <= b => f[m] = g[m])
    <3>1. CASE m = 1
      <4>1. f[1] = ss[1] /\ g[1] = tt[1] /\ tt[1] = ss[1]
        BY <3>1, <2>4, <1>0, <1>2, <1>3, <1>4
      <4> QED
        BY <3>1, <4>1, <1>0, <2>4
    <3>2. CASE m # 1
      <4>1. m - 1 \in 1..Len(ss) /\ Good(m - 1)
        BY <3>2, <2>3, <2>4, <1>5 DEF Bad
      <4>2. f[m] = f[m - 1] \o ss[m] /\ f[m - 1] \in Seq(T) /\ ss[m] \in Seq(T)
        BY <3>2, <4>1, <2>4, <1>0, <1>3
      <4>3. f[m] \in Seq(T)
        BY <4>2, ConcatProperties
      <4>4. ASSUME m <= b PROVE f[m] = g[m]
        <5>1. m \in 1..b /\ m \in 1..Len(tt) /\ m - 1 \in 1..b /\ m - 1 <= b
          BY <4>4, <3>2, <2>4, <1>0, <1>2, <1>5
        <5>2. g[m] = g[m - 1] \o tt[m] /\ tt[m] = ss[m] /\ f[m - 1] = g[m - 1]
          BY <5>1, <4>1, <3>2, <1>2, <1>4
        <5> QED
          BY <5>2, <4>2
      <4> QED
        BY <4>3, <4>4
    <3> QED
      BY <3>1, <3>2
  <2>6. ASSUME b <= m PROVE Begins(T, g[b], f[m])
    <3>1. CASE m = b
      <4>1. f[m] = g[b] /\ f[m] \in Seq(T) /\ << >> \in Seq(T)
        BY <3>1, <2>4, <2>5
      <4>2. f[m] = g[b] \o << >>
        BY <4>1
      <4> QED
        BY <4>1, <4>2 DEF Begins
    <3>2. CASE m # b
      <4>1. ~(m <= b) /\ m # 1
        BY <3>2, <2>4, <2>6, <1>0
      <4>2. m - 1 \in 1..Len(ss) /\ b <= m - 1 /\ Good(m - 1)
        BY <4>1, <2>3, <2>4, <1>5 DEF Bad
      <4>3. g[b] \in Seq(T)
        <5>1. CASE m - 1 = b
          BY <5>1, <4>2, <1>0
        <5>2. CASE m - 1 # b
          <6>1. b \in 1..Len(ss) /\ ~(m <= b) /\ b <= b
            BY <4>1, <1>0
          <6>2. Good(b)
            BY <6>1, <2>3 DEF Bad
          <6> QED
            BY <6>1, <6>2
        <5> QED
          BY <5>1, <5>2
      <4>4. f[m] = f[m - 1] \o ss[m] /\ ss[m] \in Seq(T)
        BY <4>1, <2>4, <1>0, <1>3
      <4> QED
        BY <4>2, <4>3, <4>4, BeginsLonger
    <3> QED
      BY <3>1, <3>2
  <2> QED
    BY <2>4, <2>5, <2>6
<1>7. Good(b) /\ Good(Len(ss))
  <2>1. b \in 1..Len(ss) /\ Len(ss) \in 1..Len(ss)
    BY <1>0
  <2> QED
    BY <2>1, <1>6
<1>8. FlattenSeq(SubSeq(ss, 1, b)) = g[b] /\ f[b] = g[b] /\ f[b] \in Seq(T)
  BY <1>0, <1>1, <1>2, <1>4, <1>7
<1>9. Begins(T, g[b], f[Len(ss)])
  BY <1>0, <1>7
<1> QED
  BY <1>3, <1>8, <1>9 DEF Begins

\* Shorter sequences are not longer when they are flattened.
LEMMA FlattenNoLonger ==
    ASSUME NEW T, NEW ss \in Seq(Seq(T)), NEW tt \in Seq(Seq(T)), Len(tt) = Len(ss),
           Len(ss) # 0, \A b \in 1..Len(ss) : Len(tt[b]) <= Len(ss[b])
    PROVE  Len(FlattenSeq(tt)) <= Len(FlattenSeq(ss))
<1>0. /\ Len(ss) \in Nat
      /\ \A i \in 1..Len(ss) : ss[i] \in Seq(T) /\ tt[i] \in Seq(T)
  OBVIOUS
<1>1. PICK f : /\ FlattenSeq(ss) = f[Len(ss)]
               /\ \A i \in 1..Len(ss) : f[i] = IF i = 1 THEN ss[i] ELSE f[i - 1] \o ss[i]
  BY <1>0, FlattenedByTable
<1>2. PICK g : /\ FlattenSeq(tt) = g[Len(ss)]
               /\ \A i \in 1..Len(ss) : g[i] = IF i = 1 THEN tt[i] ELSE g[i - 1] \o tt[i]
  <2>1. \E g : /\ FlattenSeq(tt) = g[Len(tt)]
               /\ \A i \in 1..Len(tt) : g[i] = IF i = 1 THEN tt[i] ELSE g[i - 1] \o tt[i]
    BY <1>0, FlattenedByTable
  <2> QED
    BY <2>1
<1> DEFINE Good(i) == f[i] \in Seq(T) /\ g[i] \in Seq(T) /\ Len(g[i]) <= Len(f[i])
           Bad == {i \in 1..Len(ss) : ~Good(i)}
<1>3. Bad = {}
  <2>1. SUFFICES ASSUME Bad # {} PROVE FALSE
    OBVIOUS
  <2>2. Bad \in SUBSET Nat
    BY <1>0
  <2> HIDE DEF Bad
  <2>3. PICK m \in Bad : \A k \in Bad : m <= k
    BY <2>1, <2>2, NatMinimum
  <2>4. m \in 1..Len(ss) /\ ~Good(m)
    BY <2>3 DEF Bad
  <2>5. CASE m = 1
    <3>1. f[m] = ss[m] /\ g[m] = tt[m]
      BY <2>4, <2>5, <1>1, <1>2
    <3> QED
      BY <3>1, <2>4, <1>0
  <2>6. CASE m # 1
    <3>1. m - 1 \in 1..Len(ss) /\ ~(m <= m - 1)
      BY <2>4, <2>6, <1>0
    <3>2. Good(m - 1)
      BY <3>1, <2>3 DEF Bad
    <3>3. PICK s, t, u, v : s = f[m - 1] /\ t = ss[m] /\ u = g[m - 1] /\ v = tt[m]
      OBVIOUS
    <3>4. f[m] = s \o t /\ g[m] = u \o v
      BY <3>3, <2>4, <2>6, <1>1, <1>2
    <3>5. /\ s \in Seq(T) /\ t \in Seq(T) /\ u \in Seq(T) /\ v \in Seq(T)
          /\ Len(u) <= Len(s) /\ Len(v) <= Len(t)
      BY <3>2, <3>3, <2>4, <1>0
    <3>6. /\ s \o t \in Seq(T) /\ Len(s \o t) = Len(s) + Len(t)
          /\ u \o v \in Seq(T) /\ Len(u \o v) = Len(u) + Len(v)
      BY <3>5, ConcatProperties
    <3>7. Len(s) + Len(t) >= Len(u) + Len(v)
      BY <3>5
    <3> QED
      BY <3>4, <3>6, <3>7, <2>4
  <2> QED
    BY <2>5, <2>6
<1>4. Len(ss) \in 1..Len(ss)
  BY <1>0
<1>5. Good(Len(ss))
  BY <1>3, <1>4
<1> QED
  BY <1>1, <1>2, <1>5

\* FlattenSeq of sequences that are apart holds what they hold, and all of it once.
LEMMA FlattenedOnce ==
    ASSUME NEW T, NEW ss \in Seq(Seq(T)), Len(ss) # 0, Apart(ss)
    PROVE  /\ FlattenSeq(ss) \in Seq(T) /\ NoRepeats(FlattenSeq(ss))
           /\ ToSet(FlattenSeq(ss)) = UNION {ToSet(ss[b]) : b \in DOMAIN ss}
<1>0. Len(ss) \in Nat /\ DOMAIN ss = 1..Len(ss) /\ \A b \in DOMAIN ss : ss[b] \in Seq(T)
  OBVIOUS
<1>1. PICK f : /\ FlattenSeq(ss) = f[Len(ss)]
               /\ \A i \in 1..Len(ss) : f[i] = IF i = 1 THEN ss[i] ELSE f[i - 1] \o ss[i]
  BY <1>0, FlattenedByTable
<1>2. FlattenSeq(ss) = f[Len(ss)]
  BY <1>1
<1>3. \A i \in 1..Len(ss) : f[i] = IF i = 1 THEN ss[i] ELSE f[i - 1] \o ss[i]
  BY <1>1
<1> DEFINE Holds(i) == UNION {ToSet(ss[b]) : b \in 1..i}
           Good(i) == f[i] \in Seq(T) /\ NoRepeats(f[i]) /\ ToSet(f[i]) = Holds(i)
           Bad == {i \in 1..Len(ss) : ~Good(i)}
<1>4. Bad = {}
  <2>1. SUFFICES ASSUME Bad # {} PROVE FALSE
    OBVIOUS
  <2>2. Bad \in SUBSET Nat
    BY <1>0
  <2> HIDE DEF Bad
  <2>3. PICK m \in Bad : \A k \in Bad : m <= k
    BY <2>1, <2>2, NatMinimum
  <2>4. m \in 1..Len(ss) /\ ~Good(m)
    BY <2>3 DEF Bad
  <2>5. CASE m = 1
    <3>1. f[1] = ss[1] /\ 1 \in DOMAIN ss
      BY <2>4, <2>5, <1>0, <1>3
    <3>2. Holds(1) = ToSet(ss[1])
      OBVIOUS
    <3>3. Good(1)
      BY <3>1, <3>2, <1>0 DEF Apart
    <3> QED
      BY <3>3, <2>4, <2>5
  <2>6. CASE m # 1
    <3>1. m - 1 \in 1..Len(ss) /\ ~(m <= m - 1)
      BY <2>4, <2>6, <1>0
    <3>2. Good(m - 1)
      <4>1. m - 1 \notin Bad
        BY <3>1, <2>3
      <4> QED
        BY <4>1, <3>1 DEF Bad
    <3>3. f[m] = f[m - 1] \o ss[m] /\ m \in DOMAIN ss /\ ss[m] \in Seq(T)
      BY <2>4, <2>6, <1>0, <1>3
    <3>4. ToSet(f[m - 1]) \cap ToSet(ss[m]) = {}
      <4>1. ASSUME NEW b \in 1..(m - 1) PROVE ToSet(ss[b]) \cap ToSet(ss[m]) = {}
        <5>1. b \in DOMAIN ss /\ b # m
          BY <2>4, <1>0
        <5> QED
          BY <5>1, <3>3 DEF Apart
      <4>2. ToSet(f[m - 1]) = UNION {ToSet(ss[b]) : b \in 1..(m - 1)}
        BY <3>2
      <4> QED
        BY <4>1, <4>2
    <3>5. Holds(m) = Holds(m - 1) \cup ToSet(ss[m])
      <4>1. 1..m = 1..(m - 1) \cup {m}
        BY <2>4, <1>0
      <4> QED
        BY <4>1
    <3>6. NoRepeats(ss[m])
      BY <3>3 DEF Apart
    <3>7. /\ f[m - 1] \in Seq(T) /\ NoRepeats(f[m - 1]) /\ ToSet(f[m - 1]) = Holds(m - 1)
      BY <3>2
    <3> HIDE DEF Holds
    <3>8. f[m] \in Seq(T) /\ NoRepeats(f[m]) /\ ToSet(f[m]) = Holds(m)
      BY <3>3, <3>4, <3>5, <3>6, <3>7, Concatenated
    <3> QED
      BY <3>8, <2>4
  <2> QED
    BY <2>5, <2>6
<1>5. Len(ss) \in 1..Len(ss)
  BY <1>0
<1>6. Good(Len(ss))
  BY <1>4, <1>5
<1> QED
  BY <1>0, <1>2, <1>6

\* A sequence that holds each of the numbers up to n once is as long as there are.
LEMMA AsManyAsThereAre ==
    ASSUME NEW n \in Nat, NEW s \in Seq(1..n), NoRepeats(s), ToSet(s) = 1..n
    PROVE  Len(s) = n
<1>1. Len(s) \in Nat /\ s \in [1..Len(s) -> 1..n] /\ DOMAIN s = 1..Len(s)
  OBVIOUS
<1>2. s \in Bijection(1..Len(s), 1..n)
  <2>1. \A a, b \in 1..Len(s) : s[a] = s[b] => a = b
    BY <1>1 DEF NoRepeats
  <2>2. \A t \in 1..n : \E a \in 1..Len(s) : s[a] = t
    BY <1>1 DEF ToSet
  <2> QED
    BY <1>1, <2>1, <2>2 DEF Bijection, Injection, Surjection, IsInjective
<1>3. [i \in 1..n |-> i] \in Bijection(1..n, 1..n)
  BY DEF Bijection, Injection, Surjection, IsInjective
<1>4. ExistsBijection(1..Len(s), 1..n) /\ ExistsBijection(1..n, 1..n)
  BY <1>2, <1>3 DEF ExistsBijection
<1> QED
  BY <1>1, <1>4, Fun_NatBijSame

\* restoreOrder's result is as long as the loader's batch, and in its order, when the
\* requests sent are those of the loader's batch, each sent once.
LEMMA RestoredInOrder ==
    ASSUME NEW n \in Nat, NEW order \in Seq(1..n), NoRepeats(order), ToSet(order) = 1..n,
           order = FlattenSeq(results)
    PROVE  RestoreOrder(order) = [i \in 1..n |-> i]
<1> DEFINE given == {<<order[m], order[m]>> : m \in DOMAIN order}
           ends == {Len(order)} \cup {g[1] : g \in given}
           size == Max(ends)
<1>1. RestoreOrder(order) =
          [i \in 1..size |-> IF \E g \in given : g[1] = i
                             THEN (CHOOSE g \in given : g[1] = i)[2] ELSE Undefined]
  BY DEF RestoreOrder
<1>2. size = n
  <2>1. Len(order) = n
    BY AsManyAsThereAre
  <2>2. \A g \in given : g[1] \in 1..n
    OBVIOUS
  <2> HIDE DEF given
  <2>3. n \in ends /\ \A e \in ends : n >= e /\ e \in Int
    BY <2>1, <2>2
  <2> HIDE DEF ends
  <2>4. \A x \in ends : (\A e \in ends : x >= e) => x = n
    BY <2>3
  <2> QED
    BY <2>3, <2>4 DEF Max
<1>3. \A g \in given : g[1] = g[2]
  OBVIOUS
<1>4. ASSUME NEW i \in 1..n PROVE \E g \in given : g[1] = i
  <2>1. PICK m \in DOMAIN order : order[m] = i
    BY DEF ToSet
  <2>2. <<i, i>> \in given
    BY <2>1
  <2> QED
    BY <2>2
<1> HIDE DEF given, ends, size
<1>5. ASSUME NEW i \in 1..n PROVE (CHOOSE g \in given : g[1] = i)[2] = i
  <2>1. PICK h : h = CHOOSE g \in given : g[1] = i
    OBVIOUS
  <2>2. h \in given /\ h[1] = i
    BY <2>1, <1>4
  <2> QED
    BY <2>1, <2>2, <1>3
<1> QED
  BY <1>1, <1>2, <1>4, <1>5

\* When every call gave its results and no request was left out, Settle hands each its own.
LEMMA SettleAnswers ==
    ASSUME IInv, Apart(results), Settle
    PROVE  BatchedAreAnswered'
<1>1. TypeOK
  BY DEF IInv
<1>2. /\ phase = "sending" /\ UNCHANGED <<vals, results, replies>>
      /\ Batched' = Batched
  BY DEF Settle, Batched, Entries
<1>3. SUFFICES ASSUME \A b \in DOMAIN replies : replies[b] = "results",
                      Batched = DOMAIN vals
               PROVE  \A i \in DOMAIN vals : answers'[i] = i
  BY <1>2 DEF BatchedAreAnswered
<1>4. Flattened = FlattenSeq(results)
  <2>1. DOMAIN replies = DOMAIN results
    BY <1>1, <1>2 DEF TypeOK
  <2>2. results = [b \in DOMAIN results |-> results[b]]
    BY <1>1 DEF TypeOK
  <2>3. [b \in DOMAIN results |-> IF replies[b] = "results" THEN results[b] ELSE <<Object>>]
            = results
    BY <2>1, <2>2, <1>3
  <2> QED
    BY <2>3 DEF Flattened
<1>5. PICK n \in Nat : DOMAIN vals = 1..n
  BY <1>1, TypeFacts
<1>6. PICK order : order = FlattenSeq(results)
  OBVIOUS
<1>7. order \in Seq(1..n) /\ NoRepeats(order) /\ ToSet(order) = 1..n
  <2>1. results \in Seq(Seq(1..n))
    <3>1. Len(results) \in Nat /\ DOMAIN results = 1..Len(results)
          /\ \A b \in 1..Len(results) : results[b] \in Seq(1..n)
      BY <1>1, <1>5, TypeFacts
    <3>2. results = [b \in 1..Len(results) |-> results[b]]
      BY <1>1, <3>1 DEF TypeOK
    <3> QED
      BY <3>1, <3>2, SeqDef
  <2>2. UNION {ToSet(results[b]) : b \in DOMAIN results} = 1..n
    BY <1>3, <1>5 DEF Batched, Entries
  <2>3. CASE Len(results) = 0
    <3>1. results = << >> /\ DOMAIN results = {}
      BY <2>1, <2>3
    <3>2. order = << >>
      BY <3>1, <2>3, <1>6 DEF FlattenSeq
    <3>3. 1..n = {}
      BY <2>2, <3>1
    <3> QED
      BY <3>2, <3>3 DEF NoRepeats, ToSet
  <2>4. CASE Len(results) # 0
    BY <2>1, <2>2, <2>4, <1>6, FlattenedOnce
  <2> QED
    BY <2>3, <2>4
<1>8. RestoreOrder(order) = [i \in 1..n |-> i]
  BY <1>6, <1>7, RestoredInOrder
<1>9. \A b \in DOMAIN replies : replies[b] # "failed"
  BY <1>3
<1>10. answers' = RestoreOrder(Flattened)
  <2>1. DOMAIN RestoreOrder(Flattened) = DOMAIN vals
    BY <1>4, <1>5, <1>6, <1>8
  <2> QED
    BY <2>1, <1>9 DEF Settle
<1> QED
  BY <1>4, <1>5, <1>6, <1>8, <1>10

-----------------------------------------------------------------------------
(* No request is sent twice, and those that are sent are answered.         *)

\* Neither the batches nor the clusters, with the one being filled, share a request.
Parts == Append(clusters, cluster)
NoneTwice == Apart(results) /\ Apart(Parts)

\* The requests of the batch at next that are in clusters.
Clustered == ToSet(cluster) \cup UNION {ToSet(clusters[c]) : c \in DOMAIN clusters}

LEMMA ApartAppended ==
    ASSUME NEW S, NEW ss \in Seq(S), NEW s \in S
    PROVE  Apart(Append(ss, s)) <=>
               /\ Apart(ss) /\ NoRepeats(s)
               /\ \A b \in DOMAIN ss : ToSet(ss[b]) \cap ToSet(s) = {}
<1>0. PICK u, last : u = Append(ss, s) /\ last = Len(ss) + 1
  OBVIOUS
<1>1. /\ Len(ss) \in Nat /\ DOMAIN ss = 1..Len(ss)
      /\ u \in Seq(S) /\ Len(u) = last /\ u[last] = s
      /\ \A b \in 1..Len(ss) : u[b] = ss[b]
  BY <1>0, AppendProperties
<1>2. DOMAIN u = 1..last
  BY <1>1
<1>3. /\ \A b \in DOMAIN ss : b \in DOMAIN u /\ b # last /\ u[b] = ss[b]
      /\ \A b \in DOMAIN u : b = last \/ b \in DOMAIN ss
      /\ last \in DOMAIN u /\ u[last] = s
  <2>1. \A b \in 1..last : b = last \/ b \in 1..Len(ss)
    BY <1>0, <1>1
  <2>2. \A b \in 1..Len(ss) : b \in 1..last /\ b # last
    BY <1>0, <1>1
  <2>3. last \in 1..last
    BY <1>0, <1>1
  <2> QED
    BY <2>1, <2>2, <2>3, <1>1, <1>2
<1>4. ASSUME Apart(u)
      PROVE  Apart(ss) /\ NoRepeats(s) /\ \A b \in DOMAIN ss : ToSet(ss[b]) \cap ToSet(s) = {}
  BY <1>3, <1>4, Zenon DEF Apart
<1>5. ASSUME Apart(ss), NoRepeats(s), \A b \in DOMAIN ss : ToSet(ss[b]) \cap ToSet(s) = {}
      PROVE  Apart(u)
  <2>1. ASSUME NEW b \in DOMAIN u PROVE NoRepeats(u[b])
    BY <1>3, <1>5 DEF Apart
  <2>2. ASSUME NEW b \in DOMAIN u, NEW c \in DOMAIN u, b # c
        PROVE  ToSet(u[b]) \cap ToSet(u[c]) = {}
    <3>1. CASE b = last
      <4>1. c \in DOMAIN ss /\ u[c] = ss[c] /\ u[b] = s
        BY <2>2, <3>1, <1>3
      <4> QED
        BY <4>1, <1>5
    <3>2. CASE c = last
      <4>1. b \in DOMAIN ss /\ u[b] = ss[b] /\ u[c] = s
        BY <2>2, <3>2, <1>3
      <4> QED
        BY <4>1, <1>5
    <3>3. CASE b # last /\ c # last
      <4>1. b \in DOMAIN ss /\ u[b] = ss[b] /\ c \in DOMAIN ss /\ u[c] = ss[c]
        BY <3>3, <1>3
      <4> QED
        BY <4>1, <2>2, <1>5 DEF Apart
    <3> QED
      BY <3>1, <3>2, <3>3
  <2> QED
    BY <2>1, <2>2 DEF Apart
<1> QED
  BY <1>0, <1>4, <1>5

\* Batches stay apart when one of them is replaced by parts of it that are apart.
LEMMA SplicedApart ==
    ASSUME NEW B, NEW s \in Seq(B), NEW t \in Seq(B), NEW n \in 1..Len(s),
           Apart(s), Apart(t), \A c \in DOMAIN t : ToSet(t[c]) \subseteq ToSet(s[n])
    PROVE  Apart(Splice(s, n, t))
<1>0. PICK u, more : u = Splice(s, n, t) /\ more = Len(t) - 1
  OBVIOUS
<1>1. \A b \in DOMAIN u : SpliceTakes(s, n, t, u, b)
  BY <1>0, Spliced
<1>2. /\ DOMAIN s \subseteq Int /\ DOMAIN t \subseteq Int /\ n \in DOMAIN s /\ more \in Int
      /\ DOMAIN u \subseteq Int
  <2>1. u \in Seq(B)
    BY <1>0, Spliced
  <2> QED
    BY <2>1, <1>0
<1>3. ASSUME NEW b \in DOMAIN u PROVE NoRepeats(u[b])
  <2>1. (\E i \in DOMAIN s : u[b] = s[i]) \/ (\E c \in DOMAIN t : u[b] = t[c])
    BY <1>1 DEF SpliceTakes
  <2> QED
    BY <2>1 DEF Apart
<1>4. \A i, j \in DOMAIN s : \A x : x \in ToSet(s[i]) /\ x \in ToSet(s[j]) => i = j
  BY DEF Apart
<1>5. \A i, j \in DOMAIN t : \A x : x \in ToSet(t[i]) /\ x \in ToSet(t[j]) => i = j
  BY DEF Apart
<1>6. \A i \in DOMAIN s, j \in DOMAIN t : \A x : x \in ToSet(s[i]) /\ x \in ToSet(t[j]) => i = n
  BY <1>2, <1>4
<1>7. ASSUME NEW b \in DOMAIN u, NEW c \in DOMAIN u, NEW x, x \in ToSet(u[b]), x \in ToSet(u[c])
      PROVE  b = c
  <2> DEFINE Ahead(a) == a \in DOMAIN s /\ a < n /\ x \in ToSet(s[a])
             Within(a) == a - (n - 1) \in DOMAIN t /\ x \in ToSet(t[a - (n - 1)])
             Behind(a) == a - more \in DOMAIN s /\ a - more > n /\ x \in ToSet(s[a - more])
  <2>1. Ahead(b) \/ Within(b) \/ Behind(b)
    BY <1>0, <1>1, <1>7 DEF SpliceTakes
  <2>2. Ahead(c) \/ Within(c) \/ Behind(c)
    BY <1>0, <1>1, <1>7 DEF SpliceTakes
  <2>3. b \in Int /\ c \in Int /\ n \in Int
    BY <1>2
  <2>4. CASE Ahead(b)
    <3>1. b # n
      BY <2>4, <1>2
    <3>2. ~Within(c)
      BY <2>4, <3>1, <1>6
    <3>3. ~Behind(c)
      <4>1. SUFFICES ASSUME Behind(c) PROVE FALSE
        OBVIOUS
      <4>2. b = c - more
        BY <2>4, <4>1, <1>4
      <4> QED
        BY <4>1, <4>2, <2>3, <2>4, <1>2
    <3> QED
      BY <2>2, <2>4, <3>2, <3>3, <1>4
  <2>5. CASE Within(b)
    <3>1. ~Ahead(c) /\ ~Behind(c)
      BY <2>5, <1>2, <1>6
    <3>2. b - (n - 1) = c - (n - 1)
      BY <2>2, <2>5, <3>1, <1>5
    <3> QED
      BY <3>2, <2>3
  <2>6. CASE Behind(b)
    <3>1. ~Within(c)
      BY <2>6, <1>2, <1>6
    <3>2. ~Ahead(c)
      <4>1. SUFFICES ASSUME Ahead(c) PROVE FALSE
        OBVIOUS
      <4>2. c = b - more
        BY <2>6, <4>1, <1>4
      <4> QED
        BY <4>1, <4>2, <2>3, <2>6, <1>2
    <3>3. b - more = c - more
      BY <2>2, <2>6, <3>1, <3>2, <1>4
    <3> QED
      BY <3>3, <2>3, <1>2
  <2> QED
    BY <2>1, <2>4, <2>5, <2>6
<1> QED
  BY <1>0, <1>3, <1>7 DEF Apart

\* What a turn of the clustering does: it takes a request that is in no cluster.
LEMMA AddToClusterTakes ==
    ASSUME IInv, AddToCluster
    PROVE  \E i \in Unclustered :
               /\ \A j \in Unclustered \ {i} : Before(i, j)
               /\ i \in DOMAIN vals /\ i \in Entries(next) /\ i \notin Clustered
               /\ \/ /\ cluster # << >> /\ ~Clusterable(Head(cluster), i)
                     /\ clusters' = Append(clusters, cluster) /\ cluster' = <<i>>
                  \/ clusters' = clusters /\ cluster' = Append(cluster, i)
<1>1. PICK i \in Unclustered :
          /\ \A j \in Unclustered \ {i} : Before(i, j)
          /\ IF cluster # << >> /\ ~Clusterable(Head(cluster), i)
             THEN clusters' = Append(clusters, cluster) /\ cluster' = <<i>>
             ELSE cluster' = Append(cluster, i) /\ UNCHANGED clusters
  BY DEF AddToCluster
<1>2. i \in Entries(next) /\ i \notin Clustered
  BY DEF Unclustered, Clustered, Entries, ToSet
<1>3. i \in DOMAIN vals
  <2>1. next \in DOMAIN results
    BY TypeFacts DEF IInv, ClustersAreParts, AddToCluster
  <2> QED
    BY <1>2, <2>1, BatchesHaveEntries DEF IInv
<1> QED
  BY <1>1, <1>2, <1>3

\* The clusters are sequences of requests.
LEMMA ClustersAreSequences ==
    ASSUME TypeOK
    PROVE  /\ clusters \in Seq(Seq(DOMAIN vals)) /\ cluster \in Seq(DOMAIN vals)
           /\ Len(clusters) \in Nat /\ DOMAIN clusters = 1..Len(clusters)
           /\ \A c \in DOMAIN clusters : clusters[c] # << >> /\ clusters[c] \in Seq(DOMAIN vals)
<1>1. PICK B : B = Seq(DOMAIN vals) \ {<< >>}
  OBVIOUS
<1>2. clusters \in Seq(B) /\ cluster \in Seq(DOMAIN vals)
  BY <1>1 DEF TypeOK
<1>3. /\ Len(clusters) \in Nat /\ DOMAIN clusters = 1..Len(clusters)
      /\ \A c \in DOMAIN clusters : clusters[c] \in B
  BY <1>2
<1>4. clusters \in Seq(Seq(DOMAIN vals))
  BY <1>1, <1>2, SeqMonotonic
<1> QED
  BY <1>1, <1>2, <1>3, <1>4

LEMMA NoneTwiceAdd ==
    ASSUME IInv, NoneTwice, AddToCluster
    PROVE  NoneTwice'
<1>1. TypeOK
  BY DEF IInv
<1>2. PICK Q : Q = Seq(DOMAIN vals)
  OBVIOUS
<1>3. clusters \in Seq(Q) /\ cluster \in Q
  BY <1>1, <1>2, ClustersAreSequences
<1>4. PICK i : /\ i \in DOMAIN vals /\ i \notin Clustered
               /\ \/ clusters' = Append(clusters, cluster) /\ cluster' = <<i>>
                  \/ clusters' = clusters /\ cluster' = Append(cluster, i)
  BY AddToClusterTakes
<1>5. /\ Apart(clusters) /\ NoRepeats(cluster)
      /\ \A b \in DOMAIN clusters : ToSet(clusters[b]) \cap ToSet(cluster) = {}
  BY <1>3, ApartAppended DEF NoneTwice, Parts
<1>6. i \notin ToSet(cluster) /\ \A b \in DOMAIN clusters : i \notin ToSet(clusters[b])
  BY <1>4 DEF Clustered
<1>7. Apart(results')
  BY DEF NoneTwice, AddToCluster
<1>8. CASE clusters' = Append(clusters, cluster) /\ cluster' = <<i>>
  <2>1. clusters' \in Seq(Q) /\ cluster' \in Q
    BY <1>2, <1>3, <1>4, <1>8, AppendProperties
  <2>2. Apart(clusters')
    BY <1>8 DEF NoneTwice, Parts
  <2>3. NoRepeats(cluster') /\ ToSet(cluster') = {i}
    BY <1>8, ElementOfOne DEF NoRepeats
  <2>4. \A b \in DOMAIN clusters' : i \notin ToSet(clusters'[b])
    <3>1. /\ Len(clusters) \in Nat /\ DOMAIN clusters = 1..Len(clusters)
          /\ DOMAIN clusters' = 1..(Len(clusters) + 1)
          /\ clusters'[Len(clusters) + 1] = cluster
          /\ \A b \in 1..Len(clusters) : clusters'[b] = clusters[b]
      BY <1>3, <1>8
    <3>2. \A b \in 1..(Len(clusters) + 1) : b \in 1..Len(clusters) \/ b = Len(clusters) + 1
      BY <3>1
    <3> QED
      BY <3>1, <3>2, <1>6
  <2>5. Apart(Append(clusters', cluster'))
    BY <2>1, <2>2, <2>3, <2>4, ApartAppended
  <2> QED
    BY <2>5, <1>7 DEF NoneTwice, Parts
<1>9. CASE clusters' = clusters /\ cluster' = Append(cluster, i)
  <2>1. cluster' \in Q /\ ToSet(cluster') = ToSet(cluster) \cup {i}
    BY <1>2, <1>3, <1>4, <1>9, ElementsOfAppend, AppendProperties
  <2>2. NoRepeats(cluster')
    <3>1. ToSet(<<i>>) = {i} /\ NoRepeats(<<i>>) /\ <<i>> \in Seq(DOMAIN vals)
      BY <1>4, ElementOfOne DEF NoRepeats
    <3>2. NoRepeats(cluster \o <<i>>)
      BY <3>1, <1>2, <1>3, <1>5, <1>6, Concatenated
    <3>3. cluster' = cluster \o <<i>>
      BY <1>2, <1>3, <1>4, <1>9, AppendIsConcat
    <3> QED
      BY <3>2, <3>3
  <2>3. \A b \in DOMAIN clusters : ToSet(clusters[b]) \cap ToSet(cluster') = {}
    BY <2>1, <1>5, <1>6
  <2>4. Apart(Append(clusters', cluster'))
    BY <2>1, <2>2, <2>3, <1>3, <1>5, <1>9, ApartAppended
  <2> QED
    BY <2>4, <1>7 DEF NoneTwice, Parts
<1> QED
  BY <1>4, <1>8, <1>9

\* There is nothing to share in nothing.
LEMMA EmptyIsApart ==
    Apart(<< >>) /\ Apart(Append(<< >>, << >>)) /\ \A e : Apart(<<<<e>>>>)
<1>1. Apart(<< >>) /\ Apart(<<<< >>>>)
  BY DEF Apart, NoRepeats
<1>2. Append(<< >>, << >>) = <<<< >>>>
  OBVIOUS
<1>3. \A e : Apart(<<<<e>>>>)
  BY DEF Apart, NoRepeats
<1> QED
  BY <1>1, <1>2, <1>3

LEMMA NoneTwiceClusterNext ==
    ASSUME IInv, NoneTwice, ClusterNext
    PROVE  NoneTwice'
<1>1. TypeOK
  BY DEF IInv
<1>2. /\ phase = "clustering" /\ next > 0 /\ clusters' = << >> /\ cluster' = << >>
      /\ results' = IF SeveralPushed THEN Splice(results, next, clusters) ELSE results
  BY DEF ClusterNext
<1>3. Apart(Parts')
  BY <1>2, EmptyIsApart DEF Parts
<1>4. CASE SeveralPushed
  <2>1. PICK Q : Q = Seq(DOMAIN vals)
    OBVIOUS
  <2>2. results \in Seq(Q) /\ clusters \in Seq(Q) /\ cluster \in Q
    <3>1. results \in Seq(Seq(DOMAIN vals))
      BY <1>1, SeqMonotonic DEF TypeOK
    <3> QED
      BY <3>1, <2>1, <1>1, ClustersAreSequences
  <2>3. next \in 1..Len(results)
    BY <1>1, <1>2, TypeFacts DEF IInv, ClustersAreParts
  <2>4. \A c \in DOMAIN clusters : ToSet(clusters[c]) \subseteq ToSet(results[next])
    BY <1>2 DEF IInv, ClustersAreParts, Entries
  <2>5. Apart(clusters) /\ Apart(results)
    BY <2>2, ApartAppended DEF NoneTwice, Parts
  <2>6. Apart(Splice(results, next, clusters))
    BY <2>2, <2>3, <2>4, <2>5, SplicedApart
  <2> QED
    BY <2>6, <1>2, <1>3, <1>4 DEF NoneTwice
<1>5. CASE ~SeveralPushed
  BY <1>2, <1>3, <1>5 DEF NoneTwice
<1> QED
  BY <1>4, <1>5

LEMMA NoneTwiceNext == IInv /\ IInv' /\ NoneTwice /\ [Next]_vars => NoneTwice'
<1> SUFFICES ASSUME IInv, IInv', NoneTwice, [Next]_vars PROVE NoneTwice'
  OBVIOUS
<1>1. CASE UNCHANGED <<results, clusters, cluster>>
  BY <1>1 DEF NoneTwice, Parts
<1>2. CASE Dispatch
  <2>1. results' = results \/ results' = <<<<1>>>>
    BY <1>2 DEF Dispatch
  <2>2. Apart(results')
    BY <2>1, EmptyIsApart DEF NoneTwice
  <2> QED
    BY <2>2, <1>2 DEF Dispatch, clustering, NoneTwice, Parts
<1>3. CASE BatchNext
  <2>1. phase' = "batching" /\ UNCHANGED <<clusters, cluster>>
    BY <1>3 DEF BatchNext, clustering
  <2>2. /\ \A b, c \in DOMAIN results' : b # c => Entries(b)' \cap Entries(c)' = {}
        /\ \A b \in DOMAIN results' : \A m, n \in DOMAIN results'[b] :
              m < n => results'[b][m] < results'[b][n]
    BY <2>1 DEF IInv, BatchesInInputOrder
  <2>3. ASSUME NEW b \in DOMAIN results' PROVE NoRepeats(results'[b])
    <3> SUFFICES ASSUME NEW m \in DOMAIN results'[b], NEW n \in DOMAIN results'[b],
                        results'[b][m] = results'[b][n], m # n
                 PROVE  FALSE
      BY DEF NoRepeats
    <3>1. TypeOK'
      BY DEF IInv
    <3>2. /\ results'[b] \in Seq(DOMAIN vals') /\ DOMAIN vals' \subseteq Int
      BY <3>1 DEF TypeOK
    <3>3. results'[b][m] \in Int /\ m \in Int /\ n \in Int
      BY <3>2
    <3>4. m < n \/ n < m
      BY <3>3
    <3> QED
      BY <3>3, <3>4, <2>2
  <2>4. Apart(results')
    BY <2>2, <2>3 DEF Apart, Entries
  <2> QED
    BY <2>1, <2>4 DEF NoneTwice, Parts
<1>4. CASE AddToCluster
  BY <1>4, NoneTwiceAdd
<1>5. CASE ClusterNext
  BY <1>5, NoneTwiceClusterNext
<1>6. \/ Dispatch \/ BatchNext \/ AddToCluster \/ ClusterNext
      \/ UNCHANGED <<results, clusters, cluster>>
  BY DEF Next, Load, BeginClustering, BeginSending, ReceiveReply, Settle, Terminated,
         vars, clustering
<1> QED
  BY <1>1, <1>2, <1>3, <1>4, <1>5, <1>6

\* No two batches share a request, nor does a batch hold one twice, however they were
\* divided.
THEOREM NoneIsSentTwice == Spec => []NoneTwice
<1>1. Init => NoneTwice
  BY EmptyIsApart DEF Init, NoneTwice, Parts
<1> QED
  BY <1>1, NoneTwiceNext, Invariance, PTL DEF Spec

LEMMA AnswersNext ==
    IInv /\ NoneTwice /\ BatchedAreAnswered /\ [Next]_vars => BatchedAreAnswered'
<1> SUFFICES ASSUME IInv, NoneTwice, BatchedAreAnswered, [Next]_vars
             PROVE  BatchedAreAnswered'
  OBVIOUS
<1>1. CASE Settle
  BY <1>1, SettleAnswers DEF NoneTwice
<1>2. CASE UNCHANGED vars
  BY <1>2 DEF vars, BatchedAreAnswered, Batched, Entries
<1>3. CASE phase' # "done"
  BY <1>3 DEF BatchedAreAnswered
<1>4. Settle \/ UNCHANGED vars \/ phase' # "done"
  BY DEF Next, Load, Dispatch, Send, BatchNext, BeginClustering, AddToCluster, ClusterNext,
         BeginSending, ReceiveReply, Terminated
<1> QED
  BY <1>1, <1>2, <1>3, <1>4

\* When every batch was given its results, and no request was left out of all batches,
\* each is settled with its own result.
THEOREM BatchedGetAnswers == Spec => []BatchedAreAnswered
<1>1. Init => BatchedAreAnswered
  BY DEF Init, BatchedAreAnswered
<1> QED
  BY <1>1, AnswersNext, NoneIsSentTwice, Invariance, PTL DEF Spec

\* The requests of a batch that is answered in full, as all before it, are settled with
\* their own results.
EarlierAreOwn ==
    phase = "done" =>
        \A b \in DOMAIN replies : (\A c \in 1..b : replies[c] = "results") =>
            \A i \in Entries(b) : answers[i] \in {i, Rejection}

\* Both sides of restoreOrder begin with the same sequence.
LEMMA SettleSparesEarlier ==
    ASSUME IInv, Apart(results), Settle
    PROVE  EarlierAreOwn'
<1>1. TypeOK
  BY DEF IInv
<1>2. /\ phase = "sending" /\ UNCHANGED <<vals, results, replies>>
      /\ \A b \in DOMAIN results : Entries(b)' = Entries(b)
      /\ DOMAIN replies = DOMAIN results
  BY <1>1 DEF Settle, Entries, TypeOK
<1>3. PICK n \in Nat : DOMAIN vals = 1..n
  BY <1>1, TypeFacts
<1>4. SUFFICES ASSUME NEW b \in DOMAIN results, \A c \in 1..b : replies[c] = "results",
                      NEW i \in Entries(b)
               PROVE  answers'[i] \in {i, Rejection}
  BY <1>2 DEF EarlierAreOwn
<1>5. PICK T : T = 0..n
  OBVIOUS
<1>6. PICK parts : parts = [c \in DOMAIN results |->
                               IF replies[c] = "results" THEN results[c] ELSE <<Object>>]
  OBVIOUS
<1>7. /\ Len(results) \in Nat /\ DOMAIN results = 1..Len(results)
      /\ \A c \in DOMAIN results : results[c] \in Seq(1..n)
  BY <1>1, <1>3, TypeFacts
<1>8. results \in Seq(Seq(T)) /\ parts \in Seq(Seq(T)) /\ Len(parts) = Len(results)
  <2>1. \A c \in DOMAIN results : results[c] \in Seq(T)
    <3>1. 1..n \subseteq T
      BY <1>3, <1>5
    <3> QED
      BY <3>1, <1>7
  <2>2. <<Object>> \in Seq(T)
    BY <1>3, <1>5 DEF Object
  <2>3. results = [c \in 1..Len(results) |-> results[c]]
    BY <1>1, <1>7 DEF TypeOK
  <2>4. results \in Seq(Seq(T))
    BY <2>1, <2>3, <1>7, SeqDef
  <2>5. /\ parts = [c \in 1..Len(results) |-> parts[c]]
        /\ \A c \in 1..Len(results) : parts[c] \in Seq(T)
    BY <2>1, <2>2, <1>6, <1>7
  <2>6. parts \in Seq(Seq(T)) /\ DOMAIN parts = 1..Len(results)
    BY <2>5, <1>7, SeqDef
  <2>7. Len(parts) = Len(results)
    BY <2>6, <1>7
  <2> QED
    BY <2>4, <2>6, <2>7
<1>9. PICK first : first = SubSeq(results, 1, b)
  OBVIOUS
<1>10. b \in Nat /\ 1 <= b /\ b <= Len(results) /\ b \in 1..Len(results) /\ b \in 1..Len(parts)
  BY <1>7, <1>8
<1>11. /\ first \in Seq(Seq(T)) /\ Len(first) = b /\ DOMAIN first = 1..b
       /\ \A c \in 1..b : first[c] = results[c] /\ c \in DOMAIN results
  BY <1>7, <1>8, <1>9, <1>10
<1>12. SubSeq(parts, 1, b) = first
  <2>1. \A c \in 1..b : parts[c] = results[c]
    BY <1>4, <1>6, <1>11
  <2> QED
    BY <2>1, <1>8, <1>9, <1>10
<1>13. PICK s : s = FlattenSeq(first)
  OBVIOUS
<1>14. s \in Seq(T) /\ i \in ToSet(s)
  <2>1. Apart(first) /\ Len(first) # 0
    BY <1>10, <1>11 DEF Apart
  <2>2. s \in Seq(T) /\ ToSet(s) = UNION {ToSet(first[c]) : c \in DOMAIN first}
    BY <2>1, <1>11, <1>13, FlattenedOnce
  <2>3. b \in DOMAIN first /\ i \in ToSet(first[b])
    BY <1>4, <1>10, <1>11 DEF Entries
  <2> QED
    BY <2>2, <2>3
<1>15. PICK p \in Seq(T), q \in Seq(T) :
           FlattenSeq(results) = s \o p /\ FlattenSeq(parts) = s \o q
  <2>1. \E p \in Seq(T) : FlattenSeq(results) = s \o p
    BY <1>8, <1>9, <1>10, <1>13, FlattenSplits
  <2>2. \E q \in Seq(T) : FlattenSeq(parts) = FlattenSeq(SubSeq(parts, 1, b)) \o q
    BY <1>8, <1>10, FlattenSplits
  <2>3. \E q \in Seq(T) : FlattenSeq(parts) = s \o q
    BY <2>2, <1>12, <1>13
  <2> QED
    BY <2>1, <2>3
<1>16. PICK order, flattened : order = FlattenSeq(results) /\ flattened = FlattenSeq(parts)
  OBVIOUS
<1>17. PICK m \in DOMAIN s : s[m] = i
  BY <1>14 DEF ToSet
<1>18. /\ m \in DOMAIN order /\ order[m] = i
       /\ m \in DOMAIN flattened /\ flattened[m] = i
  <2>1. \A t \in Seq(T) : m \in DOMAIN (s \o t) /\ (s \o t)[m] = s[m]
    BY <1>14, <1>17, LeadsConcatenated
  <2> QED
    BY <2>1, <1>15, <1>16, <1>17
<1>19. NoRepeats(order)
  BY <1>8, <1>10, <1>16, FlattenedOnce
<1>20. Flattened = flattened
  BY <1>6, <1>16 DEF Flattened
<1>21. DOMAIN flattened \subseteq DOMAIN order
  <2>1. ASSUME NEW c \in 1..Len(results) PROVE Len(parts[c]) <= Len(results[c])
    <3>1. results[c] # << >> /\ results[c] \in Seq(1..n)
      <4>1. results \in Seq(Seq(DOMAIN vals) \ {<< >>}) /\ c \in DOMAIN results
        BY <1>1, <1>7 DEF TypeOK
      <4>2. results[c] \in Seq(DOMAIN vals) \ {<< >>}
        BY <4>1
      <4> QED
        BY <4>1, <4>2, <1>7
    <3>2. Len(results[c]) >= 1
      BY <3>1, EmptySeq
    <3>3. Len(<<Object>>) = 1
      OBVIOUS
    <3>4. parts[c] = IF replies[c] = "results" THEN results[c] ELSE <<Object>>
      BY <1>6, <1>7
    <3>5. Len(results[c]) \in Nat
      BY <3>1
    <3> QED
      BY <3>2, <3>3, <3>4, <3>5
  <2>2. Len(results) # 0
    BY <1>10
  <2>3. Len(flattened) <= Len(order)
    BY <2>1, <2>2, <1>8, <1>16, FlattenNoLonger
  <2>4. order \in Seq(T) /\ flattened \in Seq(T)
    BY <1>14, <1>15, <1>16, ConcatProperties
  <2>5. /\ DOMAIN order = 1..Len(order) /\ Len(order) \in Nat
        /\ DOMAIN flattened = 1..Len(flattened) /\ Len(flattened) \in Nat
    BY <2>4
  <2> QED
    BY <2>3, <2>5
<1>22. ASSUME i \in DOMAIN RestoreOrder(flattened) PROVE RestoreOrder(flattened)[i] = i
  <2> DEFINE given == {<<order[k], flattened[k]>> : k \in DOMAIN flattened}
             size == Max({Len(order)} \cup {g[1] : g \in given})
  <2>1. RestoreOrder(flattened) =
            [k \in 1..size |-> IF \E g \in given : g[1] = k
                               THEN (CHOOSE g \in given : g[1] = k)[2] ELSE Undefined]
    BY <1>16 DEF RestoreOrder
  <2>2. <<i, i>> \in given
    BY <1>18
  <2>3. \A g \in given : g[1] = i => g = <<i, i>>
    <3> SUFFICES ASSUME NEW k \in DOMAIN flattened, order[k] = i
                 PROVE  flattened[k] = i
      OBVIOUS
    <3>1. k \in DOMAIN order
      BY <1>21
    <3>2. k = m
      BY <3>1, <1>18, <1>19 DEF NoRepeats
    <3> QED
      BY <3>2, <1>18
  <2> HIDE DEF given, size
  <2>4. (CHOOSE g \in given : g[1] = i) = <<i, i>>
    BY <2>2, <2>3
  <2> QED
    BY <2>1, <2>2, <2>4, <1>22
<1>23. i \in DOMAIN vals
  <2>1. b \in DOMAIN results /\ results[b] \in Seq(DOMAIN vals)
    BY <1>3, <1>4, <1>7
  <2>2. Entries(b) \subseteq DOMAIN vals
    BY <2>1 DEF Entries, ToSet
  <2> QED
    BY <1>4, <2>2
<1>24. \/ answers' = RestoreOrder(flattened) /\ DOMAIN RestoreOrder(flattened) = DOMAIN vals
       \/ answers' = [k \in DOMAIN vals |-> Rejection]
  BY <1>20 DEF Settle
<1> QED
  BY <1>22, <1>23, <1>24

LEMMA EarlierNext ==
    IInv /\ NoneTwice /\ EarlierAreOwn /\ [Next]_vars => EarlierAreOwn'
<1> SUFFICES ASSUME IInv, NoneTwice, EarlierAreOwn, [Next]_vars
             PROVE  EarlierAreOwn'
  OBVIOUS
<1>1. CASE Settle
  BY <1>1, SettleSparesEarlier DEF NoneTwice
<1>2. CASE UNCHANGED vars
  BY <1>2 DEF vars, EarlierAreOwn, Entries
<1>3. CASE phase' # "done"
  BY <1>3 DEF EarlierAreOwn
<1>4. Settle \/ UNCHANGED vars \/ phase' # "done"
  BY DEF Next, Load, Dispatch, Send, BatchNext, BeginClustering, AddToCluster, ClusterNext,
         BeginSending, ReceiveReply, Terminated
<1> QED
  BY <1>1, <1>2, <1>3, <1>4

\* When every batch was given a result per request, no request is settled with the
\* result of another; and a batch answered with one object takes nothing from the
\* requests of the batches before it, however many results are shifted behind it.
THEOREM AnswersStayOwn == Spec => []AnswersAreOwn
<1>1. Init => EarlierAreOwn
  BY DEF Init, EarlierAreOwn
<1>2. OwnOrNothing /\ EarlierAreOwn => AnswersAreOwn
  BY DEF OwnOrNothing, EarlierAreOwn, AnswersAreOwn
<1>3. IInv => OwnOrNothing
  BY DEF IInv
<1> QED
  BY <1>1, <1>2, <1>3, EarlierNext, NoneIsSentTwice, Invariance, PTL DEF Spec

-----------------------------------------------------------------------------
(* Which requests are left out of all batches.                             *)

\* In the order of the deadlines j comes after i and cannot join it.
Follows(i, j) == Before(i, j) /\ ~Clusterable(i, j)

\* The batch at next is gone through in the order of the deadlines: what is in the
\* cluster being filled comes after its first, the first of a cluster cannot join that
\* of the cluster before.
ClustersInOrder ==
    phase = "clustering" /\ next > 0 =>
        /\ clusters # << >> => cluster # << >>
        /\ \A m \in Clustered, i \in Unclustered : Before(m, i)
        /\ \A l \in ToSet(cluster) : l = Head(cluster) \/ Before(Head(cluster), l)
        /\ Len(clusters) > 0 => Follows(Head(clusters[Len(clusters)]), Head(cluster))
        /\ Len(clusters) > 1 =>
              Follows(Head(clusters[Len(clusters) - 1]), Head(clusters[Len(clusters)]))

\* The requests that are in no batch, and those of the batches behind next, which are
\* not divided any more.
Lost == DOMAIN vals \ Batched
Divided == UNION {Entries(b) : b \in {c \in DOMAIN results : c > next}}

LostBehind(l, i, j, k) ==
    /\ \A x \in {i, j, k} : KeyOf(vals[x]) = KeyOf(vals[l])
    /\ Follows(i, j) /\ Follows(j, k)
    /\ k = l \/ Before(k, l)

LostAreLatest ==
    phase \in {"clustering", "sending", "done"} =>
        \A l \in Lost : \E i, j \in Divided, k \in Lost : LostBehind(l, i, j, k)

\* What becomes of the clusters when a request is taken.
LEMMA ClustersGrow ==
    ASSUME IInv, NEW i \in Unclustered, i \in DOMAIN vals, UNCHANGED <<results, next>>,
           \/ cluster # << >> /\ clusters' = Append(clusters, cluster) /\ cluster' = <<i>>
           \/ clusters' = clusters /\ cluster' = Append(cluster, i)
    PROVE  Clustered' = Clustered \cup {i} /\ Unclustered' = Unclustered \ {i}
<1>1. TypeOK
  BY DEF IInv
<1>2. PICK Q : Q = Seq(DOMAIN vals)
  OBVIOUS
<1>3. clusters \in Seq(Q) /\ cluster \in Q /\ Len(clusters) \in Nat
      /\ DOMAIN clusters = 1..Len(clusters)
  BY <1>1, <1>2, ClustersAreSequences
<1>4. Clustered' = Clustered \cup {i}
  <2>1. CASE clusters' = Append(clusters, cluster) /\ cluster' = <<i>>
    <3>1. PICK n, t : n = Len(clusters) /\ t = clusters'
      OBVIOUS
    <3>2. /\ n \in Nat /\ t \in Seq(Q) /\ Len(t) = n + 1 /\ t[n + 1] = cluster
          /\ \A b \in 1..n : t[b] = clusters[b]
      BY <2>1, <3>1, <1>3, AppendProperties
    <3>3. DOMAIN t = 1..(n + 1) /\ DOMAIN clusters = 1..n
      BY <3>1, <3>2, <1>3
    <3>4. /\ \A b \in 1..(n + 1) : b \in 1..n \/ b = n + 1
          /\ \A b \in 1..n : b \in 1..(n + 1)
          /\ n + 1 \in 1..(n + 1)
      BY <3>2
    <3>5. \A x : (\E c \in DOMAIN t : x \in ToSet(t[c]))
                  <=> (\E c \in DOMAIN clusters : x \in ToSet(clusters[c])) \/ x \in ToSet(cluster)
      BY <3>2, <3>3, <3>4
    <3>6. ToSet(cluster') = {i}
      BY <2>1, ElementOfOne
    <3>7. Clustered' = ToSet(cluster') \cup UNION {ToSet(t[c]) : c \in DOMAIN t}
      BY <3>1 DEF Clustered
    <3> QED
      BY <3>5, <3>6, <3>7 DEF Clustered
  <2>2. CASE clusters' = clusters /\ cluster' = Append(cluster, i)
    <3>1. ToSet(cluster') = ToSet(cluster) \cup {i}
      BY <2>2, <1>2, <1>3, ElementsOfAppend
    <3> QED
      BY <3>1, <2>2 DEF Clustered
  <2> QED
    BY <2>1, <2>2
<1>5. Unclustered = ToSet(results[next]) \ Clustered
      /\ Unclustered' = ToSet(results'[next']) \ Clustered'
  BY DEF Unclustered, Clustered, ToSet
<1>6. Unclustered' = ToSet(results[next]) \ Clustered'
  BY <1>5
<1> QED
  BY <1>4, <1>5, <1>6

LEMMA InOrderAdd ==
    ASSUME IInv, ClustersInOrder, AddToCluster
    PROVE  ClustersInOrder'
<1>1. TypeOK
  BY DEF IInv
<1>2. /\ phase = "clustering" /\ next > 0
      /\ UNCHANGED <<config, phase, vals, results, next>>
  BY DEF AddToCluster
<1>3. PICK i \in Unclustered :
          /\ \A j \in Unclustered \ {i} : Before(i, j)
          /\ i \in DOMAIN vals /\ i \notin Clustered
          /\ \/ /\ cluster # << >> /\ ~Clusterable(Head(cluster), i)
                /\ clusters' = Append(clusters, cluster) /\ cluster' = <<i>>
             \/ clusters' = clusters /\ cluster' = Append(cluster, i)
  BY AddToClusterTakes
<1>4. PICK Q : Q = Seq(DOMAIN vals)
  OBVIOUS
<1>5. clusters \in Seq(Q) /\ cluster \in Q /\ Len(clusters) \in Nat
      /\ DOMAIN clusters = 1..Len(clusters)
  BY <1>1, <1>4, ClustersAreSequences
<1>6. /\ clusters # << >> => cluster # << >>
      /\ \A m \in Clustered, j \in Unclustered : Before(m, j)
      /\ \A l \in ToSet(cluster) : l = Head(cluster) \/ Before(Head(cluster), l)
      /\ Len(clusters) > 0 => Follows(Head(clusters[Len(clusters)]), Head(cluster))
      /\ Len(clusters) > 1 =>
            Follows(Head(clusters[Len(clusters) - 1]), Head(clusters[Len(clusters)]))
  BY <1>2 DEF ClustersInOrder
<1>7. Clustered' = Clustered \cup {i} /\ Unclustered' = Unclustered \ {i}
  BY <1>2, <1>3, ClustersGrow
<1>8. /\ \A a, b : Before(a, b)' <=> Before(a, b)
      /\ \A a, b : Follows(a, b)' <=> Follows(a, b)
  BY <1>2 DEF Before, SortKey, Follows, Clusterable
<1>9. \A m \in Clustered', j \in Unclustered' : Before(m, j)
  BY <1>3, <1>6, <1>7
<1>10. cluster # << >> => Head(cluster) \in ToSet(cluster) /\ Before(Head(cluster), i)
  <2>1. SUFFICES ASSUME cluster # << >> PROVE Head(cluster) \in ToSet(cluster)
    BY <1>3, <1>6 DEF Clustered
  <2>2. 1 \in DOMAIN cluster /\ Head(cluster) = cluster[1]
    BY <2>1, <1>4, <1>5
  <2> QED
    BY <2>2 DEF ToSet
<1>11. CASE /\ cluster # << >> /\ ~Clusterable(Head(cluster), i)
            /\ clusters' = Append(clusters, cluster) /\ cluster' = <<i>>
  <2>1. PICK n : n = Len(clusters)
    OBVIOUS
  <2>2. /\ n \in Nat /\ Len(clusters') = n + 1 /\ clusters'[n + 1] = cluster
        /\ \A c \in 1..n : clusters'[c] = clusters[c]
    BY <2>1, <1>5, <1>11, AppendProperties
  <2>3. Head(cluster') = i /\ ToSet(cluster') = {i} /\ cluster' # << >>
    BY <1>11, ElementOfOne
  <2>4. Follows(Head(clusters'[n + 1]), Head(cluster'))
    BY <2>2, <2>3, <1>10, <1>11 DEF Follows
  <2>5. n + 1 > 1 => Follows(Head(clusters'[n]), Head(clusters'[n + 1]))
    <3>1. n + 1 > 1 => n \in 1..n /\ n > 0
      BY <2>2
    <3> QED
      BY <3>1, <2>1, <2>2, <1>6
  <2>6. n + 1 - 1 = n
    BY <2>2
  <2> QED
    BY <2>2, <2>3, <2>4, <2>5, <2>6, <1>8, <1>9 DEF ClustersInOrder
<1>12. CASE clusters' = clusters /\ cluster' = Append(cluster, i)
  <2>1. cluster' # << >> /\ ToSet(cluster') = ToSet(cluster) \cup {i}
    <3>1. i \in DOMAIN vals /\ cluster \in Seq(DOMAIN vals)
      BY <1>3, <1>4, <1>5
    <3>2. ToSet(cluster') = ToSet(cluster) \cup {i}
      BY <3>1, <1>12, ElementsOfAppend
    <3>3. i \in ToSet(cluster')
      BY <3>2
    <3> QED
      BY <3>2, <3>3 DEF ToSet
  <2>2. CASE cluster = << >>
    <3>1. clusters = << >> /\ Len(clusters) = 0
      BY <2>2, <1>5, <1>6
    <3>2. Head(cluster') = i /\ ToSet(cluster') = {i}
      BY <2>2, <1>12, ElementOfOne
    <3>3. Len(clusters') = 0
      BY <3>1, <1>12
    <3> QED
      BY <2>1, <3>2, <3>3, <1>8, <1>9 DEF ClustersInOrder
  <2>3. CASE cluster # << >>
    <3>1. Head(cluster') = Head(cluster)
      BY <2>3, <1>3, <1>4, <1>5, <1>12, AppendedOne
    <3>2. \A l \in ToSet(cluster') : l = Head(cluster') \/ Before(Head(cluster'), l)
      BY <2>1, <2>3, <3>1, <1>6, <1>10
    <3> QED
      BY <2>1, <3>1, <3>2, <1>6, <1>8, <1>9, <1>12 DEF ClustersInOrder
  <2> QED
    BY <2>2, <2>3
<1> QED
  BY <1>3, <1>11, <1>12

LEMMA InOrderNext == IInv /\ ClustersInOrder /\ [Next]_vars => ClustersInOrder'
<1> SUFFICES ASSUME IInv, ClustersInOrder, [Next]_vars PROVE ClustersInOrder'
  OBVIOUS
<1>1. CASE AddToCluster
  BY <1>1, InOrderAdd
<1>2. CASE clusters' = << >> /\ cluster' = << >>
  <2>1. Clustered' = {} /\ ToSet(cluster') = {} /\ ~(Len(clusters') > 0) /\ ~(Len(clusters') > 1)
    BY <1>2 DEF Clustered, ToSet
  <2> QED
    BY <2>1, <1>2 DEF ClustersInOrder
<1>3. CASE UNCHANGED vars
  <2>1. \A a, b : (Before(a, b)' <=> Before(a, b)) /\ (Follows(a, b)' <=> Follows(a, b))
    BY <1>3 DEF vars, Before, SortKey, Follows, Clusterable
  <2>2. Clustered' = Clustered /\ Unclustered' = Unclustered
    BY <1>3 DEF vars, clustering, Clustered, Unclustered
  <2>3. UNCHANGED <<phase, next, clusters, cluster>>
    BY <1>3 DEF vars, clustering
  <2> QED
    BY <2>1, <2>2, <2>3 DEF ClustersInOrder
<1>4. CASE phase' # "clustering"
  BY <1>4 DEF ClustersInOrder
<1>5. \/ AddToCluster \/ UNCHANGED vars \/ phase' # "clustering"
      \/ clusters' = << >> /\ cluster' = << >>
  <2>1. BeginClustering => clusters' = << >> /\ cluster' = << >>
    BY DEF BeginClustering, clustering, IInv, ClustersAreParts
  <2> QED
    BY <2>1 DEF Next, Load, Dispatch, Send, BatchNext, ClusterNext, BeginSending,
       ReceiveReply, Settle, Terminated
<1> QED
  BY <1>1, <1>2, <1>3, <1>4, <1>5

\* Requests of one batch have the same key.
LEMMA BatchHasOneKey ==
    ASSUME IInv, NEW b \in DOMAIN results, NEW i \in Entries(b), NEW j \in Entries(b)
    PROVE  KeyOf(vals[i]) = KeyOf(vals[j])
<1>1. MayShare(i, j)
  BY DEF IInv, BatchesAreCompatible, Compatible
<1>2. config.strategy \in {"Request", "Headers", "Insecure"}
  BY TypeFacts DEF IInv
<1> QED
  BY <1>1, <1>2 DEF MayShare, KeyOf, BatchByHeadersHash

\* What is lost stays lost for the same reason when the requests, and what is divided
\* of them, stay what they are.
LEMMA LostStays ==
    ASSUME UNCHANGED <<config, vals>>, NEW l, NEW i, NEW j, NEW k
    PROVE  LostBehind(l, i, j, k)' <=> LostBehind(l, i, j, k)
<1>1. \A a : KeyOf(vals[a])' = KeyOf(vals[a])
  BY DEF KeyOf, BatchByHeadersHash, BatchByHeaders
<1>2. \A a, b : (Before(a, b)' <=> Before(a, b)) /\ (Follows(a, b)' <=> Follows(a, b))
  BY DEF Before, SortKey, Follows, Clusterable
<1> QED
  BY <1>1, <1>2 DEF LostBehind

\* A batch with several clusters is replaced by them: the one being filled is lost.
LEMMA SpliceLoses ==
    ASSUME IInv, NoneTwice, ClusterNext, SeveralPushed
    PROVE  /\ Lost' = Lost \cup ToSet(cluster)
           /\ Divided \subseteq Divided'
           /\ \A c \in DOMAIN clusters : ToSet(clusters[c]) \subseteq Divided'
<1>1. TypeOK
  BY DEF IInv
<1>2. /\ phase = "clustering" /\ next > 0 /\ next' = next - 1 /\ vals' = vals
      /\ results' = Splice(results, next, clusters)
      /\ Unclustered = {}
  BY DEF ClusterNext
<1>3. PICK Q : Q = Seq(DOMAIN vals)
  OBVIOUS
<1>4. /\ results \in Seq(Q) /\ clusters \in Seq(Q) /\ cluster \in Q
      /\ Len(clusters) \in Nat /\ DOMAIN clusters = 1..Len(clusters)
  <2>1. results \in Seq(Seq(DOMAIN vals))
    BY <1>1, SeqMonotonic DEF TypeOK
  <2> QED
    BY <2>1, <1>3, <1>1, ClustersAreSequences
<1>5. next \in 1..Len(results) /\ next \in DOMAIN results /\ DOMAIN results = 1..Len(results)
      /\ Len(results) \in Nat
  BY <1>1, <1>2, TypeFacts DEF IInv, ClustersAreParts
<1>6. PICK more : more = Len(clusters) - 1
  OBVIOUS
<1>7. more \in Nat /\ more > 0
  BY <1>4, <1>6 DEF SeveralPushed
<1>8. /\ \A b \in DOMAIN results' : SpliceTakes(results, next, clusters, results', b)
      /\ SpliceKeeps(results, next, clusters, results')
  BY <1>2, <1>4, <1>5, Spliced
<1>9. /\ Apart(results) /\ Apart(clusters)
      /\ \A c \in DOMAIN clusters : ToSet(clusters[c]) \cap ToSet(cluster) = {}
  BY <1>4, ApartAppended DEF NoneTwice, Parts
<1>10. Entries(next) = Clustered
  <2>1. Entries(next) \subseteq Clustered
    BY <1>2 DEF Unclustered, Entries, Clustered, ToSet
  <2>2. Clustered \subseteq Entries(next)
    BY <1>2 DEF IInv, ClustersAreParts, Clustered
  <2> QED
    BY <2>1, <2>2
<1>11. \A b \in DOMAIN results : b # next =>
           \E c \in DOMAIN results' : results'[c] = results[b] /\ (b > next => c > next')
  <2> SUFFICES ASSUME NEW b \in DOMAIN results, b # next
               PROVE  \E c \in DOMAIN results' :
                          results'[c] = results[b] /\ (b > next => c > next')
    OBVIOUS
  <2>1. b \in Int /\ next \in Int
    BY <1>5
  <2>2. CASE b < next
    BY <2>1, <2>2, <1>8 DEF SpliceKeeps
  <2>3. CASE b > next
    <3>1. b + more \in DOMAIN results' /\ results'[b + more] = results[b]
      BY <2>3, <1>6, <1>8 DEF SpliceKeeps
    <3>2. b + more > next'
      BY <2>1, <2>3, <1>2, <1>7
    <3> QED
      BY <3>1, <3>2
  <2> QED
    BY <2>1, <2>2, <2>3
<1>12. \A c \in DOMAIN clusters :
           \E b \in DOMAIN results' : results'[b] = clusters[c] /\ b > next'
  <2> SUFFICES ASSUME NEW c \in DOMAIN clusters
               PROVE  \E b \in DOMAIN results' : results'[b] = clusters[c] /\ b > next'
    OBVIOUS
  <2>1. next - 1 + c \in DOMAIN results' /\ results'[next - 1 + c] = clusters[c]
    BY <1>8 DEF SpliceKeeps
  <2>2. next - 1 + c > next'
    BY <1>2, <1>4, <1>5
  <2> QED
    BY <2>1, <2>2
<1>13. \A b \in DOMAIN results' :
           \/ \E c \in DOMAIN results : c # next /\ results'[b] = results[c]
           \/ \E c \in DOMAIN clusters : results'[b] = clusters[c]
  <2> SUFFICES ASSUME NEW b \in DOMAIN results'
               PROVE  \/ \E c \in DOMAIN results : c # next /\ results'[b] = results[c]
                      \/ \E c \in DOMAIN clusters : results'[b] = clusters[c]
    OBVIOUS
  <2>1. \A c \in Int : c < next \/ c > next => c # next
    BY <1>5
  <2>2. DOMAIN results \subseteq Int
    BY <1>5
  <2> QED
    BY <2>1, <2>2, <1>8 DEF SpliceTakes
<1>14. Divided \subseteq Divided'
  <2> SUFFICES ASSUME NEW b \in DOMAIN results, b > next, NEW x \in Entries(b)
               PROVE  x \in Divided'
    BY DEF Divided
  <2>1. b # next
    BY <1>5
  <2>2. PICK c \in DOMAIN results' : results'[c] = results[b] /\ c > next'
    BY <2>1, <1>11
  <2> QED
    BY <2>2 DEF Divided, Entries
<1>15. \A c \in DOMAIN clusters : ToSet(clusters[c]) \subseteq Divided'
  BY <1>12 DEF Divided, Entries
<1>16. Batched' = Batched \ ToSet(cluster)
  <2>1. ASSUME NEW x \in Batched' PROVE x \in Batched /\ x \notin ToSet(cluster)
    <3>1. PICK b \in DOMAIN results' : x \in ToSet(results'[b])
      BY DEF Batched, Entries
    <3>2. CASE \E c \in DOMAIN results : c # next /\ results'[b] = results[c]
      <4>1. PICK c \in DOMAIN results : c # next /\ x \in Entries(c)
        BY <3>1, <3>2 DEF Entries
      <4>2. x \notin Entries(next)
        BY <4>1, <1>5, <1>9 DEF Apart, Entries
      <4> QED
        BY <4>1, <4>2, <1>10 DEF Batched, Clustered
    <3>3. CASE \E c \in DOMAIN clusters : results'[b] = clusters[c]
      <4>1. PICK c \in DOMAIN clusters : x \in ToSet(clusters[c])
        BY <3>1, <3>3
      <4>2. x \in Entries(next) /\ x \notin ToSet(cluster)
        BY <4>1, <1>9, <1>10 DEF Clustered
      <4> QED
        BY <4>2, <1>5 DEF Batched
    <3> QED
      BY <3>2, <3>3, <1>13
  <2>2. ASSUME NEW x \in Batched, x \notin ToSet(cluster) PROVE x \in Batched'
    <3>1. PICK b \in DOMAIN results : x \in Entries(b)
      BY <2>2 DEF Batched
    <3>2. CASE b = next
      <4>1. PICK c \in DOMAIN clusters : x \in ToSet(clusters[c])
        BY <2>2, <3>1, <3>2, <1>10 DEF Clustered
      <4> QED
        BY <4>1, <1>12 DEF Batched, Entries
    <3>3. CASE b # next
      <4>1. PICK c \in DOMAIN results' : results'[c] = results[b]
        BY <3>3, <1>11
      <4> QED
        BY <4>1, <3>1 DEF Batched, Entries
    <3> QED
      BY <3>2, <3>3
  <2> QED
    BY <2>1, <2>2
<1>17. ToSet(cluster) \subseteq DOMAIN vals
  BY <1>3, <1>4 DEF ToSet
<1> QED
  BY <1>2, <1>14, <1>15, <1>16, <1>17 DEF Lost

LEMMA LostClusterNext ==
    ASSUME IInv, NoneTwice, ClustersInOrder, LostAreLatest, ClusterNext
    PROVE  LostAreLatest'
<1>1. TypeOK
  BY DEF IInv
<1>2. /\ phase = "clustering" /\ next > 0 /\ next' = next - 1
      /\ UNCHANGED <<config, vals, phase>>
      /\ results' = IF SeveralPushed THEN Splice(results, next, clusters) ELSE results
  BY DEF ClusterNext
<1>3. \A l, i, j, k : LostBehind(l, i, j, k)' <=> LostBehind(l, i, j, k)
  BY <1>2, LostStays
<1>4. CASE ~SeveralPushed
  <2>1. Lost' = Lost
    BY <1>2, <1>4 DEF Lost, Batched, Entries
  <2>2. Divided \subseteq Divided'
    <3>1. \A c \in DOMAIN results : c > next => c > next'
      BY <1>1, <1>2, TypeFacts
    <3> QED
      BY <3>1, <1>2, <1>4 DEF Divided, Entries
  <2> QED
    BY <2>1, <2>2, <1>2, <1>3 DEF LostAreLatest
<1>5. CASE SeveralPushed
  <2>1. /\ Lost' = Lost \cup ToSet(cluster)
        /\ Divided \subseteq Divided'
        /\ \A c \in DOMAIN clusters : ToSet(clusters[c]) \subseteq Divided'
    BY <1>5, SpliceLoses
  <2>2. ASSUME NEW l \in Lost
        PROVE  \E i, j \in Divided', k \in Lost' : LostBehind(l, i, j, k)
    BY <2>1, <1>2 DEF LostAreLatest
  <2>3. ASSUME NEW l \in ToSet(cluster)
        PROVE  \E i, j \in Divided', k \in Lost' : LostBehind(l, i, j, k)
    <3>1. /\ Len(clusters) \in Nat /\ Len(clusters) > 1 /\ DOMAIN clusters = 1..Len(clusters)
          /\ cluster \in Seq(DOMAIN vals)
          /\ \A c \in DOMAIN clusters : clusters[c] # << >> /\ clusters[c] \in Seq(DOMAIN vals)
      BY <1>1, <1>5, ClustersAreSequences DEF SeveralPushed
    <3>2. PICK one, two : one = clusters[Len(clusters) - 1] /\ two = clusters[Len(clusters)]
      OBVIOUS
    <3>3. /\ one \in Seq(DOMAIN vals) /\ one # << >> /\ ToSet(one) \subseteq Divided'
          /\ two \in Seq(DOMAIN vals) /\ two # << >> /\ ToSet(two) \subseteq Divided'
          /\ ToSet(one) \subseteq Entries(next) /\ ToSet(two) \subseteq Entries(next)
      <4>1. Len(clusters) - 1 \in DOMAIN clusters /\ Len(clusters) \in DOMAIN clusters
        BY <3>1
      <4>2. \A c \in DOMAIN clusters : ToSet(clusters[c]) \subseteq Entries(next)
        BY <1>2 DEF IInv, ClustersAreParts
      <4> QED
        BY <4>1, <4>2, <3>1, <3>2, <2>1
    <3>4. cluster # << >>
      BY <2>3 DEF ToSet
    <3>5. \A s \in Seq(DOMAIN vals) : s # << >> => Head(s) \in ToSet(s)
      <4> SUFFICES ASSUME NEW s \in Seq(DOMAIN vals), s # << >> PROVE Head(s) \in ToSet(s)
        OBVIOUS
      <4>1. 1 \in DOMAIN s /\ Head(s) = s[1]
        OBVIOUS
      <4> QED
        BY <4>1 DEF ToSet
    <3>6. PICK i, j, k : i = Head(one) /\ j = Head(two) /\ k = Head(cluster)
      OBVIOUS
    <3>7. /\ i \in ToSet(one) /\ j \in ToSet(two) /\ k \in ToSet(cluster)
      BY <3>1, <3>3, <3>4, <3>5, <3>6
    <3>8. i \in Divided' /\ j \in Divided' /\ k \in Lost'
      BY <3>3, <3>7, <2>1
    <3>9. Follows(i, j) /\ Follows(j, k) /\ (k = l \/ Before(k, l))
      BY <2>3, <3>1, <3>2, <3>6, <1>2 DEF ClustersInOrder
    <3>10. /\ i \in Entries(next) /\ j \in Entries(next) /\ k \in Entries(next)
           /\ l \in Entries(next) /\ next \in DOMAIN results
      <4>1. ToSet(cluster) \subseteq Entries(next) /\ next \in DOMAIN results
        BY <1>1, <1>2, TypeFacts DEF IInv, ClustersAreParts
      <4> QED
        BY <4>1, <2>3, <3>3, <3>7
    <3>11. \A x \in {i, j, k} : KeyOf(vals[x]) = KeyOf(vals[l])
      BY <3>10, BatchHasOneKey
    <3> QED
      BY <3>8, <3>9, <3>11 DEF LostBehind
  <2> QED
    BY <2>1, <2>2, <2>3, <1>3 DEF LostAreLatest
<1> QED
  BY <1>4, <1>5

LEMMA LostNext ==
    IInv /\ NoneTwice /\ ClustersInOrder /\ LostAreLatest /\ [Next]_vars => LostAreLatest'
<1> SUFFICES ASSUME IInv, NoneTwice, ClustersInOrder, LostAreLatest, [Next]_vars
             PROVE  LostAreLatest'
  OBVIOUS
<1>1. TypeOK
  BY DEF IInv
<1>2. CASE ClusterNext
  BY <1>2, LostClusterNext
<1>3. CASE /\ phase \in {"clustering", "sending", "done"}
           /\ UNCHANGED <<config, vals, results, next>>
  <2>1. Lost' = Lost /\ Divided' = Divided
    BY <1>3 DEF Lost, Batched, Divided, Entries
  <2>2. \A l, i, j, k : LostBehind(l, i, j, k)' <=> LostBehind(l, i, j, k)
    BY <1>3, LostStays
  <2> QED
    BY <2>1, <2>2, <1>3 DEF LostAreLatest
<1>4. CASE Lost' = {}
  BY <1>4 DEF LostAreLatest
<1>5. CASE phase' \in {"loading", "batching"}
  BY <1>5 DEF LostAreLatest
<1>6. CASE Dispatch
  <2>1. CASE Len(vals) = 1
    <3>1. results' = <<<<1>>>> /\ vals' = vals /\ DOMAIN vals = {1}
      BY <2>1, <1>1, <1>6, TypeFacts DEF Dispatch
    <3>2. 1 \in Batched'
      BY <3>1 DEF Batched, Entries, ToSet
    <3> QED
      BY <3>1, <3>2, <1>4 DEF Lost
  <2>2. CASE Len(vals) # 1
    BY <2>2, <1>5, <1>6 DEF Dispatch
  <2> QED
    BY <2>1, <2>2
<1>7. CASE BeginClustering
  <2>1. Batched = 1..(next - 1) /\ next > Len(vals) /\ UNCHANGED <<vals, results>>
    BY <1>7 DEF BeginClustering, IInv, BatchesInInputOrder
  <2>2. DOMAIN vals \subseteq Batched
    BY <2>1, <1>1, TypeFacts
  <2>3. Batched' = Batched
    BY <2>1 DEF Batched, Entries
  <2> QED
    BY <2>1, <2>2, <2>3, <1>4 DEF Lost
<1>8. CASE UNCHANGED vars
  <2>1. UNCHANGED <<config, vals, results, next, phase>>
    BY <1>8 DEF vars
  <2>2. phase' \in {"loading", "batching"} \/ phase \in {"clustering", "sending", "done"}
    BY <2>1, <1>1 DEF TypeOK
  <2> QED
    BY <2>1, <2>2, <1>3, <1>5
<1>9. CASE (\E r \in Request : Load(r)) \/ BatchNext
  BY <1>5, <1>9 DEF Load, BatchNext
<1>10. CASE AddToCluster \/ BeginSending \/ Settle
            \/ \E b \in DOMAIN replies, reply \in {"results", "object", "failed"} :
                   ReceiveReply(b, reply)
  BY <1>3, <1>10 DEF AddToCluster, BeginSending, Settle, ReceiveReply
<1> QED
  BY <1>2, <1>6, <1>7, <1>8, <1>9, <1>10 DEF Next, Terminated

\* Whatever was lost comes, in the order of the deadlines, behind two requests of its
\* key that were sent and could not share a batch.
THEOREM OnlyLatestGetLost == Spec => []OnlyLatestAreLost
<1>1. Init => ClustersInOrder /\ LostAreLatest
  BY DEF Init, ClustersInOrder, LostAreLatest
<1>2. LostAreLatest => OnlyLatestAreLost
  <2> SUFFICES ASSUME LostAreLatest, phase \in {"clustering", "sending", "done"},
                      NEW l \in Lost
               PROVE  \E i, j \in Batched, k \in Lost : LostBehind(l, i, j, k)
    BY DEF OnlyLatestAreLost, Lost, LostBehind, Follows
  <2>1. Divided \subseteq Batched
    BY DEF Divided, Batched
  <2> QED
    BY <2>1 DEF LostAreLatest
<1> QED
  BY <1>1, <1>2, InOrderNext, LostNext, NoneIsSentTwice, Invariance, PTL DEF Spec

\* The loss needs deadlines two waits apart, or a request without one: with neither,
\* every request of the loader's batch is sent.
THEOREM CloseDeadlinesLoseNothing ==
    ASSUME \A c, d \in Context :
               DeadlineOf[c] # Missing /\ DeadlineOf[c] - DeadlineOf[d] < 2 * Wait
    PROVE  Spec => []EveryRequestIsSent
<1>1. ASSUME IInv, OnlyLatestAreLost PROVE EveryRequestIsSent
  <2> SUFFICES ASSUME phase \in {"sending", "done"} PROVE Batched = DOMAIN vals
    BY DEF EveryRequestIsSent
  <2>1. TypeOK
    BY <1>1 DEF IInv
  <2>2. Batched \subseteq DOMAIN vals
    BY <2>1, BatchesHaveEntries DEF Batched
  <2>3. ASSUME NEW l \in DOMAIN vals \ Batched PROVE FALSE
    <3>1. PICK i \in Batched, j \in Batched, k \in DOMAIN vals \ Batched :
              ~Clusterable(i, j) /\ ~Clusterable(j, k)
      BY <1>1, <2>3 DEF OnlyLatestAreLost
    <3>2. \A x \in DOMAIN vals : vals[x].context \in Context
      <4>1. \A x \in DOMAIN vals : vals[x] \in Request
        BY <2>1 DEF TypeOK
      <4> QED
        BY <4>1 DEF Request
    <3>3. PICK c, d, e : c = vals[i].context /\ d = vals[j].context /\ e = vals[k].context
      OBVIOUS
    <3>4. c \in Context /\ d \in Context /\ e \in Context
      BY <2>2, <3>2, <3>3
    <3>5. \A x \in Context : DeadlineOf[x] \in Nat /\ DeadlineOf[x] # Missing
      BY ProfileAssumption DEF Missing
    <3>6. DeadlineOf[d] - DeadlineOf[c] >= Wait /\ DeadlineOf[e] - DeadlineOf[d] >= Wait
      <4>1. ~(DeadlineOf[d] - DeadlineOf[c] < Wait) /\ ~(DeadlineOf[e] - DeadlineOf[d] < Wait)
        BY <3>1, <3>3, <3>4, <3>5 DEF Clusterable
      <4>2. /\ DeadlineOf[c] \in Nat /\ DeadlineOf[d] \in Nat /\ DeadlineOf[e] \in Nat
            /\ Wait \in Nat
        BY <3>4, <3>5, SizeAssumption
      <4> QED
        BY <4>1, <4>2
    <3>7. DeadlineOf[e] - DeadlineOf[c] < 2 * Wait
      BY <3>4
    <3>8. DeadlineOf[c] \in Nat /\ DeadlineOf[d] \in Nat /\ DeadlineOf[e] \in Nat /\ Wait \in Nat
      BY <3>4, <3>5, SizeAssumption
    <3> QED
      BY <3>6, <3>7, <3>8
  <2> QED
    BY <2>2, <2>3
<1> QED
  BY <1>1, OnlyLatestGetLost, Invariance, PTL

\* What the comment in makeLegacyGqlExecutor assumes is all that it takes: if requests
\* whose forwarded headers agree had the same legacy context, any request's would do.
THEOREM LegacyContextWouldDo ==
    ASSUME \A c, d \in Context :
               BatchByHeaders(c) = BatchByHeaders(d) => LegacyContextOf[c] = LegacyContextOf[d]
    PROVE  Spec => []LegacyContextIsOwn
<1>1. ASSUME IInv PROVE LegacyContextIsOwn
  <2> SUFFICES ASSUME config.strategy # "Insecure", NEW b \in DOMAIN sent, NEW i \in Entries(b)
               PROVE  sent[b].legacy = LegacyContextOf[vals[i].context]
    BY DEF LegacyContextIsOwn
  <2>1. TypeOK /\ config.strategy \in {"Request", "Headers", "Insecure"}
    BY <1>1, TypeFacts DEF IInv
  <2>2. b \in DOMAIN results /\ sent[b] = ArgsOf(results[b])
    BY <1>1 DEF IInv, SentAlong
  <2>3. PICK h : h = Head(results[b])
    OBVIOUS
  <2>4. h \in Entries(b) /\ Entries(b) \subseteq DOMAIN vals
    BY <2>1, <2>2, <2>3, BatchesHaveEntries
  <2>5. sent[b].legacy = LegacyContextOf[vals[h].context]
    BY <2>2, <2>3 DEF ArgsOf
  <2>6. vals[h].context \in Context /\ vals[i].context \in Context
    <3>1. vals[h] \in Request /\ vals[i] \in Request
      BY <2>1, <2>4 DEF TypeOK
    <3> QED
      BY <3>1 DEF Request
  <2>7. MayShare(h, i)
    BY <1>1, <2>2, <2>4 DEF IInv, BatchesAreCompatible, Compatible
  <2> QED
    BY <2>1, <2>5, <2>6, <2>7 DEF MayShare
<1> QED
  BY <1>1, Invariance, PTL
=============================================================================
