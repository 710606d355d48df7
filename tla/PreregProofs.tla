----------------------------- MODULE PreregProofs -----------------------------
(***************************************************************************)
(* Theorems about Prereg, for every set of ids, every length of the        *)
(* refresh cycle and every run however long, as long as a query and a      *)
(* transaction together take less than the fudge factor; then about        *)
(* PreregRequests, for every set of requests and size of the cache.        *)
(*                                                                         *)
(* UnknownIsReloaded is not inductive: that an answer may be taken in      *)
(* depends on what its SELECT could see and when it was sent.  IInv says   *)
(* it of every running query.                                              *)
(*                                                                         *)
(* That a request is refused, or not, follows from what the worker knew    *)
(* when it came in; what it then knew depends on the queries that were     *)
(* running.  HeedInv says of these which rows they may still bring.        *)
(***************************************************************************)
EXTENDS PreregRequests, MemoryStoreProofs, FiniteSetTheorems, TLAPS

\* A row is committed soon after its update time.
RowsAreFresh ==
    \A id \in Published : updated[id] >= 1 /\ updated[id] >= visibleSince[id] - MaxLag

\* Ids are asked for from far enough back.
AskedFromAfar == mostRecentKnown = 0 \/ mostRecentKnown <= now - Fudge

\* No query runs for longer than any does, and none asks for less than the next would.
QueriesAreTimely ==
    \A q \in queries :
        /\ q.started <= now /\ now - q.started <= MaxDelay
        /\ q.since <= 0 \/ q.since <= mostRecentKnown
        /\ q.refresh => q.since = 0

\* What a snapshot lacks was committed after its query was sent, or not asked for.
SnapshotsAreComplete ==
    \A q \in queries : q.taken =>
        \A id \in Published \ q.rows :
            visibleSince[id] >= q.started \/ updated[id] <= q.since

IInv ==
    /\ TypeOK
    /\ RowsAreFresh
    /\ AskedFromAfar
    /\ QueriesAreTimely
    /\ SnapshotsAreComplete
    /\ UnknownIsReloaded

\* The invariant holds at start-up, when only the first load is running.
LEMMA InitInv == Init => IInv
  <1> SUFFICES ASSUME Init PROVE IInv OBVIOUS
  <1>1. /\ now = 1 /\ phase = "loading" /\ knownQueries = {} /\ mostRecentKnown = 0
        /\ untilRefresh = RefreshEvery
        /\ updated \in [Id -> 0 .. 1] /\ visibleSince \in [Id -> 1 .. 1]
    BY DEF Init, Absent
  <1>2. \A id \in Published : id \in Id /\ updated[id] = 1
    BY <1>1 DEF Published, Absent
  <1>3. \A q \in queries : /\ q \in Query /\ ~q.taken /\ q.started = 1
                           /\ q.since = 0 /\ ~q.refresh
    <2> DEFINE first == [refresh |-> FALSE, since |-> 0, started |-> 1, taken |-> FALSE,
                         rows |-> {}]
    <2>1. queries = {first} BY DEF Init
    <2>2. /\ first \in Query /\ ~first.taken /\ first.started = 1
          /\ first.since = 0 /\ ~first.refresh
      BY DEF Query
    <2> HIDE DEF first
    <2>3. QED BY <2>1, <2>2
  <1>4. TypeOK
    <2>1. /\ untilRefresh \in 0 .. RefreshEvery /\ now \in 1 .. MaxTime
          /\ knownQueries \subseteq Id /\ mostRecentKnown \in Int
      BY <1>1, TimeAssumption DEF TimeAssumption
    <2>2. updated \in [Id -> 0 .. now] /\ visibleSince \in [Id -> 1 .. now] BY <1>1
    <2>3. queries \subseteq Query BY <1>3
    <2>4. QED BY <1>1, <2>1, <2>2, <2>3 DEF TypeOK
  <1>5. RowsAreFresh BY <1>1, <1>2, TimeAssumption DEF RowsAreFresh, TimeAssumption
  <1>6. AskedFromAfar BY <1>1 DEF AskedFromAfar
  <1>7. QueriesAreTimely
    BY <1>1, <1>3, TimeAssumption DEF QueriesAreTimely, TimeAssumption
  <1>8. SnapshotsAreComplete BY <1>3 DEF SnapshotsAreComplete
  <1>9. UnknownIsReloaded BY <1>1, <1>2 DEF UnknownIsReloaded
  <1>10. QED BY <1>4, <1>5, <1>6, <1>7, <1>8, <1>9 DEF IInv

\* Committing a row: it is younger than what any query asks for.
LEMMA PublishInv == ASSUME IInv, NEW id \in Id, Publish(id) PROVE IInv'
  <1> USE TimeAssumption, FudgeAssumption DEF IInv, Publish, Absent
  <1>1. PICK time \in 1 .. now :
            time >= now - MaxLag /\ updated' = [updated EXCEPT ![id] = time]
    OBVIOUS
  <1>2. TypeOK' BY <1>1 DEF TypeOK, Query
  <1>3. RowsAreFresh' BY <1>1 DEF RowsAreFresh, Published, TypeOK
  <1>4. AskedFromAfar' BY DEF AskedFromAfar
  <1>5. QueriesAreTimely' BY DEF QueriesAreTimely
  <1>6. SnapshotsAreComplete'
    <2> SUFFICES ASSUME NEW q \in queries, q.taken, NEW x \in Published', x \notin q.rows
                 PROVE  visibleSince'[x] >= q.started \/ updated'[x] <= q.since
      BY DEF SnapshotsAreComplete
    <2>1. CASE x = id
      <3>1. q.started <= now BY DEF QueriesAreTimely
      <3>2. QED BY <2>1, <3>1 DEF TypeOK
    <2>2. CASE x # id
      BY <2>2, <1>1 DEF SnapshotsAreComplete, Published, TypeOK
    <2>3. QED BY <2>1, <2>2
  <1>7. UnknownIsReloaded'
    BY <1>1 DEF UnknownIsReloaded, AskedFromAfar, Published, TypeOK
  <1>8. QED BY <1>2, <1>3, <1>4, <1>5, <1>6, <1>7

\* Removing a row asks nothing of anybody.
LEMMA RemoveInv == ASSUME IInv, NEW id \in Id, Remove(id) PROVE IInv'
  <1> USE TimeAssumption, FudgeAssumption DEF IInv, Remove, Absent
  <1>1. TypeOK' BY DEF TypeOK, Query
  <1>2. Published' = Published \ {id} /\ \A x \in Published' : updated'[x] = updated[x]
    BY DEF Published, TypeOK
  <1>3. RowsAreFresh' BY <1>2 DEF RowsAreFresh
  <1>4. AskedFromAfar' BY DEF AskedFromAfar
  <1>5. QueriesAreTimely' BY DEF QueriesAreTimely
  <1>6. SnapshotsAreComplete' BY <1>2 DEF SnapshotsAreComplete
  <1>7. UnknownIsReloaded' BY <1>2 DEF UnknownIsReloaded
  <1>8. QED BY <1>1, <1>3, <1>4, <1>5, <1>6, <1>7

\* A snapshot holds every row its query asks for.
LEMMA SelectInv == ASSUME IInv, NEW q \in queries, Select(q) PROVE IInv'
  <1> USE TimeAssumption DEF IInv, Select
  <1> DEFINE s == [refresh |-> q.refresh, since |-> q.since, started |-> q.started,
                   taken |-> TRUE, rows |-> Snapshot(q.since)]
  <1>1. q \in Query BY DEF TypeOK
  <1>2. /\ s \in Query /\ s.taken /\ s.rows = Snapshot(q.since)
        /\ s.started = q.started /\ s.since = q.since /\ s.refresh = q.refresh
    BY <1>1 DEF Query, Published, Snapshot
  <1>3. queries' = (queries \ {q}) \cup {s} OBVIOUS
  <1> HIDE DEF s
  <1>4. TypeOK' BY <1>2, <1>3 DEF TypeOK, database
  <1>5. RowsAreFresh' BY DEF RowsAreFresh, Published, database
  <1>6. AskedFromAfar' BY DEF AskedFromAfar
  <1>7. QueriesAreTimely' BY <1>2, <1>3 DEF QueriesAreTimely
  <1>8. SnapshotsAreComplete'
    <2> SUFFICES ASSUME NEW r \in queries', r.taken, NEW x \in Published, x \notin r.rows
                 PROVE  visibleSince[x] >= r.started \/ updated[x] <= r.since
      BY DEF SnapshotsAreComplete, Published, database
    <2>1. CASE r = s
      <3>1. ~(updated[x] > q.since) BY <2>1, <1>2 DEF Snapshot
      <3>2. QED BY <2>1, <3>1, <1>1, <1>2 DEF Query, TypeOK, Published
    <2>2. CASE r \in queries BY <2>2 DEF SnapshotsAreComplete
    <2>3. QED BY <2>1, <2>2, <1>3
  <1>9. UnknownIsReloaded' BY DEF UnknownIsReloaded, Published, database
  <1>10. QED BY <1>4, <1>5, <1>6, <1>7, <1>8, <1>9

\* What an answer lacks is younger than the new MOST_RECENT_KNOWN.
LEMMA PopulateInv == ASSUME IInv, NEW q \in queries, Populate(q) PROVE IInv'
  <1> USE TimeAssumption, FudgeAssumption DEF IInv, Populate, NewMostRecent
  <1>1. q \in Query BY DEF TypeOK
  <1>2. TypeOK' BY <1>1 DEF TypeOK, Query, Continue, database
  <1>3. RowsAreFresh' BY DEF RowsAreFresh, Published, database
  <1>4. AskedFromAfar' BY DEF AskedFromAfar
  <1>5. QueriesAreTimely'
    <2> SUFFICES ASSUME NEW r \in queries
                 PROVE  r.since <= 0 \/ r.since <= now - Fudge
      BY DEF QueriesAreTimely
    <2>1. r \in Query BY DEF TypeOK
    <2>2. QED BY <2>1 DEF QueriesAreTimely, AskedFromAfar, Query, TypeOK
  <1>6. SnapshotsAreComplete' BY DEF SnapshotsAreComplete, Published, database
  <1>7. UnknownIsReloaded'
    <2> SUFFICES ASSUME NEW x \in Published, x \notin knownQueries'
                 PROVE  updated[x] > now - Fudge
      BY DEF UnknownIsReloaded, Published, database
    <2>1. /\ x \in Id /\ updated[x] \in Nat /\ visibleSince[x] \in Nat /\ now \in Nat
          /\ mostRecentKnown \in Int
      BY DEF Published, TypeOK
    <2>2. x \notin q.rows OBVIOUS
    <2>3. updated[x] >= 1 /\ updated[x] >= visibleSince[x] - MaxLag BY DEF RowsAreFresh
    <2>4. CASE visibleSince[x] >= q.started
      BY <1>1, <2>1, <2>3, <2>4 DEF QueriesAreTimely, Query
    <2>5. CASE updated[x] <= q.since
      <3>1. ~ q.refresh BY <2>1, <2>3, <2>5 DEF QueriesAreTimely
      <3>2. x \notin knownQueries BY <3>1
      <3>3. updated[x] > mostRecentKnown BY <3>2 DEF UnknownIsReloaded
      <3>4. QED BY <1>1, <2>1, <2>3, <2>5, <3>3 DEF QueriesAreTimely, Query
    <2>6. QED BY <2>2, <2>4, <2>5 DEF SnapshotsAreComplete
  <1>8. QED BY <1>2, <1>3, <1>4, <1>5, <1>6, <1>7

\* A failed query leaves everything as it was.
LEMMA PopulateFailsInv == ASSUME IInv, NEW q \in queries, PopulateFails(q) PROVE IInv'
  <1> USE DEF IInv, PopulateFails
  <1>1. TypeOK' BY DEF TypeOK, Continue, database
  <1>2. RowsAreFresh' BY DEF RowsAreFresh, Published, database
  <1>3. AskedFromAfar' BY DEF AskedFromAfar
  <1>4. QueriesAreTimely' BY DEF QueriesAreTimely
  <1>5. SnapshotsAreComplete' BY DEF SnapshotsAreComplete, Published, database
  <1>6. UnknownIsReloaded' BY DEF UnknownIsReloaded, Published, database
  <1>7. QED BY <1>1, <1>2, <1>3, <1>4, <1>5, <1>6

\* The timer sends a query that is timely, and lets none grow too old.
LEMMA TickInv == ASSUME IInv, Tick PROVE IInv'
  <1> USE TimeAssumption, FudgeAssumption DEF IInv, Tick
  <1> DEFINE refresh == untilRefresh <= 0
             a == Ask(refresh, now + 1)
  <1>1. /\ a \in Query /\ a.started = now + 1 /\ ~a.taken /\ a.refresh = refresh
        /\ a.since = IF refresh THEN 0 ELSE mostRecentKnown
    BY DEF Ask, Since, Query, TypeOK
  <1>2. queries' = queries \cup {a} OBVIOUS
  <1> HIDE DEF a
  <1>3. TypeOK' BY <1>1, <1>2 DEF TypeOK, Countdown, database
  <1>4. RowsAreFresh' BY DEF RowsAreFresh, Published, database
  <1>5. AskedFromAfar' BY DEF AskedFromAfar, TypeOK
  <1>6. QueriesAreTimely'
    <2> SUFFICES ASSUME NEW r \in queries'
                 PROVE  /\ r.started <= now' /\ now' - r.started <= MaxDelay
                        /\ r.since <= 0 \/ r.since <= mostRecentKnown'
                        /\ r.refresh => r.since = 0
      BY DEF QueriesAreTimely
    <2>1. CASE r = a
      <3>1. now \in Nat /\ mostRecentKnown \in Int BY DEF TypeOK
      <3>2. r.started = now + 1 /\ (r.refresh => r.since = 0)
            /\ (r.since = 0 \/ r.since = mostRecentKnown)
        BY <2>1, <1>1
      <3>3. MaxDelay \in Nat BY DEF TimeAssumption
      <3>4. QED BY <3>1, <3>2, <3>3
    <2>2. CASE r \in queries
      <3>1. r \in Query BY <2>2 DEF TypeOK
      <3>2. QED BY <2>2, <3>1 DEF QueriesAreTimely, Query, TypeOK
    <2>3. QED BY <2>1, <2>2, <1>2
  <1>7. SnapshotsAreComplete'
    BY <1>1, <1>2 DEF SnapshotsAreComplete, Published, database
  <1>8. UnknownIsReloaded' BY DEF UnknownIsReloaded, Published, database
  <1>9. QED BY <1>3, <1>4, <1>5, <1>6, <1>7, <1>8

\* Every step keeps the invariant.
LEMMA NextInv == IInv /\ [Next]_vars => IInv'
  <1> SUFFICES ASSUME IInv, [Next]_vars PROVE IInv' OBVIOUS
  <1>1. ASSUME NEW id \in Id, Publish(id) PROVE IInv' BY <1>1, PublishInv
  <1>2. ASSUME NEW id \in Id, Remove(id) PROVE IInv' BY <1>2, RemoveInv
  <1>3. ASSUME NEW q \in queries, Select(q) PROVE IInv' BY <1>3, SelectInv
  <1>4. ASSUME NEW q \in queries, Populate(q) PROVE IInv' BY <1>4, PopulateInv
  <1>5. ASSUME NEW q \in queries, PopulateFails(q) PROVE IInv' BY <1>5, PopulateFailsInv
  <1>6. CASE FinishInit
    BY <1>6 DEF FinishInit, IInv, TypeOK, RowsAreFresh, AskedFromAfar, QueriesAreTimely,
                SnapshotsAreComplete, UnknownIsReloaded, Published, database
  <1>7. CASE Tick BY <1>7, TickInv
  <1>8. CASE UNCHANGED vars
    BY <1>8 DEF vars, IInv, TypeOK, RowsAreFresh, AskedFromAfar, QueriesAreTimely,
                SnapshotsAreComplete, UnknownIsReloaded, Published, database
  <1>9. QED BY <1>1, <1>2, <1>3, <1>4, <1>5, <1>6, <1>7, <1>8 DEF Next

\* The inductive invariant of the worker's id set and its running queries.
THEOREM Invariance == Spec => []IInv
  BY InitInv, NextInv, PTL DEF Spec

\* The type invariant: the countdown of the refresh cycle stays within its range.
THEOREM TypeCorrect == Spec => []TypeOK
  <1>1. IInv => TypeOK BY DEF IInv
  <1>2. QED BY Invariance, <1>1, PTL

\* MOST_RECENT_KNOWN never runs ahead of a published id this worker lacks: whatever
\* the order of answers, the next query asks for it.
THEOREM UnknownIsAlwaysReloaded == Spec => []UnknownIsReloaded
  <1>1. IInv => UnknownIsReloaded BY DEF IInv
  <1>2. QED BY Invariance, <1>1, PTL

\* A step drops no known id that has been published for longer than a query takes.
LEMMA StepKeepsKnown ==
    ASSUME IInv, [Next]_vars, NEW id \in Published, id \in knownQueries,
           visibleSince[id] < now - MaxDelay
    PROVE  id \in knownQueries'
  <1>1. ASSUME NEW q \in queries, Populate(q) PROVE id \in knownQueries'
    <2>1. CASE ~ q.refresh BY <1>1, <2>1 DEF Populate
    <2>2. CASE q.refresh
      <3>1. q \in Query BY DEF IInv, TypeOK
      <3>2. q.since = 0 /\ now - q.started <= MaxDelay
        BY <2>2 DEF IInv, QueriesAreTimely
      <3>3. updated[id] >= 1 BY DEF IInv, RowsAreFresh
      <3>4. /\ updated[id] \in Nat /\ visibleSince[id] \in Nat /\ now \in Nat
            /\ q.started \in Nat
        BY <3>1 DEF IInv, TypeOK, Published, Query
      <3>5. ~(visibleSince[id] >= q.started \/ updated[id] <= q.since)
        BY <3>2, <3>3, <3>4, TimeAssumption
      <3>6. q.taken BY <1>1 DEF Populate
      <3>7. id \in q.rows BY <3>5, <3>6 DEF IInv, SnapshotsAreComplete
      <3>8. QED BY <1>1, <3>7 DEF Populate
    <2>3. QED BY <2>1, <2>2
  <1>2. QED
    BY <1>1 DEF Next, Publish, Remove, Select, PopulateFails, FinishInit, Tick, vars

\* No refresh drops an id that has been published for longer than a query takes.
THEOREM KnownStays == Spec => StaysKnown
  <1> DEFINE Kept == \A id \in Published \cap knownQueries :
                         visibleSince[id] < now - MaxDelay => id \in knownQueries'
  <1>1. IInv /\ [Next]_vars => [Kept]_vars BY StepKeepsKnown
  <1>2. QED BY Invariance, <1>1, PTL DEF Spec, StaysKnown

-----------------------------------------------------------------------------
(***************************************************************************)
(* Serving requests.                                                       *)
(***************************************************************************)

At == {"idle", "cache", "lookup", "found", "resolved", "404", "503"}

\* The history variable, and the requests it is recorded in.
HeedTypeOK ==
    /\ unheeded \in [Id -> Nat]
    /\ req \in [Requests -> [at : At, id : Id \cup {None}, due : {"either", "known", "unknown"}]]

\* What was not heeded yet is as recent as the history says.
UnheededIsRecent ==
    \A id \in Published : unheeded[id] # Heeded => visibleSince[id] <= unheeded[id]

\* A published id that was heeded is known, and too old for a refresh to drop it.
HeededIsKnown ==
    \A id \in Published : unheeded[id] = Heeded =>
        id \in knownQueries /\ visibleSince[id] < now - MaxDelay

\* A removed id that was heeded is not known.
HeededIsGone ==
    \A id \in Id \ Published : unheeded[id] = Heeded => id \notin knownQueries

\* A running query whose rows hold a removed id was sent before the removal.
RowsOfOldQueries ==
    \A q \in queries : \A id \in q.rows \ Published :
        unheeded[id] # Heeded /\ q.started <= unheeded[id]

HeedInv ==
    /\ HeedTypeOK
    /\ UnheededIsRecent
    /\ HeededIsKnown
    /\ HeededIsGone
    /\ RowsOfOldQueries
    /\ RemovedIsRefused
    /\ PublishedIsKnown

-----------------------------------------------------------------------------
\* Serving requests leaves the known ids and the database to Prereg.
LEMMA ServeStep == [ServeNext]_allVars => [Next]_vars
  BY DEF ServeNext, allVars, Changes, Loaded, Keep, Preload, StartTimer, OnParams, Check,
         CacheGet, LookupQuery, CacheSet, Goes, Next

\* PreregRequests implements Prereg, to which it adds the requests.
THEOREM ServeImplementsPrereg == ServeSpec => Spec
  <1>1. ServeInit => Init BY DEF ServeInit
  <1>2. QED BY <1>1, ServeStep, PTL DEF ServeSpec, Spec

\* The invariant of Prereg, while requests are served.
LEMMA ServeInvariance == ServeSpec => []IInv
  BY ServeImplementsPrereg, Invariance, PTL

\* At start-up nothing was heeded.
LEMMA HeedInit == ServeInit => HeedInv
  <1> SUFFICES ASSUME ServeInit PROVE HeedInv OBVIOUS
  <1>1. now = 1 /\ visibleSince = [id \in Id |-> 1] /\ unheeded = [id \in Id |-> 1]
    BY DEF ServeInit, Init
  <1>2. \A q \in queries : q.rows = {} BY DEF ServeInit, Init
  <1>3. \A r \in Requests : req[r].due = "either" BY DEF ServeInit, Idle
  <1>4. HeedTypeOK BY <1>1 DEF HeedTypeOK, ServeInit, Idle, At
  <1>5. \A id \in Id : unheeded[id] = 1 /\ visibleSince[id] = 1 BY <1>1
  <1>5a. UnheededIsRecent /\ HeededIsKnown /\ HeededIsGone
    BY <1>5 DEF UnheededIsRecent, HeededIsKnown, HeededIsGone, Published, Heeded
  <1>6. RowsOfOldQueries BY <1>2 DEF RowsOfOldQueries
  <1>7. RemovedIsRefused /\ PublishedIsKnown
    BY <1>3 DEF RemovedIsRefused, PublishedIsKnown
  <1>8. QED BY <1>4, <1>5a, <1>6, <1>7 DEF HeedInv

\* A change to a row is the latest the history knows of.
LEMMA ChangesHeed == ASSUME IInv, HeedInv, NEW id \in Id, Changes(id) PROVE HeedInv'
  <1> USE DEF Changes, HeedInv, Heeded
  <1>1. /\ now \in Nat /\ now >= 1 /\ unheeded' = [unheeded EXCEPT ![id] = now]
        /\ UNCHANGED <<now, knownQueries, queries, req>>
        /\ \A q \in queries : q \in Query /\ q.started <= now
    BY DEF IInv, TypeOK, Publish, Remove, serving, QueriesAreTimely
  <1>2. \A x \in Id \ {id} : /\ updated'[x] = updated[x] /\ unheeded'[x] = unheeded[x]
                             /\ visibleSince'[x] = visibleSince[x]
    BY <1>1 DEF IInv, TypeOK, Publish, Remove, HeedTypeOK
  <1>3. unheeded'[id] = now /\ visibleSince'[id] \in Nat /\ visibleSince'[id] <= now
    BY <1>1 DEF IInv, TypeOK, Publish, Remove, HeedTypeOK
  <1>4. HeedTypeOK' BY <1>1 DEF HeedTypeOK
  <1>5. UnheededIsRecent' BY <1>2, <1>3 DEF UnheededIsRecent, Published
  <1>6. HeededIsKnown' BY <1>1, <1>2, <1>3 DEF HeededIsKnown, Published
  <1>7. HeededIsGone' BY <1>1, <1>2, <1>3 DEF HeededIsGone, Published
  <1>8. RowsOfOldQueries'
    BY <1>1, <1>2, <1>3 DEF RowsOfOldQueries, Published, Query
  <1>9. RemovedIsRefused' /\ PublishedIsKnown'
    BY <1>1 DEF RemovedIsRefused, PublishedIsKnown
  <1>10. QED BY <1>4, <1>5, <1>6, <1>7, <1>8, <1>9

\* A load that must notice a row brings the worker up to date with it, and no query that
\* runs at the same time undoes it.
LEMMA LoadedHeed == ASSUME IInv, HeedInv, NEW q \in queries, Loaded(q) PROVE HeedInv'
  <1> USE TimeAssumption DEF HeedInv, Heeded
  <1>1. /\ q \in Query /\ q.taken /\ queries' = queries \ {q}
        /\ knownQueries' = (IF q.refresh THEN {} ELSE knownQueries) \cup q.rows
        /\ unheeded' = [id \in Id |-> IF Notices(q, id) THEN 0 ELSE unheeded[id]]
        /\ UNCHANGED <<now, updated, visibleSince, req>> /\ Published' = Published
    BY DEF Loaded, Populate, database, serving, IInv, TypeOK, Published
  <1>2. /\ now \in Nat /\ updated \in [Id -> Nat] /\ visibleSince \in [Id -> Nat]
        /\ mostRecentKnown \in Int /\ queries \subseteq Query
    BY DEF IInv, TypeOK
  <1>3. Populate(q) BY DEF Loaded
  <1>4. HeedTypeOK' BY <1>1 DEF HeedTypeOK
  <1>5. UnheededIsRecent' BY <1>1 DEF UnheededIsRecent, Published
  <1>6. HeededIsKnown'
    <2> SUFFICES ASSUME NEW id \in Published, unheeded'[id] = 0
                 PROVE  id \in knownQueries' /\ visibleSince[id] < now - MaxDelay
      BY <1>1 DEF HeededIsKnown
    <2>1. id \in Id BY DEF Published
    <2>2. CASE unheeded[id] = 0
      <3>1. id \in knownQueries /\ visibleSince[id] < now - MaxDelay
        BY <2>2 DEF HeededIsKnown
      <3>2. [Next]_vars BY <1>3 DEF Next
      <3>3. QED BY <3>1, <3>2, StepKeepsKnown
    <2>3. CASE unheeded[id] # 0
      <3>1. q.started > unheeded[id] + MaxDelay BY <1>1, <2>1, <2>3 DEF Notices
      <3>2. visibleSince[id] <= unheeded[id] BY <2>3 DEF UnheededIsRecent
      <3>3. q.started \in Nat /\ q.since \in Int /\ unheeded[id] \in Nat
        BY <1>1, <2>1 DEF Query, HeedTypeOK
      <3>4. q.started <= now BY DEF IInv, QueriesAreTimely
      <3>5. visibleSince[id] < now - MaxDelay /\ visibleSince[id] < q.started
        BY <1>2, <2>1, <3>1, <3>2, <3>3, <3>4
      <3>6. CASE id \in q.rows BY <1>1, <3>5, <3>6
      <3>7. CASE id \notin q.rows
        <4>1. updated[id] <= q.since
          BY <1>1, <1>2, <2>1, <3>3, <3>5, <3>7 DEF IInv, SnapshotsAreComplete
        <4>2. updated[id] >= 1 BY DEF IInv, RowsAreFresh
        <4>3. ~q.refresh /\ q.since <= mostRecentKnown
          BY <1>2, <2>1, <3>3, <4>1, <4>2 DEF IInv, QueriesAreTimely
        <4>4. ~(updated[id] > mostRecentKnown) BY <1>2, <2>1, <3>3, <4>1, <4>3
        <4>5. id \in knownQueries BY <4>4 DEF IInv, UnknownIsReloaded
        <4>6. QED BY <1>1, <3>5, <4>3, <4>5
      <3>8. QED BY <3>6, <3>7
    <2>4. QED BY <2>2, <2>3
  <1>7. HeededIsGone' /\ RowsOfOldQueries'
    <2>1. ASSUME NEW id \in Id \ Published, Notices(q, id), unheeded[id] # 0,
                 NEW p \in queries, p.started >= q.started - MaxDelay
          PROVE  id \notin p.rows
      <3>1. q.started > unheeded[id] + MaxDelay BY <2>1 DEF Notices
      <3>2. unheeded[id] \in Nat /\ p.started \in Nat /\ q.started \in Nat
        BY <1>2 DEF HeedTypeOK, Query
      <3>3. ~(p.started <= unheeded[id]) BY <2>1, <3>1, <3>2
      <3>4. QED BY <2>1, <3>3 DEF RowsOfOldQueries
    <2>2. \A p \in queries : p.started >= q.started - MaxDelay
      <3> SUFFICES ASSUME NEW p \in queries PROVE p.started >= q.started - MaxDelay OBVIOUS
      <3>1. p.started \in Nat /\ q.started \in Nat BY <1>2 DEF Query
      <3>2. q.started <= now /\ now - p.started <= MaxDelay BY DEF IInv, QueriesAreTimely
      <3>3. QED BY <1>2, <3>1, <3>2
    <2>3. ASSUME NEW id \in Id \ Published, Notices(q, id) PROVE q.refresh
      BY <2>3 DEF Notices
    <2>4. ASSUME NEW id \in Id \ Published, unheeded'[id] = 0 PROVE id \notin knownQueries'
      <3>1. CASE unheeded[id] = 0
        <4>1. id \notin knownQueries BY <3>1 DEF HeededIsGone
        <4>2. id \notin q.rows BY <3>1 DEF RowsOfOldQueries
        <4>3. QED BY <1>1, <4>1, <4>2
      <3>2. CASE unheeded[id] # 0
        <4>1. Notices(q, id) BY <1>1, <2>4, <3>2
        <4>2. id \notin q.rows BY <2>1, <2>2, <3>2, <4>1
        <4>3. QED BY <1>1, <2>3, <4>1, <4>2
      <3>3. QED BY <3>1, <3>2
    <2>5. ASSUME NEW p \in queries', NEW id \in p.rows \ Published
          PROVE  unheeded'[id] # 0 /\ p.started <= unheeded'[id]
      <3>1. p \in queries /\ id \in Id BY <1>1, <1>2 DEF Query
      <3>2. unheeded[id] # 0 /\ p.started <= unheeded[id]
        BY <2>5, <3>1 DEF RowsOfOldQueries
      <3>3. ~Notices(q, id) BY <2>1, <2>2, <2>5, <3>1, <3>2
      <3>4. QED BY <1>1, <3>1, <3>2, <3>3
    <2>6. QED BY <1>1, <2>4, <2>5 DEF HeededIsGone, RowsOfOldQueries
  <1>8. RemovedIsRefused' /\ PublishedIsKnown'
    BY <1>1 DEF RemovedIsRefused, PublishedIsKnown
  <1>9. QED BY <1>4, <1>5, <1>6, <1>7, <1>8

\* The rest of Prereg changes what no request and no row was heeded for: a snapshot holds
\* no removed id, and time only ages what was published.
LEMMA KeepHeed ==
    ASSUME IInv, HeedInv, [Next]_vars, UNCHANGED <<database, knownQueries, req, unheeded>>,
           now' \in Nat, now <= now',
           \A q \in queries' : q \in queries \/ q.rows \subseteq Published
    PROVE  HeedInv'
  <1> USE DEF HeedInv, Heeded, database
  <1>1. Published' = Published /\ Published \subseteq Id BY DEF Published
  <1>2. HeedTypeOK' BY DEF HeedTypeOK
  <1>3. UnheededIsRecent' BY <1>1 DEF UnheededIsRecent
  <1>4. HeededIsKnown'
    BY <1>1, TimeAssumption DEF HeededIsKnown, IInv, TypeOK
  <1>5. HeededIsGone' BY <1>1 DEF HeededIsGone
  <1>6. RowsOfOldQueries' BY <1>1 DEF RowsOfOldQueries
  <1>7. RemovedIsRefused' /\ PublishedIsKnown' BY DEF RemovedIsRefused, PublishedIsKnown
  <1>8. QED BY <1>2, <1>3, <1>4, <1>5, <1>6, <1>7

\* What a request is told when it comes in is what the worker then knows.
LEMMA CheckHeed == ASSUME HeedInv, NEW r \in Requests, Check(r) PROVE HeedInv'
  <1> USE DEF HeedInv, Heeded, Check
  <1>1. PICK id \in Id :
            req' = [req EXCEPT ![r] = [at |-> IF Accepts(id) THEN "cache" ELSE "404",
                                       id |-> id, due |-> Due(id)]]
    OBVIOUS
  <1>2. Due(id) \in {"either", "known", "unknown"} BY DEF Due
  <1>3. UNCHANGED <<now, updated, visibleSince, knownQueries, queries, unheeded>>
    BY DEF vars, database
  <1>4. HeedTypeOK'
    <2> DEFINE new == [at |-> IF Accepts(id) THEN "cache" ELSE "404", id |-> id, due |-> Due(id)]
    <2>1. new \in [at : At, id : Id \cup {None}, due : {"either", "known", "unknown"}]
      BY <1>2 DEF At
    <2>2. req' = [req EXCEPT ![r] = new] BY <1>1
    <2> HIDE DEF new
    <2>3. QED BY <2>1, <2>2 DEF HeedTypeOK
  <1>5. UnheededIsRecent' /\ HeededIsKnown' /\ HeededIsGone' /\ RowsOfOldQueries'
    BY <1>3 DEF UnheededIsRecent, HeededIsKnown, HeededIsGone, RowsOfOldQueries, Published
  <1>6. Due(id) = "unknown" => ~Accepts(id)
    BY DEF Due, Accepts, HeededIsGone, Published
  <1>7. Due(id) = "known" => Accepts(id)
    BY DEF Due, Accepts, HeededIsKnown
  <1>8. RemovedIsRefused' BY <1>1, <1>6 DEF RemovedIsRefused, HeedTypeOK
  <1>9. PublishedIsKnown' BY <1>1, <1>7 DEF PublishedIsKnown, HeedTypeOK
  <1>10. QED BY <1>4, <1>5, <1>8, <1>9

\* A request that was refused stays so, and no other is refused as unknown later.
LEMMA GoesHeed ==
    ASSUME HeedInv, NEW r \in Requests, req[r].at # "404",
           NEW at \in At, at # "404", req' = [req EXCEPT ![r].at = at],
           UNCHANGED <<vars, unheeded>>
    PROVE  HeedInv'
  <1> USE DEF HeedInv, Heeded
  <1>1. UNCHANGED <<now, updated, visibleSince, knownQueries, queries, unheeded>>
    BY DEF vars, database
  <1>2. HeedTypeOK' BY DEF HeedTypeOK
  <1>3. UnheededIsRecent' /\ HeededIsKnown' /\ HeededIsGone' /\ RowsOfOldQueries'
    BY <1>1 DEF UnheededIsRecent, HeededIsKnown, HeededIsGone, RowsOfOldQueries, Published
  <1>4. RemovedIsRefused' BY DEF RemovedIsRefused, HeedTypeOK
  <1>5. PublishedIsKnown' BY DEF PublishedIsKnown, HeedTypeOK
  <1>6. QED BY <1>2, <1>3, <1>4, <1>5

\* Every step keeps the invariant.
LEMMA HeedNext == IInv /\ HeedInv /\ [ServeNext]_allVars => HeedInv'
  <1> SUFFICES ASSUME IInv, HeedInv, [ServeNext]_allVars PROVE HeedInv' OBVIOUS
  <1>1. [Next]_vars BY ServeStep
  <1>2. now \in Nat /\ queries \subseteq Query BY DEF IInv, TypeOK
  <1>3. ASSUME NEW id \in Id, Changes(id) PROVE HeedInv' BY <1>3, ChangesHeed
  <1>4. ASSUME NEW q \in queries, Loaded(q) PROVE HeedInv' BY <1>4, LoadedHeed
  <1>5. ASSUME NEW q \in queries, Select(q), Keep PROVE HeedInv'
    <2>1. \A p \in queries' : p \in queries \/ p.rows \subseteq Published
      BY <1>5 DEF Select, Snapshot
    <2>2. QED BY <1>1, <1>2, <1>5, <2>1, KeepHeed DEF Select, Keep, serving
  <1>6. ASSUME NEW q \in queries, PopulateFails(q), Keep PROVE HeedInv'
    BY <1>1, <1>2, <1>6, KeepHeed DEF PopulateFails, Keep, serving
  <1>7. CASE Preload
    BY <1>1, <1>2, <1>7, KeepHeed DEF Preload, vars
  <1>8. CASE StartTimer
    BY <1>1, <1>2, <1>8, KeepHeed DEF StartTimer, FinishInit
  <1>9. CASE Tick /\ Keep
    <2>1. \A p \in queries' : p \in queries \/ p.rows \subseteq Published
      BY <1>9 DEF Tick, Ask
    <2>2. QED BY <1>1, <1>2, <1>9, <2>1, KeepHeed DEF Tick, Keep, serving
  <1>10. ASSUME NEW r \in Requests, OnParams(r) PROVE HeedInv'
    <2>1. CASE Check(r) BY <2>1, CheckHeed
    <2>2. CASE CacheGet(r)
      <3>1. req[r].at # "404" /\ (Goes(r, "resolved") \/ Goes(r, "lookup"))
        BY <2>2 DEF CacheGet
      <3>2. QED BY <3>1, GoesHeed DEF Goes, At
    <2>3. CASE LookupQuery(r)
      <3>1. req[r].at # "404" /\ (Goes(r, "found") \/ Goes(r, "503"))
        BY <2>3 DEF LookupQuery
      <3>2. QED BY <3>1, GoesHeed DEF Goes, At
    <2>4. CASE CacheSet(r)
      <3>1. req[r].at # "404" /\ Goes(r, "resolved") BY <2>4 DEF CacheSet
      <3>2. QED BY <3>1, GoesHeed DEF Goes, At
    <2>5. QED BY <1>10, <2>1, <2>2, <2>3, <2>4 DEF OnParams
  <1>11. CASE UNCHANGED allVars
    BY <1>1, <1>2, <1>11, KeepHeed DEF allVars, vars, serving
  <1>12. QED BY <1>3, <1>4, <1>5, <1>6, <1>7, <1>8, <1>9, <1>10, <1>11 DEF ServeNext

\* The invariant of the requests.
LEMMA HeedInvariance == ServeSpec => []HeedInv
  BY ServeInvariance, HeedInit, HeedNext, PTL DEF ServeSpec

-----------------------------------------------------------------------------
\* Removing a row takes effect: a request that comes in after a full refresh has had to
\* notice it is refused, whatever the cache holds and whatever was answered late.
THEOREM RemovalTakesEffect == ServeSpec => []RemovedIsRefused
  <1>1. HeedInv => RemovedIsRefused BY DEF HeedInv
  <1>2. QED BY HeedInvariance, <1>1, PTL

\* Committing a row takes effect in the same way, after any load.
THEOREM PublicationTakesEffect == ServeSpec => []PublishedIsKnown
  <1>1. HeedInv => PublishedIsKnown BY DEF HeedInv
  <1>2. QED BY HeedInvariance, <1>1, PTL

\* While requests are served, the next query asks for every published id that is lacking.
THEOREM ServeReloadsUnknown == ServeSpec => []UnknownIsReloaded
  BY ServeImplementsPrereg, UnknownIsAlwaysReloaded, PTL

\* While requests are served, no refresh drops an id that has been published for long.
THEOREM ServeKeepsKnown == ServeSpec => StaysKnown
  BY ServeImplementsPrereg, KnownStays

-----------------------------------------------------------------------------
(***************************************************************************)
(* The cache of query texts.                                               *)
(***************************************************************************)

\* The cache is a memory store of ids, and whoever asks it asks for one.
CacheInv ==
    /\ preload \in {None} \cup SUBSET Id
    /\ cache \in LRU(Id, Id, MaxCacheSize)
    /\ \A r \in Requests : req[r].at # "idle" => req[r].id \in Id
    /\ unheeded \in [Id -> 0 .. now]

\* What is preloaded into a cache that requests filled leaves a cache.
LEMMA WithAllOne ==
    ASSUME cache \in LRU(Id, Id, MaxCacheSize), NEW S \in SUBSET Id, NEW c \in WithAll(S)
    PROVE  c \in LRU(Id, Id, MaxCacheSize)
  <1>1. IsFiniteSet(Id) /\ MaxCacheSize \in Nat \ {0} BY CacheAssumption
  <1>2. PICK T : T = S \cup Keys(cache) OBVIOUS
  <1>3. T \in SUBSET Id
    <2>1. \A i \in DOMAIN cache : cache[i].key \in Id BY LRUFacts
    <2>2. QED BY <1>2, <2>1 DEF Keys
  <1>4. PICK v : v = [id \in T |-> id] OBVIOUS
  <1>5. \A id \in T : v[id] \in Id BY <1>3, <1>4
  <1>6. EntriesOf(T, v) = {[key |-> id, val |-> id] : id \in S \cup Keys(cache)}
    BY <1>2, <1>4 DEF EntriesOf
  <1>7. c \in Filled(EntriesOf(T, v), MaxCacheSize) BY <1>6 DEF WithAll
  <1>8. QED BY <1>1, <1>3, <1>5, <1>7, FilledOne

LEMMA CacheInit == ServeInit => CacheInv
  <1> SUFFICES ASSUME ServeInit PROVE CacheInv OBVIOUS
  <1>1. cache \in LRU(Id, Id, MaxCacheSize) BY CacheAssumption DEF ServeInit, LRU
  <1>2. unheeded \in [Id -> 0 .. now] BY DEF ServeInit, Init
  <1>3. QED BY <1>1, <1>2 DEF CacheInv, ServeInit, Idle

\* A step of a request but its first, with what the cache then is.
LEMMA GoesCache ==
    ASSUME CacheInv, HeedTypeOK, NEW r \in Requests, req[r].at # "idle", NEW at, Goes(r, at),
           cache' \in LRU(Id, Id, MaxCacheSize)
    PROVE  CacheInv'
  <1>1. req' = [req EXCEPT ![r].at = at] /\ UNCHANGED <<preload, unheeded, now>>
    BY DEF Goes, vars
  <1>2. \A q \in Requests : /\ req'[q].id = req[q].id
                            /\ q # r => req'[q].at = req[q].at
    BY <1>1 DEF HeedTypeOK
  <1>3. QED BY <1>1, <1>2 DEF CacheInv

LEMMA CacheNext ==
    IInv /\ HeedInv /\ CacheInv /\ [ServeNext]_allVars => CacheInv'
  <1> SUFFICES ASSUME IInv, HeedInv, CacheInv, [ServeNext]_allVars PROVE CacheInv' OBVIOUS
  <1> USE DEF CacheInv
  <1>1. HeedTypeOK /\ now \in Nat /\ now >= 1 BY DEF HeedInv, IInv, TypeOK
  <1>2. MaxCacheSize \in Nat \ {0} BY CacheAssumption
  <1>3. ASSUME UNCHANGED <<serving, unheeded>>, now' = now \/ now' = now + 1 PROVE CacheInv'
    <2>1. unheeded' \in [Id -> 0 .. now'] BY <1>1, <1>3
    <2>2. QED BY <1>3, <2>1 DEF serving
  <1>4. ASSUME NEW id \in Id, Changes(id) PROVE CacheInv'
    <2>1. now' = now /\ UNCHANGED serving /\ unheeded' = [unheeded EXCEPT ![id] = now]
      BY <1>4 DEF Changes, Publish, Remove
    <2>2. unheeded' \in [Id -> 0 .. now'] BY <1>1, <2>1
    <2>3. QED BY <2>1, <2>2 DEF serving
  <1>5. ASSUME NEW q \in queries, Loaded(q) PROVE CacheInv'
    <2>1. /\ now' = now /\ UNCHANGED serving
          /\ unheeded' = [id \in Id |-> IF Notices(q, id) THEN Heeded ELSE unheeded[id]]
      BY <1>5 DEF Loaded, Populate
    <2>2. unheeded' \in [Id -> 0 .. now'] BY <1>1, <2>1 DEF Heeded
    <2>3. QED BY <2>1, <2>2 DEF serving
  <1>6. ASSUME NEW q \in queries, Select(q) \/ PopulateFails(q), Keep PROVE CacheInv'
    BY <1>3, <1>6 DEF Select, PopulateFails, Keep
  <1>7. CASE Preload
    <2>1. preload' \in SUBSET Id BY <1>7 DEF Preload, Latest, Published
    <2>2. QED BY <1>7, <2>1 DEF Preload, vars
  <1>8. CASE StartTimer
    <2>1. /\ cache' = cache \/ (preload # None /\ cache' \in WithAll(preload))
          /\ preload' = None /\ UNCHANGED <<req, unheeded, now>>
      BY <1>8 DEF StartTimer, FinishInit
    <2>2. cache' \in LRU(Id, Id, MaxCacheSize) BY <2>1, WithAllOne
    <2>3. QED BY <2>1, <2>2
  <1>9. CASE Tick /\ Keep BY <1>3, <1>9 DEF Tick, Keep
  <1>10. ASSUME NEW r \in Requests, OnParams(r) PROVE CacheInv'
    <2>1. CASE Check(r)
      <3>1. PICK id \in Id :
                req' = [req EXCEPT ![r] = [at |-> IF Accepts(id) THEN "cache" ELSE "404",
                                           id |-> id, due |-> Due(id)]]
        BY <2>1 DEF Check
      <3>2. UNCHANGED <<preload, cache, unheeded, now>> BY <2>1 DEF Check, vars
      <3>3. \A q \in Requests : req'[q] = req[q] \/ req'[q].id = id
        BY <1>1, <3>1 DEF HeedTypeOK
      <3>4. QED BY <3>2, <3>3
    <2>2. CASE CacheGet(r)
      <3>1. PICK at : Goes(r, at) BY <2>2 DEF CacheGet
      <3>2. req[r].at # "idle" /\ cache' = Touch(cache, req[r].id, MaxCacheSize)
        BY <2>2 DEF CacheGet
      <3>3. cache' \in LRU(Id, Id, MaxCacheSize) BY <1>2, <3>2, TouchOne
      <3>4. QED BY <1>1, <3>1, <3>2, <3>3, GoesCache
    <2>3. CASE LookupQuery(r)
      <3>1. PICK at : Goes(r, at) BY <2>3 DEF LookupQuery
      <3>2. req[r].at # "idle" /\ cache' = cache BY <2>3 DEF LookupQuery
      <3>3. QED BY <1>1, <3>1, <3>2, GoesCache
    <2>4. CASE CacheSet(r)
      <3>1. Goes(r, "resolved") BY <2>4 DEF CacheSet
      <3>2. req[r].at # "idle" /\ cache' = Put(cache, req[r].id, req[r].id, MaxCacheSize)
        BY <2>4 DEF CacheSet
      <3>3. cache' \in LRU(Id, Id, MaxCacheSize) BY <1>2, <3>2, PutOne
      <3>4. QED BY <1>1, <3>1, <3>2, <3>3, GoesCache
    <2>5. QED BY <1>10, <2>1, <2>2, <2>3, <2>4 DEF OnParams
  <1>11. CASE UNCHANGED allVars BY <1>3, <1>11 DEF allVars, vars
  <1>12. QED BY <1>4, <1>5, <1>6, <1>7, <1>8, <1>9, <1>10, <1>11 DEF ServeNext

\* Whatever requests and the preloading put into the cache at a time, it never holds
\* an id twice, nor more than it has room for.
THEOREM ServeTypeCorrect == ServeSpec => []ServeTypeOK
  <1>1. ASSUME IInv, HeedInv, CacheInv PROVE ServeTypeOK
    <2>1. /\ Len(cache) <= MaxCacheSize /\ Keys(cache) \subseteq Id
          /\ \A i, j \in DOMAIN cache : cache[i].key = cache[j].key => i = j
      <3>1. /\ Len(cache) <= MaxCacheSize
            /\ \A i \in DOMAIN cache : cache[i].key \in Id
            /\ \A i, j \in DOMAIN cache : cache[i].key = cache[j].key => i = j
        BY <1>1, LRUFacts DEF CacheInv
      <3>2. QED BY <3>1 DEF Keys
    <2>2. QED
      BY <1>1, <2>1 DEF ServeTypeOK, IInv, HeedInv, HeedTypeOK, CacheInv, At
  <1>2. QED BY ServeInvariance, HeedInvariance, CacheInit, CacheNext, <1>1, PTL DEF ServeSpec
================================================================================
