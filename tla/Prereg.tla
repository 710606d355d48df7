-------------------------------- MODULE Prereg --------------------------------
(***************************************************************************)
(* How one worker keeps its set of preregistered query ids in step with    *)
(* the database (packages/prereg/src/index.ts): it loads them at start-up, *)
(* asks for the recently updated ones on every tick of a timer and, once   *)
(* in a while, for all.  Nothing keeps a tick from finding the query of    *)
(* the tick before still running, and answers come in any order.           *)
(*                                                                         *)
(* Time is counted in ticks.                                               *)
(***************************************************************************)
EXTENDS Integers

CONSTANTS
    Id,           \* the preregistered query ids
    RefreshEvery, \* ticks between full refreshes (refreshEvery)
    Fudge,        \* the fudge factor of populateKnownQueries
    MaxDelay,     \* assumed: the longest a query to the database takes
    MaxLag,       \* assumed: the longest from a row's update time to its commit
    MaxTime       \* bound: the time the model runs for

Absent == 0 \* the update time of an id that has no row

ASSUME TimeAssumption ==
    {RefreshEvery, Fudge, MaxDelay, MaxLag} \subseteq Nat /\ MaxTime \in Nat \ {0}

\* 5000 seconds are more than a query and a transaction take together.
ASSUME FudgeAssumption == MaxDelay + MaxLag < Fudge

VARIABLES
    now,             \* the time
    updated,         \* updated[id]: the update time of its row, or Absent
    visibleSince,    \* history: when the row of id was committed
    phase,           \* where onPluginInit is: "loading", "preloading", "running"
    knownQueries,    \* the ids this worker knows
    mostRecentKnown, \* MOST_RECENT_KNOWN
    untilRefresh,    \* ticks until the next full refresh
    queries          \* the SELECTs of populateKnownQueries that are running

database == <<updated, visibleSince>>
vars == <<now, database, phase, knownQueries, mostRecentKnown, untilRefresh, queries>>

Published == {id \in Id : updated[id] # Absent}

\* rows holds {} until the database has taken its snapshot.
Query == [refresh : BOOLEAN, since : Int, started : Nat, taken : BOOLEAN, rows : SUBSET Id]

-----------------------------------------------------------------------------
(* The database.                                                           *)

\* A row becomes visible; its update time is that of the transaction's start.
Publish(id) ==
    /\ updated[id] = Absent
    /\ \E time \in 1 .. now :
           time >= now - MaxLag /\ updated' = [updated EXCEPT ![id] = time]
    /\ visibleSince' = [visibleSince EXCEPT ![id] = now]
    /\ UNCHANGED <<now, phase, knownQueries, mostRecentKnown, untilRefresh, queries>>

Remove(id) ==
    /\ updated[id] # Absent
    /\ updated' = [updated EXCEPT ![id] = Absent]
    /\ UNCHANGED <<now, visibleSince, phase, knownQueries, mostRecentKnown, untilRefresh,
                   queries>>

\* SELECT id FROM t_graphql_operations WHERE extract(epoch from updated) > $1
Snapshot(since) == {id \in Published : updated[id] > since}

Select(q) ==
    /\ ~q.taken
    /\ queries' = (queries \ {q}) \cup
           {[refresh |-> q.refresh, since |-> q.since, started |-> q.started,
             taken |-> TRUE, rows |-> Snapshot(q.since)]}
    /\ UNCHANGED <<now, database, phase, knownQueries, mostRecentKnown, untilRefresh>>

-----------------------------------------------------------------------------
(* populateKnownQueries.                                                   *)

SinceAlwaysRecent(refresh) == mostRecentKnown

\* What $1 is: a refresh asks for every row.
Since(refresh) == IF refresh THEN 0 ELSE mostRecentKnown

Ask(refresh, time) ==
    [refresh |-> refresh, since |-> Since(refresh), started |-> time,
     taken |-> FALSE, rows |-> {}]

\* After the first load the cache is preloaded; whether that works makes no difference.
Continue == phase' = IF phase = "loading" THEN "preloading" ELSE phase

NewMostRecentUnfudged == now

NewMostRecent == now - Fudge

PopulateKeeping(q) ==
    /\ q.taken
    /\ knownQueries' = knownQueries \cup q.rows
    /\ mostRecentKnown' = NewMostRecent
    /\ queries' = queries \ {q}
    /\ Continue
    /\ UNCHANGED <<now, database, untilRefresh>>

\* The query is answered; a refresh clears the set and fills it at once.
Populate(q) ==
    /\ q.taken
    /\ knownQueries' = (IF q.refresh THEN {} ELSE knownQueries) \cup q.rows
    /\ mostRecentKnown' = NewMostRecent
    /\ queries' = queries \ {q}
    /\ Continue
    /\ UNCHANGED <<now, database, untilRefresh>>

\* The query fails: it is logged, and the caller is told of nothing.
PopulateFails(q) ==
    /\ queries' = queries \ {q}
    /\ Continue
    /\ UNCHANGED <<now, database, knownQueries, mostRecentKnown, untilRefresh>>

-----------------------------------------------------------------------------
(* onPluginInit and its timer.                                             *)

Init ==
    /\ now = 1
    /\ updated \in [Id -> {Absent, 1}]
    /\ visibleSince = [id \in Id |-> 1]
    /\ phase = "loading"
    /\ knownQueries = {}
    /\ mostRecentKnown = 0
    /\ untilRefresh = RefreshEvery
    /\ queries = {[refresh |-> FALSE, since |-> 0, started |-> 1, taken |-> FALSE,
                   rows |-> {}]}

\* The cache is preloaded, or that failed: the timer starts, and the stage is ready.
FinishInit ==
    /\ phase = "preloading"
    /\ phase' = "running"
    /\ UNCHANGED <<now, database, knownQueries, mostRecentKnown, untilRefresh, queries>>

CountdownNoReset(refresh) == untilRefresh - 1

Countdown(refresh) == IF refresh THEN RefreshEvery ELSE untilRefresh - 1

\* The timer ticks, unless a query would then take longer than any does.
Tick ==
    /\ phase = "running"
    /\ now < MaxTime
    /\ \A q \in queries : now + 1 - q.started <= MaxDelay
    /\ now' = now + 1
    /\ LET refresh == untilRefresh <= 0
       IN  /\ untilRefresh' = Countdown(refresh)
           /\ queries' = queries \cup {Ask(refresh, now + 1)}
    /\ UNCHANGED <<database, phase, knownQueries, mostRecentKnown>>

Next ==
    \/ \E id \in Id : Publish(id) \/ Remove(id)
    \/ \E q \in queries : Select(q) \/ Populate(q) \/ PopulateFails(q)
    \/ FinishInit
    \/ Tick

Spec == Init /\ [][Next]_vars

-----------------------------------------------------------------------------
(* Properties.                                                             *)

\* Every variable has its type, and the countdown never leaves its range.
TypeOK ==
    /\ now \in 1 .. MaxTime
    /\ updated \in [Id -> 0 .. now]
    /\ visibleSince \in [Id -> 1 .. now]
    /\ phase \in {"loading", "preloading", "running"}
    /\ knownQueries \subseteq Id
    /\ mostRecentKnown \in Int
    /\ untilRefresh \in 0 .. RefreshEvery
    /\ queries \subseteq Query

\* What the fudge factor is for: a published query this worker does not know, be it
\* that it was committed late or that a late refresh dropped it, is always recent
\* enough for the next query to ask for it.
UnknownIsReloaded == \A id \in Published \ knownQueries : updated[id] > mostRecentKnown

\* A known query is dropped while it is published only by a refresh that ran before
\* it was committed: one published for longer than a query takes is never dropped.
StaysKnown ==
    [][\A id \in Published \cap knownQueries :
           visibleSince[id] < now - MaxDelay => id \in knownQueries']_vars
===============================================================================
