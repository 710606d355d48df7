-------------------------- MODULE ServerClusterProofs --------------------------
(***************************************************************************)
(* Theorems about ServerCluster, for every number of workers, crashes,     *)
(* requests and signals, with service overrides and without.               *)
(*                                                                         *)
(* What the primary knows of a worker is behind what the worker is; IInv   *)
(* says how far, and what cannot have happened before the first signal.    *)
(***************************************************************************)
EXTENDS ServerCluster, FiniteSetTheorems, TLAPS

\* Dead workers that did not leave in order, and those of them the primary knows of.
Crashed == {w \in Worker : proc[w] = "dead" /\ w \notin graceful}
Replaced == {w \in Crashed : "exit" \in seen[w]}

\* Workers that died and whose exit is yet to be handled.
Due == {w \in Worker : proc[w] = "dead" /\ "exit" \notin seen[w]}

\* The workers are those that were forked; the others have left no trace.
Born ==
    \A w \in Worker :
        /\ w \in 1 .. forks <=> proc[w] # "unborn"
        /\ w \in unheard => "exit" \in seen[w]
        /\ proc[w] \in {"unborn", "starting"} => server[w] = "closed"
        /\ server[w] \in {"closed", "opening"} \/ proc[w] \in {"unborn", "starting", "dead"} =>
              inflight[w] = 0

\* The primary learns of an exit or a disconnect after it happened.
EventsAreTrue ==
    \A w \in Worker :
        /\ "exit" \in seen[w] => proc[w] = "dead"
        /\ "disconnect" \in seen[w] => proc[w] \in {"draining", "dead"}
        /\ proc[w] = "draining" => w \in graceful

\* Each fork beyond the first ones answers a crash of its own.
ForksAreCounted ==
    /\ primary = "forking" => forks <= Parallelism
    /\ primary = "running" => forks >= Parallelism
    /\ forks <= Parallelism \/ forks <= Parallelism + Cardinality(Replaced)
    /\ primary # "exited" => Cardinality(Crashed) <= crashes

\* Each message that is under way or was acted upon is of a signal of its own.
MessagesAreCounted ==
    /\ shuttingDown <=> signals > 0
    /\ \A w \in Worker : mail[w] + told[w] <= signals

\* Before the first signal nobody shuts down.
Unsignalled ==
    signals = 0 =>
        /\ graceful = {} /\ awaits = {}
        /\ \A w \in Worker : proc[w] \in {"unborn", "starting", "serving", "dead"}

\* What a worker was told before it closes its server, and before it disconnects.
ClosingWasTold ==
    \A w \in Worker :
        /\ server[w] = "closing" \/ proc[w] \in {"disconnecting", "draining"} => told[w] >= 1
        /\ server[w] = "closing" /\ proc[w] = "disconnecting" => told[w] >= 2

\* Accounted, before the last fork too.
AccountedSoFar ==
    primary # "exited" /\ ~shuttingDown =>
        Cardinality(Live) + Cardinality(Due) + Cardinality(unheard) =
            IF primary = "forking" THEN forks ELSE Parallelism

\* A signal handler waits for every worker of the first snapshot that is not dead.
HandlersWait ==
    /\ exitCause # "none" => primary = "exited"
    /\ \A w \in firstSnapshot : proc[w] # "unborn"
    /\ \A S \in awaits : \A w \in firstSnapshot : w \in S \/ proc[w] = "dead"
    /\ ShutdownWaits

\* RoutesLeadToWorkers, before the last fork too.
RoutesSoFar ==
    serviceOverrides /\ primary # "exited" /\ ~shuttingDown =>
        /\ forks <= Parallelism
        /\ \A w \in Worker : "exit" \in seen[w] => w \in unheard

IInv ==
    /\ TypeOK
    /\ Born
    /\ EventsAreTrue
    /\ ForksAreCounted
    /\ MessagesAreCounted
    /\ Unsignalled
    /\ ClosingWasTold
    /\ CutOnlyWhenToldTwice
    /\ AccountedSoFar
    /\ NoCrashLoop
    /\ HandlersWait
    /\ RoutesSoFar

-----------------------------------------------------------------------------
(* Facts about sets of workers.                                            *)

\* A set of workers is finite, and a count of them is a natural number.
LEMMA WorkerSetsFinite ==
    ASSUME NEW S \in SUBSET Worker
    PROVE  IsFiniteSet(S) /\ Cardinality(S) \in Nat
<1>1. Parallelism + MaxCrashes \in Int
  BY ParallelismAssumption, BoundsAssumption
<1>2. IsFiniteSet(Worker)
  BY <1>1, FS_Interval DEF Worker
<1> QED
  BY <1>2, FS_Subset, FS_CardinalityType

LEMMA CountOneMore ==
    ASSUME NEW S \in SUBSET Worker, NEW w \in Worker
    PROVE  Cardinality(S \cup {w}) = IF w \in S THEN Cardinality(S) ELSE Cardinality(S) + 1
  BY WorkerSetsFinite, FS_AddElement

LEMMA CountOneLess ==
    ASSUME NEW S \in SUBSET Worker, NEW w \in S
    PROVE  Cardinality(S \ {w}) = Cardinality(S) - 1
  BY WorkerSetsFinite, FS_RemoveElement

LEMMA CountMonotonic ==
    ASSUME NEW S \in SUBSET Worker, NEW T \in SUBSET S
    PROVE  Cardinality(T) <= Cardinality(S)
  BY WorkerSetsFinite, FS_Subset

\* The sets of workers that are counted.
LEMMA CountsAreNaturals ==
    ASSUME TypeOK
    PROVE  \A S \in {Live, Due, Crashed, Replaced, unheard} :
               S \in SUBSET Worker /\ Cardinality(S) \in Nat
<1>1. \A S \in {Live, Due, Crashed, Replaced, unheard} : S \in SUBSET Worker
  BY DEF Live, Due, Crashed, Replaced, TypeOK
<1> QED
  BY <1>1, WorkerSetsFinite

\* A step that kills nobody, and of which no exit is learnt, changes none of them.
LEMMA SameCounts ==
    ASSUME TypeOK, UNCHANGED <<forks, seen, unheard>>,
           \A w \in Worker : /\ proc'[w] = "dead" <=> proc[w] = "dead"
                             /\ proc'[w] = "unborn" <=> proc[w] = "unborn"
                             /\ proc[w] = "dead" => (w \in graceful' <=> w \in graceful)
    PROVE  /\ Live' = Live /\ Due' = Due /\ Crashed' = Crashed /\ Replaced' = Replaced
  BY DEF Live, Due, Crashed, Replaced

LEMMA SameForks ==
    ASSUME TypeOK, ForksAreCounted, AccountedSoFar, Live' = Live, Due' = Due,
           Crashed' = Crashed, Replaced' = Replaced,
           UNCHANGED <<forks, primary, crashes, unheard>>,
           ~shuttingDown' => ~shuttingDown
    PROVE  ForksAreCounted' /\ AccountedSoFar'
  BY DEF ForksAreCounted, AccountedSoFar

-----------------------------------------------------------------------------
(* The initial states.                                                     *)

LEMMA InitIInv == Init => IInv
<1> SUFFICES ASSUME Init PROVE IInv
  OBVIOUS
<1> USE DEF Init
<1>1. TypeOK
  <2>1. /\ Parallelism \in Nat
        /\ MaxCrashes \in Nat /\ MaxRequests \in Nat /\ MaxSignals \in Nat
    BY ParallelismAssumption, BoundsAssumption
  <2>2. forks \in 0 .. Parallelism + MaxCrashes /\ signals \in 0 .. MaxSignals
        /\ crashes \in 0 .. MaxCrashes
    BY <2>1
  <2>3. /\ inflight \in [Worker -> 0 .. MaxRequests] /\ mail \in [Worker -> 0 .. MaxSignals]
        /\ told \in [Worker -> 0 .. MaxSignals]
    BY <2>1
  <2>4. seen \in [Worker -> SUBSET {"exit", "disconnect"}]
    OBVIOUS
  <2> QED
    BY <2>2, <2>3, <2>4 DEF TypeOK
<1>2. Live = {} /\ Due = {} /\ Crashed = {} /\ Replaced = {}
  BY DEF Live, Due, Crashed, Replaced
<1>3. Cardinality({}) = 0
  BY FS_EmptySet
<1>4. ForksAreCounted /\ AccountedSoFar
  BY <1>2, <1>3, ParallelismAssumption DEF ForksAreCounted, AccountedSoFar
<1>5. Born /\ EventsAreTrue /\ MessagesAreCounted
  BY DEF Born, EventsAreTrue, MessagesAreCounted
<1>6. Unsignalled /\ ClosingWasTold /\ CutOnlyWhenToldTwice
  BY DEF Unsignalled, ClosingWasTold, CutOnlyWhenToldTwice
<1>7. NoCrashLoop /\ HandlersWait /\ RoutesSoFar
  BY ParallelismAssumption DEF NoCrashLoop, HandlersWait, ShutdownWaits, RoutesSoFar
<1> QED
  BY <1>1, <1>4, <1>5, <1>6, <1>7 DEF IInv

-----------------------------------------------------------------------------
(* The steps of a worker that kill nobody.                                 *)

LEMMA FinishStartupIInv ==
    ASSUME IInv, NEW w \in Worker, FinishStartup(w)
    PROVE  IInv'
<1> USE DEF IInv, FinishStartup, primaryVars, history
<1>1. TypeOK'
  BY DEF TypeOK
<1>2. Born' /\ EventsAreTrue'
  BY DEF Born, EventsAreTrue, TypeOK
<1>3. ForksAreCounted' /\ AccountedSoFar'
  BY SameCounts, SameForks DEF TypeOK
<1>4. MessagesAreCounted' /\ Unsignalled'
  BY DEF MessagesAreCounted, Unsignalled, TypeOK
<1>5. ClosingWasTold' /\ CutOnlyWhenToldTwice'
  BY DEF ClosingWasTold, CutOnlyWhenToldTwice, TypeOK
<1>6. NoCrashLoop' /\ HandlersWait' /\ RoutesSoFar'
  BY DEF NoCrashLoop, HandlersWait, ShutdownWaits, RoutesSoFar, TypeOK
<1> QED
  BY <1>1, <1>2, <1>3, <1>4, <1>5, <1>6

LEMMA ListeningIInv ==
    ASSUME IInv, NEW w \in Worker, Listening(w)
    PROVE  IInv'
<1> USE DEF IInv, Listening, history
<1>1. TypeOK'
  BY DEF TypeOK
<1>2. Born' /\ EventsAreTrue'
  BY DEF Born, EventsAreTrue, TypeOK, Linked
<1>3. ForksAreCounted' /\ AccountedSoFar'
  BY SameCounts, SameForks DEF TypeOK
<1>4. MessagesAreCounted' /\ Unsignalled'
  BY DEF MessagesAreCounted, Unsignalled, TypeOK
<1>5. ClosingWasTold' /\ CutOnlyWhenToldTwice'
  BY DEF ClosingWasTold, CutOnlyWhenToldTwice, TypeOK
<1>6. NoCrashLoop' /\ HandlersWait' /\ RoutesSoFar'
  BY DEF NoCrashLoop, HandlersWait, ShutdownWaits, RoutesSoFar, TypeOK
<1> QED
  BY <1>1, <1>2, <1>3, <1>4, <1>5, <1>6

LEMMA AcceptIInv ==
    ASSUME IInv, NEW w \in Worker, Accept(w)
    PROVE  IInv'
<1> USE DEF IInv, Accept, primaryVars, history
<1>1. TypeOK'
  BY BoundsAssumption DEF TypeOK
<1>2. Born' /\ EventsAreTrue'
  BY DEF Born, EventsAreTrue, TypeOK, Linked
<1>3. ForksAreCounted' /\ AccountedSoFar'
  BY SameCounts, SameForks DEF TypeOK
<1>4. MessagesAreCounted' /\ Unsignalled'
  BY DEF MessagesAreCounted, Unsignalled, TypeOK
<1>5. ClosingWasTold' /\ CutOnlyWhenToldTwice'
  BY DEF ClosingWasTold, CutOnlyWhenToldTwice, TypeOK
<1>6. NoCrashLoop' /\ HandlersWait' /\ RoutesSoFar'
  BY DEF NoCrashLoop, HandlersWait, ShutdownWaits, RoutesSoFar, TypeOK
<1> QED
  BY <1>1, <1>2, <1>3, <1>4, <1>5, <1>6

LEMMA FinishIInv ==
    ASSUME IInv, NEW w \in Worker, Finish(w)
    PROVE  IInv'
<1> USE DEF IInv, Finish, primaryVars, history
<1>1. TypeOK'
  BY BoundsAssumption DEF TypeOK
<1>2. Born' /\ EventsAreTrue'
  BY DEF Born, EventsAreTrue, TypeOK
<1>3. ForksAreCounted' /\ AccountedSoFar'
  BY SameCounts, SameForks DEF TypeOK
<1>4. MessagesAreCounted' /\ Unsignalled'
  BY DEF MessagesAreCounted, Unsignalled, TypeOK
<1>5. ClosingWasTold' /\ CutOnlyWhenToldTwice'
  BY DEF ClosingWasTold, CutOnlyWhenToldTwice, TypeOK
<1>6. NoCrashLoop' /\ HandlersWait' /\ RoutesSoFar'
  BY DEF NoCrashLoop, HandlersWait, ShutdownWaits, RoutesSoFar, TypeOK
<1> QED
  BY <1>1, <1>2, <1>3, <1>4, <1>5, <1>6

\* A worker that hears a message has one fewer to hear, and was told once more.
LEMMA HearShutdownIInv ==
    ASSUME IInv, NEW w \in Worker, HearShutdown(w)
    PROVE  IInv'
<1> USE DEF IInv, HearShutdown, GracefulShutdown, primaryVars
<1>1. mail[w] + told[w] <= signals /\ signals \in 0 .. MaxSignals /\ signals > 0
  BY BoundsAssumption DEF MessagesAreCounted, TypeOK
<1>2. TypeOK'
  BY <1>1, BoundsAssumption DEF TypeOK
<1>3. Born' /\ EventsAreTrue'
  BY DEF Born, EventsAreTrue, TypeOK, Linked
<1>4. ForksAreCounted' /\ AccountedSoFar'
  BY SameCounts, SameForks DEF TypeOK, Linked
<1>5. MessagesAreCounted'
  BY DEF MessagesAreCounted, TypeOK
<1>6. Unsignalled'
  BY <1>1 DEF Unsignalled
<1>7. ClosingWasTold'
  BY DEF ClosingWasTold, TypeOK, Linked
<1>8. CutOnlyWhenToldTwice'
  BY DEF CutOnlyWhenToldTwice, TypeOK
<1>9. NoCrashLoop' /\ HandlersWait' /\ RoutesSoFar'
  BY DEF NoCrashLoop, HandlersWait, ShutdownWaits, RoutesSoFar, TypeOK, Linked
<1> QED
  BY <1>2, <1>3, <1>4, <1>5, <1>6, <1>7, <1>8, <1>9

-----------------------------------------------------------------------------
(* The steps that end a worker's process.                                  *)

\* A worker that dies is due to be noticed.
LEMMA OneDies ==
    ASSUME TypeOK, EventsAreTrue, NEW w \in Live,
           proc' = [proc EXCEPT ![w] = "dead"],
           UNCHANGED <<forks, primary, unheard, seen, shuttingDown>>,
           \A v \in Worker : proc[v] = "dead" => (v \in graceful' <=> v \in graceful)
    PROVE  /\ AccountedSoFar => AccountedSoFar'
           /\ Replaced' = Replaced
           /\ Crashed' = IF w \in graceful' THEN Crashed ELSE Crashed \cup {w}
<1>1. w \in Worker /\ proc[w] # "dead" /\ "exit" \notin seen[w]
  BY DEF Live, EventsAreTrue
<1>2. Live' = Live \ {w} /\ Due' = Due \cup {w} /\ w \notin Due
  BY <1>1 DEF Live, Due, TypeOK
<1>3. Live \in SUBSET Worker /\ Due \in SUBSET Worker
  BY DEF Live, Due
<1>4. /\ Cardinality(Live') = Cardinality(Live) - 1
      /\ Cardinality(Due') = Cardinality(Due) + 1
  BY <1>1, <1>2, <1>3, CountOneLess, CountOneMore
<1>5. AccountedSoFar => AccountedSoFar'
  BY <1>4, CountsAreNaturals DEF AccountedSoFar
<1>6. Replaced' = Replaced
  BY <1>1 DEF Replaced, Crashed, TypeOK
<1>7. Crashed' = IF w \in graceful' THEN Crashed ELSE Crashed \cup {w}
  BY <1>1 DEF Crashed, TypeOK
<1> QED
  BY <1>5, <1>6, <1>7

LEMMA CrashIInv ==
    ASSUME IInv, NEW w \in Worker, Crash(w)
    PROVE  IInv'
<1> USE DEF IInv, Crash, Die, primaryVars, history
<1>1. TypeOK'
  BY BoundsAssumption DEF TypeOK
<1>2. Born' /\ EventsAreTrue'
  BY DEF Born, EventsAreTrue, TypeOK, Live
<1>3. /\ AccountedSoFar' /\ Replaced' = Replaced
      /\ Crashed' = Crashed \/ Crashed' = Crashed \cup {w}
  BY OneDies
<1>4. Cardinality(Crashed') \in {Cardinality(Crashed), Cardinality(Crashed) + 1}
  BY <1>3, CountOneMore, CountsAreNaturals
<1>5. ForksAreCounted'
  BY <1>3, <1>4, CountsAreNaturals DEF ForksAreCounted, TypeOK
<1>6. MessagesAreCounted' /\ Unsignalled'
  BY DEF MessagesAreCounted, Unsignalled, TypeOK
<1>7. ClosingWasTold' /\ CutOnlyWhenToldTwice'
  BY DEF ClosingWasTold, CutOnlyWhenToldTwice, TypeOK
<1>8. NoCrashLoop' /\ HandlersWait' /\ RoutesSoFar'
  BY DEF NoCrashLoop, HandlersWait, ShutdownWaits, RoutesSoFar, TypeOK
<1> QED
  BY <1>1, <1>2, <1>3, <1>5, <1>6, <1>7, <1>8

\* The primary has exited, and counts nobody any more.
LEMMA OrphanedIInv ==
    ASSUME IInv, NEW w \in Worker, Orphaned(w)
    PROVE  IInv'
<1> USE DEF IInv, Orphaned, Die, primaryVars, history
<1>1. TypeOK'
  BY BoundsAssumption DEF TypeOK
<1>2. Born' /\ EventsAreTrue'
  BY DEF Born, EventsAreTrue, TypeOK
<1>3. w \in Live
  BY DEF Live
<1>4. AccountedSoFar' /\ Replaced' = Replaced
  BY <1>3, OneDies
<1>5. ForksAreCounted'
  BY <1>4 DEF ForksAreCounted
<1>6. MessagesAreCounted' /\ Unsignalled'
  BY DEF MessagesAreCounted, Unsignalled, TypeOK
<1>7. ClosingWasTold' /\ CutOnlyWhenToldTwice'
  BY DEF ClosingWasTold, CutOnlyWhenToldTwice, TypeOK
<1>8. NoCrashLoop' /\ HandlersWait' /\ RoutesSoFar'
  BY DEF NoCrashLoop, HandlersWait, ShutdownWaits, RoutesSoFar, TypeOK
<1> QED
  BY <1>1, <1>2, <1>4, <1>5, <1>6, <1>7, <1>8

\* The worker goes on to disconnect, or it has, and dies.
LEMMA ServerClosedIInv ==
    ASSUME IInv, NEW w \in Worker, ServerClosed(w)
    PROVE  IInv'
<1> USE DEF IInv, ServerClosed, primaryVars, history
<1>1. TypeOK'
  BY DEF TypeOK
<1>2. Born' /\ EventsAreTrue'
  BY DEF Born, EventsAreTrue, TypeOK
<1>3. ForksAreCounted' /\ AccountedSoFar'
  <2>1. CASE proc[w] = "draining"
    <3>1. w \in Live /\ w \in graceful' /\ proc' = [proc EXCEPT ![w] = "dead"]
      BY <2>1 DEF Live, EventsAreTrue, TypeOK
    <3>2. AccountedSoFar' /\ Replaced' = Replaced /\ Crashed' = Crashed
      BY <3>1, OneDies
    <3> QED
      BY <3>2 DEF ForksAreCounted
  <2>2. CASE proc[w] # "draining"
    BY <2>2, SameCounts, SameForks DEF TypeOK
  <2> QED
    BY <2>1, <2>2
<1>4. MessagesAreCounted'
  BY DEF MessagesAreCounted, TypeOK
<1>5. Unsignalled'
  BY BoundsAssumption DEF Unsignalled, MessagesAreCounted, ClosingWasTold, TypeOK
<1>6. ClosingWasTold' /\ CutOnlyWhenToldTwice'
  BY DEF ClosingWasTold, CutOnlyWhenToldTwice, TypeOK
<1>7. NoCrashLoop' /\ HandlersWait' /\ RoutesSoFar'
  BY DEF NoCrashLoop, HandlersWait, ShutdownWaits, RoutesSoFar, TypeOK
<1> QED
  BY <1>1, <1>2, <1>3, <1>4, <1>5, <1>6, <1>7

\* Connections with requests on them are closed only by a server that was closing
\* before the worker disconnected.
LEMMA ChannelClosedIInv ==
    ASSUME IInv, NEW w \in Worker, ChannelClosed(w)
    PROVE  IInv'
<1> USE DEF IInv, ChannelClosed, primaryVars
<1>1. TypeOK'
  BY BoundsAssumption DEF TypeOK
<1>2. Born' /\ EventsAreTrue'
  BY DEF Born, EventsAreTrue, TypeOK
<1>3. ForksAreCounted' /\ AccountedSoFar'
  <2>1. CASE server[w] # "listening"
    <3>1. w \in Live /\ w \in graceful' /\ proc' = [proc EXCEPT ![w] = "dead"]
      BY <2>1 DEF Live
    <3>2. AccountedSoFar' /\ Replaced' = Replaced /\ Crashed' = Crashed
      BY <3>1, OneDies
    <3> QED
      BY <3>2 DEF ForksAreCounted
  <2>2. CASE server[w] = "listening"
    BY <2>2, SameCounts, SameForks DEF TypeOK
  <2> QED
    BY <2>1, <2>2
<1>4. MessagesAreCounted'
  BY DEF MessagesAreCounted, TypeOK
<1>5. Unsignalled'
  BY DEF Unsignalled
<1>6. ClosingWasTold'
  BY DEF ClosingWasTold, TypeOK
<1>7. inflight[w] > 0 /\ server[w] # "listening" => told[w] >= 2
  BY DEF Born, ClosingWasTold, TypeOK
<1>8. CutOnlyWhenToldTwice'
  BY <1>7 DEF CutOnlyWhenToldTwice, TypeOK
<1>9. NoCrashLoop' /\ HandlersWait' /\ RoutesSoFar'
  BY DEF NoCrashLoop, HandlersWait, ShutdownWaits, RoutesSoFar, TypeOK
<1> QED
  BY <1>1, <1>2, <1>3, <1>4, <1>5, <1>6, <1>8, <1>9

-----------------------------------------------------------------------------
(* The steps of the primary.                                               *)

\* A new worker is alive.
LEMMA OneIsForked ==
    ASSUME TypeOK, Born, forks + 1 \in Worker, ForkWorker
    PROVE  /\ Live' = Live \cup {forks + 1} /\ forks + 1 \notin Live
           /\ Cardinality(Live') = Cardinality(Live) + 1
           /\ \A w \in Worker : proc'[w] = "dead" <=> proc[w] = "dead"
           /\ proc[forks + 1] = "unborn"
<1>1. proc[forks + 1] = "unborn"
  BY DEF Born, TypeOK
<1>2. Live' = Live \cup {forks + 1} /\ forks + 1 \notin Live
  BY <1>1 DEF Live, ForkWorker, TypeOK
<1>3. \A w \in Worker : proc'[w] = "dead" <=> proc[w] = "dead"
  BY <1>1 DEF ForkWorker, TypeOK
<1>4. Live \in SUBSET Worker
  BY DEF Live
<1> QED
  BY <1>1, <1>2, <1>3, <1>4, CountOneMore

LEMMA ForkNextIInv ==
    ASSUME IInv, ForkNext
    PROVE  IInv'
<1> USE DEF IInv, ForkNext, history
<1>1. forks + 1 \in Worker /\ forks + 1 \in 0 .. Parallelism + MaxCrashes /\ forks \in Nat
  BY ParallelismAssumption, BoundsAssumption DEF TypeOK, Worker
<1>2. /\ Cardinality(Live') = Cardinality(Live) + 1
      /\ \A w \in Worker : proc'[w] = "dead" <=> proc[w] = "dead"
  BY <1>1, OneIsForked
<1>3. TypeOK'
  BY <1>1 DEF TypeOK, ForkWorker
<1>4. Born'
  BY <1>1 DEF Born, TypeOK, ForkWorker, Worker
<1>5. EventsAreTrue'
  BY <1>1, <1>2 DEF EventsAreTrue, Born, TypeOK, ForkWorker
<1>6. Due' = Due /\ Crashed' = Crashed /\ Replaced' = Replaced
  BY <1>2 DEF Due, Crashed, Replaced
<1>7. AccountedSoFar'
  BY <1>2, <1>6, CountsAreNaturals DEF AccountedSoFar, ForkWorker
<1>8. ForksAreCounted'
  BY <1>1, <1>6, ParallelismAssumption DEF ForksAreCounted, ForkWorker
<1>9. MessagesAreCounted' /\ Unsignalled'
  BY DEF MessagesAreCounted, Unsignalled, TypeOK, ForkWorker
<1>10. ClosingWasTold' /\ CutOnlyWhenToldTwice'
  BY DEF ClosingWasTold, CutOnlyWhenToldTwice, TypeOK, ForkWorker
<1>11. NoCrashLoop' /\ RoutesSoFar'
  BY <1>1, ParallelismAssumption DEF NoCrashLoop, RoutesSoFar, ForkWorker
<1>12. HandlersWait'
  BY <1>1, <1>2 DEF HandlersWait, ShutdownWaits, TypeOK, ForkWorker
<1> QED
  BY <1>3, <1>4, <1>5, <1>7, <1>8, <1>9, <1>10, <1>11, <1>12

LEMMA FinishForkingIInv ==
    ASSUME IInv, FinishForking
    PROVE  IInv'
<1> USE DEF IInv, FinishForking, workerVars, history
<1>1. TypeOK' /\ Born' /\ EventsAreTrue'
  BY DEF TypeOK, Born, EventsAreTrue
<1>2. Live' = Live /\ Due' = Due /\ Crashed' = Crashed /\ Replaced' = Replaced
  BY SameCounts
<1>3. ForksAreCounted' /\ AccountedSoFar'
  BY <1>2, ParallelismAssumption DEF ForksAreCounted, AccountedSoFar
<1>4. MessagesAreCounted' /\ Unsignalled' /\ ClosingWasTold' /\ CutOnlyWhenToldTwice'
  BY DEF MessagesAreCounted, Unsignalled, ClosingWasTold, CutOnlyWhenToldTwice
<1>5. NoCrashLoop' /\ HandlersWait' /\ RoutesSoFar'
  BY DEF NoCrashLoop, HandlersWait, ShutdownWaits, RoutesSoFar
<1> QED
  BY <1>1, <1>3, <1>4, <1>5

\* Whoever is not in the table has exited: a later handler need not wait for it.
LEMMA SignalIInv ==
    ASSUME IInv, Signal
    PROVE  IInv'
<1> USE DEF IInv, Signal, workerVars
<1>1. Table \in SUBSET Worker /\ \A w \in Worker : w \in Table \/ proc[w] \in {"unborn", "dead"}
  <2>1. 1 .. forks \subseteq Worker
    BY ParallelismAssumption, BoundsAssumption DEF TypeOK, Worker
  <2>2. ASSUME NEW w \in 1 .. forks, w \notin Table PROVE proc[w] = "dead"
    BY <2>1, <2>2 DEF Table, EventsAreTrue
  <2> QED
    BY <2>1, <2>2 DEF Table, Born
<1>2. /\ MaxSignals \in Nat /\ signals \in Nat /\ signals' = signals + 1
      /\ signals' \in 0 .. MaxSignals
  BY BoundsAssumption DEF TypeOK
<1>3. \A w \in Worker : /\ mail[w] \in Nat /\ told[w] \in Nat
                        /\ mail'[w] \in {mail[w], mail[w] + 1}
                        /\ mail[w] + told[w] <= signals
  BY <1>2 DEF TypeOK, MessagesAreCounted
<1>4. MessagesAreCounted'
  BY <1>2, <1>3 DEF MessagesAreCounted
<1>5. TypeOK'
  <2>1. mail' \in [Worker -> 0 .. MaxSignals]
    BY <1>2, <1>3
  <2>2. awaits' \in SUBSET SUBSET Worker /\ firstSnapshot' \in SUBSET Worker
    BY <1>1 DEF TypeOK
  <2> QED
    BY <1>2, <2>1, <2>2 DEF TypeOK
<1>6. Born' /\ EventsAreTrue'
  BY DEF Born, EventsAreTrue
<1>7. ForksAreCounted' /\ AccountedSoFar'
  BY SameCounts, SameForks
<1>8. Unsignalled' /\ ClosingWasTold' /\ CutOnlyWhenToldTwice'
  BY <1>2 DEF Unsignalled, ClosingWasTold, CutOnlyWhenToldTwice
<1>9. HandlersWait'
  <2>1. CASE signals = 0
    <3>1. awaits' = {Table} /\ firstSnapshot' = Table
      BY <2>1 DEF Unsignalled
    <3>2. \A w \in Table : proc[w] # "unborn"
      BY <1>1 DEF Table, Born
    <3> QED
      BY <3>1, <3>2 DEF HandlersWait, ShutdownWaits
  <2>2. CASE signals # 0
    BY <2>2, <1>1 DEF HandlersWait, ShutdownWaits, TypeOK
  <2> QED
    BY <2>1, <2>2
<1>10. NoCrashLoop' /\ RoutesSoFar'
  BY DEF NoCrashLoop, RoutesSoFar
<1> QED
  BY <1>4, <1>5, <1>6, <1>7, <1>8, <1>9, <1>10

\* Only when all workers of some snapshot are dead, and so those of the first, does
\* the primary leave.
LEMMA FinishShutdownIInv ==
    ASSUME IInv, FinishShutdown
    PROVE  IInv'
<1> USE DEF IInv, FinishShutdown, ExitPrimary, workerVars, history
<1>1. TypeOK' /\ Born' /\ EventsAreTrue'
  BY DEF TypeOK, Born, EventsAreTrue
<1>2. Replaced' = Replaced
  BY SameCounts
<1>3. ForksAreCounted' /\ AccountedSoFar'
  BY <1>2 DEF ForksAreCounted, AccountedSoFar
<1>4. MessagesAreCounted' /\ Unsignalled' /\ ClosingWasTold' /\ CutOnlyWhenToldTwice'
  BY DEF MessagesAreCounted, Unsignalled, ClosingWasTold, CutOnlyWhenToldTwice
<1>5. HandlersWait'
  BY DEF HandlersWait, ShutdownWaits
<1>6. NoCrashLoop' /\ RoutesSoFar'
  BY DEF NoCrashLoop, RoutesSoFar
<1> QED
  BY <1>1, <1>3, <1>4, <1>5, <1>6

LEMMA SeeDisconnectIInv ==
    ASSUME IInv, NEW w \in Worker, SeeDisconnect(w)
    PROVE  IInv'
<1> USE DEF IInv, SeeDisconnect, workerVars, history
<1>1. TypeOK'
  BY DEF TypeOK
<1>2. \A v \in Worker : "exit" \in seen'[v] <=> "exit" \in seen[v]
  BY DEF TypeOK
<1>3. Born' /\ EventsAreTrue'
  BY <1>2 DEF Born, EventsAreTrue, TypeOK
<1>4. Live' = Live /\ Due' = Due /\ Crashed' = Crashed /\ Replaced' = Replaced
  BY <1>2 DEF Live, Due, Crashed, Replaced
<1>5. ForksAreCounted' /\ AccountedSoFar'
  BY <1>4, SameForks
<1>6. MessagesAreCounted' /\ Unsignalled' /\ ClosingWasTold' /\ CutOnlyWhenToldTwice'
  BY DEF MessagesAreCounted, Unsignalled, ClosingWasTold, CutOnlyWhenToldTwice
<1>7. NoCrashLoop' /\ HandlersWait' /\ RoutesSoFar'
  BY <1>2 DEF NoCrashLoop, HandlersWait, ShutdownWaits, RoutesSoFar
<1> QED
  BY <1>1, <1>3, <1>5, <1>6, <1>7

\* A worker whose exit is handled is due no more; if it crashed, the primary now knows.
LEMMA OneExitIsSeen ==
    ASSUME TypeOK, Born, EventsAreTrue, NEW w \in Due, w \in Worker,
           seen' = [seen EXCEPT ![w] = @ \cup {"exit"}], UNCHANGED graceful,
           \A v \in Worker : proc'[v] = "dead" <=> proc[v] = "dead"
    PROVE  /\ \A v \in Worker : "exit" \in seen'[v] <=> "exit" \in seen[v] \/ v = w
           /\ Cardinality(Due') = Cardinality(Due) - 1
           /\ Crashed' = Crashed
           /\ Cardinality(Replaced') =
                 IF w \in graceful THEN Cardinality(Replaced) ELSE Cardinality(Replaced) + 1
           /\ Cardinality(Replaced') <= Cardinality(Crashed)
           /\ w \notin unheard
<1>1. \A v \in Worker : "exit" \in seen'[v] <=> "exit" \in seen[v] \/ v = w
  BY DEF TypeOK
<1>2. Due' = Due \ {w} /\ Crashed' = Crashed
  BY <1>1 DEF Due, Crashed
<1>3. Cardinality(Due') = Cardinality(Due) - 1
  BY <1>2, CountOneLess, CountsAreNaturals
<1>4. w \notin Replaced /\ w \notin unheard /\ (w \in Crashed <=> w \notin graceful)
  BY DEF Due, Replaced, Crashed, Born
<1>5. Replaced' = IF w \in graceful THEN Replaced ELSE Replaced \cup {w}
  BY <1>1, <1>2, <1>4 DEF Replaced
<1>6. Cardinality(Replaced') =
          IF w \in graceful THEN Cardinality(Replaced) ELSE Cardinality(Replaced) + 1
  BY <1>4, <1>5, CountOneMore, CountsAreNaturals
<1>7. Replaced' \in SUBSET Crashed /\ Crashed \in SUBSET Worker
  BY <1>2, <1>4, <1>5 DEF Replaced, Crashed
<1>8. Cardinality(Replaced') <= Cardinality(Crashed)
  BY <1>7, CountMonotonic
<1> QED
  BY <1>1, <1>2, <1>3, <1>4, <1>6, <1>8

\* What the primary does about an exit, by what it does to the number of workers.
LEMMA ExitIsAnswered ==
    ASSUME NEW w, AnswerExit(w)
    PROVE  \/ /\ primary = "running" /\ w \notin graceful /\ initialized /\ ~serviceOverrides
              /\ ForkWorker /\ UNCHANGED <<primary, exitCause>>
           \/ /\ primary = "running" /\ ExitPrimary("gaveUp") /\ UNCHANGED <<forks, proc>>
           \/ /\ primary # "running" \/ w \in graceful \/ shuttingDown
              /\ UNCHANGED <<primary, exitCause, forks, proc>>
  BY DEF AnswerExit

\* The exit of a crashed worker is answered by a fork.
LEMMA ReplacementIInv ==
    ASSUME IInv, NEW w \in Worker, SeeExit(w),
           primary = "running", w \notin graceful, initialized, ~serviceOverrides,
           ForkWorker, UNCHANGED <<primary, exitCause>>
    PROVE  IInv'
<1> USE DEF IInv, SeeExit
<1>1. w \in Due
  BY DEF Due
<1>2. Cardinality(Replaced) + 1 <= MaxCrashes
  <2>1. Crashed \in SUBSET Worker /\ w \in Crashed \ Replaced /\ Replaced \in SUBSET Worker
    BY DEF Crashed, Replaced
  <2>2. Replaced \cup {w} \in SUBSET Crashed
    BY <2>1 DEF Replaced
  <2>3. Cardinality(Replaced \cup {w}) <= Cardinality(Crashed)
    BY <2>1, <2>2, CountMonotonic
  <2>4. Cardinality(Replaced \cup {w}) = Cardinality(Replaced) + 1
    BY <2>1, CountOneMore
  <2>5. Cardinality(Crashed) <= MaxCrashes
    BY CountsAreNaturals, BoundsAssumption DEF ForksAreCounted, TypeOK
  <2> QED
    BY <2>3, <2>4, <2>5, CountsAreNaturals, BoundsAssumption
<1>3. /\ forks \in Nat /\ forks + 1 \in Worker /\ forks + 1 \in 0 .. Parallelism + MaxCrashes
      /\ forks >= Parallelism /\ forks <= Parallelism + Cardinality(Replaced)
  <2>1. /\ Parallelism \in Nat \ {0} /\ MaxCrashes \in Nat /\ Cardinality(Replaced) \in Nat
        /\ forks \in Nat
    BY CountsAreNaturals, ParallelismAssumption, BoundsAssumption DEF TypeOK
  <2>2. forks >= Parallelism /\ forks <= Parallelism + Cardinality(Replaced)
    BY <2>1 DEF ForksAreCounted
  <2> QED
    BY <1>2, <2>1, <2>2 DEF Worker
<1>4. /\ Cardinality(Live') = Cardinality(Live) + 1
      /\ \A v \in Worker : proc'[v] = "dead" <=> proc[v] = "dead"
      /\ proc[forks + 1] = "unborn"
  BY <1>3, OneIsForked
<1>5. /\ \A v \in Worker : "exit" \in seen'[v] <=> "exit" \in seen[v] \/ v = w
      /\ Cardinality(Due') = Cardinality(Due) - 1
      /\ Crashed' = Crashed
      /\ Cardinality(Replaced') = Cardinality(Replaced) + 1
  BY <1>1, <1>4, OneExitIsSeen
<1>6. TypeOK'
  <2>1. awaits' \in SUBSET SUBSET Worker
    BY DEF TypeOK
  <2> QED
    BY <1>3, <2>1 DEF TypeOK, ForkWorker
<1>7. Born'
  BY <1>3, <1>4 DEF Born, TypeOK, ForkWorker, Worker
<1>8. EventsAreTrue'
  BY <1>3, <1>4, <1>5 DEF EventsAreTrue, TypeOK, ForkWorker
<1>9. AccountedSoFar'
  BY <1>4, <1>5, CountsAreNaturals, ParallelismAssumption DEF AccountedSoFar
<1>10. ForksAreCounted'
  BY <1>3, <1>5, CountsAreNaturals, ParallelismAssumption DEF ForksAreCounted, ForkWorker
<1>11. MessagesAreCounted' /\ Unsignalled'
  BY DEF MessagesAreCounted, Unsignalled, TypeOK, ForkWorker
<1>12. ClosingWasTold' /\ CutOnlyWhenToldTwice'
  BY DEF ClosingWasTold, CutOnlyWhenToldTwice, TypeOK, ForkWorker
<1>13. NoCrashLoop' /\ RoutesSoFar'
  BY DEF NoCrashLoop, RoutesSoFar
<1>14. HandlersWait'
  BY <1>3, <1>4 DEF HandlersWait, ShutdownWaits, TypeOK, ForkWorker
<1> QED
  BY <1>6, <1>7, <1>8, <1>9, <1>10, <1>11, <1>12, <1>13, <1>14

\* The exit is not answered by a fork: the primary gives up, or there is no listener,
\* or the worker left in order.
LEMMA NoReplacementIInv ==
    ASSUME IInv, NEW w \in Worker, SeeExit(w), UNCHANGED <<forks, proc>>,
           \/ primary = "running" /\ ExitPrimary("gaveUp")
           \/ /\ primary # "running" \/ w \in graceful \/ shuttingDown
              /\ UNCHANGED <<primary, exitCause>>
    PROVE  IInv'
<1> USE DEF IInv, SeeExit, ExitPrimary
<1>1. w \in Due
  BY DEF Due
<1>2. /\ \A v \in Worker : "exit" \in seen'[v] <=> "exit" \in seen[v] \/ v = w
      /\ Cardinality(Due') = Cardinality(Due) - 1
      /\ Crashed' = Crashed
      /\ Cardinality(Replaced') \in {Cardinality(Replaced), Cardinality(Replaced) + 1}
      /\ w \notin unheard
  BY <1>1, OneExitIsSeen
<1>3. primary' # "exited" /\ ~shuttingDown => primary = "forking"
  BY DEF Unsignalled, MessagesAreCounted, TypeOK
<1>4. TypeOK'
  <2>1. awaits' \in SUBSET SUBSET Worker
    BY DEF TypeOK
  <2> QED
    BY <2>1 DEF TypeOK
<1>5. Born' /\ EventsAreTrue'
  BY <1>2 DEF Born, EventsAreTrue, TypeOK
<1>6. ForksAreCounted'
  BY <1>2, CountsAreNaturals, ParallelismAssumption DEF ForksAreCounted, TypeOK
<1>7. AccountedSoFar'
  <2>1. CASE primary = "forking"
    <3>1. Cardinality(unheard') = Cardinality(unheard) + 1 /\ Live' = Live
      BY <2>1, <1>2, CountOneMore, CountsAreNaturals DEF Live
    <3> QED
      BY <2>1, <3>1, <1>2, CountsAreNaturals DEF AccountedSoFar, TypeOK
  <2>2. CASE primary # "forking"
    BY <2>2, <1>3 DEF AccountedSoFar
  <2> QED
    BY <2>1, <2>2
<1>8. MessagesAreCounted' /\ Unsignalled' /\ ClosingWasTold' /\ CutOnlyWhenToldTwice'
  BY DEF MessagesAreCounted, Unsignalled, ClosingWasTold, CutOnlyWhenToldTwice
<1>9. NoCrashLoop' /\ HandlersWait'
  BY DEF NoCrashLoop, HandlersWait, ShutdownWaits
<1>10. RoutesSoFar'
  BY <1>2, <1>3 DEF RoutesSoFar
<1> QED
  BY <1>4, <1>5, <1>6, <1>7, <1>8, <1>9, <1>10

LEMMA SeeExitIInv ==
    ASSUME IInv, NEW w \in Worker, SeeExit(w)
    PROVE  IInv'
<1>1. AnswerExit(w)
  BY DEF SeeExit
<1>2. CASE /\ primary = "running" /\ w \notin graceful /\ initialized /\ ~serviceOverrides
           /\ ForkWorker /\ UNCHANGED <<primary, exitCause>>
  BY <1>2, ReplacementIInv
<1>3. CASE primary = "running" /\ ExitPrimary("gaveUp") /\ UNCHANGED <<forks, proc>>
  BY <1>3, NoReplacementIInv
<1>4. CASE /\ primary # "running" \/ w \in graceful \/ shuttingDown
           /\ UNCHANGED <<primary, exitCause, forks, proc>>
  BY <1>4, NoReplacementIInv
<1> QED
  BY <1>1, <1>2, <1>3, <1>4, ExitIsAnswered

-----------------------------------------------------------------------------
(* The invariant, and what follows from it.                                *)

LEMMA StutterIInv ==
    ASSUME IInv, UNCHANGED vars
    PROVE  IInv'
<1> USE DEF IInv, vars, primaryVars, workerVars, history
<1>1. TypeOK' /\ Born' /\ EventsAreTrue'
  BY DEF TypeOK, Born, EventsAreTrue
<1>2. ForksAreCounted' /\ AccountedSoFar'
  BY SameCounts, SameForks
<1>3. MessagesAreCounted' /\ Unsignalled' /\ ClosingWasTold' /\ CutOnlyWhenToldTwice'
  BY DEF MessagesAreCounted, Unsignalled, ClosingWasTold, CutOnlyWhenToldTwice
<1>4. NoCrashLoop' /\ HandlersWait' /\ RoutesSoFar'
  BY DEF NoCrashLoop, HandlersWait, ShutdownWaits, RoutesSoFar
<1> QED
  BY <1>1, <1>2, <1>3, <1>4

LEMMA NextIInv == IInv /\ [Next]_vars => IInv'
<1> SUFFICES ASSUME IInv, [Next]_vars PROVE IInv'
  OBVIOUS
<1>1. CASE PrimaryStep
  <2>1. CASE ForkNext
    BY <2>1, ForkNextIInv
  <2>2. CASE FinishForking
    BY <2>2, FinishForkingIInv
  <2>3. CASE Signal
    BY <2>3, SignalIInv
  <2>4. CASE FinishShutdown
    BY <2>4, FinishShutdownIInv
  <2>5. CASE \E w \in Worker : SeeExit(w) \/ SeeDisconnect(w)
    BY <2>5, SeeExitIInv, SeeDisconnectIInv
  <2> QED
    BY <1>1, <2>1, <2>2, <2>3, <2>4, <2>5 DEF PrimaryStep
<1>2. ASSUME NEW w \in Worker, WorkerStep(w) PROVE IInv'
  <2>1. CASE FinishStartup(w) \/ Listening(w) \/ Accept(w) \/ Finish(w)
    BY <2>1, FinishStartupIInv, ListeningIInv, AcceptIInv, FinishIInv
  <2>2. CASE HearShutdown(w) \/ ServerClosed(w) \/ ChannelClosed(w)
    BY <2>2, HearShutdownIInv, ServerClosedIInv, ChannelClosedIInv
  <2>3. CASE Crash(w) \/ Orphaned(w)
    BY <2>3, CrashIInv, OrphanedIInv
  <2> QED
    BY <1>2, <2>1, <2>2, <2>3 DEF WorkerStep
<1>3. CASE UNCHANGED vars
  BY <1>3, StutterIInv
<1> QED
  BY <1>1, <1>2, <1>3 DEF Next

LEMMA Invariance == Spec => []IInv
  BY InitIInv, NextIInv, PTL DEF Spec

\* Every variable keeps its type, among them the counters their bounds: no more
\* workers are forked than there were initial ones and crashes.
THEOREM TypeCorrect == Spec => []TypeOK
<1>1. IInv => TypeOK
  BY DEF IInv
<1> QED
  BY <1>1, Invariance, PTL

\* While the cluster runs, initial workers = living ones + exits not yet answered +
\* exits nobody was there to answer: no loss goes unanswered or is answered twice.
THEOREM LossesAreAccounted == Spec => []Accounted
<1>1. IInv => Accounted
  BY DEF IInv, AccountedSoFar, Accounted, Due
<1> QED
  BY <1>1, Invariance, PTL

\* No worker is forked beyond the initial ones before some worker has listened.
THEOREM NeverACrashLoop == Spec => []NoCrashLoop
<1>1. IInv => NoCrashLoop
  BY DEF IInv
<1> QED
  BY <1>1, Invariance, PTL

\* After a signal, a primary that leaves leaves no worker alive that it told at the
\* first one, whichever signal's handler came to its end first.
THEOREM ShutdownAlwaysWaits == Spec => []ShutdownWaits
<1>1. IInv => ShutdownWaits
  BY DEF IInv, HandlersWait
<1> QED
  BY <1>1, Invariance, PTL

\* A worker that closes connections with requests on them has acted upon two
\* shutdown messages.
THEOREM OneSignalCutsNothing == Spec => []CutOnlyWhenToldTwice
<1>1. IInv => CutOnlyWhenToldTwice
  BY DEF IInv
<1> QED
  BY <1>1, Invariance, PTL

\* With service overrides, a running primary has exactly its initial workers, and
\* handled the exit of none of them after its fork loop.
THEOREM RoutesAlwaysLeadToWorkers == Spec => []RoutesLeadToWorkers
<1>1. ASSUME IInv PROVE RoutesLeadToWorkers
  <2>1. forks \in Nat /\ 1 .. forks \subseteq Worker
    BY <1>1, ParallelismAssumption, BoundsAssumption DEF IInv, TypeOK, Worker
  <2> QED
    BY <1>1, <2>1, ParallelismAssumption
    DEF IInv, RoutesSoFar, ForksAreCounted, RoutesLeadToWorkers
<1> QED
  BY <1>1, Invariance, PTL

\* A primary that got only one signal cuts no request: "Wait for in flight requests to
\* finish" holds until the second one.
THEOREM OneSignalFinishes == Spec => [](signals <= 1 => RequestsFinish)
<1>1. ASSUME IInv, signals <= 1 PROVE RequestsFinish
  <2>1. ASSUME NEW w \in cut PROVE FALSE
    <3>1. w \in Worker /\ told[w] >= 2 /\ mail[w] + told[w] <= signals
      BY <1>1, <2>1 DEF IInv, TypeOK, CutOnlyWhenToldTwice, MessagesAreCounted
    <3>2. told[w] \in Nat /\ mail[w] \in Nat /\ signals \in Nat
      BY <1>1, <3>1, BoundsAssumption DEF IInv, TypeOK
    <3> QED
      BY <1>1, <3>1, <3>2
  <2> QED
    BY <2>1 DEF RequestsFinish
<1>2. IInv => (signals <= 1 => RequestsFinish)
  BY <1>1
<1> QED
  BY <1>2, Invariance, PTL
=============================================================================
