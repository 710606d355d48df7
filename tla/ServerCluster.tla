----------------------------- MODULE ServerCluster -----------------------------
(***************************************************************************)
(* The life of the cluster (packages/server/src/index.ts): the primary     *)
(* forks its workers one by one, replaces those that die, and on a signal  *)
(* tells them to finish their requests and waits for them to exit.         *)
(*                                                                         *)
(* One action is one callback of one process.  What node:cluster itself    *)
(* does is marked "node:" and is modelled from how this code relies on it. *)
(***************************************************************************)
EXTENDS Naturals, FiniteSets

CONSTANTS
    Parallelism, \* SERVER_PARAMS.clusterParallelism
    MaxCrashes,  \* bound: how many workers die on their own
    MaxRequests, \* bound: requests in flight in one worker
    MaxSignals   \* bound: SIGINT and SIGTERM the primary receives

ASSUME ParallelismAssumption == Parallelism \in Nat \ {0}
ASSUME BoundsAssumption == {MaxCrashes, MaxRequests, MaxSignals} \subseteq Nat

\* node: worker ids count the forks.  Only a crashed worker is replaced.
Worker == 1 .. Parallelism + MaxCrashes

VARIABLES
    serviceOverrides, \* ENABLE_FEATURES.serviceOverrides
    primary,      \* where primaryStartup is: in its fork loop, past it, exited
    exitCause,    \* why the primary exited
    forks,        \* workers forked so far: the ids in use are 1 .. forks
    shuttingDown, \* a signal was received
    initialized,  \* sucessfulInitialization: some worker has listened
    awaits,       \* per signal, the workers its handler still waits for
    proc,         \* proc[w]: where the process of worker w is
    server,       \* server[w]: the state of its http server
    inflight,     \* inflight[w]: requests it is working on
    mail,         \* mail[w]: shutdown messages sent to it, not yet delivered
    seen,         \* seen[w]: the events of w the primary has handled
    graceful,     \* the workers that exitedAfterDisconnect
    signals,      \* signals received
    crashes,      \* workers that died on their own
    unheard,      \* history: workers whose exit event had no listener
    told,         \* history: told[w], shutdown messages w has acted upon
    deaf,         \* history: workers that dropped a shutdown message
    cut,          \* history: workers that closed connections with requests on
    firstSnapshot \* history: the workers told by the first signal

primaryVars == <<primary, exitCause, forks, shuttingDown, initialized, awaits, seen>>
workerVars  == <<proc, server, inflight, graceful>>
history     == <<unheard, told, deaf, cut, firstSnapshot>>
vars == <<serviceOverrides, primaryVars, workerVars, mail, signals, crashes, history>>

TypeOK ==
    /\ serviceOverrides \in BOOLEAN
    /\ primary \in {"forking", "running", "exited"}
    /\ exitCause \in {"none", "shutdown", "gaveUp"}
    /\ forks \in 0 .. Parallelism + MaxCrashes
    /\ shuttingDown \in BOOLEAN /\ initialized \in BOOLEAN
    /\ awaits \in SUBSET SUBSET Worker
    /\ proc \in [Worker -> {"unborn", "starting", "serving", "disconnecting",
                            "draining", "dead"}]
    /\ server \in [Worker -> {"closed", "opening", "listening", "closing"}]
    /\ inflight \in [Worker -> 0 .. MaxRequests]
    /\ mail \in [Worker -> 0 .. MaxSignals]
    /\ seen \in [Worker -> SUBSET {"exit", "disconnect"}]
    /\ signals \in 0 .. MaxSignals /\ crashes \in 0 .. MaxCrashes
    /\ graceful \in SUBSET Worker /\ unheard \in SUBSET Worker
    /\ told \in [Worker -> 0 .. MaxSignals]
    /\ deaf \in SUBSET Worker /\ cut \in SUBSET Worker
    /\ firstSnapshot \in SUBSET Worker

Init ==
    /\ serviceOverrides \in BOOLEAN
    /\ primary = "forking" /\ exitCause = "none"
    /\ forks = 0
    /\ shuttingDown = FALSE /\ initialized = FALSE
    /\ awaits = {}
    /\ proc = [w \in Worker |-> "unborn"]
    /\ server = [w \in Worker |-> "closed"]
    /\ inflight = [w \in Worker |-> 0]
    /\ mail = [w \in Worker |-> 0]
    /\ seen = [w \in Worker |-> {}]
    /\ graceful = {} /\ unheard = {}
    /\ signals = 0 /\ crashes = 0
    /\ told = [w \in Worker |-> 0]
    /\ deaf = {} /\ cut = {} /\ firstSnapshot = {}

\* node: cluster.workers keeps a worker until it has exited and disconnected.
Table == {w \in 1 .. forks : seen[w] # {"exit", "disconnect"}}

\* node: the channel of w is open.
Linked(w) == proc[w] \in {"starting", "serving", "disconnecting"}

Live == {w \in Worker : proc[w] \notin {"unborn", "dead"}}

-----------------------------------------------------------------------------
(* The primary.                                                            *)

ForkWorker ==
    /\ forks' = forks + 1
    /\ proc' = [proc EXCEPT ![forks + 1] = "starting"]

ExitPrimary(cause) ==
    /\ primary' = "exited"
    /\ exitCause' = cause

\* One turn of the fork loop; the loop does not look at shuttingDown.
ForkNext ==
    /\ primary = "forking" /\ forks < Parallelism
    /\ ForkWorker
    /\ UNCHANGED <<serviceOverrides, primary, exitCause, shuttingDown, initialized,
                   awaits, seen, server, inflight, graceful, mail, signals, crashes,
                   history>>

\* The loop is over: workersForked.ready(), and the exit listener is installed.
FinishForking ==
    /\ primary = "forking" /\ forks = Parallelism
    /\ primary' = "running"
    /\ UNCHANGED <<serviceOverrides, exitCause, forks, shuttingDown, initialized,
                   awaits, seen, workerVars, mail, signals, crashes, history>>

\* Mutant: the handler tells the workers and does not wait.
SignalNoWait ==
    /\ primary # "exited"
    /\ signals < MaxSignals
    /\ signals' = signals + 1
    /\ shuttingDown' = TRUE
    /\ awaits' = awaits \cup {{}}
    /\ mail' = [w \in Worker |-> mail[w] + IF w \in Table /\ Linked(w) THEN 1 ELSE 0]
    /\ firstSnapshot' = IF signals = 0 THEN Table ELSE firstSnapshot
    /\ UNCHANGED <<serviceOverrides, primary, exitCause, forks, initialized, seen,
                   workerVars, crashes, unheard, told, deaf, cut>>

\* The signal handler: tell every worker in the table, wait for those to exit.
Signal ==
    /\ primary # "exited"
    /\ signals < MaxSignals
    /\ signals' = signals + 1
    /\ shuttingDown' = TRUE
    /\ awaits' = awaits \cup {Table}
    /\ mail' = [w \in Worker |-> mail[w] + IF w \in Table /\ Linked(w) THEN 1 ELSE 0]
    /\ firstSnapshot' = IF signals = 0 THEN Table ELSE firstSnapshot
    /\ UNCHANGED <<serviceOverrides, primary, exitCause, forks, initialized, seen,
                   workerVars, crashes, unheard, told, deaf, cut>>

\* A signal handler has seen all its workers exit.
FinishShutdown ==
    /\ primary # "exited"
    /\ {} \in awaits
    /\ ExitPrimary("shutdown")
    /\ UNCHANGED <<serviceOverrides, forks, shuttingDown, initialized, awaits, seen,
                   workerVars, mail, signals, crashes, history>>

\* Mutant: every exit is answered by a replacement.
AnswerExitAlways(w) == ForkWorker /\ UNCHANGED <<primary, exitCause>>

\* Mutant: no exit is.
AnswerExitNever(w) == UNCHANGED <<primary, exitCause, forks, proc>>

\* Mutant: a worker is replaced even if none ever listened.
AnswerExitEager(w) ==
    IF primary = "running" /\ w \notin graceful /\ ~shuttingDown
    THEN IF ~serviceOverrides
         THEN ForkWorker /\ UNCHANGED <<primary, exitCause>>
         ELSE ExitPrimary("gaveUp") /\ UNCHANGED <<forks, proc>>
    ELSE UNCHANGED <<primary, exitCause, forks, proc>>

\* Mutant: a worker is replaced even though overrides pin the ids.
AnswerExitUnpinned(w) ==
    IF primary = "running" /\ w \notin graceful /\ ~shuttingDown
    THEN IF initialized
         THEN ForkWorker /\ UNCHANGED <<primary, exitCause>>
         ELSE ExitPrimary("gaveUp") /\ UNCHANGED <<forks, proc>>
    ELSE UNCHANGED <<primary, exitCause, forks, proc>>

\* cluster.on('exit'): a worker that died on its own is replaced, unless none ever
\* listened, or service overrides pin the worker ids: then the primary gives up.
AnswerExit(w) ==
    IF primary = "running" /\ w \notin graceful /\ ~shuttingDown
    THEN IF initialized /\ ~serviceOverrides
         THEN ForkWorker /\ UNCHANGED <<primary, exitCause>>
         ELSE ExitPrimary("gaveUp") /\ UNCHANGED <<forks, proc>>
    ELSE UNCHANGED <<primary, exitCause, forks, proc>>

\* node: the exit event of w.  The listeners the signal handlers put on the worker
\* run first; the one on the cluster exists only after the fork loop.
SeeExit(w) ==
    /\ primary # "exited"
    /\ proc[w] = "dead" /\ "exit" \notin seen[w]
    /\ seen' = [seen EXCEPT ![w] = @ \cup {"exit"}]
    /\ awaits' = {S \ {w} : S \in awaits}
    /\ AnswerExit(w)
    /\ unheard' = IF primary = "forking" THEN unheard \cup {w} ELSE unheard
    /\ UNCHANGED <<serviceOverrides, shuttingDown, initialized, server, inflight,
                   graceful, mail, signals, crashes, told, deaf, cut, firstSnapshot>>

\* node: the disconnect event of w, which may come before or after its exit event.
SeeDisconnect(w) ==
    /\ primary # "exited"
    /\ proc[w] \in {"draining", "dead"} /\ "disconnect" \notin seen[w]
    /\ seen' = [seen EXCEPT ![w] = @ \cup {"disconnect"}]
    /\ UNCHANGED <<serviceOverrides, primary, exitCause, forks, shuttingDown,
                   initialized, awaits, workerVars, mail, signals, crashes, history>>

-----------------------------------------------------------------------------
(* A worker.                                                               *)

\* workerStartup: after its awaits, in one go, server.listen is called and the
\* listeners for the shutdown message and for the disconnect are installed.
FinishStartup(w) ==
    /\ proc[w] = "starting"
    /\ proc' = [proc EXCEPT ![w] = "serving"]
    /\ server' = [server EXCEPT ![w] = "opening"]
    /\ UNCHANGED <<serviceOverrides, primaryVars, inflight, graceful, mail, signals,
                   crashes, history>>

\* The server listens; the primary hears of it (cluster.on('listening')).
Listening(w) ==
    /\ Linked(w) /\ server[w] = "opening"
    /\ primary # "exited"
    /\ server' = [server EXCEPT ![w] = "listening"]
    /\ initialized' = TRUE
    /\ UNCHANGED <<serviceOverrides, primary, exitCause, forks, shuttingDown, awaits,
                   seen, proc, inflight, graceful, mail, signals, crashes, history>>

Accept(w) ==
    /\ Linked(w) /\ server[w] = "listening"
    /\ primary # "exited"
    /\ inflight[w] < MaxRequests
    /\ inflight' = [inflight EXCEPT ![w] = @ + 1]
    /\ UNCHANGED <<serviceOverrides, primaryVars, proc, server, graceful, mail, signals,
                   crashes, history>>

Finish(w) ==
    /\ proc[w] \in {"serving", "disconnecting", "draining"}
    /\ inflight[w] > 0
    /\ inflight' = [inflight EXCEPT ![w] = @ - 1]
    /\ UNCHANGED <<serviceOverrides, primaryVars, proc, server, graceful, mail, signals,
                   crashes, history>>

\* Mutant: the server is closed and the worker disconnects without waiting.
GracefulShutdownNoWait(w) ==
    /\ server' = [server EXCEPT ![w] = IF @ = "listening" THEN "closing" ELSE @]
    /\ proc' = [proc EXCEPT ![w] = "disconnecting"]

\* gracefulShutdown, then disconnect: a listening server is closed and waited for;
\* with any other the call returns at once, and the worker disconnects.
GracefulShutdown(w) ==
    IF server[w] = "listening"
    THEN server' = [server EXCEPT ![w] = "closing"] /\ UNCHANGED proc
    ELSE proc' = [proc EXCEPT ![w] = "disconnecting"] /\ UNCHANGED server

\* A shutdown message arrives.  A worker that is still starting drops it: its only
\* 'message' listener is that of the readiness checks.
HearShutdown(w) ==
    /\ Linked(w) /\ mail[w] > 0
    /\ mail' = [mail EXCEPT ![w] = @ - 1]
    /\ IF proc[w] = "starting"
       THEN deaf' = deaf \cup {w} /\ UNCHANGED <<told, proc, server>>
       ELSE /\ told' = [told EXCEPT ![w] = @ + 1]
            /\ GracefulShutdown(w)
            /\ UNCHANGED deaf
    /\ UNCHANGED <<serviceOverrides, primaryVars, inflight, graceful, signals, crashes,
                   unheard, cut, firstSnapshot>>

\* Mutant: nobody waits for the server to close.
ServerClosedUnheeded(w) ==
    /\ proc[w] \in {"serving", "disconnecting", "draining"}
    /\ server[w] = "closing" /\ inflight[w] = 0
    /\ server' = [server EXCEPT ![w] = "closed"]
    /\ UNCHANGED <<serviceOverrides, primaryVars, proc, inflight, graceful, mail,
                   signals, crashes, history>>

\* The last request of a closing server is done: server.close calls back, and
\* whoever waits for it goes on: the shutdown listener disconnects, the disconnect
\* listener kills the process.
ServerClosed(w) ==
    /\ proc[w] \in {"serving", "disconnecting", "draining"}
    /\ server[w] = "closing" /\ inflight[w] = 0
    /\ server' = [server EXCEPT ![w] = "closed"]
    /\ proc' = [proc EXCEPT ![w] = IF @ = "draining" THEN "dead" ELSE "disconnecting"]
    /\ UNCHANGED <<serviceOverrides, primaryVars, inflight, graceful, mail, signals,
                   crashes, history>>

\* The disconnect listener: a listening server is closed and waited for; otherwise
\* all connections are closed, whatever is on them, and the process exits.
ChannelClosed(w) ==
    /\ proc[w] = "disconnecting"
    /\ graceful' = graceful \cup {w}
    /\ IF server[w] = "listening"
       THEN /\ server' = [server EXCEPT ![w] = "closing"]
            /\ proc' = [proc EXCEPT ![w] = "draining"]
            /\ UNCHANGED <<inflight, cut>>
       ELSE /\ proc' = [proc EXCEPT ![w] = "dead"]
            /\ server' = [server EXCEPT ![w] = "closed"]
            /\ inflight' = [inflight EXCEPT ![w] = 0]
            /\ cut' = IF inflight[w] > 0 THEN cut \cup {w} ELSE cut
    /\ UNCHANGED <<serviceOverrides, primaryVars, mail, signals, crashes, unheard, told,
                   deaf, firstSnapshot>>

Die(w) ==
    /\ proc' = [proc EXCEPT ![w] = "dead"]
    /\ server' = [server EXCEPT ![w] = "closed"]
    /\ inflight' = [inflight EXCEPT ![w] = 0]

\* A worker dies on its own: it fails to start, throws, or is killed.
Crash(w) ==
    /\ w \in Live
    /\ crashes < MaxCrashes
    /\ crashes' = crashes + 1
    /\ Die(w)
    /\ UNCHANGED <<serviceOverrides, primaryVars, graceful, mail, signals, history>>

\* node: a worker whose primary is gone exits.
Orphaned(w) ==
    /\ primary = "exited"
    /\ proc[w] \in {"starting", "serving"}
    /\ Die(w)
    /\ UNCHANGED <<serviceOverrides, primaryVars, graceful, mail, signals, crashes,
                   history>>

-----------------------------------------------------------------------------

PrimaryStep ==
    \/ ForkNext \/ FinishForking \/ Signal \/ FinishShutdown
    \/ \E w \in Worker : SeeExit(w) \/ SeeDisconnect(w)

WorkerStep(w) ==
    \/ FinishStartup(w) \/ Listening(w) \/ Accept(w) \/ Finish(w)
    \/ HearShutdown(w) \/ ServerClosed(w) \/ ChannelClosed(w)
    \/ Crash(w) \/ Orphaned(w)

Next == PrimaryStep \/ \E w \in Worker : WorkerStep(w)

Spec == Init /\ [][Next]_vars

\* The event loops run: what is due is handled, and a request in flight ends (it
\* has a deadline).  No fairness for signals, crashes, new requests, nor for the
\* end of a start-up, which waits for other systems.
Fairness ==
    /\ WF_vars(ForkNext) /\ WF_vars(FinishForking) /\ WF_vars(FinishShutdown)
    /\ \A w \in Worker :
          /\ WF_vars(SeeExit(w)) /\ WF_vars(SeeDisconnect(w))
          /\ WF_vars(HearShutdown(w)) /\ WF_vars(Finish(w))
          /\ WF_vars(ServerClosed(w)) /\ WF_vars(ChannelClosed(w))
          /\ WF_vars(Orphaned(w))

FairSpec == Spec /\ Fairness

-----------------------------------------------------------------------------
(* Properties.                                                             *)

\* While the cluster runs, every initial worker is accounted for: it lives or has a
\* living successor, its exit is about to be answered, or it died while the primary
\* was still forking and had nobody to answer.  So no loss is answered twice.
Accounted ==
    primary = "running" /\ ~shuttingDown =>
        LET Due == {w \in Worker : proc[w] = "dead" /\ "exit" \notin seen[w]}
        IN  Cardinality(Live) + Cardinality(Due) + Cardinality(unheard) = Parallelism

\* No worker is forked anew before one has ever listened: a cluster that cannot
\* start does not crash-loop.
NoCrashLoop == forks > Parallelism => initialized

\* With service overrides a request is routed by worker id: as long as the primary
\* carries on, the ids stay those of the initial workers, and one whose exit was
\* handled is not left routed to.
RoutesLeadToWorkers ==
    serviceOverrides /\ primary = "running" /\ ~shuttingDown =>
        /\ forks = Parallelism
        /\ \A w \in 1 .. forks : "exit" \in seen[w] => w \in unheard

\* The primary leaves after a signal only when every worker it told at the first
\* one has exited, however many signals came.
ShutdownWaits ==
    exitCause = "shutdown" => \A w \in firstSnapshot : proc[w] = "dead"

\* A worker that closes connections with requests on them was told twice: one
\* shutdown message is never enough to cut a request.
CutOnlyWhenToldTwice == \A w \in cut : told[w] >= 2

\* The cluster comes back to full strength after every loss its exit listener was
\* there to see.
StrengthRestored ==
    []<>(\/ primary = "exited" \/ shuttingDown
         \/ Cardinality(Live) = Parallelism - Cardinality(unheard))

\* Shutdown gets stuck on a worker that was still starting when it was told, or
\* whose exit event came before the signal and its disconnect event after it.
Stuck ==
    \/ deaf \cap Live # {}
    \/ \E S \in awaits : \E w \in S : "exit" \in seen[w]

\* After a signal the primary exits, unless it is stuck.
ShutdownEnds == shuttingDown ~> primary = "exited" \/ Stuck

\* What the code's comments say, and the code does not do:

\* "Try to gracefully shutdown the server": after a signal the primary exits.
ShutdownCompletes == shuttingDown ~> primary = "exited"

\* "Wait for in flight requests to finish": no graceful shutdown cuts a request.
RequestsFinish == cut = {}
=============================================================================
