--------------------------- MODULE ClusterReadiness ---------------------------
(***************************************************************************)
(* The readiness protocol between the primary process and its workers      *)
(* (packages/readiness).  An HTTP probe on the primary calls isReady(),    *)
(* which asks every connected worker over IPC, counts the answers, and is  *)
(* raced by a timer.                                                       *)
(*                                                                         *)
(* One action is one callback of one process: Node runs a callback, and    *)
(* the promise reactions it triggers, to the end before the next one.      *)
(* IPC messages are kept in sets: the pipe is FIFO, the sets also allow    *)
(* every other order of delivery, and no message is ever sent twice.       *)
(***************************************************************************)
EXTENDS Naturals, FiniteSets

CONSTANTS
    Worker,   \* every worker the primary may fork; ids are never reused
    Stage,    \* the checks registered in each worker (workerChecks)
    MaxPolls  \* bound: how many times isReady() is called

ASSUME WorkerAssumption == IsFiniteSet(Worker)
ASSUME StageAssumption == Stage # {}
ASSUME MaxPollsAssumption == MaxPolls \in Nat

Poll == 0 .. MaxPolls - 1

Response == [worker : Worker, id : Poll, readiness : BOOLEAN]

VARIABLES
    link,          \* link[w]: the entry of w in cluster.workers
    running,       \* the workers whose process can still run callbacks
    stages,        \* stages[w]: the stages w has marked ready
    workersForked, \* the primary's only check, allWorkersForked
    requestIdSeq,  \* the id the next poll gets
    requests,      \* the polls with an entry in the requests map
    responses,     \* responses[p]: the values pushed to request.responses
    pending,       \* pending[p]: request.pending
    timers,        \* the polls whose errorTimeout is armed
    promise,       \* promise[p]: what isReady() gave its caller
    reqs,          \* GET_READINESS_REQ messages under way, <<worker, poll>>
    resps,         \* GET_READINESS_RES messages under way
    asked,         \* history: the workers poll p was sent to
    silent,        \* history: those of them whose answer has not come back
    calm           \* history: polls begun when nothing stood against ready

workerVars  == <<link, running, stages, workersForked>>
requestVars == <<requests, responses, pending, timers, promise>>
history     == <<asked, silent, calm>>
vars == <<workerVars, requestIdSeq, requestVars, reqs, resps, history>>

TypeOK ==
    /\ link \in [Worker -> {"absent", "connected", "gone"}]
    /\ running \in SUBSET Worker
    /\ stages \in [Worker -> SUBSET Stage]
    /\ workersForked \in BOOLEAN
    /\ requestIdSeq \in 0 .. MaxPolls
    /\ requests \in SUBSET Poll
    /\ responses \in [Poll -> SUBSET BOOLEAN]
    /\ pending \in [Poll -> Nat]
    /\ timers \in SUBSET Poll
    /\ promise \in [Poll -> {"uncalled", "pending", "ready", "notReady", "error"}]
    /\ reqs \in SUBSET (Worker \X Poll)
    /\ resps \in SUBSET Response
    /\ asked \in [Poll -> SUBSET Worker]
    /\ silent \in [Poll -> SUBSET Worker]
    /\ calm \in SUBSET Poll

Init ==
    /\ link = [w \in Worker |-> "absent"]
    /\ running = {}
    /\ stages = [w \in Worker |-> {}]
    /\ workersForked = FALSE
    /\ requestIdSeq = 0
    /\ requests = {}
    /\ responses = [p \in Poll |-> {}]
    /\ pending = [p \in Poll |-> 0]
    /\ timers = {}
    /\ promise = [p \in Poll |-> "uncalled"]
    /\ reqs = {}
    /\ resps = {}
    /\ asked = [p \in Poll |-> {}]
    /\ silent = [p \in Poll |-> {}]
    /\ calm = {}

-----------------------------------------------------------------------------
(* The environment: workers come, make progress, and go.                   *)

\* evaluateChecks(workerChecks, false): a worker without a check is not ready.
EvaluateChecks(w) == Stage # {} /\ Stage \subseteq stages[w]

\* The primary forks w; it is connected before its code has run.
Fork(w) ==
    /\ link[w] = "absent"
    /\ link' = [link EXCEPT ![w] = "connected"]
    /\ running' = running \cup {w}
    /\ UNCHANGED <<stages, workersForked, requestIdSeq, requestVars, reqs, resps,
                   history>>

\* A stage of w reports ready().  No stage is marked unready() once it is ready:
\* every unready() call comes before the only ready() call of its stage.
StageReady(w, s) ==
    /\ w \in running
    /\ s \notin stages[w]
    /\ stages' = [stages EXCEPT ![w] = @ \cup {s}]
    /\ UNCHANGED <<link, running, workersForked, requestIdSeq, requestVars, reqs,
                   resps, history>>

\* primaryStartup has left its fork loop.
MarkWorkersForked ==
    /\ ~workersForked
    /\ workersForked' = TRUE
    /\ UNCHANGED <<link, running, stages, requestIdSeq, requestVars, reqs, resps,
                   history>>

\* w crashes, is killed, or closes its channel: what it has not read is never
\* answered, and any of its answers that is still in its own buffers is lost.
LoseWorker(w) ==
    /\ w \in running
    /\ running' = running \ {w}
    /\ reqs' = {r \in reqs : r[1] # w}
    /\ \E lost \in SUBSET {m \in resps : m.worker = w} : resps' = resps \ lost
    /\ UNCHANGED <<link, stages, workersForked, requestIdSeq, requestVars, history>>

\* The primary reads the end of w's channel, after everything before it.
NoticeLoss(w) ==
    /\ link[w] = "connected"
    /\ w \notin running
    /\ \A m \in resps : m.worker # w
    /\ link' = [link EXCEPT ![w] = "gone"]
    /\ reqs' = {r \in reqs : r[1] # w}
    /\ UNCHANGED <<running, stages, workersForked, requestIdSeq, requestVars, resps,
                   history>>

-----------------------------------------------------------------------------
(* The primary's side of a poll.                                           *)

\* Mutant: the primary's own checks are not consulted.
VerdictOfWorkers(ok) == IF ok THEN "ready" ELSE "notReady"

\* What the promise of isReady() becomes when its poll ends with `ok`: the
\* reaction in .then consults the primary's own checks at that moment.
Verdict(ok) == IF ok /\ workersForked THEN "ready" ELSE "notReady"

\* Mutant: a later call overrides an earlier one.
DoneAgain(p, outcome) == outcome

\* done(): only the first call for a poll has an effect.
Done(p, outcome) == IF promise[p] = "pending" THEN outcome ELSE promise[p]

Connected == {w \in Worker : link[w] = "connected"}

\* isReady().  With no worker connected the poll fails on the next tick, with
\* its timer cleared but its entry left in the requests map.
IsReady ==
    /\ requestIdSeq < MaxPolls
    /\ LET p == requestIdSeq
       IN  /\ requestIdSeq' = requestIdSeq + 1
           /\ requests' = requests \cup {p}
           /\ pending' = [pending EXCEPT ![p] = Cardinality(Connected)]
           /\ reqs' = reqs \cup (Connected \X {p})
           /\ timers' = IF Connected = {} THEN timers ELSE timers \cup {p}
           /\ promise' = [promise EXCEPT ![p] =
                            IF Connected = {} THEN "notReady" ELSE "pending"]
           /\ asked' = [asked EXCEPT ![p] = Connected]
           /\ silent' = [silent EXCEPT ![p] = Connected]
           /\ calm' = IF /\ workersForked
                         /\ Connected # {}
                         /\ \A w \in Connected : EvaluateChecks(w)
                      THEN calm \cup {p} ELSE calm
    /\ UNCHANGED <<workerVars, responses, resps>>

\* The worker's 'message' listener: evaluate the checks now, answer.
AnswerRequest(w, p) ==
    /\ w \in running
    /\ <<w, p>> \in reqs
    /\ reqs' = reqs \ {<<w, p>>}
    /\ resps' = resps \cup
                {[worker |-> w, id |-> p, readiness |-> EvaluateChecks(w)]}
    /\ UNCHANGED <<workerVars, requestIdSeq, requestVars, history>>

\* Mutant: the entry is not deleted.
CloseRequestLeaking(p, ok) ==
    /\ timers' = timers \ {p}
    /\ promise' = [promise EXCEPT ![p] = Done(p, Verdict(ok))]
    /\ UNCHANGED requests

\* The last answer: the entry is deleted, the timer cleared, the verdict given.
CloseRequest(p, ok) ==
    /\ requests' = requests \ {p}
    /\ timers' = timers \ {p}
    /\ promise' = [promise EXCEPT ![p] = Done(p, Verdict(ok))]

\* An earlier answer: the entry stays, and a FALSE one settles the poll at once.
KeepRequest(p, ok) ==
    /\ promise' = [promise EXCEPT ![p] = IF ok THEN @ ELSE Done(p, "notReady")]
    /\ UNCHANGED <<requests, timers>>

\* The primary's 'message' listener.  (Its branch for message.error has no
\* sender: the worker's listener never sets that field.)
ReceiveResponse(m) ==
    /\ m \in resps
    /\ resps' = resps \ {m}
    /\ silent' = [silent EXCEPT ![m.id] = @ \ {m.worker}]
    /\ IF m.id \notin requests
       THEN UNCHANGED requestVars
       ELSE /\ responses' = [responses EXCEPT ![m.id] = @ \cup {m.readiness}]
            /\ pending' = [pending EXCEPT ![m.id] = @ - 1]
            /\ IF pending[m.id] = 1
               THEN CloseRequest(m.id, FALSE \notin responses[m.id] \cup {m.readiness})
               ELSE KeepRequest(m.id, m.readiness)
    /\ UNCHANGED <<workerVars, requestIdSeq, reqs, asked, calm>>

\* Mutant: a timeout resolves the poll as not ready instead of rejecting it.
TimeoutNotReady(p) ==
    /\ p \in timers
    /\ timers' = timers \ {p}
    /\ promise' = [promise EXCEPT ![p] = Done(p, "notReady")]
    /\ UNCHANGED <<workerVars, requestIdSeq, requests, responses, pending, reqs, resps,
                   history>>

\* Mutant: a timeout deletes the entry of the poll.
TimeoutDeletes(p) ==
    /\ p \in timers
    /\ timers' = timers \ {p}
    /\ requests' = requests \ {p}
    /\ promise' = [promise EXCEPT ![p] = Done(p, "error")]
    /\ UNCHANGED <<workerVars, requestIdSeq, responses, pending, reqs, resps, history>>

\* Mutant: a timeout writes the missing answers off.
TimeoutWritesOff(p) ==
    /\ p \in timers
    /\ timers' = timers \ {p}
    /\ pending' = [pending EXCEPT ![p] = 0]
    /\ promise' = [promise EXCEPT ![p] = Done(p, "error")]
    /\ UNCHANGED <<workerVars, requestIdSeq, requests, responses, reqs, resps, history>>

\* errorTimeout fires: the promise is rejected, and nothing else happens.  The
\* entry stays in the requests map until the missing answers arrive, if ever.
Timeout(p) ==
    /\ p \in timers
    /\ timers' = timers \ {p}
    /\ promise' = [promise EXCEPT ![p] = Done(p, "error")]
    /\ UNCHANGED <<workerVars, requestIdSeq, requests, responses, pending, reqs, resps,
                   history>>

-----------------------------------------------------------------------------

Lifecycle ==
    \/ MarkWorkersForked
    \/ \E w \in Worker : Fork(w) \/ LoseWorker(w) \/ NoticeLoss(w)
    \/ \E w \in Worker, s \in Stage : StageReady(w, s)

Protocol ==
    \/ IsReady
    \/ \E w \in Worker, p \in Poll : AnswerRequest(w, p)
    \/ \E m \in resps : ReceiveResponse(m)
    \/ \E p \in Poll : Timeout(p)

Next == Lifecycle \/ Protocol

Spec == Init /\ [][Next]_vars

\* Timers fire, and a process that is running handles the messages it has.
\* Nothing is assumed of forks, crashes or start-up.
Fairness ==
    /\ \A p \in Poll : WF_vars(Timeout(p))
    /\ \A w \in Worker, p \in Poll : WF_vars(AnswerRequest(w, p))
    /\ \A m \in Response : WF_vars(ReceiveResponse(m))

FairSpec == Spec /\ Fairness

-----------------------------------------------------------------------------
(* Properties.                                                             *)

\* The probe answers 200 only if all initial workers were forked, at least one
\* worker was asked, and every worker that was asked has completed all of its
\* stages, whatever crashed, timed out or overtook in between.
ReadyIsEarned ==
    \A p \in Poll : promise[p] = "ready" =>
        /\ workersForked
        /\ asked[p] # {}
        /\ \A w \in asked[p] : EvaluateChecks(w)

\* A poll begun when all workers were forked and every connected one was ready
\* is never answered "not ready"; only a worker's silence (a timeout) can fail
\* it.
NoFalseAlarm == \A p \in calm : promise[p] # "notReady"

\* The requests map holds exactly the polls with an answer outstanding, and the
\* polls that found no worker; so an entry outlives its poll only when an asked
\* worker is slow or lost, or when there was nobody to ask.
RegistryIsExact ==
    \A p \in Poll : p \in requests <=>
        /\ promise[p] # "uncalled"
        /\ silent[p] # {} \/ asked[p] = {}

\* No answer arrives for a poll the map has forgotten: the listener's "not found
\* during processing" branch is never taken.
NoOrphanResponse == \A m \in resps : m.id \in requests

\* An entry of the requests map goes away once the asked workers have answered,
\* unless one of them was lost or there was none.
RegistryDrains ==
    \A p \in Poll :
        p \in requests ~> \/ p \notin requests
                          \/ asked[p] = {}
                          \/ \E w \in asked[p] : w \notin running

\* The protocol implements what a probe promises: "ready" is a verdict about all
\* the asked workers, "not ready" never answers a calm poll, and every poll
\* settles, once.
Contract == INSTANCE ReadinessContract
            WITH able <- {w \in Worker : EvaluateChecks(w)},
                 forked <- workersForked,
                 verdict <- promise
ImplementsContract == Contract!FairSpec

=============================================================================
