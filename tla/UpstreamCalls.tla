---------------------------- MODULE UpstreamCalls ----------------------------
(***************************************************************************)
(* The time of a request, from its deadline to the answers of the          *)
(* subgraphs (packages/context, deadlines, executors, batching/executors). *)
(*                                                                         *)
(* buildContext gives each request a deadline.  Its upstream requests are  *)
(* loaded into a dataloader, which waits before it dispatches them; the    *)
(* batching strategy divides them into calls (module Batching says how, any *)
(* division stands here) that share one Promise.all.  Each call takes its  *)
(* timeout from the earliest deadline of its requests, then waits for a    *)
(* token, for a socket, for the response and for its body.                 *)
(*                                                                         *)
(* Time is counted in ticks.  A timer of a fetch fires on time; everything *)
(* else may be late.                                                       *)
(***************************************************************************)
EXTENDS Integers, FiniteSets

CONSTANTS
    Requests,           \* requests that need one and the same subgraph
    Timeouts,           \* x-timeout headers, the default among them; NaN if malformed
    MaxExecution,       \* maxExecutionTimeoutMillis
    ExecutionPadding,   \* executionPaddingMillis
    MaxTimeout,         \* min(hardMax, sla.maxTimeoutMillis ?? softMax)
    UpstreamPadding,    \* upstreamTimeoutPaddingMillis
    Threshold,          \* upstreamTimeoutPaddingThreshold
    Wait,               \* batching.wait.millis
    Authenticated,      \* whether the subgraph has an authProvider
    Sockets,            \* maxSockets of the agent
    NaN,
    MaxTime             \* bound on the clock

\* What nonNegativeInteger makes of the environment, and the wait of the subgraph.
Durations == {MaxExecution, ExecutionPadding, MaxTimeout, UpstreamPadding, Threshold, Wait}

ASSUME UpstreamAssumption ==
    /\ Timeouts \subseteq Nat \cup {NaN}
    /\ NaN \notin Int
    /\ Durations \cup {MaxTime} \subseteq Nat
    /\ Sockets \in Nat \ {0}
    /\ Authenticated \in BOOLEAN

VARIABLES
    now,
    phase,      \* of each request: "new", "running", "queued", "sent", "answered", "failed"
    deadline,   \* of each request, on the clock
    queuedAt,   \* when the dataloader's timer was started, 0 if it was not
    calls       \* the upstream calls under way

vars == <<now, phase, deadline, queuedAt, calls>>

Init ==
    /\ now = 0
    /\ phase = [r \in Requests |-> "new"]
    /\ deadline = [r \in Requests |-> NaN]
    /\ queuedAt = 0
    /\ calls = {}

Queue == {r \in Requests : phase[r] = "queued"}
Waiting == {c \in calls : c.phase \in {"token", "socket"}}
Fetching == {c \in calls : c.phase \in {"headers", "body"}}
Lower(a, b) == IF a <= b THEN a ELSE b
Higher(a, b) == IF a >= b THEN a ELSE b

-----------------------------------------------------------------------------
(***************************************************************************)
(* Deadlines and timeouts.  NaN spreads through Math.min.                  *)
(***************************************************************************)

\* A request comes in: now + min(parseInt(x-timeout), max).
Arrive(r) ==
    /\ phase[r] = "new"
    /\ \E t \in Timeouts :
          deadline' = [deadline EXCEPT ![r] = IF t = NaN THEN NaN
                                              ELSE now + Lower(t, MaxExecution)]
    /\ phase' = [phase EXCEPT ![r] = "running"]
    /\ UNCHANGED <<now, queuedAt, calls>>

pickLatest(R) ==
    IF \E r \in R : deadline[r] = NaN THEN NaN
    ELSE CHOOSE d \in {deadline[r] : r \in R} : \A r \in R : d >= deadline[r]

\* pickDeadline, and wrapReducer for merged queries: the most restrictive.
pickDeadline(R) ==
    IF \E r \in R : deadline[r] = NaN THEN NaN
    ELSE CHOOSE d \in {deadline[r] : r \in R} : \A r \in R : d <= deadline[r]

computeTimeout(R) ==
    IF pickDeadline(R) = NaN THEN NaN
    ELSE Lower(MaxTimeout, pickDeadline(R) - now - ExecutionPadding)

\* What the subgraph is told in x-timeout.
paddedTimeout(t) == IF t = NaN THEN NaN ELSE Higher(Threshold, t - UpstreamPadding)

\* load, up to its first await, for one of the calls of the batch of requests
\* that the dataloader dispatched together.
Load(R, batch) ==
    [reqs |-> R, batch |-> batch, timeout |-> computeTimeout(R),
     xTimeout |-> paddedTimeout(computeTimeout(R)),
     phase |-> IF Authenticated THEN "token" ELSE "socket", since |-> now, waited |-> 0]

NeverSkipped(c) == FALSE

\* A call without time left fails at once.
Skipped(c) == c.timeout # NaN /\ c.timeout < 0

-----------------------------------------------------------------------------
(***************************************************************************)
(* Promise.all over the calls of a batch: the first that fails rejects     *)
(* every request of the batch, and the answers are handed out when the last *)
(* has been answered.  The other calls of a rejected batch run on.  A call  *)
(* that has ended is forgotten.                                            *)
(***************************************************************************)
Settle(batch, outcome) ==
    phase' = [r \in Requests |-> IF r \in batch /\ phase[r] \notin {"answered", "failed"}
                                 THEN outcome ELSE phase[r]]

SendUnsettled(P) ==
    LET made == {Load(R, UNION P) : R \in P}
    IN /\ calls' = calls \cup {c \in made : ~Skipped(c)}
       /\ Settle(UNION P, "sent")
       /\ UNCHANGED <<now, deadline>>

\* The batch is divided into the sets of P, and their calls are made.
Send(P) ==
    LET made == {Load(R, UNION P) : R \in P}
    IN /\ calls' = calls \cup {c \in made : ~Skipped(c)}
       /\ Settle(UNION P, IF \E c \in made : Skipped(c) THEN "failed" ELSE "sent")
       /\ UNCHANGED <<now, deadline>>

Answer(c) ==
    LET others == {d \in calls \ {c} : d.batch = c.batch}
    IN /\ calls' = calls \ {c}
       /\ Settle(c.batch, IF others = {} THEN "answered" ELSE "sent")
       /\ UNCHANGED <<now, deadline, queuedAt>>

FailUnheard(c) ==
    /\ calls' = calls \ {c}
    /\ UNCHANGED <<now, phase, deadline, queuedAt>>

Fail(c) ==
    /\ calls' = calls \ {c}
    /\ Settle(c.batch, "failed")
    /\ UNCHANGED <<now, deadline, queuedAt>>

\* Execution reaches the subgraph's executor, after any time spent on
\* parsing, planning or on other subgraphs; the first request in an empty
\* queue starts the timer of batchScheduleFn.
Enqueue(r) ==
    /\ phase[r] = "running"
    /\ phase' = [phase EXCEPT ![r] = "queued"]
    /\ queuedAt' = IF Queue = {} THEN now ELSE queuedAt
    /\ UNCHANGED <<now, deadline, calls>>

\* A subscription, or a subgraph without batching: a call of its own.
ExecuteAlone(r) ==
    /\ phase[r] = "running"
    /\ Send({{r}})
    /\ UNCHANGED queuedAt

\* The divisions of a set of requests into calls.
Divisions(S) ==
    {P \in SUBSET ((SUBSET S) \ {{}}) :
        UNION P = S /\ \A A, B \in P : A = B \/ A \cap B = {}}

\* The dataloader's timer has expired (it may be late).
Dispatch ==
    /\ Queue # {}
    /\ now >= queuedAt + Wait
    /\ \E P \in Divisions(Queue) : Send(P)
    /\ queuedAt' = 0

-----------------------------------------------------------------------------
(***************************************************************************)
(* An upstream call.                                                       *)
(***************************************************************************)
Becomes(c, d) ==
    /\ calls' = (calls \ {c}) \cup {d}
    /\ UNCHANGED <<now, phase, deadline, queuedAt>>

\* authProvider.getAuth() ends.  Nothing limits how long it takes.
ReceiveToken(c) ==
    /\ c.phase = "token"
    /\ Becomes(c, [c EXCEPT !.phase = "socket"]) \/ Fail(c)

\* The agent has a socket for the call: node-fetch starts its timer now.
TakeSocket(c) ==
    /\ c.phase = "socket"
    /\ Cardinality(Fetching) < Sockets
    /\ Becomes(c, [c EXCEPT !.phase = "headers", !.since = now, !.waited = now - c.since])

\* The response arrives, which ends that timer, and response.json() starts
\* another of the same length; or its status is not ok.
ReceiveHeaders(c) ==
    /\ c.phase = "headers"
    /\ Becomes(c, [c EXCEPT !.phase = "body", !.since = now]) \/ Fail(c)

ReceiveBody(c) ==
    /\ c.phase = "body"
    /\ Answer(c) \/ Fail(c)

\* The timer of either; fetch takes a timeout of 0, as NaN, for none.
Bounded(c) == c.timeout # NaN /\ c.timeout # 0
Due(c) == c \in Fetching /\ Bounded(c) /\ now >= c.since + c.timeout

TimeOut(c) == Due(c) /\ Fail(c)

\* Nothing is awaited between a call without authProvider and its request for a
\* socket, and a free socket is given at once.
Tick ==
    /\ now < MaxTime
    /\ \A c \in calls : ~Due(c)
    /\ \A c \in calls : c.phase = "socket" => Cardinality(Fetching) >= Sockets
    /\ now' = now + 1
    /\ UNCHANGED <<phase, deadline, queuedAt, calls>>

Next ==
    \/ \E r \in Requests : Arrive(r) \/ Enqueue(r) \/ ExecuteAlone(r)
    \/ Dispatch
    \/ \E c \in calls : \/ ReceiveToken(c) \/ TakeSocket(c) \/ ReceiveHeaders(c)
                        \/ ReceiveBody(c) \/ TimeOut(c)
    \/ Tick

Spec == Init /\ [][Next]_vars

CallAdvances(c) == ReceiveToken(c) \/ TakeSocket(c) \/ TimeOut(c)

\* Timers expire, and time passes while one is pending; tokens and sockets are
\* given in the end.  A subgraph need not answer, nor a request reach an executor.
Fairness ==
    /\ WF_vars(Dispatch)
    /\ WF_vars(Tick /\ (Queue # {} \/ (\E c \in Fetching : Bounded(c))))
    /\ \A R \in SUBSET Requests : WF_vars(\E c \in calls : c.reqs = R /\ CallAdvances(c))

FairSpec == Spec /\ Fairness

-----------------------------------------------------------------------------
Call == [reqs : SUBSET Requests, batch : SUBSET Requests, timeout : Nat \cup {NaN},
         xTimeout : Nat \cup {NaN}, phase : {"token", "socket", "headers", "body"},
         since : Nat, waited : Nat]

\* Types; no call is made without time left.
TypeOK ==
    /\ now \in Nat
    /\ phase \in [Requests -> {"new", "running", "queued", "sent", "answered", "failed"}]
    /\ deadline \in [Requests -> Nat \cup {NaN}]
    /\ queuedAt \in Nat
    /\ calls \subseteq Call

\* The upstream calls a deadline bounds are really bounded by it, and by the
\* earliest one among the requests batched together: while the response is
\* awaited, the clock has not passed that deadline less executionPadding, but
\* for the time the call waited for a token and a socket; while the body is
\* read, it is later by no more than the timeout again; and the subgraph was
\* told to stop at that time less upstreamPadding, or after the threshold.
CallsEndInTime ==
    \A c \in calls : c \in Fetching /\ Bounded(c) =>
        \A r \in c.reqs :
            LET end == deadline[r] - ExecutionPadding + c.waited
            IN /\ deadline[r] # NaN
               /\ now <= IF c.phase = "headers" THEN end ELSE end + c.timeout
               /\ c.phase = "headers" =>
                     c.since + c.xTimeout <= Higher(end - UpstreamPadding, c.since + Threshold)

\* A request that was sent is waiting for a call of its batch that is still
\* under way: Promise.all never leaves it without one, though calls of the same
\* batch end in any order, and some after their requests were rejected.
SentIsUnderWay ==
    \A r \in Requests : phase[r] = "sent" => \E c \in calls : r \in c.batch

\* A request that waits for the dataloader is settled in the end, whatever the
\* subgraph does, unless some call has no bound: of its own batch, or of another
\* that keeps the socket it needs (or the model's clock ends).
QueuedSettles ==
    \A r \in Requests :
        phase[r] = "queued" ~>
            \/ phase[r] \in {"answered", "failed"} \/ now = MaxTime
            \/ \E c \in calls : ~Bounded(c)

\* config/src/index.ts says of hardMaxUpstreamTimeoutMillis: "Maximum time to
\* allot upstream calls, no matter how much time is left".
AllotmentIsBounded == \A c \in Fetching : now <= c.since + MaxTimeout
=============================================================================
