-------------------------- MODULE UpstreamCallsProofs --------------------------
(***************************************************************************)
(* Theorems about UpstreamCalls, for any number of requests and sockets,   *)
(* any timeouts and paddings, and every division of batches into calls.    *)
(*                                                                         *)
(* CallsEndInTime speaks of calls that have a socket.  That they keep to    *)
(* the deadline follows from the time that was left when the timeout was    *)
(* computed, which CallOK remembers of every call until it has a response. *)
(***************************************************************************)
EXTENDS UpstreamCalls, WellFoundedInduction, TLAPS

\* A call knows its requests, all of which were sent, and when they must be answered.
CallOK(c) ==
    /\ c.reqs \subseteq c.batch
    /\ \A r \in c.batch : phase[r] \in {"sent", "answered", "failed"}
    /\ c.since <= now
    /\ c.xTimeout = paddedTimeout(c.timeout)
    /\ c.phase \in {"token", "socket"} => c.waited = 0
    /\ c.timeout # NaN => \A r \in c.reqs :
          /\ deadline[r] # NaN
          /\ IF c.phase = "body"
             THEN Bounded(c) => c.since <= deadline[r] - ExecutionPadding + c.waited
             ELSE c.since + c.timeout <= deadline[r] - ExecutionPadding + c.waited

\* Timers fire on time.
TimersFire == \A c \in calls : c \in Fetching /\ Bounded(c) => now <= c.since + c.timeout

IInv == TypeOK /\ SentIsUnderWay /\ TimersFire /\ \A c \in calls : CallOK(c)

-----------------------------------------------------------------------------
\* Deadlines have a minimum.
LEMMA NatMinimum ==
    ASSUME NEW S \in SUBSET Nat, S # {}
    PROVE  \E m \in S : \A n \in S : m <= n
  <1> DEFINE lt == OpToRel(<, Nat)
  <1>1. IsWellFoundedOn(lt, Nat) BY NatLessThanWellFounded
  <1>2. \A m, n \in Nat : <<m, n>> \in lt <=> m < n BY DEF OpToRel
  <1> HIDE DEF lt
  <1>3. PICK m \in S : \A n \in S : ~(<<n, m>> \in lt) BY <1>1, WFMin
  <1>4. \A n \in S : m \in Nat /\ n \in Nat /\ ~(n < m) BY <1>2, <1>3
  <1>5. \A n \in S : m <= n BY <1>4
  <1>6. QED BY <1>5

\* pickDeadline returns the earliest deadline of a batch.
LEMMA EarliestDeadline ==
    ASSUME TypeOK, NEW R \in SUBSET Requests, R # {}, \A r \in R : deadline[r] # NaN
    PROVE  pickDeadline(R) \in Nat /\ \A r \in R : pickDeadline(R) <= deadline[r]
  <1> DEFINE D == {deadline[r] : r \in R}
  <1>1. D \in SUBSET Nat /\ D # {} BY DEF TypeOK
  <1>2. \E d \in D : \A r \in R : d <= deadline[r]
    <2>1. \A r \in R : deadline[r] \in D OBVIOUS
    <2> HIDE DEF D
    <2>2. PICK d \in D : \A e \in D : d <= e BY <1>1, NatMinimum
    <2>3. QED BY <2>1, <2>2
  <1>3. pickDeadline(R) = CHOOSE d \in D : \A r \in R : d <= deadline[r]
    BY DEF pickDeadline
  <1>4. pickDeadline(R) \in D /\ \A r \in R : pickDeadline(R) <= deadline[r]
    BY <1>2, <1>3
  <1>5. QED BY <1>1, <1>4

\* What load makes of a set of requests, if it makes a call at all: no deadline is malformed
\* unless the timeout is, and none comes before the timeout and the padding have passed.
LEMMA LoadedCall ==
    ASSUME TypeOK, NEW B \in SUBSET Requests, NEW R \in SUBSET B, R # {},
           NEW c, c = Load(R, B), ~Skipped(c)
    PROVE  /\ c \in Call /\ c.reqs = R /\ c.batch = B /\ c.since = now /\ c.waited = 0
           /\ c.phase \in {"token", "socket"} /\ c.xTimeout = paddedTimeout(c.timeout)
           /\ c.timeout # NaN => \A r \in R :
                 deadline[r] # NaN /\ c.since + c.timeout <= deadline[r] - ExecutionPadding
  <1> DEFINE t == computeTimeout(R)
  <1>0. /\ now \in Nat /\ NaN \notin Int /\ MaxTimeout \in Nat /\ ExecutionPadding \in Nat
        /\ Threshold \in Nat /\ UpstreamPadding \in Nat
    BY UpstreamAssumption DEF UpstreamAssumption, Durations, TypeOK
  <1>1. CASE \E r \in R : deadline[r] = NaN
    <2>1. t = NaN BY <1>1 DEF computeTimeout, pickDeadline
    <2>2. QED BY <2>1, <1>0 DEF Load, Call, paddedTimeout
  <1>2. CASE \A r \in R : deadline[r] # NaN
    <2>1. pickDeadline(R) \in Nat /\ \A r \in R : pickDeadline(R) <= deadline[r]
      BY <1>2, EarliestDeadline
    <2>2. \A r \in R : deadline[r] \in Nat BY <1>2 DEF TypeOK
    <2>3. /\ t \in Int /\ t # NaN
          /\ \A r \in R : now + t <= deadline[r] - ExecutionPadding
      BY <2>1, <2>2, <1>0 DEF computeTimeout, Lower
    <2> HIDE DEF t
    <2>4. c.timeout = t BY DEF Load, t
    <2>5. t \in Nat BY <2>3, <2>4 DEF Skipped
    <2>6. paddedTimeout(t) \in Nat BY <2>3, <2>5, <1>0 DEF paddedTimeout, Higher
    <2>7. /\ c.reqs = R /\ c.batch = B /\ c.since = now /\ c.waited = 0
          /\ c.phase \in {"token", "socket"} /\ c.xTimeout = paddedTimeout(t)
      BY DEF Load, t
    <2>8. c \in Call BY <2>5, <2>6, <1>0 DEF Load, Call, t
    <2>9. QED BY <2>2, <2>3, <2>4, <2>7, <2>8, <1>2
  <1>3. QED BY <1>1, <1>2

-----------------------------------------------------------------------------
\* Nothing has been sent.
LEMMA InitInv == Init => IInv
  BY UpstreamAssumption
  DEF Init, IInv, TypeOK, SentIsUnderWay, TimersFire, UpstreamAssumption, Durations

\* A request has its deadline before any call is made for it.
LEMMA ArriveInv == ASSUME IInv, NEW r \in Requests, Arrive(r) PROVE IInv'
  <1>1. PICK t \in Timeouts :
            deadline' = [deadline EXCEPT ![r] = IF t = NaN THEN NaN ELSE now + Lower(t, MaxExecution)]
    BY DEF Arrive
  <1>2. phase[r] = "new" /\ phase' = [phase EXCEPT ![r] = "running"]
        /\ UNCHANGED <<now, queuedAt, calls>>
    BY DEF Arrive
  <1>3. TypeOK'
    BY <1>1, <1>2, UpstreamAssumption DEF IInv, TypeOK, UpstreamAssumption, Durations, Lower
  <1>4. \A q \in Requests \ {r} : phase'[q] = phase[q] /\ deadline'[q] = deadline[q]
    BY <1>1, <1>2 DEF IInv, TypeOK
  <1>5. phase'[r] = "running" BY <1>2 DEF IInv, TypeOK
  <1>6. SentIsUnderWay' BY <1>2, <1>4, <1>5 DEF IInv, SentIsUnderWay
  <1>7. TimersFire' BY <1>2 DEF IInv, TimersFire, Fetching, Bounded
  <1>8. ASSUME NEW c \in calls' PROVE CallOK(c)'
    <2>1. c \in Call /\ CallOK(c) BY <1>2 DEF IInv, TypeOK
    <2>2. c.batch \subseteq Requests \ {r} BY <2>1, <1>2 DEF CallOK, Call
    <2>3. QED BY <2>1, <2>2, <1>2, <1>4 DEF CallOK, paddedTimeout
  <1>9. QED BY <1>3, <1>6, <1>7, <1>8 DEF IInv

\* A step that settles requests of a batch, and makes or ends calls.
LEMMA SettleInv ==
    ASSUME IInv, NEW B \in SUBSET Requests, NEW outcome \in {"sent", "answered", "failed"},
           Settle(B, outcome), UNCHANGED <<now, deadline>>, queuedAt' \in Nat,
           calls' \subseteq Call, SentIsUnderWay',
           \A c \in calls' : c \in calls \/
               /\ c.phase \in {"token", "socket"}
               /\ c.batch \subseteq B /\ c.reqs \subseteq c.batch /\ c.since <= now
               /\ c.xTimeout = paddedTimeout(c.timeout) /\ c.waited = 0
               /\ c.timeout # NaN => \A r \in c.reqs :
                     /\ deadline[r] # NaN
                     /\ c.since + c.timeout <= deadline[r] - ExecutionPadding + c.waited
    PROVE  IInv'
  <1>1. phase' = [r \in Requests |-> IF r \in B /\ phase[r] \notin {"answered", "failed"}
                                     THEN outcome ELSE phase[r]]
    BY DEF Settle
  <1>2. TypeOK' BY <1>1 DEF IInv, TypeOK
  <1>3. TimersFire' BY DEF IInv, TimersFire, Fetching, Bounded
  <1>4. ASSUME NEW c \in calls' PROVE CallOK(c)'
    <2>1. c \in Call /\ c.batch \subseteq Requests BY DEF Call
    <2>2. CASE c \in calls
      <3>1. CallOK(c) BY <2>2 DEF IInv
      <3>2. \A r \in c.batch : phase'[r] \in {"sent", "answered", "failed"}
        BY <1>1, <2>1, <3>1 DEF CallOK
      <3>3. QED BY <3>1, <3>2 DEF CallOK, paddedTimeout
    <2>3. CASE c \notin calls
      <3>1. \A r \in c.batch : phase'[r] \in {"sent", "answered", "failed"}
        BY <1>1, <2>1, <2>3
      <3>2. QED BY <2>3, <3>1 DEF CallOK, paddedTimeout
    <2>4. QED BY <2>2, <2>3
  <1>5. QED BY <1>2, <1>3, <1>4 DEF IInv

\* Requests are sent together: each is in a call, or all are failed.
LEMMA SendInv ==
    ASSUME IInv, NEW P, \A R \in P : R # {} /\ R \subseteq Requests,
           Send(P), queuedAt' \in Nat
    PROVE  IInv'
  <1> DEFINE B == UNION P
             made == {Load(R, B) : R \in P}
             outcome == IF \E c \in made : Skipped(c) THEN "failed" ELSE "sent"
  <1>1. /\ B \in SUBSET Requests /\ outcome \in {"sent", "answered", "failed"}
        /\ Settle(B, outcome) /\ UNCHANGED <<now, deadline>>
        /\ calls' = calls \cup {c \in made : ~Skipped(c)}
    BY DEF Send
  <1>2. TypeOK /\ now \in Nat /\ calls \subseteq Call BY DEF IInv, TypeOK
  <1>3. ASSUME NEW c \in made, ~Skipped(c)
        PROVE  /\ c \in Call /\ c.phase \in {"token", "socket"}
               /\ c.batch \subseteq B /\ c.reqs \subseteq c.batch /\ c.since <= now
               /\ c.xTimeout = paddedTimeout(c.timeout) /\ c.waited = 0
               /\ c.timeout # NaN => \A r \in c.reqs :
                     /\ deadline[r] # NaN
                     /\ c.since + c.timeout <= deadline[r] - ExecutionPadding + c.waited
    <2>1. PICK R \in P : c = Load(R, B) OBVIOUS
    <2>2. R # {} /\ R \in SUBSET B OBVIOUS
    <2> HIDE DEF B, made, outcome
    <2>3. /\ c \in Call /\ c.reqs = R /\ c.batch = B /\ c.since = now /\ c.waited = 0
          /\ c.phase \in {"token", "socket"} /\ c.xTimeout = paddedTimeout(c.timeout)
          /\ c.timeout # NaN => \A r \in R :
                deadline[r] # NaN /\ c.since + c.timeout <= deadline[r] - ExecutionPadding
      BY <1>1, <1>2, <1>3, <2>1, <2>2, LoadedCall
    <2>4. c.timeout # NaN => \A r \in R : deadline[r] \in Nat
      BY <1>1, <1>2, <2>2, <2>3 DEF TypeOK
    <2>5. ExecutionPadding \in Nat BY UpstreamAssumption DEF UpstreamAssumption, Durations
    <2>6. c.timeout # NaN => \A r \in R :
              c.since + c.timeout <= deadline[r] - ExecutionPadding + c.waited
      BY <2>3, <2>4, <2>5
    <2>7. QED BY <2>2, <2>3, <2>6, <1>2
  <1>4. SentIsUnderWay'
    <2> SUFFICES ASSUME NEW r \in Requests, phase'[r] = "sent"
                 PROVE  \E c \in calls' : r \in c.batch
      BY DEF SentIsUnderWay
    <2>1. CASE r \in B
      <3>1. PICK R \in P : r \in R BY <2>1
      <3>2. CASE outcome = "sent"
        <4>1. Load(R, B) \in calls' BY <1>1, <3>2
        <4>2. Load(R, B).batch = B BY DEF Load
        <4>3. QED BY <2>1, <4>1, <4>2
      <3>3. CASE outcome = "failed"
        <4>1. phase'[r] # "sent" BY <1>1, <2>1, <3>3 DEF Settle
        <4>2. QED BY <4>1
      <3>4. QED BY <3>2, <3>3
    <2>2. CASE r \notin B
      <3>1. phase[r] = "sent" BY <1>1, <2>2 DEF Settle
      <3>2. QED BY <1>1, <3>1 DEF IInv, SentIsUnderWay
    <2>3. QED BY <2>1, <2>2
  <1>5. calls' \subseteq Call BY <1>1, <1>2, <1>3
  <1> HIDE DEF B, made, outcome
  <1>6. QED BY <1>1, <1>3, <1>4, <1>5, SettleInv

\* A call ends: whoever waited for it alone is settled.
LEMMA EndsInv ==
    ASSUME IInv, NEW c \in calls, NEW outcome \in {"sent", "answered", "failed"},
           Settle(c.batch, outcome), calls' = calls \ {c}, UNCHANGED <<now, deadline, queuedAt>>,
           outcome = "sent" => \E d \in calls \ {c} : d.batch = c.batch
    PROVE  IInv'
  <1>1. calls \subseteq Call /\ queuedAt \in Nat BY DEF IInv, TypeOK
  <1>2. c.batch \in SUBSET Requests BY <1>1 DEF Call
  <1>3. SentIsUnderWay'
    <2> SUFFICES ASSUME NEW r \in Requests, phase'[r] = "sent"
                 PROVE  \E d \in calls' : r \in d.batch
      BY DEF SentIsUnderWay
    <2>1. CASE r \in c.batch
      <3>1. outcome = "sent" BY <2>1 DEF Settle
      <3>2. QED BY <2>1, <3>1
    <2>2. CASE r \notin c.batch
      <3>1. phase[r] = "sent" BY <2>2 DEF Settle
      <3>2. QED BY <2>2, <3>1 DEF IInv, SentIsUnderWay
    <2>3. QED BY <2>1, <2>2
  <1>4. QED BY <1>1, <1>2, <1>3, SettleInv

\* A call is answered: its batch is, if it was the last of it.
LEMMA AnswerInv == ASSUME IInv, NEW c \in calls, Answer(c) PROVE IInv'
  <1> DEFINE others == {d \in calls \ {c} : d.batch = c.batch}
             outcome == IF others = {} THEN "answered" ELSE "sent"
  <1>1. /\ outcome \in {"sent", "answered", "failed"} /\ Settle(c.batch, outcome)
        /\ calls' = calls \ {c} /\ UNCHANGED <<now, deadline, queuedAt>>
    BY DEF Answer
  <1>2. outcome = "sent" => \E d \in calls \ {c} : d.batch = c.batch OBVIOUS
  <1> HIDE DEF others, outcome
  <1>3. QED BY <1>1, <1>2, EndsInv

\* A call fails, and so does its batch.
LEMMA FailInv == ASSUME IInv, NEW c \in calls, Fail(c) PROVE IInv'
  <1> DEFINE outcome == "failed"
  <1>1. /\ outcome \in {"sent", "answered", "failed"} /\ outcome # "sent"
        /\ Settle(c.batch, outcome) /\ calls' = calls \ {c}
        /\ UNCHANGED <<now, deadline, queuedAt>>
    BY DEF Fail
  <1> HIDE DEF outcome
  <1>2. QED BY <1>1, EndsInv

\* A call goes on to its next phase.
LEMMA BecomesInv ==
    ASSUME IInv, NEW c \in calls, NEW d \in Call, Becomes(c, d), CallOK(d),
           d.batch = c.batch, d.phase \in {"headers", "body"} => d.since = now
    PROVE  IInv'
  <1>1. calls' = (calls \ {c}) \cup {d} /\ UNCHANGED <<now, phase, deadline, queuedAt>>
    BY DEF Becomes
  <1>2. TypeOK' BY <1>1 DEF IInv, TypeOK
  <1>3. SentIsUnderWay' BY <1>1 DEF IInv, SentIsUnderWay
  <1>4. TimersFire'
    <2>1. now \in Nat BY DEF IInv, TypeOK
    <2>2. d.timeout # NaN => d.timeout \in Nat BY DEF Call
    <2>3. d.phase \in {"headers", "body"} /\ Bounded(d) => now <= d.since + d.timeout
      BY <2>1, <2>2 DEF Bounded
    <2>4. QED BY <1>1, <2>3 DEF IInv, TimersFire, Fetching, Bounded
  <1>5. \A e \in calls' : CallOK(e) BY <1>1 DEF IInv
  <1>6. \A e \in calls' : CallOK(e)' BY <1>1, <1>5 DEF CallOK, paddedTimeout
  <1>7. QED BY <1>2, <1>3, <1>4, <1>6 DEF IInv

\* The token.
LEMMA ReceiveTokenInv == ASSUME IInv, NEW c \in calls, ReceiveToken(c) PROVE IInv'
  <1> DEFINE d == [c EXCEPT !.phase = "socket"]
  <1>1. c \in Call /\ CallOK(c) /\ c.phase = "token" BY DEF IInv, TypeOK, ReceiveToken
  <1>2. /\ d \in Call /\ d.phase = "socket" /\ d.since = c.since /\ d.waited = c.waited
        /\ d.reqs = c.reqs /\ d.batch = c.batch /\ d.timeout = c.timeout
        /\ d.xTimeout = c.xTimeout
    BY <1>1 DEF Call
  <1>3. CASE Becomes(c, d)
    <2> HIDE DEF d
    <2>1. CallOK(d) BY <1>1, <1>2 DEF CallOK
    <2>2. QED BY <1>2, <1>3, <2>1, BecomesInv
  <1>4. CASE Fail(c) BY <1>4, FailInv
  <1>5. QED BY <1>3, <1>4 DEF ReceiveToken

\* The socket: the time the call has waited for it is counted.
LEMMA TakeSocketInv == ASSUME IInv, NEW c \in calls, TakeSocket(c) PROVE IInv'
  <1> DEFINE d == [c EXCEPT !.phase = "headers", !.since = now, !.waited = now - c.since]
  <1>1. c \in Call /\ CallOK(c) /\ c.phase = "socket" /\ Becomes(c, d)
    BY DEF IInv, TypeOK, TakeSocket
  <1>2. now \in Nat /\ c.since \in Nat /\ c.since <= now BY <1>1 DEF IInv, TypeOK, CallOK, Call
  <1>3. now - c.since \in Nat BY <1>2
  <1>4. /\ d \in Call /\ d.phase = "headers" /\ d.since = now /\ d.waited = now - c.since
        /\ d.reqs = c.reqs /\ d.batch = c.batch /\ d.timeout = c.timeout
        /\ d.xTimeout = c.xTimeout
    BY <1>1, <1>2, <1>3 DEF Call
  <1> HIDE DEF d
  <1>5. c.timeout # NaN => \A r \in c.reqs :
            /\ deadline[r] # NaN
            /\ now + c.timeout <= deadline[r] - ExecutionPadding + (now - c.since)
    <2> SUFFICES ASSUME c.timeout # NaN, NEW r \in c.reqs
                 PROVE  /\ deadline[r] # NaN
                        /\ now + c.timeout <= deadline[r] - ExecutionPadding + (now - c.since)
      OBVIOUS
    <2>1. deadline[r] # NaN /\ c.since + c.timeout <= deadline[r] - ExecutionPadding + 0
      BY <1>1 DEF CallOK
    <2>2. deadline[r] \in Nat /\ c.timeout \in Nat BY <1>1, <2>1 DEF IInv, TypeOK, Call
    <2>3. ExecutionPadding \in Nat BY UpstreamAssumption DEF UpstreamAssumption, Durations
    <2>4. QED BY <1>2, <2>1, <2>2, <2>3
  <1>6. CallOK(d) BY <1>1, <1>2, <1>4, <1>5 DEF CallOK
  <1>7. QED BY <1>1, <1>4, <1>6, BecomesInv

\* The response: it has come in time, and its body is given the timeout again.
LEMMA ReceiveHeadersInv == ASSUME IInv, NEW c \in calls, ReceiveHeaders(c) PROVE IInv'
  <1> DEFINE d == [c EXCEPT !.phase = "body", !.since = now]
  <1>1. c \in Call /\ CallOK(c) /\ c.phase = "headers" BY DEF IInv, TypeOK, ReceiveHeaders
  <1>2. now \in Nat BY DEF IInv, TypeOK
  <1>3. /\ d \in Call /\ d.phase = "body" /\ d.since = now /\ d.waited = c.waited
        /\ d.reqs = c.reqs /\ d.batch = c.batch /\ d.timeout = c.timeout
        /\ d.xTimeout = c.xTimeout
    BY <1>1, <1>2 DEF Call
  <1>4. CASE Becomes(c, d)
    <2> HIDE DEF d
    <2>1. ASSUME Bounded(c), NEW r \in c.reqs
          PROVE  now <= deadline[r] - ExecutionPadding + c.waited
      <3>1. /\ deadline[r] # NaN /\ c.timeout # NaN
            /\ c.since + c.timeout <= deadline[r] - ExecutionPadding + c.waited
        BY <1>1, <2>1 DEF CallOK, Bounded
      <3>2. /\ deadline[r] \in Nat /\ c.timeout \in Nat /\ c.since \in Nat /\ c.waited \in Nat
            /\ ExecutionPadding \in Nat
        BY <1>1, <3>1, UpstreamAssumption DEF IInv, TypeOK, Call, UpstreamAssumption, Durations
      <3>3. now <= c.since + c.timeout BY <1>1, <2>1 DEF IInv, TimersFire, Fetching
      <3>4. QED BY <1>2, <3>1, <3>2, <3>3
    <2>2. CallOK(d) BY <1>1, <1>2, <1>3, <2>1 DEF CallOK, Bounded
    <2>3. QED BY <1>3, <1>4, <2>2, BecomesInv
  <1>5. CASE Fail(c) BY <1>5, FailInv
  <1>6. QED BY <1>4, <1>5 DEF ReceiveHeaders

\* A tick: no timer is due, and a later clock is no earlier.
LEMMA TickInv == ASSUME IInv, Tick PROVE IInv'
  <1>1. /\ now \in Nat /\ now' = now + 1 /\ UNCHANGED <<phase, deadline, queuedAt, calls>>
        /\ \A c \in calls : ~Due(c)
    BY DEF Tick, IInv, TypeOK
  <1>2. TypeOK' BY <1>1 DEF IInv, TypeOK
  <1>3. SentIsUnderWay' BY <1>1 DEF IInv, SentIsUnderWay
  <1>4. TimersFire'
    <2> SUFFICES ASSUME NEW c \in calls, c \in Fetching, Bounded(c)
                 PROVE  now + 1 <= c.since + c.timeout
      BY <1>1 DEF TimersFire, Fetching, Bounded
    <2>1. c \in Call BY DEF IInv, TypeOK
    <2>2. c.since \in Nat /\ c.timeout \in Nat BY <2>1 DEF Call, Bounded
    <2>3. ~(now >= c.since + c.timeout) BY <1>1 DEF Due
    <2>4. QED BY <1>1, <2>2, <2>3
  <1>5. ASSUME NEW c \in calls PROVE CallOK(c)'
    <2>1. CallOK(c) /\ c.since \in Nat BY DEF IInv, TypeOK, Call
    <2>2. c.since <= now + 1 BY <1>1, <2>1 DEF CallOK
    <2>3. QED BY <1>1, <2>1, <2>2 DEF CallOK, paddedTimeout, Bounded
  <1>6. QED BY <1>1, <1>2, <1>3, <1>4, <1>5 DEF IInv

\* A request is put into the queue.
LEMMA EnqueueInv == ASSUME IInv, NEW r \in Requests, Enqueue(r) PROVE IInv'
  <1>1. /\ phase[r] = "running" /\ phase' = [phase EXCEPT ![r] = "queued"]
        /\ UNCHANGED <<now, deadline, calls>> /\ queuedAt' \in {now, queuedAt}
    BY DEF Enqueue
  <1>2. \A q \in Requests : phase'[q] = IF q = r THEN "queued" ELSE phase[q]
    BY <1>1 DEF IInv, TypeOK
  <1>3. TypeOK'
    <2>1. queuedAt' \in Nat BY <1>1 DEF IInv, TypeOK
    <2>2. QED BY <1>1, <2>1 DEF IInv, TypeOK
  <1>4. SentIsUnderWay' BY <1>1, <1>2 DEF IInv, SentIsUnderWay
  <1>5. TimersFire' BY <1>1 DEF IInv, TimersFire, Fetching, Bounded
  <1>6. ASSUME NEW c \in calls PROVE CallOK(c)'
    <2>1. c \in Call /\ CallOK(c) BY DEF IInv, TypeOK
    <2>2. c.batch \subseteq Requests \ {r} BY <1>1, <2>1 DEF CallOK, Call
    <2>3. QED BY <1>1, <1>2, <2>1, <2>2 DEF CallOK, paddedTimeout, Bounded
  <1>7. QED BY <1>1, <1>3, <1>4, <1>5, <1>6 DEF IInv

\* A request is sent alone.
LEMMA ExecuteAloneInv == ASSUME IInv, NEW r \in Requests, ExecuteAlone(r) PROVE IInv'
  <1> DEFINE P == {{r}}
  <1>1. Send(P) /\ queuedAt' = queuedAt BY DEF ExecuteAlone
  <1>2. \A R \in P : R # {} /\ R \subseteq Requests OBVIOUS
  <1> HIDE DEF P
  <1>3. queuedAt \in Nat BY DEF IInv, TypeOK
  <1>4. QED BY <1>1, <1>2, <1>3, SendInv

\* The queue is sent, divided in some way.
LEMMA DispatchInv == ASSUME IInv, Dispatch PROVE IInv'
  <1>1. PICK P \in Divisions(Queue) : Send(P) BY DEF Dispatch
  <1>2. \A R \in P : R # {} /\ R \subseteq Requests
    <2>1. P \in SUBSET ((SUBSET Queue) \ {{}}) BY DEF Divisions
    <2>2. Queue \subseteq Requests BY DEF Queue
    <2>3. \A R \in P : R \in SUBSET Queue /\ R \notin {{}} BY <2>1
    <2>4. QED BY <2>2, <2>3
  <1>3. queuedAt' \in Nat BY DEF Dispatch
  <1>4. QED BY <1>1, <1>2, <1>3, SendInv

\* Every step keeps the invariant.
LEMMA NextInv == IInv /\ [Next]_vars => IInv'
  <1> SUFFICES ASSUME IInv, [Next]_vars PROVE IInv' OBVIOUS
  <1>1. ASSUME NEW r \in Requests, Arrive(r) \/ Enqueue(r) \/ ExecuteAlone(r) PROVE IInv'
    BY <1>1, ArriveInv, EnqueueInv, ExecuteAloneInv
  <1>2. CASE Dispatch BY <1>2, DispatchInv
  <1>3. ASSUME NEW c \in calls, ReceiveToken(c) PROVE IInv' BY <1>3, ReceiveTokenInv
  <1>4. ASSUME NEW c \in calls, TakeSocket(c) PROVE IInv' BY <1>4, TakeSocketInv
  <1>5. ASSUME NEW c \in calls, ReceiveHeaders(c) PROVE IInv' BY <1>5, ReceiveHeadersInv
  <1>6. ASSUME NEW c \in calls, ReceiveBody(c) PROVE IInv'
    BY <1>6, AnswerInv, FailInv DEF ReceiveBody
  <1>7. ASSUME NEW c \in calls, TimeOut(c) PROVE IInv' BY <1>7, FailInv DEF TimeOut
  <1>8. CASE Tick BY <1>8, TickInv
  <1>9. CASE UNCHANGED vars
    <2>1. UNCHANGED <<now, phase, deadline, queuedAt, calls>> BY <1>9 DEF vars
    <2>2. TypeOK' /\ SentIsUnderWay' BY <2>1 DEF IInv, TypeOK, SentIsUnderWay
    <2>3. TimersFire' BY <2>1 DEF IInv, TimersFire, Fetching, Bounded
    <2>4. \A c \in calls' : CallOK(c)' BY <2>1 DEF IInv, CallOK, paddedTimeout, Bounded
    <2>5. QED BY <2>2, <2>3, <2>4 DEF IInv
  <1>10. QED BY <1>1, <1>2, <1>3, <1>4, <1>5, <1>6, <1>7, <1>8, <1>9 DEF Next

\* The inductive invariant of requests and calls.
THEOREM Invariance == Spec => []IInv
  BY InitInv, NextInv, PTL DEF Spec

\* The type invariant: no call is made without time left.
THEOREM TypeCorrect == Spec => []TypeOK
  <1>1. IInv => TypeOK BY DEF IInv
  <1>2. QED BY Invariance, <1>1, PTL

\* A request that was sent always waits for a call of its batch that is under way.
THEOREM SentIsAlwaysUnderWay == Spec => []SentIsUnderWay
  <1>1. IInv => SentIsUnderWay BY DEF IInv
  <1>2. QED BY Invariance, <1>1, PTL

\* Bounded calls keep to the earliest deadline of their requests, but for the time they
\* waited and the time their body takes.
THEOREM CallsAlwaysEndInTime == Spec => []CallsEndInTime
  <1>1. IInv => CallsEndInTime
    <2> SUFFICES ASSUME IInv, NEW c \in calls, c \in Fetching, Bounded(c), NEW r \in c.reqs
                 PROVE  LET end == deadline[r] - ExecutionPadding + c.waited
                        IN /\ deadline[r] # NaN
                           /\ now <= IF c.phase = "headers" THEN end ELSE end + c.timeout
                           /\ c.phase = "headers" =>
                                 c.since + c.xTimeout <=
                                     Higher(end - UpstreamPadding, c.since + Threshold)
      BY DEF CallsEndInTime
    <2> DEFINE end == deadline[r] - ExecutionPadding + c.waited
    <2>1. c \in Call /\ CallOK(c) BY DEF IInv, TypeOK
    <2>2. /\ c.timeout \in Nat /\ c.timeout # NaN /\ c.since \in Nat /\ c.waited \in Nat
          /\ now \in Nat /\ r \in Requests
      BY <2>1 DEF IInv, TypeOK, Call, Bounded
    <2>3. deadline[r] # NaN /\ deadline[r] \in Nat
      BY <2>1, <2>2 DEF CallOK, IInv, TypeOK
    <2>4. ExecutionPadding \in Nat /\ UpstreamPadding \in Nat /\ Threshold \in Nat
      BY UpstreamAssumption DEF UpstreamAssumption, Durations
    <2>5. end \in Int BY <2>2, <2>3, <2>4
    <2>6. now <= c.since + c.timeout BY DEF IInv, TimersFire
    <2>7. c.xTimeout = Higher(Threshold, c.timeout - UpstreamPadding)
      BY <2>1, <2>2 DEF CallOK, paddedTimeout
    <2>8. IF c.phase = "body" THEN c.since <= end ELSE c.since + c.timeout <= end
      BY <2>1, <2>2 DEF CallOK
    <2>9. c.phase \in {"headers", "body"} BY DEF Fetching
    <2> HIDE DEF end
    <2>10. now <= IF c.phase = "headers" THEN end ELSE end + c.timeout
      BY <2>2, <2>5, <2>6, <2>8, <2>9
    <2>11. c.phase = "headers" =>
               c.since + c.xTimeout <= Higher(end - UpstreamPadding, c.since + Threshold)
      BY <2>2, <2>4, <2>5, <2>7, <2>8 DEF Higher
    <2>12. QED BY <2>3, <2>10, <2>11 DEF end
  <1>2. QED BY Invariance, <1>1, PTL

-----------------------------------------------------------------------------
\* No call is given more than the maximum.
TimeoutsFit == \A c \in calls : c.timeout # NaN => c.timeout <= MaxTimeout

\* load gives none, and later steps leave the timeout of a call alone.
LEMMA NextFits == IInv /\ TimeoutsFit /\ [Next]_vars => TimeoutsFit'
  <1> SUFFICES ASSUME IInv, TimeoutsFit, [Next]_vars PROVE TimeoutsFit' OBVIOUS
  <1> USE DEF TimeoutsFit
  <1>1. ASSUME NEW P, \A R \in P : R # {} /\ R \subseteq Requests, Send(P) PROVE TimeoutsFit'
    <2>1. ASSUME NEW R \in P, Load(R, UNION P).timeout # NaN
          PROVE  Load(R, UNION P).timeout <= MaxTimeout
      <3>1. \A r \in R : deadline[r] # NaN
        BY <2>1 DEF Load, computeTimeout, pickDeadline
      <3>2. R # {} /\ R \in SUBSET Requests BY <1>1
      <3>3. pickDeadline(R) \in Nat BY <3>1, <3>2, EarliestDeadline DEF IInv
      <3>4. now \in Nat /\ MaxTimeout \in Nat /\ ExecutionPadding \in Nat
        BY UpstreamAssumption DEF UpstreamAssumption, Durations, IInv, TypeOK
      <3>5. computeTimeout(R) # NaN BY <2>1 DEF Load
      <3>6. computeTimeout(R) <= MaxTimeout
        BY <3>3, <3>4, <3>5 DEF computeTimeout, Lower
      <3>7. QED BY <3>6 DEF Load
    <2>2. \A c \in calls' : c \in calls \/ \E R \in P : c = Load(R, UNION P)
      BY <1>1 DEF Send
    <2>3. QED BY <2>1, <2>2
  <1>2. ASSUME NEW r \in Requests, ExecuteAlone(r) PROVE TimeoutsFit'
    BY <1>1, <1>2 DEF ExecuteAlone
  <1>3. CASE Dispatch
    <2>1. PICK P \in Divisions(Queue) : Send(P) BY <1>3 DEF Dispatch
    <2>2. \A R \in P : R # {} /\ R \subseteq Requests BY <2>1 DEF Divisions, Queue
    <2>3. QED BY <1>1, <2>1, <2>2
  <1>4. ASSUME NEW c \in calls, Answer(c) \/ Fail(c) PROVE TimeoutsFit'
    BY <1>4 DEF Answer, Fail
  <1>5. ASSUME NEW c \in calls, NEW d, d.timeout = c.timeout, Becomes(c, d) PROVE TimeoutsFit'
    BY <1>5 DEF Becomes
  <1>6. ASSUME NEW c \in calls, ReceiveToken(c) PROVE TimeoutsFit'
    <2>1. c \in Call BY DEF IInv, TypeOK
    <2>2. [c EXCEPT !.phase = "socket"].timeout = c.timeout BY <2>1 DEF Call
    <2>3. QED BY <1>4, <1>5, <1>6, <2>2 DEF ReceiveToken
  <1>7. ASSUME NEW c \in calls, TakeSocket(c) PROVE TimeoutsFit'
    <2> DEFINE d == [c EXCEPT !.phase = "headers", !.since = now, !.waited = now - c.since]
    <2>1. c \in Call BY DEF IInv, TypeOK
    <2>2. d.timeout = c.timeout BY <2>1 DEF Call
    <2>3. QED BY <1>5, <1>7, <2>2 DEF TakeSocket
  <1>8. ASSUME NEW c \in calls, ReceiveHeaders(c) PROVE TimeoutsFit'
    <2>1. c \in Call BY DEF IInv, TypeOK
    <2>2. [c EXCEPT !.phase = "body", !.since = now].timeout = c.timeout BY <2>1 DEF Call
    <2>3. QED BY <1>4, <1>5, <1>8, <2>2 DEF ReceiveHeaders
  <1>9. ASSUME NEW c \in calls, ReceiveBody(c) \/ TimeOut(c) PROVE TimeoutsFit'
    BY <1>4, <1>9 DEF ReceiveBody, TimeOut
  <1>10. CASE (\E r \in Requests : Arrive(r) \/ Enqueue(r)) \/ Tick \/ UNCHANGED vars
    BY <1>10 DEF Arrive, Enqueue, Tick, vars
  <1>11. QED BY <1>2, <1>3, <1>6, <1>7, <1>8, <1>9, <1>10 DEF Next

\* Of a call that has a timer at all, neither of the waits for a response and for its body
\* is longer than the maximum time allotted to upstream calls.
THEOREM BoundedCallsKeepToTheMaximum ==
    Spec => [](\A c \in Fetching : Bounded(c) => now <= c.since + MaxTimeout)
  <1>1. Init => TimeoutsFit BY DEF Init, TimeoutsFit
  <1>2. ASSUME IInv, TimeoutsFit, NEW c \in Fetching, Bounded(c)
        PROVE  now <= c.since + MaxTimeout
    <2>1. c \in calls /\ c \in Call BY <1>2 DEF Fetching, IInv, TypeOK
    <2>2. c.timeout \in Nat /\ c.since \in Nat /\ now \in Nat /\ MaxTimeout \in Nat
      BY <1>2, <2>1, UpstreamAssumption
      DEF Call, Bounded, IInv, TypeOK, UpstreamAssumption, Durations
    <2>3. c.timeout <= MaxTimeout /\ now <= c.since + c.timeout
      BY <1>2, <2>1 DEF TimeoutsFit, Bounded, IInv, TimersFire
    <2>4. QED BY <2>2, <2>3
  <1>3. IInv /\ TimeoutsFit => \A c \in Fetching : Bounded(c) => now <= c.since + MaxTimeout
    BY <1>2
  <1>4. QED BY <1>1, <1>3, NextFits, Invariance, PTL DEF Spec
================================================================================
