------------------------ MODULE ClusterReadinessProofs ------------------------
(***************************************************************************)
(* Machine-checked proofs about the readiness protocol, for any number of  *)
(* workers, stages and polls.                                              *)
(***************************************************************************)
EXTENDS ClusterReadiness, FiniteSetTheorems, TLAPS

(* The inductive invariant.                                                *)

\* Polls that have not begun have left no trace.
Fresh ==
    \A p \in Poll : p >= requestIdSeq =>
        /\ promise[p] = "uncalled"
        /\ p \notin requests /\ p \notin timers /\ p \notin calm
        /\ asked[p] = {} /\ silent[p] = {} /\ responses[p] = {}
        /\ \A m \in resps : m.id # p
        /\ \A r \in reqs : r[2] # p

\* A poll that has begun is in the map while an answer is outstanding.
Registered ==
    \A p \in Poll : p < requestIdSeq =>
        /\ promise[p] # "uncalled"
        /\ p \in requests <=> silent[p] # {} \/ asked[p] = {}
        /\ promise[p] = "pending" => asked[p] # {} /\ p \in requests

\* request.pending counts the asked workers whose answer is outstanding.
Counted ==
    \A p \in Poll : silent[p] \subseteq asked[p] /\ pending[p] = Cardinality(silent[p])

\* A worker is sent one request per poll, and gives one answer to it.
OneMessage ==
    /\ \A r \in reqs :
          /\ r[1] \in silent[r[2]]
          /\ \A m \in resps : ~(m.worker = r[1] /\ m.id = r[2])
    /\ \A m \in resps : m.worker \in silent[m.id]
    /\ \A m, n \in resps : m.worker = n.worker /\ m.id = n.id => m = n

\* An answer under way tells the truth about a worker that only gets readier.
Truthful ==
    \A m \in resps :
        /\ m.readiness => EvaluateChecks(m.worker)
        /\ ~m.readiness => m.id \notin calm

\* What the primary has recorded is what the workers that answered said.
Recorded ==
    \A p \in Poll :
        /\ FALSE \notin responses[p] =>
              \A w \in asked[p] \ silent[p] : EvaluateChecks(w)
        /\ FALSE \in responses[p] => p \notin calm

\* A calm poll is about workers that are all ready.
CalmIsReady ==
    \A p \in calm :
        workersForked /\ asked[p] # {} /\ \A w \in asked[p] : EvaluateChecks(w)

IInv ==
    /\ TypeOK
    /\ Fresh
    /\ Registered
    /\ Counted
    /\ OneMessage
    /\ Truthful
    /\ Recorded
    /\ CalmIsReady
    /\ ReadyIsEarned
    /\ NoFalseAlarm

-----------------------------------------------------------------------------
(* Facts about the operators.                                              *)

\* Progress of a worker's start-up never makes a ready worker unready.
LEMMA ChecksPersist ==
    ASSUME TypeOK, NEW w \in Worker, EvaluateChecks(w),
           \A v \in Worker : stages[v] \subseteq stages'[v]
    PROVE  EvaluateChecks(w)'
  BY DEF EvaluateChecks

\* A set of workers is finite, and a count of them is a natural number.
LEMMA WorkerSetsFinite ==
    ASSUME NEW S \in SUBSET Worker
    PROVE  IsFiniteSet(S) /\ Cardinality(S) \in Nat
  BY WorkerAssumption, FS_Subset, FS_CardinalityType

\* One answer fewer is outstanding; none is when the count was one.
LEMMA CountDown ==
    ASSUME NEW S \in SUBSET Worker, NEW w \in S
    PROVE  /\ Cardinality(S) >= 1
           /\ Cardinality(S \ {w}) = Cardinality(S) - 1
           /\ Cardinality(S) = 1 <=> S \ {w} = {}
<1>1. IsFiniteSet(S) /\ IsFiniteSet(S \ {w})
  BY WorkerSetsFinite
<1>2. Cardinality(S) \in Nat /\ Cardinality(S \ {w}) \in Nat
  BY WorkerSetsFinite
<1>3. Cardinality(S \ {w}) = Cardinality(S) - 1
  BY <1>1, FS_RemoveElement
<1>4. Cardinality(S \ {w}) = 0 <=> S \ {w} = {}
  BY <1>1, FS_EmptySet
<1> QED
  BY <1>2, <1>3, <1>4

-----------------------------------------------------------------------------
(* The steps.                                                              *)

LEMMA InitIInv == Init => IInv
<1> SUFFICES ASSUME Init PROVE IInv
  OBVIOUS
<1>1. TypeOK
  <2>1. requestIdSeq \in 0 .. MaxPolls
    BY MaxPollsAssumption DEF Init
  <2> QED
    BY <2>1 DEF Init, TypeOK
<1>2. Counted
  BY FS_EmptySet DEF Init, Counted
<1> QED
  BY <1>1, <1>2 DEF Init, IInv, Fresh, Registered, OneMessage, Truthful, Recorded,
     CalmIsReady, ReadyIsEarned, NoFalseAlarm, Poll

LEMMA ForkIInv ==
    ASSUME IInv, NEW w \in Worker, Fork(w)
    PROVE  IInv'
<1> USE DEF IInv, Fork, requestVars, history
<1>1. TypeOK'
  BY DEF TypeOK
<1>2. (Fresh /\ Registered /\ Counted /\ OneMessage /\ NoFalseAlarm)'
  BY DEF Fresh, Registered, Counted, OneMessage, NoFalseAlarm
<1>3. (Truthful /\ Recorded /\ CalmIsReady /\ ReadyIsEarned)'
  BY DEF Truthful, Recorded, CalmIsReady, ReadyIsEarned, EvaluateChecks
<1> QED
  BY <1>1, <1>2, <1>3

LEMMA StageReadyIInv ==
    ASSUME IInv, NEW w \in Worker, NEW s \in Stage, StageReady(w, s)
    PROVE  IInv'
<1> USE DEF IInv, StageReady, requestVars, history
<1>1. TypeOK'
  BY DEF TypeOK
<1>2. (Fresh /\ Registered /\ Counted /\ OneMessage /\ NoFalseAlarm)'
  BY DEF Fresh, Registered, Counted, OneMessage, NoFalseAlarm
<1>3. ASSUME NEW v \in Worker, EvaluateChecks(v) PROVE EvaluateChecks(v)'
  <2>1. \A u \in Worker : stages[u] \subseteq stages'[u]
    BY DEF TypeOK
  <2> QED
    BY <1>3, <2>1, ChecksPersist
<1>4. /\ \A m \in resps : m.worker \in Worker /\ m.id \in Poll
      /\ \A p \in Poll : asked[p] \subseteq Worker
      /\ calm \subseteq Poll
  BY DEF TypeOK, Response
<1>5. Truthful'
  BY <1>3, <1>4 DEF Truthful
<1>6. Recorded'
  BY <1>3, <1>4 DEF Recorded
<1>7. (CalmIsReady /\ ReadyIsEarned)'
  BY <1>3, <1>4 DEF CalmIsReady, ReadyIsEarned
<1> QED
  BY <1>1, <1>2, <1>5, <1>6, <1>7

LEMMA MarkWorkersForkedIInv ==
    ASSUME IInv, MarkWorkersForked
    PROVE  IInv'
<1> USE DEF IInv, MarkWorkersForked, requestVars, history
<1>1. TypeOK'
  BY DEF TypeOK
<1>2. (Fresh /\ Registered /\ Counted /\ OneMessage /\ NoFalseAlarm)'
  BY DEF Fresh, Registered, Counted, OneMessage, NoFalseAlarm
<1>3. (Truthful /\ Recorded /\ CalmIsReady /\ ReadyIsEarned)'
  BY DEF Truthful, Recorded, CalmIsReady, ReadyIsEarned, EvaluateChecks
<1> QED
  BY <1>1, <1>2, <1>3

\* Losing messages takes nothing from what is known of the others.
LEMMA LoseWorkerIInv ==
    ASSUME IInv, NEW w \in Worker, LoseWorker(w)
    PROVE  IInv'
<1> USE DEF IInv, LoseWorker, requestVars, history
<1>1. /\ reqs' \subseteq reqs
      /\ resps' \subseteq resps
  OBVIOUS
<1>2. TypeOK'
  BY <1>1 DEF TypeOK
<1>3. (Fresh /\ OneMessage)'
  BY <1>1 DEF Fresh, OneMessage
<1>4. (Registered /\ Counted /\ NoFalseAlarm)'
  BY DEF Registered, Counted, NoFalseAlarm
<1>5. (Truthful /\ Recorded /\ CalmIsReady /\ ReadyIsEarned)'
  BY <1>1 DEF Truthful, Recorded, CalmIsReady, ReadyIsEarned, EvaluateChecks
<1> QED
  BY <1>2, <1>3, <1>4, <1>5

LEMMA NoticeLossIInv ==
    ASSUME IInv, NEW w \in Worker, NoticeLoss(w)
    PROVE  IInv'
<1> USE DEF IInv, NoticeLoss, requestVars, history
<1>1. reqs' \subseteq reqs
  OBVIOUS
<1>2. TypeOK'
  BY <1>1 DEF TypeOK
<1>3. (Fresh /\ OneMessage)'
  BY <1>1 DEF Fresh, OneMessage
<1>4. (Registered /\ Counted /\ NoFalseAlarm)'
  BY DEF Registered, Counted, NoFalseAlarm
<1>5. (Truthful /\ Recorded /\ CalmIsReady /\ ReadyIsEarned)'
  BY DEF Truthful, Recorded, CalmIsReady, ReadyIsEarned, EvaluateChecks
<1> QED
  BY <1>2, <1>3, <1>4, <1>5

LEMMA TimeoutIInv ==
    ASSUME IInv, NEW p \in Poll, Timeout(p)
    PROVE  IInv'
<1> USE DEF IInv, Timeout, workerVars, history
<1>1. promise'[p] \in {promise[p], "error"} /\ (promise[p] # "pending" => promise'[p] = promise[p])
  BY DEF Done, TypeOK
<1>2. TypeOK'
  BY DEF TypeOK, Done
<1>3. (Fresh /\ Registered)'
  BY <1>1 DEF Fresh, Registered, TypeOK
<1>4. (Counted /\ OneMessage)'
  BY DEF Counted, OneMessage
<1>5. (Truthful /\ Recorded /\ CalmIsReady)'
  BY DEF Truthful, Recorded, CalmIsReady, EvaluateChecks
<1>6. (ReadyIsEarned /\ NoFalseAlarm)'
  BY <1>1 DEF ReadyIsEarned, NoFalseAlarm, EvaluateChecks, TypeOK
<1> QED
  BY <1>2, <1>3, <1>4, <1>5, <1>6

\* The request leaves, the answer comes: the worker still has given just one.
LEMMA AnswerRequestIInv ==
    ASSUME IInv, NEW w \in Worker, NEW p \in Poll, AnswerRequest(w, p)
    PROVE  IInv'
<1> DEFINE a == [worker |-> w, id |-> p, readiness |-> EvaluateChecks(w)]
<1> USE DEF IInv, AnswerRequest, requestVars, workerVars, history
<1>1. /\ reqs' = reqs \ {<<w, p>>} /\ <<w, p>> \in reqs
      /\ resps' = resps \cup {a}
      /\ w \in silent[p]
  BY DEF OneMessage
<1>2. a \in Response /\ a.worker = w /\ a.id = p /\ a.readiness = EvaluateChecks(w)
  BY DEF Response, EvaluateChecks
<1> HIDE DEF a
<1>3. TypeOK'
  BY <1>1, <1>2 DEF TypeOK
<1>4. p < requestIdSeq
  BY <1>1 DEF Fresh, TypeOK, Poll
<1>5. Fresh'
  <2> SUFFICES ASSUME NEW q \in Poll, q >= requestIdSeq
               PROVE  \A m \in resps' : m.id # q
    BY <1>1 DEF Fresh
  <2>1. q # p
    BY <1>4 DEF Poll, TypeOK
  <2> QED
    BY <1>1, <1>2, <2>1 DEF Fresh
<1>6. OneMessage'
  <2>1. \A m \in resps : ~(m.worker = w /\ m.id = p)
    BY <1>1 DEF OneMessage
  <2>2. \A r \in reqs' : ~(r[1] = w /\ r[2] = p)
    BY <1>1 DEF TypeOK
  <2> QED
    BY <1>1, <1>2, <2>1, <2>2 DEF OneMessage
<1>7. (Registered /\ Counted /\ NoFalseAlarm)'
  BY DEF Registered, Counted, NoFalseAlarm
<1>8. ~EvaluateChecks(w) => p \notin calm
  BY <1>1 DEF CalmIsReady, Counted
<1>9. Truthful'
  BY <1>1, <1>2, <1>8 DEF Truthful, EvaluateChecks
<1>10. (Recorded /\ CalmIsReady /\ ReadyIsEarned)'
  BY DEF Recorded, CalmIsReady, ReadyIsEarned, EvaluateChecks
<1> QED
  BY <1>3, <1>5, <1>6, <1>7, <1>9, <1>10

\* A new poll takes the next id, which nothing refers to yet.
LEMMA IsReadyIInv ==
    ASSUME IInv, IsReady
    PROVE  IInv'
<1> DEFINE p == requestIdSeq
<1> USE DEF IInv
<1>1. p \in Poll /\ p + 1 \in 0 .. MaxPolls /\ p \in Nat
  BY MaxPollsAssumption DEF IsReady, TypeOK, Poll
<1>2. Connected \in SUBSET Worker
  BY DEF Connected
<1>3. Cardinality(Connected) \in Nat /\ IsFiniteSet(Connected)
  BY <1>2, WorkerSetsFinite
<1>4. /\ requestIdSeq' = p + 1
      /\ requests' = requests \cup {p}
      /\ pending' = [pending EXCEPT ![p] = Cardinality(Connected)]
      /\ reqs' = reqs \cup (Connected \X {p})
      /\ timers' \in {timers, timers \cup {p}}
      /\ promise' = [promise EXCEPT ![p] =
                       IF Connected = {} THEN "notReady" ELSE "pending"]
      /\ asked' = [asked EXCEPT ![p] = Connected]
      /\ silent' = [silent EXCEPT ![p] = Connected]
      /\ calm' \in {calm, calm \cup {p}}
      /\ p \in calm' => p \in calm \/ /\ workersForked
                                      /\ Connected # {}
                                      /\ \A w \in Connected : EvaluateChecks(w)
      /\ UNCHANGED <<link, running, stages, workersForked, responses, resps>>
  BY DEF IsReady, workerVars
<1> HIDE DEF p
<1>5. TypeOK'
  BY <1>1, <1>2, <1>3, <1>4 DEF TypeOK
<1>6. \A q \in Poll : q # p =>
         /\ promise'[q] = promise[q] /\ asked'[q] = asked[q]
         /\ silent'[q] = silent[q] /\ pending'[q] = pending[q]
         /\ q \in requests' <=> q \in requests
         /\ q \in timers' <=> q \in timers
         /\ q \in calm' <=> q \in calm
  BY <1>4 DEF TypeOK
<1>7. /\ promise'[p] = IF Connected = {} THEN "notReady" ELSE "pending"
      /\ asked'[p] = Connected /\ silent'[p] = Connected
      /\ pending'[p] = Cardinality(Connected) /\ p \in requests'
  BY <1>1, <1>4 DEF TypeOK
<1>8. /\ p \notin calm /\ responses[p] = {}
      /\ \A m \in resps : m.id # p
      /\ \A r \in reqs : r[2] # p
  BY <1>1 DEF Fresh, p
<1>9. \A q \in Poll : q < p <=> q < requestIdSeq' /\ q # p
  BY <1>1, <1>4 DEF Poll
<1>10. \A r \in reqs' : r \in reqs \/ (r[1] \in Connected /\ r[2] = p)
  BY <1>4
<1>11. Fresh'
  <2> SUFFICES ASSUME NEW q \in Poll, q >= p + 1
               PROVE  /\ promise'[q] = "uncalled"
                      /\ q \notin requests' /\ q \notin timers' /\ q \notin calm'
                      /\ asked'[q] = {} /\ silent'[q] = {} /\ responses[q] = {}
                      /\ \A m \in resps : m.id # q
                      /\ \A r \in reqs' : r[2] # q
    BY <1>4 DEF Fresh
  <2>1. q # p /\ q >= requestIdSeq
    BY <1>1 DEF p, Poll
  <2> QED
    BY <2>1, <1>6, <1>10 DEF Fresh
<1>12. Registered'
  BY <1>6, <1>7, <1>9 DEF Registered, p
<1>13. Counted'
  BY <1>6, <1>7 DEF Counted
<1>14. OneMessage'
  <2>1. ASSUME NEW r \in reqs'
        PROVE  /\ r[1] \in silent'[r[2]]
               /\ \A m \in resps : ~(m.worker = r[1] /\ m.id = r[2])
    <3>1. CASE r \in reqs
      BY <3>1, <1>6, <1>8 DEF OneMessage, TypeOK
    <3>2. CASE r[1] \in Connected /\ r[2] = p
      BY <3>2, <1>7, <1>8
    <3> QED
      BY <2>1, <3>1, <3>2, <1>10
  <2>2. \A m \in resps : m.worker \in silent'[m.id]
    BY <1>6, <1>8 DEF OneMessage, TypeOK, Response
  <2> QED
    BY <2>1, <2>2, <1>4 DEF OneMessage
<1>15. \A w : EvaluateChecks(w)' <=> EvaluateChecks(w)
  BY <1>4 DEF EvaluateChecks
<1>16. Truthful'
  BY <1>4, <1>6, <1>8, <1>15 DEF Truthful, TypeOK, Response
<1>17. Recorded'
  BY <1>4, <1>6, <1>7, <1>8, <1>15 DEF Recorded
<1>18. CalmIsReady'
  BY <1>4, <1>5, <1>6, <1>7, <1>8, <1>15 DEF CalmIsReady, TypeOK
<1>19. (ReadyIsEarned /\ NoFalseAlarm)'
  BY <1>4, <1>5, <1>6, <1>7, <1>8, <1>15 DEF ReadyIsEarned, NoFalseAlarm, TypeOK
<1> QED
  BY <1>5, <1>11, <1>12, <1>13, <1>14, <1>16, <1>17, <1>18, <1>19

\* An answer is counted once; the last one closes the poll with a verdict about
\* every worker asked.
LEMMA ReceiveResponseIInv ==
    ASSUME IInv, NEW m \in resps, ReceiveResponse(m)
    PROVE  IInv'
<1> DEFINE p == m.id
           w == m.worker
           said == responses[p] \cup {m.readiness}
<1> USE DEF IInv
<1>1. /\ p \in Poll /\ w \in Worker /\ m.readiness \in BOOLEAN
      /\ w \in silent[p] /\ silent[p] \subseteq asked[p] /\ asked[p] # {}
      /\ p < requestIdSeq
      /\ p \in requests
  <2>1. p \in Poll /\ w \in Worker /\ m.readiness \in BOOLEAN
    BY DEF TypeOK, Response
  <2>2. w \in silent[p] /\ silent[p] \subseteq asked[p]
    BY <2>1 DEF OneMessage, Counted
  <2>3. p < requestIdSeq
    BY <2>1 DEF Fresh, TypeOK, Poll
  <2> QED
    BY <2>1, <2>2, <2>3 DEF Registered
<1>2. /\ resps' = resps \ {m}
      /\ silent' = [silent EXCEPT ![p] = @ \ {w}]
      /\ responses' = [responses EXCEPT ![p] = said]
      /\ pending' = [pending EXCEPT ![p] = @ - 1]
      /\ UNCHANGED <<link, running, stages, workersForked, requestIdSeq, reqs,
                     asked, calm>>
  BY <1>1 DEF ReceiveResponse, workerVars
<1>3. IF pending[p] = 1
      THEN /\ requests' = requests \ {p} /\ timers' = timers \ {p}
           /\ promise' = [promise EXCEPT ![p] = Done(p, Verdict(FALSE \notin said))]
      ELSE /\ promise' = [promise EXCEPT ![p] =
                            IF m.readiness THEN @ ELSE Done(p, "notReady")]
           /\ requests' = requests /\ timers' = timers
  BY <1>1 DEF ReceiveResponse, CloseRequest, KeepRequest
<1>4. /\ Cardinality(silent[p]) >= 1
      /\ Cardinality(silent[p] \ {w}) = Cardinality(silent[p]) - 1
      /\ pending[p] = 1 <=> silent[p] \ {w} = {}
      /\ pending[p] = Cardinality(silent[p])
  <2>1. silent[p] \in SUBSET Worker /\ pending[p] = Cardinality(silent[p])
    BY <1>1 DEF TypeOK, Counted
  <2>2. /\ Cardinality(silent[p]) >= 1
        /\ Cardinality(silent[p] \ {w}) = Cardinality(silent[p]) - 1
        /\ Cardinality(silent[p]) = 1 <=> silent[p] \ {w} = {}
    <3> HIDE DEF p, w
    <3> QED
      BY <1>1, <2>1, CountDown
  <2> QED
    BY <2>1, <2>2
<1> HIDE DEF p, w, said
<1>5. \A q \in Poll : q # p =>
         /\ silent'[q] = silent[q] /\ pending'[q] = pending[q]
         /\ responses'[q] = responses[q] /\ promise'[q] = promise[q]
         /\ q \in requests' <=> q \in requests
         /\ q \in timers' <=> q \in timers
  BY <1>2, <1>3 DEF TypeOK
<1>6. /\ silent'[p] = silent[p] \ {w} /\ pending'[p] = pending[p] - 1
      /\ responses'[p] = said
      /\ p \in requests' <=> silent'[p] # {}
  BY <1>1, <1>2, <1>3, <1>4 DEF TypeOK
<1>7. promise'[p] \in IF pending[p] = 1
                      THEN {Done(p, Verdict(FALSE \notin said))}
                      ELSE IF m.readiness THEN {promise[p]} ELSE {Done(p, "notReady")}
  BY <1>1, <1>3 DEF TypeOK
<1>8. /\ promise'[p] # "uncalled"
      /\ promise'[p] = "pending" => promise[p] = "pending" /\ pending[p] # 1
      /\ promise'[p] \in {promise[p], "ready", "notReady"}
  BY <1>1, <1>7 DEF Done, Verdict, Registered
<1>9. TypeOK'
  <2>1. pending[p] - 1 \in Nat
    BY <1>1, <1>4 DEF TypeOK
  <2>2. pending' \in [Poll -> Nat]
    BY <1>2, <2>1 DEF TypeOK
  <2>3. responses' \in [Poll -> SUBSET BOOLEAN]
    BY <1>1, <1>2 DEF TypeOK, said
  <2>4. silent' \in [Poll -> SUBSET Worker]
    BY <1>2 DEF TypeOK
  <2>5. promise' \in [Poll -> {"uncalled", "pending", "ready", "notReady", "error"}]
    BY <1>3 DEF TypeOK, Done, Verdict
  <2>6. requests' \in SUBSET Poll /\ timers' \in SUBSET Poll
    BY <1>3 DEF TypeOK
  <2> QED
    BY <1>2, <2>2, <2>3, <2>4, <2>5, <2>6 DEF TypeOK
<1>10. Fresh'
  BY <1>1, <1>2, <1>5 DEF Fresh, TypeOK, Poll
<1>11. Registered'
  BY <1>1, <1>2, <1>4, <1>5, <1>6, <1>8 DEF Registered
<1>12. Counted'
  BY <1>2, <1>4, <1>5, <1>6 DEF Counted
<1>13. OneMessage'
  <2>1. \A n \in resps' : n # m /\ ~(n.worker = w /\ n.id = p)
    BY <1>2 DEF OneMessage, w, p
  <2>2. \A r \in reqs : ~(r[1] = w /\ r[2] = p)
    BY DEF OneMessage, w, p
  <2>3. \A q \in Poll : \A u \in silent[q] : ~(u = w /\ q = p) => u \in silent'[q]
    BY <1>5, <1>6
  <2>4. \A n \in resps' : n.worker \in silent'[n.id]
    BY <1>2, <2>1, <2>3 DEF OneMessage, TypeOK, Response
  <2>5. \A r \in reqs' : r[1] \in silent'[r[2]]
    BY <1>2, <2>2, <2>3 DEF OneMessage, TypeOK
  <2> QED
    BY <1>2, <2>4, <2>5 DEF OneMessage
<1>14. \A u : EvaluateChecks(u)' <=> EvaluateChecks(u)
  BY <1>2 DEF EvaluateChecks
<1>15. Truthful'
  BY <1>2, <1>14 DEF Truthful
<1>16. /\ m.readiness => EvaluateChecks(w)
       /\ ~m.readiness => p \notin calm
  BY DEF Truthful, w, p
<1>17. /\ FALSE \notin said => \A u \in asked[p] \ silent'[p] : EvaluateChecks(u)
       /\ FALSE \in said => p \notin calm
  <2>1. FALSE \in said <=> FALSE \in responses[p] \/ ~m.readiness
    BY <1>1 DEF said
  <2> QED
    BY <1>1, <1>6, <1>16, <2>1 DEF Recorded
<1>18. Recorded'
  BY <1>2, <1>5, <1>6, <1>14, <1>17 DEF Recorded
<1>19. CalmIsReady'
  BY <1>2, <1>14 DEF CalmIsReady
<1>20. ReadyIsEarned'
  <2>1. ASSUME promise'[p] = "ready", promise[p] # "ready"
        PROVE  workersForked /\ \A u \in asked[p] : EvaluateChecks(u)
    <3>1. pending[p] = 1 /\ workersForked /\ FALSE \notin said
      BY <2>1, <1>7 DEF Done, Verdict
    <3> QED
      BY <3>1, <1>4, <1>6, <1>17
  <2> QED
    BY <1>1, <1>2, <1>5, <1>14, <2>1 DEF ReadyIsEarned
<1>21. NoFalseAlarm'
  <2>1. ASSUME p \in calm PROVE promise'[p] # "notReady"
    <3>1. FALSE \notin said /\ workersForked /\ promise[p] # "notReady"
      BY <2>1, <1>17 DEF CalmIsReady, NoFalseAlarm
    <3>2. m.readiness
      BY <2>1, <1>1, <1>16
    <3> QED
      BY <1>7, <3>1, <3>2 DEF Done, Verdict
  <2> QED
    BY <1>2, <1>5, <2>1 DEF NoFalseAlarm, TypeOK
<1> QED
  BY <1>9, <1>10, <1>11, <1>12, <1>13, <1>15, <1>18, <1>19, <1>20, <1>21

-----------------------------------------------------------------------------
(* The theorems.                                                           *)

LEMMA StutterIInv ==
    ASSUME IInv, UNCHANGED vars
    PROVE  IInv'
<1> USE DEF IInv, vars, workerVars, requestVars, history
<1>1. TypeOK'
  BY DEF TypeOK
<1>2. Fresh' /\ Registered' /\ Counted' /\ OneMessage'
  BY DEF Fresh, Registered, Counted, OneMessage
<1>3. Truthful' /\ Recorded'
  BY DEF Truthful, Recorded, EvaluateChecks
<1>4. CalmIsReady' /\ ReadyIsEarned' /\ NoFalseAlarm'
  BY DEF CalmIsReady, ReadyIsEarned, NoFalseAlarm, EvaluateChecks
<1> QED
  BY <1>1, <1>2, <1>3, <1>4

LEMMA NextIInv == IInv /\ [Next]_vars => IInv'
<1> SUFFICES ASSUME IInv, [Next]_vars PROVE IInv'
  OBVIOUS
<1>1. CASE MarkWorkersForked
  BY <1>1, MarkWorkersForkedIInv
<1>2. CASE \E w \in Worker : Fork(w) \/ LoseWorker(w) \/ NoticeLoss(w)
  BY <1>2, ForkIInv, LoseWorkerIInv, NoticeLossIInv
<1>3. CASE \E w \in Worker, s \in Stage : StageReady(w, s)
  BY <1>3, StageReadyIInv
<1>4. CASE IsReady
  BY <1>4, IsReadyIInv
<1>5. CASE \E w \in Worker, p \in Poll : AnswerRequest(w, p)
  BY <1>5, AnswerRequestIInv
<1>6. CASE \E m \in resps : ReceiveResponse(m)
  BY <1>6, ReceiveResponseIInv
<1>7. CASE \E p \in Poll : Timeout(p)
  BY <1>7, TimeoutIInv
<1>8. CASE UNCHANGED vars
  BY <1>8, StutterIInv
<1> QED
  BY <1>1, <1>2, <1>3, <1>4, <1>5, <1>6, <1>7, <1>8 DEF Next, Lifecycle, Protocol

THEOREM Invariance == Spec => []IInv
  BY InitIInv, NextIInv, PTL DEF Spec

\* Every variable keeps its type; in particular request.pending never goes below
\* zero, however many answers arrive.
THEOREM TypeCorrect == Spec => []TypeOK
  BY Invariance, PTL DEF IInv

\* The probe answers "ready" only when every worker that was asked has completed
\* its start-up and the primary has forked all its workers (isReady()).
THEOREM ReadyIsAlwaysEarned == Spec => []ReadyIsEarned
  BY Invariance, PTL DEF IInv

\* A poll of a cluster that is ready is never answered "not ready".
THEOREM NeverAFalseAlarm == Spec => []NoFalseAlarm
  BY Invariance, PTL DEF IInv

\* The requests map keeps an entry exactly while an answer is outstanding, or for
\* ever when there was no worker to ask.
THEOREM RegistryIsAlwaysExact == Spec => []RegistryIsExact
<1>1. IInv => RegistryIsExact
  BY DEF IInv, Fresh, Registered, RegistryIsExact, TypeOK, Poll
<1> QED
  BY <1>1, Invariance, PTL

\* An answer always finds the entry of its poll: the branch of the listener that
\* logs a missing request is dead code.
THEOREM ResponsesAreNeverOrphans == Spec => []NoOrphanResponse
<1>1. IInv => NoOrphanResponse
  BY DEF IInv, OneMessage, Fresh, Registered, NoOrphanResponse, TypeOK, Response, Poll
<1> QED
  BY <1>1, Invariance, PTL

-----------------------------------------------------------------------------
(* The protocol implements ReadinessContract.                              *)

Able == {w \in Worker : EvaluateChecks(w)}

LEMMA InitRefines == Init => Contract!Init
  BY StageAssumption DEF Init, Contract!Init, EvaluateChecks

\* A step that leaves the contract's variables alone.
LEMMA StutterRefines ==
    ASSUME UNCHANGED <<stages, workersForked, promise, asked, calm>>
    PROVE  UNCHANGED Contract!vars
  BY DEF Contract!vars, EvaluateChecks

\* Completing a stage makes at most that worker able.
LEMMA StageReadyRefines ==
    ASSUME TypeOK, NEW w \in Worker, NEW s \in Stage, StageReady(w, s)
    PROVE  Contract!BecomeAble(w) \/ UNCHANGED Contract!vars
<1>1. \A v \in Worker : v # w => (EvaluateChecks(v)' <=> EvaluateChecks(v))
  BY DEF StageReady, EvaluateChecks, TypeOK
<1>2. EvaluateChecks(w) => EvaluateChecks(w)'
  BY DEF StageReady, EvaluateChecks, TypeOK
<1>3. Able' = Able \/ Able' = Able \cup {w}
  BY <1>1, <1>2 DEF Able
<1>4. UNCHANGED <<workersForked, promise, asked, calm>>
  BY DEF StageReady, requestVars, history
<1> QED
  BY <1>3, <1>4 DEF Able, Contract!BecomeAble, Contract!vars

LEMMA IsReadyRefines ==
    ASSUME IInv, IsReady
    PROVE  Contract!Begin(requestIdSeq, Connected) /\ requestIdSeq \in Poll
<1>1. requestIdSeq \in Poll /\ promise[requestIdSeq] = "uncalled"
  BY MaxPollsAssumption DEF IsReady, IInv, TypeOK, Fresh, Poll
<1>2. Able' = Able
  BY DEF IsReady, workerVars, EvaluateChecks, Able
<1>3. Connected \subseteq Able <=> \A w \in Connected : EvaluateChecks(w)
  BY DEF Connected, Able
<1> QED
  BY <1>1, <1>2, <1>3 DEF IsReady, workerVars, Able, Contract!Begin

LEMMA TimeoutRefines ==
    ASSUME TypeOK, NEW p \in Poll, Timeout(p)
    PROVE  Contract!GiveUp(p) \/ UNCHANGED Contract!vars
<1>1. UNCHANGED <<stages, workersForked, asked, calm>>
  BY DEF Timeout, workerVars, history
<1>2. CASE promise[p] = "pending"
  BY <1>1, <1>2 DEF Timeout, Done, Contract!GiveUp, Contract!Settle, EvaluateChecks
<1>3. CASE promise[p] # "pending"
  <2>1. promise' = promise
    BY <1>3 DEF Timeout, Done, TypeOK
  <2> QED
    BY <1>1, <2>1, StutterRefines
<1> QED
  BY <1>2, <1>3

\* An answer passes the poll, fails it, or decides nothing.
LEMMA ReceiveResponseRefines ==
    ASSUME IInv, IInv', NEW m \in resps, ReceiveResponse(m)
    PROVE  \/ Contract!Pass(m.id) \/ Contract!Fail(m.id)
           \/ UNCHANGED Contract!vars
<1>1. m.id \in Poll
  BY DEF IInv, TypeOK, Response
<1>2. UNCHANGED <<stages, workersForked, asked, calm>>
  BY DEF ReceiveResponse, workerVars
<1>3. \/ promise' = promise
      \/ /\ promise[m.id] = "pending"
         /\ \/ promise' = [promise EXCEPT ![m.id] = "ready"]
            \/ promise' = [promise EXCEPT ![m.id] = "notReady"]
  <2>1. PICK v : \/ promise' = promise
                 \/ promise' = [promise EXCEPT ![m.id] = v] /\ v = promise[m.id]
                 \/ promise' = [promise EXCEPT ![m.id] = Done(m.id, v)]
                    /\ v \in {"ready", "notReady"}
    <3>1. CASE m.id \notin requests
      BY <3>1 DEF ReceiveResponse, requestVars
    <3>2. CASE \E ok : CloseRequest(m.id, ok)
      <4>1. PICK ok : promise' = [promise EXCEPT ![m.id] = Done(m.id, Verdict(ok))]
        BY <3>2 DEF CloseRequest
      <4>2. Verdict(ok) \in {"ready", "notReady"}
        BY DEF Verdict
      <4> QED
        BY <4>1, <4>2
    <3>3. CASE KeepRequest(m.id, m.readiness)
      BY <3>3 DEF KeepRequest
    <3> QED
      BY <3>1, <3>2, <3>3 DEF ReceiveResponse
  <2>2. promise = [promise EXCEPT ![m.id] = promise[m.id]]
    BY DEF IInv, TypeOK
  <2> QED
    BY <2>1, <2>2 DEF Done
<1>4. CASE promise' = promise
  BY <1>2, <1>4, StutterRefines
<1>5. Able' = Able
  BY <1>2 DEF Able, EvaluateChecks
<1>6. CASE /\ promise[m.id] = "pending"
           /\ promise' = [promise EXCEPT ![m.id] = "ready"]
  <2>1. promise'[m.id] = "ready"
    BY <1>1, <1>6 DEF IInv, TypeOK
  <2>2. workersForked' /\ \A w \in asked'[m.id] : EvaluateChecks(w)'
    BY <1>1, <2>1 DEF IInv, ReadyIsEarned
  <2>3. workersForked /\ asked[m.id] \subseteq Able
    BY <1>1, <1>2, <1>5, <2>2 DEF Able, IInv, TypeOK, EvaluateChecks
  <2> QED
    BY <1>2, <1>5, <1>6, <2>3 DEF Able, Contract!Pass, Contract!Settle
<1>7. CASE /\ promise[m.id] = "pending"
           /\ promise' = [promise EXCEPT ![m.id] = "notReady"]
  <2>1. promise'[m.id] = "notReady"
    BY <1>1, <1>7 DEF IInv, TypeOK
  <2>2. m.id \notin calm
    BY <1>2, <2>1 DEF IInv, NoFalseAlarm
  <2> QED
    BY <1>2, <1>5, <1>7, <2>2 DEF Able, Contract!Fail, Contract!Settle
<1> QED
  BY <1>3, <1>4, <1>6, <1>7

LEMMA NextRefines == IInv /\ IInv' /\ [Next]_vars => [Contract!Next]_(Contract!vars)
<1> SUFFICES ASSUME IInv, IInv', [Next]_vars
             PROVE  Contract!Next \/ UNCHANGED Contract!vars
  OBVIOUS
<1>1. CASE MarkWorkersForked
  <2>1. Contract!FinishForking
    BY <1>1 DEF MarkWorkersForked, requestVars, history, Contract!FinishForking,
       EvaluateChecks
  <2> QED
    BY <2>1 DEF Contract!Next
<1>2. CASE \E w \in Worker : Fork(w) \/ LoseWorker(w) \/ NoticeLoss(w)
  BY <1>2, StutterRefines DEF Fork, LoseWorker, NoticeLoss, requestVars, history
<1>3. CASE \E w \in Worker, s \in Stage : StageReady(w, s)
  BY <1>3, StageReadyRefines DEF IInv, Contract!Next
<1>4. CASE IsReady
  <2>1. Connected \in SUBSET Worker
    BY DEF Connected
  <2> QED
    BY <1>4, <2>1, IsReadyRefines DEF Contract!Next
<1>5. CASE \E w \in Worker, p \in Poll : AnswerRequest(w, p)
  BY <1>5, StutterRefines DEF AnswerRequest, workerVars, requestVars, history
<1>6. CASE \E m \in resps : ReceiveResponse(m)
  <2>1. \A m \in resps : m.id \in Poll
    BY DEF IInv, TypeOK, Response
  <2> QED
    BY <1>6, <2>1, ReceiveResponseRefines DEF Contract!Next
<1>7. CASE \E p \in Poll : Timeout(p)
  BY <1>7, TimeoutRefines DEF IInv, Contract!Next
<1>8. CASE UNCHANGED vars
  BY <1>8, StutterRefines DEF vars, workerVars, requestVars, history
<1> QED
  BY <1>1, <1>2, <1>3, <1>4, <1>5, <1>6, <1>7, <1>8 DEF Next, Lifecycle, Protocol

\* Every behaviour of the protocol, with all its messages, counts and timers, is a
\* behaviour of the contract (its liveness is left to TLC).
THEOREM Refinement == Spec => Contract!Spec
<1>1. Spec => []IInv
  BY Invariance
<1> QED
  BY <1>1, InitRefines, NextRefines, PTL DEF Spec, Contract!Spec
=============================================================================
