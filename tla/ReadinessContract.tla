-------------------------- MODULE ReadinessContract --------------------------
(***************************************************************************)
(* What a readiness probe of the cluster promises, without messages,       *)
(* counters or timers: a verdict about the workers that were asked.        *)
(* ClusterReadiness implements it.                                         *)
(***************************************************************************)
EXTENDS Naturals

CONSTANTS
    Worker,  \* the workers there may ever be
    Poll     \* the probes there may ever be

VARIABLES
    able,    \* the workers that have completed their start-up
    forked,  \* the primary has forked all its initial workers
    verdict, \* verdict[p]: the answer to probe p
    asked,   \* asked[p]: the workers probe p is about
    calm     \* the probes begun when nothing stood against "ready"

vars == <<able, forked, verdict, asked, calm>>

Init ==
    /\ able = {}
    /\ forked = FALSE
    /\ verdict = [p \in Poll |-> "uncalled"]
    /\ asked = [p \in Poll |-> {}]
    /\ calm = {}

BecomeAble(w) ==
    /\ able' = able \cup {w}
    /\ UNCHANGED <<forked, verdict, asked, calm>>

FinishForking ==
    /\ forked' = TRUE
    /\ UNCHANGED <<able, verdict, asked, calm>>

\* A probe is about a set W of workers; about none, it fails at once.
Begin(p, W) ==
    /\ verdict[p] = "uncalled"
    /\ asked' = [asked EXCEPT ![p] = W]
    /\ verdict' = [verdict EXCEPT ![p] = IF W = {} THEN "notReady" ELSE "pending"]
    /\ calm' = IF forked /\ W # {} /\ W \subseteq able THEN calm \cup {p} ELSE calm
    /\ UNCHANGED <<able, forked>>

Settle(p, v) ==
    /\ verdict[p] = "pending"
    /\ verdict' = [verdict EXCEPT ![p] = v]
    /\ UNCHANGED <<able, forked, asked, calm>>

Pass(p) == forked /\ asked[p] \subseteq able /\ Settle(p, "ready")
Fail(p) == p \notin calm /\ Settle(p, "notReady")
GiveUp(p) == Settle(p, "error")

Next ==
    \/ FinishForking
    \/ \E w \in Worker : BecomeAble(w)
    \/ \E p \in Poll :
          \/ \E W \in SUBSET Worker : Begin(p, W)
          \/ Pass(p) \/ Fail(p) \/ GiveUp(p)

Spec == Init /\ [][Next]_vars

FairSpec ==
    Spec /\ \A p \in Poll : WF_vars(Pass(p) \/ Fail(p) \/ GiveUp(p))
=============================================================================
