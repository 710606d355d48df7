------------------------- MODULE MCClusterReadiness -------------------------
(* The readiness protocol on a small cluster. *)
EXTENDS ClusterReadiness

CONSTANTS w1, w2, s1

MCWorker == {w1, w2}
MCStage == {s1}
=============================================================================
