---------------------------- MODULE MCSchemaRollout ----------------------------
(* Instance of SchemaRollout: two jobs, and a pod that is restarted and deployed
   anew. *)
EXTENDS SchemaRollout, TLC
CONSTANTS p1, j1, j2
Symmetry == Permutations({j1, j2})
================================================================================
