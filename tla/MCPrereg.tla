------------------------------- MODULE MCPrereg -------------------------------
(* Instance of PreregRequests: two ids, a cache for one. *)
EXTENDS PreregRequests, TLC
CONSTANTS p1, p2
Symmetry == Permutations(Id)
===============================================================================
