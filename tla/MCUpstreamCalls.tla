--------------------------- MODULE MCUpstreamCalls ---------------------------
(* Instance of UpstreamCalls: two requests of one subgraph, one socket. *)
EXTENDS UpstreamCalls
CONSTANTS r1, r2
MCTimeouts == {1, 3, NaN}
=============================================================================
