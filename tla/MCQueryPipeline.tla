--------------------------- MODULE MCQueryPipeline ---------------------------
(* Instance of QueryPipeline: a plain text, one with two operations, one that
   is valid only with the service overrides and does not compile, one that does not
   parse, and two ids; one client names an operation its document has not. *)
EXTENDS QueryPipeline, TLC
CONSTANTS r1, r2, one, two, odd, bad, i1, i2, graphql, taql
MCOverrides == {{graphql}}
MCCode == (i1 :> one) @@ (i2 :> two)
Params(id, hash, query, trusted, op, o) ==
    [id |-> id, hash |-> hash, query |-> query, trusted |-> trusted, op |-> op, svco |-> o]
MCKinds == {Params(i1, None, None, FALSE, "op1", {}),
            Params(i2, None, None, TRUE, "op2", {}),
            Params(i1, None, None, TRUE, "op2", {}),
            Params(None, two, None, FALSE, "op1", {}),
            Params(None, two, None, TRUE, "op1", {}),
            Params(None, two, two, TRUE, "op2", {}),
            Params(None, None, odd, FALSE, "op1", {}),
            Params(None, None, odd, TRUE, "op1", {}),
            Params(None, None, odd, TRUE, "op1", {graphql}),
            Params(i1, two, i1, FALSE, "op1", {graphql}),
            Params(None, None, bad, TRUE, "op1", {taql}),
            Params(i1, None, None, FALSE, "op1", {graphql, taql})}
=============================================================================
