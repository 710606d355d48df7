------------------------------ MODULE MCBatching ------------------------------
(***************************************************************************)
(* Instances of Batching for TLC.  All but ce have the same header "ua",    *)
(* and that of ce has the same hash; the guids, which batching ignores,     *)
(* differ.  ca, cb, cc and cd differ in their deadlines, cf carries none,   *)
(* and cg is of another locale.                                             *)
(***************************************************************************)
EXTENDS Batching

CONSTANTS ca, cb, cc, cd, ce, cf, cg

MCForwardHeaders ==
    [x \in Context |-> {IF x = ce THEN "ua2" ELSE "ua", IF x = ca THEN "guid" ELSE "guid2"}]
MCLegacyContextOf == [x \in Context |-> IF x = cg THEN "fr" ELSE "en"]
MCHashOf    == [h \in {{"ua"}, {"ua2"}} |-> "g"]
MCDeadlineOf ==
    [x \in Context |->
        CASE x = cb -> 1 [] x = cc -> 2 [] x = cd -> 4 [] x = cf -> Missing [] OTHER -> 0]
===============================================================================
