----------------------------- MODULE MCUafFlow ------------------------------
(***************************************************************************)
(* Programs with two allocations and a free, over every control flow of a  *)
(* small graph with loops.                                                 *)
(***************************************************************************)
EXTENDS UafFlow, TLC

MCNode == 1..5
MCVal  == {"p", "q", "r"}
MCObj  == {"heap1", "heap2"}
MCFun  == {"main", "domain"}
MCNone == 0

MCSite(n, call, args, res, caller) ==
  [node |-> n, call |-> call, args |-> args, res |-> res, caller |-> caller]

\* p = malloc() at 2, free(r) at 3, q = malloc() at 4
MCSites(f) ==
  {MCSite(2, "alloc", << >>, "p", "main"), MCSite(3, "free", <<"r">>, "r", f),
   MCSite(4, "alloc", <<"p">>, "q", "main")}

MCLoops == {<<1, 2>>, <<2, 3>>, <<3, 4>>, <<4, 2>>, <<3, 5>>, <<5, 3>>, <<2, 4>>}

MCProgram(E, F, S, place) ==
  [icfg |-> E, sites |-> S, place |-> place,
   addr |-> {<<"heap1", "p">>, <<"heap2", "q">>}, flow |-> F,
   entry |-> [f \in MCFun |-> IF f = "main" THEN 1 ELSE 5],
   namedMain |-> MCFun]

\* Which allocations the freed pointer may come from.
MCFlows == {{<<"p", "r">>}, {<<"p", "q">>, <<"q", "r">>, <<"r", "q">>}}

MCPrograms ==
  {MCProgram(E, F, S, place) :
     E \in SUBSET MCLoops, F \in MCFlows,
     S \in {MCSites("main"), MCSites("domain"),
            {MCSite(5, "indirect", << >>, "p", "main"), MCSite(4, "other", << >>, "p", "domain")},
            {MCSite(5, "indirect", << >>, "p", "main")}},
     place \in {"heap1" :> 0 @@ "heap2" :> 4, "heap1" :> 2 @@ "heap2" :> 5}}
=============================================================================
