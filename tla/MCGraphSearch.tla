---------------------------- MODULE MCGraphSearch ---------------------------
(***************************************************************************)
(* Every search on every graph of a family: two objects o1 and o2 and      *)
(* three values v1, v2, v3.                                                *)
(***************************************************************************)
EXTENDS GraphSearch

MCNode == {"o1", "o2", "v1", "v2", "v3"}

MCEdge(kind, s, d) == [src |-> s, dst |-> d, kind |-> kind]

MCSearch(o, E, dummy, calls, forbid, top, goal) ==
  [op |-> o, edges |-> E, dummy |-> dummy, calls |-> calls, forbid |-> forbid,
   top |-> top, goal |-> goal]

MCAddr == {MCEdge("addr", "o1", "v1"), MCEdge("addr", "o2", "v2"), MCEdge("addr", "o2", "v3")}

\* How values reach each other, back edges and a value that reaches itself included.
MCFlow == {MCEdge("flow", "v1", "v2"), MCEdge("flow", "v2", "v1"), MCEdge("flow", "v1", "v3"),
           MCEdge("flow", "v3", "v1"), MCEdge("call", "v2", "v3"), MCEdge("flow", "v2", "v3"),
           MCEdge("flow", "v3", "v3")}

MCBackward ==
  {MCSearch(o, A \cup F, D, {}, {}, "v3", "v3") :
     o \in {"defs", "storedefs"}, A \in SUBSET MCAddr, F \in SUBSET MCFlow,
     D \in {{}, {"v1", "o2"}}}

MCCarry == {MCEdge("flow", "v1", "v2"), MCEdge("flow", "v1", "v3"), MCEdge("flow", "v2", "v3"),
            MCEdge("flow", "v3", "v2")}
MCStore == {MCEdge("store", "v1", "v3"), MCEdge("store", "v2", "v1"), MCEdge("store", "v3", "v2")}

MCUnmarked ==
  {MCSearch(q[1], A \cup F \cup T, D, {}, {}, q[2], "v3") :
     q \in {<<"firststore", "v1">>, <<"target", "v1">>, <<"allstore", "v1">>, <<"firstdom", "v3">>},
     A \in SUBSET MCAddr, F \in SUBSET MCCarry, T \in SUBSET MCStore,
     D \in {{}, {"v2"}}}

\* A control-flow or value-flow graph, with two ways round a cycle.
MCControl == {MCEdge("flow", "v1", "v2"), MCEdge("flow", "v1", "v3"), MCEdge("flow", "v2", "o1"),
              MCEdge("flow", "v3", "o1"), MCEdge("flow", "o1", "v2"), MCEdge("flow", "v2", "v1"),
              MCEdge("flow", "o1", "o2"), MCEdge("flow", "o2", "o2")}

MCPlain ==
  {MCSearch(o, F, {}, {"v1", "v3"}, B, "v1", t) :
     o \in {"callblocks", "vfg", "csv", "path", "avoid", "paths"}, F \in SUBSET MCControl,
     B \in {{}, {"v2"}}, t \in {"v1", "o1", "o2"}}

MCSearches == MCBackward \cup MCUnmarked \cup MCPlain
=============================================================================
