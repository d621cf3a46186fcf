----------------------------- MODULE StaticTrace ----------------------------
(***************************************************************************)
(* The static trace as the verifier parses it: rows of ztrace.txt, which   *)
(* list under each use the definitions it may write, and under each of     *)
(* these what the analysis followed it through.                            *)
(***************************************************************************)
EXTENDS TraceRows, SequencesExt

CONSTANT Metadata   \* the rows, in the order of the file

Nodes == DOMAIN Metadata

\* What svf-ex exports (the run of Toolchain checks that it does).
ASSUME StaticTraceAssumption == WellFormed(Metadata)

-----------------------------------------------------------------------------
NodesNamed(id)  == {n \in Nodes : Metadata[n].id = id}
FirstNode(id)   == Min(NodesNamed(id))


\* Children are attached to the first row with the identifier of their
\* father, also when that row occurs again later.
Children ==
  [n \in Nodes |->
     SelectSeq([k \in Nodes |-> k],
       LAMBDA k : /\ Metadata[k].father # -1
                  /\ n = FirstNode(Metadata[k].father)) ]

def_map(id) == {n \in NodesNamed(id) : Metadata[n].type \in DefRows}
DefIds      == {Metadata[n].id : n \in {k \in Nodes : Metadata[k].type \in DefRows}}
=============================================================================
