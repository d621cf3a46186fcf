----------------------------- MODULE MCVerdicts -----------------------------
(***************************************************************************)
(* Small programs and the static traces svf-ex exports for them.           *)
(***************************************************************************)
EXTENDS Verdicts, TLC

(***************************************************************************)
(* Program and verifier share only the queue, and the verifier takes from  *)
(* its head what the program appends at its tail.  Every verdict is thus   *)
(* reached with the program at rest while the verifier works.  The steps   *)
(* that this removes change nothing the verifier reads, and fairness is of *)
(* the verifier alone: what it does with a trace once that has arrived is  *)
(* the same with them, so the constraint is sound for liveness, too.       *)
(***************************************************************************)
MCVerifierFirst ==
  (queue # << >> \/ ~V!Idle) => UNCHANGED <<programVars, sent>>

MCFunctions == {"main", "f"}
MCSize      == 1 :> 1 @@ 2 :> 1 @@ 3 :> 2 @@ 4 :> 3
MCOffset    == 1 :> 0 @@ 2 :> 1 @@ 3 :> 0 @@ 4 :> 0
MCLocal     == "main" :> 1 @@ "f" :> 2
MCLocalUse  == "main" :> 5 @@ "f" :> 6
MCGlobalUse == "main" :> 7 @@ "f" :> 8
MCArgUse    == "main" :> 0 @@ "f" :> 9
MCHeapUse   == "main" :> 13 @@ "f" :> 0
MCAddresses == {1, 4, 7}

\* A third function, whose use of the allocation svf-ex did not export.
MCThree          == MCFunctions \cup {"g"}
MCSizeOfThree    == MCSize @@ 16 :> 1
MCOffsetOfThree  == MCOffset @@ 16 :> 0
MCLocalOfThree   == MCLocal @@ "g" :> 16
MCLocalUses      == MCLocalUse @@ "g" :> 17
MCArgUses        == MCArgUse @@ "g" :> 19
MCGlobalUses     == MCGlobalUse @@ "g" :> 20
MCHeapUses       == "main" :> 13 @@ "f" :> 14 @@ "g" :> 18

MCRow(id, type, father, cls, len, off) ==
  [id |-> id, type |-> type, father |-> father, cls |-> cls,
   length |-> len, offset |-> off]

MCUseRow(id, type) == MCRow(id, type, 0, "", 0, 0)

\* The global array is written through a pointer, its dominator.
MCGlobalRows(father) ==
  << MCRow(11, "GDEF", father, "DOMINATOR", 4, 0),
     MCRow(3, "GDEF", father, "BASE", 2, 0) >>

\* The array of f is a field of a structure.
MCLocals ==
  << MCRow(0, "IN", -1, "", 0, 0),
     MCUseRow(5, "SUSE"), MCRow(1, "ADEF", 5, "BASE", 1, 0),
     MCUseRow(6, "LUSE"), MCRow(2, "SDEF", 6, "BASE", 1, 1),
     MCUseRow(9, "SUSE") >>

MCArrays ==
  MCLocals \o << MCUseRow(7, "SUSE") >> \o MCGlobalRows(7)
           \o << MCUseRow(8, "LUSE") >> \o MCGlobalRows(8)

\* One malloc; the pointer that keeps it is its dominator.
MCHeapRows(father) ==
  << MCRow(4, "DDEF", father, "BASE", -1, 0),
     MCRow(15, "GDEF", 4, "DOMINATOR", 1, 0) >>

\* For a use with several values the allocation is exported twice.
MCOneHeapRows == MCArrays \o << MCUseRow(13, "SUSE") >> \o MCHeapRows(13) \o MCHeapRows(13)

\* For two uses, it is exported under each.
MCTwoHeapRows ==
  MCLocals \o << MCUseRow(17, "SUSE"), MCRow(16, "ADEF", 17, "BASE", 1, 0),
                 MCUseRow(19, "SUSE"), MCUseRow(13, "SUSE") >> \o MCHeapRows(13)
           \o << MCUseRow(14, "SUSE") >> \o MCHeapRows(14)

\* What the rows are about: each identifier has a text of its own.
MCInfo == [n \in Nodes |-> Metadata[n].id]

\* The module has the tags of the rows.  With the allocation the use 5 of main
\* is found within 15, the tag of the global pointer.
MCTags(types)  == {Metadata[n].id : n \in {k \in Nodes : Metadata[k].type \in types}}
MCGlobalTags   == MCTags({"GDEF"})
MCInstrTags    == MCTags({"ADEF", "SDEF", "DDEF", "SUSE", "LUSE"})
=============================================================================
