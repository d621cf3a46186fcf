----------------------------- MODULE TraceRows ------------------------------
(***************************************************************************)
(* The rows of ztrace.txt, which svf-ex writes and the verifier reads.     *)
(***************************************************************************)
EXTENDS Integers, Sequences

DefRows == {"ADEF", "GDEF", "SDEF", "DDEF"}

\* father is -1 for the entities of the top level, cls is empty for uses.
Row == [id : Nat, type : DefRows \cup {"IN", "SUSE", "LUSE"},
        father : Nat \cup {-1}, cls : {"BASE", "DOMINATOR", ""},
        length : Nat \cup {-1}, offset : Nat]

(***************************************************************************)
(* What the verifier relies on: a father comes before its children, and an *)
(* entity that occurs several times has the same row apart from its        *)
(* father.                                                                 *)
(***************************************************************************)
WellFormed(M) ==
  /\ M \in Seq(Row)
  /\ \A n \in DOMAIN M : M[n].offset # 0 => M[n].type = "SDEF"
  /\ \A n \in DOMAIN M : M[n].father # -1 =>
       \E k \in 1 .. n - 1 : M[k].id = M[n].father
  /\ \A n, k \in DOMAIN M : M[n].id = M[k].id =>
       [M[n] EXCEPT !.father = -1] = [M[k] EXCEPT !.father = -1]
=============================================================================
