------------------------------ MODULE Evidence ------------------------------
(***************************************************************************)
(* What the whole system promises about the evidence a verdict rests on,   *)
(* with no cache, no ring, no files and no sockets: the program reports    *)
(* facts, the trusted side comes to hold some of them and never drops one  *)
(* from its history, and the verifier accepts traces made of held facts.   *)
(*                                                                         *)
(* It promises no completeness: a fact may be lost on the way, a trace may *)
(* arrive late or never.  What it excludes is invention: an identifier     *)
(* with an address that was never reported for it.                         *)
(***************************************************************************)
CONSTANT Facts

VARIABLES reported, held, accepted

vars == <<reported, held, accepted>>

TypeOK == reported \subseteq Facts /\ held \subseteq Facts /\ accepted \subseteq Facts

Init == reported = {} /\ held = {} /\ accepted = {}

\* The trusted side stores any number of the facts reported so far.
Store ==
  /\ held \subseteq held'
  /\ held' \subseteq held \cup reported'

\* The program reports a fact; what was cached may be stored at once.
Report ==
  /\ \E f \in Facts : reported' = reported \cup {f}
  /\ Store
  /\ UNCHANGED accepted

Flush ==
  /\ UNCHANGED <<reported, accepted>>
  /\ Store

\* A trace reaches the verifier.
Accept ==
  /\ accepted' \subseteq held
  /\ UNCHANGED <<reported, held>>

Next == Report \/ Flush \/ Accept

Spec == Init /\ [][Next]_vars

\* Nothing is accepted that was not held, nothing held that was not reported.
Grounded == accepted \subseteq held /\ held \subseteq reported
=============================================================================
