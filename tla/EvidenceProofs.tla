--------------------------- MODULE EvidenceProofs ---------------------------
(***************************************************************************)
(* What the promise of Evidence comes down to: every fact a verdict rests  *)
(* on was reported by the program.                                         *)
(***************************************************************************)
EXTENDS Evidence, TLAPS

(***************************************************************************)
(* Whatever is lost or late between the program and the verifier, a fact   *)
(* in an accepted trace is held by the trusted side and was reported by    *)
(* the program.                                                            *)
(***************************************************************************)
THEOREM EvidenceGrounded == Spec => []Grounded
<1>1. Init => Grounded
  BY DEF Init, Grounded
<1>2. Grounded /\ [Next]_vars => Grounded'
  <2> SUFFICES ASSUME Grounded, [Next]_vars PROVE Grounded'
    OBVIOUS
  <2>1. CASE Report
    BY <2>1 DEF Report, Store, Grounded
  <2>2. CASE Flush
    BY <2>2 DEF Flush, Store, Grounded
  <2>3. CASE Accept
    BY <2>3 DEF Accept, Grounded
  <2>4. CASE UNCHANGED vars
    BY <2>4 DEF vars, Grounded
  <2> QED
    BY <2>1, <2>2, <2>3, <2>4 DEF Next
<1> QED
  BY <1>1, <1>2, PTL DEF Spec
=============================================================================
