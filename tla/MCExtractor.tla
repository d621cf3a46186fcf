---------------------------- MODULE MCExtractor -----------------------------
(***************************************************************************)
(* A small program for Extractor: one array and one use of it.             *)
(***************************************************************************)
EXTENDS Extractor

MCCall(type, id, addr) ==
  [type |-> type, id |-> id, addr |-> addr, def_id |-> 0,
   def_size |-> 0, size_of_write |-> 0]

MCTwoCalls == {MCCall("def", 1, 1), MCCall("use", 3, 1)}
=============================================================================
