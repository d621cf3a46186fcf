----------------------------- MODULE MCProgram ------------------------------
(***************************************************************************)
(* Three functions; f and g call each other and themselves.                *)
(***************************************************************************)
EXTENDS Program, TLC

MCFunctions == {"main", "f", "g"}
MCLocal     == "main" :> 1 @@ "f" :> 2 @@ "g" :> 4
MCUse       == "main" :> 5 @@ "f" :> 6 @@ "g" :> 7
MCSize      == 1 :> 1 @@ 2 :> 1 @@ 3 :> 2 @@ 4 :> 1 @@ 8 :> 2
MCOffset    == 1 :> 0 @@ 2 :> 1 @@ 3 :> 0 @@ 4 :> 0 @@ 8 :> 0
MCAddresses == {1, 4, 7, 13}
=============================================================================
