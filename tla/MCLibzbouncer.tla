--------------------------- MODULE MCLibzbouncer ----------------------------
(***************************************************************************)
(* Small programs for Libzbouncer: a local array (1), a dynamic allocation *)
(* (2), a use (3) and an indirect use (4) of the array.                    *)
(***************************************************************************)
EXTENDS Libzbouncer

MCCall(type, id, addr, of, size, write) ==
  [type |-> type, id |-> id, addr |-> addr, def_id |-> of,
   def_size |-> size, size_of_write |-> write]

\* Both kinds of definition, the second at two addresses and once with size
\* 0.  A plain use is a library use of length 0.
MCAllCalls ==
  {MCCall("def", 1, 1, 0, 0, 0),
   MCCall("dalloca", 2, 1, 0, 0, 0), MCCall("dalloca", 2, 2, 0, 3, 0),
   MCCall("libuse", 3, 1, 0, 0, 1), MCCall("ilibuse", 4, 1, 1, 0, 1)}

\* One call for each command of the trusted application.
MCCommandCalls ==
  {MCCall("def", 1, 1, 0, 0, 0), MCCall("dalloca", 2, 2, 0, 3, 0),
   MCCall("use", 3, 1, 0, 0, 0), MCCall("iuse", 4, 2, 1, 0, 0)}

\* One array and uses of it: enough to tell which uses arrive.
MCUseCalls ==
  {MCCall("def", 1, 1, 0, 0, 0),
   MCCall("use", 3, 1, 0, 0, 0), MCCall("use", 3, 2, 0, 0, 0)}

\* What ShortGeneration of LibzbouncerProofs takes of the identifiers.
ASSUME ProgramAssumption == IdsByKind
=============================================================================
