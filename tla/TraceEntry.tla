----------------------------- MODULE TraceEntry -----------------------------
(***************************************************************************)
(* The trace entry shared by the normal-world library and the trusted      *)
(* application: the C struct use_t, which both sides declare with the same *)
(* layout, the calls that fill it and the events that are read out of it.  *)
(*                                                                         *)
(* One struct has room for a definition, a use and an indirect use at the  *)
(* same time, and every writer writes only the fields of its own kind.     *)
(* Identifiers are numbers because the code uses 0 for "nothing recorded". *)
(***************************************************************************)
EXTENDS Integers, Sequences

None   == 0      \* an identifier (or a dynamic size) that is not set
Static == -1     \* def_size of a definition whose size the analysis knows

\* def, def_addr, def_size; use_id, use_addr; i_use_use, i_use_def, i_use_addr.
UseT == [def  : [id : Nat, addr : Nat, size : Nat \cup {Static}],
         use  : [id : Nat, addr : Nat],
         iuse : [id : Nat, of : Nat, addr : Nat]]

\* The library never writes the size -1; it is the application's mark.
CacheT == {entry \in UseT : entry.def.size # Static}

\* What calloc, memset and the zero initialiser of an array leave behind.
ZeroEntry == [def  |-> [id |-> None, addr |-> 0, size |-> 0],
              use  |-> [id |-> None, addr |-> 0],
              iuse |-> [id |-> None, of |-> None, addr |-> 0]]

-----------------------------------------------------------------------------
(***************************************************************************)
(* The calls the instrumentation inserts into the protected program.       *)
(***************************************************************************)
ENTRY_TYPE == {"def", "use", "libuse", "iuse", "ilibuse", "dalloca"}

DefTypes   == {"def", "dalloca"}
UseTypes   == {"use", "libuse"}
IUseTypes  == {"iuse", "ilibuse"}

\* An identifier is packed with the depth of the call, which is at least 1
\* inside a function, and the first number goes to no definition or use.
Call == [type : ENTRY_TYPE, id : Nat \ {None}, addr : Nat,
         def_id : Nat, def_size : Nat, size_of_write : Nat]

(***************************************************************************)
(* Library uses report the end of the written block.  The length is the    *)
(* argument of the call or, for 0xdeadbeef, the distance getEndOfObject    *)
(* walks to the terminating zero: size_of_write stands for either.         *)
(***************************************************************************)
EndOfWrite(c) ==
  IF c.type \in {"libuse", "ilibuse"} THEN c.addr + c.size_of_write ELSE c.addr

\* Each group of fields is written without touching the other two.
SetDef(entry, d)  == [def |-> d, use |-> entry.use, iuse |-> entry.iuse]
SetUse(entry, u)  == [def |-> entry.def, use |-> u, iuse |-> entry.iuse]
SetIUse(entry, u) == [def |-> entry.def, use |-> entry.use, iuse |-> u]

\* Mutant: a definition found again keeps the address it had.
UpdateEntryKeepsAddress(entry, c) ==
  IF c.type \in DefTypes THEN
    SetDef(entry, [id |-> c.id,
                   addr |-> IF entry.def.id # None THEN entry.def.addr ELSE c.addr,
                   size |-> IF c.type = "dalloca" THEN c.def_size
                            ELSE entry.def.size])
  ELSE IF c.type \in UseTypes THEN
    SetUse(entry, [id |-> c.id, addr |-> EndOfWrite(c)])
  ELSE
    SetIUse(entry, [id |-> c.id, of |-> c.def_id, addr |-> EndOfWrite(c)])

\* zbouncer_update_entry: a def leaves the size that is already there.
UpdateEntry(entry, c) ==
  IF c.type \in DefTypes THEN
    SetDef(entry, [id |-> c.id, addr |-> c.addr,
                   size |-> IF c.type = "dalloca" THEN c.def_size
                            ELSE entry.def.size])
  ELSE IF c.type \in UseTypes THEN
    SetUse(entry, [id |-> c.id, addr |-> EndOfWrite(c)])
  ELSE
    SetIUse(entry, [id |-> c.id, of |-> c.def_id, addr |-> EndOfWrite(c)])

-----------------------------------------------------------------------------
(***************************************************************************)
(* The events of a trace.  aux is the size of a DDEF and the definition of *)
(* an IUSE.                                                                *)
(***************************************************************************)
EventKind == {"DEF", "DDEF", "USE", "IUSE"}
Event     == [kind : EventKind, id : Nat, addr : Nat, aux : Nat]

DefKinds == {"DEF", "DDEF"}

MakeEvent(kind, id, addr, aux) ==
  [kind |-> kind, id |-> id, addr |-> addr, aux |-> aux]

\* The event a cached call stands for; an allocation of size 0 is a DEF.
CallEvent(c) ==
  IF c.type \in UseTypes THEN MakeEvent("USE", c.id, EndOfWrite(c), 0)
  ELSE IF c.type \in IUseTypes THEN MakeEvent("IUSE", c.id, EndOfWrite(c), c.def_id)
  ELSE IF c.type = "dalloca" /\ c.def_size # 0
       THEN MakeEvent("DDEF", c.id, c.addr, c.def_size)
       ELSE MakeEvent("DEF", c.id, c.addr, 0)

\* Mutant: the chain forgets the indirect uses.
EntryKindNoIUse(entry) ==
  IF entry.def.id # None /\ entry.def.size = 0 THEN "DEF"
  ELSE IF entry.use.id # None THEN "USE"
  ELSE IF entry.def.size # 0 THEN "DDEF"
  ELSE "END"

(***************************************************************************)
(* What one entry of a flushed buffer is taken for: the first test of the  *)
(* chain in zbouncer_flush_cache that succeeds; "END" leaves the loop.     *)
(***************************************************************************)
EntryKind(entry) ==
  IF entry.def.id # None /\ entry.def.size = 0 THEN "DEF"
  ELSE IF entry.use.id # None THEN "USE"
  ELSE IF entry.iuse.id # None THEN "IUSE"
  ELSE IF entry.def.size # 0 THEN "DDEF"
  ELSE "END"

EntryEvent(entry) ==
  IF EntryKind(entry) = "USE"
  THEN MakeEvent("USE", entry.use.id, entry.use.addr, 0)
  ELSE IF EntryKind(entry) = "IUSE"
  THEN MakeEvent("IUSE", entry.iuse.id, entry.iuse.addr, entry.iuse.of)
  ELSE IF EntryKind(entry) = "DDEF"
  THEN MakeEvent("DDEF", entry.def.id, entry.def.addr, entry.def.size)
  ELSE MakeEvent("DEF", entry.def.id, entry.def.addr, 0)

\* Mutant: zbouncer_def leaves the size of the slot.
StoreEventKeepsSize(slot, e) ==
  IF e.kind \in DefKinds THEN
    SetDef(slot, [id |-> e.id, addr |-> e.addr,
                  size |-> IF e.kind = "DDEF" THEN e.aux ELSE slot.def.size])
  ELSE IF e.kind = "USE" THEN
    SetUse(slot, [id |-> e.id, addr |-> e.addr])
  ELSE
    SetIUse(slot, [id |-> e.id, of |-> e.aux, addr |-> e.addr])

\* Mutant: zbouncer_iuse exchanges the use and its definition.
StoreEventSwapsIUse(slot, e) ==
  IF e.kind \in DefKinds THEN
    SetDef(slot, [id |-> e.id, addr |-> e.addr,
                  size |-> IF e.kind = "DDEF" THEN e.aux ELSE Static])
  ELSE IF e.kind = "USE" THEN
    SetUse(slot, [id |-> e.id, addr |-> e.addr])
  ELSE
    SetIUse(slot, [id |-> e.aux, of |-> e.id, addr |-> e.addr])

\* The trusted application writes an event over a slot of its trace.
StoreEvent(slot, e) ==
  IF e.kind \in DefKinds THEN
    SetDef(slot, [id |-> e.id, addr |-> e.addr,
                  size |-> IF e.kind = "DDEF" THEN e.aux ELSE Static])
  ELSE IF e.kind = "USE" THEN
    SetUse(slot, [id |-> e.id, addr |-> e.addr])
  ELSE
    SetIUse(slot, [id |-> e.id, of |-> e.aux, addr |-> e.addr])

(***************************************************************************)
(* The lines write_trace_to_file prints for one slot: up to three, because *)
(* a slot that has been used more than once shows every kind it ever held. *)
(* An indirect use is printed when its definition is set.                  *)
(***************************************************************************)
LineIf(condition, e) == IF condition THEN << e >> ELSE << >>

\* Mutant: a use is printed with the address of the definition.
PrintedLinesDefAddress(slot) ==
  LineIf(slot.def.id # None /\ slot.def.size = Static,
         MakeEvent("DEF", slot.def.id, slot.def.addr, 0))
  \o LineIf(slot.def.id # None /\ slot.def.size # Static,
         MakeEvent("DDEF", slot.def.id, slot.def.addr, slot.def.size))
  \o LineIf(slot.use.id # None,
         MakeEvent("USE", slot.use.id, slot.def.addr, 0))
  \o LineIf(slot.iuse.of # None,
         MakeEvent("IUSE", slot.iuse.id, slot.iuse.addr, slot.iuse.of))

PrintedLines(slot) ==
  LineIf(slot.def.id # None /\ slot.def.size = Static,
         MakeEvent("DEF", slot.def.id, slot.def.addr, 0))
  \o LineIf(slot.def.id # None /\ slot.def.size # Static,
         MakeEvent("DDEF", slot.def.id, slot.def.addr, slot.def.size))
  \o LineIf(slot.use.id # None,
         MakeEvent("USE", slot.use.id, slot.use.addr, 0))
  \o LineIf(slot.iuse.of # None,
         MakeEvent("IUSE", slot.iuse.id, slot.iuse.addr, slot.iuse.of))

-----------------------------------------------------------------------------
(***************************************************************************)
(* The facts an entry asserts about the run of the program, whatever the   *)
(* kind under which it will be reported: "definition d is at address a",   *)
(* "use u reached address a", "use u reached a through definition d".      *)
(***************************************************************************)
DefFact(d, a)     == [what |-> "def",  id |-> d, at |-> a, of |-> None]
UseFact(u, a)     == [what |-> "use",  id |-> u, at |-> a, of |-> None]
IUseFact(u, d, a) == [what |-> "iuse", id |-> u, at |-> a, of |-> d]

CallFact(c) ==
  IF c.type \in DefTypes THEN DefFact(c.id, c.addr)
  ELSE IF c.type \in UseTypes THEN UseFact(c.id, EndOfWrite(c))
  ELSE IUseFact(c.id, c.def_id, EndOfWrite(c))

EntryFacts(entry) ==
  {f \in {DefFact(entry.def.id, entry.def.addr),
          UseFact(entry.use.id, entry.use.addr),
          IUseFact(entry.iuse.id, entry.iuse.of, entry.iuse.addr)} :
     f.id # None}

EventFact(e) ==
  IF e.kind \in DefKinds THEN DefFact(e.id, e.addr)
  ELSE IF e.kind = "USE" THEN UseFact(e.id, e.addr)
  ELSE IUseFact(e.id, e.aux, e.addr)
=============================================================================
