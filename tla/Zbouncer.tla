------------------------------ MODULE Zbouncer ------------------------------
(***************************************************************************)
(* The Zbouncer pass: for the tags that svf-ex left on instructions and    *)
(* globals, calls into the runtime library, and for the calls of clones    *)
(* the definitions they pass.  A part of the pass inserts behind an        *)
(* instruction what executes before the insertions of earlier parts.       *)
(***************************************************************************)
EXTENDS SvfEx

VARIABLES
  after,    \* the calls inserted behind each instruction, in execution order
  entry     \* the calls inserted at the entry of main

zbVars == <<after, entry>>

\* ref is the definition the caller chose, addr the value whose address is reported.
Report(call, id, ref, addr) == [call |-> call, id |-> id, ref |-> ref, addr |-> addr]

Tagged(x, key) == \E t \in tags : t.on = x /\ t.key = key
Tag(x, key) == (CHOOSE t \in tags : t.on = x /\ t.key = key).val

NoRef == [id |-> 0, param |-> ""]

\* An unknown name leaves the reference uninitialised; no reference is like this one.
Uninitialised == [id |-> -1, param |-> "?"]

\* Mutant: only the last parameter is compared.
ResolveLast(i) ==
  LET name == Tag(i.id, <<"ziuse">>).param
      last == Len(Params(i.fn))
  IN IF i.fn.clone /\ last \in Pointers(i.fn) /\ Params(i.fn)[last].name = name
       THEN Named(name) ELSE Uninitialised

Resolve(i) ==
  LET name == Tag(i.id, <<"ziuse">>).param
  IN IF i.fn.clone /\ \E k \in Pointers(i.fn) : Params(i.fn)[k].name = name
       THEN Named(name) ELSE Uninitialised

Indirect(i) == Tagged(i.id, <<"ziuse">>)

isAllocation(i) == i.op = "call" /\ i.callee.name \in {"malloc", "calloc"}

\* The argument a library use reports the address of.
libAddress(i) == IF i.callee.name = "strcpy" THEN i.args[1] ELSE i.args[2]

-----------------------------------------------------------------------------
(***************************************************************************)
(* Each part as the calls it inserts behind instruction i: none without    *)
(* the tag.  The loop part reports everything as a generic entry.          *)
(***************************************************************************)
DefReport(i, onStack, dynamic) ==
  IF ~Tagged(i.id, <<"zdef">>) THEN << >>
  ELSE LET id == Tag(i.id, <<"zdef">>).id IN
       IF i.op # "call" THEN <<Report(onStack, id, NoRef, i.id)>>
       ELSE IF isAllocation(i) THEN <<Report(dynamic, id, NoRef, i.id)>>
       ELSE << >>

\* Mutant: the use and the definition it reads are swapped.
UseReportSwapped(i, key, addr, direct, indirect) ==
  IF ~Tagged(i.id, key) THEN << >>
  ELSE LET id == Tag(i.id, key).id IN
       IF Indirect(i) THEN <<Report(indirect, Resolve(i).id, Literal(id), addr)>>
       ELSE <<Report(direct, id, NoRef, addr)>>

UseReport(i, key, addr, direct, indirect) ==
  IF ~Tagged(i.id, key) THEN << >>
  ELSE LET id == Tag(i.id, key).id IN
       IF Indirect(i) THEN <<Report(indirect, id, Resolve(i), addr)>>
       ELSE <<Report(direct, id, NoRef, addr)>>

LoopDefs(i) == DefReport(i, "entry5", "entry5")
LoopStores(i) == UseReport(i, <<"zsuse">>, i.id, "entry3", "entry3")

LoopLibs(i) ==
  IF Tagged(i.id, <<"zluse">>)
    THEN UseReport(i, <<"zluse">>, libAddress(i), "entry2", "entry4")
    ELSE << >>

LoopPart(i) == LoopDefs(i) \o LoopStores(i) \o LoopLibs(i)

DefPart(i) == DefReport(i, "zbouncer_collect_alloca", "zbouncer_collect_alloca_dyn")
StorePart(i) == UseReport(i, <<"zsuse">>, i.id, "zbouncer_use", "zbouncer_iuse")

LibPart(i) ==
  IF Tagged(i.id, <<"zluse">>)
    THEN UseReport(i, <<"zluse">>, libAddress(i), "zbouncer_luse", "zbouncer_iluse")
    ELSE << >>

ExitPart(i) == IF i.op = "ret" /\ i.fn = Function("main")
                 THEN <<Report("zexit", 0, NoRef, i.id)>> ELSE << >>

(***************************************************************************)
(* A part's loop over the instructions, whose turns do not touch each      *)
(* other.                                                                  *)
(***************************************************************************)
Insert(part, next, set, Part(_)) ==
  /\ phase = part
  /\ phase' = next
  /\ after' = [x \in prog.values |->
                 IF \E i \in set : i.id = x THEN Part(CHOOSE i \in set : i.id = x) \o after[x]
                                           ELSE after[x]]
  /\ UNCHANGED <<passVars, svfVars, left, entry>>

InLoops == {i \in code : i.loop}

\* Mutant: the loop part visits all instructions.
InsertLoopAll == Insert("z_loops", "z_init", code, LoopPart)

InsertLoop  == Insert("z_loops", "z_init", InLoops, LoopPart)
InsertExit  == Insert("z_exit", "z_defs", code, ExitPart)    \* before the instruction
InsertDef   == Insert("z_defs", "z_stores", code, DefPart)
InsertStore == Insert("z_stores", "z_libs", code, StorePart)
InsertLib   == Insert("z_libs", "z_calls", code, LibPart)

Globals == {x \in prog.values : svf.kind[x] = "global" /\ Tagged(x, <<"zdef">>)}

\* The orders in which the module may list a set of globals.
Arrangements(S) ==
  {s \in [1..Cardinality(S) -> S] : \A x \in S : \E i \in DOMAIN s : s[i] = x}

\* zinit, and then a report for each tagged global.
InsertInit ==
  /\ phase = "z_init"
  /\ \E s \in Arrangements(Globals) :
       entry' = <<Report("zinit", 0, NoRef, Null)>>
                \o Loop(s, LAMBDA g : Report("zbouncer_collect_alloca", Tag(g, <<"zdef">>).id, NoRef, g))
  /\ phase' = "z_exit"
  /\ UNCHANGED <<passVars, svfVars, left, after>>

\* Mutant: the argument is looked up among the parameters of the callee.
PassedByCallee(c, k) ==
  IF ~Tagged(c.id, zref(c, k)) THEN c.refs[k]
  ELSE LET r == Tag(c.id, zref(c, k)) IN
       IF r.param = "" \/ \E j \in Pointers(c.callee) : Params(c.callee)[j].name = r.param
         THEN r ELSE c.refs[k]

\* What call c passes for parameter k; a name its caller lacks changes nothing.
Passed(c, k) ==
  IF ~Tagged(c.id, zref(c, k)) THEN c.refs[k]
  ELSE LET r == Tag(c.id, zref(c, k)) IN
       IF r.param = "" \/ (c.fn.clone /\ \E j \in Pointers(c.fn) : Params(c.fn)[j].name = r.param)
         THEN r ELSE c.refs[k]

\* The calls are replaced after the loop that collects them.
PassRefs ==
  LET calls == {c \in code : c.op = "call" /\ c.callee.clone}
  IN /\ phase = "z_calls"
     /\ phase' = "done"
     /\ code' = (code \ calls) \cup {[c EXCEPT !.refs = [k \in DOMAIN @ |-> Passed(c, k)]] : c \in calls}
     /\ UNCHANGED <<fnlist, blacklist, instrumentedFunctions, svfVars, left, zbVars>>

ZbInit == after = [x \in prog.values |-> << >>] /\ entry = << >>

ZbNext == InsertLoop \/ InsertInit \/ InsertExit \/ InsertDef
          \/ InsertStore \/ InsertLib \/ PassRefs
=============================================================================
