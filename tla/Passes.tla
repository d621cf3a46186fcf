------------------------------- MODULE Passes -------------------------------
(***************************************************************************)
(* The passes that prepare a module for the analysis: InputWrapper puts a  *)
(* marker call before every input call, FunctionInstrumentor replaces the  *)
(* functions that take pointers by clones with one more parameter for each *)
(* of them, through which callers name the definition they pass.           *)
(*                                                                         *)
(* A value is a pair <<name, n>>; an instruction is named by the value it  *)
(* computes.  The marker calls of instruction <<x, 0>> are <<x, 1>> and    *)
(* <<x, 2>>.                                                               *)
(***************************************************************************)
EXTENDS Integers, Sequences, FiniteSets

CONSTANTS Programs,   \* the modules the tools are run on
          Null        \* an actual parameter without a value

VARIABLES
  prog,        \* the module as compiled; never changes
  phase,       \* the part of the tool chain that runs
  left,        \* what the loop under way has still to visit, in no fixed order
  code,        \* the instructions of the module
  fnlist,      \* FunctionInstrumentor: functions its loop has still to visit
  blacklist,
  instrumentedFunctions

passVars == <<code, fnlist, blacklist, instrumentedFunctions>>

-----------------------------------------------------------------------------
Value == STRING \X Nat
Original == [name : STRING, clone : {FALSE}]
Parameter == [name : STRING, pointer : BOOLEAN]

\* An instruction as compiled: of no clone and calling none.
Compiled == [id : STRING \X {0}, fn : Original, op : STRING, callee : Original,
             args : Seq(Value), refs : {<< >>}, loop : BOOLEAN]

(***************************************************************************)
(* A module: an instruction is known by the value it computes, a function  *)
(* by its name and a parameter, in a function with a body, by its name.    *)
(***************************************************************************)
ASSUME ModuleAssumption ==
  \A p \in Programs :
    /\ p.code \subseteq Compiled
    /\ \A i, j \in p.code : i.id = j.id => i = j
    /\ IsFiniteSet(p.values)
    /\ p.functions \in Seq(STRING)
    /\ \A f \in DOMAIN p.params : f \in STRING /\ p.params[f] \in Seq(Parameter)
    /\ \A n \in DOMAIN p.functions :
         LET f == p.functions[n]
         IN /\ f \in DOMAIN p.params
            /\ \A j, k \in DOMAIN p.params[f] : p.params[f][j].name = p.params[f][k].name => j = k

Function(name) == [name |-> name, clone |-> FALSE]
Clone(f) == [f EXCEPT !.clone = TRUE]

Params(f) == prog.params[f.name]
Pointers(f) == {k \in DOMAIN Params(f) : Params(f)[k].pointer}

\* The functions with a body, as the module lists them before the passes.
Defined == {Function(prog.functions[k]) : k \in DOMAIN prog.functions}

\* A direct call; a call through a pointer has no callee that LLVM names.
Calls(names) == {i \in code : i.op = "call" /\ ~i.callee.clone /\ i.callee.name \in names}

ScanfNames == {"scanf", "__isoc99_scanf", "fscanf", "sscanf"}
GetsNames  == {"gets"}       \* not fgets

-----------------------------------------------------------------------------
\* The marker call before i, with the first arguments of i.
Wrapper(i, n, callee, arity) ==
  [i EXCEPT !.id = <<i.id[1], n>>, !.callee = Function(callee),
            !.args = SubSeq(i.args, 1, arity)]

(***************************************************************************)
(* InputWrapper, all functions at once: no function's calls depend on      *)
(* another's.  An argument beyond the last is read when scanf is called    *)
(* with its format alone.                                                  *)
(***************************************************************************)
InputWrapper ==
  LET wrapped == {i \in Calls(ScanfNames \cup GetsNames) :
                    i.fn.name \notin {"wrapper_scanf", "wrapper_gets"}}
      scanfs == wrapped \cap Calls(ScanfNames)
      getss  == wrapped \cap Calls(GetsNames)
  IN /\ phase = "wrap"
     /\ \/ /\ \A i \in scanfs : Len(i.args) >= 2
           /\ code' = code \cup {Wrapper(i, 1, "wrapper_scanf", 2) : i \in scanfs}
                           \cup {Wrapper(i, 2, "wrapper_gets", 1) : i \in getss}
           /\ phase' = "clone"
        \/ /\ \E i \in scanfs : Len(i.args) < 2
           /\ phase' = "undefined"
           /\ UNCHANGED code
     /\ UNCHANGED <<fnlist, blacklist, instrumentedFunctions, left>>

-----------------------------------------------------------------------------
(***************************************************************************)
(* The loop over the functions, which also meets the clones it appends.    *)
(***************************************************************************)
instrumentFunction ==
  /\ phase = "clone"
  /\ fnlist # << >>
  /\ LET f == Head(fnlist) IN
       \/ /\ Pointers(f) = {} \/ f \in blacklist
          /\ fnlist' = Tail(fnlist)
          /\ blacklist' = blacklist \cup {f}
          /\ UNCHANGED <<code, instrumentedFunctions>>
       \/ /\ Pointers(f) # {} /\ f \notin blacklist
          /\ fnlist' = Append(Tail(fnlist), Clone(f))
          /\ code' = code \cup {[i EXCEPT !.fn = Clone(f)] : i \in {j \in code : j.fn = f}}
          /\ blacklist' = blacklist \cup {Clone(f)}
          /\ instrumentedFunctions' = instrumentedFunctions \cup {f}
  /\ UNCHANGED <<phase, left>>

\* A call of a clone passes 0 for every added parameter.
Redirected(i) ==
  [i EXCEPT !.callee = Clone(i.callee),
            !.refs = [k \in Pointers(i.callee) |-> [id |-> 0, param |-> ""]]]

\* Mutant: the bodies of the clones are left as they were copied.
instrumentCallsOutside ==
  LET calls == {i \in code : /\ i.op = "call" /\ i.callee \in instrumentedFunctions
                             /\ i.fn \notin instrumentedFunctions /\ ~i.fn.clone}
  IN /\ phase = "clone"
     /\ fnlist = << >>
     /\ code' = (code \ calls) \cup {Redirected(i) : i \in calls}
     /\ left' = instrumentedFunctions
     /\ phase' = "erase"
     /\ UNCHANGED <<fnlist, blacklist, instrumentedFunctions>>

\* Calls inside the functions that are going to be removed are left alone.
instrumentCalls ==
  LET calls == {i \in code : /\ i.op = "call" /\ i.callee \in instrumentedFunctions
                             /\ i.fn \notin instrumentedFunctions}
  IN /\ phase = "clone"
     /\ fnlist = << >>
     /\ code' = (code \ calls) \cup {Redirected(i) : i \in calls}
     /\ left' = instrumentedFunctions
     /\ phase' = "erase"
     /\ UNCHANGED <<fnlist, blacklist, instrumentedFunctions>>

(***************************************************************************)
(* One turn of the loop that removes the originals, callers or callees of  *)
(* each other in any order.  A function whose address is used otherwise    *)
(* than by a direct call leaves that use dangling.                         *)
(***************************************************************************)
removeFunction ==
  /\ phase = "erase"
  /\ \E f \in left : /\ code' = {i \in code : i.fn # f}
                     /\ left' = left \ {f}
                     /\ phase' = IF f.name \in prog.taken THEN "undefined" ELSE phase
  /\ UNCHANGED <<fnlist, blacklist, instrumentedFunctions>>

PassInit ==
  /\ code = prog.code
  /\ fnlist = [k \in DOMAIN prog.functions |-> Function(prog.functions[k])]
  /\ blacklist = {Function(n) : n \in {"main", "wrapper_scanf", "wrapper_gets"}}
  /\ instrumentedFunctions = {}
=============================================================================
