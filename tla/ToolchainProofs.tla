--------------------------- MODULE ToolchainProofs ---------------------------
(***************************************************************************)
(* From the compiled module to the reports, for every module and whatever  *)
(* SVF answers about it.                                                   *)
(***************************************************************************)
EXTENDS Toolchain, FiniteSetTheorems, WellFoundedInduction, TLAPS

-----------------------------------------------------------------------------
(* The order of the parts. *)

LEMMA SvfSteps ==
  ASSUME SvfNext
  PROVE  /\ UNCHANGED passVars
         /\ \/ phase' = phase
            \/ phase' = "undefined"
            \/ phase = "iuses" /\ phase' = "export"
            \/ phase = "export" /\ phase' = "z_loops" /\ work = << >> /\ work' = << >>
<1>1. CASE InputSite \/ LibSite \/ InputDef \/ StoreUse \/ UseTarget \/ GepPath \/ RefSite
  BY Zenon, <1>1 DEF InputSite, LibSite, InputDef, StoreUse, UseTarget, GepPath, RefSite, Undefined
<1>2. CASE RefParam \/ RefField
  BY Zenon, <1>2 DEF RefParam, RefField, Undefined
<1>3. CASE IntToPtr \/ IndirectUse \/ IndirectParam \/ StartExport \/ ExportRow \/ TagValues
  BY Zenon, <1>3 DEF IntToPtr, IndirectUse, IndirectParam, StartExport, ExportRow, TagValues, Undefined
<1> QED
  BY <1>1, <1>2, <1>3 DEF SvfNext

LEMMA PartSteps ==
  ASSUME NextPart
  PROVE  /\ UNCHANGED <<passVars, svfVars>>
         /\ left = {} /\ work = << >>
         /\ \/ phase = "erase" /\ phase' = "sites"
            \/ phase = "sites" /\ phase' = "refs"
            \/ phase = "refs" /\ phase' = "inttoptr"
            \/ phase = "inttoptr" /\ phase' = "iuses"
  BY DEF NextPart, Through, Move

\* The lists that the handlers of svf-ex go through are made and emptied by its parts.
Idle == phase \notin {"sites", "refs", "inttoptr", "iuses", "export", "undefined"} => work = << >>

LEMMA SvfPhases ==
  ASSUME Idle, SvfNext
  PROVE  phase \in {"sites", "refs", "inttoptr", "iuses", "export", "undefined"}
<1>1. CASE InputSite \/ LibSite \/ InputDef \/ StoreUse \/ UseTarget \/ GepPath \/ RefSite
  BY Zenon, <1>1 DEF InputSite, LibSite, InputDef, StoreUse, UseTarget, GepPath, RefSite, Idle
<1>2. CASE RefParam \/ RefField
  BY Zenon, <1>2 DEF RefParam, RefField, Idle
<1>3. CASE IntToPtr \/ IndirectUse \/ IndirectParam \/ StartExport \/ ExportRow \/ TagValues
  BY Zenon, <1>3 DEF IntToPtr, IndirectUse, IndirectParam, StartExport, ExportRow, TagValues, Idle
<1> QED
  BY <1>1, <1>2, <1>3 DEF SvfNext

InsertSteps ==
  \/ phase = "z_loops" /\ phase' = "z_init"
  \/ phase = "z_init" /\ phase' = "z_exit"
  \/ phase = "z_exit" /\ phase' = "z_defs"
  \/ phase = "z_defs" /\ phase' = "z_stores"
  \/ phase = "z_stores" /\ phase' = "z_libs"
  \/ phase = "z_libs" /\ phase' = "z_calls"

LEMMA ZbSteps ==
  ASSUME ZbNext
  PROVE  \/ PassRefs
         \/ ~PassRefs /\ InsertSteps /\ UNCHANGED <<passVars, svfVars, left>>
  BY DEF ZbNext, InsertLoop, InsertInit, InsertExit, InsertDef, InsertStore, InsertLib, Insert,
         InsertSteps, PassRefs

-----------------------------------------------------------------------------
(***************************************************************************)
(* Where an instruction of the wrapped module ends up: in the clone when   *)
(* its function has one, with its call redirected when the callee has one. *)
(***************************************************************************)
Inputs(names) ==
  {i \in prog.code : /\ i.op = "call" /\ ~i.callee.clone /\ i.callee.name \in names
                     /\ i.fn.name \notin {"wrapper_scanf", "wrapper_gets"}}

Base == prog.code \cup {Wrapper(i, 1, "wrapper_scanf", 2) : i \in Inputs(ScanfNames)}
                  \cup {Wrapper(i, 2, "wrapper_gets", 1) : i \in Inputs(GetsNames)}

Cloned(i) == [i EXCEPT !.fn = Clone(i.fn)]
Placed(i) == IF i.fn \in instrumentedFunctions THEN Cloned(i) ELSE i
Called(i) == IF i.op = "call" /\ i.callee \in instrumentedFunctions THEN Redirected(i) ELSE i
Final(i) == Called(Placed(i))

\* An instruction of the wrapped module: of no clone and calling none.
IsOriginal(f) == f = [name |-> f.name, clone |-> FALSE]
IsInstruction(i) == i = [id |-> i.id, fn |-> i.fn, op |-> i.op, callee |-> i.callee,
                         args |-> i.args, refs |-> i.refs, loop |-> i.loop]
Untouched(i) == IsInstruction(i) /\ IsOriginal(i.fn) /\ IsOriginal(i.callee)

LEMMA WrapperFields ==
  ASSUME NEW i, Untouched(i), NEW n, NEW callee, NEW arity,
         NEW w, w = Wrapper(i, n, callee, arity)
  PROVE  Untouched(w) /\ w.id = <<i.id[1], n>>
<1> DEFINE a == SubSeq(i.args, 1, arity)
           id == <<i.id[1], n>>
           f == Function(callee)
<1>1. w = [i EXCEPT !.id = id, !.callee = f, !.args = a]
  BY DEF Wrapper
<1>2. IsOriginal(f)
  BY DEF IsOriginal, Function
<1> HIDE DEF a, id, f
<1>3. w = [id |-> id, fn |-> i.fn, op |-> i.op, callee |-> f, args |-> a, refs |-> i.refs,
           loop |-> i.loop]
  BY <1>1 DEF Untouched, IsInstruction
<1>4. IsInstruction(w) /\ w.id = id /\ w.fn = i.fn /\ w.callee = f
  BY <1>3 DEF IsInstruction
<1> QED
  BY <1>2, <1>4 DEF Untouched, id

LEMMA BaseFacts ==
  ASSUME prog \in Programs
  PROVE  /\ \A i \in Base : Untouched(i)
         /\ prog.code \subseteq Base
         /\ \A i, j \in Base : i.id = j.id => i = j
<1>1. /\ prog.code \subseteq Compiled
      /\ \A i, j \in prog.code : i.id = j.id => i = j
  BY ModuleAssumption
<1> DEFINE S(i) == Wrapper(i, 1, "wrapper_scanf", 2)
           G(i) == Wrapper(i, 2, "wrapper_gets", 1)
<1>2. \A i \in prog.code : Untouched(i) /\ i.id = <<i.id[1], 0>>
  <2> TAKE i \in prog.code
  <2>1. i \in Compiled
    BY <1>1
  <2>2. IsInstruction(i)
    BY <2>1 DEF Compiled, IsInstruction
  <2>3. i.fn \in Original /\ i.callee \in Original /\ i.id \in STRING \X {0}
    BY <2>1 DEF Compiled
  <2>4. IsOriginal(i.fn) /\ IsOriginal(i.callee)
    BY <2>3 DEF Original, IsOriginal
  <2>5. i.id = <<i.id[1], 0>>
    BY <2>3
  <2> QED
    BY <2>2, <2>4, <2>5 DEF Untouched
<1>7. \A i \in Inputs(ScanfNames) \cup Inputs(GetsNames) : i \in prog.code
  BY DEF Inputs
<1>3. \A i \in Inputs(ScanfNames) : Untouched(S(i)) /\ S(i).id = <<i.id[1], 1>>
  BY <1>2, <1>7, WrapperFields
<1>4. \A i \in Inputs(GetsNames) : Untouched(G(i)) /\ G(i).id = <<i.id[1], 2>>
  BY <1>2, <1>7, WrapperFields
<1> HIDE DEF S, G
<1>5. ASSUME NEW i \in prog.code, NEW j \in prog.code, i.id[1] = j.id[1] PROVE i = j
  BY <1>1, <1>2, <1>5
<1>6. Base = prog.code \cup {S(i) : i \in Inputs(ScanfNames)} \cup {G(i) : i \in Inputs(GetsNames)}
  BY DEF Base, S, G
<1>8. ASSUME NEW b \in Base
      PROVE  \E i \in prog.code : \E n \in {0, 1, 2} :
               /\ b.id = <<i.id[1], n>>
               /\ n = 0 => b = i
               /\ n = 1 => b = S(i)
               /\ n = 2 => b = G(i)
  BY <1>2, <1>3, <1>4, <1>6, <1>7
<1>9. ASSUME NEW b \in Base, NEW c \in Base, b.id = c.id PROVE b = c
  <2>1. PICK i \in prog.code, n \in {0, 1, 2} :
           b.id = <<i.id[1], n>> /\ (n = 0 => b = i) /\ (n = 1 => b = S(i)) /\ (n = 2 => b = G(i))
    BY <1>8
  <2>2. PICK j \in prog.code, m \in {0, 1, 2} :
           c.id = <<j.id[1], m>> /\ (m = 0 => c = j) /\ (m = 1 => c = S(j)) /\ (m = 2 => c = G(j))
    BY <1>8
  <2>a. <<i.id[1], n>> = <<j.id[1], m>>
    BY <1>9, <2>1, <2>2
  <2>3. i.id[1] = j.id[1] /\ n = m
    BY <2>a
  <2>4. i = j
    BY <1>5, <2>3
  <2> QED
    BY <2>1, <2>2, <2>3, <2>4
<1> QED
  BY <1>2, <1>3, <1>4, <1>6, <1>9

Home(i) == IF i.fn \in instrumentedFunctions THEN Clone(i.fn) ELSE i.fn
Target(i) == IF i.op = "call" /\ i.callee \in instrumentedFunctions THEN Clone(i.callee) ELSE i.callee

\* j is what has become of i.
Stands(j, i) == /\ IsInstruction(j)
                /\ j.id = i.id /\ j.op = i.op /\ j.args = i.args /\ j.loop = i.loop
                /\ j.fn = Home(i) /\ j.callee = Target(i)

LEMMA CloneFields ==
  ASSUME NEW f, IsOriginal(f)
  PROVE  /\ ~IsOriginal(Clone(f)) /\ ~f.clone
         /\ Clone(f).name = f.name /\ Clone(f).clone
<1> DEFINE c == Clone(f)
<1>1. DOMAIN f = {"name", "clone"} /\ f.clone = FALSE
  BY DEF IsOriginal
<1>2. ASSUME NEW t, NEW g, g = [f EXCEPT !.clone = t]
      PROVE  g.clone = t /\ g.name = f.name
  BY <1>1, <1>2
<1>3. c = [f EXCEPT !.clone = TRUE]
  BY DEF Clone
<1>4. c.clone = TRUE /\ c.name = f.name
  BY <1>2, <1>3
<1> HIDE DEF c
<1>5. c.clone
  BY <1>4
<1>6. ~f.clone
  BY <1>1
<1>7. ~IsOriginal(c)
  <2>1. IsOriginal(c) => c.clone = FALSE
    BY DEF IsOriginal
  <2> QED
    BY <2>1, <1>5
<1> QED
  BY <1>4, <1>5, <1>6, <1>7 DEF c

LEMMA CalledFields ==
  ASSUME NEW i, IsInstruction(i)
  PROVE  /\ IsInstruction(Called(i)) /\ Called(i).id = i.id /\ Called(i).op = i.op /\ Called(i).loop = i.loop
         /\ Called(i).args = i.args /\ Called(i).fn = i.fn /\ Called(i).callee = Target(i)
<1> DEFINE r == [k \in Pointers(i.callee) |-> [id |-> 0, param |-> ""]]
           f == Clone(i.callee)
<1>1. Redirected(i) = [i EXCEPT !.callee = f, !.refs = r]
  BY DEF Redirected
<1> HIDE DEF r, f
<1>2. Redirected(i) = [id |-> i.id, fn |-> i.fn, op |-> i.op, callee |-> f, args |-> i.args,
                       refs |-> r, loop |-> i.loop]
  BY <1>1 DEF IsInstruction
<1>3. /\ IsInstruction(Redirected(i)) /\ Redirected(i).id = i.id /\ Redirected(i).op = i.op /\ Redirected(i).loop = i.loop
      /\ Redirected(i).args = i.args /\ Redirected(i).fn = i.fn /\ Redirected(i).callee = f
  BY <1>2 DEF IsInstruction
<1> QED
  BY <1>3 DEF Called, Target, f

LEMMA PlacedFields ==
  ASSUME NEW i, IsInstruction(i)
  PROVE  /\ IsInstruction(Placed(i)) /\ Placed(i).id = i.id /\ Placed(i).op = i.op /\ Placed(i).loop = i.loop
         /\ Placed(i).args = i.args /\ Placed(i).fn = Home(i) /\ Placed(i).callee = i.callee
<1> DEFINE f == Clone(i.fn)
<1>1. Cloned(i) = [i EXCEPT !.fn = f]
  BY DEF Cloned
<1> HIDE DEF f
<1>2. Cloned(i) = [id |-> i.id, fn |-> f, op |-> i.op, callee |-> i.callee, args |-> i.args,
                   refs |-> i.refs, loop |-> i.loop]
  BY <1>1 DEF IsInstruction
<1>3. /\ IsInstruction(Cloned(i)) /\ Cloned(i).id = i.id /\ Cloned(i).op = i.op /\ Cloned(i).loop = i.loop
      /\ Cloned(i).args = i.args /\ Cloned(i).fn = f /\ Cloned(i).callee = i.callee
  BY <1>2 DEF IsInstruction
<1> QED
  BY <1>3 DEF Placed, Home, f

LEMMA FinalFields ==
  ASSUME NEW i, Untouched(i), \A f \in instrumentedFunctions : IsOriginal(f)
  PROVE  /\ Stands(Final(i), i)
         /\ Final(i).fn \notin instrumentedFunctions
<1>1. /\ IsInstruction(Placed(i)) /\ Placed(i).id = i.id /\ Placed(i).op = i.op /\ Placed(i).loop = i.loop
      /\ Placed(i).args = i.args /\ Placed(i).fn = Home(i) /\ Placed(i).callee = i.callee
  BY PlacedFields DEF Untouched
<1>2. /\ IsInstruction(Final(i)) /\ Final(i).id = i.id /\ Final(i).op = i.op /\ Final(i).loop = i.loop
      /\ Final(i).args = i.args /\ Final(i).fn = Home(i) /\ Final(i).callee = Target(Placed(i))
  BY <1>1, CalledFields DEF Final
<1>3. Target(Placed(i)) = Target(i)
  BY <1>1 DEF Target
<1>4. Home(i) \notin instrumentedFunctions
  BY CloneFields DEF Home, Untouched
<1> QED
  BY <1>2, <1>3, <1>4 DEF Stands

\* A module in which each instruction of Base has one successor, and nothing else is.
Settled(C) ==
  /\ \A i \in Base : \E j \in C : Stands(j, i)
  /\ \A j \in C : \E i \in Base : Stands(j, i)
  /\ \A j, n \in C : j.id = n.id => j = n

LEMMA FinalSettled ==
  ASSUME prog \in Programs, \A f \in instrumentedFunctions : IsOriginal(f),
         NEW C, C = {Final(i) : i \in Base}
  PROVE  Settled(C)
<1>1. /\ \A i \in Base : Untouched(i)
      /\ \A i, j \in Base : i.id = j.id => i = j
  BY BaseFacts
<1>2. \A i \in Base : Stands(Final(i), i) /\ Final(i).id = i.id
  BY <1>1, FinalFields DEF Stands
<1> QED
  BY <1>1, <1>2 DEF Settled

(***************************************************************************)
(* What a settled module has to do with the compiled one.                  *)
(***************************************************************************)
LEMMA SettledIsSame ==
  ASSUME prog \in Programs, \A f \in instrumentedFunctions : IsOriginal(f), Settled(code)
  PROVE  SameProgram
<1>1. /\ \A i \in Base : Untouched(i)
      /\ \A i, j \in Base : i.id = j.id => i = j
      /\ prog.code \subseteq Base
  BY BaseFacts
<1>2. ASSUME NEW i \in Base, NEW j, Stands(j, i)
      PROVE  /\ j.fn.name = i.fn.name /\ j.callee.name = i.callee.name
             /\ j.fn.clone <=> i.fn \in instrumentedFunctions
             /\ j.op = "call" => (j.callee.clone <=> i.callee \in instrumentedFunctions)
  <2>1. j.fn = Home(i) /\ j.callee = Target(i) /\ j.op = i.op
    BY <1>2 DEF Stands
  <2>2. IsOriginal(i.fn) /\ IsOriginal(i.callee)
    BY <1>1 DEF Untouched
  <2>3. /\ Clone(i.fn).name = i.fn.name /\ Clone(i.fn).clone /\ ~i.fn.clone
        /\ Clone(i.callee).name = i.callee.name /\ Clone(i.callee).clone /\ ~i.callee.clone
    BY <2>2, CloneFields
  <2> QED
    BY <2>1, <2>3 DEF Home, Target
<1>3. ASSUME NEW i \in prog.code
      PROVE  \E j \in code :
               /\ {n \in code : n.id = i.id} = {j}
               /\ j.fn.name = i.fn.name /\ j.args = i.args /\ j.callee.name = i.callee.name
               /\ j.fn.clone <=> i.fn \in instrumentedFunctions
               /\ j.op = "call" => (j.callee.clone <=> i.callee \in instrumentedFunctions)
  <2>1. i \in Base
    BY <1>1
  <2>2. PICK j \in code : Stands(j, i)
    BY <2>1 DEF Settled
  <2>3. j.id = i.id /\ j.args = i.args
    BY <2>2 DEF Stands
  <2>4. {n \in code : n.id = i.id} = {j}
    BY <2>3 DEF Settled
  <2> QED
    BY <1>2, <2>1, <2>2, <2>3, <2>4
<1>4. ASSUME NEW j \in code, NEW n \in code, j.fn.name = n.fn.name PROVE j.fn = n.fn
  <2>1. PICK i \in Base : Stands(j, i)
    BY DEF Settled
  <2>2. PICK m \in Base : Stands(n, m)
    BY DEF Settled
  <2>3. i.fn.name = m.fn.name
    BY <1>2, <1>4, <2>1, <2>2
  <2>4. i.fn = m.fn
    BY <1>1, <2>3 DEF Untouched, IsOriginal
  <2> QED
    BY <2>1, <2>2, <2>4 DEF Stands, Home
<1> QED
  BY <1>3, <1>4 DEF SameProgram

(***************************************************************************)
(* The module of every part, in terms of the wrapped one: the clones are   *)
(* added to it, then each original whose turn has come is taken away.      *)
(***************************************************************************)
AnyFunction == [name : STRING, clone : BOOLEAN]
Phases == {"wrap", "clone", "erase", "undefined", "sites", "refs", "inttoptr", "iuses", "export",
           "z_loops", "z_init", "z_exit", "z_defs", "z_stores", "z_libs", "z_calls", "done"}

Cloning == Base \cup {Cloned(i) : i \in {b \in Base : b.fn \in instrumentedFunctions}}
Erasing == {Final(i) : i \in Base} \cup {b \in Base : b.fn \in left}

ModuleInv ==
  /\ prog \in Programs
  /\ phase \in Phases
  /\ fnlist \in Seq(AnyFunction)
  /\ \A k \in DOMAIN fnlist : fnlist[k] \in blacklist \/ IsOriginal(fnlist[k])
  /\ \A f \in instrumentedFunctions : IsOriginal(f)
  /\ phase = "wrap" => code = prog.code /\ instrumentedFunctions = {}
  /\ phase = "clone" => code = Cloning
  /\ phase = "erase" => left \subseteq instrumentedFunctions /\ code = Erasing
  /\ phase \notin {"wrap", "clone", "erase", "undefined", "done"} => code = {Final(i) : i \in Base}
  /\ phase = "done" => Settled(code)

LEMMA ModuleInit ==
  ASSUME Init PROVE ModuleInv
<1>1. prog \in Programs /\ phase = "wrap" /\ code = prog.code /\ instrumentedFunctions = {}
  BY DEF Init, PassInit
<1>2. fnlist = [k \in DOMAIN prog.functions |-> Function(prog.functions[k])]
  BY DEF Init, PassInit
<1>3. prog.functions \in Seq(STRING)
  BY <1>1, ModuleAssumption
<1>4. \A k \in DOMAIN prog.functions :
        Function(prog.functions[k]) \in AnyFunction /\ IsOriginal(Function(prog.functions[k]))
  BY <1>3 DEF Function, AnyFunction, IsOriginal
<1>5. fnlist \in Seq(AnyFunction) /\ \A k \in DOMAIN fnlist : IsOriginal(fnlist[k])
  BY <1>2, <1>3, <1>4
<1> QED
  BY <1>1, <1>5 DEF ModuleInv, Phases

\* The compiled module stays.
LEMMA BaseKept ==
  ASSUME UNCHANGED prog
  PROVE  /\ Base' = Base
         /\ \A i : Cloned(i)' = Cloned(i)
  BY DEF Base, Inputs, Wrapper, Function, ScanfNames, GetsNames, Cloned, Clone

LEMMA FinalKept ==
  ASSUME UNCHANGED <<prog, instrumentedFunctions>>
  PROVE  /\ \A i : Final(i)' = Final(i)
         /\ \A i, j : Stands(j, i)' = Stands(j, i)
<1>1. \A i : Redirected(i)' = Redirected(i)
  BY DEF Redirected, Pointers, Params, Clone
<1>2. \A i : Final(i)' = Final(i)
  BY <1>1 DEF Final, Called, Placed, Cloned, Clone
<1>3. \A i, j : Stands(j, i)' = Stands(j, i)
  BY DEF Stands, IsInstruction, Home, Target, Clone
<1> QED
  BY <1>2, <1>3

LEMMA SettledKept ==
  ASSUME UNCHANGED <<prog, instrumentedFunctions>>, NEW C, C = code', Settled(C)
  PROVE  Settled(code)'
<1>1. Base' = Base /\ \A i, j : Stands(j, i)' = Stands(j, i)
  BY BaseKept, FinalKept
<1> QED
  BY <1>1 DEF Settled

LEMMA WrapStep ==
  ASSUME ModuleInv, InputWrapper, UNCHANGED prog PROVE ModuleInv'
<1>1. UNCHANGED <<fnlist, blacklist, instrumentedFunctions, prog>> /\ phase = "wrap"
  BY DEF InputWrapper
<1>2. code = prog.code /\ instrumentedFunctions = {}
  BY <1>1 DEF ModuleInv
<1>3. phase' = "clone" \/ phase' = "undefined"
  BY DEF InputWrapper
<1>4. ASSUME phase' = "clone" PROVE code' = Base
  <2>1. \A N : Calls(N) = {i \in prog.code : i.op = "call" /\ ~i.callee.clone /\ i.callee.name \in N}
    BY <1>2 DEF Calls
  <2> DEFINE wrapped == {i \in Calls(ScanfNames \cup GetsNames) :
                           i.fn.name \notin {"wrapper_scanf", "wrapper_gets"}}
  <2>2. /\ wrapped \cap Calls(ScanfNames) = Inputs(ScanfNames)
        /\ wrapped \cap Calls(GetsNames) = Inputs(GetsNames)
    BY <2>1 DEF Inputs
  <2> HIDE DEF wrapped
  <2>3. code' = code \cup {Wrapper(i, 1, "wrapper_scanf", 2) : i \in wrapped \cap Calls(ScanfNames)}
                     \cup {Wrapper(i, 2, "wrapper_gets", 1) : i \in wrapped \cap Calls(GetsNames)}
    BY <1>4 DEF InputWrapper, wrapped
  <2> QED
    BY <1>2, <2>2, <2>3 DEF Base
<1>5. phase' = "clone" => code' = Cloning'
  <2>1. Base' = Base /\ instrumentedFunctions' = {}
    BY <1>1, <1>2, BaseKept
  <2>2. Cloning' = Base
    BY <2>1 DEF Cloning
  <2> QED
    BY <1>4, <2>2
<1> QED
  BY <1>1, <1>3, <1>5 DEF ModuleInv, Phases

LEMMA CloneStep ==
  ASSUME ModuleInv, instrumentFunction, UNCHANGED prog PROVE ModuleInv'
<1>1. phase = "clone" /\ UNCHANGED <<phase, left, prog>> /\ fnlist # << >>
  BY DEF instrumentFunction
<1>2. code = Cloning /\ fnlist \in Seq(AnyFunction)
  BY <1>1 DEF ModuleInv
<1> DEFINE f == fnlist[1]
<1>3. /\ f \in AnyFunction
      /\ Tail(fnlist) \in Seq(AnyFunction)
      /\ \A k \in DOMAIN Tail(fnlist) : k + 1 \in DOMAIN fnlist /\ Tail(fnlist)[k] = fnlist[k + 1]
      /\ f \in blacklist \/ IsOriginal(f)
  BY <1>1, <1>2 DEF ModuleInv
<1>4. Base' = Base /\ \A i : Cloned(i)' = Cloned(i)
  BY <1>1, BaseKept
<1>5. CASE /\ fnlist' = Tail(fnlist) /\ blacklist' = blacklist \cup {f}
           /\ UNCHANGED <<code, instrumentedFunctions>>
  <2>1. Cloning' = Cloning
    BY <1>4, <1>5 DEF Cloning
  <2>2. \A k \in DOMAIN fnlist' : fnlist'[k] \in blacklist' \/ IsOriginal(fnlist'[k])
    BY <1>3, <1>5 DEF ModuleInv
  <2> QED
    BY <1>1, <1>2, <1>3, <1>5, <2>1, <2>2 DEF ModuleInv
<1>6. CASE /\ f \notin blacklist /\ fnlist' = Append(Tail(fnlist), Clone(f))
           /\ code' = code \cup {[i EXCEPT !.fn = Clone(f)] : i \in {j \in code : j.fn = f}}
           /\ blacklist' = blacklist \cup {Clone(f)}
           /\ instrumentedFunctions' = instrumentedFunctions \cup {f}
  <2>1. IsOriginal(f)
    BY <1>3, <1>6
  <2>2. Clone(f) \in AnyFunction
    BY <1>3 DEF Clone, AnyFunction
  <2>3. fnlist' \in Seq(AnyFunction)
    BY <1>3, <1>6, <2>2
  <2>4. \A k \in DOMAIN fnlist' : fnlist'[k] \in blacklist' \/ IsOriginal(fnlist'[k])
    <3> DEFINE t == Tail(fnlist)
               c == Clone(f)
    <3>1. t \in Seq(AnyFunction) /\ \A k \in DOMAIN t : t[k] \in blacklist \/ IsOriginal(t[k])
      BY <1>3 DEF ModuleInv
    <3>2. fnlist' = Append(t, c) /\ blacklist' = blacklist \cup {c}
      BY <1>6
    <3> HIDE DEF t, c
    <3> QED
      BY <3>1, <3>2
  <2>5. {j \in code : j.fn = f} = {i \in Base : i.fn = f}
    <3>1. \A i \in Base : i.fn \in instrumentedFunctions => Cloned(i).fn # f
      <4> TAKE i \in Base
      <4>1. Untouched(i)
        BY BaseFacts DEF ModuleInv
      <4>2. i.fn \in instrumentedFunctions => Cloned(i).fn = Clone(i.fn)
        BY <4>1, PlacedFields DEF Untouched, Placed, Home
      <4>3. ~IsOriginal(Clone(i.fn))
        BY <4>1, CloneFields DEF Untouched
      <4> QED
        BY <2>1, <4>2, <4>3
    <3> QED
      BY <1>2, <3>1 DEF Cloning
  <2>6. code' = Cloning'
    <3>1. {[i EXCEPT !.fn = Clone(f)] : i \in {j \in code : j.fn = f}}
            = {Cloned(i) : i \in {b \in Base : b.fn = f}}
      BY <2>5 DEF Cloned
    <3>2. code' = Cloning \cup {Cloned(i) : i \in {b \in Base : b.fn = f}}
      BY <1>2, <1>6, <3>1
    <3>3. Cloning' = Base \cup {Cloned(i) : i \in {b \in Base : b.fn \in instrumentedFunctions \cup {f}}}
      BY <1>4, <1>6 DEF Cloning
    <3> QED
      BY <3>2, <3>3 DEF Cloning
  <2>7. \A g \in instrumentedFunctions' : IsOriginal(g)
    BY <1>6, <2>1 DEF ModuleInv
  <2> QED
    BY <1>1, <2>3, <2>4, <2>6, <2>7 DEF ModuleInv
<1>7. f = Head(fnlist)
  BY <1>1, <1>2
<1> HIDE DEF f
<1> QED
  BY <1>5, <1>6, <1>7 DEF instrumentFunction

LEMMA CallsStep ==
  ASSUME ModuleInv, instrumentCalls, UNCHANGED prog PROVE ModuleInv'
<1>1. /\ phase = "clone" /\ phase' = "erase" /\ left' = instrumentedFunctions
      /\ UNCHANGED <<prog, fnlist, blacklist, instrumentedFunctions>>
  BY DEF instrumentCalls
<1>2. code = Cloning
  BY <1>1 DEF ModuleInv
<1>3. code' = {x \in code : x.fn \in instrumentedFunctions}
                \cup {Called(x) : x \in {y \in code : y.fn \notin instrumentedFunctions}}
  BY DEF instrumentCalls, Called
<1>4. \A i \in Base : /\ i.fn \in instrumentedFunctions => Cloned(i).fn \notin instrumentedFunctions
                      /\ Final(i) = Called(IF i.fn \in instrumentedFunctions THEN Cloned(i) ELSE i)
  <2> TAKE i \in Base
  <2>1. Untouched(i)
    BY BaseFacts DEF ModuleInv
  <2>2. i.fn \in instrumentedFunctions => Cloned(i).fn = Clone(i.fn)
    BY <2>1, PlacedFields DEF Untouched, Placed, Home
  <2>3. ~IsOriginal(Clone(i.fn))
    BY <2>1, CloneFields DEF Untouched
  <2> QED
    BY <2>2, <2>3 DEF ModuleInv, Final, Placed
<1>5. {x \in code : x.fn \in instrumentedFunctions} = {b \in Base : b.fn \in instrumentedFunctions}
  BY <1>2, <1>4 DEF Cloning
<1>6. {Called(x) : x \in {y \in code : y.fn \notin instrumentedFunctions}} = {Final(i) : i \in Base}
  <2>1. ASSUME NEW x \in code, x.fn \notin instrumentedFunctions
        PROVE  \E i \in Base : Called(x) = Final(i)
    BY <1>2, <1>4, <2>1 DEF Cloning
  <2>2. ASSUME NEW i \in Base
        PROVE  \E x \in code : x.fn \notin instrumentedFunctions /\ Called(x) = Final(i)
    BY <1>2, <1>4 DEF Cloning
  <2> QED
    BY <2>1, <2>2
<1>7. Erasing' = {Final(i) : i \in Base} \cup {b \in Base : b.fn \in instrumentedFunctions}
  BY <1>1, BaseKept, FinalKept DEF Erasing
<1>8. code' = Erasing'
  BY <1>3, <1>5, <1>6, <1>7
<1> QED
  BY <1>1, <1>8 DEF ModuleInv, Phases

LEMMA EraseStep ==
  ASSUME ModuleInv, removeFunction, UNCHANGED prog PROVE ModuleInv'
<1>1. /\ phase = "erase" /\ phase' \in {"erase", "undefined"}
      /\ UNCHANGED <<prog, fnlist, blacklist, instrumentedFunctions>>
  BY DEF removeFunction
<1>2. PICK f \in left : code' = {i \in code : i.fn # f} /\ left' = left \ {f}
  BY DEF removeFunction
<1>3. code = Erasing /\ left \subseteq instrumentedFunctions
  BY <1>1 DEF ModuleInv
<1>4. \A i \in Base : Final(i).fn # f
  BY <1>2, <1>3, BaseFacts, FinalFields DEF ModuleInv
<1>5. Erasing' = {Final(i) : i \in Base} \cup {b \in Base : b.fn \in left \ {f}}
  BY <1>1, <1>2, BaseKept, FinalKept DEF Erasing
<1>6. code' = Erasing'
  BY <1>2, <1>3, <1>4, <1>5 DEF Erasing
<1> QED
  BY <1>1, <1>2, <1>3, <1>6 DEF ModuleInv, Phases

LEMMA RefsFields ==
  ASSUME NEW i, IsInstruction(i), NEW r, NEW j, j = [i EXCEPT !.refs = r]
  PROVE  /\ IsInstruction(j) /\ j.id = i.id /\ j.op = i.op /\ j.args = i.args
         /\ j.loop = i.loop /\ j.fn = i.fn /\ j.callee = i.callee
<1>1. j = [id |-> i.id, fn |-> i.fn, op |-> i.op, callee |-> i.callee, args |-> i.args,
           refs |-> r, loop |-> i.loop]
  BY DEF IsInstruction
<1> QED
  BY <1>1 DEF IsInstruction

LEMMA RefsStep ==
  ASSUME ModuleInv, PassRefs, UNCHANGED prog PROVE ModuleInv'
<1>1. /\ phase = "z_calls" /\ phase' = "done"
      /\ UNCHANGED <<prog, fnlist, blacklist, instrumentedFunctions>>
  BY DEF PassRefs
<1> DEFINE calls == {c \in code : c.op = "call" /\ c.callee.clone}
           given(c) == [k \in DOMAIN c.refs |-> Passed(c, k)]
           with(c) == [c EXCEPT !.refs = given(c)]
<1>2. code' = (code \ calls) \cup {with(c) : c \in calls}
  BY DEF PassRefs
<1>3. Settled(code)
  BY <1>1, FinalSettled DEF ModuleInv
<1>4. ASSUME NEW c \in code
      PROVE  with(c).id = c.id /\ \A i : Stands(c, i) => Stands(with(c), i)
  <2>1. IsInstruction(c)
    BY <1>3 DEF Settled, Stands
  <2> HIDE DEF given
  <2>2. with(c) = [c EXCEPT !.refs = given(c)]
    OBVIOUS
  <2> HIDE DEF with
  <2>3. /\ IsInstruction(with(c)) /\ with(c).id = c.id /\ with(c).op = c.op
        /\ with(c).args = c.args /\ with(c).loop = c.loop /\ with(c).fn = c.fn /\ with(c).callee = c.callee
    BY <2>1, <2>2, RefsFields
  <2> QED
    BY <2>3 DEF Stands
<1> DEFINE C == (code \ calls) \cup {with(c) : c \in calls}
<1> HIDE DEF given, with
<1>5. calls \subseteq code
  OBVIOUS
<1> HIDE DEF calls
<1>6. \A j \in C : \E c \in code : /\ j.id = c.id /\ j = IF c \in calls THEN with(c) ELSE c
                               /\ \A i : Stands(c, i) => Stands(j, i)
  BY <1>3, <1>4, <1>5 DEF Settled
<1>7. \A c \in code : \E j \in C : j.id = c.id /\ \A i : Stands(c, i) => Stands(j, i)
  BY <1>4, <1>5
<1>8. Settled(C)
  <2>1. ASSUME NEW j \in C, NEW n \in C, j.id = n.id PROVE j = n
    <3>1. PICK c \in code : j.id = c.id /\ j = IF c \in calls THEN with(c) ELSE c
      BY <1>6
    <3>2. PICK d \in code : n.id = d.id /\ n = IF d \in calls THEN with(d) ELSE d
      BY <1>6
    <3>3. c = d
      BY <1>3, <2>1, <3>1, <3>2 DEF Settled
    <3> QED
      BY <3>1, <3>2, <3>3
  <2> QED
    BY <1>3, <1>6, <1>7, <2>1 DEF Settled
<1>9. Settled(code)'
  <2>1. C = code'
    BY <1>2
  <2> HIDE DEF C
  <2> QED
    BY <1>1, <1>8, <2>1, SettledKept
<1> QED
  BY <1>1, <1>9 DEF ModuleInv, Phases

\* A step that leaves the module and its functions alone.
LEMMA OtherStep ==
  ASSUME ModuleInv, UNCHANGED <<prog, passVars>>, phase' \in Phases,
         \/ UNCHANGED <<phase, left>>
         \/ phase' = "undefined"
         \/ phase = "erase" /\ left = {} /\ phase' \notin {"wrap", "clone", "erase", "done"}
         \/ /\ phase \notin {"wrap", "clone", "erase", "undefined", "done"}
            /\ phase' \notin {"wrap", "clone", "erase", "done"}
  PROVE  ModuleInv'
<1>1. UNCHANGED <<prog, code, fnlist, blacklist, instrumentedFunctions>>
  BY DEF passVars
<1>2. Base' = Base /\ (\A i : Cloned(i)' = Cloned(i)) /\ \A i : Final(i)' = Final(i)
  BY <1>1, BaseKept, FinalKept
<1>3. Cloning' = Cloning /\ {Final(i) : i \in Base}' = {Final(i) : i \in Base}
  BY <1>1, <1>2 DEF Cloning
<1>4. left' = left => Erasing' = Erasing
  BY <1>2 DEF Erasing
<1>5. left = {} => Erasing = {Final(i) : i \in Base}
  BY DEF Erasing
<1>6. Settled(code) => Settled(code)'
  BY <1>1, SettledKept
<1> QED
  BY <1>1, <1>3, <1>4, <1>5, <1>6 DEF ModuleInv

LEMMA IdleStep ==
  ASSUME Idle, [Next]_vars PROVE Idle'
<1>1. CASE PassNext /\ UNCHANGED <<prog, svfVars, zbVars>>
  BY <1>1 DEF PassNext, InputWrapper, instrumentFunction, instrumentCalls, removeFunction, Idle, svfVars
<1>2. CASE SvfNext
  BY <1>2, SvfPhases, SvfSteps DEF Idle
<1>3. CASE NextPart
  BY <1>3, PartSteps DEF Idle
<1>4. CASE ZbNext
  BY <1>4, ZbSteps DEF Idle, InsertSteps, PassRefs, svfVars
<1>5. CASE UNCHANGED vars
  BY <1>5 DEF vars, svfVars, Idle
<1> QED
  BY <1>1, <1>2, <1>3, <1>4, <1>5 DEF Next

LEMMA ModuleStep ==
  ASSUME ModuleInv, Idle, [Next]_vars PROVE ModuleInv'
<1>p. phase \in Phases
  BY DEF ModuleInv
<1>1. CASE PassNext /\ UNCHANGED <<prog, svfVars, zbVars>>
  BY <1>1, WrapStep, CloneStep, CallsStep, EraseStep DEF PassNext
<1>2. CASE SvfNext /\ UNCHANGED <<prog, zbVars>>
  <2>1. phase \in {"sites", "refs", "inttoptr", "iuses", "export", "undefined"}
    BY <1>2, SvfPhases
  <2>2. CASE phase' = "undefined"
    BY <1>2, <2>2, SvfSteps, OtherStep DEF Phases
  <2>3. CASE phase' # "undefined"
    <3>1. UNCHANGED <<prog, passVars>>
      BY <1>2, SvfSteps
    <3>2. /\ phase \notin {"wrap", "clone", "erase", "undefined", "done"}
          /\ phase' \in Phases /\ phase' \notin {"wrap", "clone", "erase", "done"}
      BY <1>2, <2>1, <2>3, SvfSteps DEF Phases
    <3> QED
      BY <3>1, <3>2, OtherStep
  <2> QED
    BY <2>2, <2>3
<1>3. CASE NextPart /\ UNCHANGED <<prog, zbVars>>
  BY <1>3, PartSteps, OtherStep DEF Phases
<1>4. CASE ZbNext /\ UNCHANGED prog
  <2>1. CASE PassRefs
    BY <1>4, <2>1, RefsStep
  <2>2. CASE InsertSteps /\ UNCHANGED <<passVars, svfVars, left>>
    BY <1>4, <2>2, OtherStep DEF InsertSteps, Phases
  <2> QED
    BY <1>4, <2>1, <2>2, ZbSteps
<1>5. CASE UNCHANGED vars
  BY <1>5, <1>p, OtherStep DEF vars
<1> QED
  BY <1>1, <1>2, <1>3, <1>4, <1>5 DEF Next

LEMMA ModuleSame ==
  ASSUME ModuleInv PROVE SameProgram
<1>1. CASE phase \in {"wrap", "clone", "erase", "undefined"}
  BY <1>1 DEF SameProgram
<1>2. CASE phase \notin {"wrap", "clone", "erase", "undefined"}
  <2>1. Settled(code)
    BY <1>2, FinalSettled DEF ModuleInv
  <2> QED
    BY <2>1, SettledIsSame DEF ModuleInv
<1> QED
  BY <1>1, <1>2

(***************************************************************************)
(* FunctionInstrumentor and Zbouncer keep the program (SameProgram): in    *)
(* the order in which the functions are cloned and removed, whatever the   *)
(* module calls and from where, no instruction is lost, doubled or left    *)
(* calling a function that is gone.                                        *)
(***************************************************************************)
THEOREM ProgramKept == Spec => []SameProgram
<1>1. Init => ModuleInv /\ Idle
  BY ModuleInit DEF Init, SvfInit, Idle
<1>2. (ModuleInv /\ Idle) /\ [Next]_vars => (ModuleInv /\ Idle)'
  BY ModuleStep, IdleStep
<1>3. ModuleInv => SameProgram
  BY ModuleSame
<1> QED
  BY <1>1, <1>2, <1>3, PTL DEF Spec

-----------------------------------------------------------------------------
(***************************************************************************)
(* Lists of any elements: the turns of the loops of svf-ex are records of  *)
(* several shapes.                                                         *)
(***************************************************************************)
IsSeq(s) == s \in Seq(Elements(s))

LEMMA IsSeqFacts ==
  ASSUME NEW S, NEW s \in Seq(S)
  PROVE  IsSeq(s) /\ Elements(s) \subseteq S
<1>1. Len(s) \in Nat /\ DOMAIN s = 1 .. Len(s) /\ s \in [1 .. Len(s) -> S]
  OBVIOUS
<1>2. s \in [1 .. Len(s) -> Elements(s)]
  BY <1>1 DEF Elements
<1>3. s \in Seq(Elements(s))
  <2> DEFINE T == Elements(s)
  <2> HIDE DEF T
  <2>1. s \in [1 .. Len(s) -> T]
    BY <1>2 DEF T
  <2>2. s \in Seq(T)
    BY <1>1, <2>1
  <2> QED
    BY <2>2 DEF T
<1> QED
  BY <1>1, <1>3 DEF IsSeq, Elements

LEMMA EmptyList ==
  ASSUME NEW s, s = << >>
  PROVE  Elements(s) = {} /\ IsSeq(s)
<1>1. s \in Seq({}) /\ DOMAIN s = {}
  OBVIOUS
<1>2. Elements(s) = {}
  BY <1>1 DEF Elements
<1>3. IsSeq(s)
  BY <1>1, <1>2 DEF IsSeq
<1> QED
  BY <1>2, <1>3

LEMMA HeadTail ==
  ASSUME NEW s, IsSeq(s), s # << >>
  PROVE  /\ Head(s) \in Elements(s) /\ IsSeq(Tail(s)) /\ Elements(Tail(s)) \subseteq Elements(s)
<1> DEFINE S == Elements(s)
<1>1. s \in Seq(S)
  BY DEF IsSeq
<1> HIDE DEF S
<1>2. Head(s) \in S /\ Tail(s) \in Seq(S)
  BY <1>1
<1> QED
  BY <1>2, IsSeqFacts DEF S

LEMMA SeqIn ==
  ASSUME NEW s, IsSeq(s), NEW S, Elements(s) \subseteq S
  PROVE  s \in Seq(S)
<1>1. Len(s) \in Nat /\ s \in [1 .. Len(s) -> Elements(s)]
  BY DEF IsSeq
<1>2. \A k \in 1 .. Len(s) : s[k] \in S
  BY <1>1
<1> QED
  BY <1>1, <1>2

LEMMA Joined ==
  ASSUME NEW s, IsSeq(s), NEW t, IsSeq(t), NEW w, w = s \o t
  PROVE  /\ IsSeq(w) /\ Elements(w) = Elements(s) \cup Elements(t)
         /\ Len(w) = Len(s) + Len(t) /\ Len(s) \in Nat /\ Len(t) \in Nat
         /\ \A k \in 1 .. Len(w) : w[k] = IF k <= Len(s) THEN s[k] ELSE t[k - Len(s)]
<1> DEFINE S == Elements(s) \cup Elements(t)
<1>1. s \in Seq(S) /\ t \in Seq(S)
  <2>1. Elements(s) \subseteq S /\ Elements(t) \subseteq S
    OBVIOUS
  <2> HIDE DEF S
  <2> QED
    BY <2>1, SeqIn, Zenon
<1> HIDE DEF S
<1>2. /\ w \in Seq(S) /\ Len(w) = Len(s) + Len(t) /\ Len(s) \in Nat /\ Len(t) \in Nat
      /\ DOMAIN s = 1 .. Len(s) /\ DOMAIN t = 1 .. Len(t) /\ DOMAIN w = 1 .. Len(w)
      /\ \A k \in 1 .. Len(w) : w[k] = IF k <= Len(s) THEN s[k] ELSE t[k - Len(s)]
  BY <1>1
<1>3. IsSeq(w) /\ Elements(w) \subseteq S
  BY <1>2, IsSeqFacts, Zenon
<1>4. Elements(s) \subseteq Elements(w)
  <2>1. ASSUME NEW k \in 1 .. Len(s) PROVE k \in 1 .. Len(w) /\ w[k] = s[k]
    BY <1>2
  <2> QED
    BY <1>2, <2>1, Zenon DEF Elements
<1>5. Elements(t) \subseteq Elements(w)
  <2>1. ASSUME NEW k \in 1 .. Len(t) PROVE \E j \in 1 .. Len(w) : w[j] = t[k]
    <3>1. Len(s) + k \in 1 .. Len(w) /\ ~(Len(s) + k <= Len(s)) /\ (Len(s) + k) - Len(s) = k
      BY <1>2
    <3> QED
      BY <1>2, <3>1
  <2> QED
    BY <1>2, <2>1, Zenon DEF Elements
<1>6. Elements(w) = Elements(s) \cup Elements(t)
  BY <1>3, <1>4, <1>5, Zenon DEF S
<1> QED
  BY <1>2, <1>3, <1>6, Zenon

LEMMA OneMore ==
  ASSUME NEW s, IsSeq(s), NEW x, NEW w, w = Append(s, x)
  PROVE  /\ IsSeq(w) /\ Elements(w) = Elements(s) \cup {x}
         /\ Len(w) = Len(s) + 1 /\ Len(s) \in Nat
         /\ \A k \in 1 .. Len(w) : w[k] = IF k <= Len(s) THEN s[k] ELSE x
<1> DEFINE S == Elements(s) \cup {x}
<1>1. s \in Seq(S) /\ x \in S
  <2>1. Elements(s) \subseteq S /\ x \in S
    OBVIOUS
  <2> HIDE DEF S
  <2> QED
    BY <2>1, SeqIn, Zenon
<1> HIDE DEF S
<1>2. /\ w \in Seq(S) /\ Len(w) = Len(s) + 1 /\ Len(s) \in Nat
      /\ DOMAIN s = 1 .. Len(s) /\ DOMAIN w = 1 .. Len(w)
      /\ \A k \in 1 .. Len(w) : w[k] = IF k <= Len(s) THEN s[k] ELSE x
  BY <1>1
<1>3. IsSeq(w) /\ Elements(w) \subseteq S
  BY <1>2, IsSeqFacts, Zenon
<1>4. Elements(s) \subseteq Elements(w)
  <2>1. ASSUME NEW k \in 1 .. Len(s) PROVE k \in 1 .. Len(w) /\ w[k] = s[k]
    BY <1>2
  <2> QED
    BY <1>2, <2>1, Zenon DEF Elements
<1>5. x \in Elements(w)
  <2>1. Len(w) \in 1 .. Len(w) /\ w[Len(w)] = x
    BY <1>2
  <2> QED
    BY <1>2, <2>1, Zenon DEF Elements
<1>6. Elements(w) = Elements(s) \cup {x}
  BY <1>3, <1>4, <1>5, Zenon DEF S
<1> QED
  BY <1>2, <1>3, <1>6, Zenon

\* A function on the first n numbers is a list.
LEMMA ListOf ==
  ASSUME NEW n \in Nat, NEW S, NEW f \in [1 .. n -> S]
  PROVE  IsSeq(f) /\ Len(f) = n /\ DOMAIN f = 1 .. n /\ Elements(f) \subseteq S
<1>1. f \in Seq(S) /\ Len(f) = n
  OBVIOUS
<1> QED
  BY <1>1, IsSeqFacts

LEMMA SeqDomain ==
  ASSUME NEW s, IsSeq(s)
  PROVE  Len(s) \in Nat /\ DOMAIN s = 1 .. Len(s) /\ \A k \in 1 .. Len(s) : s[k] \in Elements(s)
<1>1. Len(s) \in Nat /\ DOMAIN s = 1 .. Len(s)
  BY DEF IsSeq
<1> QED
  BY <1>1 DEF Elements

LEMMA LeastExists ==
  ASSUME NEW S, S \subseteq Nat, S # {}
  PROVE  \E m \in S : \A k \in S : m <= k
<1> DEFINE R == {p \in Nat \X Nat : p[1] < p[2]}
<1>1. IsWellFoundedOn(R, Nat)
  BY NatLessThanWellFounded DEF OpToRel
<1>2. \E m \in S : \A k \in S : ~(<<k, m>> \in R)
  <2> HIDE DEF R
  <2> QED
    BY <1>1, WFMin
<1>3. \A k, m \in Nat : ~(<<k, m>> \in R) => m <= k
  OBVIOUS
<1> HIDE DEF R
<1> QED
  BY <1>2, <1>3

LEMMA MinIsLeast ==
  ASSUME NEW S, S \subseteq Nat, S # {}
  PROVE  Min(S) \in S
<1>1. \E m \in S : \A k \in S : m <= k
  BY LeastExists
<1> QED
  BY <1>1 DEF Min

LEMMA KeptFacts ==
  ASSUME NEW s, IsSeq(s), NEW K
  PROVE  /\ IsSeq(Kept(s, K))
         /\ Elements(Kept(s, K)) = {s[k] : k \in K \cap DOMAIN s}
<1> DEFINE Turn(f, i) == IF i = 0 THEN << >> ELSE IF i \in K THEN Append(f[i - 1], s[i]) ELSE f[i - 1]
           Rule(f, n) == f = [i \in 0 .. n |-> Turn(f, i)]
           B == {n \in Nat : ~\E f : Rule(f, n)}
<1>s. Len(s) \in Nat /\ DOMAIN s = 1 .. Len(s)
  BY SeqDomain
<1>1. B = {}
  <2>1. SUFFICES ASSUME B # {} PROVE FALSE
    OBVIOUS
  <2>2. PICK m \in B : \A k \in B : m <= k
    <3> HIDE DEF B
    <3>1. B \subseteq Nat
      BY DEF B
    <3> QED
      BY <2>1, <3>1, LeastExists
  <2>3. m # 0
    <3> DEFINE f == [i \in 0 .. 0 |-> << >>]
    <3>1. Rule(f, 0)
      OBVIOUS
    <3> QED
      BY <3>1, <2>2
  <2>4. m - 1 \in Nat /\ m - 1 \notin B
    <3>1. m \in Nat
      OBVIOUS
    <3> HIDE DEF B
    <3> QED
      BY <2>2, <2>3, <3>1
  <2>5. PICK f : Rule(f, m - 1)
    BY <2>4
  <2> DEFINE g == [i \in 0 .. m |-> IF i = m THEN Turn(f, m) ELSE f[i]]
  <2>6. \A i \in 0 .. m - 1 : f[i] = Turn(f, i)
    BY <2>5, <2>4
  <2>7. \A i \in 0 .. m : Turn(g, i) = Turn(f, i)
    <3>1. \A i \in 0 .. m - 1 : g[i] = f[i]
      BY <2>2
    <3> HIDE DEF g
    <3> QED
      BY <3>1, <2>2
  <2>8. Rule(g, m)
    <3>1. \A i \in 0 .. m : g[i] = Turn(f, i)
      BY <2>6, <2>2
    <3> HIDE DEF Turn
    <3> QED
      BY <3>1, <2>7
  <2> QED
    BY <2>2, <2>8
<1>2. PICK f : Rule(f, Len(s))
  BY <1>1, <1>s
<1> DEFINE F == CHOOSE f_1 : Rule(f_1, Len(s))
<1>3. Rule(F, Len(s))
  BY Zenon, <1>2
<1>4. Kept(s, K) = F[Len(s)]
  BY DEF Kept
<1> HIDE DEF F
<1>5. \A i \in 0 .. Len(s) : F[i] = Turn(F, i)
  BY <1>3
<1> DEFINE Good(n) == IsSeq(F[n]) /\ Elements(F[n]) = {s[k] : k \in K \cap (1 .. n)}
           D == {n \in 0 .. Len(s) : ~Good(n)}
<1>6. D = {}
  <2>1. SUFFICES ASSUME D # {} PROVE FALSE
    OBVIOUS
  <2>2. PICK m \in D : \A k \in D : m <= k
    <3>1. D \subseteq Nat
      BY <1>s
    <3> HIDE DEF D
    <3> QED
      BY <2>1, <3>1, LeastExists
  <2>3. m \in 0 .. Len(s)
    OBVIOUS
  <2>4. m # 0
    <3>1. F[0] = << >>
      BY <1>5, <1>s
    <3>2. IsSeq(F[0]) /\ Elements(F[0]) = {}
      BY <3>1, EmptyList
    <3>3. 1 .. 0 = {}
      OBVIOUS
    <3> QED
      BY <3>2, <3>3
  <2>5. m - 1 \in 0 .. Len(s) /\ Good(m - 1)
    <3>1. m - 1 \in 0 .. Len(s)
      BY <2>3, <2>4, <1>s
    <3>2. m - 1 \notin D
      <4> HIDE DEF D
      <4> QED
        BY <2>2, <2>3, <1>s
    <3> HIDE DEF Good
    <3> QED
      BY <3>1, <3>2
  <2>6. F[m] = IF m \in K THEN Append(F[m - 1], s[m]) ELSE F[m - 1]
    BY <1>5, <2>3, <2>4
  <2>7. 1 .. m = (1 .. m - 1) \cup {m}
    BY <2>3, <2>4, <1>s
  <2>8. Good(m)
    <3>1. CASE m \in K
      <4> DEFINE u == F[m - 1]
                 w == F[m]
      <4>1. IsSeq(u) /\ w = Append(u, s[m])
        BY <2>5, <2>6, <3>1
      <4> HIDE DEF u, w
      <4>2. IsSeq(w) /\ Elements(w) = Elements(u) \cup {s[m]}
        BY <4>1, OneMore
      <4> QED
        BY <2>5, <2>7, <3>1, <4>2 DEF u, w
    <3>2. CASE m \notin K
      BY <2>5, <2>6, <2>7, <3>2
    <3> QED
      BY <3>1, <3>2
  <2> QED
    BY <2>2, <2>8
<1>7. Good(Len(s))
  BY <1>6, <1>s
<1> QED
  BY <1>4, <1>7, <1>s

-----------------------------------------------------------------------------
(***************************************************************************)
(* The entities: what each is, what it lists, and that nothing but its     *)
(* list ever changes.                                                      *)
(***************************************************************************)
UseRows == {"SUSE", "LUSE"}
Ids(es) == 0 .. Len(es) - 1

IsEntity(e) == e = [kind |-> e.kind, val |-> e.val, nodes |-> e.nodes, type |-> e.type,
                    offset |-> e.offset, kids |-> e.kids]

EntityOK(e) ==
  /\ IsEntity(e)
  /\ e.kind \in DefRows \cup UseRows \cup {"IN"}
  /\ e.val \in prog.values
  /\ e.offset \in Nat /\ (e.offset # 0 => e.kind = "SDEF")
  /\ e.kind \in DefRows => svf.size[e.type] \in Nat
  /\ e.kind \in DefRows \ {"SDEF"} => e.val \in e.nodes
  /\ \A v \in e.nodes : /\ v \in prog.values
                        /\ IF svf.kind[v] = "dyn" THEN Len(Chain(v)) > 1 ELSE Buildable(v)
  /\ IsSeq(e.kids)

\* Definitions everywhere, and uses under an In.
MayList(es, e, d) ==
  d \in Ids(es) /\ (es[d + 1].kind \in DefRows \/ (e.kind = "IN" /\ es[d + 1].kind \in UseRows))

EntsOK(es) ==
  /\ IsSeq(es)
  /\ \A k \in 1 .. Len(es) :
       EntityOK(es[k]) /\ \A d \in Elements(es[k].kids) : MayList(es, es[k], d)

\* An entity keeps all but its list, to which entities are added.
SameEntity(e, f) ==
  /\ f.kind = e.kind /\ f.val = e.val /\ f.nodes = e.nodes /\ f.type = e.type /\ f.offset = e.offset
  /\ Elements(e.kids) \subseteq Elements(f.kids)

Extends(es, fs) == Len(es) <= Len(fs) /\ \A k \in 1 .. Len(es) : SameEntity(es[k], fs[k])

LEMMA ListKept ==
  ASSUME NEW es, NEW fs, Len(es) \in Nat, Len(fs) \in Nat, Extends(es, fs),
         NEW e, NEW f, f.kind = e.kind, NEW d, MayList(es, e, d)
  PROVE  MayList(fs, f, d)
<1>1. d \in Ids(fs) /\ d + 1 \in 1 .. Len(es)
  BY DEF MayList, Ids, Extends
<1>2. fs[d + 1].kind = es[d + 1].kind
  BY <1>1 DEF Extends, SameEntity
<1> QED
  BY <1>1, <1>2 DEF MayList

LEMMA ExtendsTwice ==
  ASSUME NEW es, NEW fs, NEW gs, Len(es) \in Nat, Len(fs) \in Nat, Len(gs) \in Nat,
         Extends(es, fs), Extends(fs, gs)
  PROVE  Extends(es, gs)
<1>1. Len(es) <= Len(gs) /\ \A k \in 1 .. Len(es) : k \in 1 .. Len(fs)
  BY DEF Extends
<1> QED
  BY <1>1 DEF Extends, SameEntity

\* Entities are added at the end; the new ones may list each other.
LEMMA EntsJoined ==
  ASSUME NEW es, EntsOK(es), NEW new, IsSeq(new), NEW fs, fs = es \o new,
         \A k \in 1 .. Len(new) :
           EntityOK(new[k]) /\ \A d \in Elements(new[k].kids) : MayList(fs, new[k], d)
  PROVE  EntsOK(fs) /\ Extends(es, fs) /\ Len(fs) = Len(es) + Len(new) /\ Len(es) \in Nat
         /\ \A k \in 1 .. Len(fs) : fs[k] = IF k <= Len(es) THEN es[k] ELSE new[k - Len(es)]
<1>1. IsSeq(es)
  BY DEF EntsOK
<1>2. /\ IsSeq(fs) /\ Len(fs) = Len(es) + Len(new) /\ Len(es) \in Nat /\ Len(new) \in Nat
      /\ \A k \in 1 .. Len(fs) : fs[k] = IF k <= Len(es) THEN es[k] ELSE new[k - Len(es)]
  <2>1. IsSeq(fs) /\ Len(fs) = Len(es) + Len(new) /\ Len(es) \in Nat /\ Len(new) \in Nat
    BY <1>1, Joined
  <2>2. \A k \in 1 .. Len(fs) : fs[k] = IF k <= Len(es) THEN es[k] ELSE new[k - Len(es)]
    BY <1>1, Joined
  <2> QED
    BY <2>1, <2>2
<1>3. Extends(es, fs)
  BY <1>2 DEF Extends, SameEntity
<1>4. ASSUME NEW k \in 1 .. Len(fs)
      PROVE  EntityOK(fs[k]) /\ \A d \in Elements(fs[k].kids) : MayList(fs, fs[k], d)
  <2>1. CASE k \in 1 .. Len(es)
    <3>0. fs[k] = es[k]
      BY <1>2, <2>1
    <3>1. fs[k] = es[k] /\ EntityOK(es[k]) /\ \A d \in Elements(es[k].kids) : MayList(es, es[k], d)
      BY <3>0, <2>1 DEF EntsOK
    <3>2. \A d \in Elements(es[k].kids) : MayList(fs, fs[k], d)
      BY <1>2, <1>3, <3>1, ListKept
    <3> QED
      BY <3>1, <3>2
  <2>2. CASE k \notin 1 .. Len(es)
    <3>1. k - Len(es) \in 1 .. Len(new) /\ k = Len(es) + (k - Len(es))
      BY <1>2, <2>2
    <3>2. fs[k] = new[k - Len(es)]
      BY <1>2, <3>1
    <3> QED
      BY <3>1, <3>2
  <2> QED
    BY <2>1, <2>2
<1> QED
  BY <1>2, <1>3, <1>4 DEF EntsOK

LEMMA KidsFields ==
  ASSUME NEW e, IsEntity(e), NEW s, Elements(e.kids) \subseteq Elements(s),
         NEW f, f = [e EXCEPT !.kids = s]
  PROVE  IsEntity(f) /\ SameEntity(e, f) /\ f.kids = s
<1>1. f = [kind |-> e.kind, val |-> e.val, nodes |-> e.nodes, type |-> e.type,
           offset |-> e.offset, kids |-> s]
  BY DEF IsEntity
<1> QED
  BY <1>1 DEF IsEntity, SameEntity

WithKids(e, s) == [e EXCEPT !.kids = s]
Listing(es, n, s) == [es EXCEPT ![n].kids = @ \o s]

LEMMA OneListing ==
  ASSUME NEW es, IsSeq(es), NEW n, NEW s
  PROVE  /\ IsSeq(Listing(es, n, s)) /\ Len(es) \in Nat /\ Len(Listing(es, n, s)) = Len(es)
         /\ \A k \in 1 .. Len(es) : k # n => Listing(es, n, s)[k] = es[k]
         /\ n \in 1 .. Len(es) => Listing(es, n, s)[n] = WithKids(es[n], es[n].kids \o s)
<1> DEFINE fs == Listing(es, n, s)
<1>1. Len(es) \in Nat /\ DOMAIN es = 1 .. Len(es)
  BY SeqDomain
<1>2. \A k \in 1 .. Len(es) : k # n => fs[k] = es[k]
  BY <1>1 DEF Listing
<1>8. n \in 1 .. Len(es) => fs[n] = WithKids(es[n], es[n].kids \o s)
  BY <1>1 DEF Listing, WithKids
<1>3. DOMAIN fs = 1 .. Len(es) /\ fs = [k \in 1 .. Len(es) |-> fs[k]]
  BY <1>1 DEF Listing
<1> HIDE DEF fs
<1> DEFINE S == {fs[k] : k \in 1 .. Len(es)}
<1>4. \A k \in 1 .. Len(es) : fs[k] \in S
  OBVIOUS
<1> HIDE DEF S
<1>5. fs \in [1 .. Len(es) -> S]
  BY <1>3, <1>4
<1>6. IsSeq(fs) /\ Len(fs) = Len(es)
  BY <1>1, <1>5, ListOf
<1>7. IsSeq(fs) /\ Len(es) \in Nat /\ Len(fs) = Len(es)
  BY <1>1, <1>6
<1> QED
  BY <1>2, <1>7, <1>8, Zenon DEF fs

LEMMA EntsListing ==
  ASSUME NEW es, EntsOK(es), NEW n, NEW s, IsSeq(s),
         n \in 1 .. Len(es) => \A d \in Elements(s) : MayList(es, es[n], d),
         NEW fs, fs = Listing(es, n, s)
  PROVE  EntsOK(fs) /\ Extends(es, fs) /\ Len(fs) = Len(es) /\ Len(es) \in Nat
<1> DEFINE g == WithKids(es[n], es[n].kids \o s)
<1>0. IsSeq(es)
  BY DEF EntsOK
<1>1. /\ IsSeq(fs) /\ Len(es) \in Nat /\ Len(fs) = Len(es)
      /\ \A k \in 1 .. Len(es) : fs[k] = IF k = n THEN g ELSE es[k]
  <2>1. IsSeq(fs) /\ Len(es) \in Nat /\ Len(fs) = Len(es)
    BY <1>0, OneListing
  <2>2. \A k \in 1 .. Len(es) : k # n => fs[k] = es[k]
    BY <1>0, OneListing
  <2>3. n \in 1 .. Len(es) => fs[n] = g
    BY <1>0, OneListing
  <2> HIDE DEF g
  <2> QED
    BY <2>1, <2>2, <2>3
<1> HIDE DEF g
<1>3. ASSUME n \in 1 .. Len(es)
      PROVE  /\ EntityOK(g) /\ SameEntity(es[n], g)
             /\ \A d \in Elements(g.kids) : MayList(es, es[n], d)
  <2>1. EntityOK(es[n]) /\ \A d \in Elements(es[n].kids) : MayList(es, es[n], d)
    BY <1>3 DEF EntsOK
  <2>2. IsEntity(g) /\ SameEntity(es[n], g) /\ g.kids = es[n].kids \o s
    <3> DEFINE h == es[n]
               w == h.kids \o s
    <3>1. g = [h EXCEPT !.kids = w] /\ IsEntity(h)
      BY <2>1 DEF g, EntityOK, WithKids
    <3>3. IsSeq(h.kids) /\ w = h.kids \o s
      BY <2>1 DEF EntityOK
    <3> HIDE DEF h, w
    <3>4. Elements(h.kids) \subseteq Elements(w)
      <4>1. Elements(w) = Elements(h.kids) \cup Elements(s)
        <5> DEFINE l == h.kids
        <5>1. IsSeq(l) /\ w = l \o s
          BY <3>3
        <5> HIDE DEF l
        <5>2. Elements(w) = Elements(l) \cup Elements(s)
          BY <5>1, Joined
        <5> QED
          BY <5>2 DEF l
      <4> QED
        BY <4>1
    <3>2. IsEntity(g) /\ SameEntity(h, g) /\ g.kids = w
      BY <3>1, <3>4, KidsFields
    <3> QED
      BY <3>2 DEF h, w
  <2>3. IsSeq(g.kids) /\ Elements(g.kids) = Elements(es[n].kids) \cup Elements(s)
    <3> DEFINE w == es[n].kids
    <3>1. IsSeq(w)
      BY <2>1 DEF EntityOK
    <3> HIDE DEF w
    <3>2. g.kids = w \o s
      BY <2>2 DEF w
    <3>3. IsSeq(g.kids) /\ Elements(g.kids) = Elements(w) \cup Elements(s)
      BY <3>1, <3>2, Joined
    <3> QED
      BY <3>3 DEF w
  <2>4. EntityOK(g)
    BY <2>1, <2>2, <2>3 DEF EntityOK, SameEntity
  <2> QED
    BY <1>3, <2>1, <2>2, <2>3, <2>4
<1>4. \A k \in 1 .. Len(es) : SameEntity(es[k], fs[k])
  BY <1>1, <1>3 DEF SameEntity
<1>6. Extends(es, fs)
  BY <1>1, <1>4 DEF Extends
<1>7. ASSUME NEW k \in 1 .. Len(fs)
      PROVE  EntityOK(fs[k]) /\ \A d \in Elements(fs[k].kids) : MayList(fs, fs[k], d)
  <2>1. EntityOK(fs[k]) /\ \A d \in Elements(fs[k].kids) : MayList(es, es[k], d)
    BY <1>1, <1>3 DEF EntsOK
  <2>2. fs[k].kind = es[k].kind
    BY <1>1, <1>4 DEF SameEntity
  <2> QED
    BY <1>1, <1>6, <2>1, <2>2, ListKept
<1> QED
  BY <1>1, <1>6, <1>7 DEF EntsOK

-----------------------------------------------------------------------------
(* Definitions: found in the list or made. *)

DefsOK(es, list) ==
  /\ IsSeq(list)
  /\ \A d \in Elements(list) : d \in Ids(es) /\ es[d + 1].kind \in DefRows
  /\ \A d, e \in Elements(list) :
       es[d + 1].kind # "SDEF" /\ es[e + 1].kind # "SDEF" /\ es[d + 1].val = es[e + 1].val => d = e

LEMMA DefsKept ==
  ASSUME NEW es, NEW fs, Len(es) \in Nat, Len(fs) \in Nat, Extends(es, fs), NEW list, DefsOK(es, list)
  PROVE  DefsOK(fs, list)
<1>1. \A d \in Elements(list) : d \in Ids(es) /\ d \in Ids(fs) /\ d + 1 \in 1 .. Len(es)
  BY DEF DefsOK, Ids, Extends
<1>2. \A d \in Elements(list) : fs[d + 1].kind = es[d + 1].kind /\ fs[d + 1].val = es[d + 1].val
  BY <1>1 DEF Extends, SameEntity
<1> QED
  BY <1>1, <1>2 DEF DefsOK

LEMMA EntityFields ==
  ASSUME NEW k, NEW v, NEW n, NEW t, NEW o, NEW s
  PROVE  LET e == Entity(k, v, n, t, o, s)
         IN /\ IsEntity(e) /\ e.kind = k /\ e.val = v /\ e.nodes = n /\ e.type = t
            /\ e.offset = o /\ e.kids = s
  BY DEF Entity, IsEntity

LEMMA AnswersIn ==
  ASSUME NEW f, NEW X, NEW V, Lists(f, X, V), NEW x \in X
  PROVE  Answers(f, x) \in Seq(V)
<1>1. CASE x \in DOMAIN f
  BY <1>1 DEF Lists, Answers
<1>2. CASE x \notin DOMAIN f
  BY <1>2 DEF Answers
<1> QED
  BY <1>1, <1>2

\* The stores of the module.
StoreIds == {i.id : i \in {j \in prog.code : j.op = "store"}}

LEMMA Given ==
  ASSUME prog \in Programs
  PROVE  /\ Lists(svf.targets, prog.values, prog.values)
         /\ Lists(svf.stores, prog.values, StoreIds) /\ StoreIds \subseteq prog.values
         /\ Lists(svf.storeDefs, prog.values, prog.values)
         /\ \A u \in prog.values : findFirstDominator(u) \in prog.values \cup {Null}
         /\ \A v \in prog.values :
              /\ \A k \in 1 .. Len(Chain(v)) - 1 : Len(Chain(Chain(v)[k])) > 1
              /\ svf.kind[v] # "dyn" => Answers(svf.targets, v) = << >>
              /\ Buildable(v) => svf.size[svf.alloc[Chain(v)[Len(Chain(v))]]] \in Nat
<1>1. StoreIds \subseteq prog.values
  BY AnswersAssumption, Zenon DEF StoreIds
<1> QED
  BY <1>1, AnswersAssumption, Zenon DEF StoreIds

LEMMA Single ==
  ASSUME NEW x, NEW s, s = <<x>>
  PROVE  IsSeq(s) /\ Elements(s) = {x} /\ Len(s) = 1 /\ s[1] = x
<1>1. s \in Seq({x}) /\ Len(s) = 1 /\ s[1] = x /\ DOMAIN s = 1 .. 1
  OBVIOUS
<1>2. IsSeq(s) /\ Elements(s) \subseteq {x}
  BY <1>1, IsSeqFacts
<1>3. x \in Elements(s)
  BY <1>1 DEF Elements
<1> QED
  BY <1>1, <1>2, <1>3

LEMMA ChainFacts ==
  ASSUME prog \in Programs, NEW v \in prog.values
  PROVE  /\ IsSeq(Chain(v)) /\ Elements(Chain(v)) \subseteq prog.values
         /\ Len(Chain(v)) \in Nat \ {0} /\ Chain(v)[1] = v
<1> DEFINE a == Answers(svf.targets, v)
           o == <<v>>
           c == Chain(v)
<1>1. IsSeq(a) /\ Elements(a) \subseteq prog.values
  <2>1. a \in Seq(prog.values)
    BY Given, AnswersIn
  <2> HIDE DEF a
  <2> QED
    BY <2>1, IsSeqFacts
<1>2. IsSeq(o) /\ Elements(o) = {v} /\ Len(o) = 1 /\ o[1] = v
  BY Single
<1>3. c = o \o a
  BY DEF Chain
<1> HIDE DEF a, o, c
<1>4. IsSeq(c) /\ Elements(c) = Elements(o) \cup Elements(a)
  BY <1>1, <1>2, <1>3, Joined
<1>5. Len(c) = Len(o) + Len(a) /\ Len(a) \in Nat
  BY <1>1, <1>2, <1>3, Joined
<1>6. o \in Seq(prog.values) /\ a \in Seq(prog.values)
  BY <1>1, <1>2, SeqIn
<1>7. c[1] = v
  <2>1. 1 \in 1 .. Len(o) + Len(a) /\ 1 <= Len(o)
    BY <1>2, <1>5
  <2>2. (o \o a)[1] = o[1]
    BY <1>6, <2>1
  <2> QED
    BY <1>2, <1>3, <2>2
<1> QED
  BY <1>1, <1>2, <1>4, <1>5, <1>7 DEF c

\* A variable has a definition of its own.
LEMMA VariablesBuild ==
  ASSUME prog \in Programs, NEW v \in prog.values, svf.kind[v] \in {"alloca", "global"}
  PROVE  Buildable(v)
<1> DEFINE c == Chain(v)
<1>1. Answers(svf.targets, v) = << >>
  BY Given
<1>2. c = <<v>>
  BY <1>1, ChainFacts DEF Chain
<1>3. Len(c) = 1 /\ c[Len(c)] = v
  BY <1>2
<1> QED
  BY <1>3 DEF Buildable

LEMMA Built ==
  ASSUME prog \in Programs, NEW v \in prog.values, Buildable(v), Len(ents) \in Nat,
         NEW new, new = buildDef(v)
  PROVE  /\ IsSeq(new) /\ Len(new) = Len(Chain(v)) /\ Len(new) \in Nat \ {0}
         /\ \A k \in 1 .. Len(new) :
              /\ EntityOK(new[k]) /\ new[k].kind \in DefRows \ {"SDEF"}
              /\ k = 1 => Elements(new[k].kids) = {}
              /\ k > 1 => Elements(new[k].kids) = {Len(ents) + k - 2}
         /\ new[Len(new)].val = v
<1> DEFINE c == Chain(v)
           n == Len(c)
           base == svf.alloc[c[n]]
           behind(k) == {c[j] : j \in n + 1 - k .. n}
<1>1. n \in Nat \ {0} /\ c[1] = v /\ \A k \in 1 .. n : c[k] \in prog.values
  BY ChainFacts, SeqDomain
<1>2. /\ svf.kind[c[n]] \in {"alloca", "global"}
      /\ \A k \in 1 .. n - 1 : svf.kind[c[k]] = "dyn"
  BY DEF Buildable
<1>3. /\ \A k \in 1 .. n - 1 : Len(Chain(c[k])) > 1
      /\ svf.size[base] \in Nat
  BY Given
<1>4. new = [k \in 1 .. n |->
               IF k > 1 THEN DDef(c[n + 1 - k], behind(k), base, Len(ents) + k - 2)
               ELSE IF svf.kind[c[n + 1 - k]] = "alloca" THEN ADef(c[n + 1 - k], behind(k), base)
               ELSE GDef(c[n + 1 - k], behind(k), base)]
  BY DEF buildDef, nextId
<1> HIDE DEF c, n, base
<1>5. ASSUME NEW k \in 1 .. n
      PROVE  /\ c[n + 1 - k] \in prog.values /\ c[n + 1 - k] \in behind(k)
             /\ \A u \in behind(k) : /\ u \in prog.values
                                    /\ IF svf.kind[u] = "dyn" THEN Len(Chain(u)) > 1 ELSE Buildable(u)
  <2>1. n + 1 - k \in 1 .. n /\ n + 1 - k \in n + 1 - k .. n
    BY <1>1
  <2>2. \A j \in n + 1 - k .. n : j \in 1 .. n /\ (j # n => j \in 1 .. n - 1)
    BY <1>1
  <2>3. \A j \in n + 1 - k .. n : /\ c[j] \in prog.values
                                  /\ IF svf.kind[c[j]] = "dyn" THEN Len(Chain(c[j])) > 1 ELSE Buildable(c[j])
    <3> TAKE j \in n + 1 - k .. n
    <3>1. j \in 1 .. n /\ (j # n => j \in 1 .. n - 1)
      BY <2>2
    <3>2. c[j] \in prog.values
      BY <1>1, <3>1
    <3>3. CASE j = n
      BY <1>2, <3>2, <3>3, VariablesBuild
    <3>4. CASE j # n
      BY <1>2, <1>3, <3>1, <3>2, <3>4
    <3> QED
      BY <3>3, <3>4
  <2> QED
    BY <1>1, <2>1, <2>3
<1> HIDE DEF behind
<1>6. ASSUME NEW k \in 1 .. n
      PROVE  /\ EntityOK(new[k]) /\ new[k].kind \in DefRows \ {"SDEF"} /\ new[k].val = c[n + 1 - k]
             /\ k = 1 => Elements(new[k].kids) = {}
             /\ k > 1 => Elements(new[k].kids) = {Len(ents) + k - 2}
  <2> DEFINE kind == IF k > 1 THEN "DDEF" ELSE IF svf.kind[c[n + 1 - k]] = "alloca" THEN "ADEF" ELSE "GDEF"
             kids == IF k > 1 THEN <<Len(ents) + k - 2>> ELSE << >>
             e == Entity(kind, c[n + 1 - k], behind(k), base, 0, kids)
  <2>1. new[k] = e
    BY <1>4 DEF DDef, ADef, GDef
  <2>2. IsSeq(kids) /\ (k = 1 => Elements(kids) = {}) /\ (k > 1 => Elements(kids) = {Len(ents) + k - 2})
    <3>1. CASE k > 1
      <4>1. kids = <<Len(ents) + k - 2>>
        BY <3>1
      <4> HIDE DEF kids
      <4> QED
        BY <3>1, <4>1, Single
    <3>2. CASE ~(k > 1)
      BY <3>2, EmptyList
    <3> QED
      BY <3>1, <3>2
  <2>3. kind \in DefRows \ {"SDEF"}
    BY DEF DefRows
  <2> HIDE DEF kind, kids
  <2>4. /\ IsEntity(e) /\ e.kind = kind /\ e.val = c[n + 1 - k] /\ e.nodes = behind(k)
        /\ e.type = base /\ e.offset = 0 /\ e.kids = kids
    BY EntityFields
  <2> HIDE DEF e
  <2>5. EntityOK(e)
    BY <1>3, <1>5, <2>2, <2>3, <2>4 DEF EntityOK
  <2> QED
    BY <2>1, <2>2, <2>3, <2>4, <2>5
<1>7. IsSeq(new) /\ Len(new) = n
  <2> DEFINE S == {new[k] : k \in 1 .. n}
  <2>1. \A k \in 1 .. n : new[k] \in S
    OBVIOUS
  <2>2. DOMAIN new = 1 .. n /\ new = [k \in 1 .. n |-> new[k]]
    BY <1>4
  <2> HIDE DEF S
  <2>3. new \in [1 .. n -> S]
    BY <2>1, <2>2
  <2>4. n \in Nat
    BY <1>1
  <2>5. IsSeq(new)
    BY <2>3, <2>4, ListOf
  <2> QED
    BY <2>3, <2>4, <2>5
<1>8. new[n].val = v
  <2>1. n \in 1 .. n /\ n + 1 - n = 1
    BY <1>1
  <2> QED
    BY <1>1, <1>6, <2>1
<1> QED
  BY <1>1, <1>6, <1>7, <1>8 DEF n, c

LEMMA FoundFacts ==
  ASSUME DefsOK(ents, deflist), Len(ents) \in Nat, NEW v
  PROVE  /\ get_def_id(v) # -1 => /\ get_def_id(v) \in Elements(deflist)
                                  /\ v \in ents[get_def_id(v) + 1].nodes
         /\ get_def_id(v) = -1 => \A d \in Elements(deflist) : v \notin ents[d + 1].nodes
<1> DEFINE hits == {k \in DOMAIN deflist : v \in Ent(deflist[k]).nodes}
<1>1. /\ \A k \in DOMAIN deflist : deflist[k] \in Elements(deflist) /\ deflist[k] \in Ids(ents)
      /\ DOMAIN deflist = 1 .. Len(deflist) /\ Len(deflist) \in Nat
  BY SeqDomain DEF DefsOK
<1>2. get_def_id(v) = IF hits = {} THEN -1 ELSE deflist[Min(hits)]
  BY DEF get_def_id
<1>3. CASE hits = {}
  BY <1>2, <1>3 DEF Elements, Ent
<1>4. CASE hits # {}
  <2>1. hits \subseteq Nat
    BY <1>1
  <2> DEFINE m == Min(hits)
  <2>2. m \in hits
    <3> HIDE DEF hits
    <3> QED
      BY <1>4, <2>1, MinIsLeast
  <2> HIDE DEF m
  <2>3. deflist[m] \in Elements(deflist) /\ deflist[m] \in Ids(ents) /\ v \in ents[deflist[m] + 1].nodes
    BY <1>1, <2>2 DEF Ent
  <2>4. get_def_id(v) = deflist[m]
    BY <1>2, <1>4 DEF m
  <2>5. deflist[m] # -1
    BY <2>3 DEF Ids
  <2> QED
    BY <2>3, <2>4, <2>5
<1> QED
  BY <1>3, <1>4

(***************************************************************************)
(* What getOrBuildDef answers for v is a definition of v, and the list     *)
(* with it has one definition of every value.                              *)
(***************************************************************************)
LEMMA DefListed ==
  ASSUME NEW es, NEW e, NEW d, d \in Ids(es), es[d + 1].kind \in DefRows
  PROVE  MayList(es, e, d)
  BY DEF MayList

\* What fs has more than es are definitions.
NewDefs(es, fs) == \A u \in Ids(fs) \ Ids(es) : fs[u + 1].kind \in DefRows

Answered(v, id, new) ==
  LET fs == ents \o new
      list == Append(deflist, id)
  IN /\ EntsOK(fs) /\ Extends(ents, fs) /\ Len(ents) \in Nat /\ Len(fs) \in Nat
     /\ id \in Ids(fs) /\ fs[id + 1].kind \in DefRows /\ v \in fs[id + 1].nodes
     /\ DefsOK(fs, list) /\ (new = << >> => id \in Elements(deflist)) /\ NewDefs(ents, fs)

LEMMA DefFacts ==
  ASSUME prog \in Programs, EntsOK(ents), DefsOK(ents, deflist), NEW v \in prog.values, Known(v)
  PROVE  Answered(v, getOrBuildDef(v).id, getOrBuildDef(v).new)
<1>0. IsSeq(ents) /\ Len(ents) \in Nat /\ IsSeq(deflist)
  BY SeqDomain DEF EntsOK, DefsOK
<1> DEFINE id == getOrBuildDef(v).id
           new == getOrBuildDef(v).new
           fs == ents \o new
           list == Append(deflist, id)
<1>b. /\ get_def_id(v) # -1 => id = get_def_id(v) /\ new = << >>
      /\ get_def_id(v) = -1 => id = Len(ents) + Len(Chain(v)) - 1 /\ new = buildDef(v) /\ Buildable(v)
  BY DEF getOrBuildDef, nextId, Known
<1>f. fs = ents \o new /\ list = Append(deflist, id)
  OBVIOUS
<1> HIDE DEF id, new, fs, list
<1>l. IsSeq(list) /\ Elements(list) = Elements(deflist) \cup {id}
  BY <1>0, <1>f, OneMore
<1>g. SUFFICES /\ EntsOK(fs) /\ Extends(ents, fs) /\ Len(ents) \in Nat /\ Len(fs) \in Nat
               /\ id \in Ids(fs) /\ fs[id + 1].kind \in DefRows /\ v \in fs[id + 1].nodes
               /\ DefsOK(fs, list) /\ (new = << >> => id \in Elements(deflist)) /\ NewDefs(ents, fs)
  BY DEF Answered, id, new, fs, list
<1>1. CASE get_def_id(v) # -1
  <2>1. id = get_def_id(v) /\ new = << >>
    BY <1>1, <1>b
  <2>2. id \in Elements(deflist) /\ v \in ents[id + 1].nodes
    BY <1>0, <1>1, <2>1, FoundFacts
  <2>3. IsSeq(new) /\ Elements(new) = {} /\ Len(new) = 0
    BY <2>1, EmptyList
  <2>4. EntsOK(fs) /\ Extends(ents, fs) /\ Len(fs) = Len(ents) + Len(new)
    <3>1. 1 .. Len(new) = {}
      BY <2>3
    <3>2. \A k \in 1 .. Len(new) :
            EntityOK(new[k]) /\ \A d \in Elements(new[k].kids) : MayList(fs, new[k], d)
      BY <3>1
    <3> QED
      BY <1>f, <2>3, <3>2, EntsJoined
  <2>5. Len(fs) \in Nat /\ DefsOK(fs, deflist)
    BY <1>0, <2>3, <2>4, DefsKept
  <2>6. id \in Ids(fs) /\ fs[id + 1].kind \in DefRows
    BY <2>2, <2>5 DEF DefsOK
  <2>7. fs[id + 1].nodes = ents[id + 1].nodes
    <3>1. id + 1 \in 1 .. Len(ents)
      BY <2>2, <1>0 DEF DefsOK, Ids
    <3> QED
      BY <2>4, <3>1 DEF Extends, SameEntity
  <2>8. Elements(list) = Elements(deflist)
    BY <1>l, <2>2
  <2>9. DefsOK(fs, list)
    BY <1>l, <2>5, <2>8 DEF DefsOK
  <2>10. NewDefs(ents, fs)
    BY <1>0, <2>3, <2>4 DEF NewDefs, Ids
  <2> QED
    BY <1>0, <2>2, <2>4, <2>5, <2>6, <2>7, <2>9, <2>10
<1>2. CASE get_def_id(v) = -1
  <2> DEFINE n == Len(new)
             m == Len(ents)
  <2>1. id = m + Len(Chain(v)) - 1 /\ new = buildDef(v) /\ Buildable(v)
    BY <1>2, <1>b
  <2>2. /\ IsSeq(new) /\ n = Len(Chain(v)) /\ n \in Nat \ {0}
        /\ \A k \in 1 .. n :
             /\ EntityOK(new[k]) /\ new[k].kind \in DefRows \ {"SDEF"}
             /\ k = 1 => Elements(new[k].kids) = {}
             /\ k > 1 => Elements(new[k].kids) = {m + k - 2}
        /\ new[n].val = v
    BY <1>0, <2>1, Built
  <2> HIDE DEF n
  <2>3. Len(fs) = m + n /\ \A k \in 1 .. Len(fs) : fs[k] = IF k <= m THEN ents[k] ELSE new[k - m]
    <3>0. Len(fs) = Len(ents) + Len(new)
      BY <1>0, <1>f, <2>2, Joined
    <3>1. Len(fs) = m + n
      BY <3>0 DEF n
    <3>2. \A k \in 1 .. Len(fs) : fs[k] = IF k <= Len(ents) THEN ents[k] ELSE new[k - Len(ents)]
      BY <1>0, <1>f, <2>2, Joined
    <3> QED
      BY <3>1, <3>2
  <2>4. \A k \in 1 .. n : m + k \in 1 .. Len(fs) /\ fs[m + k] = new[k]
    <3> TAKE k \in 1 .. n
    <3>1. m + k \in 1 .. Len(fs) /\ ~(m + k <= m) /\ (m + k) - m = k
      BY <1>0, <2>2, <2>3
    <3> QED
      BY <2>3, <3>1
  <2>5. ASSUME NEW k \in 1 .. n, NEW d \in Elements(new[k].kids) PROVE MayList(fs, new[k], d)
    <3>0. k \in Nat /\ k >= 1
      BY <2>2
    <3>4. k > 1
      <4>1. k # 1
        BY <2>2, <2>5
      <4> QED
        BY <3>0, <4>1
    <3>5. Elements(new[k].kids) = {m + k - 2}
      BY <2>2, <3>4
    <3>1. k > 1 /\ d = m + k - 2
      BY <2>5, <3>0, <3>4, <3>5
    <3>2. k - 1 \in 1 .. n /\ d + 1 = m + (k - 1) /\ d \in Ids(fs)
      BY <1>0, <2>2, <2>3, <3>1 DEF Ids
    <3>3. fs[d + 1].kind \in DefRows
      BY <2>2, <2>4, <3>2
    <3> QED
      BY <3>2, <3>3, DefListed
  <2>6. EntsOK(fs) /\ Extends(ents, fs)
    BY <1>f, <2>2, <2>5, EntsJoined DEF n
  <2>7. id \in Ids(fs) /\ id + 1 = m + n /\ fs[id + 1] = new[n]
    <3>1. id + 1 = m + n /\ n \in 1 .. n /\ id \in Ids(fs)
      BY <1>0, <2>1, <2>2, <2>3 DEF Ids
    <3> QED
      BY <2>4, <3>1
  <2>8. fs[id + 1].kind \in DefRows \ {"SDEF"} /\ fs[id + 1].val = v /\ v \in fs[id + 1].nodes
    <3>1. n \in 1 .. n
      BY <2>2
    <3> QED
      BY <2>2, <2>7, <3>1 DEF EntityOK
  <2>9. Len(fs) \in Nat /\ DefsOK(fs, deflist)
    BY <1>0, <2>2, <2>3, <2>6, DefsKept
  <2>10. \A d \in Elements(deflist) : fs[d + 1].kind # "SDEF" => fs[d + 1].val # v
    <3> TAKE d \in Elements(deflist)
    <3>1. d + 1 \in 1 .. Len(ents) /\ ents[d + 1].kind \in DefRows
      BY <1>0 DEF DefsOK, Ids
    <3>2. SameEntity(ents[d + 1], fs[d + 1]) /\ EntityOK(ents[d + 1])
      BY <2>6, <3>1 DEF Extends, EntsOK
    <3>3. v \notin ents[d + 1].nodes
      BY <1>0, <1>2, FoundFacts
    <3> QED
      BY <3>1, <3>2, <3>3 DEF SameEntity, EntityOK
  <2>11. DefsOK(fs, list)
    <3>1. \A d \in Elements(list) : d \in Elements(deflist) \/ d = id
      BY <1>l
    <3>2. \A d \in Elements(list) : d \in Ids(fs) /\ fs[d + 1].kind \in DefRows
      BY <2>7, <2>8, <2>9, <3>1, Zenon DEF DefsOK
    <3>3. ASSUME NEW d \in Elements(list), NEW e \in Elements(list), fs[d + 1].kind # "SDEF",
                 fs[e + 1].kind # "SDEF", fs[d + 1].val = fs[e + 1].val
          PROVE  d = e
      BY <2>8, <2>9, <2>10, <3>1, <3>3, Zenon DEF DefsOK
    <3> QED
      BY <1>l, <3>2, <3>3, Zenon DEF DefsOK
  <2>12. new # << >>
    BY <2>2 DEF n
  <2>13. NewDefs(ents, fs)
    <3>1. SUFFICES ASSUME NEW u \in Ids(fs) \ Ids(ents) PROVE fs[u + 1].kind \in DefRows
      BY DEF NewDefs
    <3>2. u + 1 - m \in 1 .. n /\ m + (u + 1 - m) = u + 1
      BY <1>0, <2>2, <2>3, <3>1 DEF Ids
    <3> QED
      BY <2>2, <2>4, <3>2
  <2> QED
    BY <1>0, <2>6, <2>7, <2>8, <2>9, <2>11, <2>12, <2>13
<1> QED
  BY <1>1, <1>2

-----------------------------------------------------------------------------
(* The turns that wait, and what the calls of the module may be. *)

DefsOf(x) == Answers(svf.defs, x)

CallOK(c) ==
  /\ c.id \in prog.values
  /\ c.op = "call" =>
       /\ c.args \in Seq(Value)
       /\ \A k \in DOMAIN c.args : DefsOf(c.args[k]) \in Seq(prog.values)
       /\ c.callee.name \in {"wrapper_scanf", "scanf", "__isoc99_scanf"} => 2 \in DOMAIN c.args
       /\ c.callee.name \in {"memcpy", "strcpy"} => 1 \in DOMAIN c.args
       /\ c.callee.name = "fgetc" /\ c.id \in DOMAIN svf.got => DefsOf(svf.got[c.id]) \in Seq(prog.values)

FieldOK(v, path) ==
  LET e == NewField(v, Selected(v, path))
  IN v \in prog.values /\ e.offset \in Nat /\ svf.size[e.type] \in Nat

TurnOK(es, t) ==
  /\ t.do \in {"in", "store"} => t.in \in Ids(es) /\ es[t.in + 1].kind = "IN" /\ t.val \in prog.values
  /\ t.do = "store" => t.val \in StoreIds
  /\ t.do = "target" => t.use \in Ids(es) /\ t.val \in prog.values
  /\ t.do = "path" => t.use \in Ids(es) \cup {-1} /\ FieldOK(t.val, t.path)
  /\ t.do \in {"ref", "refid"} => t.call.id \in prog.values
  /\ t.do = "ref" => DefsOf(t.call.args[t.param]) \in Seq(prog.values)
  /\ t.do = "iuse" => /\ t.use \in Ids(es) /\ t.val \in prog.values
                      /\ t.val = findFirstDominator(es[t.use + 1].val)
  /\ t.do = "row" => t.id \in Ids(es)

Turns(es, w) == IsSeq(w) /\ \A t \in Elements(w) : TurnOK(es, t)

LEMMA LoopList ==
  ASSUME NEW s, IsSeq(s), NEW w, DOMAIN w = DOMAIN s, w = [k \in DOMAIN s |-> w[k]]
  PROVE  IsSeq(w) /\ Elements(w) = {w[k] : k \in DOMAIN s}
<1> DEFINE S == {w[k] : k \in DOMAIN s}
<1>1. \A k \in DOMAIN s : w[k] \in S
  OBVIOUS
<1>2. Elements(w) = S
  BY DEF Elements
<1>3. Len(s) \in Nat /\ DOMAIN s = 1 .. Len(s)
  BY SeqDomain
<1> HIDE DEF S
<1>4. w \in [1 .. Len(s) -> S]
  BY <1>1, <1>3
<1>5. IsSeq(w)
  BY <1>3, <1>4, ListOf
<1> QED
  BY <1>2, <1>5 DEF S

LEMMA TurnKept ==
  ASSUME NEW es, NEW fs, Len(es) \in Nat, Len(fs) \in Nat, Extends(es, fs), NEW t, TurnOK(es, t)
  PROVE  TurnOK(fs, t)
<1>1. \A d \in Ids(es) : /\ d \in Ids(fs)
                         /\ fs[d + 1].kind = es[d + 1].kind /\ fs[d + 1].val = es[d + 1].val
  <2>1. \A d \in Ids(es) : d \in Ids(fs) /\ d + 1 \in 1 .. Len(es)
    BY DEF Ids, Extends
  <2> QED
    BY <2>1 DEF Extends, SameEntity
<1> QED
  BY <1>1 DEF TurnOK

LEMMA TurnsJoined ==
  ASSUME NEW es, NEW fs, Len(es) \in Nat, Len(fs) \in Nat, Extends(es, fs),
         NEW w, Turns(es, w), w # << >>, NEW u, Turns(fs, u)
  PROVE  Turns(fs, u \o Tail(w)) /\ Turns(fs, Tail(w))
<1> DEFINE t == Tail(w)
           v == u \o t
<1>1. IsSeq(t) /\ Elements(t) \subseteq Elements(w) /\ IsSeq(u)
  BY HeadTail DEF Turns
<1>v. v = u \o t
  OBVIOUS
<1> HIDE DEF t, v
<1>2. IsSeq(v) /\ Elements(v) = Elements(u) \cup Elements(t)
  BY <1>1, <1>v, Joined
<1>3. \A x \in Elements(t) : TurnOK(fs, x)
  BY <1>1, TurnKept DEF Turns
<1>4. Turns(fs, v) /\ Turns(fs, t)
  BY <1>1, <1>2, <1>3 DEF Turns
<1> QED
  BY <1>4 DEF v, t

LEMMA HeadTurn ==
  ASSUME NEW es, NEW w, Turns(es, w), w # << >>
  PROVE  TurnOK(es, Head(w))
  BY HeadTail DEF Turns

LEMMA NoTurns ==
  ASSUME NEW es, NEW w, w = << >> PROVE Turns(es, w)
  BY EmptyList DEF Turns

\* The same for the next state, where the module is the same.
LEMMA Primed ==
  ASSUME prog' = prog
  PROVE  /\ \A es : EntsOK(es)' <=> EntsOK(es)
         /\ \A es, w : Turns(es, w)' <=> Turns(es, w)
<1>1. ASSUME NEW e PROVE EntityOK(e)' <=> EntityOK(e)
  BY DEF EntityOK
<1>2. ASSUME NEW es, NEW t PROVE TurnOK(es, t)' <=> TurnOK(es, t)
  BY DEF TurnOK, FieldOK, StoreIds
<1> QED
  BY <1>1, <1>2 DEF EntsOK, Turns

-----------------------------------------------------------------------------
(* The calls of the module, once it is wrapped. *)

LEMMA GivenCalls ==
  ASSUME prog \in Programs, NEW i \in prog.code
  PROVE  /\ i.id \in prog.values
         /\ i.op = "call" =>
              /\ <<i.id[1], 1>> \in prog.values /\ <<i.id[1], 2>> \in prog.values
              /\ \A k \in DOMAIN i.args : DefsOf(i.args[k]) \in Seq(prog.values)
              /\ i.callee.name \in GetsNames \cup {"memcpy", "strcpy"} => Len(i.args) >= 1
              /\ i.callee.name = "wrapper_scanf" => Len(i.args) >= 2
              /\ i.callee.name \in ScanfNames /\ i.fn.name \in {"wrapper_scanf", "wrapper_gets"} =>
                   Len(i.args) >= 2
              /\ i.id \in DOMAIN svf.got => DefsOf(svf.got[i.id]) \in Seq(prog.values)
<1> DEFINE V == prog.values
           calls == {j \in prog.code : j.op = "call"}
           arguments == UNION {{j.args[k] : k \in DOMAIN j.args} : j \in calls}
           results == {svf.got[c] : c \in V \cap DOMAIN svf.got}
<1>1. /\ i.id \in prog.values
      /\ \A j \in calls :
            /\ {<<j.id[1], 1>>, <<j.id[1], 2>>} \subseteq V
            /\ j.callee.name \in GetsNames \cup {"memcpy", "strcpy"} => Len(j.args) >= 1
            /\ j.callee.name = "wrapper_scanf" => Len(j.args) >= 2
            /\ j.callee.name \in ScanfNames /\ j.fn.name \in {"wrapper_scanf", "wrapper_gets"} =>
                 Len(j.args) >= 2
  BY AnswersAssumption, Zenon
<1>2. Lists(svf.defs, arguments \cup results, V)
  BY AnswersAssumption, Zenon
<1>3. CASE i.op = "call"
  <2>1. i \in calls
    BY <1>3
  <2>2. ASSUME NEW k \in DOMAIN i.args PROVE DefsOf(i.args[k]) \in Seq(prog.values)
    <3>1. i.args[k] \in arguments
      BY <2>1
    <3> HIDE DEF arguments, results
    <3> QED
      BY <1>2, <3>1, AnswersIn DEF DefsOf
  <2>3. ASSUME i.id \in DOMAIN svf.got PROVE DefsOf(svf.got[i.id]) \in Seq(prog.values)
    <3>1. svf.got[i.id] \in results
      BY <1>1, <2>1, <2>3
    <3> HIDE DEF arguments, results
    <3> QED
      BY <1>2, <3>1, AnswersIn DEF DefsOf
  <2>4. <<i.id[1], 1>> \in V /\ <<i.id[1], 2>> \in V
    BY <1>1, <2>1
  <2>5. /\ i.callee.name \in GetsNames \cup {"memcpy", "strcpy"} => Len(i.args) >= 1
        /\ i.callee.name = "wrapper_scanf" => Len(i.args) >= 2
        /\ i.callee.name \in ScanfNames /\ i.fn.name \in {"wrapper_scanf", "wrapper_gets"} =>
             Len(i.args) >= 2
    <3> HIDE DEF calls
    <3> QED
      BY <1>1, <2>1, Zenon
  <2> HIDE DEF V
  <2> QED
    BY <1>1, <2>2, <2>3, <2>4, <2>5 DEF V
<1>4. CASE i.op # "call"
  BY <1>1, <1>4
<1> QED
  BY <1>3, <1>4

\* The arguments that scanf's marker takes exist.
ScanfsOK == \A i \in Inputs(ScanfNames) : Len(i.args) >= 2
Wrapped == phase \notin {"wrap", "undefined"} => ScanfsOK

LEMMA Prefix ==
  ASSUME NEW S, NEW s \in Seq(S), NEW n \in Nat, n <= Len(s), NEW t, t = SubSeq(s, 1, n)
  PROVE  t \in Seq(S) /\ DOMAIN t = 1 .. n /\ \A k \in 1 .. n : k \in DOMAIN s /\ t[k] = s[k]
  OBVIOUS

LEMMA WrapperCall ==
  ASSUME prog \in Programs, NEW i \in prog.code, i.op = "call", NEW n \in {1, 2},
         NEW callee \in {"wrapper_scanf", "wrapper_gets"}, NEW arity \in {1, 2}, arity <= Len(i.args),
         callee = "wrapper_scanf" => arity = 2
  PROVE  CallOK(Wrapper(i, n, callee, arity))
<1> DEFINE w == Wrapper(i, n, callee, arity)
           a == SubSeq(i.args, 1, arity)
<1>0. i \in Compiled
  BY ModuleAssumption
<1>1. i.args \in Seq(Value)
  BY <1>0 DEF Compiled
<1>2. w.id = <<i.id[1], n>> /\ w.op = "call" /\ w.callee.name = callee /\ w.args = a
  BY <1>0 DEF Wrapper, Compiled, Function
<1>3. a \in Seq(Value) /\ DOMAIN a = 1 .. arity /\ \A k \in 1 .. arity : k \in DOMAIN i.args /\ a[k] = i.args[k]
  BY <1>1, Prefix
<1> HIDE DEF w, a
<1>4. w.id \in prog.values
  BY <1>2, GivenCalls
<1>5. \A k \in DOMAIN a : DefsOf(a[k]) \in Seq(prog.values)
  BY <1>3, GivenCalls
<1>6. callee = "wrapper_scanf" => 2 \in DOMAIN a
  BY <1>3
<1>7. CallOK(w)
  BY <1>2, <1>3, <1>4, <1>5, <1>6 DEF CallOK
<1> QED
  BY <1>7 DEF w

LEMMA BaseCalls ==
  ASSUME prog \in Programs, ScanfsOK, NEW i \in Base
  PROVE  CallOK(i)
<1>1. CASE i \in prog.code
  <2>1. CASE i.op = "call"
    <3>0. i \in Compiled
      BY <1>1, ModuleAssumption
    <3>1. i.args \in Seq(Value) /\ i.callee \in Original /\ i.fn \in Original
      BY <3>0 DEF Compiled
    <3>2. i.callee.name \in ScanfNames => Len(i.args) >= 2
      <4>1. ~i.callee.clone
        BY <3>1 DEF Original
      <4> QED
        BY <1>1, <2>1, <4>1, GivenCalls DEF ScanfsOK, Inputs
    <3>3. /\ i.callee.name \in {"wrapper_scanf", "scanf", "__isoc99_scanf"} => 2 \in DOMAIN i.args
          /\ i.callee.name \in {"memcpy", "strcpy"} => 1 \in DOMAIN i.args
      <4>1. /\ i.callee.name \in {"wrapper_scanf", "scanf", "__isoc99_scanf"} => Len(i.args) >= 2
            /\ i.callee.name \in {"memcpy", "strcpy"} => Len(i.args) >= 1
        BY <1>1, <2>1, <3>2, GivenCalls DEF ScanfNames
      <4>2. Len(i.args) \in Nat /\ DOMAIN i.args = 1 .. Len(i.args)
        BY <3>1
      <4>3. (Len(i.args) >= 2 => 2 \in DOMAIN i.args) /\ (Len(i.args) >= 1 => 1 \in DOMAIN i.args)
        BY <4>2
      <4> QED
        BY <4>1, <4>3
    <3>4. /\ i.id \in prog.values
          /\ \A k \in DOMAIN i.args : DefsOf(i.args[k]) \in Seq(prog.values)
          /\ i.id \in DOMAIN svf.got => DefsOf(svf.got[i.id]) \in Seq(prog.values)
      BY <1>1, <2>1, GivenCalls
    <3> QED
      BY <3>1, <3>3, <3>4 DEF CallOK
  <2>2. CASE i.op # "call"
    BY <1>1, <2>2, GivenCalls DEF CallOK
  <2> QED
    BY <2>1, <2>2
<1>2. CASE \E j \in Inputs(ScanfNames) : i = Wrapper(j, 1, "wrapper_scanf", 2)
  <2>1. PICK j \in Inputs(ScanfNames) : i = Wrapper(j, 1, "wrapper_scanf", 2)
    BY <1>2
  <2>2. j \in prog.code /\ j.op = "call" /\ 2 <= Len(j.args)
    BY DEF ScanfsOK, Inputs
  <2> QED
    BY <2>1, <2>2, WrapperCall
<1>3. CASE \E j \in Inputs(GetsNames) : i = Wrapper(j, 2, "wrapper_gets", 1)
  <2>1. PICK j \in Inputs(GetsNames) : i = Wrapper(j, 2, "wrapper_gets", 1)
    BY <1>3
  <2>2. j \in prog.code /\ j.op = "call" /\ j.callee.name \in GetsNames
    BY DEF Inputs
  <2>3. 1 <= Len(j.args)
    <3>0. j.args \in Seq(Value)
      <4>1. j \in Compiled
        BY <2>2, ModuleAssumption
      <4> QED
        BY <4>1 DEF Compiled
    <3>1. Len(j.args) >= 1
      BY <2>2, GivenCalls
    <3> QED
      BY <3>0, <3>1
  <2> QED
    BY <2>1, <2>2, <2>3, WrapperCall
<1> QED
  BY <1>1, <1>2, <1>3 DEF Base

LEMMA CodeCalls ==
  ASSUME ModuleInv, Wrapped, NEW c \in code,
         \/ phase \in {"sites", "refs", "inttoptr", "iuses", "export"}
         \/ phase = "erase" /\ left = {}
  PROVE  CallOK(c)
<1>1. prog \in Programs /\ (\A f \in instrumentedFunctions : IsOriginal(f)) /\ ScanfsOK
      /\ code = {Final(i) : i \in Base}
  BY DEF ModuleInv, Wrapped, Erasing
<1>2. PICK i \in Base : c = Final(i)
  BY <1>1
<1>3. c.id = i.id /\ c.op = i.op /\ c.args = i.args /\ c.callee = Target(i)
  BY <1>1, <1>2, BaseFacts, FinalFields DEF Stands
<1>4. c.callee.name = i.callee.name
  BY <1>1, <1>3, BaseFacts, CloneFields DEF Target, Untouched
<1> QED
  BY <1>1, <1>3, <1>4, BaseCalls DEF CallOK

-----------------------------------------------------------------------------
(* What the turns do to the entities. *)

LEMMA AppendIs ==
  ASSUME NEW s, IsSeq(s), NEW x
  PROVE  Append(s, x) = s \o <<x>>
<1> DEFINE S == Elements(s) \cup {x}
<1>1. s \in Seq(S) /\ x \in S
  <2>1. Elements(s) \subseteq S /\ x \in S
    OBVIOUS
  <2> HIDE DEF S
  <2> QED
    BY <2>1, SeqIn, Zenon
<1> HIDE DEF S
<1> QED
  BY <1>1

LEMMA OneEntity ==
  ASSUME NEW es, EntsOK(es), NEW e, EntityOK(e), NEW fs, fs = Append(es, e),
         \A d \in Elements(e.kids) : MayList(fs, e, d)
  PROVE  /\ EntsOK(fs) /\ Extends(es, fs) /\ Len(fs) = Len(es) + 1 /\ Len(es) \in Nat
         /\ fs[Len(es) + 1] = e
<1> DEFINE new == <<e>>
<1>1. IsSeq(new) /\ Len(new) = 1 /\ new[1] = e
  BY Single
<1>2. IsSeq(es) /\ Len(es) \in Nat
  BY SeqDomain DEF EntsOK
<1>3. fs = es \o new
  BY <1>2, AppendIs
<1> HIDE DEF new
<1>4. \A k \in 1 .. Len(new) :
        EntityOK(new[k]) /\ \A d \in Elements(new[k].kids) : MayList(fs, new[k], d)
  <2>1. 1 .. Len(new) = {1}
    BY <1>1
  <2> QED
    BY <1>1, <2>1
<1>5. EntsOK(fs) /\ Extends(es, fs) /\ Len(fs) = Len(es) + Len(new)
  BY <1>1, <1>3, <1>4, EntsJoined
<1>6. fs[Len(es) + 1] = e
  BY <1>2, OneMore
<1> QED
  BY <1>1, <1>2, <1>5, <1>6

LEMMA UnderIs ==
  ASSUME NEW es, EntsOK(es), NEW id \in Ids(es), NEW d
  PROVE  Under(es, id, d) = Listing(es, id + 1, <<d>>)
<1>1. id + 1 \in 1 .. Len(es)
  <2>1. Len(es) \in Nat
    BY SeqDomain DEF EntsOK
  <2> QED
    BY <2>1 DEF Ids
<1>2. IsSeq(es[id + 1].kids)
  BY <1>1 DEF EntsOK, EntityOK
<1>3. Append(es[id + 1].kids, d) = es[id + 1].kids \o <<d>>
  BY <1>2, AppendIs
<1> QED
  BY <1>3 DEF Under, Listing

LEMMA UnderKept ==
  ASSUME NEW es, EntsOK(es), NEW id \in Ids(es), NEW d, MayList(es, es[id + 1], d),
         NEW fs, fs = Under(es, id, d)
  PROVE  EntsOK(fs) /\ Extends(es, fs) /\ Len(fs) = Len(es) /\ Len(es) \in Nat
<1> DEFINE s == <<d>>
<1>1. IsSeq(s) /\ Elements(s) = {d}
  BY Single
<1>2. fs = Listing(es, id + 1, s)
  BY UnderIs
<1> HIDE DEF s
<1> QED
  BY <1>1, <1>2, EntsListing

LEMMA NewEntities ==
  ASSUME NEW v \in prog.values
  PROVE  /\ \A s : IsSeq(s) => EntityOK(In(v, s)) /\ In(v, s).kind = "IN" /\ In(v, s).kids = s
         /\ EntityOK(SUse(v)) /\ SUse(v).kind \in UseRows /\ Elements(SUse(v).kids) = {}
         /\ EntityOK(LUse(v)) /\ LUse(v).kind \in UseRows /\ Elements(LUse(v).kids) = {}
<1> DEFINE none == << >>
<1>1. IsSeq(none) /\ Elements(none) = {}
  BY EmptyList
<1> HIDE DEF none
<1>2. ASSUME NEW s, IsSeq(s), NEW k \in UseRows \cup {"IN"}
      PROVE  /\ EntityOK(Entity(k, v, {}, "", 0, s)) /\ Entity(k, v, {}, "", 0, s).kind = k
             /\ Entity(k, v, {}, "", 0, s).kids = s
  <2> DEFINE e == Entity(k, v, {}, "", 0, s)
  <2>1. /\ IsEntity(e) /\ e.kind = k /\ e.val = v /\ e.nodes = {} /\ e.type = "" /\ e.offset = 0 /\ e.kids = s
    BY DEF Entity, IsEntity
  <2> HIDE DEF e
  <2>2. EntityOK(e)
    <3>1. e.kind \in DefRows \cup UseRows \cup {"IN"} /\ e.kind \notin DefRows
      BY Zenon, <2>1 DEF UseRows, DefRows
    <3>2. e.val \in prog.values /\ e.offset \in Nat /\ e.offset = 0 /\ IsSeq(e.kids)
      <4>1. e.val \in prog.values
        BY Zenon, <2>1
      <4>2. IsSeq(e.kids)
        BY Zenon, <1>2, <2>1
      <4>3. e.offset = 0 /\ 0 \in Nat
        BY Zenon, <2>1
      <4> QED
        BY <4>1, <4>2, <4>3
    <3>3. \A u : u \notin e.nodes
      BY Zenon, <2>1
    <3> QED
      BY <2>1, <3>1, <3>2, <3>3, Zenon DEF EntityOK
  <2> QED
    BY Zenon, <2>1, <2>2 DEF e
<1>3. \A s : IsSeq(s) => EntityOK(In(v, s)) /\ In(v, s).kind = "IN" /\ In(v, s).kids = s
  BY Zenon, <1>2 DEF In
<1>4. EntityOK(SUse(v)) /\ SUse(v).kind \in UseRows /\ SUse(v).kids = none
  <2>1. SUse(v) = Entity("SUSE", v, {}, "", 0, none) /\ "SUSE" \in UseRows
    BY DEF SUse, UseRows, none
  <2>2. "SUSE" \in UseRows \cup {"IN"} /\ "LUSE" \in UseRows \cup {"IN"}
    BY DEF UseRows
  <2> HIDE DEF none
  <2>3. LET e == Entity("SUSE", v, {}, "", 0, none)
        IN EntityOK(e) /\ e.kind = "SUSE" /\ e.kids = none
    BY Zenon, <1>1, <1>2, <2>2
  <2> QED
    BY Zenon, <2>1, <2>3
<1>5. EntityOK(LUse(v)) /\ LUse(v).kind \in UseRows /\ LUse(v).kids = none
  <2>1. LUse(v) = Entity("LUSE", v, {}, "", 0, none) /\ "LUSE" \in UseRows
    BY DEF LUse, UseRows, none
  <2>2. "SUSE" \in UseRows \cup {"IN"} /\ "LUSE" \in UseRows \cup {"IN"}
    BY DEF UseRows
  <2> HIDE DEF none
  <2>3. LET e == Entity("LUSE", v, {}, "", 0, none)
        IN EntityOK(e) /\ e.kind = "LUSE" /\ e.kids = none
    BY Zenon, <1>1, <1>2, <2>2
  <2> QED
    BY Zenon, <2>1, <2>3
<1> QED
  BY <1>1, <1>3, <1>4, <1>5

LEMMA ExtendsSelf == ASSUME NEW es, Len(es) \in Nat PROVE Extends(es, es)
  BY DEF Extends, SameEntity

-----------------------------------------------------------------------------
(***************************************************************************)
(* svf-ex: its lists name entities that exist, the definitions are         *)
(* different ones, and every turn that waits is about something that its   *)
(* handler can work with.                                                  *)
(***************************************************************************)
ListsOK(es, list, tr, is, w) ==
  /\ EntsOK(es) /\ DefsOK(es, list)
  /\ IsSeq(tr) /\ Elements(tr) \subseteq Ids(es)
  /\ IsSeq(is) /\ Elements(is) \subseteq Ids(es)
  /\ Turns(es, w)

LeftOK(es) ==
  /\ phase \in {"sites", "refs"} => \A c \in left : c.op = "call" /\ CallOK(c)
  /\ phase = "inttoptr" => \A pair \in left : pair[1] \in prog.values /\ pair[2] \in Ids(es)
  /\ phase = "iuses" => left \subseteq Ids(es)

SvfInv == ListsOK(ents, deflist, trace, ids, work) /\ LeftOK(ents)

LEMMA InIds ==
  ASSUME NEW es, Len(es) \in Nat, NEW d \in Ids(es)
  PROVE  d + 1 \in 1 .. Len(es)
  BY DEF Ids

\* What is not touched by a turn stays right when entities are added.
LEMMA ListsKept ==
  ASSUME NEW es, NEW list, NEW tr, NEW is, NEW w, ListsOK(es, list, tr, is, w),
         NEW fs, EntsOK(fs), Extends(es, fs)
  PROVE  /\ Len(es) \in Nat /\ Len(fs) \in Nat /\ Ids(es) \subseteq Ids(fs)
         /\ DefsOK(fs, list) /\ Elements(tr) \subseteq Ids(fs) /\ Elements(is) \subseteq Ids(fs)
         /\ w # << >> => Turns(fs, Tail(w)) /\ \A u : Turns(fs, u) => Turns(fs, u \o Tail(w))
<1>1. Len(es) \in Nat /\ Len(fs) \in Nat
  BY SeqDomain DEF EntsOK, ListsOK
<1>2. Ids(es) \subseteq Ids(fs)
  BY <1>1 DEF Ids, Extends
<1>3. DefsOK(fs, list)
  BY <1>1, DefsKept DEF ListsOK
<1>4. Elements(tr) \subseteq Ids(fs) /\ Elements(is) \subseteq Ids(fs)
  BY <1>2 DEF ListsOK
<1>5. ASSUME w # << >> PROVE Turns(fs, Tail(w)) /\ \A u : Turns(fs, u) => Turns(fs, u \o Tail(w))
  <2>1. Turns(es, w)
    BY DEF ListsOK
  <2>2. ASSUME NEW u, Turns(fs, u) PROVE Turns(fs, u \o Tail(w)) /\ Turns(fs, Tail(w))
    BY <1>1, <1>5, <2>1, <2>2, TurnsJoined
  <2>3. Turns(fs, << >>)
    BY NoTurns
  <2> QED
    BY <2>2, <2>3
<1> QED
  BY <1>1, <1>2, <1>3, <1>4, <1>5

\* A step within a part.
LEMMA SvfAdvance ==
  ASSUME SvfInv, prog' = prog, Extends(ents, ents'), Len(ents) \in Nat, Len(ents') \in Nat,
         ListsOK(ents', deflist', trace', ids', work'),
         left' \subseteq left, phase' \in {phase, "undefined"}
  PROVE  SvfInv' /\ Extends(ents, ents')
<1>1. ListsOK(ents, deflist, trace, ids, work)'
  BY Primed DEF ListsOK
<1>2. \A d \in Ids(ents) : d \in Ids(ents')
  BY DEF Ids, Extends
<1>3. \A c : CallOK(c)' <=> CallOK(c)
  BY DEF CallOK
<1>4. LeftOK(ents)'
  BY <1>2, <1>3 DEF SvfInv, LeftOK
<1> QED
  BY <1>1, <1>4 DEF SvfInv

LEMMA SvfStill ==
  ASSUME SvfInv, prog' = prog, UNCHANGED svfVars, left' \subseteq left, phase' \in {phase, "undefined"}
  PROVE  SvfInv' /\ Extends(ents, ents')
<1>1. /\ ents' = ents /\ deflist' = deflist /\ trace' = trace /\ ids' = ids /\ work' = work
  BY DEF svfVars
<1>2. Len(ents) \in Nat /\ Extends(ents, ents)
  BY SeqDomain, ExtendsSelf DEF SvfInv, ListsOK, EntsOK
<1>3. ListsOK(ents', deflist', trace', ids', work')
  BY <1>1 DEF SvfInv
<1> QED
  BY <1>1, <1>2, <1>3, SvfAdvance

-----------------------------------------------------------------------------
(* The turns that each loop makes. *)

InLoop(in, s) == [k \in DOMAIN s |-> InTurn(in, s[k])]
StoreLoop(in, s) == [k \in DOMAIN s |-> StoreTurn(in, s[k], s[k])]
PointerLoop(in, s, p) == [k \in DOMAIN s |-> StoreTurn(in, s[k], p)]
TargetLoop(u, s, p) == [k \in DOMAIN s |-> TargetTurn(u, s[k], p)]
RefLoop(c, s) == [k \in DOMAIN s |-> RefTurn(c, s[k])]

LEMMA TurnsOf ==
  ASSUME NEW es, NEW s, IsSeq(s), NEW w, DOMAIN w = DOMAIN s, w = [k \in DOMAIN s |-> w[k]],
         \A k \in DOMAIN s : TurnOK(es, w[k])
  PROVE  Turns(es, w)
<1>1. IsSeq(w) /\ Elements(w) = {w[k] : k \in DOMAIN s}
  BY LoopList
<1> QED
  BY <1>1 DEF Turns

LEMMA InTurns ==
  ASSUME NEW es, NEW in \in Ids(es), es[in + 1].kind = "IN", NEW s \in Seq(prog.values)
  PROVE  Turns(es, InLoop(in, s))
<1> DEFINE w == InLoop(in, s)
<1>1. w = [k \in DOMAIN s |-> InTurn(in, s[k])]
  BY DEF InLoop
<1>2. IsSeq(s) /\ \A k \in DOMAIN s : s[k] \in prog.values
  BY IsSeqFacts
<1> HIDE DEF w
<1>3. DOMAIN w = DOMAIN s /\ w = [k \in DOMAIN s |-> w[k]]
  BY <1>1
<1>4. ASSUME NEW k \in DOMAIN s PROVE TurnOK(es, w[k])
  <2>1. w[k] = InTurn(in, s[k])
    BY <1>1
  <2> QED
    BY <1>2, <2>1 DEF InTurn, TurnOK
<1> QED
  BY <1>2, <1>3, <1>4, TurnsOf DEF w

LEMMA StoreTurns ==
  ASSUME prog \in Programs, NEW es, NEW in \in Ids(es), es[in + 1].kind = "IN", NEW s \in Seq(StoreIds)
  PROVE  Turns(es, StoreLoop(in, s))
<1> DEFINE w == StoreLoop(in, s)
<1>1. w = [k \in DOMAIN s |-> StoreTurn(in, s[k], s[k])]
  BY DEF StoreLoop
<1>2. IsSeq(s) /\ \A k \in DOMAIN s : s[k] \in StoreIds /\ s[k] \in prog.values
  BY IsSeqFacts, Given
<1> HIDE DEF w
<1>3. DOMAIN w = DOMAIN s /\ w = [k \in DOMAIN s |-> w[k]]
  BY <1>1
<1>4. ASSUME NEW k \in DOMAIN s PROVE TurnOK(es, w[k])
  <2>1. w[k] = StoreTurn(in, s[k], s[k])
    BY <1>1
  <2> QED
    BY <1>2, <2>1 DEF StoreTurn, TurnOK
<1> QED
  BY <1>2, <1>3, <1>4, TurnsOf DEF w

LEMMA PointerTurns ==
  ASSUME prog \in Programs, NEW es, NEW in \in Ids(es), es[in + 1].kind = "IN", NEW s \in Seq(StoreIds), NEW p
  PROVE  Turns(es, PointerLoop(in, s, p))
<1> DEFINE w == PointerLoop(in, s, p)
<1>1. w = [k \in DOMAIN s |-> StoreTurn(in, s[k], p)]
  BY DEF PointerLoop
<1>2. IsSeq(s) /\ \A k \in DOMAIN s : s[k] \in StoreIds /\ s[k] \in prog.values
  BY IsSeqFacts, Given
<1> HIDE DEF w
<1>3. DOMAIN w = DOMAIN s /\ w = [k \in DOMAIN s |-> w[k]]
  BY <1>1
<1>4. ASSUME NEW k \in DOMAIN s PROVE TurnOK(es, w[k])
  <2>1. w[k] = StoreTurn(in, s[k], p)
    BY <1>1
  <2> QED
    BY <1>2, <2>1 DEF StoreTurn, TurnOK
<1> QED
  BY <1>2, <1>3, <1>4, TurnsOf DEF w

LEMMA TargetTurns ==
  ASSUME NEW es, NEW u \in Ids(es), NEW s \in Seq(prog.values), NEW p
  PROVE  Turns(es, TargetLoop(u, s, p))
<1> DEFINE w == TargetLoop(u, s, p)
<1>1. w = [k \in DOMAIN s |-> TargetTurn(u, s[k], p)]
  BY DEF TargetLoop
<1>2. IsSeq(s) /\ \A k \in DOMAIN s : s[k] \in prog.values
  BY IsSeqFacts
<1> HIDE DEF w
<1>3. DOMAIN w = DOMAIN s /\ w = [k \in DOMAIN s |-> w[k]]
  BY <1>1
<1>4. ASSUME NEW k \in DOMAIN s PROVE TurnOK(es, w[k])
  <2>1. w[k] = TargetTurn(u, s[k], p)
    BY <1>1
  <2> QED
    BY <1>2, <2>1 DEF TargetTurn, TurnOK
<1> QED
  BY <1>2, <1>3, <1>4, TurnsOf DEF w

LEMMA PathTurns ==
  ASSUME prog \in Programs, NEW es, NEW u \in Ids(es) \cup {-1},
         NEW v \in prog.values, v \in svf.struct, NEW to
  PROVE  Turns(es, analyzeGep(u, v, to))
<1> DEFINE s == Answers(svf.geps, <<v, to>>)
           w == analyzeGep(u, v, to)
<1>1. w = [k \in DOMAIN s |-> PathTurn(u, v, s[k])]
  BY DEF Loop, analyzeGep
<1>2. IsSeq(s) /\ \A k \in DOMAIN s : FieldOK(v, s[k])
  <2>1. CASE <<v, to>> \in DOMAIN svf.geps
    <3> DEFINE g == <<v, to>>
    <3>1. s = svf.geps[g] /\ g[1] = v
      BY <2>1 DEF Answers
    <3> HIDE DEF g, s
    <3>2. /\ svf.geps[g] \in Seq(Seq(Seq(Int)))
          /\ \A k \in DOMAIN svf.geps[g] :
               LET e == NewField(g[1], Selected(g[1], svf.geps[g][k]))
               IN e.offset \in Nat /\ svf.size[e.type] \in Nat
      <4>1. g \in DOMAIN svf.geps /\ g[1] \in prog.values \cap svf.struct
        BY <2>1, <3>1 DEF g
      <4> QED
        BY <4>1, AnswersAssumption, Zenon
    <3>3. s \in Seq(Seq(Seq(Int)))
      BY <3>1, <3>2
    <3>4. IsSeq(s)
      BY <3>3, IsSeqFacts
    <3>5. \A k \in DOMAIN s : FieldOK(v, s[k])
      BY <3>1, <3>2 DEF FieldOK
    <3> QED
      BY <3>4, <3>5
  <2>2. CASE <<v, to>> \notin DOMAIN svf.geps
    <3>1. s = << >>
      BY <2>2 DEF Answers
    <3> HIDE DEF s
    <3>2. IsSeq(s) /\ DOMAIN s = {}
      BY <3>1, EmptyList
    <3> QED
      BY <3>2
  <2> QED
    BY <2>1, <2>2
<1> HIDE DEF w, s
<1>3. DOMAIN w = DOMAIN s /\ w = [k \in DOMAIN s |-> w[k]]
  BY <1>1
<1>4. ASSUME NEW k \in DOMAIN s PROVE TurnOK(es, w[k])
  <2>1. w[k] = PathTurn(u, v, s[k])
    BY <1>1
  <2> QED
    BY <1>2, <2>1 DEF PathTurn, TurnOK
<1> QED
  BY <1>2, <1>3, <1>4, TurnsOf DEF w

LEMMA RefTurns ==
  ASSUME NEW es, NEW c, c.op = "call", CallOK(c), NEW K, K \subseteq DOMAIN c.args
  PROVE  Turns(es, RefLoop(c, Kept([k \in DOMAIN c.args |-> k], K)))
<1> DEFINE a == [k \in DOMAIN c.args |-> k]
           s == Kept(a, K)
           w == RefLoop(c, s)
<1>0. /\ c.id \in prog.values /\ c.args \in Seq(Value)
      /\ \A k \in DOMAIN c.args : DefsOf(c.args[k]) \in Seq(prog.values)
  BY DEF CallOK
<1>1. w = [k \in DOMAIN s |-> RefTurn(c, s[k])]
  BY DEF RefLoop
<1>a. IsSeq(a) /\ DOMAIN a = DOMAIN c.args /\ \A k \in DOMAIN c.args : a[k] = k
  <2>1. IsSeq(c.args)
    BY <1>0, IsSeqFacts
  <2>2. DOMAIN a = DOMAIN c.args /\ a = [k \in DOMAIN c.args |-> a[k]]
    OBVIOUS
  <2> HIDE DEF a
  <2>3. IsSeq(a)
    BY <2>1, <2>2, LoopList
  <2> QED
    BY <2>2, <2>3 DEF a
<1> HIDE DEF a
<1>2. IsSeq(s) /\ Elements(s) = {a[k] : k \in K \cap DOMAIN a}
  BY <1>a, KeptFacts
<1> HIDE DEF s, w
<1>3. \A k \in DOMAIN s : s[k] \in DOMAIN c.args
  BY <1>2, <1>a DEF Elements
<1>4. DOMAIN w = DOMAIN s /\ w = [k \in DOMAIN s |-> w[k]]
  BY <1>1
<1>5. ASSUME NEW k \in DOMAIN s PROVE TurnOK(es, w[k])
  <2>1. w[k] = RefTurn(c, s[k])
    BY <1>1
  <2>2. DefsOf(c.args[s[k]]) \in Seq(prog.values)
    BY <1>0, <1>3
  <2> QED
    BY <1>0, <2>1, <2>2 DEF RefTurn, TurnOK
<1>6. Turns(es, w)
  BY <1>2, <1>4, <1>5, TurnsOf
<1> QED
  BY <1>6 DEF w, s, a

LEMMA OneTurn ==
  ASSUME NEW es, NEW t, TurnOK(es, t)
  PROVE  Turns(es, <<t>>)
<1> DEFINE w == <<t>>
<1>1. IsSeq(w) /\ Elements(w) = {t}
  BY Single
<1> HIDE DEF w
<1>2. Turns(es, w)
  BY <1>1 DEF Turns
<1> QED
  BY <1>2 DEF w

LEMMA TurnsBoth ==
  ASSUME NEW es, NEW u, Turns(es, u), NEW w, Turns(es, w)
  PROVE  Turns(es, u \o w)
<1> DEFINE v == u \o w
<1>1. IsSeq(u) /\ IsSeq(w) /\ v = u \o w
  BY DEF Turns
<1> HIDE DEF v
<1>2. IsSeq(v) /\ Elements(v) = Elements(u) \cup Elements(w)
  BY <1>1, Joined
<1>3. Turns(es, v)
  BY <1>2 DEF Turns
<1> QED
  BY <1>3 DEF v

-----------------------------------------------------------------------------
(* One lemma for each action of svf-ex. *)

LEMMA InputSiteStep ==
  ASSUME SvfInv, prog \in Programs, prog' = prog, InputSite PROVE SvfInv' /\ Extends(ents, ents')
<1>1. PICK c \in left :
        /\ c.callee.name \in inputFunctions
        /\ left' = left \ {c}
        /\ \/ /\ ParamFound(c)
              /\ ents' = Append(ents, In(c.id, << >>))
              /\ trace' = Append(trace, nextId)
              /\ work' = Loop(Answers(svf.defs, inputParam(c)), LAMBDA v : InTurn(nextId, v))
              /\ UNCHANGED <<phase, deflist, ids, tags, rows, valueMap>>
           \/ ~ParamFound(c) /\ Undefined
  BY DEF InputSite
<1>2. c.op = "call" /\ CallOK(c) /\ left' \subseteq left
  BY <1>1 DEF InputSite, SvfInv, LeftOK
<1>3. CASE Undefined
  BY <1>2, <1>3, SvfStill DEF Undefined
<1>4. CASE /\ ParamFound(c)
           /\ ents' = Append(ents, In(c.id, << >>))
           /\ trace' = Append(trace, nextId)
           /\ work' = Loop(Answers(svf.defs, inputParam(c)), LAMBDA v : InTurn(nextId, v))
           /\ UNCHANGED <<phase, deflist, ids, tags, rows, valueMap>>
  <2> DEFINE e == In(c.id, << >>)
             n == Len(ents)
  <2>0. EntsOK(ents) /\ ListsOK(ents, deflist, trace, ids, work) /\ IsSeq(trace) /\ IsSeq(ids)
    BY DEF SvfInv, ListsOK
  <2>1. EntityOK(e) /\ e.kind = "IN" /\ Elements(e.kids) = {}
    <3>1. c.id \in prog.values
      BY <1>2 DEF CallOK
    <3>2. Elements(<< >>) = {} /\ IsSeq(<< >>)
      BY EmptyList
    <3>3. EntityOK(e) /\ e.kind = "IN" /\ e.kids = << >>
      BY <3>1, <3>2, NewEntities
    <3> QED
      BY <3>2, <3>3
  <2>2. ents' = Append(ents, e) /\ \A d \in Elements(e.kids) : MayList(ents', e, d)
    BY <1>4, <2>1
  <2> HIDE DEF e
  <2>3. /\ EntsOK(ents') /\ Extends(ents, ents') /\ Len(ents') = n + 1 /\ n \in Nat
        /\ ents'[n + 1] = e
    BY <2>0, <2>1, <2>2, OneEntity
  <2>4. n \in Ids(ents') /\ ents'[n + 1].kind = "IN" /\ nextId = n
    BY <2>1, <2>3 DEF Ids, nextId
  <2>5. /\ DefsOK(ents', deflist) /\ Elements(trace) \subseteq Ids(ents')
        /\ Elements(ids) \subseteq Ids(ents')
    BY <2>0, <2>3, ListsKept
  <2>6. IsSeq(trace') /\ Elements(trace') = Elements(trace) \cup {n}
    <3>1. trace' = Append(trace, n)
      BY <1>4, <2>4
    <3> HIDE DEF n
    <3> QED
      BY <2>0, <3>1, OneMore
  <2>7. DefsOf(inputParam(c)) \in Seq(prog.values)
    <3>1. CASE c.callee.name = "wrapper_scanf"
      BY <1>2, <3>1 DEF CallOK, inputParam
    <3>2. CASE c.callee.name = "fgetc" /\ c.id \in DOMAIN svf.got
      BY <1>2, <3>2 DEF CallOK, inputParam
    <3> QED
      BY <1>4, <3>1, <3>2 DEF ParamFound
  <2>8. Turns(ents', work')
    <3>1. work' = InLoop(n, DefsOf(inputParam(c)))
      BY <1>4 DEF Loop, InLoop, DefsOf, nextId
    <3> HIDE DEF n
    <3> QED
      BY <2>4, <2>7, <3>1, InTurns
  <2>9. ListsOK(ents', deflist', trace', ids', work')
    <3>1. deflist' = deflist /\ ids' = ids
      BY <1>4
    <3> QED
      BY <3>1, <2>0, <2>3, <2>4, <2>5, <2>6, <2>8 DEF ListsOK
  <2>10. Len(ents') \in Nat /\ phase' = phase
    BY <1>4, <2>3
  <2> QED
    BY <1>2, <2>3, <2>9, <2>10, SvfAdvance
<1> QED
  BY <1>1, <1>3, <1>4

\* The definitions that a library call may write.
LEMMA LibTargets ==
  ASSUME NEW c, c.op = "call", CallOK(c), c.callee.name \in libFunctions
  PROVE  DefsOf(libParam(c)) \in Seq(prog.values)
<1>1. CASE c.callee.name \in {"scanf", "__isoc99_scanf"}
  BY <1>1 DEF CallOK, libParam
<1>2. CASE c.callee.name \notin {"scanf", "__isoc99_scanf"}
  <2>1. c.callee.name \in {"memcpy", "strcpy"}
    BY <1>2 DEF libFunctions
  <2> QED
    BY <1>2, <2>1 DEF CallOK, libParam
<1> QED
  BY <1>1, <1>2

LEMMA LibSiteStep ==
  ASSUME SvfInv, prog \in Programs, prog' = prog, LibSite PROVE SvfInv' /\ Extends(ents, ents')
<1>1. PICK c \in left :
        /\ c.callee.name \in libFunctions
        /\ left' = left \ {c}
        /\ ents' = ents \o <<In(c.id, <<nextId + 1>>), LUse(c.id)>>
        /\ trace' = Append(trace, nextId)
        /\ work' = Loop(Answers(svf.defs, libParam(c)), LAMBDA v : TargetTurn(nextId + 1, v, c.id))
  BY DEF LibSite
<1>2. c.op = "call" /\ CallOK(c) /\ left' \subseteq left /\ UNCHANGED <<phase, deflist, ids>>
  BY <1>1 DEF LibSite, SvfInv, LeftOK
<1> DEFINE n == Len(ents)
           kids == <<n + 1>>
           e == In(c.id, kids)
           u == LUse(c.id)
           new == <<e, u>>
<1>0. EntsOK(ents) /\ ListsOK(ents, deflist, trace, ids, work) /\ IsSeq(trace) /\ IsSeq(ids) /\ n \in Nat
  BY SeqDomain DEF SvfInv, ListsOK, EntsOK
<1>3. ents' = ents \o new
  BY <1>1 DEF nextId
<1>4. IsSeq(kids) /\ Elements(kids) = {n + 1}
  BY Single
<1>5. c.id \in prog.values
  BY <1>2 DEF CallOK
<1> HIDE DEF kids
<1>6. /\ EntityOK(e) /\ e.kind = "IN" /\ Elements(e.kids) = {n + 1}
      /\ EntityOK(u) /\ u.kind \in UseRows /\ Elements(u.kids) = {}
  BY <1>4, <1>5, NewEntities
<1> HIDE DEF e, u
<1>7. IsSeq(new) /\ Len(new) = 2 /\ new[1] = e /\ new[2] = u
  <2>1. new \in Seq({e, u}) /\ Len(new) = 2 /\ new[1] = e /\ new[2] = u
    OBVIOUS
  <2> QED
    BY <2>1, IsSeqFacts
<1> HIDE DEF new, n
<1>8. Len(ents) = n
  BY DEF n
<1>9. /\ Len(ents') = n + 2 /\ ents'[n + 2] = u
  <2>1. /\ Len(ents') = n + 2
        /\ \A k \in 1 .. Len(ents') : ents'[k] = IF k <= n THEN ents[k] ELSE new[k - n]
    <3>1. IsSeq(ents)
      BY <1>0 DEF EntsOK
    <3>0. Len(ents') = Len(ents) + Len(new)
      BY <3>1, <1>3, <1>7, Joined
    <3>2. Len(ents') = n + 2
      BY <3>0, <1>7, <1>8
    <3>3. \A k \in 1 .. Len(ents') : ents'[k] = IF k <= Len(ents) THEN ents[k] ELSE new[k - Len(ents)]
      BY <3>1, <1>3, <1>7, Joined
    <3> QED
      BY <3>2, <3>3, <1>8
  <2>2. n + 2 \in 1 .. Len(ents') /\ ~(n + 2 <= n) /\ (n + 2) - n = 2
    BY <1>0, <2>1
  <2> QED
    BY <2>1, <2>2, <1>7
<1>10. MayList(ents', e, n + 1)
  <2>1. n + 1 \in Ids(ents') /\ (n + 1) + 1 = n + 2
    BY <1>0, <1>9 DEF Ids
  <2> QED
    BY <2>1, <1>6, <1>9 DEF MayList
<1>11. EntsOK(ents') /\ Extends(ents, ents')
  <2>1. ASSUME NEW k \in 1 .. Len(new)
        PROVE  EntityOK(new[k]) /\ \A d \in Elements(new[k].kids) : MayList(ents', new[k], d)
    <3>1. k = 1 \/ k = 2
      BY <1>7
    <3> QED
      BY <3>1, <1>6, <1>7, <1>10
  <2> QED
    BY <2>1, <1>0, <1>3, <1>7, EntsJoined
<1>12. n \in Ids(ents') /\ n + 1 \in Ids(ents') /\ nextId = n
  BY <1>0, <1>8, <1>9 DEF Ids, nextId
<1>13. /\ DefsOK(ents', deflist) /\ Elements(trace) \subseteq Ids(ents')
       /\ Elements(ids) \subseteq Ids(ents')
  BY <1>0, <1>11, ListsKept
<1>14. IsSeq(trace') /\ Elements(trace') = Elements(trace) \cup {n}
  BY <1>0, <1>1, <1>12, OneMore
<1>15. DefsOf(libParam(c)) \in Seq(prog.values)
  BY <1>1, <1>2, LibTargets
<1>16. Turns(ents', work')
  <2>1. work' = TargetLoop(n + 1, DefsOf(libParam(c)), c.id)
    BY <1>1, <1>12 DEF Loop, TargetLoop, DefsOf
  <2> QED
    BY <1>12, <1>15, <2>1, TargetTurns
<1>17. ListsOK(ents', deflist', trace', ids', work')
  <2>1. deflist' = deflist /\ ids' = ids
    BY <1>2
  <2> QED
    BY <2>1, <1>0, <1>11, <1>12, <1>13, <1>14, <1>16 DEF ListsOK
<1>18. Len(ents) \in Nat /\ Len(ents') \in Nat /\ phase' = phase
  BY <1>0, <1>2, <1>8, <1>9
<1> QED
  BY <1>2, <1>11, <1>17, <1>18, SvfAdvance

\* What a turn finds: its own record is right, and the others stay so.
LEMMA SvfFacts ==
  ASSUME SvfInv
  PROVE  /\ EntsOK(ents) /\ DefsOK(ents, deflist) /\ IsSeq(deflist) /\ Len(ents) \in Nat
         /\ IsSeq(trace) /\ Elements(trace) \subseteq Ids(ents)
         /\ IsSeq(ids) /\ Elements(ids) \subseteq Ids(ents)
         /\ Turns(ents, work) /\ (work # << >> => TurnOK(ents, Head(work)))
         /\ ListsOK(ents, deflist, trace, ids, work) /\ Extends(ents, ents)
         /\ (work # << >> => Turns(ents, Tail(work)))
<1>1. EntsOK(ents) /\ DefsOK(ents, deflist) /\ IsSeq(deflist) /\ Len(ents) \in Nat
  BY SeqDomain DEF SvfInv, ListsOK, EntsOK, DefsOK
<1>2. Turns(ents, work) /\ ListsOK(ents, deflist, trace, ids, work) /\ Extends(ents, ents)
  BY <1>1, ExtendsSelf DEF SvfInv, ListsOK
<1> QED
  BY <1>1, <1>2, HeadTurn, ListsKept DEF ListsOK

\* A definition that is listed under d, or nothing, with the turns u in front.
LEMMA DefListedUnder ==
  ASSUME SvfInv, prog \in Programs, work # << >>, NEW v \in prog.values, Known(v),
         NEW n \in Ids(ents), NEW fs, fs = Under(ents \o getOrBuildDef(v).new, n, getOrBuildDef(v).id),
         NEW list, list = Append(deflist, getOrBuildDef(v).id),
         NEW w, Turns(fs, w) \/ Turns(ents, w)
  PROVE  /\ Extends(ents, fs) /\ Len(fs) \in Nat
         /\ ListsOK(fs, list, trace, ids, w \o Tail(work)) /\ ListsOK(fs, list, trace, ids, Tail(work))
<1> DEFINE d == getOrBuildDef(v).id
           es == ents \o getOrBuildDef(v).new
<1>0. /\ ListsOK(ents, deflist, trace, ids, work) /\ EntsOK(ents) /\ DefsOK(ents, deflist)
      /\ IsSeq(trace) /\ IsSeq(ids) /\ Len(ents) \in Nat
  BY SvfFacts
<1>1. /\ EntsOK(es) /\ Extends(ents, es) /\ Len(es) \in Nat
      /\ d \in Ids(es) /\ es[d + 1].kind \in DefRows /\ DefsOK(es, list)
  BY <1>0, DefFacts DEF Answered
<1>f. fs = Under(es, n, d)
  OBVIOUS
<1> HIDE DEF d, es
<1>2. n \in Ids(es)
  BY <1>0, <1>1 DEF Ids, Extends
<1>3. EntsOK(fs) /\ Extends(es, fs) /\ Len(fs) = Len(es)
  BY <1>1, <1>2, <1>f, UnderKept, DefListed
<1>4. Extends(ents, fs) /\ DefsOK(fs, list) /\ Len(fs) \in Nat
  BY <1>0, <1>1, <1>3, ExtendsTwice, DefsKept
<1>5. Turns(fs, w)
  <2>1. ASSUME Turns(ents, w) PROVE Turns(fs, w)
    BY <1>0, <1>4, <2>1, TurnKept DEF Turns
  <2> QED
    BY <2>1
<1>6. /\ Elements(trace) \subseteq Ids(fs) /\ Elements(ids) \subseteq Ids(fs)
      /\ Turns(fs, Tail(work)) /\ Turns(fs, w \o Tail(work))
  BY <1>0, <1>3, <1>4, <1>5, ListsKept
<1> QED
  BY <1>0, <1>3, <1>4, <1>6 DEF ListsOK

\* The stores that an input call's definition leads to.
LEMMA InputStores ==
  ASSUME SvfInv, prog \in Programs, work # << >>, Head(work).do = "in", Known(Head(work).val),
         NEW from, from = IF svf.kind[Head(work).val] = "dyn" THEN Chain(Head(work).val)[2]
                                                             ELSE Head(work).val
  PROVE  Answers(svf.stores, from) \in Seq(StoreIds)
<1> DEFINE t == Head(work)
           v == t.val
<1>1. TurnOK(ents, t) /\ Len(ents) \in Nat /\ EntsOK(ents) /\ DefsOK(ents, deflist)
  BY SvfFacts
<1>2. v \in prog.values
  BY <1>1 DEF TurnOK
<1>3. from \in prog.values
  <2>1. CASE svf.kind[v] = "dyn"
    <3>1. Len(Chain(v)) > 1
      <4>1. CASE get_def_id(v) # -1
        <5>1. get_def_id(v) \in Elements(deflist) /\ v \in ents[get_def_id(v) + 1].nodes
          BY <1>1, <4>1, FoundFacts
        <5>2. get_def_id(v) + 1 \in 1 .. Len(ents)
          BY <1>1, <5>1, InIds DEF DefsOK
        <5> QED
          BY <1>1, <2>1, <5>1, <5>2 DEF EntsOK, EntityOK
      <4>2. CASE get_def_id(v) = -1
        <5>1. Buildable(v)
          BY <4>2 DEF Known
        <5>2. Len(Chain(v)) \in Nat \ {0} /\ Chain(v)[1] = v
          BY <1>2, ChainFacts
        <5>3. svf.kind[Chain(v)[Len(Chain(v))]] # "dyn"
          BY <5>1 DEF Buildable
        <5> QED
          BY <2>1, <5>2, <5>3
      <4> QED
        BY <4>1, <4>2
    <3>2. /\ Len(Chain(v)) \in Nat /\ Elements(Chain(v)) \subseteq prog.values
          /\ \A k \in 1 .. Len(Chain(v)) : Chain(v)[k] \in Elements(Chain(v))
      BY <1>2, ChainFacts, SeqDomain
    <3> QED
      BY <2>1, <3>1, <3>2
  <2>2. CASE svf.kind[v] # "dyn"
    BY <1>2, <2>2
  <2> QED
    BY <2>1, <2>2
<1> HIDE DEF t, v
<1> QED
  BY <1>3, Given, AnswersIn

LEMMA InputDefStep ==
  ASSUME SvfInv, prog \in Programs, prog' = prog, InputDef PROVE SvfInv' /\ Extends(ents, ents')
<1> DEFINE t == Head(work)
           v == t.val
           from == IF svf.kind[v] = "dyn" THEN Chain(v)[2] ELSE v
           def == getOrBuildDef(v)
           s == Answers(svf.stores, from)
<1>1. /\ work # << >> /\ t.do = "in" /\ UNCHANGED left
      /\ \/ /\ Known(v)
            /\ ents' = Under(ents \o def.new, t.in, def.id)
            /\ deflist' = Append(deflist, def.id)
            /\ work' = StoreLoop(t.in, s) \o Tail(work)
            /\ UNCHANGED <<phase, trace, ids, tags, rows, valueMap>>
         \/ ~Known(v) /\ Undefined
  BY Zenon DEF InputDef, Loop, StoreLoop
<1>2. TurnOK(ents, t) /\ Len(ents) \in Nat /\ EntsOK(ents) /\ DefsOK(ents, deflist)
  BY Zenon, <1>1, SvfFacts
<1>3. t.in \in Ids(ents) /\ ents[t.in + 1].kind = "IN" /\ v \in prog.values
  BY <1>1, <1>2 DEF TurnOK
<1>4. CASE Undefined
  BY Zenon, <1>1, <1>4, SvfStill DEF Undefined
<1>5. CASE /\ Known(v)
           /\ ents' = Under(ents \o def.new, t.in, def.id)
           /\ deflist' = Append(deflist, def.id)
           /\ work' = StoreLoop(t.in, s) \o Tail(work)
           /\ UNCHANGED <<phase, trace, ids, tags, rows, valueMap>>
  <2>1. s \in Seq(StoreIds)
    <3> HIDE DEF from
    <3> QED
      BY <1>1, <1>5, InputStores DEF from
  <2> DEFINE w == StoreLoop(t.in, s)
             fs == Under(ents \o def.new, t.in, def.id)
             list == Append(deflist, def.id)
  <2>2. Turns(ents, w)
    <3> HIDE DEF s, t
    <3> QED
      BY <1>3, <2>1, StoreTurns
  <2>3. Extends(ents, fs) /\ Len(fs) \in Nat /\ ListsOK(fs, list, trace, ids, w \o Tail(work))
    <3> HIDE DEF w, t
    <3> QED
      BY <1>1, <1>3, <1>5, <2>2, DefListedUnder
  <2>4. ents' = fs /\ deflist' = list /\ trace' = trace /\ ids' = ids /\ work' = w \o Tail(work) /\ phase' = phase
    BY <1>5
  <2> HIDE DEF fs, list, w
  <2> QED
    BY Zenon, <1>1, <1>2, <2>3, <2>4, SvfAdvance
<1> QED
  BY Zenon, <1>1, <1>4, <1>5

LEMMA StoreUseStep ==
  ASSUME SvfInv, prog \in Programs, prog' = prog, StoreUse PROVE SvfInv' /\ Extends(ents, ents')
<1> DEFINE t == Head(work)
           n == Len(ents)
           e == SUse(t.val)
           es == Append(ents, e)
           fs == Under(es, t.in, n)
           s == Answers(svf.storeDefs, t.val)
           w == TargetLoop(n, s, t.path)
<1>1. /\ work # << >> /\ t.do = "store" /\ ents' = fs /\ work' = w \o Tail(work)
      /\ UNCHANGED <<phase, left, deflist, trace, ids>>
  BY DEF StoreUse, Loop, TargetLoop, nextId
<1>2. /\ TurnOK(ents, t) /\ n \in Nat /\ EntsOK(ents) /\ ListsOK(ents, deflist, trace, ids, work)
      /\ IsSeq(trace) /\ IsSeq(ids)
  BY <1>1, SvfFacts
<1>3. t.in \in Ids(ents) /\ ents[t.in + 1].kind = "IN" /\ t.val \in prog.values
  BY <1>1, <1>2 DEF TurnOK
<1> HIDE DEF t
<1>4. EntityOK(e) /\ e.kind \in UseRows /\ Elements(e.kids) = {}
  BY <1>3, NewEntities
<1> HIDE DEF e
<1>5. EntsOK(es) /\ Extends(ents, es) /\ Len(es) = n + 1 /\ es[n + 1] = e
  <2>1. \A d \in Elements(e.kids) : MayList(es, e, d)
    BY <1>4
  <2> QED
    BY <1>2, <1>4, <2>1, OneEntity
<1> HIDE DEF es
<1>6. t.in \in Ids(es) /\ MayList(es, es[t.in + 1], n)
  <2>1. t.in \in Ids(es) /\ t.in + 1 \in 1 .. Len(ents) /\ n \in Ids(es)
    BY <1>2, <1>3, <1>5 DEF Ids
  <2>2. es[t.in + 1].kind = "IN"
    BY <1>3, <1>5, <2>1 DEF Extends, SameEntity
  <2> QED
    BY <1>4, <1>5, <2>1, <2>2 DEF MayList
<1>7. EntsOK(fs) /\ Extends(es, fs) /\ Len(fs) = n + 1
  <2> HIDE DEF n
  <2> QED
    BY <1>5, <1>6, UnderKept
<1> HIDE DEF fs
<1>8. Extends(ents, fs) /\ Len(fs) \in Nat /\ n \in Ids(fs)
  <2>1. Len(es) \in Nat /\ Len(fs) \in Nat
    BY <1>2, <1>5, <1>7
  <2> QED
    BY <1>2, <1>5, <1>7, <2>1, ExtendsTwice DEF Ids
<1>9. s \in Seq(prog.values)
  BY <1>3, Given, AnswersIn
<1>10. Turns(fs, w)
  <2> HIDE DEF s, n
  <2> QED
    BY <1>8, <1>9, TargetTurns
<1> HIDE DEF w
<1>11. ListsOK(fs, deflist, trace, ids, w \o Tail(work))
  BY <1>1, <1>2, <1>7, <1>8, <1>10, ListsKept DEF ListsOK
<1> QED
  BY <1>1, <1>2, <1>8, <1>11, SvfAdvance

LEMMA UseTargetStep ==
  ASSUME SvfInv, prog \in Programs, prog' = prog, UseTarget PROVE SvfInv' /\ Extends(ents, ents')
<1> DEFINE t == Head(work)
           v == t.val
           def == getOrBuildDef(v)
           fs == Under(ents \o def.new, t.use, def.id)
           list == Append(deflist, def.id)
           w == analyzeGep(t.use, v, t.path)
<1>1. /\ work # << >> /\ t.do = "target" /\ UNCHANGED left
      /\ \/ /\ v \in svf.struct
            /\ work' = w \o Tail(work)
            /\ UNCHANGED <<phase, ents, deflist, trace, ids, tags, rows, valueMap>>
         \/ /\ v \notin svf.struct /\ Known(v)
            /\ ents' = fs
            /\ deflist' = list
            /\ work' = Tail(work)
            /\ UNCHANGED <<phase, trace, ids, tags, rows, valueMap>>
         \/ v \notin svf.struct /\ ~Known(v) /\ Undefined
  BY DEF UseTarget
<1>2. /\ TurnOK(ents, t) /\ Len(ents) \in Nat /\ EntsOK(ents) /\ ListsOK(ents, deflist, trace, ids, work)
      /\ IsSeq(trace) /\ IsSeq(ids) /\ DefsOK(ents, deflist) /\ Extends(ents, ents)
  BY <1>1, SvfFacts
<1>3. t.use \in Ids(ents) /\ v \in prog.values
  BY <1>1, <1>2 DEF TurnOK
<1>4. CASE /\ v \in svf.struct
           /\ work' = w \o Tail(work)
           /\ UNCHANGED <<phase, ents, deflist, trace, ids, tags, rows, valueMap>>
  <2>1. Turns(ents, w)
    <3> HIDE DEF t
    <3> QED
      BY <1>3, <1>4, PathTurns
  <2> HIDE DEF w
  <2>2. Turns(ents, w \o Tail(work))
    BY <1>1, <1>2, <2>1, ListsKept
  <2>3. ListsOK(ents, deflist, trace, ids, w \o Tail(work))
    BY <1>2, <2>2 DEF ListsOK
  <2> QED
    BY <1>1, <1>2, <1>4, <2>3, SvfAdvance
<1>5. CASE /\ v \notin svf.struct /\ Known(v)
           /\ ents' = fs
           /\ deflist' = list
           /\ work' = Tail(work)
           /\ UNCHANGED <<phase, trace, ids, tags, rows, valueMap>>
  <2>1. Extends(ents, fs) /\ Len(fs) \in Nat /\ ListsOK(fs, list, trace, ids, Tail(work))
    <3>1. Turns(ents, << >>)
      BY NoTurns
    <3> HIDE DEF t
    <3> QED
      BY <1>1, <1>3, <1>5, <3>1, DefListedUnder
  <2> HIDE DEF fs, list
  <2> QED
    BY <1>1, <1>2, <1>5, <2>1, SvfAdvance
<1>6. CASE Undefined
  BY <1>1, <1>6, SvfStill DEF Undefined
<1> QED
  BY <1>1, <1>4, <1>5, <1>6

\* The field that a path selects: listed already, or made.
Missing(v, path) == FieldsOf(v, Selected(v, path)) = << >>
PathFields(v, path) == IF Missing(v, path) THEN <<Len(ents)>> ELSE FieldsOf(v, Selected(v, path))
PathEnts(v, path) == IF Missing(v, path) THEN Append(ents, NewField(v, Selected(v, path))) ELSE ents
PathList(v, path) == IF Missing(v, path) THEN Append(deflist, Len(ents)) ELSE deflist

LEMMA FieldFacts ==
  ASSUME SvfInv, NEW v, NEW path, FieldOK(v, path)
  PROVE  LET es == PathEnts(v, path)
             fields == PathFields(v, path)
         IN /\ EntsOK(es) /\ Extends(ents, es) /\ Len(es) \in Nat /\ DefsOK(es, PathList(v, path))
            /\ IsSeq(fields) /\ \A d \in Elements(fields) : d \in Ids(es) /\ es[d + 1].kind \in DefRows
            /\ NewDefs(ents, es)
<1> DEFINE found == FieldsOf(v, Selected(v, path))
           es == PathEnts(v, path)
           fields == PathFields(v, path)
           list == PathList(v, path)
<1>f. /\ found # << >> => fields = found /\ es = ents /\ list = deflist
      /\ found = << >> => /\ fields = <<Len(ents)>> /\ list = Append(deflist, Len(ents))
                          /\ es = Append(ents, NewField(v, Selected(v, path)))
  BY DEF PathFields, PathEnts, PathList, Missing
<1>d. found = FieldsOf(v, Selected(v, path))
  OBVIOUS
<1> HIDE DEF found, es, fields, list
<1> SUFFICES /\ EntsOK(es) /\ Extends(ents, es) /\ Len(es) \in Nat /\ DefsOK(es, list)
             /\ IsSeq(fields) /\ \A d \in Elements(fields) : d \in Ids(es) /\ es[d + 1].kind \in DefRows
             /\ NewDefs(ents, es)
  BY DEF es, fields, list
<1>0. EntsOK(ents) /\ DefsOK(ents, deflist) /\ IsSeq(deflist) /\ Len(ents) \in Nat /\ Extends(ents, ents)
  BY SvfFacts
<1>1. CASE found # << >>
  <2>1. fields = found /\ es = ents /\ list = deflist
    BY <1>1, <1>f
  <2>2. IsSeq(found) /\ Elements(found) \subseteq Elements(deflist)
    <3> DEFINE f == Selected(v, path)
               K == {k \in DOMAIN deflist :
                       LET e == Ent(deflist[k]) IN
                         e.kind = "SDEF" /\ e.val = v /\ e.type = f.type /\ e.offset = f.offset}
    <3>1. found = Kept(deflist, K)
      BY <1>d DEF FieldsOf
    <3> HIDE DEF K
    <3>2. IsSeq(found) /\ Elements(found) = {deflist[k] : k \in K \cap DOMAIN deflist}
      BY <1>0, <3>1, KeptFacts
    <3> QED
      BY <3>2 DEF Elements
  <2> QED
    BY <1>0, <2>1, <2>2 DEF DefsOK, NewDefs
<1>2. CASE found = << >>
  <2> DEFINE n == Len(ents)
             f == Selected(v, path)
             e == NewField(v, f)
  <2>1. fields = <<n>> /\ es = Append(ents, e) /\ list = Append(deflist, n)
    BY <1>2, <1>f
  <2>2. EntityOK(e) /\ e.kind = "SDEF" /\ Elements(e.kids) = {}
    <3> DEFINE type == IF f.type = svf.type[v] THEN svf.fields[f.type][1] ELSE f.type
               none == << >>
    <3>0. IsSeq(none) /\ Elements(none) = {}
      BY EmptyList
    <3>1. e = Entity("SDEF", v, {}, type, f.offset, none)
      BY DEF NewField, SDef
    <3> HIDE DEF type, none
    <3>2. /\ IsEntity(e) /\ e.kind = "SDEF" /\ e.val = v /\ e.nodes = {} /\ e.type = type
          /\ e.offset = f.offset /\ e.kids = none
      BY <3>1 DEF Entity, IsEntity
    <3>3. v \in prog.values /\ e.offset \in Nat /\ svf.size[e.type] \in Nat
      BY DEF FieldOK
    <3> HIDE DEF e
    <3>4. \A u : u \notin e.nodes
      BY <3>2
    <3>5. e.kind \in DefRows /\ e.kind \notin DefRows \ {"SDEF"} /\ IsSeq(e.kids)
      BY <3>0, <3>2 DEF DefRows
    <3>6. EntityOK(e)
      BY <3>2, <3>3, <3>4, <3>5, Zenon DEF EntityOK
    <3> QED
      BY <3>0, <3>2, <3>6
  <2> HIDE DEF e
  <2>3. EntsOK(es) /\ Extends(ents, es) /\ Len(es) = n + 1 /\ es[n + 1] = e
    <3>1. \A d \in Elements(e.kids) : MayList(es, e, d)
      BY <2>2
    <3> QED
      BY <1>0, <2>1, <2>2, <3>1, OneEntity
  <2>4. Len(es) \in Nat /\ n \in Ids(es) /\ es[n + 1].kind = "SDEF" /\ es[n + 1].kind \in DefRows
    BY <1>0, <2>2, <2>3 DEF Ids, DefRows
  <2>5. IsSeq(fields) /\ Elements(fields) = {n}
    <3> HIDE DEF n
    <3> QED
      BY <2>1, Single
  <2>6. IsSeq(list) /\ Elements(list) = Elements(deflist) \cup {n}
    <3> HIDE DEF n
    <3> QED
      BY <1>0, <2>1, OneMore
  <2>7. DefsOK(es, deflist)
    BY <1>0, <2>3, <2>4, DefsKept
  <2> HIDE DEF n
  <2>8. DefsOK(es, list)
    <3>1. \A d \in Elements(list) : d \in Ids(es) /\ es[d + 1].kind \in DefRows
      BY <2>4, <2>6, <2>7 DEF DefsOK
    <3>2. ASSUME NEW c \in Elements(list), NEW d \in Elements(list), es[c + 1].kind # "SDEF",
                 es[d + 1].kind # "SDEF", es[c + 1].val = es[d + 1].val
          PROVE  c = d
      <4>1. c # n /\ d # n
        BY <2>4, <3>2
      <4>2. c \in Elements(deflist) /\ d \in Elements(deflist)
        BY <2>6, <4>1
      <4> QED
        BY <2>7, <3>2, <4>2 DEF DefsOK
    <3> QED
      BY <2>6, <3>1, <3>2 DEF DefsOK
  <2>9. NewDefs(ents, es)
    <3>1. Ids(es) \ Ids(ents) \subseteq {n}
      BY <1>0, <2>3 DEF Ids, n
    <3> QED
      BY <2>4, <3>1 DEF NewDefs
  <2> QED
    BY <2>3, <2>4, <2>5, <2>8, <2>9
<1> QED
  BY <1>1, <1>2

LEMMA TargetsKept ==
  ASSUME NEW es, EntsOK(es), Len(es) \in Nat, NEW u \in Ids(es) \cup {-1}, NEW s, IsSeq(s),
         \A d \in Elements(s) : d \in Ids(es) /\ es[d + 1].kind \in DefRows,
         NEW fs, fs = Targets(es, u, s)
  PROVE  EntsOK(fs) /\ Extends(es, fs) /\ Len(fs) = Len(es)
<1>1. CASE u = -1
  BY <1>1, ExtendsSelf DEF Targets
<1>2. CASE u # -1
  <2>1. fs = Listing(es, u + 1, s)
    BY <1>2 DEF Targets, Listing
  <2>2. \A d \in Elements(s) : MayList(es, es[u + 1], d)
    BY DefListed
  <2> QED
    BY <2>1, <2>2, EntsListing
<1> QED
  BY <1>1, <1>2

LEMMA GepPathStep ==
  ASSUME SvfInv, prog' = prog, GepPath PROVE SvfInv' /\ Extends(ents, ents')
<1> DEFINE t == Head(work)
           fields == PathFields(t.val, t.path)
           es == PathEnts(t.val, t.path)
           list == PathList(t.val, t.path)
           fs == Targets(es, t.use, fields)
           is == ids \o fields
<1>1. /\ work # << >> /\ t.do = "path" /\ ents' = fs /\ deflist' = list /\ ids' = is
      /\ work' = Tail(work) /\ UNCHANGED <<phase, left, trace>>
  BY DEF GepPath, nextId, PathFields, PathEnts, PathList, Missing
<1>2. /\ TurnOK(ents, t) /\ Len(ents) \in Nat /\ EntsOK(ents) /\ ListsOK(ents, deflist, trace, ids, work)
      /\ IsSeq(trace) /\ IsSeq(ids) /\ Elements(ids) \subseteq Ids(ents)
  BY <1>1, SvfFacts
<1>3. t.use \in Ids(ents) \cup {-1} /\ FieldOK(t.val, t.path)
  BY <1>1, <1>2 DEF TurnOK
<1>4. /\ EntsOK(es) /\ Extends(ents, es) /\ Len(es) \in Nat /\ DefsOK(es, list)
      /\ IsSeq(fields) /\ \A d \in Elements(fields) : d \in Ids(es) /\ es[d + 1].kind \in DefRows
  <2> HIDE DEF t
  <2> QED
    BY <1>3, FieldFacts
<1> HIDE DEF fields, es, list
<1>5. t.use \in Ids(es) \cup {-1}
  BY <1>2, <1>3, <1>4 DEF Ids, Extends
<1>6. EntsOK(fs) /\ Extends(es, fs) /\ Len(fs) = Len(es)
  <2> HIDE DEF t
  <2> QED
    BY <1>4, <1>5, TargetsKept
<1> HIDE DEF fs
<1>7. Extends(ents, fs) /\ Len(fs) \in Nat /\ DefsOK(fs, list)
  BY <1>2, <1>4, <1>6, ExtendsTwice, DefsKept
<1>8. IsSeq(is) /\ Elements(is) \subseteq Ids(fs)
  <2>1. IsSeq(is) /\ Elements(is) = Elements(ids) \cup Elements(fields)
    BY <1>2, <1>4, Joined
  <2>2. Elements(ids) \subseteq Ids(fs)
    BY <1>2, <1>6, <1>7, ListsKept
  <2>3. Ids(fs) = Ids(es)
    BY <1>6 DEF Ids
  <2> QED
    BY <1>4, <2>1, <2>2, <2>3
<1> HIDE DEF is
<1>9. ListsOK(fs, list, trace, is, Tail(work))
  BY <1>1, <1>2, <1>6, <1>7, <1>8, ListsKept DEF ListsOK
<1> QED
  BY <1>1, <1>2, <1>7, <1>9, SvfAdvance

\* A turn that makes no entity: what it leaves and what it puts into ids.
LEMMA SameEntities ==
  ASSUME SvfInv, prog' = prog, UNCHANGED <<ents, deflist, trace>>, Turns(ents, work'),
         IsSeq(ids'), Elements(ids') \subseteq Ids(ents),
         left' \subseteq left, phase' \in {phase, "undefined"}
  PROVE  SvfInv' /\ Extends(ents, ents')
<1>1. ListsOK(ents, deflist, trace, ids', work') /\ Extends(ents, ents) /\ Len(ents) \in Nat
  BY SvfFacts DEF ListsOK
<1> QED
  BY <1>1, SvfAdvance

LEMMA RefSiteStep ==
  ASSUME SvfInv, prog' = prog, RefSite PROVE SvfInv' /\ Extends(ents, ents')
<1>1. PICK c \in left :
        /\ left' = left \ {c}
        /\ work' = Loop(Kept([k \in DOMAIN c.args |-> k],
                             {k \in DOMAIN c.args : k \in Pointers(c.callee) /\ c.args[k] # Null}),
                        LAMBDA k : RefTurn(c, k))
  BY DEF RefSite
<1> DEFINE K == {k \in DOMAIN c.args : k \in Pointers(c.callee) /\ c.args[k] # Null}
<1>2. c.op = "call" /\ CallOK(c) /\ UNCHANGED <<phase, ents, deflist, trace, ids>>
  BY <1>1 DEF RefSite, SvfInv, LeftOK
<1>3. work' = RefLoop(c, Kept([k \in DOMAIN c.args |-> k], K))
  BY <1>1 DEF Loop, RefLoop
<1>4. K \subseteq DOMAIN c.args
  OBVIOUS
<1> HIDE DEF K
<1>5. Turns(ents, work')
  BY <1>2, <1>3, <1>4, RefTurns
<1> QED
  BY <1>1, <1>2, <1>5, SvfFacts, SameEntities

LEMMA RefParamStep ==
  ASSUME SvfInv, prog \in Programs, prog' = prog, RefParam PROVE SvfInv' /\ Extends(ents, ents')
<1> DEFINE t == Head(work)
           c == t.call
           k == t.param
           defs == Answers(svf.defs, c.args[k])
           usable == {j \in DOMAIN defs : /\ defs[j] \notin svf.dominators
                                          /\ \/ defs[j] \in svf.struct \/ Known(defs[j])
                                             \/ svf.kind[defs[j]] = "dyn"}
           v == defs[Min(usable)]
           def == getOrBuildDef(v)
           w == analyzeGep(-1, v, c.args[k])
<1>1. /\ work # << >> /\ t.do = "ref" /\ UNCHANGED left
      /\ \/ work' = Tail(work) /\ UNCHANGED <<phase, ents, deflist, trace, ids>>
         \/ /\ usable # {} /\ v \in svf.struct
            /\ work' = w \o <<RefIdTurn(c, k)>> \o Tail(work)
            /\ ids' = << >>
            /\ UNCHANGED <<phase, ents, deflist, trace>>
         \/ Undefined
         \/ /\ usable # {} /\ (IF v \in svf.struct THEN get_def_id(v) # -1 ELSE Known(v))
            /\ ents' = ents \o def.new
            /\ trace' = IF def.new = << >> THEN trace ELSE Append(trace, def.id)
            /\ deflist' = IF def.new = << >> THEN deflist ELSE Append(deflist, def.id)
            /\ work' = Tail(work)
            /\ UNCHANGED <<phase, ids>>
  BY Zenon DEF RefParam
<1>2. /\ TurnOK(ents, t) /\ Len(ents) \in Nat /\ EntsOK(ents) /\ DefsOK(ents, deflist)
      /\ ListsOK(ents, deflist, trace, ids, work) /\ IsSeq(deflist)
      /\ IsSeq(trace) /\ IsSeq(ids) /\ Elements(ids) \subseteq Ids(ents)
      /\ Turns(ents, Tail(work)) /\ Turns(ents, work)
  BY Zenon, <1>1, SvfFacts
<1>3. c.id \in prog.values /\ defs \in Seq(prog.values)
  BY Zenon, <1>1, <1>2 DEF TurnOK, DefsOf
<1>4. usable # {} => v \in prog.values
  <2>1. usable \subseteq DOMAIN defs /\ DOMAIN defs \subseteq Nat /\ \A j \in DOMAIN defs : defs[j] \in prog.values
    <3>1. usable \subseteq DOMAIN defs
      OBVIOUS
    <3>2. DOMAIN defs \subseteq Nat /\ \A j \in DOMAIN defs : defs[j] \in prog.values
      <4> HIDE DEF defs
      <4> QED
        BY <1>3
    <3> QED
      BY <3>1, <3>2
  <2> HIDE DEF usable, defs
  <2> QED
    BY <2>1, MinIsLeast
<1>5. CASE work' = Tail(work) /\ UNCHANGED <<phase, ents, deflist, trace, ids>>
  BY <1>1, <1>2, <1>5, SameEntities
<1>6. CASE /\ usable # {} /\ v \in svf.struct
           /\ work' = w \o <<RefIdTurn(c, k)>> \o Tail(work)
           /\ ids' = << >>
           /\ UNCHANGED <<phase, ents, deflist, trace>>
  <2> DEFINE r == <<RefIdTurn(c, k)>>
  <2>1. Turns(ents, w)
    <3> HIDE DEF v, c, k
    <3> QED
      BY <1>4, <1>6, PathTurns
  <2>2. Turns(ents, r)
    <3>1. TurnOK(ents, RefIdTurn(c, k))
      <4> HIDE DEF c, k
      <4> QED
        BY <1>3 DEF TurnOK, RefIdTurn
    <3> QED
      BY <3>1, OneTurn
  <2> HIDE DEF w, r
  <2>3. work' = (w \o r) \o Tail(work)
    BY Zenon, <1>6 DEF r
  <2>4. Turns(ents, work')
    <3>1. Turns(ents, w \o r)
      BY <2>1, <2>2, TurnsBoth
    <3> QED
      BY <1>2, <2>3, <3>1, TurnsBoth
  <2>5. IsSeq(ids') /\ Elements(ids') \subseteq Ids(ents)
    BY Zenon, <1>6, EmptyList
  <2> QED
    BY Zenon, <1>1, <1>6, <2>4, <2>5, SameEntities
<1>7. CASE Undefined
  BY <1>1, <1>7, SvfStill DEF Undefined
<1>8. CASE /\ usable # {} /\ (IF v \in svf.struct THEN get_def_id(v) # -1 ELSE Known(v))
           /\ ents' = ents \o def.new
           /\ trace' = IF def.new = << >> THEN trace ELSE Append(trace, def.id)
           /\ deflist' = IF def.new = << >> THEN deflist ELSE Append(deflist, def.id)
           /\ work' = Tail(work)
           /\ UNCHANGED <<phase, ids>>
  <2>1. Known(v) /\ v \in prog.values
    BY Zenon, <1>4, <1>8 DEF Known
  <2> DEFINE d == def.id
             new == def.new
             es == ents \o new
             list == Append(deflist, d)
  <2>2. /\ EntsOK(es) /\ Extends(ents, es) /\ Len(es) \in Nat /\ d \in Ids(es)
        /\ DefsOK(es, list)
    <3> HIDE DEF v
    <3> QED
      BY <1>2, <2>1, DefFacts DEF Answered
  <2>3. /\ ents' = es /\ UNCHANGED <<phase, ids>> /\ work' = Tail(work)
        /\ trace' = (IF new = << >> THEN trace ELSE Append(trace, d))
        /\ deflist' = (IF new = << >> THEN deflist ELSE list)
    BY Zenon, <1>8
  <2> HIDE DEF d, new, es
  <2>4. /\ DefsOK(es, deflist) /\ Elements(trace) \subseteq Ids(es) /\ Elements(ids) \subseteq Ids(es)
        /\ Turns(es, Tail(work))
    BY Zenon, <1>1, <1>2, <2>2, ListsKept
  <2>5. DefsOK(es, deflist')
    BY <2>2, <2>3, <2>4
  <2>6. IsSeq(trace') /\ Elements(trace') \subseteq Ids(es)
    <3>1. CASE new = << >>
      BY <1>2, <2>3, <2>4, <3>1
    <3>2. CASE new # << >>
      <4>1. IsSeq(trace') /\ Elements(trace') = Elements(trace) \cup {d}
        <5>1. trace' = Append(trace, d)
          BY <2>3, <3>2
        <5> QED
          BY <1>2, <5>1, OneMore
      <4> QED
        BY <2>2, <2>4, <4>1
    <3> QED
      BY <3>1, <3>2
  <2>7. ListsOK(es, deflist', trace', ids', work')
    BY <1>2, <2>2, <2>3, <2>4, <2>5, <2>6 DEF ListsOK
  <2> QED
    BY Zenon, <1>1, <1>2, <2>2, <2>3, <2>7, SvfAdvance
<1> QED
  BY Zenon, <1>1, <1>5, <1>6, <1>7, <1>8

LEMMA RefFieldStep ==
  ASSUME SvfInv, prog' = prog, RefField PROVE SvfInv' /\ Extends(ents, ents')
<1>1. /\ work # << >> /\ UNCHANGED left
      /\ \/ work' = Tail(work) /\ UNCHANGED <<phase, ents, deflist, trace, ids>>
         \/ Undefined
  BY DEF RefField
<1>2. CASE Undefined
  BY <1>1, <1>2, SvfStill DEF Undefined
<1>3. CASE work' = Tail(work) /\ UNCHANGED <<phase, ents, deflist, trace, ids>>
  BY <1>1, <1>3, SvfFacts, SameEntities
<1> QED
  BY <1>1, <1>2, <1>3

LEMMA IntToPtrStep ==
  ASSUME SvfInv, prog \in Programs, prog' = prog, IntToPtr PROVE SvfInv' /\ Extends(ents, ents')
<1>1. PICK pair \in left :
        /\ left' = left \ {pair}
        /\ work' = IF Matches(pair)
                     THEN Loop(Answers(svf.stores, pair[1]), LAMBDA s : StoreTurn(pair[2], s, pair[1]))
                     ELSE << >>
  BY DEF IntToPtr
<1>2. /\ pair[1] \in prog.values /\ pair[2] \in Ids(ents)
      /\ UNCHANGED <<phase, ents, deflist, trace, ids>>
  BY DEF IntToPtr, SvfInv, LeftOK
<1> DEFINE s == Answers(svf.stores, pair[1])
<1>3. s \in Seq(StoreIds)
  BY <1>2, Given, AnswersIn
<1>4. Turns(ents, work')
  <2>1. CASE Matches(pair)
    <3>1. work' = PointerLoop(pair[2], s, pair[1])
      BY <1>1, <2>1 DEF Loop, PointerLoop
    <3>2. ents[pair[2] + 1].kind = "IN"
      BY <2>1 DEF Matches, Ent
    <3> HIDE DEF s
    <3> QED
      BY <1>2, <1>3, <3>1, <3>2, PointerTurns
  <2>2. CASE ~Matches(pair)
    BY <1>1, <2>2, NoTurns
  <2> QED
    BY <2>1, <2>2
<1> QED
  BY <1>1, <1>2, <1>4, SvfFacts, SameEntities

LEMMA IndirectUseStep ==
  ASSUME SvfInv, prog \in Programs, prog' = prog, IndirectUse PROVE SvfInv' /\ Extends(ents, ents')
<1>1. PICK u \in left :
        LET dom == findFirstDominator(Ent(u).val) IN
        /\ left' = left \ {u}
        /\ \/ UNCHANGED <<phase, svfVars>>
           \/ /\ dom # Null /\ dom \in svf.struct
              /\ work' = analyzeGep(-1, dom, Ent(u).val) \o <<IuseTurn(u, dom)>>
              /\ ids' = << >>
              /\ UNCHANGED <<phase, ents, deflist, trace, tags, rows, valueMap>>
           \/ /\ dom # Null /\ get_def_id(dom) # -1
              /\ work' = <<IuseTurn(u, dom)>>
              /\ ids' = <<get_def_id(dom)>>
              /\ UNCHANGED <<phase, ents, deflist, trace, tags, rows, valueMap>>
           \/ Undefined
  BY DEF IndirectUse
<1> DEFINE dom == findFirstDominator(Ent(u).val)
           w == analyzeGep(-1, dom, Ent(u).val)
           i == <<IuseTurn(u, dom)>>
<1>0. EntsOK(ents) /\ DefsOK(ents, deflist) /\ Len(ents) \in Nat
  BY SvfFacts
<1>2. u \in Ids(ents) /\ Ent(u).val \in prog.values /\ dom \in prog.values \cup {Null}
  <2>1. u \in Ids(ents)
    BY DEF IndirectUse, SvfInv, LeftOK
  <2>2. u + 1 \in 1 .. Len(ents)
    BY <1>0, <2>1, InIds
  <2>3. Ent(u).val \in prog.values
    BY <1>0, <2>2 DEF EntsOK, EntityOK, Ent
  <2> QED
    BY <2>1, <2>3, Given
<1>3. ASSUME dom # Null PROVE Turns(ents, i)
  <2>1. dom \in prog.values /\ dom = findFirstDominator(ents[u + 1].val)
    BY <1>2, <1>3 DEF Ent
  <2>2. TurnOK(ents, IuseTurn(u, dom))
    <3> HIDE DEF dom
    <3> QED
      BY <1>2, <2>1 DEF TurnOK, IuseTurn
  <2> QED
    BY <2>2, OneTurn
<1>4. CASE UNCHANGED <<phase, svfVars>>
  BY <1>1, <1>4, SvfStill
<1>5. CASE /\ dom # Null /\ dom \in svf.struct
           /\ work' = w \o i
           /\ ids' = << >>
           /\ UNCHANGED <<phase, ents, deflist, trace, tags, rows, valueMap>>
  <2>1. Turns(ents, w)
    <3>1. dom \in prog.values
      BY <1>2, <1>5
    <3> HIDE DEF dom
    <3> QED
      BY <1>5, <3>1, PathTurns
  <2> HIDE DEF w, i
  <2>2. Turns(ents, work')
    BY <1>3, <1>5, <2>1, TurnsBoth
  <2>3. IsSeq(ids') /\ Elements(ids') \subseteq Ids(ents)
    BY <1>5, EmptyList
  <2> QED
    BY <1>1, <1>5, <2>2, <2>3, SameEntities
<1>6. CASE /\ dom # Null /\ get_def_id(dom) # -1
           /\ work' = i
           /\ ids' = <<get_def_id(dom)>>
           /\ UNCHANGED <<phase, ents, deflist, trace, tags, rows, valueMap>>
  <2> DEFINE d == get_def_id(dom)
  <2>1. d \in Ids(ents)
    <3>1. d \in Elements(deflist)
      BY <1>0, <1>6, FoundFacts
    <3> QED
      BY <1>0, <3>1 DEF DefsOK
  <2> HIDE DEF d, i
  <2>2. IsSeq(ids') /\ Elements(ids') = {d}
    <3>1. ids' = <<d>>
      BY <1>6 DEF d
    <3> QED
      BY <3>1, Single
  <2> QED
    BY <1>1, <1>3, <1>6, <2>1, <2>2, SameEntities
<1>7. CASE Undefined
  BY <1>1, <1>7, SvfStill DEF Undefined
<1> QED
  BY <1>1, <1>4, <1>5, <1>6, <1>7

LEMMA IndirectParamStep ==
  ASSUME SvfInv, prog' = prog, IndirectParam PROVE SvfInv' /\ Extends(ents, ents')
<1>1. work # << >> /\ work' = Tail(work) /\ UNCHANGED <<phase, left, ents, deflist, trace, ids>>
  BY Zenon DEF IndirectParam
<1> QED
  BY <1>1, SvfFacts, SameEntities

\* Where a part ends and the next has no set to visit.
LEMMA SvfMoved ==
  ASSUME SvfInv, prog' = prog, UNCHANGED <<ents, deflist, trace, ids>>, Turns(ents, work'),
         phase' \notin {"sites", "refs", "inttoptr", "iuses"}
  PROVE  SvfInv' /\ Extends(ents, ents')
<1>1. ListsOK(ents', deflist', trace', ids', work')
  BY SvfFacts DEF ListsOK
<1>2. ListsOK(ents, deflist, trace, ids, work)'
  BY <1>1, Primed DEF ListsOK
<1>3. LeftOK(ents)'
  BY DEF LeftOK
<1> QED
  BY <1>2, <1>3, SvfFacts DEF SvfInv

RowLoop(s, f, m) == [k \in DOMAIN s |-> RowTurn(s[k], f, m)]

LEMMA RowTurns ==
  ASSUME NEW es, NEW s, IsSeq(s), Elements(s) \subseteq Ids(es), NEW f, NEW m
  PROVE  Turns(es, RowLoop(s, f, m))
<1> DEFINE w == RowLoop(s, f, m)
<1>1. w = [k \in DOMAIN s |-> RowTurn(s[k], f, m)]
  BY DEF RowLoop
<1>2. \A k \in DOMAIN s : s[k] \in Ids(es)
  BY DEF Elements
<1> HIDE DEF w
<1>3. DOMAIN w = DOMAIN s /\ w = [k \in DOMAIN s |-> w[k]]
  BY <1>1
<1>4. ASSUME NEW k \in DOMAIN s PROVE TurnOK(es, w[k])
  <2>1. w[k] = RowTurn(s[k], f, m)
    BY <1>1
  <2> QED
    BY <1>2, <2>1 DEF RowTurn, TurnOK
<1> QED
  BY <1>3, <1>4, TurnsOf DEF w

LEMMA StartExportStep ==
  ASSUME SvfInv, prog' = prog, StartExport PROVE SvfInv' /\ Extends(ents, ents')
<1>1. /\ work' = RowLoop(trace, -1, TRUE) /\ phase' = "export"
      /\ UNCHANGED <<ents, deflist, trace, ids>>
  BY DEF StartExport, Loop, RowLoop
<1>2. Turns(ents, work')
  BY <1>1, SvfFacts, RowTurns
<1> QED
  BY <1>1, <1>2, SvfMoved

\* Only rows wait while the trace is exported.
RowsOnly == phase = "export" => \A t \in Elements(work) : t.do = "row"

LEMMA ExportOnly ==
  ASSUME SvfInv, RowsOnly, phase = "export", SvfNext
  PROVE  /\ ExportRow \/ TagValues
         /\ work # << >> => Head(work) \in Elements(work) /\ Head(work).do = "row"
<1>1. work # << >> => Head(work) \in Elements(work) /\ Head(work).do = "row"
  BY SvfFacts, HeadTail DEF Turns, RowsOnly
<1>2. ~InputSite /\ ~LibSite /\ ~InputDef /\ ~StoreUse /\ ~UseTarget /\ ~GepPath /\ ~RefSite
  BY Zenon, <1>1 DEF InputSite, LibSite, InputDef, StoreUse, UseTarget, GepPath, RefSite
<1>3. ~RefParam /\ ~RefField /\ ~IntToPtr /\ ~IndirectUse /\ ~IndirectParam /\ ~StartExport
  BY Zenon, <1>1 DEF RefParam, RefField, IntToPtr, IndirectUse, IndirectParam, StartExport
<1> QED
  BY <1>1, <1>2, <1>3 DEF SvfNext

LEMMA ExportRowStep ==
  ASSUME SvfInv, RowsOnly, prog' = prog, ExportRow PROVE SvfInv' /\ Extends(ents, ents')
<1> DEFINE t == Head(work)
           s == Ent(t.id).kids
           m == Ent(t.id).kind # "DDEF"
<1>1. /\ phase = "export" /\ work # << >> /\ work' = RowLoop(s, t.id, m) \o Tail(work)
      /\ UNCHANGED <<phase, left, ents, deflist, trace, ids>>
  BY DEF ExportRow, Loop, RowLoop
<1>2. TurnOK(ents, t) /\ EntsOK(ents) /\ Len(ents) \in Nat /\ Turns(ents, Tail(work))
  BY <1>1, SvfFacts
<1>3. t.id \in Ids(ents) /\ t.id + 1 \in 1 .. Len(ents)
  <2>1. t.do = "row"
    BY <1>1, ExportOnly DEF SvfNext
  <2> QED
    BY <1>2, <2>1, InIds DEF TurnOK
<1>4. IsSeq(s) /\ Elements(s) \subseteq Ids(ents)
  BY <1>2, <1>3 DEF EntsOK, EntityOK, MayList, Ent
<1>5. Turns(ents, work')
  <2> HIDE DEF s, m
  <2> QED
    BY <1>1, <1>2, <1>4, RowTurns, TurnsBoth
<1> QED
  BY <1>1, <1>5, SvfMoved

LEMMA TagValuesStep ==
  ASSUME SvfInv, prog' = prog, TagValues PROVE SvfInv' /\ Extends(ents, ents')
<1>1. phase' = "z_loops" /\ UNCHANGED <<ents, deflist, trace, ids, work>>
  BY DEF TagValues
<1> QED
  BY <1>1, SvfFacts, SvfMoved

LEMMA RowsOnlyStep ==
  ASSUME SvfInv, RowsOnly, [Next]_vars PROVE RowsOnly'
<1>1. CASE phase' # "export"
  BY <1>1 DEF RowsOnly
<1>2. CASE phase' = "export"
  <2>1. CASE PassNext
    BY <1>2, <2>1 DEF PassNext, InputWrapper, instrumentFunction, instrumentCalls, removeFunction
  <2>2. CASE NextPart
    BY <1>2, <2>2, PartSteps
  <2>3. CASE ZbNext
    BY <1>2, <2>3, ZbSteps DEF InsertSteps, PassRefs
  <2>4. CASE UNCHANGED vars
    BY <2>4 DEF vars, svfVars, RowsOnly
  <2>5. CASE SvfNext /\ phase = "export"
    <3>1. CASE ExportRow
      <4> DEFINE t == Head(work)
                 s == Ent(t.id).kids
                 m == Ent(t.id).kind # "DDEF"
                 w == RowLoop(s, t.id, m)
      <4>1. work # << >> /\ work' = w \o Tail(work) /\ phase = "export"
        BY <3>1 DEF ExportRow, Loop, RowLoop
      <4>2. IsSeq(w) /\ \A x \in Elements(w) : x.do = "row"
        <5>1. IsSeq(s)
          <6>1. t.id + 1 \in 1 .. Len(ents)
            BY <2>5, <4>1, ExportOnly, SvfFacts, InIds DEF TurnOK
          <6> QED
            BY <6>1, SvfFacts DEF EntsOK, EntityOK, Ent
        <5>2. w = [k \in DOMAIN s |-> RowTurn(s[k], t.id, m)]
          BY DEF RowLoop
        <5> HIDE DEF s, t, m, w
        <5>3. DOMAIN w = DOMAIN s /\ w = [k \in DOMAIN s |-> w[k]]
          BY <5>2
        <5>4. IsSeq(w) /\ Elements(w) = {w[k] : k \in DOMAIN s}
          BY <5>1, <5>3, LoopList
        <5>5. \A k \in DOMAIN s : w[k].do = "row"
          BY <5>2 DEF RowTurn
        <5> QED
          BY <5>4, <5>5
      <4> HIDE DEF w
      <4>3. IsSeq(Tail(work)) /\ Elements(Tail(work)) \subseteq Elements(work)
        BY <4>1, SvfFacts, HeadTail DEF Turns
      <4>4. Elements(work') = Elements(w) \cup Elements(Tail(work))
        BY <4>1, <4>2, <4>3, Joined
      <4> QED
        BY <4>1, <4>2, <4>3, <4>4 DEF RowsOnly
    <3>2. CASE TagValues
      BY <1>2, <3>2 DEF TagValues
    <3> QED
      BY <2>5, <3>1, <3>2, ExportOnly
  <2>6. CASE SvfNext /\ phase # "export"
    <3>1. phase = "iuses"
      BY <1>2, <2>6, SvfSteps
    <3>2. StartExport
      <4>1. ~InputSite /\ ~LibSite /\ ~InputDef /\ ~StoreUse /\ ~UseTarget /\ ~GepPath /\ ~RefSite
        BY Zenon, <1>2, <2>6 DEF InputSite, LibSite, InputDef, StoreUse, UseTarget, GepPath, RefSite, Undefined
      <4>2. ~RefParam /\ ~RefField /\ ~IntToPtr /\ ~IndirectUse /\ ~IndirectParam
        BY Zenon, <1>2, <2>6 DEF RefParam, RefField, IntToPtr, IndirectUse, IndirectParam, Undefined, svfVars
      <4>3. ~ExportRow /\ ~TagValues
        BY <1>2, <2>6 DEF ExportRow, TagValues
      <4> QED
        BY <2>6, <4>1, <4>2, <4>3 DEF SvfNext
    <3>3. work' = RowLoop(trace, -1, TRUE)
      BY <3>2 DEF StartExport, Loop, RowLoop
    <3>4. \A k \in DOMAIN work' : work'[k].do = "row"
      BY <3>3 DEF RowLoop, RowTurn
    <3> QED
      BY <3>4 DEF RowsOnly, Elements
  <2> QED
    BY <2>1, <2>2, <2>3, <2>4, <2>5, <2>6 DEF Next
<1> QED
  BY <1>1, <1>2

-----------------------------------------------------------------------------
(* The invariant of svf-ex over the whole tool chain. *)

LEMMA WrappedStep ==
  ASSUME ModuleInv, Idle, Wrapped, [Next]_vars PROVE Wrapped'
<1>1. prog' = prog
  BY DEF Next, vars
<1>2. ScanfsOK' = ScanfsOK
  BY <1>1 DEF ScanfsOK, Inputs
<1>3. CASE InputWrapper /\ phase' # "undefined"
  <2>1. code = prog.code
    BY <1>3 DEF InputWrapper, ModuleInv
  <2> DEFINE wrapped == {i \in Calls(ScanfNames \cup GetsNames) :
                           i.fn.name \notin {"wrapper_scanf", "wrapper_gets"}}
  <2>2. \A i \in wrapped \cap Calls(ScanfNames) : Len(i.args) >= 2
    BY <1>3 DEF InputWrapper
  <2>3. Inputs(ScanfNames) \subseteq wrapped \cap Calls(ScanfNames)
    BY <2>1 DEF Inputs, Calls
  <2> HIDE DEF wrapped
  <2>4. ScanfsOK
    BY <2>2, <2>3 DEF ScanfsOK
  <2> QED
    BY <1>2, <2>4 DEF Wrapped
<1>4. CASE phase' = "undefined"
  BY <1>4 DEF Wrapped
<1>5. CASE phase' = phase
  BY <1>2, <1>5 DEF Wrapped
<1>6. CASE phase \notin {"wrap", "undefined"}
  BY <1>2, <1>6 DEF Wrapped
<1>7. ASSUME phase \in {"wrap", "undefined"} PROVE InputWrapper \/ phase' = phase \/ phase' = "undefined"
  <2>1. CASE PassNext
    BY <1>7, <2>1 DEF PassNext, instrumentFunction, instrumentCalls, removeFunction
  <2>2. CASE SvfNext
    BY <1>7, <2>2, SvfPhases, SvfSteps
  <2>3. CASE NextPart
    BY <1>7, <2>3, PartSteps
  <2>4. CASE ZbNext
    BY <1>7, <2>4, ZbSteps DEF InsertSteps, PassRefs
  <2>5. CASE UNCHANGED vars
    BY <2>5 DEF vars
  <2> QED
    BY <2>1, <2>2, <2>3, <2>4, <2>5 DEF Next
<1> QED
  BY <1>3, <1>4, <1>5, <1>6, <1>7

LEMMA NextPartStep ==
  ASSUME SvfInv, ModuleInv, Wrapped, prog' = prog, NextPart PROVE SvfInv' /\ Extends(ents, ents')
<1>1. /\ UNCHANGED <<passVars, svfVars>> /\ left = {} /\ work = << >>
      /\ \/ phase = "erase" /\ phase' = "sites"
         \/ phase = "sites" /\ phase' = "refs"
         \/ phase = "refs" /\ phase' = "inttoptr"
         \/ phase = "inttoptr" /\ phase' = "iuses"
  BY PartSteps
<1>2. /\ ents' = ents /\ deflist' = deflist /\ trace' = trace /\ ids' = ids /\ work' = work
  BY <1>1 DEF svfVars
<1>0. /\ EntsOK(ents) /\ Elements(trace) \subseteq Ids(ents) /\ Len(ents) \in Nat
      /\ ListsOK(ents, deflist, trace, ids, work)
  BY SvfFacts
<1>3. ListsOK(ents, deflist, trace, ids, work)'
  BY <1>0, <1>2, Primed DEF ListsOK
<1>4. \A c \in code : CallOK(c)
  BY <1>1, CodeCalls
<1>5. phase' \in {"sites", "refs"} => \A c \in left' : c.op = "call" /\ CallOK(c)
  <2>1. phase' \in {"sites", "refs"} => left' \subseteq DirectCalls
    BY <1>1 DEF NextPart, Through, Move
  <2> QED
    BY <1>4, <2>1 DEF DirectCalls
<1>6. phase' = "inttoptr" => \A pair \in left' : pair[1] \in prog.values /\ pair[2] \in Ids(ents)
  <2>1. phase' = "inttoptr" => left' = Pointed
    BY <1>1 DEF NextPart, Through, Move
  <2>2. ASSUME NEW pair \in Pointed PROVE pair[1] \in prog.values /\ pair[2] \in Ids(ents)
    <3>1. PICK i \in code, in \in Elements(trace) : pair = <<i.id, in>>
      BY DEF Pointed, Elements
    <3> QED
      BY <1>0, <1>4, <3>1 DEF CallOK
  <2> QED
    BY <2>1, <2>2
<1>7. phase' = "iuses" => left' \subseteq Ids(ents)
  <2>1. phase' = "iuses" => left' = InUses
    BY <1>1 DEF NextPart, Through, Move
  <2>2. InUses \subseteq Ids(ents)
    <3>1. SUFFICES ASSUME NEW u \in InUses PROVE u \in Ids(ents)
      OBVIOUS
    <3>2. PICK in \in Elements(trace) : u \in Elements(Ent(in).kids)
      BY DEF InUses, Elements
    <3>3. in + 1 \in 1 .. Len(ents)
      BY <1>0, InIds
    <3> QED
      BY <1>0, <3>2, <3>3 DEF EntsOK, MayList, Ent
  <2> QED
    BY <2>1, <2>2
<1>8. \A c : CallOK(c)' <=> CallOK(c)
  BY DEF CallOK
<1>9. LeftOK(ents)'
  BY <1>2, <1>5, <1>6, <1>7, <1>8 DEF LeftOK
<1> QED
  BY <1>0, <1>2, <1>3, <1>9, ExtendsSelf DEF SvfInv

LEMMA SvfInvStep ==
  ASSUME SvfInv, ModuleInv, Idle, Wrapped, RowsOnly, [Next]_vars PROVE SvfInv' /\ Extends(ents, ents')
<1>0. prog \in Programs /\ prog' = prog
  BY DEF ModuleInv, Next, vars
<1>1. CASE PassNext /\ UNCHANGED <<prog, svfVars, zbVars>>
  <2>1. phase' \notin {"sites", "refs", "inttoptr", "iuses"}
    BY <1>1 DEF PassNext, InputWrapper, instrumentFunction, instrumentCalls, removeFunction
  <2> QED
    BY <1>0, <1>1, <2>1, SvfFacts, SvfMoved DEF svfVars
<1>2. CASE SvfNext
  <2>1. CASE InputSite \/ LibSite \/ InputDef \/ StoreUse \/ UseTarget \/ GepPath
    BY <1>0, <2>1, InputSiteStep, LibSiteStep, InputDefStep, StoreUseStep, UseTargetStep, GepPathStep
  <2>2. CASE RefSite \/ RefParam \/ RefField \/ IntToPtr \/ IndirectUse \/ IndirectParam
    BY <1>0, <2>2, RefSiteStep, RefParamStep, RefFieldStep, IntToPtrStep, IndirectUseStep, IndirectParamStep
  <2>3. CASE StartExport \/ ExportRow \/ TagValues
    BY <1>0, <2>3, StartExportStep, ExportRowStep, TagValuesStep
  <2> QED
    BY <1>2, <2>1, <2>2, <2>3 DEF SvfNext
<1>3. CASE NextPart
  BY <1>0, <1>3, NextPartStep
<1>4. CASE ZbNext
  <2>1. UNCHANGED svfVars /\ phase' \notin {"sites", "refs", "inttoptr", "iuses"}
    BY <1>4, ZbSteps DEF InsertSteps, PassRefs
  <2> QED
    BY <1>0, <2>1, SvfFacts, SvfMoved DEF svfVars
<1>5. CASE UNCHANGED vars
  BY <1>0, <1>5, SvfStill DEF vars
<1> QED
  BY <1>1, <1>2, <1>3, <1>4, <1>5 DEF Next

LEMMA SvfInvInit ==
  ASSUME Init PROVE SvfInv /\ Wrapped /\ RowsOnly /\ ModuleInv /\ Idle
<1>1. /\ ents = << >> /\ deflist = << >> /\ trace = << >> /\ work = << >> /\ ids = << >> /\ phase = "wrap"
  BY DEF Init, SvfInit
<1>2. /\ IsSeq(ents) /\ Elements(deflist) = {} /\ IsSeq(deflist) /\ Elements(trace) = {} /\ IsSeq(trace)
      /\ Elements(ids) = {} /\ IsSeq(ids) /\ Len(ents) = 0 /\ Turns(ents, work)
  BY <1>1, EmptyList, NoTurns
<1>3. EntsOK(ents)
  BY <1>2 DEF EntsOK
<1>4. DefsOK(ents, deflist)
  BY <1>2 DEF DefsOK
<1>5. SvfInv
  BY <1>1, <1>2, <1>3, <1>4 DEF SvfInv, ListsOK, LeftOK
<1> QED
  BY <1>1, <1>5, ModuleInit DEF Wrapped, RowsOnly, Idle

AnalysisInv == SvfInv /\ Wrapped /\ RowsOnly /\ ModuleInv /\ Idle

LEMMA AnalysisKept ==
  ASSUME AnalysisInv, [Next]_vars PROVE AnalysisInv'
  BY SvfInvStep, WrappedStep, RowsOnlyStep, ModuleStep, IdleStep DEF AnalysisInv

-----------------------------------------------------------------------------
(* The exported rows. *)

Exporting == {"export", "z_loops", "z_init", "z_exit", "z_defs", "z_stores", "z_libs", "z_calls", "done"}

\* What traceLine writes of entity e.
Line(e, id, f) ==
  [id |-> id, type |-> e.kind, father |-> f,
   cls |-> IF e.kind \notin DefRows THEN ""
           ELSE IF e.kind # "DDEF" /\ e.val \in svf.dominators THEN "DOMINATOR" ELSE "BASE",
   length |-> IF e.kind \in DefRows THEN getBytes(e) ELSE 0,
   offset |-> e.offset]

LEMMA LineIs ==
  ASSUME NEW id, NEW f PROVE traceLine(id, f) = Line(ents[id + 1], id, f)
  BY DEF traceLine, Line, isDef, Ent

\* A row of the file is such a line, and comes after its father's.
RowOK(es, M, n) ==
  /\ M[n].id \in Ids(es) /\ M[n].father \in Nat \cup {-1}
  /\ M[n] = Line(es[M[n].id + 1], M[n].id, M[n].father)
  /\ M[n].father # -1 => \E k \in 1 .. n - 1 : M[k].id = M[n].father

RowIds == {rows[n].id : n \in 1 .. Len(rows)}

ExportOK ==
  /\ phase \notin Exporting => rows = << >> /\ valueMap = {}
  /\ IsSeq(rows)
  /\ \A n \in 1 .. Len(rows) : RowOK(ents, rows, n)
  /\ \A id \in valueMap : id \in RowIds /\ ents[id + 1].kind \in DefRows \cup UseRows
  /\ phase = "export" => \A t \in Elements(work) : t.father = -1 \/ t.father \in RowIds

LEMMA LineFields ==
  ASSUME EntsOK(ents), Len(ents) \in Nat, NEW id \in Ids(ents), NEW f \in Nat \cup {-1}
  PROVE  /\ Line(ents[id + 1], id, f) \in Row /\ Line(ents[id + 1], id, f).id = id /\ Line(ents[id + 1], id, f).father = f
         /\ Line(ents[id + 1], id, f).type = ents[id + 1].kind
         /\ Line(ents[id + 1], id, f).offset # 0 => Line(ents[id + 1], id, f).type = "SDEF"
<1> DEFINE e == ents[id + 1]
           def == e.kind \in DefRows
           cls == IF ~def THEN ""
                  ELSE IF e.kind # "DDEF" /\ e.val \in svf.dominators THEN "DOMINATOR" ELSE "BASE"
           length == IF def THEN getBytes(e) ELSE 0
           r == Line(ents[id + 1], id, f)
<1>1. r = [id |-> id, type |-> e.kind, father |-> f, cls |-> cls, length |-> length, offset |-> e.offset]
  BY DEF Line
<1>2. EntityOK(e) /\ id \in Nat
  <2>1. id + 1 \in 1 .. Len(ents) /\ id \in Nat
    BY DEF Ids
  <2> QED
    BY <2>1 DEF EntsOK
<1>3. cls \in {"BASE", "DOMINATOR", ""}
  OBVIOUS
<1>4. length \in Nat \cup {-1}
  <2>1. CASE def
    BY <1>2, <2>1 DEF getBytes, evaluateSizeDL, EntityOK
  <2>2. CASE ~def
    BY <2>2
  <2> QED
    BY <2>1, <2>2
<1>5. /\ e.kind \in DefRows \cup {"IN", "SUSE", "LUSE"} /\ e.offset \in Nat
      /\ e.offset # 0 => e.kind = "SDEF"
  BY <1>2 DEF EntityOK, UseRows
<1> HIDE DEF e, cls, length, r
<1>6. r.id = id /\ r.father = f /\ r.type = e.kind /\ r.offset = e.offset
  BY <1>1
<1>7. r \in Row
  BY Zenon, <1>1, <1>2, <1>3, <1>4, <1>5 DEF Row
<1> QED
  BY <1>5, <1>6, <1>7 DEF r, e

LEMMA LineOnce ==
  ASSUME NEW e, NEW id, NEW f, NEW g
  PROVE  [Line(e, id, f) EXCEPT !.father = -1] = [Line(e, id, g) EXCEPT !.father = -1]
<1> DEFINE cls == IF e.kind \notin DefRows THEN ""
                  ELSE IF e.kind # "DDEF" /\ e.val \in svf.dominators THEN "DOMINATOR" ELSE "BASE"
           length == IF e.kind \in DefRows THEN getBytes(e) ELSE 0
           line(h) == [id |-> id, type |-> e.kind, father |-> h, cls |-> cls, length |-> length,
                       offset |-> e.offset]
<1>1. Line(e, id, f) = line(f) /\ Line(e, id, g) = line(g)
  BY DEF Line
<1> HIDE DEF cls, length
<1>2. [line(f) EXCEPT !.father = -1] = line(-1) /\ [line(g) EXCEPT !.father = -1] = line(-1)
  OBVIOUS
<1> HIDE DEF line
<1> QED
  BY <1>1, <1>2

LEMMA RowsAreWellFormed ==
  ASSUME SvfInv, ExportOK PROVE RowsWellFormed
<1>0. EntsOK(ents) /\ Len(ents) \in Nat /\ IsSeq(rows)
  BY SvfFacts DEF ExportOK
<1>1. Len(rows) \in Nat /\ DOMAIN rows = 1 .. Len(rows)
  BY <1>0, SeqDomain
<1>2. ASSUME NEW n \in 1 .. Len(rows)
      PROVE  /\ rows[n] \in Row /\ (rows[n].offset # 0 => rows[n].type = "SDEF")
             /\ rows[n].father # -1 => \E k \in 1 .. n - 1 : rows[k].id = rows[n].father
             /\ rows[n] = Line(ents[rows[n].id + 1], rows[n].id, rows[n].father)
  <2>1. RowOK(ents, rows, n)
    BY DEF ExportOK
  <2> QED
    BY <1>0, <2>1, LineFields DEF RowOK
<1>3. rows \in Seq(Row)
  <2>1. Elements(rows) \subseteq Row
    BY <1>1, <1>2 DEF Elements
  <2> QED
    BY <1>0, <2>1, SeqIn
<1>4. ASSUME NEW n \in 1 .. Len(rows), NEW k \in 1 .. Len(rows), rows[n].id = rows[k].id
      PROVE  [rows[n] EXCEPT !.father = -1] = [rows[k] EXCEPT !.father = -1]
  <2> DEFINE i == rows[n].id
             f == rows[n].father
             g == rows[k].father
             e == ents[i + 1]
  <2>1. rows[n] = Line(e, i, f) /\ rows[k] = Line(e, i, g)
    BY <1>2, <1>4
  <2> HIDE DEF i, f, g, e
  <2> QED
    BY <2>1, LineOnce
<1> QED
  BY <1>1, <1>2, <1>3, <1>4 DEF RowsWellFormed, WellFormed

LEMMA NoRowsYet ==
  ASSUME SvfNext, phase \notin Exporting
  PROVE  UNCHANGED <<rows, valueMap>> /\ (phase' \in Exporting => StartExport)
<1>1. CASE InputSite \/ LibSite \/ InputDef \/ StoreUse \/ UseTarget \/ GepPath \/ RefSite
  BY Zenon, <1>1 DEF InputSite, LibSite, InputDef, StoreUse, UseTarget, GepPath, RefSite, Undefined, svfVars, Exporting
<1>2. CASE RefParam \/ RefField \/ IntToPtr \/ IndirectUse \/ IndirectParam
  BY Zenon, <1>2 DEF RefParam, RefField, IntToPtr, IndirectUse, IndirectParam, Undefined, svfVars, Exporting
<1>3. CASE StartExport
  BY <1>3 DEF StartExport
<1>4. ~ExportRow /\ ~TagValues
  BY DEF ExportRow, TagValues, Exporting
<1> QED
  BY <1>1, <1>2, <1>3, <1>4 DEF SvfNext

\* Steps that leave the rows and the entities alone.
LEMMA RowsKept ==
  ASSUME ExportOK, UNCHANGED <<ents, rows, valueMap>>, phase' \notin Exporting => phase \notin Exporting,
         phase' # "export"
  PROVE  ExportOK'
<1>2. RowIds' = RowIds
  BY DEF RowIds
<1> QED
  BY <1>2 DEF ExportOK

LEMMA StartExportRows ==
  ASSUME SvfInv, ExportOK, StartExport PROVE ExportOK'
<1>1. /\ rows = << >> /\ valueMap = {} /\ UNCHANGED <<ents, rows, valueMap>> /\ phase' = "export"
      /\ work' = RowLoop(trace, -1, TRUE)
  BY DEF StartExport, ExportOK, Exporting, Loop, RowLoop
<1>2. 1 .. Len(rows) = {} /\ IsSeq(rows)
  <2>1. Len(rows) = 0 /\ IsSeq(rows)
    BY <1>1, EmptyList
  <2> QED
    BY <2>1
<1>3. \A t \in Elements(work') : t.father = -1
  BY <1>1 DEF Elements, RowLoop, RowTurn
<1>4. IsSeq(rows)' /\ 1 .. Len(rows') = {}
  BY <1>1, <1>2
<1>5. phase' \in Exporting
  BY <1>1 DEF Exporting
<1> QED
  BY <1>1, <1>3, <1>4, <1>5 DEF ExportOK

LEMMA ExportRowRows ==
  ASSUME SvfInv, RowsOnly, ExportOK, ExportRow PROVE ExportOK'
<1> DEFINE t == Head(work)
           s == Ent(t.id).kids
           m == Ent(t.id).kind # "DDEF"
           w == RowLoop(s, t.id, m)
           line == Line(ents[t.id + 1], t.id, t.father)
<1>1. /\ phase = "export" /\ work # << >> /\ work' = w \o Tail(work)
      /\ rows' = Append(rows, line) /\ UNCHANGED <<phase, ents>>
      /\ valueMap' \subseteq valueMap \cup {t.id}
      /\ t.id \in valueMap' => t.id \in valueMap \/ isDef(t.id) \/ isUse(t.id)
  BY LineIs DEF ExportRow, Loop, RowLoop
<1>2. EntsOK(ents) /\ Len(ents) \in Nat /\ IsSeq(rows) /\ IsSeq(work)
  BY SvfFacts DEF ExportOK, Turns
<1>3. t \in Elements(work) /\ t.do = "row" /\ t.id \in Ids(ents) /\ t.id + 1 \in 1 .. Len(ents)
  <2>1. t \in Elements(work) /\ t.do = "row"
    BY <1>1, ExportOnly DEF SvfNext
  <2>2. TurnOK(ents, t)
    BY <1>1, SvfFacts
  <2>3. t.id \in Ids(ents)
    BY <2>1, <2>2 DEF TurnOK
  <2> QED
    BY <1>2, <2>1, <2>3, InIds
<1>4. t.father = -1 \/ t.father \in RowIds
  BY <1>1, <1>3 DEF ExportOK
<1>5. \A i \in RowIds : i \in Ids(ents)
  BY DEF RowIds, ExportOK, RowOK
<1>6. t.father \in Nat \cup {-1}
  BY <1>4, <1>5 DEF Ids
<1>7. line.id = t.id /\ line.father = t.father
  <2> HIDE DEF t
  <2> QED
    BY <1>2, <1>3, <1>6, LineFields
<1>k. IsSeq(s)
  BY <1>2, <1>3 DEF EntsOK, EntityOK, Ent
<1>w. IsSeq(w) /\ \A x \in Elements(w) : x.father = t.id
  <2>1. w = [k \in DOMAIN s |-> RowTurn(s[k], t.id, m)]
    BY DEF RowLoop
  <2> HIDE DEF s, t, m, w
  <2>2. DOMAIN w = DOMAIN s /\ w = [k \in DOMAIN s |-> w[k]]
    BY <2>1
  <2>3. IsSeq(w) /\ Elements(w) = {w[k] : k \in DOMAIN s}
    BY <1>k, <2>2, LoopList
  <2>4. \A k \in DOMAIN s : w[k].father = t.id
    BY <2>1 DEF RowTurn
  <2> QED
    BY <2>3, <2>4
<1>8. /\ IsSeq(rows') /\ Len(rows') = Len(rows) + 1 /\ Len(rows) \in Nat
      /\ \A n \in 1 .. Len(rows) : rows'[n] = rows[n]
      /\ rows'[Len(rows) + 1] = line
  <2> HIDE DEF line
  <2>1. IsSeq(rows') /\ Len(rows') = Len(rows) + 1 /\ Len(rows) \in Nat
    BY <1>1, <1>2, OneMore
  <2>2. \A n \in 1 .. Len(rows') : rows'[n] = IF n <= Len(rows) THEN rows[n] ELSE line
    BY <1>1, <1>2, OneMore
  <2> QED
    BY <2>1, <2>2
<1> HIDE DEF line
<1>9. RowIds' = RowIds \cup {t.id}
  <2>1. \A n \in 1 .. Len(rows) + 1 : n \in 1 .. Len(rows) \/ n = Len(rows) + 1
    BY <1>8
  <2>2. \A n \in 1 .. Len(rows) : n \in 1 .. Len(rows) + 1
    BY <1>8
  <2>3. Len(rows) + 1 \in 1 .. Len(rows) + 1
    BY <1>8
  <2>4. RowIds' \subseteq RowIds \cup {t.id}
    BY <1>7, <1>8, <2>1 DEF RowIds
  <2>5. RowIds \subseteq RowIds'
    BY <1>8, <2>2 DEF RowIds
  <2>6. t.id \in RowIds'
    BY <1>7, <1>8, <2>3 DEF RowIds
  <2> QED
    BY <2>4, <2>5, <2>6
<1>10. ASSUME NEW n \in 1 .. Len(rows') PROVE RowOK(ents, rows', n)
  <2>1. CASE n \in 1 .. Len(rows)
    <3>1. RowOK(ents, rows, n)
      BY <2>1 DEF ExportOK
    <3>2. rows'[n] = rows[n] /\ \A k \in 1 .. n - 1 : rows'[k] = rows[k]
      BY <1>8, <2>1
    <3> QED
      BY <3>1, <3>2 DEF RowOK
  <2>2. CASE n = Len(rows) + 1
    <3>1. rows'[n] = line /\ line = Line(ents[t.id + 1], t.id, t.father)
      BY <1>8, <2>2 DEF line
    <3>3. t.father # -1 => \E k \in 1 .. n - 1 : rows'[k].id = t.father
      <4>1. ASSUME t.father # -1 PROVE \E k \in 1 .. Len(rows) : rows[k].id = t.father
        BY <1>4, <4>1 DEF RowIds
      <4>2. \A k \in 1 .. Len(rows) : k \in 1 .. n - 1
        BY <1>8, <2>2
      <4> QED
        BY <1>8, <4>1, <4>2
    <3>4. rows'[n].id = t.id /\ rows'[n].father = t.father
      BY <1>7, <3>1
    <3> HIDE DEF t
    <3> QED
      BY <1>3, <1>6, <3>1, <3>3, <3>4 DEF RowOK
  <2> QED
    BY <1>8, <2>1, <2>2
<1>11. \A id \in valueMap' : id \in RowIds' /\ ents[id + 1].kind \in DefRows \cup UseRows
  <2>1. ASSUME NEW id \in valueMap' PROVE id \in RowIds' /\ ents[id + 1].kind \in DefRows \cup UseRows
    <3>1. CASE id \in valueMap
      BY <1>9, <3>1 DEF ExportOK
    <3>2. CASE id \notin valueMap
      BY <1>1, <1>9, <3>2 DEF isDef, isUse, Ent, UseRows
    <3> QED
      BY <3>1, <3>2
  <2> QED
    BY <2>1
<1>12. \A x \in Elements(work') : x.father = -1 \/ x.father \in RowIds'
  <2>1. IsSeq(Tail(work)) /\ Elements(Tail(work)) \subseteq Elements(work)
    BY <1>1, <1>2, HeadTail
  <2>2. Elements(work') = Elements(w) \cup Elements(Tail(work))
    <3> HIDE DEF w
    <3> QED
      BY <1>1, <1>w, <2>1, Joined
  <2>3. \A x \in Elements(work) : x.father = -1 \/ x.father \in RowIds
    BY <1>1 DEF ExportOK
  <2> HIDE DEF w
  <2> QED
    BY <1>9, <1>w, <2>1, <2>2, <2>3
<1>13. phase' \in Exporting
  BY <1>1 DEF Exporting
<1> QED
  BY <1>1, <1>8, <1>10, <1>11, <1>12, <1>13 DEF ExportOK

LEMMA ExportStep ==
  ASSUME AnalysisInv, ExportOK, [Next]_vars PROVE ExportOK'
<1>0. SvfInv /\ RowsOnly /\ Idle
  BY DEF AnalysisInv
<1>1. CASE PassNext /\ UNCHANGED <<prog, svfVars, zbVars>>
  <2>1. phase \notin Exporting /\ phase' \notin Exporting
    BY <1>1 DEF PassNext, InputWrapper, instrumentFunction, instrumentCalls, removeFunction, Exporting
  <2> QED
    BY <1>1, <2>1, RowsKept DEF svfVars, Exporting
<1>2. CASE SvfNext /\ phase \notin Exporting
  <2>1. CASE StartExport
    BY <1>0, <2>1, StartExportRows
  <2>2. CASE ~StartExport
    <3>1. UNCHANGED <<rows, valueMap>> /\ phase' \notin Exporting
      BY <1>2, <2>2, NoRowsYet
    <3>2. rows = << >> /\ valueMap = {}
      BY <1>2 DEF ExportOK
    <3>3. IsSeq(rows') /\ 1 .. Len(rows') = {}
      <4>1. rows' = << >>
        BY <3>1, <3>2
      <4>2. IsSeq(rows') /\ Len(rows') = 0
        BY <4>1, EmptyList
      <4> QED
        BY <4>2
    <3>4. phase' # "export"
      BY <3>1 DEF Exporting
    <3> QED
      BY <3>1, <3>2, <3>3, <3>4 DEF ExportOK
  <2> QED
    BY <2>1, <2>2
<1>3. CASE SvfNext /\ phase \in Exporting
  <2>1. phase = "export"
    BY <1>0, <1>3, SvfPhases DEF Exporting
  <2>2. CASE ExportRow
    BY <1>0, <2>2, ExportRowRows
  <2>3. CASE TagValues
    BY <2>1, <2>3, RowsKept DEF TagValues, Exporting
  <2> QED
    BY <1>0, <1>3, <2>1, <2>2, <2>3, ExportOnly
<1>4. CASE NextPart
  <2>1. phase \notin Exporting /\ phase' \notin Exporting /\ UNCHANGED svfVars
    BY <1>4, PartSteps DEF Exporting
  <2> QED
    BY <2>1, RowsKept DEF svfVars, Exporting
<1>5. CASE ZbNext
  <2>1. UNCHANGED svfVars /\ phase' # "export" /\ phase' \in Exporting
    BY <1>5, ZbSteps DEF InsertSteps, PassRefs, Exporting
  <2> QED
    BY <2>1, RowsKept DEF svfVars
<1>6. CASE UNCHANGED vars
  <2>1. UNCHANGED <<ents, rows, valueMap, work, phase>>
    BY <1>6 DEF vars, svfVars
  <2>2. RowIds' = RowIds
    BY <2>1 DEF RowIds
  <2> QED
    BY <2>1, <2>2 DEF ExportOK
<1> QED
  BY <1>1, <1>2, <1>3, <1>4, <1>5, <1>6 DEF Next

LEMMA ExportInit ==
  ASSUME Init PROVE ExportOK
<1>1. rows = << >> /\ valueMap = {} /\ phase = "wrap"
  BY DEF Init, SvfInit
<1>2. IsSeq(rows) /\ Len(rows) = 0
  BY <1>1, EmptyList
<1> QED
  BY <1>1, <1>2 DEF ExportOK, Exporting

(***************************************************************************)
(* What svf-ex has exported is a well-formed static trace at every moment  *)
(* (RowsWellFormed): an entity that is listed under several others is      *)
(* written with the same row for each, after the row it is listed under.   *)
(***************************************************************************)
THEOREM ExportWellFormed == Spec => []RowsWellFormed
<1>1. Init => AnalysisInv /\ ExportOK
  BY SvfInvInit, ExportInit DEF AnalysisInv
<1>2. (AnalysisInv /\ ExportOK) /\ [Next]_vars => (AnalysisInv /\ ExportOK)'
  BY AnalysisKept, ExportStep
<1>3. AnalysisInv /\ ExportOK => RowsWellFormed
  BY RowsAreWellFormed DEF AnalysisInv
<1> QED
  BY <1>1, <1>2, <1>3, PTL DEF Spec

-----------------------------------------------------------------------------
(* The tags, and the types of all that svf-ex keeps. *)

RowKeys == {<<"zdef">>, <<"zsuse">>, <<"zluse">>}

\* The key that an entity of a kind is tagged with.
KeyOf(kind) == IF kind \in DefRows THEN <<"zdef">> ELSE IF kind = "SUSE" THEN <<"zsuse">> ELSE <<"zluse">>

LEMMA KeysDiffer ==
  /\ <<"zdef">> # <<"zsuse">> /\ <<"zdef">> # <<"zluse">> /\ <<"zsuse">> # <<"zluse">>
  /\ <<"ziuse">> \notin RowKeys
  /\ \A c, k : zref(c, k) \notin RowKeys
<1>1. /\ <<"zdef">> # <<"zsuse">> /\ <<"zdef">> # <<"zluse">> /\ <<"zsuse">> # <<"zluse">>
      /\ <<"ziuse">> \notin RowKeys
  BY DEF RowKeys
<1>2. \A x : <<"zref", x>> \notin RowKeys
  BY DEF RowKeys
<1> QED
  BY <1>1, <1>2 DEF zref

\* A tag that names a row is the one of an entity in the map, at the entity's value.
TagOK(es, map, t) ==
  /\ t.on \in prog.values /\ t.val.id \in Ids(es) \cup {0}
  /\ t.key \in RowKeys => /\ t.val.id \in map /\ t.key = KeyOf(es[t.val.id + 1].kind)
                          /\ t.on = es[t.val.id + 1].val

TagsOK == \A t \in tags : TagOK(ents, valueMap, t)

LEMMA MappedIds ==
  ASSUME ExportOK
  PROVE  /\ \A id \in RowIds : id \in Ids(ents)
         /\ \A id \in valueMap : id \in Ids(ents) /\ ents[id + 1].kind \in DefRows \cup UseRows
<1>1. \A id \in RowIds : id \in Ids(ents)
  BY DEF RowIds, ExportOK, RowOK
<1> QED
  BY <1>1 DEF ExportOK

LEMMA TypesHold ==
  ASSUME SvfInv, ExportOK, TagsOK PROVE TypeOK
<1>0. /\ EntsOK(ents) /\ DefsOK(ents, deflist) /\ Len(ents) \in Nat
      /\ Elements(trace) \subseteq Ids(ents) /\ Elements(ids) \subseteq Ids(ents)
  BY SvfFacts
<1>1. rows \in Seq(Row)
  BY RowsAreWellFormed DEF RowsWellFormed, WellFormed
<1>2. Ids(ents) = 0 .. nextId - 1
  BY DEF Ids, nextId
<1>3. valueMap \subseteq Ids(ents)
  BY MappedIds
<1>4. Elements(deflist) \subseteq Ids(ents) /\ \A d \in Elements(deflist) : isDef(d)
  BY <1>0 DEF DefsOK, isDef, Ent
<1>5. ASSUME NEW e \in Elements(ents), NEW d \in Elements(e.kids)
      PROVE  d \in Ids(ents) /\ (isDef(d) \/ (e.kind = "IN" /\ isUse(d)))
  <2>1. PICK k \in 1 .. Len(ents) : e = ents[k]
    BY <1>0, SeqDomain DEF EntsOK, Elements
  <2>2. MayList(ents, e, d)
    BY <1>0, <2>1 DEF EntsOK
  <2> QED
    BY <2>2 DEF MayList, isDef, isUse, Ent, UseRows
<1>6. \A t \in tags : t.on \in prog.values /\ t.val.id \in 0 .. nextId
  <2>1. \A x \in Ids(ents) \cup {0} : x \in 0 .. nextId
    BY <1>0 DEF Ids, nextId
  <2> QED
    BY <2>1 DEF TagsOK, TagOK
<1> QED
  BY <1>0, <1>1, <1>2, <1>3, <1>4, <1>5, <1>6 DEF TypeOK

\* The tags that stay are right when entities and the map grow.
LEMMA TagsKept ==
  ASSUME TagsOK, prog' = prog, EntsOK(ents), Len(ents) \in Nat, Len(ents') \in Nat,
         Extends(ents, ents'), valueMap \subseteq valueMap', valueMap \subseteq Ids(ents),
         NEW t \in tags
  PROVE  TagOK(ents, valueMap, t)'
<1>1. TagOK(ents, valueMap, t)
  BY DEF TagsOK
<1>2. Ids(ents) \subseteq Ids(ents')
  BY DEF Ids, Extends
<1>3. ASSUME t.val.id \in valueMap
      PROVE  SameEntity(ents[t.val.id + 1], ents'[t.val.id + 1])
  <2>1. t.val.id + 1 \in 1 .. Len(ents)
    BY <1>3, InIds
  <2> QED
    BY <2>1 DEF Extends
<1>4. TagOK(ents', valueMap', t)
  BY <1>1, <1>2, <1>3 DEF TagOK, SameEntity, KeyOf
<1> QED
  BY <1>4 DEF TagOK, Ids

LEMMA TagsSame ==
  ASSUME AnalysisInv, AnalysisInv', ExportOK, TagsOK, prog' = prog, UNCHANGED tags,
         Extends(ents, ents'), valueMap \subseteq valueMap'
  PROVE  TagsOK'
<1>1. EntsOK(ents) /\ Len(ents) \in Nat /\ valueMap \subseteq Ids(ents)
  BY SvfFacts, MappedIds DEF AnalysisInv
<1>2. Len(ents') \in Nat
  <2>1. SvfInv'
    BY DEF AnalysisInv
  <2>2. IsSeq(ents')
    BY <2>1 DEF SvfInv, ListsOK, EntsOK, IsSeq, Elements
  <2> QED
    BY <2>2, SeqDomain
<1> QED
  BY <1>1, <1>2, TagsKept DEF TagsOK

\* A tag that is about a reference.
LEMMA TagsSet ==
  ASSUME AnalysisInv, AnalysisInv', ExportOK, TagsOK, prog' = prog,
         Extends(ents, ents'), valueMap \subseteq valueMap',
         NEW on \in prog.values, NEW key, key \notin RowKeys, NEW val, val.id \in Ids(ents') \cup {0},
         tags' = setMetadata(tags, on, key, val)
  PROVE  TagsOK'
<1>1. EntsOK(ents) /\ Len(ents) \in Nat /\ valueMap \subseteq Ids(ents)
  BY SvfFacts, MappedIds DEF AnalysisInv
<1>2. Len(ents') \in Nat
  <2>1. SvfInv'
    BY DEF AnalysisInv
  <2>2. IsSeq(ents')
    BY <2>1 DEF SvfInv, ListsOK, EntsOK, IsSeq, Elements
  <2> QED
    BY <2>2, SeqDomain
<1>3. SUFFICES ASSUME NEW t \in tags' PROVE TagOK(ents, valueMap, t)'
  BY DEF TagsOK
<1>4. CASE t \in tags
  BY <1>1, <1>2, <1>4, TagsKept
<1>5. CASE t \notin tags
  <2>1. t = [on |-> on, key |-> key, val |-> val]
    BY <1>5 DEF setMetadata
  <2>2. t.on = on /\ t.key = key /\ t.val = val
    BY <2>1
  <2> QED
    BY <2>2 DEF TagOK, Ids
<1> QED
  BY <1>4, <1>5

LEMMA MapGrows ==
  ASSUME SvfNext
  PROVE  /\ valueMap \subseteq valueMap'
         /\ RefParam \/ RefField \/ IndirectParam \/ TagValues \/ UNCHANGED tags
<1>1. CASE InputSite \/ LibSite \/ InputDef \/ StoreUse \/ UseTarget \/ GepPath \/ RefSite
  BY Zenon, <1>1 DEF InputSite, LibSite, InputDef, StoreUse, UseTarget, GepPath, RefSite, Undefined, svfVars
<1>2. CASE RefParam \/ RefField \/ IndirectParam \/ TagValues
  BY Zenon, <1>2 DEF RefParam, RefField, IndirectParam, TagValues, Undefined, svfVars
<1>3. CASE IntToPtr \/ IndirectUse \/ StartExport \/ ExportRow
  BY Zenon, <1>3 DEF IntToPtr, IndirectUse, StartExport, ExportRow, Undefined, svfVars
<1> QED
  BY <1>1, <1>2, <1>3 DEF SvfNext

LEMMA RefParamTags ==
  ASSUME AnalysisInv, AnalysisInv', ExportOK, TagsOK, prog \in Programs, prog' = prog,
         Extends(ents, ents'), valueMap \subseteq valueMap', RefParam
  PROVE  TagsOK'
<1> DEFINE t == Head(work)
           c == t.call
           k == t.param
           defs == Answers(svf.defs, c.args[k])
           usable == {j \in DOMAIN defs : /\ defs[j] \notin svf.dominators
                                          /\ \/ defs[j] \in svf.struct \/ Known(defs[j])
                                             \/ svf.kind[defs[j]] = "dyn"}
           v == defs[Min(usable)]
           def == getOrBuildDef(v)
           name == Params(c.fn)[check_parameter_aliasing(c.args[k], c.fn)].name
<1>1. /\ work # << >> /\ t.do = "ref"
      /\ \/ UNCHANGED tags
         \/ tags' = setMetadata(tags, c.id, zref(c, k), Named(name))
         \/ /\ tags' = setMetadata(tags, c.id, zref(c, k), Literal(def.id))
            /\ deflist' = IF def.new = << >> THEN deflist ELSE Append(deflist, def.id)
            /\ ents' = ents \o def.new
            /\ usable # {} /\ (IF v \in svf.struct THEN get_def_id(v) # -1 ELSE Known(v))
  BY Zenon DEF RefParam, Undefined, svfVars
<1>2. SvfInv /\ TurnOK(ents, t) /\ EntsOK(ents) /\ DefsOK(ents, deflist)
  BY Zenon, <1>1, SvfFacts DEF AnalysisInv
<1>3. c.id \in prog.values /\ defs \in Seq(prog.values) /\ zref(c, k) \notin RowKeys
  BY Zenon, <1>1, <1>2, KeysDiffer DEF TurnOK, DefsOf
<1>4. CASE UNCHANGED tags
  BY <1>4, TagsSame
<1>5. CASE tags' = setMetadata(tags, c.id, zref(c, k), Named(name))
  <2>1. Named(name).id = 0
    BY DEF Named
  <2> HIDE DEF c, k, name
  <2> QED
    BY <1>3, <1>5, <2>1, TagsSet
<1>6. CASE /\ tags' = setMetadata(tags, c.id, zref(c, k), Literal(def.id))
           /\ ents' = ents \o def.new
           /\ usable # {} /\ (IF v \in svf.struct THEN get_def_id(v) # -1 ELSE Known(v))
  <2>1. v \in prog.values
    <3>1. usable \subseteq DOMAIN defs /\ usable # {}
      BY Zenon, <1>6
    <3>2. DOMAIN defs \subseteq Nat /\ \A j \in DOMAIN defs : defs[j] \in prog.values
      <4> HIDE DEF defs
      <4> QED
        BY <1>3
    <3> HIDE DEF usable, defs
    <3> QED
      BY <3>1, <3>2, MinIsLeast
  <2>2. Known(v)
    BY Zenon, <1>6 DEF Known
  <2> HIDE DEF v
  <2>3. def.id \in Ids(ents \o def.new)
    BY <1>2, <2>1, <2>2, DefFacts DEF Answered
  <2>4. def.id \in Ids(ents')
    BY <1>6, <2>3
  <2>5. Literal(def.id).id = def.id
    BY DEF Literal
  <2> HIDE DEF c, k, def
  <2> QED
    BY <1>3, <1>6, <2>4, <2>5, TagsSet
<1> QED
  BY Zenon, <1>1, <1>4, <1>5, <1>6

LEMMA RefFieldTags ==
  ASSUME AnalysisInv, AnalysisInv', ExportOK, TagsOK, prog' = prog,
         Extends(ents, ents'), valueMap \subseteq valueMap', RefField
  PROVE  TagsOK'
<1> DEFINE t == Head(work)
           c == t.call
           k == t.param
<1>1. /\ work # << >> /\ t.do = "refid" /\ UNCHANGED ents
      /\ \/ UNCHANGED tags
         \/ ids # << >> /\ tags' = setMetadata(tags, c.id, zref(c, k), Literal(ids[1]))
  BY DEF RefField, Undefined, svfVars
<1>2. SvfInv /\ TurnOK(ents, t) /\ IsSeq(ids) /\ Elements(ids) \subseteq Ids(ents)
  BY <1>1, SvfFacts DEF AnalysisInv
<1>3. c.id \in prog.values /\ zref(c, k) \notin RowKeys
  BY <1>1, <1>2, KeysDiffer DEF TurnOK
<1>4. CASE UNCHANGED tags
  BY <1>4, TagsSame
<1>5. CASE ids # << >> /\ tags' = setMetadata(tags, c.id, zref(c, k), Literal(ids[1]))
  <2>1. ids[1] \in Elements(ids)
    <3>1. Head(ids) \in Elements(ids) /\ Head(ids) = ids[1]
      BY <1>2, <1>5, HeadTail
    <3> QED
      BY <3>1
  <2>2. Literal(ids[1]).id \in Ids(ents')
    BY Zenon, <1>1, <1>2, <2>1 DEF Literal, Ids
  <2> HIDE DEF c, k
  <2> QED
    BY <1>3, <1>5, <2>2, TagsSet
<1> QED
  BY <1>1, <1>4, <1>5

LEMMA IndirectParamTags ==
  ASSUME AnalysisInv, AnalysisInv', ExportOK, TagsOK, prog' = prog,
         Extends(ents, ents'), valueMap \subseteq valueMap', IndirectParam
  PROVE  TagsOK'
<1> DEFINE t == Head(work)
           all == Answers(svf.argStores, t.val)
           s == all[Min({k \in DOMAIN all :
                           /\ Function(all[k].fn) \in instrumentedFunctions
                           /\ check_parameter_aliasing(all[k].src, Function(all[k].fn)) # 0})]
           name == Params(Function(s.fn))[check_parameter_aliasing(s.src, Function(s.fn))].name
<1>1. /\ work # << >> /\ t.do = "iuse" /\ UNCHANGED ents
      /\ \/ UNCHANGED tags
         \/ tags' = setMetadata(tags, Ent(t.use).val, <<"ziuse">>, Named(name))
  BY Zenon DEF IndirectParam
<1>2. SvfInv /\ TurnOK(ents, t) /\ EntsOK(ents) /\ Len(ents) \in Nat
  BY Zenon, <1>1, SvfFacts DEF AnalysisInv
<1>3. Ent(t.use).val \in prog.values
  <2>1. t.use + 1 \in 1 .. Len(ents)
    BY Zenon, <1>1, <1>2, InIds DEF TurnOK
  <2> QED
    BY <1>2, <2>1 DEF EntsOK, EntityOK, Ent
<1>4. CASE UNCHANGED tags
  BY <1>4, TagsSame
<1>5. CASE tags' = setMetadata(tags, Ent(t.use).val, <<"ziuse">>, Named(name))
  <2>1. Named(name).id = 0
    BY DEF Named
  <2> HIDE DEF t, name
  <2> QED
    BY <1>3, <1>5, <2>1, KeysDiffer, TagsSet
<1> QED
  BY Zenon, <1>1, <1>4, <1>5

LEMMA TagValuesTags ==
  ASSUME AnalysisInv, ExportOK, TagsOK, prog' = prog, TagValues
  PROVE  TagsOK'
<1>1. PICK last \in Survivors :
        tags' = tags \cup {[on |-> Ent(id).val, key |-> tagKey(id), val |-> Literal(id)] : id \in last}
  BY DEF TagValues
<1>2. last \subseteq valueMap
  BY DEF Survivors
<1>3. EntsOK(ents) /\ Len(ents) \in Nat /\ UNCHANGED <<ents, valueMap>>
  BY SvfFacts DEF AnalysisInv, TagValues
<1>4. SUFFICES ASSUME NEW t \in tags' PROVE TagOK(ents, valueMap, t)
  BY <1>3 DEF TagsOK, TagOK, Ids
<1>5. CASE t \in tags
  BY <1>5 DEF TagsOK
<1>6. CASE t \notin tags
  <2>1. PICK id \in last : t = [on |-> Ent(id).val, key |-> tagKey(id), val |-> Literal(id)]
    BY <1>1, <1>6
  <2>2. t.on = Ent(id).val /\ t.key = tagKey(id) /\ t.val = Literal(id) /\ Literal(id).id = id
    BY Zenon, <2>1 DEF Literal
  <2>3. id \in valueMap /\ id \in Ids(ents)
    BY <1>2, MappedIds
  <2>4. ents[id + 1].val \in prog.values
    BY <1>3, <2>3, InIds DEF EntsOK, EntityOK
  <2>5. tagKey(id) = KeyOf(ents[id + 1].kind)
    BY DEF tagKey, KeyOf, isDef, Ent
  <2> QED
    BY <2>2, <2>3, <2>4, <2>5 DEF TagOK, Ent
<1> QED
  BY <1>5, <1>6

LEMMA TagsStep ==
  ASSUME AnalysisInv, ExportOK, TagsOK, [Next]_vars PROVE TagsOK'
<1>0. AnalysisInv' /\ prog \in Programs /\ prog' = prog
  BY AnalysisKept DEF AnalysisInv, ModuleInv, Next, vars
<1>1. Extends(ents, ents')
  BY SvfInvStep DEF AnalysisInv
<1>2. CASE SvfNext
  <2>1. valueMap \subseteq valueMap'
    BY <1>2, MapGrows
  <2>2. CASE UNCHANGED tags
    BY <1>0, <1>1, <2>1, <2>2, TagsSame
  <2>3. CASE RefParam
    BY <1>0, <1>1, <2>1, <2>3, RefParamTags
  <2>4. CASE RefField
    BY <1>0, <1>1, <2>1, <2>4, RefFieldTags
  <2>5. CASE IndirectParam
    BY <1>0, <1>1, <2>1, <2>5, IndirectParamTags
  <2>6. CASE TagValues
    BY <1>0, <2>6, TagValuesTags
  <2> QED
    BY <1>2, <2>2, <2>3, <2>4, <2>5, <2>6, MapGrows
<1>3. CASE UNCHANGED svfVars
  BY <1>0, <1>1, <1>3, TagsSame DEF svfVars
<1>4. SvfNext \/ UNCHANGED svfVars
  BY PartSteps, ZbSteps DEF Next, PassRefs, vars
<1> QED
  BY <1>2, <1>3, <1>4

(***************************************************************************)
(* The lists of svf-ex, the rows and the tags name entities that exist,    *)
(* of the kinds that they may name (TypeOK).                               *)
(***************************************************************************)
THEOREM AnalysisTypes == Spec => []TypeOK
<1>1. Init => AnalysisInv /\ ExportOK /\ TagsOK
  BY SvfInvInit, ExportInit DEF AnalysisInv, Init, SvfInit, TagsOK
<1>2. (AnalysisInv /\ ExportOK /\ TagsOK) /\ [Next]_vars => (AnalysisInv /\ ExportOK /\ TagsOK)'
  BY AnalysisKept, ExportStep, TagsStep
<1>3. AnalysisInv /\ ExportOK /\ TagsOK => TypeOK
  BY TypesHold DEF AnalysisInv
<1> QED
  BY <1>1, <1>2, <1>3, PTL DEF Spec

-----------------------------------------------------------------------------
(* The reports that Zbouncer inserts. *)

Instrumenting == {"z_loops", "z_init", "z_exit", "z_defs", "z_stores", "z_libs", "z_calls", "done"}

\* A report is about an entity in the map, of a kind that the library takes it for.
ReportOK(r) ==
  r.call \in {"zinit", "zexit"} \/ (r.id \in valueMap /\ ents[r.id + 1].kind \in Kinds(r.call))

PartOK(s) == IsSeq(s) /\ \A r \in Elements(s) : ReportOK(r)

ReportsOK ==
  /\ phase \notin Instrumenting => (\A x \in prog.values : after[x] = << >>) /\ entry = << >>
  /\ \A x \in prog.values : PartOK(after[x])
  /\ PartOK(entry)

LEMMA KindsAre ==
  /\ Kinds("zbouncer_use") = {"SUSE"} /\ Kinds("zbouncer_iuse") = {"SUSE"}
  /\ Kinds("zbouncer_luse") = {"LUSE"} /\ Kinds("zbouncer_iluse") = {"LUSE"}
  /\ Kinds("zbouncer_collect_alloca") = DefRows /\ Kinds("zbouncer_collect_alloca_dyn") = DefRows
  /\ \A call \in {"entry2", "entry3", "entry4", "entry5"} : Kinds(call) = DefRows \cup UseRows
BY DEF Kinds, UseRows

LEMMA NoReport == PartOK(<< >>)
<1> DEFINE s == << >>
<1>1. Elements(s) = {} /\ IsSeq(s)
  BY EmptyList
<1> QED
  BY <1>1 DEF PartOK

LEMMA OneReport ==
  ASSUME NEW r, ReportOK(r) PROVE PartOK(<<r>>)
<1> DEFINE s == <<r>>
<1>1. IsSeq(s) /\ Elements(s) = {r}
  BY Single
<1> QED
  BY <1>1 DEF PartOK

LEMMA PartsJoined ==
  ASSUME NEW s, PartOK(s), NEW t, PartOK(t) PROVE PartOK(s \o t)
<1> DEFINE w == s \o t
<1>1. w = s \o t /\ IsSeq(s) /\ IsSeq(t)
  BY DEF PartOK
<1> HIDE DEF w
<1>2. IsSeq(w) /\ Elements(w) = Elements(s) \cup Elements(t)
  BY <1>1, Joined
<1> QED
  BY <1>1, <1>2 DEF PartOK

\* What a tag leads to.
LEMMA TagNames ==
  ASSUME ExportOK, TagsOK, NEW x, NEW key \in RowKeys, Tagged(x, key)
  PROVE  Tag(x, key).id \in valueMap /\ key = KeyOf(ents[Tag(x, key).id + 1].kind)
         /\ ents[Tag(x, key).id + 1].kind \in DefRows \cup UseRows
<1>1. PICK t \in tags : t.on = x /\ t.key = key /\ Tag(x, key) = t.val
  BY DEF Tagged, Tag
<1>2. TagOK(ents, valueMap, t)
  BY DEF TagsOK
<1> QED
  BY <1>1, <1>2, MappedIds DEF TagOK

LEMMA KeyKinds ==
  ASSUME NEW kind \in DefRows \cup UseRows
  PROVE  /\ KeyOf(kind) = <<"zdef">> => kind \in DefRows
         /\ KeyOf(kind) = <<"zsuse">> => kind = "SUSE"
         /\ KeyOf(kind) = <<"zluse">> => kind = "LUSE"
<1>1. "SUSE" \notin DefRows /\ "LUSE" \notin DefRows
  BY DEF DefRows
<1> QED
  BY <1>1, KeysDiffer DEF KeyOf, UseRows

LEMMA DefReportOK ==
  ASSUME ExportOK, TagsOK, NEW i, NEW stack, NEW dynamic,
         DefRows \subseteq Kinds(stack), DefRows \subseteq Kinds(dynamic)
  PROVE  PartOK(DefReport(i, stack, dynamic))
<1> DEFINE id == Tag(i.id, <<"zdef">>).id
           S == Report(stack, id, NoRef, i.id)
           D == Report(dynamic, id, NoRef, i.id)
<1>1. \/ DefReport(i, stack, dynamic) = << >>
      \/ /\ Tagged(i.id, <<"zdef">>)
         /\ DefReport(i, stack, dynamic) \in {<<S>>, <<D>>}
  BY DEF DefReport
<1>2. ASSUME Tagged(i.id, <<"zdef">>) PROVE ReportOK(S) /\ ReportOK(D)
  <2>1. id \in valueMap /\ ents[id + 1].kind \in DefRows
    BY <1>2, TagNames, KeyKinds DEF RowKeys
  <2> HIDE DEF id
  <2> QED
    BY <2>1 DEF ReportOK, Report
<1> HIDE DEF S, D
<1> QED
  BY <1>1, <1>2, NoReport, OneReport

LEMMA UseReportOK ==
  ASSUME ExportOK, TagsOK, NEW i, NEW addr, NEW key, NEW direct, NEW indirect,
         \/ key = <<"zsuse">> /\ "SUSE" \in Kinds(direct) \cap Kinds(indirect)
         \/ key = <<"zluse">> /\ "LUSE" \in Kinds(direct) \cap Kinds(indirect)
  PROVE  PartOK(UseReport(i, key, addr, direct, indirect))
<1> DEFINE id == Tag(i.id, key).id
           I == Report(indirect, id, Resolve(i), addr)
           D == Report(direct, id, NoRef, addr)
<1>1. \/ UseReport(i, key, addr, direct, indirect) = << >>
      \/ /\ Tagged(i.id, key)
         /\ UseReport(i, key, addr, direct, indirect) \in {<<I>>, <<D>>}
  BY DEF UseReport
<1>2. ASSUME Tagged(i.id, key) PROVE ReportOK(I) /\ ReportOK(D)
  <2>1. id \in valueMap /\ ents[id + 1].kind \in Kinds(direct) \cap Kinds(indirect)
    BY <1>2, TagNames, KeyKinds DEF RowKeys
  <2> HIDE DEF id
  <2> QED
    BY <2>1 DEF ReportOK, Report
<1> HIDE DEF I, D
<1> QED
  BY <1>1, <1>2, NoReport, OneReport

LEMMA PartsOK ==
  ASSUME ExportOK, TagsOK, NEW i
  PROVE  PartOK(LoopPart(i)) /\ PartOK(ExitPart(i)) /\ PartOK(DefPart(i))
         /\ PartOK(StorePart(i)) /\ PartOK(LibPart(i))
<1>1. PartOK(LoopDefs(i)) /\ PartOK(DefPart(i))
  BY KindsAre, DefReportOK DEF LoopDefs, DefPart
<1>2. PartOK(LoopStores(i)) /\ PartOK(StorePart(i))
  BY KindsAre, UseReportOK DEF LoopStores, StorePart, UseRows
<1>3. PartOK(LoopLibs(i)) /\ PartOK(LibPart(i))
  BY KindsAre, UseReportOK, NoReport DEF LoopLibs, LibPart, UseRows
<1>4. PartOK(LoopPart(i))
  BY <1>1, <1>2, <1>3, PartsJoined DEF LoopPart
<1>5. PartOK(ExitPart(i))
  <2> DEFINE r == Report("zexit", 0, NoRef, i.id)
  <2>1. ReportOK(r)
    BY DEF ReportOK, Report
  <2>2. ExitPart(i) \in {<< >>, <<r>>}
    BY DEF ExitPart
  <2> HIDE DEF r
  <2> QED
    BY <2>1, <2>2, NoReport, OneReport
<1> QED
  BY <1>1, <1>2, <1>3, <1>4, <1>5

\* A part's loop over a set of instructions, P[i] what it inserts behind i.
LEMMA Inserted ==
  ASSUME ReportsOK, UNCHANGED <<prog, ents, valueMap, entry>>, phase' \in Instrumenting,
         NEW set, NEW P, \A i \in set : PartOK(P[i]),
         after' = [x \in prog.values |->
                     IF \E i \in set : i.id = x THEN P[CHOOSE i \in set : i.id = x] \o after[x]
                                               ELSE after[x]]
  PROVE  ReportsOK'
<1>2. ASSUME NEW x \in prog.values PROVE PartOK(after'[x])
  <2>1. PartOK(after[x])
    BY DEF ReportsOK
  <2>2. CASE \E i \in set : i.id = x
    <3> DEFINE j == CHOOSE i \in set : i.id = x
    <3>1. j \in set
      BY <2>2
    <3>2. after'[x] = P[j] \o after[x]
      BY <2>2
    <3> HIDE DEF j
    <3> QED
      BY <2>1, <3>1, <3>2, PartsJoined
  <2>3. CASE ~ \E i \in set : i.id = x
    BY <2>1, <2>3
  <2> QED
    BY <2>2, <2>3
<1>3. PartOK(entry')
  BY DEF ReportsOK
<1>4. (\A x \in prog.values : PartOK(after[x]))'
  BY <1>2 DEF PartOK, ReportOK
<1>5. PartOK(entry)'
  BY <1>3 DEF PartOK, ReportOK
<1> QED
  BY <1>4, <1>5 DEF ReportsOK

LEMMA InitReports ==
  ASSUME AnalysisInv, ReportsOK, ExportOK, TagsOK, UNCHANGED prog, InsertInit
  PROVE  ReportsOK'
<1> DEFINE report(g) == Report("zbouncer_collect_alloca", Tag(g, <<"zdef">>).id, NoRef, g)
           z == Report("zinit", 0, NoRef, Null)
           head == <<z>>
           n == Cardinality(Globals)
<1>1. PICK s \in Arrangements(Globals) : entry' = head \o Loop(s, LAMBDA g : report(g))
  BY DEF InsertInit
<1>2. s \in [1 .. n -> Globals]
  BY DEF Arrangements
<1> DEFINE w == [k \in 1 .. n |-> report(s[k])]
<1>3. Loop(s, LAMBDA g : report(g)) = w
  BY <1>2 DEF Loop
<1>4. UNCHANGED <<ents, valueMap, after>> /\ phase' \in Instrumenting
  BY DEF InsertInit, svfVars, Instrumenting
<1>5. PartOK(head)
  <2>1. ReportOK(z)
    BY DEF ReportOK, Report
  <2> HIDE DEF z
  <2> QED
    BY <2>1, OneReport
<1>6. ASSUME NEW g \in Globals PROVE ReportOK(report(g))
  <2> DEFINE id == Tag(g, <<"zdef">>).id
  <2>1. id \in valueMap /\ ents[id + 1].kind \in DefRows
    BY TagNames, KeyKinds DEF Globals, RowKeys
  <2> HIDE DEF id
  <2>2. Report("zbouncer_collect_alloca", id, NoRef, g).call = "zbouncer_collect_alloca"
        /\ Report("zbouncer_collect_alloca", id, NoRef, g).id = id
    BY DEF Report
  <2>3. ReportOK(Report("zbouncer_collect_alloca", id, NoRef, g))
    BY <2>1, <2>2, KindsAre DEF ReportOK
  <2> QED
    BY <2>3 DEF id
<1>7. PartOK(w)
  <2>1. Globals \subseteq prog.values
    BY DEF Globals
  <2> DEFINE S == {report(g) : g \in Globals}
  <2>2. DOMAIN w = 1 .. n /\ \A k \in 1 .. n : w[k] \in S
    BY <1>2
  <2>3. \A r \in S : ReportOK(r)
    BY <1>6
  <2>4. w = [k \in 1 .. n |-> w[k]]
    OBVIOUS
  <2>5. DOMAIN s = 1 .. n
    BY <1>2
  <2>6. n \in Nat
    <3>1. IsFiniteSet(prog.values)
      BY ModuleAssumption DEF AnalysisInv, ModuleInv
    <3> QED
      BY <2>1, <3>1, FS_Subset, FS_CardinalityType
  <2> HIDE DEF w, S, report, n
  <2>7. w \in [1 .. n -> S]
    BY <2>2, <2>4
  <2>8. IsSeq(w) /\ Elements(w) \subseteq S
    BY <2>6, <2>7, ListOf
  <2> QED
    BY <2>3, <2>8 DEF PartOK
<1>8. PartOK(entry')
  <2> HIDE DEF w, head
  <2> QED
    BY <1>1, <1>3, <1>5, <1>7, PartsJoined
<1>10. \A x \in prog.values : PartOK(after[x])
  BY DEF ReportsOK
<1> HIDE DEF w, head
<1>11. (\A x \in prog.values : PartOK(after[x]))' /\ PartOK(entry)'
  BY <1>4, <1>8, <1>10 DEF PartOK, ReportOK
<1> QED
  BY <1>4, <1>11 DEF ReportsOK

\* A part of the tools that does not insert reports.
LEMMA ReportsStill ==
  ASSUME ReportsOK, UNCHANGED <<prog, zbVars>>,
         phase \in Instrumenting => UNCHANGED <<ents, valueMap>>,
         phase \in Instrumenting => phase' \in Instrumenting
  PROVE  ReportsOK'
<1>1. UNCHANGED <<after, entry>>
  BY DEF zbVars
<1>2. CASE phase \in Instrumenting
  <2>1. (\A x \in prog.values : PartOK(after[x]))' /\ PartOK(entry)'
    BY <1>1, <1>2 DEF ReportsOK, PartOK, ReportOK
  <2> QED
    BY <1>2, <2>1 DEF ReportsOK
<1>3. CASE phase \notin Instrumenting
  <2>1. (\A x \in prog.values : after[x] = << >>) /\ entry = << >>
    BY <1>3 DEF ReportsOK
  <2>2. \A s : s = << >> => IsSeq(s) /\ Elements(s) = {}
    BY EmptyList
  <2>3. (\A x \in prog.values : PartOK(after[x]))' /\ PartOK(entry)'
    BY <1>1, <2>1, <2>2 DEF PartOK
  <2> QED
    BY <1>1, <2>1, <2>3 DEF ReportsOK
<1> QED
  BY <1>2, <1>3

LEMMA InsertStep ==
  ASSUME ReportsOK, ExportOK, TagsOK, UNCHANGED prog,
         InsertLoop \/ InsertExit \/ InsertDef \/ InsertStore \/ InsertLib
  PROVE  ReportsOK'
<1>0. /\ UNCHANGED <<ents, valueMap, entry>> /\ phase' \in Instrumenting
      /\ \A i : /\ PartOK(LoopPart(i)) /\ PartOK(ExitPart(i)) /\ PartOK(DefPart(i))
                /\ PartOK(StorePart(i)) /\ PartOK(LibPart(i))
  BY PartsOK DEF InsertLoop, InsertExit, InsertDef, InsertStore, InsertLib, Insert, svfVars, Instrumenting
<1>1. CASE InsertLoop
  <2> DEFINE P == [i \in InLoops |-> LoopPart(i)]
  <2>1. \A i \in InLoops : PartOK(P[i])
    BY <1>0
  <2>2. after' = [x \in prog.values |->
                    IF \E i \in InLoops : i.id = x THEN P[CHOOSE i \in InLoops : i.id = x] \o after[x]
                                                   ELSE after[x]]
    BY <1>1 DEF InsertLoop, Insert
  <2> HIDE DEF P
  <2> QED
    BY <1>0, <2>1, <2>2, Inserted
<1>2. CASE InsertExit
  <2> DEFINE P == [i \in code |-> ExitPart(i)]
  <2>1. \A i \in code : PartOK(P[i])
    BY <1>0
  <2>2. after' = [x \in prog.values |->
                    IF \E i \in code : i.id = x THEN P[CHOOSE i \in code : i.id = x] \o after[x]
                                                ELSE after[x]]
    BY <1>2 DEF InsertExit, Insert
  <2> HIDE DEF P
  <2> QED
    BY <1>0, <2>1, <2>2, Inserted
<1>3. CASE InsertDef
  <2> DEFINE P == [i \in code |-> DefPart(i)]
  <2>1. \A i \in code : PartOK(P[i])
    BY <1>0
  <2>2. after' = [x \in prog.values |->
                    IF \E i \in code : i.id = x THEN P[CHOOSE i \in code : i.id = x] \o after[x]
                                                ELSE after[x]]
    BY <1>3 DEF InsertDef, Insert
  <2> HIDE DEF P
  <2> QED
    BY <1>0, <2>1, <2>2, Inserted
<1>4. CASE InsertStore
  <2> DEFINE P == [i \in code |-> StorePart(i)]
  <2>1. \A i \in code : PartOK(P[i])
    BY <1>0
  <2>2. after' = [x \in prog.values |->
                    IF \E i \in code : i.id = x THEN P[CHOOSE i \in code : i.id = x] \o after[x]
                                                ELSE after[x]]
    BY <1>4 DEF InsertStore, Insert
  <2> HIDE DEF P
  <2> QED
    BY <1>0, <2>1, <2>2, Inserted
<1>5. CASE InsertLib
  <2> DEFINE P == [i \in code |-> LibPart(i)]
  <2>1. \A i \in code : PartOK(P[i])
    BY <1>0
  <2>2. after' = [x \in prog.values |->
                    IF \E i \in code : i.id = x THEN P[CHOOSE i \in code : i.id = x] \o after[x]
                                                ELSE after[x]]
    BY <1>5 DEF InsertLib, Insert
  <2> HIDE DEF P
  <2> QED
    BY <1>0, <2>1, <2>2, Inserted
<1> QED
  BY <1>1, <1>2, <1>3, <1>4, <1>5

LEMMA ReportsStep ==
  ASSUME AnalysisInv, ExportOK, TagsOK, ReportsOK, [Next]_vars PROVE ReportsOK'
<1>0. Idle /\ UNCHANGED prog
  BY DEF AnalysisInv, Next, vars
<1>1. CASE PassNext /\ UNCHANGED <<prog, svfVars, zbVars>>
  <2>1. phase \notin Instrumenting
    BY <1>1 DEF PassNext, InputWrapper, instrumentFunction, instrumentCalls, removeFunction, Instrumenting
  <2> QED
    BY <1>1, <2>1, ReportsStill
<1>2. CASE (SvfNext \/ NextPart) /\ UNCHANGED <<prog, zbVars>>
  <2>1. phase \notin Instrumenting
    BY <1>0, <1>2, SvfPhases, PartSteps DEF Instrumenting
  <2> QED
    BY <1>2, <2>1, ReportsStill
<1>3. CASE InsertInit
  BY <1>0, <1>3, InitReports
<1>4. CASE InsertLoop \/ InsertExit \/ InsertDef \/ InsertStore \/ InsertLib
  BY <1>0, <1>4, InsertStep
<1>5. CASE PassRefs
  <2>1. UNCHANGED <<ents, valueMap, zbVars>> /\ phase' \in Instrumenting
    BY <1>5 DEF PassRefs, svfVars, Instrumenting
  <2> QED
    BY <1>0, <2>1, ReportsStill
<1>6. CASE UNCHANGED vars
  <2>1. UNCHANGED <<ents, valueMap, zbVars, phase>>
    BY <1>6 DEF vars, svfVars
  <2> QED
    BY <1>0, <2>1, ReportsStill
<1> QED
  BY <1>1, <1>2, <1>3, <1>4, <1>5, <1>6 DEF Next, ZbNext

LEMMA KnownReports ==
  ASSUME AnalysisInv, ExportOK, ReportsOK PROVE ReportsKnown
<1>1. SUFFICES ASSUME NEW r \in Reports
               PROVE  \E row \in Elements(rows) : row.id = r.id /\ row.type \in Kinds(r.call)
  BY DEF ReportsKnown
<1>2. ReportOK(r) /\ r.call \notin {"zinit", "zexit"}
  <2>1. r \in Elements(entry) \/ \E x \in prog.values : r \in Elements(after[x])
    BY DEF Reports
  <2>2. r.call \notin {"zinit", "zexit"}
    BY DEF Reports
  <2> QED
    BY <2>1, <2>2 DEF ReportsOK, PartOK
<1>3. r.id \in valueMap /\ ents[r.id + 1].kind \in Kinds(r.call)
  BY <1>2 DEF ReportOK
<1>4. PICK n \in 1 .. Len(rows) : rows[n].id = r.id
  BY <1>3 DEF ExportOK, RowIds
<1>5. EntsOK(ents) /\ Len(ents) \in Nat /\ RowOK(ents, rows, n)
  BY SvfFacts DEF AnalysisInv, ExportOK
<1>6. rows[n].type = ents[r.id + 1].kind
  BY <1>4, <1>5, LineFields DEF RowOK
<1>7. rows[n] \in Elements(rows)
  BY SeqDomain DEF ExportOK
<1> QED
  BY <1>3, <1>4, <1>6, <1>7

(***************************************************************************)
(* Every report that Zbouncer inserts, in a loop, behind an instruction or *)
(* at the start of main, names a row of the static trace of the kind that  *)
(* the runtime library takes it for (ReportsKnown), whichever tags replace *)
(* each other and in whatever order the globals are listed.                *)
(***************************************************************************)
THEOREM EveryReportKnown == Spec => []ReportsKnown
<1> DEFINE ToolsInv == AnalysisInv /\ ExportOK /\ TagsOK /\ ReportsOK
<1>1. Init => ToolsInv
  <2> SUFFICES ASSUME Init PROVE ToolsInv
    OBVIOUS
  <2>1. AnalysisInv /\ ExportOK /\ TagsOK
    BY SvfInvInit, ExportInit DEF AnalysisInv, Init, SvfInit, TagsOK
  <2>2. (\A x \in prog.values : after[x] = << >>) /\ entry = << >> /\ phase \notin Instrumenting
    BY DEF Init, ZbInit, Instrumenting
  <2>3. ReportsOK
    BY <2>2, NoReport DEF ReportsOK
  <2> QED
    BY <2>1, <2>3
<1>2. ToolsInv /\ [Next]_vars => ToolsInv'
  BY AnalysisKept, ExportStep, TagsStep, ReportsStep
<1>3. ToolsInv => ReportsKnown
  BY KnownReports
<1> HIDE DEF ToolsInv
<1> QED
  BY <1>1, <1>2, <1>3, PTL DEF Spec

-----------------------------------------------------------------------------
(* The parameters that indirect uses are tagged with. *)

\* The stores into the dominator of the use at x, and the parameter that one of them keeps.
StoresFor(x) == Elements(Answers(svf.argStores, findFirstDominator(x)))
Stored(s) == check_parameter_aliasing(s.src, Function(s.fn))

\* The name in a tag is that of a parameter that is stored into the dominator of its use.
NamesStored(t) ==
  \E s \in StoresFor(t.on) :
    /\ Function(s.fn) \in instrumentedFunctions
    /\ Stored(s) # 0 /\ t.val.param = Params(Function(s.fn))[Stored(s)].name

NamesOK == \A t \in tags : t.key = <<"ziuse">> => NamesStored(t)

LEMMA StoredKept ==
  ASSUME prog' = prog
  PROVE  \A x, f : check_parameter_aliasing(x, f)' = check_parameter_aliasing(x, f)
  BY DEF check_parameter_aliasing, Params

LEMMA NamesKept ==
  ASSUME NamesOK, prog' = prog, instrumentedFunctions \subseteq instrumentedFunctions',
         NEW t \in tags, t.key = <<"ziuse">>
  PROVE  NamesStored(t)'
<1>1. PICK s \in StoresFor(t.on) :
        /\ Function(s.fn) \in instrumentedFunctions
        /\ Stored(s) # 0 /\ t.val.param = Params(Function(s.fn))[Stored(s)].name
  BY DEF NamesOK, NamesStored
<1>2. Stored(s)' = Stored(s)
  BY StoredKept DEF Stored, Function
<1>3. Params(Function(s.fn))' = Params(Function(s.fn)) /\ StoresFor(t.on)' = StoresFor(t.on)
  BY DEF Params, Function, StoresFor
<1>4. /\ s \in StoresFor(t.on)' /\ Function(s.fn) \in instrumentedFunctions'
      /\ Stored(s)' # 0 /\ t.val.param = Params(Function(s.fn))'[Stored(s)'].name
  BY <1>1, <1>2, <1>3
<1> QED
  BY <1>4 DEF NamesStored

\* Metadata of another kind leaves the names alone.
LEMMA OtherNames ==
  ASSUME NamesOK, prog' = prog, instrumentedFunctions \subseteq instrumentedFunctions',
         \A t \in tags' : t \in tags \/ t.key # <<"ziuse">>
  PROVE  NamesOK'
<1>1. ASSUME NEW t \in tags', t.key = <<"ziuse">> PROVE NamesStored(t)'
  BY <1>1, NamesKept
<1> QED
  BY <1>1 DEF NamesOK

LEMMA NewMetadata ==
  ASSUME NEW T, NEW on, NEW key, NEW val, NEW t \in setMetadata(T, on, key, val), t \notin T
  PROVE  t.on = on /\ t.key = key /\ t.val = val
  BY DEF setMetadata

LEMMA OriginalsGrow ==
  ASSUME [Next]_vars PROVE instrumentedFunctions \subseteq instrumentedFunctions'
<1>1. CASE PassNext
  BY <1>1 DEF PassNext, InputWrapper, instrumentFunction, instrumentCalls, removeFunction
<1>2. CASE SvfNext \/ NextPart
  BY <1>2, SvfSteps, PartSteps DEF passVars
<1>3. CASE ZbNext
  BY <1>3, ZbSteps DEF passVars, PassRefs
<1>4. CASE UNCHANGED vars
  BY <1>4 DEF vars, passVars
<1> QED
  BY <1>1, <1>2, <1>3, <1>4 DEF Next

LEMMA IndirectParamNames ==
  ASSUME AnalysisInv, NamesOK, prog' = prog, UNCHANGED instrumentedFunctions, IndirectParam
  PROVE  NamesOK'
<1> DEFINE t == Head(work)
           all == Answers(svf.argStores, t.val)
           fitting == {k \in DOMAIN all :
                         /\ Function(all[k].fn) \in instrumentedFunctions
                         /\ check_parameter_aliasing(all[k].src, Function(all[k].fn)) # 0}
           s == all[Min(fitting)]
           on == Ent(t.use).val
           name == Params(Function(s.fn))[check_parameter_aliasing(s.src, Function(s.fn))].name
<1>1. /\ work # << >> /\ t.do = "iuse"
      /\ \/ UNCHANGED tags
         \/ fitting # {} /\ tags' = setMetadata(tags, on, <<"ziuse">>, Named(name))
  BY Zenon DEF IndirectParam
<1>2. t.val \in prog.values /\ t.val = findFirstDominator(on)
  <2>1. TurnOK(ents, t)
    BY Zenon, <1>1, SvfFacts DEF AnalysisInv
  <2> QED
    BY Zenon, <1>1, <2>1 DEF TurnOK, Ent
<1>3. CASE UNCHANGED tags
  BY <1>3, OtherNames
<1>4. CASE fitting # {} /\ tags' = setMetadata(tags, on, <<"ziuse">>, Named(name))
  <2>1. Min(fitting) \in fitting
    <3>1. Lists(svf.argStores, prog.values, [fn : STRING, src : Value])
      BY AnswersAssumption, Zenon DEF AnalysisInv, ModuleInv
    <3>2. all \in Seq([fn : STRING, src : Value])
      BY <1>2, <3>1, AnswersIn
    <3> HIDE DEF all
    <3>3. fitting \subseteq Nat
      BY <3>2
    <3> HIDE DEF fitting
    <3> QED
      BY <1>4, <3>3, MinIsLeast
  <2>2. s \in StoresFor(on) /\ Function(s.fn) \in instrumentedFunctions /\ Stored(s) # 0
    <3>1. Min(fitting) \in DOMAIN all
      BY Zenon, <2>1
    <3>2. s \in Elements(all)
      BY <3>1 DEF Elements
    <3>3. all = Answers(svf.argStores, findFirstDominator(on))
      BY <1>2
    <3> QED
      BY Zenon, <2>1, <3>2, <3>3 DEF StoresFor, Stored
  <2>3. PICK o, x : /\ tags' = setMetadata(tags, o, <<"ziuse">>, Named(Params(Function(x.fn))[Stored(x)].name))
                    /\ x \in StoresFor(o)
                    /\ Function(x.fn) \in instrumentedFunctions /\ Stored(x) # 0
    <3>1. name = Params(Function(s.fn))[Stored(s)].name
      BY DEF Stored
    <3> HIDE DEF name, s, on
    <3> QED
      BY <1>4, <2>2, <3>1
  <2>4. ASSUME NEW u \in tags', u.key = <<"ziuse">> PROVE NamesStored(u)'
    <3>1. CASE u \in tags
      BY <2>4, <3>1, NamesKept
    <3>2. CASE u \notin tags
      <4>1. u.on = o /\ u.val = Named(Params(Function(x.fn))[Stored(x)].name)
        BY <2>3, <3>2, NewMetadata
      <4>2. u.val.param = Params(Function(x.fn))[Stored(x)].name
        BY <4>1 DEF Named
      <4>3. /\ Stored(x)' = Stored(x) /\ StoresFor(o)' = StoresFor(o)
            /\ Params(Function(x.fn))' = Params(Function(x.fn))
        BY StoredKept DEF Stored, Function, StoresFor, Params
      <4> QED
        BY <2>3, <4>1, <4>2, <4>3 DEF NamesStored
    <3> QED
      BY <3>1, <3>2
  <2> QED
    BY <2>4 DEF NamesOK
<1> QED
  BY Zenon, <1>1, <1>3, <1>4

LEMMA NamesStep ==
  ASSUME AnalysisInv, NamesOK, [Next]_vars PROVE NamesOK'
<1>0. prog' = prog /\ instrumentedFunctions \subseteq instrumentedFunctions'
  BY OriginalsGrow DEF Next, vars
<1>k. <<"ziuse">> \notin RowKeys /\ \A c, k : zref(c, k) # <<"ziuse">>
  <2>1. \A x : <<"zref", x>> # <<"ziuse">>
    OBVIOUS
  <2> QED
    BY <2>1, KeysDiffer DEF zref
<1>1. CASE UNCHANGED tags
  BY <1>0, <1>1, OtherNames
<1>2. CASE RefParam \/ RefField
  <2>1. \/ UNCHANGED tags
        \/ \E on, val, c, k : tags' = setMetadata(tags, on, zref(c, k), val)
    BY Zenon, <1>2 DEF RefParam, RefField, Undefined, svfVars
  <2>2. \A t \in tags' : t \in tags \/ t.key # <<"ziuse">>
    BY <1>k, <2>1, NewMetadata
  <2> QED
    BY <1>0, <2>2, OtherNames
<1>3. CASE IndirectParam
  BY Zenon, <1>0, <1>3, IndirectParamNames DEF IndirectParam, passVars
<1>4. CASE TagValues
  <2>1. PICK last \in Survivors :
          tags' = tags \cup {[on |-> Ent(id).val, key |-> tagKey(id), val |-> Literal(id)] : id \in last}
    BY <1>4 DEF TagValues
  <2>2. \A id : tagKey(id) \in RowKeys
    BY DEF tagKey, RowKeys
  <2>3. \A t \in tags' : t \in tags \/ t.key # <<"ziuse">>
    BY <1>k, <2>1, <2>2
  <2> QED
    BY <1>0, <2>3, OtherNames
<1>5. RefParam \/ RefField \/ IndirectParam \/ TagValues \/ UNCHANGED tags
  <2>1. CASE SvfNext
    BY <2>1, MapGrows
  <2>2. CASE ~SvfNext
    BY <2>2, PartSteps, ZbSteps DEF Next, PassRefs, vars, svfVars
  <2> QED
    BY <2>1, <2>2
<1> QED
  BY <1>1, <1>2, <1>3, <1>4, <1>5

-----------------------------------------------------------------------------
(* The references that indirect uses are reported with. *)

\* The dominator of the use b is also written elsewhere, or from a parameter without identifier.
AlsoWritten(b) ==
  \E s \in StoresFor(b.id) :
    LET a == check_parameter_aliasing(s.src, b.fn)
    IN s.fn # b.fn.name \/ (a # 0 /\ a \notin Pointers(b.fn))

Excused(x) == \A b \in Base : b.id = x => AlsoWritten(b)

ReferencesOK(s, x) == IsSeq(s) /\ \A r \in Elements(s) : r.ref = Uninitialised => Excused(x)

IndirectOK == \A x \in prog.values : ReferencesOK(after[x], x)

LEMMA ExcusedKept ==
  ASSUME prog' = prog
  PROVE  \A x : Excused(x)' <=> Excused(x)
<1>1. ASSUME NEW b PROVE AlsoWritten(b)' <=> AlsoWritten(b)
  <2>1. StoresFor(b.id)' = StoresFor(b.id) /\ Pointers(b.fn)' = Pointers(b.fn)
    BY DEF StoresFor, Pointers, Params
  <2>2. \A s : check_parameter_aliasing(s.src, b.fn)' = check_parameter_aliasing(s.src, b.fn)
    BY StoredKept
  <2> QED
    BY <2>1, <2>2 DEF AlsoWritten
<1>2. Base' = Base
  BY BaseKept
<1> QED
  BY <1>1, <1>2 DEF Excused

\* An instruction and the one that it stands for have the same parameters.
LEMMA SameParameters ==
  ASSUME NEW f, NEW g, f.name = g.name
  PROVE  /\ Params(f) = Params(g) /\ Pointers(f) = Pointers(g)
         /\ \A x : check_parameter_aliasing(x, f) = check_parameter_aliasing(x, g)
<1>1. Params(f) = Params(g)
  BY DEF Params
<1>2. \A x : check_parameter_aliasing(x, f) = check_parameter_aliasing(x, g)
  BY <1>1 DEF check_parameter_aliasing
<1> QED
  BY <1>1, <1>2 DEF Pointers

LEMMA Unresolved ==
  ASSUME ModuleInv, NamesOK, Settled(code), NEW i \in code,
         Indirect(i), Resolve(i) = Uninitialised
  PROVE  Excused(i.id)
<1>1. SUFFICES ASSUME NEW b \in Base, b.id = i.id PROVE AlsoWritten(b)
  BY DEF Excused
<1>2. Stands(i, b) /\ IsOriginal(b.fn)
  <2>1. PICK c \in Base : Stands(i, c)
    BY DEF Settled
  <2>2. (\A d, e \in Base : d.id = e.id => d = e) /\ \A d \in Base : Untouched(d)
    BY BaseFacts DEF ModuleInv
  <2> QED
    BY <1>1, <2>1, <2>2 DEF Stands, Untouched
<1>3. PICK t \in tags : t.on = b.id /\ t.key = <<"ziuse">> /\ Tag(i.id, <<"ziuse">>) = t.val
  BY <1>1 DEF Indirect, Tagged, Tag
<1>4. PICK s \in StoresFor(b.id) :
        /\ Function(s.fn) \in instrumentedFunctions
        /\ Stored(s) # 0 /\ t.val.param = Params(Function(s.fn))[Stored(s)].name
  BY <1>3 DEF NamesOK, NamesStored
<1>5. CASE s.fn # b.fn.name
  BY <1>4, <1>5 DEF AlsoWritten
<1>6. CASE s.fn = b.fn.name
  <2>1. Function(s.fn) = b.fn
    BY <1>2, <1>6 DEF IsOriginal, Function
  <2>2. i.fn = Clone(b.fn) /\ i.fn.clone /\ i.fn.name = b.fn.name
    BY <1>2, <1>4, <2>1, CloneFields DEF Stands, Home
  <2>3. ~ \E k \in Pointers(i.fn) : Params(i.fn)[k].name = t.val.param
    <3>1. \A name : Named(name).id # Uninitialised.id
      BY DEF Named, Uninitialised
    <3> QED
      BY <1>3, <2>2, <3>1 DEF Resolve
  <2>4. Params(i.fn) = Params(b.fn) /\ Pointers(i.fn) = Pointers(b.fn)
    BY <2>2, SameParameters
  <2>5. Stored(s) \notin Pointers(b.fn)
    BY <1>4, <2>1, <2>3, <2>4
  <2> QED
    BY <1>4, <2>1, <2>5 DEF AlsoWritten, Stored
<1> QED
  BY <1>5, <1>6

LEMMA NoReferences == \A x : ReferencesOK(<< >>, x)
<1> DEFINE s == << >>
<1>1. Elements(s) = {} /\ IsSeq(s)
  BY EmptyList
<1> QED
  BY <1>1 DEF ReferencesOK

LEMMA OneReference ==
  ASSUME NEW r, NEW x, r.ref = Uninitialised => Excused(x) PROVE ReferencesOK(<<r>>, x)
<1> DEFINE s == <<r>>
<1>1. IsSeq(s) /\ Elements(s) = {r}
  BY Single
<1> QED
  BY <1>1 DEF ReferencesOK

LEMMA ReferencesJoined ==
  ASSUME NEW x, NEW s, ReferencesOK(s, x), NEW t, ReferencesOK(t, x) PROVE ReferencesOK(s \o t, x)
<1> DEFINE w == s \o t
<1>1. w = s \o t /\ IsSeq(s) /\ IsSeq(t)
  BY DEF ReferencesOK
<1> HIDE DEF w
<1>2. IsSeq(w) /\ Elements(w) = Elements(s) \cup Elements(t)
  BY <1>1, Joined
<1> QED
  BY <1>1, <1>2 DEF ReferencesOK

\* A report without a reference.
LEMMA NoRefReport ==
  ASSUME NEW call, NEW id, NEW addr, NEW x
  PROVE  ReferencesOK(<<Report(call, id, NoRef, addr)>>, x)
<1> DEFINE r == Report(call, id, NoRef, addr)
<1>1. NoRef # Uninitialised
  <2>1. NoRef.id = 0 /\ Uninitialised.id = -1
    BY DEF NoRef, Uninitialised
  <2> QED
    BY <2>1
<1>2. r.ref = NoRef
  BY DEF Report
<1> HIDE DEF r
<1>3. ReferencesOK(<<r>>, x)
  BY <1>1, <1>2, OneReference
<1> QED
  BY <1>3 DEF r

LEMMA UseReferences ==
  ASSUME ModuleInv, NamesOK, Settled(code), NEW i \in code,
         NEW key, NEW addr, NEW direct, NEW indirect
  PROVE  ReferencesOK(UseReport(i, key, addr, direct, indirect), i.id)
<1> DEFINE id == Tag(i.id, key).id
           I == Report(indirect, id, Resolve(i), addr)
<1>1. \/ UseReport(i, key, addr, direct, indirect) = << >>
      \/ Indirect(i) /\ UseReport(i, key, addr, direct, indirect) = <<I>>
      \/ UseReport(i, key, addr, direct, indirect) = <<Report(direct, id, NoRef, addr)>>
  BY DEF UseReport
<1>2. ASSUME Indirect(i) PROVE ReferencesOK(<<I>>, i.id)
  <2>1. I.ref = Resolve(i)
    BY DEF Report
  <2>2. I.ref = Uninitialised => Excused(i.id)
    BY <1>2, <2>1, Unresolved
  <2> HIDE DEF I
  <2> QED
    BY <2>2, OneReference
<1> HIDE DEF I, id
<1> QED
  BY <1>1, <1>2, NoReferences, NoRefReport

LEMMA PartReferences ==
  ASSUME ModuleInv, NamesOK, Settled(code), NEW i \in code
  PROVE  /\ ReferencesOK(LoopPart(i), i.id) /\ ReferencesOK(ExitPart(i), i.id)
         /\ ReferencesOK(DefPart(i), i.id) /\ ReferencesOK(StorePart(i), i.id)
         /\ ReferencesOK(LibPart(i), i.id)
<1>1. ReferencesOK(LoopDefs(i), i.id) /\ ReferencesOK(DefPart(i), i.id)
  BY NoReferences, NoRefReport DEF LoopDefs, DefPart, DefReport
<1>2. ReferencesOK(LoopStores(i), i.id) /\ ReferencesOK(StorePart(i), i.id)
  BY UseReferences DEF LoopStores, StorePart
<1>3. ReferencesOK(LoopLibs(i), i.id) /\ ReferencesOK(LibPart(i), i.id)
  BY UseReferences, NoReferences DEF LoopLibs, LibPart
<1>4. ReferencesOK(LoopPart(i), i.id)
  BY <1>1, <1>2, <1>3, ReferencesJoined DEF LoopPart
<1>5. ReferencesOK(ExitPart(i), i.id)
  BY NoReferences, NoRefReport DEF ExitPart
<1> QED
  BY <1>1, <1>2, <1>3, <1>4, <1>5

\* A part's loop over a set of instructions, P[i] what it inserts behind i.
LEMMA ReferencesInserted ==
  ASSUME IndirectOK, UNCHANGED prog,
         NEW set, NEW P, \A i \in set : ReferencesOK(P[i], i.id),
         after' = [x \in prog.values |->
                     IF \E i \in set : i.id = x THEN P[CHOOSE i \in set : i.id = x] \o after[x]
                                               ELSE after[x]]
  PROVE  IndirectOK'
<1>1. ASSUME NEW x \in prog.values PROVE ReferencesOK(after'[x], x)
  <2>1. ReferencesOK(after[x], x)
    BY DEF IndirectOK
  <2>2. CASE \E i \in set : i.id = x
    <3> DEFINE j == CHOOSE i \in set : i.id = x
    <3>1. j \in set /\ j.id = x
      BY <2>2
    <3>2. after'[x] = P[j] \o after[x]
      BY <2>2
    <3> HIDE DEF j
    <3> QED
      BY <2>1, <3>1, <3>2, ReferencesJoined
  <2>3. CASE ~ \E i \in set : i.id = x
    BY <2>1, <2>3
  <2> QED
    BY <2>2, <2>3
<1>2. \A x : Excused(x)' <=> Excused(x)
  BY ExcusedKept
<1> QED
  BY <1>1, <1>2 DEF IndirectOK, ReferencesOK

LEMMA ReferencesStep ==
  ASSUME AnalysisInv, NamesOK, IndirectOK, [Next]_vars PROVE IndirectOK'
<1>0. UNCHANGED prog
  BY DEF Next, vars
<1>1. CASE UNCHANGED after
  BY <1>0, <1>1, ExcusedKept DEF IndirectOK, ReferencesOK
<1>2. ASSUME phase \in {"z_loops", "z_exit", "z_defs", "z_stores", "z_libs"}
      PROVE  \A i \in code :
               /\ ReferencesOK(LoopPart(i), i.id) /\ ReferencesOK(ExitPart(i), i.id)
               /\ ReferencesOK(DefPart(i), i.id) /\ ReferencesOK(StorePart(i), i.id)
               /\ ReferencesOK(LibPart(i), i.id)
  <2>1. ModuleInv /\ Settled(code)
    BY <1>2, FinalSettled DEF AnalysisInv, ModuleInv
  <2> QED
    BY <2>1, PartReferences
<1>3. CASE InsertLoop
  <2> DEFINE P == [i \in InLoops |-> LoopPart(i)]
  <2>1. \A i \in InLoops : ReferencesOK(P[i], i.id)
    BY <1>2, <1>3 DEF InLoops, InsertLoop, Insert
  <2>2. after' = [x \in prog.values |->
                    IF \E i \in InLoops : i.id = x THEN P[CHOOSE i \in InLoops : i.id = x] \o after[x]
                                                   ELSE after[x]]
    BY <1>3 DEF InsertLoop, Insert
  <2> HIDE DEF P
  <2> QED
    BY <1>0, <2>1, <2>2, ReferencesInserted
<1>4. CASE InsertExit
  <2> DEFINE P == [i \in code |-> ExitPart(i)]
  <2>1. \A i \in code : ReferencesOK(P[i], i.id)
    BY <1>2, <1>4 DEF InsertExit, Insert
  <2>2. after' = [x \in prog.values |->
                    IF \E i \in code : i.id = x THEN P[CHOOSE i \in code : i.id = x] \o after[x]
                                                ELSE after[x]]
    BY <1>4 DEF InsertExit, Insert
  <2> HIDE DEF P
  <2> QED
    BY <1>0, <2>1, <2>2, ReferencesInserted
<1>5. CASE InsertDef
  <2> DEFINE P == [i \in code |-> DefPart(i)]
  <2>1. \A i \in code : ReferencesOK(P[i], i.id)
    BY <1>2, <1>5 DEF InsertDef, Insert
  <2>2. after' = [x \in prog.values |->
                    IF \E i \in code : i.id = x THEN P[CHOOSE i \in code : i.id = x] \o after[x]
                                                ELSE after[x]]
    BY <1>5 DEF InsertDef, Insert
  <2> HIDE DEF P
  <2> QED
    BY <1>0, <2>1, <2>2, ReferencesInserted
<1>6. CASE InsertStore
  <2> DEFINE P == [i \in code |-> StorePart(i)]
  <2>1. \A i \in code : ReferencesOK(P[i], i.id)
    BY <1>2, <1>6 DEF InsertStore, Insert
  <2>2. after' = [x \in prog.values |->
                    IF \E i \in code : i.id = x THEN P[CHOOSE i \in code : i.id = x] \o after[x]
                                                ELSE after[x]]
    BY <1>6 DEF InsertStore, Insert
  <2> HIDE DEF P
  <2> QED
    BY <1>0, <2>1, <2>2, ReferencesInserted
<1>7. CASE InsertLib
  <2> DEFINE P == [i \in code |-> LibPart(i)]
  <2>1. \A i \in code : ReferencesOK(P[i], i.id)
    BY <1>2, <1>7 DEF InsertLib, Insert
  <2>2. after' = [x \in prog.values |->
                    IF \E i \in code : i.id = x THEN P[CHOOSE i \in code : i.id = x] \o after[x]
                                                ELSE after[x]]
    BY <1>7 DEF InsertLib, Insert
  <2> HIDE DEF P
  <2> QED
    BY <1>0, <2>1, <2>2, ReferencesInserted
<1> QED
  BY <1>1, <1>3, <1>4, <1>5, <1>6, <1>7 DEF Next, ZbNext, InsertInit, PassRefs, zbVars, vars

LEMMA ReferencesHold ==
  ASSUME AnalysisInv, IndirectOK PROVE IndirectRefs
<1>1. SUFFICES ASSUME phase = "done", NEW i \in code, NEW r \in Elements(after[i.id]),
                      r.ref = Uninitialised
               PROVE  \E s \in StoresFor(i.id) :
                        LET a == check_parameter_aliasing(s.src, i.fn)
                        IN s.fn # i.fn.name \/ (a # 0 /\ a \notin Pointers(i.fn))
  BY DEF IndirectRefs, StoresFor
<1>2. PICK b \in Base : Stands(i, b)
  BY <1>1 DEF AnalysisInv, ModuleInv, Settled
<1>3. b.id = i.id /\ b.id \in prog.values
  <2>1. prog \in Programs /\ ScanfsOK
    BY <1>1 DEF AnalysisInv, ModuleInv, Wrapped
  <2> QED
    BY <1>2, <2>1, BaseCalls DEF Stands, CallOK
<1>4. AlsoWritten(b)
  BY <1>1, <1>3 DEF IndirectOK, ReferencesOK, Excused
<1>5. i.fn.name = b.fn.name
  <2>1. IsOriginal(b.fn)
    BY BaseFacts DEF AnalysisInv, ModuleInv, Untouched
  <2> QED
    BY <1>2, <2>1, CloneFields DEF Stands, Home
<1>6. /\ Pointers(i.fn) = Pointers(b.fn)
      /\ \A x : check_parameter_aliasing(x, i.fn) = check_parameter_aliasing(x, b.fn)
  BY <1>5, SameParameters
<1> QED
  BY <1>3, <1>4, <1>5, <1>6 DEF AlsoWritten

(***************************************************************************)
(* The parameter that an indirect use is reported with is one that its own *)
(* function was given (IndirectRefs): the name svf-ex leaves is taken from *)
(* a store into the use's dominator, and is looked up in vain only where   *)
(* that store is in another function or keeps what is no pointer.          *)
(***************************************************************************)
THEOREM IndirectUsesResolved == Spec => []IndirectRefs
<1> DEFINE Inv == AnalysisInv /\ NamesOK /\ IndirectOK
<1>1. Init => Inv
  <2> SUFFICES ASSUME Init PROVE Inv
    OBVIOUS
  <2>1. AnalysisInv /\ NamesOK
    BY SvfInvInit DEF AnalysisInv, Init, SvfInit, NamesOK
  <2>2. \A x \in prog.values : after[x] = << >>
    BY DEF Init, ZbInit
  <2>3. IndirectOK
    BY <2>2, NoReferences DEF IndirectOK
  <2> QED
    BY <2>1, <2>3
<1>2. Inv /\ [Next]_vars => Inv'
  BY AnalysisKept, NamesStep, ReferencesStep
<1>3. Inv => IndirectRefs
  BY ReferencesHold
<1> HIDE DEF Inv
<1> QED
  BY <1>1, <1>2, <1>3, PTL DEF Spec

-----------------------------------------------------------------------------
(***************************************************************************)
(* What a use lists: everything its instruction may write has a definition *)
(* in its list, or a turn that waits to put one there.                     *)
(***************************************************************************)
Writes(x) == (UNION {Written(b) : b \in {c \in Base : c.id = x}}) \ svf.struct

Listed(es, u, v) == \E d \in Elements(es[u + 1].kids) : d \in Ids(es) /\ v \in es[d + 1].nodes
Pending(w, u, v) == \E t \in Elements(w) : t.do = "target" /\ t.use = u /\ t.val = v
Covered(es, w, u, v) == Listed(es, u, v) \/ Pending(w, u, v)

UseCovered(es, w, u) ==
  es[u + 1].kind \in UseRows => \A v \in Writes(es[u + 1].val) : Covered(es, w, u, v)

CoverOK(es, w) == \A u \in Ids(es) : UseCovered(es, w, u)

\* A library call whose turn comes is one of the module.
SitesOK == phase = "sites" => left \subseteq code

LEMMA WritesKept ==
  ASSUME prog' = prog
  PROVE  \A es, w : CoverOK(es, w)' <=> CoverOK(es, w)
<1>1. Base' = Base
  BY BaseKept
<1>2. ASSUME NEW x PROVE Writes(x)' = Writes(x)
  BY <1>1 DEF Writes, Written, Answers, libParam
<1> QED
  BY <1>2 DEF CoverOK, UseCovered, Covered, Listed, Pending

LEMMA WritesOf ==
  ASSUME prog \in Programs, NEW b \in Base
  PROVE  Writes(b.id) = Written(b) \ svf.struct
<1>1. {c \in Base : c.id = b.id} = {b}
  BY BaseFacts
<1> QED
  BY <1>1 DEF Writes

\* The instruction that stands for another writes what that one writes.
LEMMA WritesSame ==
  ASSUME prog \in Programs, NEW b \in Base, NEW j, Stands(j, b)
  PROVE  Written(j) = Written(b)
<1>1. j.id = b.id /\ j.op = b.op /\ j.args = b.args
  BY DEF Stands
<1>2. IsOriginal(b.callee)
  BY BaseFacts DEF Untouched
<1>3. j.callee.name = b.callee.name
  BY <1>2, CloneFields DEF Stands, Target
<1>4. libParam(j) = libParam(b)
  BY <1>1, <1>3 DEF libParam
<1> QED
  BY <1>1, <1>4 DEF Written

LEMMA ListedKept ==
  ASSUME NEW es, NEW fs, Len(es) \in Nat, Len(fs) \in Nat, Extends(es, fs),
         NEW u \in Ids(es), NEW v, Listed(es, u, v)
  PROVE  Listed(fs, u, v)
<1>1. PICK d \in Elements(es[u + 1].kids) : d \in Ids(es) /\ v \in es[d + 1].nodes
  BY DEF Listed
<1>2. u + 1 \in 1 .. Len(es) /\ d + 1 \in 1 .. Len(es) /\ d \in Ids(fs)
  BY <1>1, InIds DEF Ids, Extends
<1>3. SameEntity(es[u + 1], fs[u + 1]) /\ SameEntity(es[d + 1], fs[d + 1])
  BY <1>2 DEF Extends
<1> QED
  BY <1>1, <1>2, <1>3 DEF Listed, SameEntity

\* What may become of the uses and the turns in one step.
LEMMA CoverKept ==
  ASSUME NEW es, NEW fs, Len(es) \in Nat, Len(fs) \in Nat, Extends(es, fs),
         NEW w, NEW y, CoverOK(es, w),
         \A u \in Ids(fs) \ Ids(es) : UseCovered(fs, y, u),
         \A t \in Elements(w) : t.do = "target" /\ t.val \notin svf.struct =>
           t \in Elements(y) \/ Listed(fs, t.use, t.val)
  PROVE  CoverOK(fs, y)
<1>1. SUFFICES ASSUME NEW u \in Ids(es), fs[u + 1].kind \in UseRows, NEW v \in Writes(fs[u + 1].val)
               PROVE  Covered(fs, y, u, v)
  BY DEF CoverOK, UseCovered
<1>2. SameEntity(es[u + 1], fs[u + 1])
  BY <1>1, InIds DEF Extends
<1>3. Covered(es, w, u, v)
  BY <1>1, <1>2 DEF CoverOK, UseCovered, SameEntity
<1>4. CASE Listed(es, u, v)
  BY <1>4, ListedKept DEF Covered
<1>5. CASE Pending(w, u, v)
  <2>1. v \notin svf.struct
    BY <1>1 DEF Writes
  <2> QED
    BY <1>5, <2>1 DEF Pending, Covered
<1> QED
  BY <1>3, <1>4, <1>5 DEF Covered

LEMMA NewDefsCovered ==
  ASSUME NEW es, NEW fs, NewDefs(es, fs), NEW w
  PROVE  \A u \in Ids(fs) \ Ids(es) : UseCovered(fs, w, u)
<1>1. \A u \in Ids(fs) \ Ids(es) : fs[u + 1].kind \notin UseRows
  BY DEF NewDefs, DefRows, UseRows
<1> QED
  BY <1>1 DEF UseCovered

LEMMA HeadOrTail ==
  ASSUME NEW s, IsSeq(s), s # << >>, NEW x \in Elements(s)
  PROVE  x = Head(s) \/ x \in Elements(Tail(s))
<1> DEFINE S == Elements(s)
           t == Tail(s)
<1>1. s \in Seq(S)
  BY DEF IsSeq
<1>2. PICK k \in DOMAIN s : x = s[k]
  BY DEF Elements
<1> HIDE DEF S
<1>3. /\ DOMAIN s = 1 .. Len(s) /\ Len(s) \in Nat /\ Head(s) = s[1]
      /\ DOMAIN t = 1 .. Len(s) - 1 /\ \A j \in 1 .. Len(s) - 1 : t[j] = s[j + 1]
  BY <1>1
<1> HIDE DEF t
<1>4. CASE k # 1
  <2>1. k - 1 \in DOMAIN t /\ t[k - 1] = s[k]
    BY <1>2, <1>3, <1>4
  <2>2. x \in Elements(t)
    BY <1>2, <2>1 DEF Elements
  <2> QED
    BY <2>2 DEF t
<1> QED
  BY <1>2, <1>3, <1>4

\* The turns that wait stay, but for the one that is handled.
LEMMA TurnsStay ==
  ASSUME NEW w, IsSeq(w), w # << >>, NEW y, NEW z,
         y = Tail(w) \/ (IsSeq(z) /\ y = z \o Tail(w))
  PROVE  \A t \in Elements(w) : t = Head(w) \/ t \in Elements(y)
<1>1. Elements(Tail(w)) \subseteq Elements(y)
  <2> DEFINE r == Tail(w)
  <2>1. IsSeq(r)
    BY HeadTail
  <2>2. y = r \/ (IsSeq(z) /\ y = z \o r)
    OBVIOUS
  <2> HIDE DEF r
  <2>3. Elements(r) \subseteq Elements(y)
    <3>1. CASE IsSeq(z) /\ y = z \o r
      <4>1. Elements(y) = Elements(z) \cup Elements(r)
        BY <2>1, <3>1, Joined
      <4> QED
        BY <4>1
    <3> QED
      BY <2>2, <3>1
  <2> QED
    BY <2>3 DEF r
<1> QED
  BY <1>1, HeadOrTail

LEMMA LoopPending ==
  ASSUME NEW u, NEW s, IsSeq(s), NEW p, NEW w, w = TargetLoop(u, s, p)
  PROVE  IsSeq(w) /\ \A v \in Elements(s) : Pending(w, u, v)
<1>1. w = [k \in DOMAIN s |-> TargetTurn(u, s[k], p)]
  BY DEF TargetLoop
<1>2. DOMAIN w = DOMAIN s /\ w = [k \in DOMAIN s |-> w[k]]
  BY <1>1
<1>3. IsSeq(w) /\ Elements(w) = {w[k] : k \in DOMAIN s}
  BY <1>2, LoopList
<1>4. ASSUME NEW v \in Elements(s) PROVE Pending(w, u, v)
  <2>1. PICK k \in DOMAIN s : v = s[k]
    BY DEF Elements
  <2>2. w[k] = TargetTurn(u, v, p) /\ w[k] \in Elements(w)
    BY <1>1, <1>3, <2>1
  <2>3. w[k].do = "target" /\ w[k].use = u /\ w[k].val = v
    BY <2>2 DEF TargetTurn
  <2> QED
    BY <2>2, <2>3 DEF Pending
<1> QED
  BY <1>3, <1>4

LEMMA PendingJoined ==
  ASSUME NEW z, IsSeq(z), NEW w, IsSeq(w), NEW y, y = z \o w, NEW u, NEW v, Pending(z, u, v)
  PROVE  Pending(y, u, v)
<1>1. Elements(y) = Elements(z) \cup Elements(w)
  BY Joined
<1> QED
  BY <1>1 DEF Pending

\* What is put into a list is in it.
LEMMA UnderLists ==
  ASSUME NEW es, EntsOK(es), NEW id \in Ids(es), NEW d, NEW fs, fs = Under(es, id, d)
  PROVE  d \in Elements(fs[id + 1].kids)
<1> DEFINE n == id + 1
           e == es[n]
           s == <<d>>
           l == e.kids
           k == l \o s
<1>0. IsSeq(es) /\ Len(es) \in Nat
  BY SeqDomain DEF EntsOK
<1>1. n \in 1 .. Len(es)
  BY <1>0, InIds
<1>2. IsEntity(e) /\ IsSeq(l)
  BY <1>1 DEF EntsOK, EntityOK
<1>3. IsSeq(s) /\ Elements(s) = {d}
  BY Single
<1>4. fs[n] = WithKids(e, k)
  <2>1. fs = Listing(es, n, s)
    BY UnderIs
  <2> QED
    BY <1>0, <1>1, <2>1, OneListing
<1>k. k = l \o s
  OBVIOUS
<1> HIDE DEF s, l, k
<1>5. Elements(k) = Elements(l) \cup {d}
  <2>1. Elements(k) = Elements(l) \cup Elements(s)
    BY <1>2, <1>3, <1>k, Joined
  <2> QED
    BY <1>3, <2>1
<1> HIDE DEF e
<1>6. WithKids(e, k) = [kind |-> e.kind, val |-> e.val, nodes |-> e.nodes, type |-> e.type,
                        offset |-> e.offset, kids |-> k]
  BY <1>2 DEF IsEntity, WithKids
<1>7. fs[n].kids = k
  BY <1>4, <1>6
<1> QED
  BY <1>5, <1>7

\* A definition that is listed under n: made if it has to be, and nothing else is.
LEMMA DefCovers ==
  ASSUME SvfInv, prog \in Programs, NEW v \in prog.values, Known(v),
         NEW n \in Ids(ents), NEW fs, fs = Under(ents \o getOrBuildDef(v).new, n, getOrBuildDef(v).id)
  PROVE  /\ NewDefs(ents, fs) /\ Listed(fs, n, v)
         /\ Extends(ents, fs) /\ Len(fs) \in Nat /\ Len(ents) \in Nat
<1> DEFINE d == getOrBuildDef(v).id
           es == ents \o getOrBuildDef(v).new
<1>0. EntsOK(ents) /\ DefsOK(ents, deflist) /\ Len(ents) \in Nat
  BY SvfFacts
<1>1. /\ EntsOK(es) /\ Extends(ents, es) /\ Len(es) \in Nat
      /\ d \in Ids(es) /\ es[d + 1].kind \in DefRows /\ v \in es[d + 1].nodes /\ NewDefs(ents, es)
  BY <1>0, DefFacts DEF Answered
<1>f. fs = Under(es, n, d)
  OBVIOUS
<1> HIDE DEF d, es
<1>2. n \in Ids(es)
  BY <1>0, <1>1 DEF Ids, Extends
<1>3. EntsOK(fs) /\ Extends(es, fs) /\ Len(fs) = Len(es)
  BY <1>1, <1>2, <1>f, UnderKept, DefListed
<1>4. d \in Elements(fs[n + 1].kids)
  BY <1>1, <1>2, <1>f, UnderLists
<1>5. \A u \in Ids(fs) : u \in Ids(es) /\ SameEntity(es[u + 1], fs[u + 1])
  BY <1>1, <1>3, InIds DEF Ids, Extends
<1>6. NewDefs(ents, fs)
  BY <1>1, <1>5 DEF NewDefs, SameEntity
<1>7. d \in Ids(fs) /\ v \in fs[d + 1].nodes
  BY <1>1, <1>3, <1>5 DEF SameEntity, Ids
<1>8. Extends(ents, fs)
  BY <1>0, <1>1, <1>3, ExtendsTwice
<1> QED
  BY <1>0, <1>1, <1>3, <1>4, <1>6, <1>7, <1>8 DEF Listed

-----------------------------------------------------------------------------
(* One lemma for each action of svf-ex that makes entities or handles a target. *)

\* No entity is made, and no target is handled.
LEMMA CoverStill ==
  ASSUME SvfInv, CoverOK(ents, work), UNCHANGED ents,
         \A t \in Elements(work) : t.do = "target" /\ t.val \notin svf.struct => t \in Elements(work')
  PROVE  CoverOK(ents', work')
<1>1. Len(ents) \in Nat /\ Extends(ents, ents)
  BY SvfFacts
<1>2. CoverOK(ents, work')
  BY <1>1, CoverKept
<1> QED
  BY <1>2

\* A turn that is no target is handled, or there is none.
LEMMA OtherTurns ==
  ASSUME SvfInv, NEW z,
         \/ work = << >>
         \/ /\ work # << >> /\ Head(work).do = "target" => Head(work).val \in svf.struct
            /\ work' = Tail(work) \/ (IsSeq(z) /\ work' = z \o Tail(work))
  PROVE  \A t \in Elements(work) : t.do = "target" /\ t.val \notin svf.struct => t \in Elements(work')
<1>1. IsSeq(work)
  BY SvfFacts DEF Turns
<1>2. CASE work = << >>
  BY <1>2, EmptyList
<1>3. CASE work # << >>
  BY <1>1, <1>3, TurnsStay
<1> QED
  BY <1>2, <1>3

\* One entity is made, and nothing waited.
LEMMA InputSiteCover ==
  ASSUME SvfInv, CoverOK(ents, work), InputSite PROVE CoverOK(ents', work')
<1>1. PICK c \in left :
        \/ ents' = Append(ents, In(c.id, << >>))
        \/ Undefined
  BY DEF InputSite
<1>2. work = << >>
  BY DEF InputSite
<1>3. CASE Undefined
  BY <1>3, CoverStill, OtherTurns, <1>2 DEF Undefined, svfVars
<1>4. CASE ents' = Append(ents, In(c.id, << >>))
  <2> DEFINE e == In(c.id, << >>)
             n == Len(ents)
             fs == ents'
  <2>1. IsSeq(ents) /\ n \in Nat
    BY SvfFacts DEF EntsOK
  <2>2. e.kind = "IN"
    BY DEF In, Entity
  <2>3. fs = Append(ents, e)
    BY <1>4
  <2> HIDE DEF e, fs
  <2>4. Len(fs) = n + 1 /\ \A k \in 1 .. Len(fs) : fs[k] = IF k <= n THEN ents[k] ELSE e
    BY <2>1, <2>3, OneMore
  <2>5. Extends(ents, fs) /\ fs[n + 1] = e
    BY <2>1, <2>4 DEF Extends, SameEntity
  <2>6. \A u \in Ids(fs) \ Ids(ents) : u = n
    BY <2>1, <2>4 DEF Ids
  <2>7. \A u \in Ids(fs) \ Ids(ents) : UseCovered(fs, work', u)
    BY <2>2, <2>5, <2>6 DEF UseCovered, UseRows
  <2>8. Elements(work) = {}
    BY <1>2, EmptyList
  <2>9. Len(fs) \in Nat
    BY <2>1, <2>4
  <2>10. CoverOK(fs, work')
    BY <2>1, <2>5, <2>7, <2>8, <2>9, CoverKept
  <2> QED
    BY <2>10 DEF fs
<1> QED
  BY <1>1, <1>3, <1>4

LEMMA LibSiteCover ==
  ASSUME SvfInv, ModuleInv, SitesOK, CoverOK(ents, work), LibSite PROVE CoverOK(ents', work')
<1>1. PICK c \in left :
        /\ c.callee.name \in libFunctions
        /\ ents' = ents \o <<In(c.id, <<nextId + 1>>), LUse(c.id)>>
        /\ work' = Loop(Answers(svf.defs, libParam(c)), LAMBDA v : TargetTurn(nextId + 1, v, c.id))
  BY DEF LibSite
<1>2. work = << >> /\ phase = "sites" /\ c.op = "call" /\ CallOK(c) /\ c \in code
  BY <1>1 DEF LibSite, SvfInv, LeftOK, SitesOK
<1> DEFINE n == Len(ents)
           e == In(c.id, <<nextId + 1>>)
           u == LUse(c.id)
           new == <<e, u>>
           fs == ents'
           s == DefsOf(libParam(c))
           w == work'
<1>3. IsSeq(ents) /\ n \in Nat /\ nextId = n
  BY SvfFacts DEF EntsOK, nextId
<1>4. e.kind = "IN" /\ u.kind = "LUSE" /\ u.val = c.id
  BY DEF In, LUse, Entity
<1>5. fs = ents \o new
  BY <1>1
<1> HIDE DEF e, u
<1>6. IsSeq(new) /\ Len(new) = 2 /\ new[1] = e /\ new[2] = u
  <2>1. new \in Seq({e, u}) /\ Len(new) = 2 /\ new[1] = e /\ new[2] = u
    OBVIOUS
  <2> QED
    BY <2>1, IsSeqFacts
<1>7. IsSeq(s)
  BY <1>1, <1>2, LibTargets, IsSeqFacts
<1>8. w = TargetLoop(n + 1, s, c.id)
  BY <1>1, <1>3 DEF Loop, TargetLoop, DefsOf
<1> HIDE DEF new, fs, w
<1>9. Len(fs) = n + 2 /\ \A k \in 1 .. Len(fs) : fs[k] = IF k <= n THEN ents[k] ELSE new[k - n]
  <2>1. Len(fs) = Len(ents) + Len(new)
    BY <1>3, <1>5, <1>6, Joined
  <2>2. \A k \in 1 .. Len(fs) : fs[k] = IF k <= Len(ents) THEN ents[k] ELSE new[k - Len(ents)]
    BY <1>3, <1>5, <1>6, Joined
  <2> QED
    BY <1>6, <2>1, <2>2
<1> HIDE DEF s
<1>10. \A v \in Elements(s) : Pending(w, n + 1, v)
  <2> HIDE DEF n
  <2> QED
    BY <1>7, <1>8, LoopPending
<1>11. fs[n + 1] = e /\ fs[n + 2] = u
  <2>1. n + 1 \in 1 .. Len(fs) /\ ~(n + 1 <= n) /\ (n + 1) - n = 1
    BY <1>3, <1>9
  <2>2. n + 2 \in 1 .. Len(fs) /\ ~(n + 2 <= n) /\ (n + 2) - n = 2
    BY <1>3, <1>9
  <2> QED
    BY <1>6, <1>9, <2>1, <2>2
<1>12. Writes(c.id) \subseteq Elements(s)
  <2>1. PICK b \in Base : c = Final(b)
    BY <1>2 DEF ModuleInv
  <2>2. Stands(c, b) /\ prog \in Programs
    BY <2>1, BaseFacts, FinalFields DEF ModuleInv
  <2>3. Writes(c.id) \subseteq Written(c)
    BY <2>2, WritesOf, WritesSame DEF Stands
  <2> QED
    BY <1>2, <2>3 DEF Written, s, DefsOf
<1>13. \A k \in Ids(fs) \ Ids(ents) : k = n \/ k = n + 1
  BY <1>3, <1>9 DEF Ids
<1>14. ASSUME NEW k \in Ids(fs) \ Ids(ents) PROVE UseCovered(fs, w, k)
  <2>1. CASE k = n
    BY <1>4, <1>11, <2>1 DEF UseCovered, UseRows
  <2>2. CASE k = n + 1
    <3>1. fs[k + 1] = u
      <4>1. k + 1 = n + 2
        BY <1>3, <2>2
      <4> QED
        BY <1>11, <4>1
    <3>2. ASSUME NEW v \in Writes(fs[k + 1].val) PROVE Pending(w, k, v)
      BY <1>4, <1>10, <1>12, <2>2, <3>1, <3>2
    <3> QED
      BY <3>2 DEF UseCovered, Covered
  <2> QED
    BY <1>13, <2>1, <2>2
<1>15. Extends(ents, fs) /\ Len(fs) \in Nat
  BY <1>3, <1>9 DEF Extends, SameEntity
<1>16. Elements(work) = {}
  BY <1>2, EmptyList
<1>17. CoverOK(fs, w)
  BY <1>3, <1>14, <1>15, <1>16, CoverKept
<1> QED
  BY <1>17 DEF fs, w

LEMMA InputDefCover ==
  ASSUME SvfInv, prog \in Programs, CoverOK(ents, work), InputDef PROVE CoverOK(ents', work')
<1> DEFINE t == Head(work)
           v == t.val
           from == IF svf.kind[v] = "dyn" THEN Chain(v)[2] ELSE v
           def == getOrBuildDef(v)
           s == Answers(svf.stores, from)
           z == StoreLoop(t.in, s)
           fs == Under(ents \o def.new, t.in, def.id)
<1>1. /\ work # << >> /\ t.do = "in"
      /\ \/ Known(v) /\ ents' = fs /\ work' = z \o Tail(work)
         \/ Undefined
  BY Zenon DEF InputDef, Loop, StoreLoop
<1>2. TurnOK(ents, t) /\ IsSeq(work)
  BY Zenon, <1>1, SvfFacts DEF Turns
<1>3. t.in \in Ids(ents) /\ ents[t.in + 1].kind = "IN" /\ v \in prog.values
  BY <1>1, <1>2 DEF TurnOK
<1>4. CASE Undefined
  BY <1>4, CoverStill DEF Undefined, svfVars
<1>5. CASE Known(v) /\ ents' = fs /\ work' = z \o Tail(work)
  <2>1. s \in Seq(StoreIds)
    <3> HIDE DEF from
    <3> QED
      BY <1>1, <1>5, InputStores DEF from
  <2>2. IsSeq(z)
    <3> HIDE DEF s, t
    <3> QED
      BY <1>3, <2>1, StoreTurns DEF Turns
  <2>3. /\ NewDefs(ents, fs) /\ Extends(ents, fs) /\ Len(fs) \in Nat /\ Len(ents) \in Nat
    <3> HIDE DEF t
    <3> QED
      BY <1>3, <1>5, DefCovers
  <2>4. \A x \in Elements(work) : x.do = "target" /\ x.val \notin svf.struct => x \in Elements(work')
    <3> HIDE DEF z
    <3> QED
      BY <1>1, <1>5, <2>2, OtherTurns
  <2>5. ents' = fs
    BY <1>5
  <2> HIDE DEF fs
  <2>6. CoverOK(fs, work')
    BY <2>3, <2>4, NewDefsCovered, CoverKept
  <2> QED
    BY <2>5, <2>6
<1> QED
  BY Zenon, <1>1, <1>4, <1>5

LEMMA StoreUseCover ==
  ASSUME SvfInv, prog \in Programs, CoverOK(ents, work), StoreUse PROVE CoverOK(ents', work')
<1> DEFINE t == Head(work)
           n == Len(ents)
           e == SUse(t.val)
           es == Append(ents, e)
           fs == Under(es, t.in, n)
           s == Answers(svf.storeDefs, t.val)
           z == TargetLoop(n, s, t.path)
           y == z \o Tail(work)
<1>1. work # << >> /\ t.do = "store" /\ ents' = fs /\ work' = y
  BY DEF StoreUse, Loop, TargetLoop, nextId
<1>2. TurnOK(ents, t) /\ n \in Nat /\ EntsOK(ents) /\ IsSeq(ents) /\ IsSeq(work) /\ IsSeq(Tail(work))
  BY <1>1, SvfFacts, HeadTail DEF Turns, EntsOK
<1>3. t.in \in Ids(ents) /\ ents[t.in + 1].kind = "IN" /\ t.val \in prog.values /\ t.val \in StoreIds
  BY <1>1, <1>2 DEF TurnOK
<1>4. Writes(t.val) \subseteq Elements(s)
  <2>1. PICK i \in prog.code : i.op = "store" /\ i.id = t.val
    BY <1>3 DEF StoreIds
  <2>2. i \in Base
    BY BaseFacts
  <2>3. Written(i) = Elements(s)
    BY <2>1 DEF Written
  <2> QED
    BY <2>1, <2>2, <2>3, WritesOf
<1>5. IsSeq(s)
  <2>1. s \in Seq(prog.values)
    BY <1>3, Given, AnswersIn
  <2> HIDE DEF s
  <2> QED
    BY <2>1, IsSeqFacts
<1>6. EntityOK(e) /\ e.kind \in UseRows /\ Elements(e.kids) = {} /\ e.val = t.val
  <2>1. EntityOK(e) /\ e.kind \in UseRows /\ Elements(e.kids) = {}
    BY <1>3, NewEntities
  <2>2. e.val = t.val
    BY DEF SUse, Entity
  <2> QED
    BY <2>1, <2>2
<1>7. IsSeq(z) /\ \A v \in Elements(s) : Pending(z, n, v)
  <2> HIDE DEF s, n, t
  <2> QED
    BY <1>5, LoopPending
<1> HIDE DEF s, z
<1>8. \A v \in Elements(s) : Pending(y, n, v)
  <2> DEFINE r == Tail(work)
  <2> HIDE DEF r
  <2>1. IsSeq(r) /\ y = z \o r
    BY <1>2 DEF r
  <2> HIDE DEF y, n
  <2> QED
    BY <1>7, <2>1, PendingJoined
<1>9. \A x \in Elements(work) : x.do = "target" /\ x.val \notin svf.struct => x \in Elements(work')
  BY <1>1, <1>7, OtherTurns
<1> HIDE DEF t, e, y
<1>10. EntsOK(es) /\ Extends(ents, es) /\ Len(es) = n + 1 /\ es[n + 1] = e
  <2>1. \A d \in Elements(e.kids) : MayList(es, e, d)
    BY <1>6
  <2> QED
    BY <1>2, <1>6, <2>1, OneEntity
<1> HIDE DEF es
<1>11. t.in \in Ids(es) /\ MayList(es, es[t.in + 1], n)
  <2>1. t.in \in Ids(es) /\ t.in + 1 \in 1 .. Len(ents) /\ n \in Ids(es)
    BY <1>2, <1>3, <1>10 DEF Ids
  <2>2. es[t.in + 1].kind = "IN"
    BY <1>3, <1>10, <2>1 DEF Extends, SameEntity
  <2> QED
    BY <1>6, <1>10, <2>1, <2>2 DEF MayList
<1>12. EntsOK(fs) /\ Extends(es, fs) /\ Len(fs) = n + 1
  <2> HIDE DEF n
  <2> QED
    BY <1>10, <1>11, UnderKept
<1> HIDE DEF fs
<1>13. Extends(ents, fs) /\ Len(fs) \in Nat
  BY <1>2, <1>10, <1>12, ExtendsTwice
<1>14. fs[n + 1].val = t.val
  <2>1. n + 1 \in 1 .. Len(es)
    BY <1>2, <1>10
  <2> QED
    BY <1>6, <1>10, <1>12, <2>1 DEF Extends, SameEntity
<1>15. ASSUME NEW u \in Ids(fs) \ Ids(ents) PROVE UseCovered(fs, y, u)
  <2>1. u = n
    BY <1>2, <1>12, <1>15 DEF Ids
  <2>2. fs[u + 1].val = t.val
    BY <1>14, <2>1
  <2> QED
    BY <1>4, <1>8, <2>1, <2>2 DEF UseCovered, Covered
<1>16. CoverOK(fs, y)
  BY <1>1, <1>2, <1>9, <1>13, <1>15, CoverKept
<1> QED
  BY <1>1, <1>16

LEMMA UseTargetCover ==
  ASSUME SvfInv, prog \in Programs, CoverOK(ents, work), UseTarget PROVE CoverOK(ents', work')
<1> DEFINE t == Head(work)
           v == t.val
           def == getOrBuildDef(v)
           fs == Under(ents \o def.new, t.use, def.id)
           z == analyzeGep(t.use, v, t.path)
<1>1. /\ work # << >> /\ t.do = "target"
      /\ \/ v \in svf.struct /\ work' = z \o Tail(work) /\ UNCHANGED ents
         \/ v \notin svf.struct /\ Known(v) /\ ents' = fs /\ work' = Tail(work)
         \/ Undefined
  BY DEF UseTarget
<1>2. TurnOK(ents, t) /\ IsSeq(work)
  BY <1>1, SvfFacts DEF Turns
<1>3. t.use \in Ids(ents) /\ v \in prog.values
  BY <1>1, <1>2 DEF TurnOK
<1>4. CASE v \in svf.struct /\ work' = z \o Tail(work) /\ UNCHANGED ents
  <2>1. IsSeq(z)
    <3> HIDE DEF t
    <3> QED
      BY <1>3, <1>4, PathTurns DEF Turns
  <2>2. \A x \in Elements(work) : x.do = "target" /\ x.val \notin svf.struct => x \in Elements(work')
    <3> HIDE DEF z
    <3> QED
      BY <1>1, <1>4, <2>1, OtherTurns
  <2> QED
    BY <1>4, <2>2, CoverStill
<1>5. CASE v \notin svf.struct /\ Known(v) /\ ents' = fs /\ work' = Tail(work)
  <2>1. /\ NewDefs(ents, fs) /\ Listed(fs, t.use, v)
        /\ Extends(ents, fs) /\ Len(fs) \in Nat /\ Len(ents) \in Nat
    <3> HIDE DEF t
    <3> QED
      BY <1>3, <1>5, DefCovers
  <2> HIDE DEF fs
  <2>2. \A x \in Elements(work) : x \in Elements(work') \/ Listed(fs, x.use, x.val)
    BY <1>1, <1>2, <1>5, <2>1, HeadOrTail
  <2>3. CoverOK(fs, work')
    BY <2>1, <2>2, NewDefsCovered, CoverKept
  <2> QED
    BY <1>5, <2>3
<1>6. CASE Undefined
  BY <1>6, CoverStill DEF Undefined, svfVars
<1> QED
  BY <1>1, <1>4, <1>5, <1>6

LEMMA GepPathCover ==
  ASSUME SvfInv, CoverOK(ents, work), GepPath PROVE CoverOK(ents', work')
<1> DEFINE t == Head(work)
           fields == PathFields(t.val, t.path)
           es == PathEnts(t.val, t.path)
           fs == Targets(es, t.use, fields)
<1>1. work # << >> /\ t.do = "path" /\ ents' = fs /\ work' = Tail(work)
  BY DEF GepPath, nextId, PathFields, PathEnts, PathList, Missing
<1>2. TurnOK(ents, t) /\ Len(ents) \in Nat
  BY <1>1, SvfFacts
<1>3. t.use \in Ids(ents) \cup {-1} /\ FieldOK(t.val, t.path)
  BY <1>1, <1>2 DEF TurnOK
<1>4. /\ EntsOK(es) /\ Extends(ents, es) /\ Len(es) \in Nat
      /\ IsSeq(fields) /\ \A d \in Elements(fields) : d \in Ids(es) /\ es[d + 1].kind \in DefRows
      /\ NewDefs(ents, es)
  <2> HIDE DEF t
  <2> QED
    BY <1>3, FieldFacts
<1>5. \A x \in Elements(work) : x.do = "target" /\ x.val \notin svf.struct => x \in Elements(work')
  BY <1>1, OtherTurns
<1> HIDE DEF fields, es
<1>6. t.use \in Ids(es) \cup {-1}
  BY <1>2, <1>3, <1>4 DEF Ids, Extends
<1>7. EntsOK(fs) /\ Extends(es, fs) /\ Len(fs) = Len(es)
  <2> HIDE DEF t
  <2> QED
    BY <1>4, <1>6, TargetsKept
<1> HIDE DEF fs
<1>8. Extends(ents, fs) /\ Len(fs) \in Nat
  BY <1>2, <1>4, <1>7, ExtendsTwice
<1>9. NewDefs(ents, fs)
  <2>1. \A u \in Ids(fs) : u \in Ids(es) /\ SameEntity(es[u + 1], fs[u + 1])
    BY <1>4, <1>7, InIds DEF Ids, Extends
  <2> QED
    BY <1>4, <2>1 DEF NewDefs, SameEntity
<1>10. CoverOK(fs, work')
  BY <1>2, <1>5, <1>8, <1>9, NewDefsCovered, CoverKept
<1> QED
  BY <1>1, <1>10

LEMMA RefParamCover ==
  ASSUME SvfInv, prog \in Programs, CoverOK(ents, work), RefParam PROVE CoverOK(ents', work')
<1> DEFINE t == Head(work)
           c == t.call
           k == t.param
           defs == Answers(svf.defs, c.args[k])
           usable == {j \in DOMAIN defs : /\ defs[j] \notin svf.dominators
                                          /\ \/ defs[j] \in svf.struct \/ Known(defs[j])
                                             \/ svf.kind[defs[j]] = "dyn"}
           v == defs[Min(usable)]
           new == getOrBuildDef(v).new
           z == analyzeGep(-1, v, c.args[k])
           r == <<RefIdTurn(c, k)>>
           fs == ents \o new
<1>1. /\ work # << >> /\ t.do = "ref"
      /\ \/ work' = Tail(work) /\ UNCHANGED ents
         \/ /\ usable # {} /\ v \in svf.struct
            /\ work' = z \o r \o Tail(work)
            /\ UNCHANGED ents
         \/ Undefined
         \/ usable # {} /\ Known(v) /\ ents' = fs /\ work' = Tail(work)
  BY Zenon DEF RefParam, Known
<1>2. /\ TurnOK(ents, t) /\ Len(ents) \in Nat /\ EntsOK(ents) /\ DefsOK(ents, deflist) /\ IsSeq(work)
      /\ IsSeq(Tail(work))
  BY Zenon, <1>1, SvfFacts, HeadTail DEF Turns
<1>3. usable # {} => v \in prog.values
  <2>1. defs \in Seq(prog.values)
    BY Zenon, <1>1, <1>2 DEF TurnOK, DefsOf
  <2>2. DOMAIN defs \subseteq Nat /\ \A j \in DOMAIN defs : defs[j] \in prog.values
    <3> HIDE DEF defs
    <3> QED
      BY <2>1
  <2>3. usable \subseteq DOMAIN defs
    OBVIOUS
  <2> HIDE DEF usable, defs
  <2> QED
    BY <2>2, <2>3, MinIsLeast
<1>4. CASE work' = Tail(work) /\ UNCHANGED ents
  BY <1>1, <1>4, OtherTurns, CoverStill
<1>5. CASE /\ usable # {} /\ v \in svf.struct
           /\ work' = z \o r \o Tail(work)
           /\ UNCHANGED ents
  <2>1. IsSeq(z)
    <3> HIDE DEF v, c, k
    <3> QED
      BY Zenon, <1>3, <1>5, PathTurns DEF Turns
  <2>2. IsSeq(r)
    BY Single
  <2> DEFINE q == z \o r
  <2>3. work' = q \o Tail(work)
    BY Zenon, <1>5
  <2> HIDE DEF z, r
  <2>4. IsSeq(q)
    BY Zenon, <2>1, <2>2, Joined
  <2> HIDE DEF q
  <2>5. \A x \in Elements(work) : x.do = "target" /\ x.val \notin svf.struct => x \in Elements(work')
    BY Zenon, <1>1, <2>3, <2>4, OtherTurns
  <2> QED
    BY Zenon, <1>5, <2>5, CoverStill
<1>6. CASE Undefined
  BY <1>6, CoverStill DEF Undefined, svfVars
<1>7. CASE usable # {} /\ Known(v) /\ ents' = fs /\ work' = Tail(work)
  <2>1. Extends(ents, fs) /\ Len(fs) \in Nat /\ NewDefs(ents, fs)
    <3> HIDE DEF v
    <3> QED
      BY Zenon, <1>2, <1>3, <1>7, DefFacts DEF Answered
  <2>2. \A x \in Elements(work) : x.do = "target" /\ x.val \notin svf.struct => x \in Elements(work')
    BY Zenon, <1>1, <1>7, OtherTurns
  <2> HIDE DEF fs
  <2>3. CoverOK(fs, work')
    BY <1>2, <2>1, <2>2, NewDefsCovered, CoverKept
  <2> QED
    BY Zenon, <1>7, <2>3
<1> QED
  BY Zenon, <1>1, <1>4, <1>5, <1>6, <1>7

\* The other turns make no entity and handle no target.
LEMMA OtherCover ==
  ASSUME SvfInv, RowsOnly, CoverOK(ents, work),
         \/ RefSite \/ RefField \/ IntToPtr \/ IndirectUse \/ IndirectParam
         \/ StartExport \/ ExportRow \/ TagValues
  PROVE  CoverOK(ents', work')
<1>1. CASE work = << >>
  <2>1. UNCHANGED ents
    BY Zenon, <1>1 DEF RefSite, RefField, IntToPtr, IndirectUse, IndirectParam, StartExport, ExportRow,
                TagValues, Undefined, svfVars
  <2> QED
    BY <1>1, <2>1, OtherTurns, CoverStill
<1>2. CASE RefField \/ IndirectParam
  <2>1. /\ work # << >> /\ Head(work).do # "target" /\ UNCHANGED ents
        /\ work' = Tail(work) \/ UNCHANGED work
    BY Zenon, <1>2 DEF RefField, IndirectParam, Undefined, svfVars
  <2>2. \A x \in Elements(work) : x.do = "target" /\ x.val \notin svf.struct => x \in Elements(work')
    BY <2>1, OtherTurns
  <2> QED
    BY <2>1, <2>2, CoverStill
<1>3. CASE ExportRow
  <2>1. phase = "export" /\ UNCHANGED ents
    BY <1>3 DEF ExportRow
  <2> QED
    BY <2>1, CoverStill DEF RowsOnly
<1>4. RefSite \/ IntToPtr \/ IndirectUse \/ StartExport \/ TagValues => work = << >>
  BY DEF RefSite, IntToPtr, IndirectUse, StartExport, TagValues
<1> QED
  BY <1>1, <1>2, <1>3, <1>4

LEMMA SitesStep ==
  ASSUME Idle, SitesOK, [Next]_vars PROVE SitesOK'
<1>1. CASE PassNext /\ UNCHANGED <<prog, svfVars, zbVars>>
  BY <1>1 DEF PassNext, InputWrapper, instrumentFunction, instrumentCalls, removeFunction, SitesOK
<1>2. CASE SvfNext
  <2>1. left' \subseteq left /\ (phase' = "sites" => phase = "sites")
    <3>1. CASE InputSite \/ LibSite \/ InputDef \/ StoreUse \/ UseTarget \/ GepPath \/ RefSite
      BY Zenon, <3>1 DEF InputSite, LibSite, InputDef, StoreUse, UseTarget, GepPath, RefSite, Undefined
    <3>2. CASE RefParam \/ RefField
      BY Zenon, <3>2 DEF RefParam, RefField, Undefined
    <3>3. CASE IntToPtr \/ IndirectUse \/ IndirectParam \/ StartExport \/ ExportRow \/ TagValues
      BY Zenon, <3>3 DEF IntToPtr, IndirectUse, IndirectParam, StartExport, ExportRow, TagValues, Undefined
    <3> QED
      BY <1>2, <3>1, <3>2, <3>3 DEF SvfNext
  <2>2. code' = code
    BY <1>2, SvfSteps DEF passVars
  <2> QED
    BY <2>1, <2>2 DEF SitesOK
<1>3. CASE NextPart
  <2>1. phase' = "sites" => left' \subseteq code
    BY <1>3 DEF NextPart, Through, Move, DirectCalls
  <2>2. code' = code
    BY <1>3, PartSteps DEF passVars
  <2> QED
    BY <2>1, <2>2 DEF SitesOK
<1>4. CASE ZbNext
  <2>1. phase' # "sites"
    BY <1>4, ZbSteps DEF InsertSteps, PassRefs
  <2> QED
    BY <2>1 DEF SitesOK
<1>5. CASE UNCHANGED vars
  <2>1. phase' = phase /\ left' = left /\ code' = code
    BY <1>5 DEF vars, passVars
  <2> QED
    BY <2>1 DEF SitesOK
<1> QED
  BY <1>1, <1>2, <1>3, <1>4, <1>5 DEF Next

LEMMA CoverStep ==
  ASSUME AnalysisInv, SitesOK, CoverOK(ents, work), [Next]_vars
  PROVE  SitesOK' /\ CoverOK(ents, work)'
<1>0. prog \in Programs /\ prog' = prog /\ SvfInv /\ ModuleInv /\ RowsOnly /\ Idle
  BY DEF AnalysisInv, ModuleInv, Next, vars
<1>1. ASSUME SvfNext PROVE CoverOK(ents', work')
  <2>1. CASE InputSite \/ LibSite \/ InputDef \/ StoreUse \/ UseTarget \/ GepPath \/ RefParam
    <3>1. CoverOK(ents', work')
      BY <1>0, <2>1, InputSiteCover, LibSiteCover, InputDefCover, StoreUseCover, UseTargetCover,
         GepPathCover, RefParamCover
    <3> QED
      BY <3>1
  <2>2. CASE \/ RefSite \/ RefField \/ IntToPtr \/ IndirectUse \/ IndirectParam
             \/ StartExport \/ ExportRow \/ TagValues
    BY <1>0, <2>2, OtherCover
  <2> QED
    BY <1>1, <2>1, <2>2 DEF SvfNext
<1>2. ASSUME UNCHANGED svfVars PROVE CoverOK(ents', work')
  BY <1>2 DEF svfVars
<1>3. SvfNext \/ UNCHANGED svfVars
  BY PartSteps, ZbSteps DEF Next, PassRefs, vars
<1>4. CoverOK(ents', work')
  BY <1>1, <1>2, <1>3
<1> QED
  BY <1>0, <1>4, WritesKept, SitesStep

\* Every exported use's instruction keeps a tag of the use's kind.
UsesTagged ==
  phase \in Instrumenting =>
    \A u \in valueMap : ents[u + 1].kind \in UseRows =>
      Tagged(ents[u + 1].val, KeyOf(ents[u + 1].kind))

LEMMA OnlyTagValues ==
  ASSUME Idle, SvfNext, phase' \in Instrumenting PROVE TagValues
<1>1. phase \notin Instrumenting
  BY SvfPhases DEF Instrumenting
<1>2. CASE InputSite \/ LibSite \/ InputDef \/ StoreUse \/ UseTarget \/ GepPath \/ RefSite
  BY Zenon, <1>1, <1>2 DEF InputSite, LibSite, InputDef, StoreUse, UseTarget, GepPath, RefSite, Undefined,
                    Instrumenting
<1>3. CASE RefParam \/ RefField
  BY Zenon, <1>1, <1>3 DEF RefParam, RefField, Undefined, Instrumenting
<1>4. CASE IntToPtr \/ IndirectUse \/ IndirectParam \/ StartExport \/ ExportRow
  BY Zenon, <1>1, <1>4 DEF IntToPtr, IndirectUse, IndirectParam, StartExport, ExportRow, Undefined,
                    Instrumenting
<1> QED
  BY <1>2, <1>3, <1>4 DEF SvfNext

LEMMA TaggedByKind ==
  ASSUME TagValues PROVE UsesTagged'
<1>1. PICK last \in Survivors :
        tags' = tags \cup {[on |-> Ent(id).val, key |-> tagKey(id), val |-> Literal(id)] : id \in last}
  BY DEF TagValues
<1>2. UNCHANGED <<ents, valueMap>>
  BY DEF TagValues
<1>3. SUFFICES ASSUME NEW u \in valueMap, ents[u + 1].kind \in UseRows
               PROVE  \E t \in tags' : /\ t.on = ents[u + 1].val /\ t.key = KeyOf(ents[u + 1].kind)
  BY <1>2 DEF UsesTagged, Tagged
<1>4. PICK id \in last : place(id) = place(u)
  <2> DEFINE rivals == {j \in valueMap : \E k \in valueMap \ {j} : place(k) = place(j)}
  <2>1. PICK S \in SUBSET rivals : /\ last = (valueMap \ rivals) \cup S
                                   /\ \A j \in rivals : \E k \in S : place(k) = place(j)
    BY DEF Survivors
  <2> HIDE DEF rivals
  <2>2. CASE u \in rivals
    BY <2>1, <2>2
  <2>3. CASE u \notin rivals
    BY <1>3, <2>1, <2>3
  <2> QED
    BY <2>2, <2>3
<1>5. Ent(id).val = Ent(u).val /\ tagKey(id) = tagKey(u)
  BY <1>4 DEF place
<1>6. tagKey(u) = KeyOf(ents[u + 1].kind)
  BY DEF tagKey, KeyOf, isDef, Ent
<1> DEFINE t == [on |-> Ent(id).val, key |-> tagKey(id), val |-> Literal(id)]
<1>7. t \in tags' /\ t.on = Ent(id).val /\ t.key = tagKey(id)
  BY <1>1
<1> QED
  BY <1>5, <1>6, <1>7 DEF Ent

LEMMA UsesTaggedStep ==
  ASSUME Idle, UsesTagged, [Next]_vars PROVE UsesTagged'
<1>1. CASE PassNext /\ UNCHANGED <<prog, svfVars, zbVars>>
  <2>1. phase' \notin Instrumenting
    BY <1>1 DEF PassNext, InputWrapper, instrumentFunction, instrumentCalls, removeFunction, Instrumenting
  <2> QED
    BY <2>1 DEF UsesTagged
<1>2. CASE SvfNext
  <2>1. CASE phase' \in Instrumenting
    BY <1>2, <2>1, OnlyTagValues, TaggedByKind
  <2> QED
    BY <2>1 DEF UsesTagged
<1>3. CASE NextPart
  <2>1. phase' \notin Instrumenting
    BY <1>3, PartSteps DEF Instrumenting
  <2> QED
    BY <2>1 DEF UsesTagged
<1>4. CASE ZbNext
  <2>1. phase \in Instrumenting /\ UNCHANGED <<tags, ents, valueMap>>
    <3>1. CASE PassRefs
      BY <3>1 DEF PassRefs, svfVars, Instrumenting
    <3>2. CASE InsertSteps /\ UNCHANGED svfVars
      BY <3>2 DEF InsertSteps, svfVars, Instrumenting
    <3> QED
      BY <1>4, <3>1, <3>2, ZbSteps
  <2> QED
    BY <2>1 DEF UsesTagged, Tagged
<1>5. CASE UNCHANGED vars
  <2>1. UNCHANGED <<phase, tags, ents, valueMap>>
    BY <1>5 DEF vars, svfVars
  <2> QED
    BY <2>1 DEF UsesTagged, Tagged
<1> QED
  BY <1>1, <1>2, <1>3, <1>4, <1>5 DEF Next

-----------------------------------------------------------------------------
\* A tag for a use is reported by the part that is about its key.
UseCalls == {"zbouncer_use", "zbouncer_iuse", "zbouncer_luse", "zbouncer_iluse"}

HasReport(x, key) == \E r \in Elements(after[x]) : r.call \in UseCalls /\ r.id = Tag(x, key).id

UsesReported ==
  \A b \in Base :
    /\ phase \in {"z_libs", "z_calls", "done"} /\ Tagged(b.id, <<"zsuse">>) => HasReport(b.id, <<"zsuse">>)
    /\ phase \in {"z_calls", "done"} /\ Tagged(b.id, <<"zluse">>) => HasReport(b.id, <<"zluse">>)

LEMMA UseIsReported ==
  ASSUME NEW i, NEW key, NEW addr, NEW direct \in UseCalls, NEW indirect \in UseCalls, Tagged(i.id, key)
  PROVE  \E r \in Elements(UseReport(i, key, addr, direct, indirect)) :
           r.call \in UseCalls /\ r.id = Tag(i.id, key).id
<1> DEFINE id == Tag(i.id, key).id
           I == Report(indirect, id, Resolve(i), addr)
           D == Report(direct, id, NoRef, addr)
           R == UseReport(i, key, addr, direct, indirect)
<1>1. R = <<I>> \/ R = <<D>>
  BY DEF UseReport
<1>2. I.call \in UseCalls /\ I.id = id /\ D.call \in UseCalls /\ D.id = id
  BY DEF Report
<1> HIDE DEF I, D, R
<1>3. Elements(R) = {I} \/ Elements(R) = {D}
  BY <1>1, Single
<1>4. \E r \in Elements(R) : r.call \in UseCalls /\ r.id = id
  BY <1>2, <1>3
<1> QED
  BY <1>4 DEF R

\* A part that goes through the module adds to the reports of each instruction.
LEMMA ReportsAdded ==
  ASSUME ReportsOK, NEW P, \A i \in code : PartOK(P[i]),
         after' = [x \in prog.values |->
                     IF \E i \in code : i.id = x THEN P[CHOOSE i \in code : i.id = x] \o after[x]
                                                ELSE after[x]],
         NEW i \in code, i.id \in prog.values
  PROVE  /\ Elements(after[i.id]) \subseteq Elements(after'[i.id])
         /\ Elements(P[CHOOSE n \in code : n.id = i.id]) \subseteq Elements(after'[i.id])
<1> DEFINE j == CHOOSE n \in code : n.id = i.id
<1>1. j \in code /\ j.id = i.id
  OBVIOUS
<1>2. after'[i.id] = P[j] \o after[i.id]
  OBVIOUS
<1> DEFINE s == P[j]
           t == after[i.id]
           w == after'[i.id]
<1>3. IsSeq(s) /\ IsSeq(t) /\ w = s \o t
  BY <1>1, <1>2 DEF ReportsOK, PartOK
<1> HIDE DEF j, s, t, w
<1>4. Elements(w) = Elements(s) \cup Elements(t)
  BY <1>3, Joined
<1> QED
  BY <1>4 DEF j, s, t, w

\* The instruction that stands for one of the wrapped module, while Zbouncer looks for uses.
LEMMA StandsInCode ==
  ASSUME AnalysisInv, phase \in {"z_stores", "z_libs"}, NEW b \in Base
  PROVE  \E i \in code : i.id = b.id /\ b.id \in prog.values
<1>1. ModuleInv /\ Settled(code)
  BY FinalSettled DEF AnalysisInv, ModuleInv
<1>2. b.id \in prog.values
  BY BaseCalls DEF AnalysisInv, ModuleInv, Wrapped, CallOK
<1> QED
  BY <1>1, <1>2 DEF Settled, Stands

LEMMA TagsAsBefore ==
  ASSUME UNCHANGED tags
  PROVE  /\ \A x, key : Tagged(x, key)' <=> Tagged(x, key)
         /\ \A x, key : HasReport(x, key)' <=>
              \E r \in Elements(after'[x]) : r.call \in UseCalls /\ r.id = Tag(x, key).id
<1>1. ASSUME NEW x, NEW key PROVE Tag(x, key)' = Tag(x, key)
  BY DEF Tag
<1>2. ASSUME NEW x PROVE Elements(after[x])' = Elements(after'[x])
  BY DEF Elements
<1> QED
  BY <1>1, <1>2 DEF Tagged, HasReport, UseCalls

LEMMA StoreReported ==
  ASSUME AnalysisInv, ExportOK, TagsOK, ReportsOK, InsertStore, UNCHANGED prog
  PROVE  UsesReported'
<1> DEFINE P == [i \in code |-> StorePart(i)]
<1>1. \A i \in code : PartOK(P[i])
  BY PartsOK
<1>2. /\ phase = "z_stores" /\ phase' = "z_libs" /\ UNCHANGED tags
      /\ after' = [x \in prog.values |->
                     IF \E i \in code : i.id = x THEN P[CHOOSE i \in code : i.id = x] \o after[x]
                                                ELSE after[x]]
  BY DEF InsertStore, Insert, svfVars
<1>3. ASSUME NEW b \in Base, Tagged(b.id, <<"zsuse">>)
      PROVE  \E r \in Elements(after'[b.id]) : r.call \in UseCalls /\ r.id = Tag(b.id, <<"zsuse">>).id
  <2>1. PICK i \in code : i.id = b.id /\ b.id \in prog.values
    BY <1>2, StandsInCode
  <2> HIDE DEF P
  <2>2. PICK j \in code : j.id = b.id /\ Elements(P[j]) \subseteq Elements(after'[b.id])
    <3> DEFINE j == CHOOSE n \in code : n.id = i.id
    <3>1. i.id \in prog.values /\ j \in code /\ j.id = i.id
      BY <2>1
    <3>2. Elements(P[j]) \subseteq Elements(after'[i.id])
      BY <1>1, <1>2, <3>1, ReportsAdded
    <3> HIDE DEF j
    <3> QED
      BY <2>1, <3>1, <3>2
  <2>3. P[j] = UseReport(j, <<"zsuse">>, j.id, "zbouncer_use", "zbouncer_iuse")
    BY DEF P, StorePart
  <2>4. Tagged(j.id, <<"zsuse">>) /\ "zbouncer_use" \in UseCalls /\ "zbouncer_iuse" \in UseCalls
    BY <1>3, <2>2 DEF UseCalls
  <2>5. \E r \in Elements(P[j]) : r.call \in UseCalls /\ r.id = Tag(j.id, <<"zsuse">>).id
    BY <2>3, <2>4, UseIsReported
  <2> QED
    BY <2>2, <2>5
<1>4. Base' = Base
  BY BaseKept
<1> QED
  BY <1>2, <1>3, <1>4, TagsAsBefore DEF UsesReported

LEMMA LibReported ==
  ASSUME AnalysisInv, ExportOK, TagsOK, ReportsOK, UsesReported, InsertLib, UNCHANGED prog
  PROVE  UsesReported'
<1> DEFINE P == [i \in code |-> LibPart(i)]
<1>1. \A i \in code : PartOK(P[i])
  BY PartsOK
<1>2. /\ phase = "z_libs" /\ phase' = "z_calls" /\ UNCHANGED tags
      /\ after' = [x \in prog.values |->
                     IF \E i \in code : i.id = x THEN P[CHOOSE i \in code : i.id = x] \o after[x]
                                                ELSE after[x]]
  BY DEF InsertLib, Insert, svfVars
<1>3. ASSUME NEW b \in Base, Tagged(b.id, <<"zluse">>)
      PROVE  \E r \in Elements(after'[b.id]) : r.call \in UseCalls /\ r.id = Tag(b.id, <<"zluse">>).id
  <2>1. PICK i \in code : i.id = b.id /\ b.id \in prog.values
    BY <1>2, StandsInCode
  <2> HIDE DEF P
  <2>2. PICK j \in code : j.id = b.id /\ Elements(P[j]) \subseteq Elements(after'[b.id])
    <3> DEFINE j == CHOOSE n \in code : n.id = i.id
    <3>1. i.id \in prog.values /\ j \in code /\ j.id = i.id
      BY <2>1
    <3>2. Elements(P[j]) \subseteq Elements(after'[i.id])
      BY <1>1, <1>2, <3>1, ReportsAdded
    <3> HIDE DEF j
    <3> QED
      BY <2>1, <3>1, <3>2
  <2>3. Tagged(j.id, <<"zluse">>) /\ "zbouncer_luse" \in UseCalls /\ "zbouncer_iluse" \in UseCalls
    BY <1>3, <2>2 DEF UseCalls
  <2>4. P[j] = UseReport(j, <<"zluse">>, libAddress(j), "zbouncer_luse", "zbouncer_iluse")
    BY <2>3 DEF P, LibPart
  <2>5. \E r \in Elements(P[j]) : r.call \in UseCalls /\ r.id = Tag(j.id, <<"zluse">>).id
    BY <2>3, <2>4, UseIsReported
  <2> QED
    BY <2>2, <2>5
<1>4. ASSUME NEW b \in Base, Tagged(b.id, <<"zsuse">>)
      PROVE  \E r \in Elements(after'[b.id]) : r.call \in UseCalls /\ r.id = Tag(b.id, <<"zsuse">>).id
  <2>1. PICK i \in code : i.id = b.id /\ b.id \in prog.values
    BY <1>2, StandsInCode
  <2> HIDE DEF P
  <2>2. Elements(after[b.id]) \subseteq Elements(after'[b.id])
    <3>1. i.id \in prog.values
      BY <2>1
    <3>2. Elements(after[i.id]) \subseteq Elements(after'[i.id])
      BY <1>1, <1>2, <3>1, ReportsAdded
    <3> QED
      BY <2>1, <3>2
  <2>3. HasReport(b.id, <<"zsuse">>)
    BY <1>2, <1>4 DEF UsesReported
  <2> QED
    BY <2>2, <2>3 DEF HasReport
<1>5. Base' = Base
  BY BaseKept
<1> QED
  BY <1>2, <1>3, <1>4, <1>5, TagsAsBefore DEF UsesReported

LEMMA UsesReportedStep ==
  ASSUME AnalysisInv, ExportOK, TagsOK, ReportsOK, UsesReported, [Next]_vars PROVE UsesReported'
<1>0. Idle /\ UNCHANGED prog
  BY DEF AnalysisInv, Next, vars
<1>1. CASE phase' \notin {"z_libs", "z_calls", "done"}
  BY <1>1 DEF UsesReported
<1>2. CASE phase' \in {"z_libs", "z_calls", "done"}
  <2>1. ~PassNext
    BY <1>2 DEF PassNext, InputWrapper, instrumentFunction, instrumentCalls, removeFunction
  <2>2. ~SvfNext /\ ~NextPart
    BY <1>0, <1>2, SvfSteps, SvfPhases, PartSteps
  <2>3. ~InsertLoop /\ ~InsertInit /\ ~InsertExit /\ ~InsertDef
    BY <1>2 DEF InsertLoop, InsertInit, InsertExit, InsertDef, Insert
  <2>4. CASE PassRefs \/ UNCHANGED vars
    <3>1. /\ UNCHANGED <<after, tags>>
          /\ phase' = phase \/ (phase = "z_calls" /\ phase' = "done")
      BY <2>4 DEF PassRefs, vars, svfVars, zbVars
    <3>2. Base' = Base
      BY <1>0, BaseKept
    <3> QED
      BY <3>1, <3>2, TagsAsBefore DEF UsesReported, HasReport
  <2> QED
    BY <1>0, <2>1, <2>2, <2>3, <2>4, StoreReported, LibReported DEF Next, ZbNext
<1> QED
  BY <1>1, <1>2

-----------------------------------------------------------------------------
LEMMA TargetsListed ==
  ASSUME AnalysisInv, ExportOK, TagsOK, CoverOK(ents, work), UsesTagged, UsesReported
  PROVE  TargetsCover
<1>1. SUFFICES ASSUME phase = "done", NEW i \in code, NEW u \in valueMap, isUse(u), Ent(u).val = i.id
               PROVE  \E r \in Elements(after[i.id]) :
                        /\ r.call \in UseCalls
                        /\ \A v \in Written(i) \ svf.struct :
                             \E d \in Elements(Ent(r.id).kids) : Defines(d, v)
  BY DEF TargetsCover, UseCalls
<1>2. PICK b \in Base : Stands(i, b)
  BY <1>1 DEF AnalysisInv, ModuleInv, Settled
<1>3. b.id = i.id /\ Writes(i.id) = Written(i) \ svf.struct
  BY <1>2, WritesOf, WritesSame DEF AnalysisInv, ModuleInv, Stands
<1> DEFINE key == KeyOf(ents[u + 1].kind)
<1>4. key \in {<<"zsuse">>, <<"zluse">>} /\ Tagged(i.id, key)
  <2>1. ents[u + 1].kind \in UseRows /\ ents[u + 1].val = i.id
    BY <1>1 DEF isUse, Ent, UseRows
  <2>2. Tagged(i.id, key)
    BY <1>1, <2>1 DEF UsesTagged, Instrumenting
  <2>3. "SUSE" \notin DefRows /\ "LUSE" \notin DefRows
    BY DEF DefRows
  <2> QED
    BY <2>1, <2>2, <2>3 DEF KeyOf, UseRows
<1> HIDE DEF key
<1>5. PICK r \in Elements(after[i.id]) : r.call \in UseCalls /\ r.id = Tag(i.id, key).id
  BY <1>1, <1>3, <1>4 DEF UsesReported, HasReport
<1>6. r.id \in Ids(ents) /\ ents[r.id + 1].kind \in UseRows /\ ents[r.id + 1].val = i.id
  <2>1. key \in RowKeys
    BY <1>4 DEF RowKeys
  <2>2. r.id \in valueMap /\ ents[r.id + 1].kind \in UseRows
    BY <1>4, <1>5, <2>1, TagNames, KeyKinds, KeysDiffer DEF UseRows
  <2>3. PICK t \in tags : t.on = i.id /\ t.key = key /\ Tag(i.id, key) = t.val
    BY <1>4 DEF Tagged, Tag
  <2>4. ents[r.id + 1].val = i.id
    BY <1>5, <2>1, <2>3 DEF TagsOK, TagOK
  <2> QED
    BY <2>2, <2>4, MappedIds
<1>7. work = << >>
  BY <1>1 DEF AnalysisInv, Idle
<1>8. ASSUME NEW v \in Written(i) \ svf.struct
      PROVE  \E d \in Elements(Ent(r.id).kids) : Defines(d, v)
  <2>1. Covered(ents, work, r.id, v)
    BY <1>3, <1>6 DEF CoverOK, UseCovered
  <2>2. Elements(work) = {}
    BY <1>7, EmptyList
  <2>3. Listed(ents, r.id, v)
    BY <2>1, <2>2 DEF Covered, Pending
  <2> QED
    BY <2>3 DEF Listed, Defines, Ent
<1> QED
  BY <1>5, <1>8

(***************************************************************************)
(* The use that Zbouncer reports behind an instruction lists a definition  *)
(* for everything that the instruction may write, whichever of its uses    *)
(* kept the one tag that svf-ex leaves (svf-ex.cpp, exportTrace), and no   *)
(* exported use goes unreported (TargetsCover).                            *)
(***************************************************************************)
THEOREM UsesListTargets == Spec => []TargetsCover
<1> DEFINE Inv == /\ AnalysisInv /\ ExportOK /\ TagsOK /\ ReportsOK
                  /\ SitesOK /\ CoverOK(ents, work) /\ UsesTagged /\ UsesReported
<1>1. Init => Inv
  <2> SUFFICES ASSUME Init PROVE Inv
    OBVIOUS
  <2>1. AnalysisInv /\ ExportOK /\ TagsOK
    BY SvfInvInit, ExportInit DEF AnalysisInv, Init, SvfInit, TagsOK
  <2>2. /\ (\A x \in prog.values : after[x] = << >>) /\ entry = << >> /\ phase = "wrap"
        /\ ents = << >>
    BY DEF Init, ZbInit, SvfInit
  <2>3. ReportsOK
    BY <2>2, NoReport DEF ReportsOK, Instrumenting
  <2>4. SitesOK /\ UsesTagged /\ UsesReported
    BY <2>2 DEF SitesOK, UsesTagged, UsesReported, Instrumenting
  <2>5. CoverOK(ents, work)
    <3>1. Ids(ents) = {}
      BY <2>2 DEF Ids
    <3> QED
      BY <3>1 DEF CoverOK
  <2> QED
    BY <2>1, <2>3, <2>4, <2>5
<1>2. Inv /\ [Next]_vars => Inv'
  BY AnalysisKept, ExportStep, TagsStep, ReportsStep, CoverStep, UsesTaggedStep, UsesReportedStep
     DEF AnalysisInv
<1>3. Inv => TargetsCover
  BY TargetsListed
<1> HIDE DEF Inv
<1> QED
  BY <1>1, <1>2, <1>3, PTL DEF Spec

-----------------------------------------------------------------------------
(***************************************************************************)
(* How often an instruction is reported.                                   *)
(***************************************************************************)
\* Before the export no tag names a row, and afterwards one for each place and key.
RowTags ==
  /\ phase \notin Instrumenting => \A t \in tags : t.key \notin RowKeys
  /\ \A s, t \in tags : s.on = t.on /\ s.key = t.key /\ s.key \in RowKeys => s = t

LEMMA OtherKeys ==
  ASSUME SvfNext, ~TagValues PROVE \A t \in tags' : t \in tags \/ t.key \notin RowKeys
<1>1. CASE UNCHANGED tags
  BY <1>1
<1>2. CASE RefParam \/ RefField \/ IndirectParam
  <2>1. \A on, key, val : \A t \in setMetadata(tags, on, key, val) : t \in tags \/ t.key = key
    BY NewMetadata
  <2>2. CASE RefParam
    <3>1. UNCHANGED tags \/ \E on, c, k, val : tags' = setMetadata(tags, on, zref(c, k), val)
      BY <2>2, Zenon DEF RefParam, Undefined, svfVars
    <3> QED
      BY <2>1, <3>1, KeysDiffer
  <2>3. CASE RefField
    BY <2>1, <2>3, KeysDiffer DEF RefField, Undefined, svfVars
  <2>4. CASE IndirectParam
    BY Zenon, <2>1, <2>4, KeysDiffer DEF IndirectParam
  <2> QED
    BY <1>2, <2>2, <2>3, <2>4
<1> QED
  BY <1>1, <1>2, MapGrows

LEMMA TagValuesOnce ==
  ASSUME RowTags, TagValues PROVE RowTags'
<1>1. PICK last \in Survivors :
        tags' = tags \cup {[on |-> Ent(id).val, key |-> tagKey(id), val |-> Literal(id)] : id \in last}
  BY DEF TagValues
<1>2. \A t \in tags : t.key \notin RowKeys
  BY DEF TagValues, RowTags, Instrumenting
<1>3. \A id, n \in last : place(id) = place(n) => id = n
  <2> DEFINE rivals == {j \in valueMap : \E k \in valueMap \ {j} : place(k) = place(j)}
  <2>1. PICK S \in SUBSET rivals : /\ last = (valueMap \ rivals) \cup S
                                   /\ \A j, k \in S : place(j) = place(k) => j = k
    BY DEF Survivors
  <2>2. rivals \subseteq valueMap
    OBVIOUS
  <2>3. \A j \in valueMap \ rivals, k \in valueMap : place(k) = place(j) => j = k
    OBVIOUS
  <2> HIDE DEF rivals
  <2> QED
    BY <2>1, <2>2, <2>3
<1>4. ASSUME NEW s \in tags', NEW t \in tags', s.on = t.on, s.key = t.key, s.key \in RowKeys
      PROVE  s = t
  <2>1. PICK m \in last : s = [on |-> Ent(m).val, key |-> tagKey(m), val |-> Literal(m)]
    BY <1>1, <1>2, <1>4
  <2>2. PICK n \in last : t = [on |-> Ent(n).val, key |-> tagKey(n), val |-> Literal(n)]
    BY <1>1, <1>2, <1>4
  <2>3. s.on = Ent(m).val /\ s.key = tagKey(m) /\ t.on = Ent(n).val /\ t.key = tagKey(n)
    BY <2>1, <2>2
  <2>4. place(m) = place(n)
    BY <1>4, <2>3 DEF place
  <2> QED
    BY <1>3, <2>1, <2>2, <2>4
<1>5. phase' \in Instrumenting
  BY DEF TagValues, Instrumenting
<1> QED
  BY <1>4, <1>5 DEF RowTags

LEMMA RowTagsStep ==
  ASSUME Idle, RowTags, [Next]_vars PROVE RowTags'
<1>1. CASE PassNext /\ UNCHANGED <<prog, svfVars, zbVars>>
  <2>1. phase \notin Instrumenting /\ UNCHANGED tags
    BY <1>1 DEF PassNext, InputWrapper, instrumentFunction, instrumentCalls, removeFunction,
                Instrumenting, svfVars
  <2> QED
    BY <2>1 DEF RowTags
<1>2. CASE SvfNext
  <2>1. phase \notin Instrumenting
    BY <1>2, SvfPhases DEF Instrumenting
  <2>2. CASE TagValues
    BY <2>2, TagValuesOnce
  <2>3. CASE ~TagValues
    BY <1>2, <2>1, <2>3, OtherKeys DEF RowTags
  <2> QED
    BY <2>2, <2>3
<1>3. CASE NextPart
  <2>1. phase \notin Instrumenting /\ UNCHANGED tags
    BY <1>3, PartSteps DEF Instrumenting, svfVars
  <2> QED
    BY <2>1 DEF RowTags
<1>4. CASE ZbNext
  <2>1. phase' \in Instrumenting /\ UNCHANGED tags
    BY <1>4, ZbSteps DEF InsertSteps, PassRefs, svfVars, Instrumenting
  <2> QED
    BY <2>1 DEF RowTags
<1>5. CASE UNCHANGED vars
  <2>1. UNCHANGED <<phase, tags>>
    BY <1>5 DEF vars, svfVars
  <2> QED
    BY <2>1 DEF RowTags
<1> QED
  BY <1>1, <1>2, <1>3, <1>4, <1>5 DEF Next

-----------------------------------------------------------------------------
LEMMA OnceJoined ==
  ASSUME NEW s, IsSeq(s), NEW t, IsSeq(t), NEW w, w = s \o t, NEW R
  PROVE  /\ Once(s, R) /\ Elements(t) \cap R = {} => Once(w, R)
         /\ Once(t, R) /\ Elements(s) \cap R = {} => Once(w, R)
<1>1. /\ Len(w) = Len(s) + Len(t) /\ Len(s) \in Nat /\ Len(t) \in Nat
      /\ DOMAIN s = 1 .. Len(s) /\ DOMAIN t = 1 .. Len(t) /\ DOMAIN w = 1 .. Len(w)
      /\ \A k \in 1 .. Len(w) : w[k] = IF k <= Len(s) THEN s[k] ELSE t[k - Len(s)]
  BY Joined, SeqDomain
<1>2. ASSUME Once(s, R), Elements(t) \cap R = {} PROVE Once(w, R)
  <2>1. PICK k \in 1 .. Len(s) : \A j \in 1 .. Len(s) : s[j] \in R <=> j = k
    <3>1. PICK k \in DOMAIN s : \A j \in DOMAIN s : s[j] \in R <=> j = k
      BY <1>2 DEF Once
    <3>2. k \in 1 .. Len(s)
      BY <1>1
    <3>3. \A j \in 1 .. Len(s) : s[j] \in R <=> j = k
      BY <1>1, <3>1
    <3> QED
      BY <3>2, <3>3
  <2>2. \A j \in 1 .. Len(t) : t[j] \notin R
    BY <1>1, <1>2, Zenon DEF Elements
  <2>3. k \in 1 .. Len(w)
    BY <1>1
  <2>4. ASSUME NEW j \in 1 .. Len(w) PROVE w[j] \in R <=> j = k
    <3>1. CASE j <= Len(s)
      BY <1>1, <2>1, <3>1
    <3>2. CASE ~(j <= Len(s))
      <4>1. j - Len(s) \in 1 .. Len(t)
        BY <1>1, <3>2
      <4> QED
        BY <1>1, <2>1, <2>2, <3>2, <4>1
    <3> QED
      BY <3>1, <3>2
  <2>5. k \in DOMAIN w /\ \A j \in DOMAIN w : w[j] \in R <=> j = k
    BY <1>1, <2>3, <2>4
  <2> QED
    BY <2>5 DEF Once
<1>3. ASSUME Once(t, R), Elements(s) \cap R = {} PROVE Once(w, R)
  <2>1. PICK k \in 1 .. Len(t) : \A j \in 1 .. Len(t) : t[j] \in R <=> j = k
    <3>1. PICK k \in DOMAIN t : \A j \in DOMAIN t : t[j] \in R <=> j = k
      BY <1>3 DEF Once
    <3>2. k \in 1 .. Len(t)
      BY <1>1
    <3>3. \A j \in 1 .. Len(t) : t[j] \in R <=> j = k
      BY <1>1, <3>1
    <3> QED
      BY <3>2, <3>3
  <2>2. \A j \in 1 .. Len(s) : s[j] \notin R
    BY <1>1, <1>3, Zenon DEF Elements
  <2>3. Len(s) + k \in 1 .. Len(w)
    BY <1>1
  <2>4. ASSUME NEW j \in 1 .. Len(w) PROVE w[j] \in R <=> j = Len(s) + k
    <3>1. CASE j <= Len(s)
      <4>1. j \in 1 .. Len(s) /\ j # Len(s) + k
        BY <1>1, <3>1
      <4> QED
        BY <1>1, <2>2, <3>1, <4>1
    <3>2. CASE ~(j <= Len(s))
      <4>1. j - Len(s) \in 1 .. Len(t) /\ (j - Len(s) = k <=> j = Len(s) + k)
        BY <1>1, <3>2
      <4>2. w[j] = t[j - Len(s)]
        BY <1>1, <3>2
      <4> QED
        BY <2>1, <4>1, <4>2
    <3> QED
      BY <3>1, <3>2
  <2>5. Len(s) + k \in DOMAIN w /\ \A j \in DOMAIN w : w[j] \in R <=> j = Len(s) + k
    BY <1>1, <2>3, <2>4
  <2> QED
    BY <2>5 DEF Once
<1> QED
  BY <1>2, <1>3

LEMMA OnceOf ==
  ASSUME NEW s, NEW Q, NEW R, Elements(s) \cap Q = Elements(s) \cap R, Once(s, Q)
  PROVE  Once(s, R)
<1>1. \A j \in DOMAIN s : s[j] \in Elements(s)
  BY DEF Elements
<1>2. \A j \in DOMAIN s : s[j] \in Q <=> s[j] \in R
  BY <1>1
<1> QED
  BY <1>2 DEF Once

LEMMA Associative ==
  ASSUME NEW s, IsSeq(s), NEW t, IsSeq(t), NEW w, IsSeq(w)
  PROVE  (s \o t) \o w = s \o (t \o w)
<1> DEFINE S == Elements(s) \cup Elements(t) \cup Elements(w)
<1>1. Elements(s) \subseteq S /\ Elements(t) \subseteq S /\ Elements(w) \subseteq S
  OBVIOUS
<1> HIDE DEF S
<1>2. s \in Seq(S) /\ t \in Seq(S) /\ w \in Seq(S)
  BY <1>1, SeqIn, Zenon
<1> QED
  BY <1>2

LEMMA NothingJoined ==
  ASSUME NEW s, IsSeq(s) PROVE << >> \o s = s /\ s \o << >> = s
<1> DEFINE S == Elements(s)
<1>1. s \in Seq(S)
  BY DEF IsSeq
<1> HIDE DEF S
<1> QED
  BY <1>1

LEMMA NothingIn ==
  ASSUME NEW s, IsSeq(s), Elements(s) = {} PROVE s = << >>
<1>1. s \in Seq({})
  BY DEF IsSeq
<1> QED
  BY <1>1

\* The keys that b is reported for, and the entity that each is about.
AskedFor(b) == {key \in RowKeys : /\ Tagged(b.id, key)
                                  /\ key = <<"zdef">> => b.op # "call" \/ isAllocation(b)}
About(b, key) == Tag(b.id, key).id

\* s reports b by the functions C, once for each of the keys K that it has.
Tells(s, C, b, K) ==
  /\ IsSeq(s)
  /\ \A r \in Elements(s) : r.call \in C /\ \E key \in K \cap AskedFor(b) : r.id = About(b, key)
  /\ \A key \in K \cap AskedFor(b) : Once(s, {r \in Elements(s) : r.id = About(b, key)})

GenericCalls == {"entry2", "entry3", "entry4", "entry5"}

LEMMA OtherEntities ==
  ASSUME ExportOK, TagsOK, NEW b, NEW key \in AskedFor(b), NEW other \in AskedFor(b),
         About(b, key) = About(b, other)
  PROVE  key = other
<1>1. Tagged(b.id, key) /\ Tagged(b.id, other) /\ key \in RowKeys /\ other \in RowKeys
  BY DEF AskedFor
<1>2. /\ key = KeyOf(ents[Tag(b.id, key).id + 1].kind)
      /\ other = KeyOf(ents[Tag(b.id, other).id + 1].kind)
  BY <1>1, TagNames
<1> QED
  BY <1>2 DEF About

LEMMA TellsNothing ==
  ASSUME NEW C, NEW b, NEW K, K \cap AskedFor(b) = {} PROVE Tells(<< >>, C, b, K)
<1> DEFINE s == << >>
<1>1. IsSeq(s) /\ Elements(s) = {}
  BY EmptyList
<1> HIDE DEF s
<1>2. Tells(s, C, b, K)
  BY <1>1 DEF Tells
<1> QED
  BY <1>2 DEF s

LEMMA TellsOne ==
  ASSUME NEW C, NEW b, NEW key \in AskedFor(b), NEW r, r.call \in C, r.id = About(b, key)
  PROVE  Tells(<<r>>, C, b, {key})
<1> DEFINE s == <<r>>
<1>1. IsSeq(s) /\ Elements(s) = {r} /\ Len(s) = 1 /\ s[1] = r /\ DOMAIN s = 1 .. 1
  BY Single
<1> HIDE DEF s
<1> DEFINE R == {x \in Elements(s) : x.id = About(b, key)}
<1>2. s[1] \in R
  BY <1>1
<1> HIDE DEF R
<1>3. 1 \in DOMAIN s /\ \A j \in DOMAIN s : s[j] \in R <=> j = 1
  BY <1>1, <1>2
<1>4. Once(s, R)
  BY <1>3 DEF Once
<1>5. Tells(s, C, b, {key})
  BY <1>1, <1>4 DEF Tells, R
<1> QED
  BY <1>5 DEF s

LEMMA TellsJoined ==
  ASSUME ExportOK, TagsOK, NEW b, NEW C, NEW K, NEW L, K \cap L = {},
         NEW s, Tells(s, C, b, K), NEW t, Tells(t, C, b, L)
  PROVE  Tells(s \o t, C, b, K \cup L)
<1> DEFINE w == s \o t
<1>1. w = s \o t /\ IsSeq(s) /\ IsSeq(t)
  BY DEF Tells
<1> HIDE DEF w
<1>2. IsSeq(w) /\ Elements(w) = Elements(s) \cup Elements(t)
  BY <1>1, Joined
<1>3. \A r \in Elements(w) : r.call \in C /\ \E key \in (K \cup L) \cap AskedFor(b) : r.id = About(b, key)
  <2>1. \A r \in Elements(s) : r.call \in C /\ \E key \in K \cap AskedFor(b) : r.id = About(b, key)
    BY DEF Tells
  <2>2. \A r \in Elements(t) : r.call \in C /\ \E key \in L \cap AskedFor(b) : r.id = About(b, key)
    BY DEF Tells
  <2> QED
    BY <1>2, <2>1, <2>2
<1>4. ASSUME NEW key \in K \cap AskedFor(b)
      PROVE  Once(w, {r \in Elements(w) : r.id = About(b, key)})
  <2> DEFINE Q == {r \in Elements(s) : r.id = About(b, key)}
             R == {r \in Elements(w) : r.id = About(b, key)}
  <2>1. Once(s, Q)
    BY <1>4 DEF Tells
  <2>2. Elements(s) \cap Q = Elements(s) \cap R
    BY <1>2
  <2>3. Elements(t) \cap R = {}
    <3>1. \A r \in Elements(t) : \E other \in L \cap AskedFor(b) : r.id = About(b, other)
      BY DEF Tells
    <3> QED
      BY <1>4, <3>1, OtherEntities
  <2> HIDE DEF Q, R
  <2>4. Once(w, R)
    BY <1>1, <2>1, <2>2, <2>3, OnceOf, OnceJoined
  <2> QED
    BY <2>4 DEF R
<1>5. ASSUME NEW key \in L \cap AskedFor(b)
      PROVE  Once(w, {r \in Elements(w) : r.id = About(b, key)})
  <2> DEFINE Q == {r \in Elements(t) : r.id = About(b, key)}
             R == {r \in Elements(w) : r.id = About(b, key)}
  <2>1. Once(t, Q)
    BY <1>5 DEF Tells
  <2>2. Elements(t) \cap Q = Elements(t) \cap R
    BY <1>2
  <2>3. Elements(s) \cap R = {}
    <3>1. \A r \in Elements(s) : \E other \in K \cap AskedFor(b) : r.id = About(b, other)
      BY DEF Tells
    <3> QED
      BY <1>5, <3>1, OtherEntities
  <2> HIDE DEF Q, R
  <2>4. Once(w, R)
    BY <1>1, <2>1, <2>2, <2>3, OnceOf, OnceJoined
  <2> QED
    BY <2>4 DEF R
<1>6. Tells(w, C, b, K \cup L)
  BY <1>2, <1>3, <1>4, <1>5 DEF Tells
<1> QED
  BY <1>6 DEF w

\* What the parts insert behind i, which stands for b.
LEMMA DefTells ==
  ASSUME NEW b, NEW i, i.id = b.id, i.op = b.op, i.callee.name = b.callee.name,
         NEW C, NEW onStack \in C, NEW dynamic \in C
  PROVE  Tells(DefReport(i, onStack, dynamic), C, b, {<<"zdef">>})
<1> DEFINE id == Tag(i.id, <<"zdef">>).id
           S == Report(onStack, id, NoRef, i.id)
           D == Report(dynamic, id, NoRef, i.id)
           s == DefReport(i, onStack, dynamic)
<1>1. isAllocation(i) <=> isAllocation(b)
  BY DEF isAllocation
<1>2. CASE <<"zdef">> \in AskedFor(b)
  <2>1. s = <<S>> \/ s = <<D>>
    BY <1>1, <1>2 DEF DefReport, AskedFor
  <2>2. S.call \in C /\ S.id = About(b, <<"zdef">>) /\ D.call \in C /\ D.id = About(b, <<"zdef">>)
    BY DEF Report, About
  <2> HIDE DEF S, D, s
  <2>3. Tells(<<S>>, C, b, {<<"zdef">>}) /\ Tells(<<D>>, C, b, {<<"zdef">>})
    BY <1>2, <2>2, TellsOne
  <2> QED
    BY <2>1, <2>3 DEF s
<1>3. CASE <<"zdef">> \notin AskedFor(b)
  <2>1. <<"zdef">> \in RowKeys
    BY DEF RowKeys
  <2>2. ~Tagged(i.id, <<"zdef">>) \/ (i.op = "call" /\ ~isAllocation(i))
    BY <1>1, <1>3, <2>1 DEF AskedFor
  <2>3. s = << >>
    BY <2>2 DEF DefReport
  <2> HIDE DEF s
  <2>4. Tells(<< >>, C, b, {<<"zdef">>})
    BY <1>3, TellsNothing
  <2> QED
    BY <2>3, <2>4 DEF s
<1> QED
  BY <1>2, <1>3

LEMMA UseTells ==
  ASSUME NEW b, NEW i, i.id = b.id, NEW key \in {<<"zsuse">>, <<"zluse">>}, NEW addr,
         NEW C, NEW direct \in C, NEW indirect \in C
  PROVE  /\ Tells(UseReport(i, key, addr, direct, indirect), C, b, {key})
         /\ ~Tagged(i.id, key) => Tells(<< >>, C, b, {key})
<1> DEFINE id == Tag(i.id, key).id
           I == Report(indirect, id, Resolve(i), addr)
           D == Report(direct, id, NoRef, addr)
           s == UseReport(i, key, addr, direct, indirect)
<1>1. key \in AskedFor(b) <=> Tagged(i.id, key)
  BY KeysDiffer DEF AskedFor, RowKeys
<1>2. CASE Tagged(i.id, key)
  <2>1. s = <<I>> \/ s = <<D>>
    BY <1>2 DEF UseReport
  <2>2. I.call \in C /\ I.id = About(b, key) /\ D.call \in C /\ D.id = About(b, key)
    BY DEF Report, About
  <2> HIDE DEF I, D, s
  <2>3. Tells(<<I>>, C, b, {key}) /\ Tells(<<D>>, C, b, {key})
    BY <1>1, <1>2, <2>2, TellsOne
  <2> QED
    BY <1>2, <2>1, <2>3 DEF s
<1>3. CASE ~Tagged(i.id, key)
  <2>1. s = << >>
    BY <1>3 DEF UseReport
  <2> HIDE DEF s
  <2>2. Tells(<< >>, C, b, {key})
    BY <1>1, <1>3, TellsNothing
  <2> QED
    BY <2>1, <2>2 DEF s
<1> QED
  BY <1>2, <1>3

LEMMA PartsTell ==
  ASSUME ExportOK, TagsOK, NEW b, NEW i, i.id = b.id, i.op = b.op, i.callee.name = b.callee.name
  PROVE  /\ Tells(LoopPart(i), GenericCalls, b, RowKeys)
         /\ Tells(DefPart(i), General, b, {<<"zdef">>})
         /\ Tells(StorePart(i), General, b, {<<"zsuse">>})
         /\ Tells(LibPart(i), General, b, {<<"zluse">>})
         /\ IsSeq(ExitPart(i)) /\ \A r \in Elements(ExitPart(i)) : r.call = "zexit"
<1>1. Tells(LoopDefs(i), GenericCalls, b, {<<"zdef">>}) /\ Tells(DefPart(i), General, b, {<<"zdef">>})
  <2>1. /\ "entry5" \in GenericCalls
        /\ "zbouncer_collect_alloca" \in General /\ "zbouncer_collect_alloca_dyn" \in General
    BY DEF GenericCalls, General
  <2> QED
    BY <2>1, DefTells DEF LoopDefs, DefPart
<1>2. Tells(LoopStores(i), GenericCalls, b, {<<"zsuse">>}) /\ Tells(StorePart(i), General, b, {<<"zsuse">>})
  <2>1. "entry3" \in GenericCalls /\ "zbouncer_use" \in General /\ "zbouncer_iuse" \in General
    BY DEF GenericCalls, General
  <2> QED
    BY <2>1, UseTells DEF LoopStores, StorePart
<1>3. Tells(LoopLibs(i), GenericCalls, b, {<<"zluse">>}) /\ Tells(LibPart(i), General, b, {<<"zluse">>})
  <2>1. /\ "entry2" \in GenericCalls /\ "entry4" \in GenericCalls
        /\ "zbouncer_luse" \in General /\ "zbouncer_iluse" \in General
    BY DEF GenericCalls, General
  <2> QED
    BY <2>1, UseTells DEF LoopLibs, LibPart
<1>4. Tells(LoopPart(i), GenericCalls, b, RowKeys)
  <2>1. Tells(LoopDefs(i) \o LoopStores(i), GenericCalls, b, {<<"zdef">>, <<"zsuse">>})
    <3>1. {<<"zdef">>} \cap {<<"zsuse">>} = {}
      BY KeysDiffer
    <3>2. {<<"zdef">>} \cup {<<"zsuse">>} = {<<"zdef">>, <<"zsuse">>}
      OBVIOUS
    <3>3. Tells(LoopDefs(i) \o LoopStores(i), GenericCalls, b, {<<"zdef">>} \cup {<<"zsuse">>})
      BY <1>1, <1>2, <3>1, TellsJoined
    <3> QED
      BY <3>2, <3>3, Zenon
  <2>2. {<<"zdef">>, <<"zsuse">>} \cap {<<"zluse">>} = {}
    BY KeysDiffer
  <2>3. {<<"zdef">>, <<"zsuse">>} \cup {<<"zluse">>} = RowKeys
    BY DEF RowKeys
  <2>4. Tells((LoopDefs(i) \o LoopStores(i)) \o LoopLibs(i), GenericCalls, b,
              {<<"zdef">>, <<"zsuse">>} \cup {<<"zluse">>})
    BY <1>3, <2>1, <2>2, TellsJoined
  <2> QED
    BY <2>3, <2>4, Zenon DEF LoopPart
<1>5. IsSeq(ExitPart(i)) /\ \A r \in Elements(ExitPart(i)) : r.call = "zexit"
  <2> DEFINE r == Report("zexit", 0, NoRef, i.id)
             s == ExitPart(i)
  <2>1. r.call = "zexit"
    BY DEF Report
  <2>2. s = << >> \/ s = <<r>>
    BY DEF ExitPart
  <2> HIDE DEF r, s
  <2>3. IsSeq(s) /\ (Elements(s) = {} \/ Elements(s) = {r})
    BY <2>2, Single, EmptyList
  <2> QED
    BY <2>1, <2>3 DEF s
<1> QED
  BY <1>1, <1>2, <1>3, <1>4, <1>5

\* What is behind b: what its functions report, the end of the run, and the generic entries.
Exits(s) == IsSeq(s) /\ \A r \in Elements(s) : r.call = "zexit"

Composed(s, b, K) ==
  \E own, exit, generic :
    /\ s = own \o (exit \o generic)
    /\ Tells(own, General, b, K) /\ Exits(exit)
    /\ Tells(generic, GenericCalls, b, IF b.loop THEN RowKeys ELSE {})

ComposedOK ==
  \A b \in Base :
    /\ phase \notin Instrumenting \/ phase = "z_loops" => after[b.id] = << >>
    /\ phase \in {"z_init", "z_exit", "z_defs"} => Composed(after[b.id], b, {})
    /\ phase = "z_stores" => Composed(after[b.id], b, {<<"zdef">>})
    /\ phase = "z_libs" => Composed(after[b.id], b, {<<"zsuse">>, <<"zdef">>})
    /\ phase \in {"z_calls", "done"} => Composed(after[b.id], b, RowKeys)

LEMMA ComposedKept ==
  ASSUME UNCHANGED tags PROVE \A s, b, K : Composed(s, b, K)' <=> Composed(s, b, K)
<1>1. ASSUME NEW x, NEW key PROVE Tag(x, key)' = Tag(x, key) /\ (Tagged(x, key)' <=> Tagged(x, key))
  BY DEF Tag, Tagged
<1>2. ASSUME NEW b PROVE AskedFor(b)' = AskedFor(b) /\ \A key : About(b, key)' = About(b, key)
  BY <1>1 DEF AskedFor, About
<1>3. ASSUME NEW s, NEW C, NEW b, NEW K PROVE Tells(s, C, b, K)' <=> Tells(s, C, b, K)
  BY <1>2 DEF Tells
<1> QED
  BY <1>3 DEF Composed

LEMMA OwnAdded ==
  ASSUME ExportOK, TagsOK, NEW s, NEW b, NEW K, Composed(s, b, K),
         NEW p, NEW L, Tells(p, General, b, L), K \cap L = {}
  PROVE  Composed(p \o s, b, L \cup K)
<1>1. PICK own, exit, generic :
        /\ s = own \o (exit \o generic)
        /\ Tells(own, General, b, K) /\ Exits(exit)
        /\ Tells(generic, GenericCalls, b, IF b.loop THEN RowKeys ELSE {})
  BY DEF Composed
<1> DEFINE t == exit \o generic
<1>2. IsSeq(p) /\ IsSeq(own) /\ IsSeq(t)
  BY <1>1, Joined DEF Tells, Exits
<1> HIDE DEF t
<1>3. (p \o own) \o t = p \o (own \o t)
  BY <1>2, Associative
<1>4. Tells(p \o own, General, b, L \cup K)
  <2>1. L \cap K = {}
    OBVIOUS
  <2> QED
    BY <1>1, <2>1, TellsJoined
<1>5. p \o s = (p \o own) \o (exit \o generic)
  BY <1>1, <1>3 DEF t
<1> QED
  BY <1>1, <1>4, <1>5 DEF Composed

LEMMA ExitAdded ==
  ASSUME NEW s, NEW b, Composed(s, b, {}), NEW p, Exits(p)
  PROVE  Composed(p \o s, b, {})
<1>1. PICK own, exit, generic :
        /\ s = own \o (exit \o generic)
        /\ Tells(own, General, b, {}) /\ Exits(exit)
        /\ Tells(generic, GenericCalls, b, IF b.loop THEN RowKeys ELSE {})
  BY DEF Composed
<1>2. own = << >>
  BY <1>1, NothingIn DEF Tells
<1>3. IsSeq(exit) /\ IsSeq(generic) /\ IsSeq(p)
  BY <1>1 DEF Tells, Exits
<1> DEFINE t == exit \o generic
           e == p \o exit
           w == e \o generic
<1>4. IsSeq(t) /\ IsSeq(e) /\ Elements(e) = Elements(p) \cup Elements(exit)
  BY <1>3, Joined
<1>5. w = p \o t
  BY <1>3, Associative
<1>6. IsSeq(w)
  <2> HIDE DEF e
  <2> QED
    BY <1>3, <1>4, Joined
<1>7. s = t
  <2> HIDE DEF t
  <2> QED
    BY <1>1, <1>2, <1>4, NothingJoined DEF t
<1>8. p \o s = own \o w
  <2> HIDE DEF w
  <2> QED
    BY <1>2, <1>5, <1>6, <1>7, NothingJoined
<1>9. Exits(e)
  <2> HIDE DEF e
  <2> QED
    BY <1>1, <1>4 DEF Exits
<1> QED
  BY <1>1, <1>8, <1>9 DEF Composed

LEMMA GenericsAdded ==
  ASSUME NEW b, NEW s, IF b.loop THEN Tells(s, GenericCalls, b, RowKeys) ELSE s = << >>
  PROVE  Composed(s, b, {})
<1> DEFINE e == << >>
<1>1. IsSeq(e) /\ Elements(e) = {}
  BY EmptyList
<1>2. Exits(e) /\ Tells(e, General, b, {}) /\ Tells(e, GenericCalls, b, {})
  BY <1>1, TellsNothing DEF Exits
<1>3. Tells(s, GenericCalls, b, IF b.loop THEN RowKeys ELSE {})
  BY <1>2
<1>4. IsSeq(s)
  BY <1>3 DEF Tells
<1>5. s = e \o (e \o s)
  BY <1>4, NothingJoined
<1> HIDE DEF e
<1> QED
  BY <1>2, <1>3, <1>5 DEF Composed

\* The one instruction of the module that stands for b.
Fits(j, b) == /\ j.id = b.id /\ j.op = b.op /\ j.callee.name = b.callee.name /\ j.loop = b.loop

LEMMA StandsFits ==
  ASSUME prog \in Programs, NEW b \in Base, NEW j, Stands(j, b) PROVE Fits(j, b)
<1>1. IsOriginal(b.callee)
  BY BaseFacts DEF Untouched
<1>2. j.callee.name = b.callee.name
  BY <1>1, CloneFields DEF Stands, Target
<1> QED
  BY <1>2 DEF Stands, Fits

At(b) == CHOOSE j \in code : j.id = b.id

\* What stands behind the instructions once P[i] is inserted behind each i of a set.
Behind(set, P) == [x \in prog.values |->
                     IF \E i \in set : i.id = x THEN P[CHOOSE i \in set : i.id = x] \o after[x]
                                               ELSE after[x]]

LEMMA PartBehind ==
  ASSUME AnalysisInv, phase \in {"z_loops", "z_exit", "z_defs", "z_stores", "z_libs"},
         NEW set, set = code \/ set = InLoops, NEW P, NEW b \in Base,
         after' = Behind(set, P)
  PROVE  /\ At(b) \in code /\ Fits(At(b), b)
         /\ after'[b.id] = IF At(b) \in set THEN P[At(b)] \o after[b.id] ELSE after[b.id]
<1>1. prog \in Programs /\ Settled(code)
  BY FinalSettled DEF AnalysisInv, ModuleInv
<1>2. b.id \in prog.values
  BY <1>1, BaseCalls DEF AnalysisInv, ModuleInv, Wrapped, CallOK
<1>3. PICK j \in code : Stands(j, b)
  BY <1>1 DEF Settled
<1>4. Fits(j, b)
  BY <1>1, <1>3, StandsFits
<1>5. \A i \in code : i.id = b.id => i = j
  BY <1>1, <1>4 DEF Settled, Fits
<1>6. set \subseteq code
  BY DEF InLoops
<1>9. At(b) = j
  <2>1. j.id = b.id
    BY <1>4 DEF Fits
  <2> QED
    BY <1>5, <2>1 DEF At
<1>7. CASE j \in set
  <2>1. j.id = b.id
    BY <1>4 DEF Fits
  <2>2. (CHOOSE i \in set : i.id = b.id) = j
    BY <1>5, <1>6, <1>7, <2>1
  <2> QED
    BY <1>2, <1>4, <1>7, <1>9, <2>1, <2>2 DEF Behind
<1>8. CASE j \notin set
  <2>1. ~ \E i \in set : i.id = b.id
    BY <1>5, <1>6, <1>8
  <2> QED
    BY <1>2, <1>4, <1>8, <1>9, <2>1 DEF Behind
<1> QED
  BY <1>7, <1>8

LEMMA BaseIds == ASSUME prog \in Programs PROVE \A b \in Base : b.id \in prog.values
<1>1. /\ \A i \in prog.code : i.id \in prog.values
      /\ \A i \in prog.code : i.op = "call" => {<<i.id[1], 1>>, <<i.id[1], 2>>} \subseteq prog.values
  BY AnswersAssumption
<1>2. \A i \in prog.code : Untouched(i)
  BY BaseFacts DEF Base
<1>3. \A i \in prog.code : i.op = "call" => <<i.id[1], 1>> \in prog.values /\ <<i.id[1], 2>> \in prog.values
  BY <1>1
<1>4. ASSUME NEW i \in Inputs(ScanfNames) PROVE Wrapper(i, 1, "wrapper_scanf", 2).id \in prog.values
  <2>1. i \in prog.code /\ i.op = "call"
    BY DEF Inputs
  <2>2. Untouched(i) /\ <<i.id[1], 1>> \in prog.values
    BY <1>2, <1>3, <2>1
  <2> DEFINE w == Wrapper(i, 1, "wrapper_scanf", 2)
  <2>3. w = Wrapper(i, 1, "wrapper_scanf", 2)
    OBVIOUS
  <2> HIDE DEF w
  <2>4. w.id = <<i.id[1], 1>>
    BY <2>2, <2>3, WrapperFields
  <2> QED
    BY <2>2, <2>3, <2>4
<1>5. ASSUME NEW i \in Inputs(GetsNames) PROVE Wrapper(i, 2, "wrapper_gets", 1).id \in prog.values
  <2>1. i \in prog.code /\ i.op = "call"
    BY DEF Inputs
  <2>2. Untouched(i) /\ <<i.id[1], 2>> \in prog.values
    BY <1>2, <1>3, <2>1
  <2> DEFINE w == Wrapper(i, 2, "wrapper_gets", 1)
  <2>3. w = Wrapper(i, 2, "wrapper_gets", 1)
    OBVIOUS
  <2> HIDE DEF w
  <2>4. w.id = <<i.id[1], 2>>
    BY <2>2, <2>3, WrapperFields
  <2> QED
    BY <2>2, <2>3, <2>4
<1> QED
  BY <1>1, <1>4, <1>5 DEF Base

LEMMA LoopComposed ==
  ASSUME AnalysisInv, ExportOK, TagsOK, ComposedOK, InsertLoop, NEW b \in Base
  PROVE  Composed(after'[b.id], b, {})
<1> DEFINE P == [i \in InLoops |-> LoopPart(i)]
<1>1. /\ phase = "z_loops"
      /\ after' = Behind(InLoops, P)
  BY DEF InsertLoop, Insert, Behind
<1>2. \A i \in InLoops : P[i] = LoopPart(i)
  OBVIOUS
<1> HIDE DEF P
<1> DEFINE j == At(b)
<1>3. /\ j \in code /\ Fits(j, b)
      /\ after'[b.id] = IF j \in InLoops THEN P[j] \o after[b.id] ELSE after[b.id]
  BY <1>1, PartBehind
<1> HIDE DEF j
<1>4. after[b.id] = << >>
  BY <1>1 DEF ComposedOK
<1>5. j \in InLoops <=> b.loop
  BY <1>3 DEF Fits, InLoops
<1>6. CASE b.loop
  <2>1. Tells(LoopPart(j), GenericCalls, b, RowKeys)
    BY <1>3, PartsTell DEF Fits
  <2>2. after'[b.id] = LoopPart(j) \o << >>
    BY <1>2, <1>3, <1>4, <1>5, <1>6
  <2>3. IsSeq(LoopPart(j))
    BY <2>1 DEF Tells
  <2>4. after'[b.id] = LoopPart(j)
    BY <2>2, <2>3, NothingJoined
  <2> QED
    BY <1>6, <2>1, <2>4, GenericsAdded
<1>7. CASE ~b.loop
  <2>1. after'[b.id] = << >>
    BY <1>3, <1>4, <1>5, <1>7
  <2> QED
    BY <1>7, <2>1, GenericsAdded
<1> QED
  BY <1>6, <1>7

LEMMA ExitComposed ==
  ASSUME AnalysisInv, ExportOK, TagsOK, ComposedOK, InsertExit, NEW b \in Base
  PROVE  Composed(after'[b.id], b, {})
<1> DEFINE P == [i \in code |-> ExitPart(i)]
<1>1. /\ phase = "z_exit"
      /\ after' = Behind(code, P)
  BY DEF InsertExit, Insert, Behind
<1>2. \A i \in code : P[i] = ExitPart(i)
  OBVIOUS
<1> HIDE DEF P
<1> DEFINE j == At(b)
<1>3. /\ j \in code /\ Fits(j, b)
      /\ after'[b.id] = IF j \in code THEN P[j] \o after[b.id] ELSE after[b.id]
  BY <1>1, PartBehind
<1> HIDE DEF j
<1>4. Composed(after[b.id], b, {})
  BY <1>1 DEF ComposedOK
<1>5. Exits(ExitPart(j))
  BY <1>3, PartsTell DEF Fits, Exits
<1>6. after'[b.id] = ExitPart(j) \o after[b.id]
  BY <1>2, <1>3
<1> QED
  BY <1>4, <1>5, <1>6, ExitAdded

LEMMA DefComposed ==
  ASSUME AnalysisInv, ExportOK, TagsOK, ComposedOK, InsertDef, NEW b \in Base
  PROVE  Composed(after'[b.id], b, {<<"zdef">>})
<1> DEFINE P == [i \in code |-> DefPart(i)]
<1>1. /\ phase = "z_defs"
      /\ after' = Behind(code, P)
  BY DEF InsertDef, Insert, Behind
<1>2. \A i \in code : P[i] = DefPart(i)
  OBVIOUS
<1> HIDE DEF P
<1> DEFINE j == At(b)
<1>3. /\ j \in code /\ Fits(j, b)
      /\ after'[b.id] = IF j \in code THEN P[j] \o after[b.id] ELSE after[b.id]
  BY <1>1, PartBehind
<1> HIDE DEF j
<1>4. Composed(after[b.id], b, {})
  BY <1>1 DEF ComposedOK
<1>5. Tells(DefPart(j), General, b, {<<"zdef">>})
  BY <1>3, PartsTell DEF Fits
<1>6. after'[b.id] = DefPart(j) \o after[b.id]
  BY <1>2, <1>3
<1>7. {} \cap {<<"zdef">>} = {} /\ {<<"zdef">>} \cup {} = {<<"zdef">>}
  OBVIOUS
<1>8. Composed(DefPart(j) \o after[b.id], b, {<<"zdef">>} \cup {})
  BY <1>4, <1>5, <1>7, OwnAdded
<1> QED
  BY <1>6, <1>7, <1>8, Zenon

LEMMA StoreComposed ==
  ASSUME AnalysisInv, ExportOK, TagsOK, ComposedOK, InsertStore, NEW b \in Base
  PROVE  Composed(after'[b.id], b, {<<"zsuse">>, <<"zdef">>})
<1> DEFINE P == [i \in code |-> StorePart(i)]
<1>1. /\ phase = "z_stores"
      /\ after' = Behind(code, P)
  BY DEF InsertStore, Insert, Behind
<1>2. \A i \in code : P[i] = StorePart(i)
  OBVIOUS
<1> HIDE DEF P
<1> DEFINE j == At(b)
<1>3. /\ j \in code /\ Fits(j, b)
      /\ after'[b.id] = IF j \in code THEN P[j] \o after[b.id] ELSE after[b.id]
  BY <1>1, PartBehind
<1> HIDE DEF j
<1>4. Composed(after[b.id], b, {<<"zdef">>})
  BY <1>1 DEF ComposedOK
<1>5. Tells(StorePart(j), General, b, {<<"zsuse">>})
  BY <1>3, PartsTell DEF Fits
<1>6. after'[b.id] = StorePart(j) \o after[b.id]
  BY <1>2, <1>3
<1>7. /\ {<<"zdef">>} \cap {<<"zsuse">>} = {}
      /\ {<<"zsuse">>} \cup {<<"zdef">>} = {<<"zsuse">>, <<"zdef">>}
  BY KeysDiffer
<1>8. Composed(StorePart(j) \o after[b.id], b, {<<"zsuse">>} \cup {<<"zdef">>})
  BY <1>4, <1>5, <1>7, OwnAdded
<1> QED
  BY <1>6, <1>7, <1>8, Zenon

LEMMA LibComposed ==
  ASSUME AnalysisInv, ExportOK, TagsOK, ComposedOK, InsertLib, NEW b \in Base
  PROVE  Composed(after'[b.id], b, RowKeys)
<1> DEFINE P == [i \in code |-> LibPart(i)]
<1>1. /\ phase = "z_libs"
      /\ after' = Behind(code, P)
  BY DEF InsertLib, Insert, Behind
<1>2. \A i \in code : P[i] = LibPart(i)
  OBVIOUS
<1> HIDE DEF P
<1> DEFINE j == At(b)
<1>3. /\ j \in code /\ Fits(j, b)
      /\ after'[b.id] = IF j \in code THEN P[j] \o after[b.id] ELSE after[b.id]
  BY <1>1, PartBehind
<1> HIDE DEF j
<1>4. Composed(after[b.id], b, {<<"zsuse">>, <<"zdef">>})
  BY <1>1 DEF ComposedOK
<1>5. Tells(LibPart(j), General, b, {<<"zluse">>})
  BY <1>3, PartsTell DEF Fits
<1>6. after'[b.id] = LibPart(j) \o after[b.id]
  BY <1>2, <1>3
<1>7. {<<"zsuse">>, <<"zdef">>} \cap {<<"zluse">>} = {}
  BY KeysDiffer
<1>8. {<<"zluse">>} \cup {<<"zsuse">>, <<"zdef">>} = RowKeys
  BY DEF RowKeys
<1>9. Composed(LibPart(j) \o after[b.id], b, {<<"zluse">>} \cup {<<"zsuse">>, <<"zdef">>})
  BY <1>4, <1>5, <1>7, OwnAdded
<1> QED
  BY <1>6, <1>8, <1>9, Zenon

LEMMA ComposedStep ==
  ASSUME AnalysisInv, ExportOK, TagsOK, ComposedOK, [Next]_vars PROVE ComposedOK'
<1>0. Idle /\ UNCHANGED prog /\ Base' = Base
  BY BaseKept DEF AnalysisInv, Next, vars
<1>1. CASE (PassNext \/ SvfNext \/ NextPart) /\ UNCHANGED zbVars
  <2>1. phase \notin Instrumenting
    <3>1. PassNext => phase \notin Instrumenting
      BY DEF PassNext, InputWrapper, instrumentFunction, instrumentCalls, removeFunction, Instrumenting
    <3> QED
      BY <1>0, <1>1, <3>1, SvfPhases, PartSteps DEF Instrumenting
  <2>2. phase' \notin Instrumenting \/ phase' = "z_loops"
    <3>1. PassNext => phase' \notin Instrumenting
      BY DEF PassNext, InputWrapper, instrumentFunction, instrumentCalls, removeFunction, Instrumenting
    <3>2. SvfNext => phase' \notin Instrumenting \/ phase' = "z_loops"
      BY <2>1, SvfSteps DEF Instrumenting
    <3>3. NextPart => phase' \notin Instrumenting
      BY PartSteps DEF Instrumenting
    <3> QED
      BY <1>1, <3>1, <3>2, <3>3
  <2>3. \A b \in Base : after'[b.id] = << >>
    BY <1>1, <2>1 DEF ComposedOK, zbVars
  <2>4. phase' \notin {"z_init", "z_exit", "z_defs", "z_stores", "z_libs", "z_calls", "done"}
    BY <2>2 DEF Instrumenting
  <2> QED
    BY <1>0, <2>3, <2>4 DEF ComposedOK
<1>2. CASE ZbNext \/ UNCHANGED vars
  <2>1. UNCHANGED tags
    BY <1>2, ZbSteps DEF PassRefs, svfVars, vars
  <2>2. ASSUME NEW b \in Base, NEW K, Composed(after'[b.id], b, K)
        PROVE  Composed(after[b.id], b, K)'
    BY <2>1, <2>2, ComposedKept
  <2>3. CASE InsertLoop
    <3>1. phase' = "z_init"
      BY <2>3 DEF InsertLoop, Insert
    <3> QED
      BY <1>0, <2>2, <2>3, <3>1, LoopComposed DEF ComposedOK, Instrumenting
  <2>4. CASE InsertInit
    <3>1. phase = "z_init" /\ phase' = "z_exit" /\ UNCHANGED after
      BY <2>4 DEF InsertInit
    <3>2. \A b \in Base : Composed(after'[b.id], b, {})
      BY <3>1 DEF ComposedOK
    <3> QED
      BY <1>0, <2>2, <3>1, <3>2 DEF ComposedOK, Instrumenting
  <2>5. CASE InsertExit
    <3>1. phase' = "z_defs"
      BY <2>5 DEF InsertExit, Insert
    <3> QED
      BY <1>0, <2>2, <2>5, <3>1, ExitComposed DEF ComposedOK, Instrumenting
  <2>6. CASE InsertDef
    <3>1. phase' = "z_stores"
      BY <2>6 DEF InsertDef, Insert
    <3> QED
      BY <1>0, <2>2, <2>6, <3>1, DefComposed DEF ComposedOK, Instrumenting
  <2>7. CASE InsertStore
    <3>1. phase' = "z_libs"
      BY <2>7 DEF InsertStore, Insert
    <3> QED
      BY <1>0, <2>2, <2>7, <3>1, StoreComposed DEF ComposedOK, Instrumenting
  <2>8. CASE InsertLib
    <3>1. phase' = "z_calls"
      BY <2>8 DEF InsertLib, Insert
    <3> QED
      BY <1>0, <2>2, <2>8, <3>1, LibComposed DEF ComposedOK, Instrumenting
  <2>9. CASE PassRefs
    <3>1. phase = "z_calls" /\ phase' = "done" /\ UNCHANGED after
      BY <2>9 DEF PassRefs, zbVars
    <3>2. \A b \in Base : Composed(after'[b.id], b, RowKeys)
      BY <3>1 DEF ComposedOK
    <3> QED
      BY <1>0, <2>2, <3>1, <3>2 DEF ComposedOK, Instrumenting
  <2>10. CASE UNCHANGED vars
    <3>1. UNCHANGED <<phase, after>>
      BY <2>10 DEF vars, zbVars
    <3> QED
      BY <1>0, <2>1, <3>1, ComposedKept DEF ComposedOK
  <2> QED
    BY <1>2, <2>3, <2>4, <2>5, <2>6, <2>7, <2>8, <2>9, <2>10 DEF ZbNext
<1> QED
  BY <1>1, <1>2 DEF Next

-----------------------------------------------------------------------------
\* The tags that i is reported for are those of the keys that it is asked for.
LEMMA MadeIsAsked ==
  ASSUME RowTags, NEW b, NEW i, Fits(i, b)
  PROVE  /\ \A t \in Made(i) : t.key \in AskedFor(b) /\ t.val.id = About(b, t.key)
         /\ \A key \in AskedFor(b) : \E t \in Made(i) : t.val.id = About(b, key)
<1>1. i.id = b.id /\ i.op = b.op /\ (isAllocation(i) <=> isAllocation(b))
  BY DEF Fits, isAllocation
<1>2. ASSUME NEW t \in tags, t.on = b.id, t.key \in RowKeys PROVE Tag(b.id, t.key) = t.val
  <2>1. \A s \in tags : s.on = b.id /\ s.key = t.key => s = t
    BY <1>2 DEF RowTags
  <2>2. (CHOOSE s \in tags : s.on = b.id /\ s.key = t.key) = t
    BY <1>2, <2>1
  <2> QED
    BY <2>2 DEF Tag
<1>3. ASSUME NEW t \in Made(i) PROVE t.key \in AskedFor(b) /\ t.val.id = About(b, t.key)
  <2>1. t \in tags /\ t.on = b.id /\ t.key \in RowKeys
    BY <1>1 DEF Made, RowKeys
  <2>2. t.key = <<"zdef">> => b.op # "call" \/ isAllocation(b)
    BY <1>1, KeysDiffer DEF Made
  <2> QED
    BY <1>2, <2>1, <2>2 DEF AskedFor, About, Tagged
<1>4. ASSUME NEW key \in AskedFor(b) PROVE \E t \in Made(i) : t.val.id = About(b, key)
  <2>1. PICK t \in tags : t.on = b.id /\ t.key = key
    BY DEF AskedFor, Tagged
  <2>2. key \in RowKeys /\ (key = <<"zdef">> => b.op # "call" \/ isAllocation(b))
    BY DEF AskedFor
  <2>3. t \in Made(i)
    BY <1>1, <2>1, <2>2 DEF Made, RowKeys
  <2> QED
    BY <1>2, <2>1, <2>2, <2>3 DEF About
<1> QED
  BY <1>3, <1>4

LEMMA ComposedIsOnce ==
  ASSUME AnalysisInv, RowTags, ComposedOK PROVE ReportedOnce
<1> SUFFICES ASSUME phase = "done", NEW i \in code
             PROVE  LET s == after[i.id] IN
                    /\ \A t \in Made(i) : /\ Once(s, Own(s, t.val.id))
                                          /\ i.loop => Once(s, Generic(s, t.val.id))
                    /\ \A r \in Elements(s) : \/ r.call = "zexit"
                                              \/ /\ r.call \in General \/ i.loop
                                                 /\ \E t \in Made(i) : t.val.id = r.id
                    /\ \A j, k \in DOMAIN s : j < k /\ s[k].call \in General => s[j].call \in General
  BY DEF ReportedOnce
<1>1. PICK b \in Base : Fits(i, b)
  BY StandsFits DEF AnalysisInv, ModuleInv, Settled
<1> DEFINE s == after[i.id]
<1>2. i.id = b.id /\ i.loop = b.loop
  BY <1>1 DEF Fits
<1>3. PICK own, exit, generic :
        /\ s = own \o (exit \o generic)
        /\ Tells(own, General, b, RowKeys) /\ Exits(exit)
        /\ Tells(generic, GenericCalls, b, IF b.loop THEN RowKeys ELSE {})
  <2>1. Composed(s, b, RowKeys)
    BY <1>2 DEF ComposedOK
  <2> QED
    BY <2>1 DEF Composed
<1> HIDE DEF s
<1> DEFINE rest == exit \o generic
<1>4. IsSeq(own) /\ IsSeq(exit) /\ IsSeq(generic)
  BY <1>3 DEF Tells, Exits
<1>5. rest = exit \o generic /\ IsSeq(rest) /\ Elements(rest) = Elements(exit) \cup Elements(generic)
  BY <1>4, Joined
<1>6. s = own \o rest
  BY <1>3
<1> HIDE DEF rest
<1>7. IsSeq(s) /\ Elements(s) = Elements(own) \cup Elements(rest)
  BY <1>4, <1>5, <1>6, Joined
<1>8. General \cap GenericCalls = {} /\ "zexit" \notin General \cup GenericCalls
  BY DEF General, GenericCalls
<1>9. /\ \A r \in Elements(own) : r.call \in General /\ \E key \in AskedFor(b) : r.id = About(b, key)
      /\ \A r \in Elements(exit) : r.call = "zexit"
      /\ \A r \in Elements(generic) : /\ r.call \in GenericCalls /\ b.loop
                                      /\ \E key \in AskedFor(b) : r.id = About(b, key)
  BY <1>3 DEF Tells, Exits
<1>10. ASSUME NEW t \in Made(i)
       PROVE  Once(s, Own(s, t.val.id)) /\ (i.loop => Once(s, Generic(s, t.val.id)))
  <2>1. t.key \in RowKeys \cap AskedFor(b) /\ t.val.id = About(b, t.key)
    BY <1>1, MadeIsAsked DEF AskedFor
  <2> DEFINE id == t.val.id
  <2>2. Once(own, {r \in Elements(own) : r.id = id})
    BY <1>3, <2>1 DEF Tells
  <2>3. b.loop => Once(generic, {r \in Elements(generic) : r.id = id})
    BY <1>3, <2>1 DEF Tells
  <2> HIDE DEF id
  <2> DEFINE O == Own(s, id)
             G == Generic(s, id)
  <2>4. Elements(own) \cap {r \in Elements(own) : r.id = id} = Elements(own) \cap O
    BY <1>7, <1>9 DEF Own
  <2>5. Elements(rest) \cap O = {}
    BY <1>5, <1>8, <1>9 DEF Own
  <2>6. Elements(generic) \cap {r \in Elements(generic) : r.id = id} = Elements(generic) \cap G
    BY <1>5, <1>7, <1>8, <1>9 DEF Generic
  <2>7. Elements(own) \cap G = {} /\ Elements(exit) \cap G = {}
    BY <1>9 DEF Generic
  <2> HIDE DEF O, G
  <2>8. Once(s, O)
    BY <1>4, <1>5, <1>6, <2>2, <2>4, <2>5, OnceOf, OnceJoined
  <2>9. b.loop => Once(s, G)
    <3>1. b.loop => Once(generic, G)
      BY <2>3, <2>6, OnceOf
    <3>2. b.loop => Once(rest, G)
      BY <1>4, <1>5, <2>7, <3>1, OnceJoined
    <3> QED
      BY <1>4, <1>5, <1>6, <2>7, <3>2, OnceJoined
  <2> QED
    BY <1>2, <2>8, <2>9 DEF O, G, id
<1>11. ASSUME NEW r \in Elements(s), r.call # "zexit"
       PROVE  (r.call \in General \/ i.loop) /\ \E t \in Made(i) : t.val.id = r.id
  <2>1. /\ r.call \in General \/ b.loop
        /\ \E key \in AskedFor(b) : r.id = About(b, key)
    BY <1>5, <1>7, <1>9, <1>11
  <2> QED
    BY <1>1, <1>2, <2>1, MadeIsAsked
<1>12. ASSUME NEW j \in DOMAIN s, NEW k \in DOMAIN s, j < k, s[k].call \in General
       PROVE  s[j].call \in General
  <2>1. /\ DOMAIN s = 1 .. Len(s) /\ Len(s) = Len(own) + Len(rest) /\ Len(own) \in Nat /\ Len(rest) \in Nat
        /\ DOMAIN own = 1 .. Len(own) /\ DOMAIN rest = 1 .. Len(rest)
        /\ \A n \in 1 .. Len(s) : s[n] = IF n <= Len(own) THEN own[n] ELSE rest[n - Len(own)]
    BY <1>4, <1>5, <1>6, <1>7, Joined, SeqDomain
  <2>2. k <= Len(own)
    <3>1. SUFFICES ASSUME ~(k <= Len(own)) PROVE FALSE
      OBVIOUS
    <3>2. k \in 1 .. Len(s) /\ k - Len(own) \in 1 .. Len(rest)
      BY <2>1, <3>1
    <3>3. s[k] = rest[k - Len(own)]
      BY <2>1, <3>1, <3>2
    <3>4. s[k] \in Elements(rest)
      BY <2>1, <3>2, <3>3 DEF Elements
    <3>5. s[k].call \notin General
      BY <1>5, <1>8, <1>9, <3>4
    <3> QED
      BY <1>12, <3>5
  <2>3. j \in 1 .. Len(own) /\ j \in 1 .. Len(s) /\ j <= Len(own)
    BY <1>12, <2>1, <2>2
  <2>4. s[j] = own[j]
    BY <2>1, <2>3
  <2>5. own[j] \in Elements(own)
    BY <2>1, <2>3 DEF Elements
  <2> QED
    BY <1>9, <2>4, <2>5
<1> QED
  BY <1>10, <1>11, <1>12 DEF s

(***************************************************************************)
(* However many parts of Zbouncer visit an instruction, and in whatever    *)
(* order they insert behind it: each of its tags is reported once, before  *)
(* all generic entries and the end of the run, and once more as a generic  *)
(* entry just when it is in a loop (ReportedOnce).                         *)
(***************************************************************************)
THEOREM EachTagReportedOnce == Spec => []ReportedOnce
<1> DEFINE Inv == AnalysisInv /\ ExportOK /\ TagsOK /\ RowTags /\ ComposedOK
<1>1. Init => Inv
  <2> SUFFICES ASSUME Init PROVE Inv
    OBVIOUS
  <2>1. AnalysisInv /\ ExportOK /\ TagsOK /\ RowTags
    BY SvfInvInit, ExportInit DEF AnalysisInv, Init, SvfInit, TagsOK, RowTags
  <2>2. (\A x \in prog.values : after[x] = << >>) /\ phase = "wrap" /\ prog \in Programs
    BY DEF Init, ZbInit
  <2>3. \A b \in Base : b.id \in prog.values
    BY <2>2, BaseIds
  <2>4. ComposedOK
    BY <2>2, <2>3 DEF ComposedOK, Instrumenting
  <2> QED
    BY <2>1, <2>4
<1>2. Inv /\ [Next]_vars => Inv'
  BY AnalysisKept, ExportStep, TagsStep, RowTagsStep, ComposedStep DEF AnalysisInv
<1>3. Inv => ReportedOnce
  BY ComposedIsOnce
<1> HIDE DEF Inv
<1> QED
  BY <1>1, <1>2, <1>3, PTL DEF Spec

-----------------------------------------------------------------------------
(* What the calls of clones pass: which calls these are. *)

Bodies == Elements(prog.functions)

\* The functions that FunctionInstrumentor visits and those that it clones have a body.
FunctionsOK ==
  /\ \A f \in Elements(fnlist) : f.name \in Bodies
  /\ \A f \in instrumentedFunctions : f.name \in Bodies

LEMMA FunctionsInit ==
  ASSUME Init PROVE FunctionsOK
<1>1. /\ fnlist = [k \in DOMAIN prog.functions |-> Function(prog.functions[k])]
      /\ instrumentedFunctions = {}
  BY DEF Init, PassInit
<1>2. \A k \in DOMAIN prog.functions : Function(prog.functions[k]).name \in Bodies
  BY DEF Function, Bodies, Elements
<1> QED
  BY <1>1, <1>2 DEF FunctionsOK, Elements

LEMMA FunctionsStep ==
  ASSUME ModuleInv, FunctionsOK, [Next]_vars PROVE FunctionsOK'
<1>0. prog' = prog /\ Bodies' = Bodies
  BY DEF Next, vars, Bodies
<1>1. CASE UNCHANGED <<fnlist, instrumentedFunctions>>
  BY <1>0, <1>1 DEF FunctionsOK
<1>2. CASE instrumentFunction
  <2> DEFINE f == Head(fnlist)
             r == Tail(fnlist)
  <2>1. IsSeq(fnlist) /\ fnlist # << >> /\ fnlist \in Seq(AnyFunction)
    BY <1>2, IsSeqFacts DEF instrumentFunction, ModuleInv
  <2>2. f \in Elements(fnlist) /\ IsSeq(r) /\ Elements(r) \subseteq Elements(fnlist)
    BY <2>1, HeadTail
  <2>3. f \in AnyFunction
    BY <2>1
  <2>4. /\ fnlist' = r \/ fnlist' = Append(r, Clone(f))
        /\ instrumentedFunctions' \subseteq instrumentedFunctions \cup {f}
    BY <1>2 DEF instrumentFunction
  <2> HIDE DEF f, r
  <2>5. Clone(f).name = f.name
    BY <2>3 DEF Clone, AnyFunction
  <2>6. Elements(fnlist') \subseteq Elements(fnlist) \cup {Clone(f)}
    <3>1. CASE fnlist' = r
      BY <2>2, <3>1
    <3>2. CASE fnlist' = Append(r, Clone(f))
      <4>1. Elements(fnlist') = Elements(r) \cup {Clone(f)}
        BY <2>2, <3>2, OneMore
      <4> QED
        BY <2>2, <4>1
    <3> QED
      BY <2>4, <3>1, <3>2
  <2> QED
    BY <1>0, <2>2, <2>4, <2>5, <2>6 DEF FunctionsOK
<1>3. instrumentFunction \/ UNCHANGED <<fnlist, instrumentedFunctions>>
  <2>1. CASE PassNext
    BY <2>1 DEF PassNext, InputWrapper, instrumentCalls, removeFunction
  <2>2. CASE SvfNext \/ NextPart
    BY <2>2, SvfSteps, PartSteps DEF passVars
  <2>3. CASE ZbNext
    BY <2>3, ZbSteps DEF passVars, PassRefs
  <2>4. CASE UNCHANGED vars
    BY <2>4 DEF vars, passVars
  <2> QED
    BY <2>1, <2>2, <2>3, <2>4 DEF Next
<1> QED
  BY <1>1, <1>2, <1>3

\* The calls that pass references, and the pointers that they pass one for.
Clones == {c \in code : c.op = "call" /\ c.callee.clone}
Passes(c) == {k \in Pointers(c.callee) \cap DOMAIN c.args : c.args[k] # Null}

\* No two parameters have the same name.
Distinct(f) == \A j, k \in DOMAIN Params(f) : Params(f)[j].name = Params(f)[k].name => j = k

Placing == {"wrap", "clone", "erase", "undefined"}

LEMMA BodyParams ==
  ASSUME prog \in Programs, NEW f, f.name \in Bodies
  PROVE  Distinct(f) /\ Params(f) \in Seq(Parameter)
<1>1. PICK n \in DOMAIN prog.functions : f.name = prog.functions[n]
  BY DEF Bodies, Elements
<1>2. /\ f.name \in DOMAIN prog.params
      /\ \A j, k \in DOMAIN prog.params[f.name] :
           prog.params[f.name][j].name = prog.params[f.name][k].name => j = k
  BY <1>1, ModuleAssumption
<1>3. prog.params[f.name] \in Seq(Parameter)
  BY <1>2, ModuleAssumption
<1> QED
  BY <1>2, <1>3 DEF Distinct, Params

LEMMA CloneCalls ==
  ASSUME ModuleInv, FunctionsOK, phase \notin Placing
  PROVE  /\ \A c, d \in Clones : c.id = d.id => c = d
         /\ \A c \in Clones : /\ Distinct(c.callee) /\ Params(c.callee) \in Seq(Parameter)
                              /\ c.fn.clone => Distinct(c.fn) /\ Params(c.fn) \in Seq(Parameter)
<1>1. Settled(code) /\ prog \in Programs
  BY FinalSettled DEF ModuleInv, Placing
<1>2. ASSUME NEW f, NEW g, IsOriginal(f), g = f \/ (f \in instrumentedFunctions /\ g = Clone(f)), g.clone
      PROVE  g.name \in Bodies
  <2>1. ~f.clone /\ Clone(f).name = f.name
    BY <1>2, CloneFields
  <2>2. f \in instrumentedFunctions /\ g = Clone(f)
    BY <1>2, <2>1
  <2> QED
    BY <2>1, <2>2 DEF FunctionsOK
<1>3. ASSUME NEW c \in Clones
      PROVE  /\ c.callee.name \in Bodies
             /\ c.fn.clone => c.fn.name \in Bodies
  <2>1. PICK b \in Base : Stands(c, b)
    BY <1>1 DEF Settled, Clones
  <2>2. Untouched(b)
    BY <1>1, BaseFacts
  <2>3. IsOriginal(b.fn) /\ IsOriginal(b.callee) /\ c.fn = Home(b) /\ c.callee = Target(b)
    BY <2>1, <2>2 DEF Untouched, Stands
  <2>4. c.callee.clone
    BY DEF Clones
  <2>5. c.callee.name \in Bodies
    <3>1. c.callee = b.callee \/ (b.callee \in instrumentedFunctions /\ c.callee = Clone(b.callee))
      BY <2>3 DEF Target
    <3> QED
      BY <1>2, <2>3, <2>4, <3>1
  <2>6. c.fn.clone => c.fn.name \in Bodies
    <3>1. c.fn = b.fn \/ (b.fn \in instrumentedFunctions /\ c.fn = Clone(b.fn))
      BY <2>3 DEF Home
    <3> QED
      BY <1>2, <2>3, <3>1
  <2> QED
    BY <2>5, <2>6
<1>4. ASSUME NEW c \in Clones
      PROVE  /\ Distinct(c.callee) /\ Params(c.callee) \in Seq(Parameter)
             /\ c.fn.clone => Distinct(c.fn) /\ Params(c.fn) \in Seq(Parameter)
  BY <1>1, <1>3, BodyParams
<1>5. \A c, d \in Clones : c.id = d.id => c = d
  BY <1>1 DEF Settled, Clones
<1> QED
  BY <1>4, <1>5

\* Its references are 0 until Zbouncer replaces the call.
LEMMA CloneRefs ==
  ASSUME ModuleInv, phase \notin Placing \cup {"done"}, NEW c \in Clones
  PROVE  c.refs = [k \in Pointers(c.callee) |-> NoRef] /\ IsInstruction(c)
<1>1. PICK b \in Base : c = Final(b)
  BY DEF ModuleInv, Clones, Placing
<1>2. Untouched(b) /\ \A f \in instrumentedFunctions : IsOriginal(f)
  BY BaseFacts DEF ModuleInv
<1> DEFINE i == Placed(b)
           f == Clone(i.callee)
           r == [k \in Pointers(i.callee) |-> [id |-> 0, param |-> ""]]
<1>3. IsInstruction(i) /\ i.op = b.op /\ i.callee = b.callee
  BY <1>2, PlacedFields DEF Untouched
<1>4. c.op = "call" /\ c.callee.clone /\ Stands(c, b)
  BY <1>1, <1>2, FinalFields DEF Clones
<1>5. b.op = "call" /\ b.callee \in instrumentedFunctions
  <2>1. c.callee = Target(b) /\ ~b.callee.clone /\ b.op = "call"
    BY <1>2, <1>4, CloneFields DEF Stands, Untouched
  <2> QED
    BY <1>4, <2>1 DEF Target
<1>6. c = Redirected(i)
  <2>1. Final(b) = Called(i)
    BY DEF Final
  <2> HIDE DEF i
  <2> QED
    BY <1>1, <1>3, <1>5, <2>1 DEF Called
<1> HIDE DEF i
<1>7. c = [i EXCEPT !.callee = f, !.refs = r]
  BY <1>6 DEF Redirected
<1> HIDE DEF f, r
<1>8. c = [id |-> i.id, fn |-> i.fn, op |-> i.op, callee |-> f, args |-> i.args,
           refs |-> r, loop |-> i.loop]
  BY <1>3, <1>7 DEF IsInstruction
<1>9. c.refs = r /\ c.callee = f
  BY <1>8
<1>10. f.name = i.callee.name
  BY <1>2, <1>3, CloneFields DEF Untouched, f
<1>11. Pointers(f) = Pointers(i.callee)
  BY <1>10 DEF Pointers, Params
<1> QED
  BY Zenon, <1>4, <1>9, <1>11 DEF r, NoRef, Stands

-----------------------------------------------------------------------------
(* What the calls of clones pass: while and only while svf-ex works it     *)
(* out, turns about it wait.                                               *)

RefKinds == {"ref", "refid"}
OtherKinds == {"in", "store", "target", "path", "iuse", "row"}

\* A list of turns of the kinds D.
Only(w, D) == IsSeq(w) /\ \A t \in Elements(w) : t.do \in D

KindsOK ==
  /\ phase = "refs" => Only(work, RefKinds \cup {"path"})
  /\ phase \notin {"refs", "undefined"} => Only(work, OtherKinds)

LEMMA OnlyNone ==
  ASSUME NEW w, w = << >>, NEW D PROVE Only(w, D)
  BY EmptyList DEF Only

LEMMA OnlyLoop ==
  ASSUME NEW S, NEW s \in Seq(S), NEW w, DOMAIN w = DOMAIN s, w = [k \in DOMAIN s |-> w[k]],
         NEW D, \A k \in DOMAIN s : w[k].do \in D
  PROVE  Only(w, D)
<1>1. IsSeq(w) /\ Elements(w) = {w[k] : k \in DOMAIN s}
  BY IsSeqFacts, LoopList
<1> QED
  BY <1>1 DEF Only

LEMMA OnlyTail ==
  ASSUME NEW w, w # << >>, NEW D, Only(w, D)
  PROVE  Head(w).do \in D /\ Only(Tail(w), D)
  BY HeadTail DEF Only

LEMMA OnlyJoined ==
  ASSUME NEW z, NEW D, Only(z, D), NEW w, Only(w, D), NEW y, y = z \o w
  PROVE  Only(y, D)
<1>1. IsSeq(y) /\ Elements(y) = Elements(z) \cup Elements(w)
  BY Joined DEF Only
<1> QED
  BY <1>1 DEF Only

LEMMA OnlyOne ==
  ASSUME NEW t, NEW D, t.do \in D, NEW w, w = <<t>>
  PROVE  Only(w, D)
  BY Single DEF Only

\* One turn for every path to a field.
LEMMA PathsOf ==
  ASSUME prog \in Programs, NEW v \in prog.values, v \in svf.struct, NEW u, NEW to,
         NEW w, w = analyzeGep(u, v, to)
  PROVE  IsSeq(w) /\ \A p \in Elements(w) : p.do = "path" /\ p.val = v
<1> DEFINE s == Answers(svf.geps, <<v, to>>)
<1>1. w = [k \in DOMAIN s |-> PathTurn(u, v, s[k])]
  BY DEF Loop, analyzeGep
<1> HIDE DEF s
<1>2. \A k \in DOMAIN w : w[k].do = "path" /\ w[k].val = v
  BY <1>1 DEF PathTurn
<1>3. IsSeq(w)
  <2>1. Turns(ents, analyzeGep(-1, v, to))
    BY PathTurns
  <2>2. IsSeq(analyzeGep(-1, v, to)) /\ DOMAIN analyzeGep(-1, v, to) = DOMAIN w
    BY <1>1, <2>1 DEF Turns, Loop, analyzeGep, s
  <2>3. Len(analyzeGep(-1, v, to)) \in Nat /\ DOMAIN w = 1 .. Len(analyzeGep(-1, v, to))
    BY <2>2, SeqDomain
  <2>4. w \in [1 .. Len(analyzeGep(-1, v, to)) -> Elements(w)]
    BY <1>1, <2>3 DEF Elements
  <2> QED
    BY <2>3, <2>4, ListOf
<1> QED
  BY <1>2, <1>3 DEF Elements

LEMMA OnlyPaths ==
  ASSUME prog \in Programs, NEW v \in prog.values, v \in svf.struct, NEW u, NEW to, NEW D, "path" \in D,
         NEW w, w = analyzeGep(u, v, to)
  PROVE  Only(w, D)
  BY PathsOf DEF Only

LEMMA KindsOther ==
  ASSUME AnalysisInv, KindsOK, phase \notin {"refs", "undefined"}, SvfNext, phase' # "undefined"
  PROVE  Only(work', OtherKinds)
<1> DEFINE D == OtherKinds
           t == Head(work)
<1>0. SvfInv /\ prog \in Programs
  BY DEF AnalysisInv, ModuleInv
<1>1. /\ Only(work, D)
      /\ work # << >> => t.do \in D /\ Only(Tail(work), D) /\ TurnOK(ents, t)
  BY <1>0, SvfFacts, OnlyTail DEF KindsOK
<1>d. {"in", "store", "target", "path", "iuse", "row"} \subseteq D /\ "ref" \notin D /\ "refid" \notin D
  BY DEF OtherKinds
<1> SUFFICES Only(work', D)
  OBVIOUS
<1> HIDE DEF D
<1>2. CASE InputSite
  <2>1. PICK c \in left :
          /\ ParamFound(c)
          /\ work' = Loop(Answers(svf.defs, inputParam(c)), LAMBDA v : InTurn(nextId, v))
    BY <1>2 DEF InputSite, Undefined
  <2> DEFINE s == DefsOf(inputParam(c))
             n == nextId
  <2>2. c.op = "call" /\ CallOK(c)
    BY <1>0, <1>2, <2>1 DEF InputSite, SvfInv, LeftOK
  <2>3. s \in Seq(prog.values)
    BY <2>1, <2>2 DEF CallOK, inputParam, ParamFound
  <2>4. work' = [k \in DOMAIN s |-> InTurn(n, s[k])]
    BY <2>1 DEF Loop, DefsOf
  <2> HIDE DEF s, n
  <2>5. \A k \in DOMAIN s : work'[k].do \in D
    BY <1>d, <2>4 DEF InTurn
  <2> QED
    BY <2>3, <2>4, <2>5, OnlyLoop
<1>3. CASE LibSite
  <2>1. PICK c \in left :
          /\ c.callee.name \in libFunctions
          /\ work' = Loop(Answers(svf.defs, libParam(c)), LAMBDA v : TargetTurn(nextId + 1, v, c.id))
    BY <1>3 DEF LibSite
  <2> DEFINE s == DefsOf(libParam(c))
             n == nextId + 1
  <2>2. c.op = "call" /\ CallOK(c)
    BY <1>0, <1>3, <2>1 DEF LibSite, SvfInv, LeftOK
  <2>3. s \in Seq(prog.values)
    BY <2>1, <2>2, LibTargets
  <2>4. work' = [k \in DOMAIN s |-> TargetTurn(n, s[k], c.id)]
    BY <2>1 DEF Loop, DefsOf
  <2> HIDE DEF s, n
  <2>5. \A k \in DOMAIN s : work'[k].do \in D
    BY <1>d, <2>4 DEF TargetTurn
  <2> QED
    BY <2>3, <2>4, <2>5, OnlyLoop
<1>4. CASE InputDef
  <2> DEFINE from == IF svf.kind[t.val] = "dyn" THEN Chain(t.val)[2] ELSE t.val
             s == Answers(svf.stores, from)
             z == [k \in DOMAIN s |-> StoreTurn(t.in, s[k], s[k])]
  <2>1. work # << >> /\ t.do = "in" /\ Known(t.val) /\ work' = z \o Tail(work)
    BY Zenon, <1>4 DEF InputDef, Undefined, Loop
  <2>2. s \in Seq(StoreIds)
    <3> HIDE DEF from
    <3> QED
      BY Zenon, <1>0, <2>1, InputStores DEF from
  <2>3. DOMAIN z = DOMAIN s /\ z = [k \in DOMAIN s |-> z[k]] /\ \A k \in DOMAIN s : z[k].do \in D
    BY <1>d DEF StoreTurn
  <2> HIDE DEF s, z
  <2>4. Only(z, D)
    BY <2>2, <2>3, OnlyLoop
  <2> QED
    BY Zenon, <1>1, <2>1, <2>4, OnlyJoined
<1>5. CASE StoreUse
  <2> DEFINE s == Answers(svf.storeDefs, t.val)
             n == nextId
             z == [k \in DOMAIN s |-> TargetTurn(n, s[k], t.path)]
  <2>1. work # << >> /\ t.do = "store" /\ work' = z \o Tail(work)
    BY <1>5 DEF StoreUse, Loop
  <2>2. s \in Seq(prog.values)
    <3>1. t.val \in prog.values
      BY <1>1, <2>1 DEF TurnOK
    <3> QED
      BY <1>0, <3>1, Given, AnswersIn
  <2> HIDE DEF n
  <2>3. DOMAIN z = DOMAIN s /\ z = [k \in DOMAIN s |-> z[k]] /\ \A k \in DOMAIN s : z[k].do \in D
    BY <1>d DEF TargetTurn
  <2> HIDE DEF s, z
  <2>4. Only(z, D)
    BY <2>2, <2>3, OnlyLoop
  <2> QED
    BY <1>1, <2>1, <2>4, OnlyJoined
<1>6. CASE UseTarget
  <2> DEFINE z == analyzeGep(t.use, t.val, t.path)
  <2>1. /\ work # << >> /\ t.do = "target"
        /\ work' = Tail(work) \/ (t.val \in svf.struct /\ work' = z \o Tail(work))
    BY <1>6 DEF UseTarget, Undefined
  <2>2. t.val \in prog.values
    BY <1>1, <2>1 DEF TurnOK
  <2>3. t.val \in svf.struct => Only(z, D)
    <3> HIDE DEF t
    <3> QED
      BY <1>0, <1>d, <2>2, OnlyPaths
  <2> HIDE DEF z
  <2> QED
    BY <1>1, <2>1, <2>3, OnlyJoined
<1>7. CASE IntToPtr
  <2>1. PICK pair \in left :
          work' = IF Matches(pair)
                    THEN Loop(Answers(svf.stores, pair[1]), LAMBDA s : StoreTurn(pair[2], s, pair[1]))
                    ELSE << >>
    BY <1>7 DEF IntToPtr
  <2> DEFINE s == Answers(svf.stores, pair[1])
  <2>2. s \in Seq(StoreIds)
    <3>1. pair[1] \in prog.values
      BY <1>0, <1>7 DEF IntToPtr, SvfInv, LeftOK
    <3> QED
      BY <1>0, <3>1, Given, AnswersIn
  <2>3. CASE Matches(pair)
    <3>1. work' = [k \in DOMAIN s |-> StoreTurn(pair[2], s[k], pair[1])]
      BY <2>1, <2>3 DEF Loop
    <3> HIDE DEF s
    <3>2. \A k \in DOMAIN s : work'[k].do \in D
      BY <1>d, <3>1 DEF StoreTurn
    <3> QED
      BY <2>2, <3>1, <3>2, OnlyLoop
  <2>4. CASE ~Matches(pair)
    BY <2>1, <2>4, OnlyNone
  <2> QED
    BY <2>3, <2>4
<1>8. CASE IndirectUse
  <2>1. PICK u \in left :
          \/ UNCHANGED work
          \/ /\ findFirstDominator(Ent(u).val) # Null /\ findFirstDominator(Ent(u).val) \in svf.struct
             /\ work' = analyzeGep(-1, findFirstDominator(Ent(u).val), Ent(u).val)
                        \o <<IuseTurn(u, findFirstDominator(Ent(u).val))>>
          \/ work' = <<IuseTurn(u, findFirstDominator(Ent(u).val))>>
    BY <1>8 DEF IndirectUse, Undefined, svfVars
  <2> DEFINE dom == findFirstDominator(Ent(u).val)
             z == analyzeGep(-1, dom, Ent(u).val)
             i == <<IuseTurn(u, dom)>>
  <2>2. dom \in prog.values \cup {Null}
    <3>1. u + 1 \in 1 .. Len(ents)
      BY <1>0, <1>8, SvfFacts, InIds DEF IndirectUse, SvfInv, LeftOK
    <3>2. Ent(u).val \in prog.values
      BY <1>0, <3>1, SvfFacts DEF EntsOK, EntityOK, Ent
    <3> QED
      BY <1>0, <3>2, Given
  <2>3. Only(i, D)
    <3>1. IuseTurn(u, dom).do \in D
      BY <1>d DEF IuseTurn
    <3> HIDE DEF dom
    <3> QED
      BY <3>1, OnlyOne
  <2>4. dom # Null /\ dom \in svf.struct => Only(z, D)
    <3> HIDE DEF dom
    <3> QED
      BY <1>0, <1>d, <2>2, OnlyPaths
  <2>5. \/ UNCHANGED work
        \/ dom # Null /\ dom \in svf.struct /\ work' = z \o i
        \/ work' = i
    BY <2>1
  <2> HIDE DEF z, i, dom
  <2> QED
    BY <1>1, <2>3, <2>4, <2>5, OnlyJoined
<1>9. CASE GepPath \/ IndirectParam
  <2>1. work # << >> /\ work' = Tail(work)
    BY Zenon, <1>9 DEF GepPath, IndirectParam
  <2> QED
    BY <1>1, <2>1
<1>10. CASE StartExport
  <2>1. work' = [k \in DOMAIN trace |-> RowTurn(trace[k], -1, TRUE)]
    BY <1>10 DEF StartExport, Loop
  <2>2. \A k \in DOMAIN trace : work'[k].do \in D
    BY <1>d, <2>1 DEF RowTurn
  <2>3. trace \in Seq(Elements(trace))
    BY <1>0, SvfFacts DEF IsSeq
  <2> QED
    BY <2>1, <2>2, <2>3, OnlyLoop
<1>11. CASE ExportRow \/ TagValues
  <2>1. phase = "export" /\ phase' \in {"export", "z_loops"} /\ (TagValues => work' = work)
    BY <1>11 DEF ExportRow, TagValues
  <2>2. CASE TagValues
    BY <1>1, <2>1, <2>2
  <2>3. CASE ExportRow
    <3> DEFINE s == Ent(t.id).kids
               z == [k \in DOMAIN s |-> RowTurn(s[k], t.id, Ent(t.id).kind # "DDEF")]
    <3>1. work # << >> /\ work' = z \o Tail(work)
      BY <2>3 DEF ExportRow, Loop
    <3>2. s \in Seq(Elements(s))
      <4>1. t.id \in Ids(ents)
        BY <1>0, <1>1, <2>1, <3>1, ExportOnly DEF AnalysisInv, TurnOK, SvfNext
      <4>2. t.id + 1 \in 1 .. Len(ents)
        BY <1>0, <4>1, SvfFacts, InIds
      <4> QED
        BY <1>0, <4>2, SvfFacts DEF EntsOK, EntityOK, Ent, IsSeq
    <3>3. DOMAIN z = DOMAIN s /\ z = [k \in DOMAIN s |-> z[k]] /\ \A k \in DOMAIN s : z[k].do \in D
      BY <1>d DEF RowTurn
    <3> HIDE DEF s, z
    <3>4. Only(z, D)
      BY <3>2, <3>3, OnlyLoop
    <3> QED
      BY <1>1, <3>1, <3>4, OnlyJoined
  <2> QED
    BY <1>11, <2>2, <2>3
<1>12. ~RefSite /\ ~RefParam /\ ~RefField
  BY Zenon, <1>1, <1>d DEF RefSite, RefParam, RefField
<1> QED
  BY <1>2, <1>3, <1>4, <1>5, <1>6, <1>7, <1>8, <1>9, <1>10, <1>11, <1>12 DEF SvfNext

-----------------------------------------------------------------------------
(* What the calls of clones pass: the definition or the name in a tag. *)

Alias(c, k) == check_parameter_aliasing(c.args[k], c.fn)
Passable(c, k) == Elements(DefsOf(c.args[k])) \ svf.dominators

\* d stands for one of the values V.
Means(es, d, V) ==
  d \in Ids(es) /\ \E v \in V : v \in es[d + 1].nodes \/ (es[d + 1].kind = "SDEF" /\ es[d + 1].val = v)

Handed(es, c, k, val) ==
  IF Alias(c, k) # 0 THEN val = Named(Params(c.fn)[Alias(c, k)].name)
  ELSE val.param = "" /\ Means(es, val.id, Passable(c, k))

\* The tags T for references are about arguments that call c passes, and right.
TagsRight(es, T) ==
  \A c \in Clones : \A k \in Pointers(c.callee) : \A t \in T :
    t.on = c.id /\ t.key = zref(c, k) => k \in Passes(c) /\ Handed(es, c, k, t.val)

\* Nothing can be passed for k, in no state.
Nowhere(c, k) ==
  Alias(c, k) = 0 /\ \A v \in Passable(c, k) : svf.kind[v] # "dyn" /\ ~Buildable(v)

LEMMA MeansKept ==
  ASSUME NEW es, NEW fs, Len(es) \in Nat, Len(fs) \in Nat, Extends(es, fs), NEW d, NEW V, Means(es, d, V)
  PROVE  Means(fs, d, V)
<1>1. d \in Ids(fs) /\ d + 1 \in 1 .. Len(es)
  BY DEF Means, Ids, Extends
<1>2. SameEntity(es[d + 1], fs[d + 1])
  BY <1>1 DEF Extends
<1> QED
  BY <1>1, <1>2 DEF Means, SameEntity

\* The module stays the same.
LEMMA CallsKept ==
  ASSUME UNCHANGED <<prog, code>>
  PROVE  /\ Clones' = Clones
         /\ \A c, k : /\ Passes(c)' = Passes(c) /\ Alias(c, k)' = Alias(c, k)
                      /\ zref(c, k)' = zref(c, k) /\ Passable(c, k)' = Passable(c, k)
                      /\ Nowhere(c, k)' <=> Nowhere(c, k)
         /\ \A es, T : TagsRight(es, T)' <=> TagsRight(es, T)
<1>1. Clones' = Clones
  BY DEF Clones
<1>2. \A f : Params(f)' = Params(f) /\ Pointers(f)' = Pointers(f)
  BY DEF Params, Pointers
<1>3. ASSUME NEW c, NEW k
      PROVE  /\ Passes(c)' = Passes(c) /\ Alias(c, k)' = Alias(c, k)
             /\ zref(c, k)' = zref(c, k) /\ Passable(c, k)' = Passable(c, k)
             /\ Nowhere(c, k)' <=> Nowhere(c, k)
             /\ \A es, val : Handed(es, c, k, val)' <=> Handed(es, c, k, val)
  <2>1. Alias(c, k)' = Alias(c, k)
    BY <1>2 DEF Alias, check_parameter_aliasing
  <2>2. Passable(c, k)' = Passable(c, k)
    BY DEF Passable
  <2>3. Nowhere(c, k)' <=> Nowhere(c, k)
    BY <2>1, <2>2 DEF Nowhere
  <2>4. Passes(c)' = Passes(c) /\ zref(c, k)' = zref(c, k)
    BY <1>2 DEF Passes, zref
  <2>5. \A es, val : Handed(es, c, k, val)' <=> Handed(es, c, k, val)
    BY <1>2, <2>1, <2>2 DEF Handed, Means
  <2> QED
    BY <2>1, <2>2, <2>3, <2>4, <2>5
<1>4. ASSUME NEW es, NEW T PROVE TagsRight(es, T)' <=> TagsRight(es, T)
  BY <1>1, <1>2, <1>3 DEF TagsRight
<1> QED
  BY <1>1, <1>3, <1>4

\* Tags that are about something else are added.
LEMMA TagsOther ==
  ASSUME NEW es, NEW fs, Len(es) \in Nat, Len(fs) \in Nat, Extends(es, fs), NEW T, TagsRight(es, T),
         NEW U, \A t \in U : t \in T \/ \A c, k : t.key # zref(c, k)
  PROVE  TagsRight(fs, U)
<1>1. ASSUME NEW c \in Clones, NEW k \in Pointers(c.callee), NEW t \in U, t.on = c.id, t.key = zref(c, k)
      PROVE  k \in Passes(c) /\ Handed(fs, c, k, t.val)
  <2>1. t \in T
    BY <1>1
  <2>2. k \in Passes(c) /\ Handed(es, c, k, t.val)
    BY <1>1, <2>1 DEF TagsRight
  <2>3. Handed(fs, c, k, t.val)
    BY Zenon, <2>2, MeansKept DEF Handed
  <2> QED
    BY <2>2, <2>3
<1> QED
  BY <1>1 DEF TagsRight

\* The tag for an argument is set.
LEMMA TagsHanded ==
  ASSUME ModuleInv, FunctionsOK, phase \notin Placing,
         NEW es, NEW fs, Len(es) \in Nat, Len(fs) \in Nat, Extends(es, fs), NEW T, TagsRight(es, T),
         NEW c \in Clones, NEW k \in Passes(c), NEW val, Handed(fs, c, k, val),
         NEW U, U = setMetadata(T, c.id, zref(c, k), val)
  PROVE  TagsRight(fs, U)
<1>1. ASSUME NEW d \in Clones, NEW j \in Pointers(d.callee), NEW t \in U, t.on = d.id, t.key = zref(d, j)
      PROVE  j \in Passes(d) /\ Handed(fs, d, j, t.val)
  <2>1. CASE t \in T
    <3>1. j \in Passes(d) /\ Handed(es, d, j, t.val)
      BY <1>1, <2>1 DEF TagsRight
    <3> QED
      BY Zenon, <3>1, MeansKept DEF Handed
  <2>2. CASE t \notin T
    <3>1. t.on = c.id /\ t.key = zref(c, k) /\ t.val = val
      BY <2>2, NewMetadata
    <3>2. c = d
      BY <1>1, <3>1, CloneCalls
    <3>3. Params(c.callee)[k].name = Params(c.callee)[j].name
      BY <1>1, <3>1, <3>2 DEF zref
    <3>4. j = k
      <4>1. j \in DOMAIN Params(c.callee) /\ k \in DOMAIN Params(c.callee)
        BY <1>1, <3>2 DEF Pointers, Passes
      <4> QED
        BY <3>3, <4>1, CloneCalls DEF Distinct
    <3> QED
      BY <3>1, <3>2, <3>4
  <2> QED
    BY <2>1, <2>2
<1> QED
  BY <1>1 DEF TagsRight

\* What has a tag keeps one.
LEMMA TaggedStays ==
  ASSUME SvfNext
  PROVE  \A x, key : Tagged(x, key) => Tagged(x, key)'
<1>1. ASSUME NEW on, NEW k, NEW val, tags' = setMetadata(tags, on, k, val)
      PROVE  \A x, key : Tagged(x, key) => Tagged(x, key)'
  <2>1. SUFFICES ASSUME NEW x, NEW key, Tagged(x, key) PROVE \E t \in tags' : t.on = x /\ t.key = key
    BY DEF Tagged
  <2>2. PICK t \in tags : t.on = x /\ t.key = key
    BY <2>1 DEF Tagged
  <2>a. \A s : s \in tags' <=> (s \in tags /\ ~(s.on = on /\ s.key = k)) \/ s = [on |-> on, key |-> k, val |-> val]
    BY <1>1 DEF setMetadata
  <2>3. CASE x = on /\ key = k
    <3>1. [on |-> on, key |-> k, val |-> val] \in tags'
      BY <2>a
    <3> QED
      BY <2>3, <3>1
  <2>4. CASE ~(x = on /\ key = k)
    BY <2>2, <2>4, <2>a
  <2> QED
    BY <2>3, <2>4
<1>2. CASE RefParam \/ RefField
  <2>1. UNCHANGED tags \/ \E on, val, c, k : tags' = setMetadata(tags, on, zref(c, k), val)
    BY Zenon, <1>2 DEF RefParam, RefField, Undefined, svfVars
  <2> QED
    BY <1>1, <2>1 DEF Tagged
<1>3. CASE IndirectParam
  <2>1. UNCHANGED tags \/ \E on, val : tags' = setMetadata(tags, on, <<"ziuse">>, val)
    BY Zenon, <1>3 DEF IndirectParam
  <2> QED
    BY <1>1, <2>1 DEF Tagged
<1>4. CASE TagValues
  <2>1. tags \subseteq tags'
    BY <1>4 DEF TagValues
  <2> QED
    BY <2>1 DEF Tagged
<1>5. CASE UNCHANGED tags
  BY <1>5 DEF Tagged
<1> QED
  BY <1>2, <1>3, <1>4, <1>5, MapGrows

\* A value that has no definition of its own has none in the list.
LEMMA NeverKnown ==
  ASSUME SvfInv, NEW v, svf.kind[v] # "dyn", ~Buildable(v) PROVE ~Known(v)
<1>1. EntsOK(ents) /\ DefsOK(ents, deflist) /\ Len(ents) \in Nat
  BY SvfFacts
<1>2. ASSUME get_def_id(v) # -1 PROVE FALSE
  <2>1. get_def_id(v) \in Elements(deflist) /\ v \in ents[get_def_id(v) + 1].nodes
    BY <1>1, <1>2, FoundFacts
  <2>2. get_def_id(v) + 1 \in 1 .. Len(ents)
    BY <1>1, <2>1, InIds DEF DefsOK
  <2> QED
    BY <1>1, <2>1, <2>2 DEF EntsOK, EntityOK
<1> QED
  BY <1>2 DEF Known

\* The fields that a turn finds or makes are fields of its value.
LEMMA FieldValues ==
  ASSUME SvfInv, NEW v, NEW path, FieldOK(v, path), NEW V, v \in V,
         NEW es, es = PathEnts(v, path), NEW d \in Elements(PathFields(v, path))
  PROVE  Means(es, d, V)
<1> DEFINE found == FieldsOf(v, Selected(v, path))
           fields == PathFields(v, path)
<1>1. EntsOK(es) /\ Extends(ents, es) /\ Len(es) \in Nat /\ d \in Ids(es)
  BY FieldFacts
<1>2. IsSeq(ents) /\ Len(ents) \in Nat /\ IsSeq(deflist)
  BY SvfFacts DEF EntsOK
<1>f. /\ found # << >> => fields = found /\ es = ents
      /\ found = << >> => fields = <<Len(ents)>> /\ es = Append(ents, NewField(v, Selected(v, path)))
  BY DEF PathFields, PathEnts, Missing
<1>d. found = FieldsOf(v, Selected(v, path)) /\ d \in Elements(fields)
  OBVIOUS
<1> HIDE DEF found, fields
<1>3. CASE found # << >>
  <2> DEFINE f == Selected(v, path)
             K == {k \in DOMAIN deflist :
                     LET e == Ent(deflist[k]) IN
                       e.kind = "SDEF" /\ e.val = v /\ e.type = f.type /\ e.offset = f.offset}
  <2>1. found = Kept(deflist, K)
    BY <1>d DEF FieldsOf
  <2>2. \A k \in K : Ent(deflist[k]).kind = "SDEF" /\ Ent(deflist[k]).val = v
    OBVIOUS
  <2> HIDE DEF K
  <2>3. Elements(found) = {deflist[k] : k \in K \cap DOMAIN deflist}
    BY <1>2, <2>1, KeptFacts
  <2>4. ents[d + 1].kind = "SDEF" /\ ents[d + 1].val = v
    BY <1>3, <1>f, <1>d, <2>2, <2>3 DEF Ent
  <2> QED
    BY <1>1, <1>3, <1>f, <2>4 DEF Means
<1>4. CASE found = << >>
  <2> DEFINE n == Len(ents)
             e == NewField(v, Selected(v, path))
  <2>1. fields = <<n>> /\ es = Append(ents, e)
    BY <1>4, <1>f
  <2>2. e.kind = "SDEF" /\ e.val = v
    BY DEF NewField, SDef, Entity
  <2> HIDE DEF e
  <2>3. Len(es) = n + 1 /\ es[n + 1] = e
    <3>1. /\ Len(es) = n + 1 /\ \A k \in 1 .. Len(es) : es[k] = IF k <= n THEN ents[k] ELSE e
      BY <1>2, <2>1, OneMore
    <3> QED
      BY <1>2, <3>1
  <2> HIDE DEF n
  <2>4. d = n
    BY <1>d, <2>1, Single
  <2> QED
    BY <1>1, <2>2, <2>3, <2>4 DEF Means
<1> QED
  BY <1>3, <1>4

-----------------------------------------------------------------------------
(* What the calls of clones pass: the turns about it that wait. *)

\* Only turns about other arguments wait behind one about an argument.
RefsLast(w) == \A j, k \in DOMAIN w : j < k /\ w[j].do = "ref" => w[k].do = "ref"

\* The paths and the fields before a turn that takes a field are those of its argument.
FieldsFor(es, is, w) ==
  \A r \in Elements(w) : r.do = "refid" =>
    /\ Alias(r.call, r.param) = 0
    /\ \A p \in Elements(w) : p.do = "path" => p.val \in Passable(r.call, r.param)
    /\ \A d \in Elements(is) : Means(es, d, Passable(r.call, r.param))

\* Every turn about an argument is about one that is passed.
TurnsPass(w) == \A t \in Elements(w) : t.do \in RefKinds => t.call \in Clones /\ t.param \in Passes(t.call)

RefWork == phase = "refs" => /\ left \subseteq Clones
                             /\ TurnsPass(work) /\ RefsLast(work) /\ FieldsFor(ents, ids, work)

Waits(w, c, k) == \E t \in Elements(w) : t.do \in RefKinds /\ t.call = c /\ t.param = k
Decided(T, c, k) == (\E t \in T : t.on = c.id /\ t.key = zref(c, k)) \/ Nowhere(c, k)

\* What a call passes is decided by the tags T, or a turn waits to do so.
Covers(rest, w, T) ==
  \A c \in Clones : \A k \in Passes(c) : c \in rest \/ Waits(w, c, k) \/ Decided(T, c, k)

RefsCovered ==
  /\ phase = "refs" => Covers(left, work, tags)
  /\ phase \notin Placing \cup {"sites", "refs", "done"} =>
       \A c \in Clones : \A k \in Passes(c) : Decided(tags, c, k)

RefTagsOK ==
  /\ phase \in {"wrap", "clone", "erase"} => tags = {}
  /\ phase \notin Placing \cup {"done"} => TagsRight(ents, tags)

LEMMA WorkKept ==
  ASSUME UNCHANGED <<prog, code>>
  PROVE  /\ \A w : TurnsPass(w)' <=> TurnsPass(w)
         /\ \A es, is, w : FieldsFor(es, is, w)' <=> FieldsFor(es, is, w)
         /\ \A rest, w, T : Covers(rest, w, T)' <=> Covers(rest, w, T)
         /\ \A T, c, k : Decided(T, c, k)' <=> Decided(T, c, k)
<1>1. ASSUME NEW w PROVE TurnsPass(w)' <=> TurnsPass(w)
  BY CallsKept DEF TurnsPass
<1>2. ASSUME NEW es, NEW is, NEW w PROVE FieldsFor(es, is, w)' <=> FieldsFor(es, is, w)
  BY CallsKept DEF FieldsFor, Means
<1>3. ASSUME NEW T, NEW c, NEW k PROVE Decided(T, c, k)' <=> Decided(T, c, k)
  BY CallsKept DEF Decided
<1>4. ASSUME NEW rest, NEW w, NEW T PROVE Covers(rest, w, T)' <=> Covers(rest, w, T)
  BY <1>3, CallsKept DEF Covers, Waits
<1> QED
  BY <1>1, <1>2, <1>3, <1>4

LEMMA TailElements ==
  ASSUME NEW w, IsSeq(w), w # << >>, NEW r, r = Tail(w)
  PROVE  /\ IsSeq(r) /\ Elements(r) \subseteq Elements(w) /\ Head(w) = w[1] /\ 1 \in DOMAIN w
         /\ \A k \in DOMAIN r : k + 1 \in DOMAIN w /\ r[k] = w[k + 1] /\ k \in Nat /\ k >= 1
<1> DEFINE S == Elements(w)
<1>1. w \in Seq(S)
  BY DEF IsSeq
<1>2. IsSeq(r) /\ Elements(r) \subseteq Elements(w)
  BY HeadTail
<1> HIDE DEF S
<1>3. /\ Head(w) = w[1] /\ 1 \in DOMAIN w
      /\ \A k \in DOMAIN r : k + 1 \in DOMAIN w /\ r[k] = w[k + 1] /\ k \in Nat /\ k >= 1
  BY <1>1
<1> QED
  BY <1>2, <1>3

\* The first turn is handled; what it adds to the fields is right for all turns that take one.
LEMMA WorkTail ==
  ASSUME NEW w, IsSeq(w), w # << >>, TurnsPass(w), RefsLast(w),
         NEW es, NEW fs, Len(es) \in Nat, Len(fs) \in Nat, Extends(es, fs),
         NEW is, NEW js, FieldsFor(es, is, w),
         \A d \in Elements(js) : \/ d \in Elements(is)
                                 \/ \A r \in Elements(Tail(w)) : r.do = "refid" =>
                                      Means(fs, d, Passable(r.call, r.param))
  PROVE  TurnsPass(Tail(w)) /\ RefsLast(Tail(w)) /\ FieldsFor(fs, js, Tail(w))
<1> DEFINE r == Tail(w)
<1>r. r = Tail(w)
  OBVIOUS
<1>0. \A d \in Elements(js) : \/ d \in Elements(is)
                              \/ \A x \in Elements(r) : x.do = "refid" =>
                                   Means(fs, d, Passable(x.call, x.param))
  OBVIOUS
<1> SUFFICES TurnsPass(r) /\ RefsLast(r) /\ FieldsFor(fs, js, r)
  OBVIOUS
<1> HIDE DEF r
<1>1. /\ Elements(r) \subseteq Elements(w)
      /\ \A k \in DOMAIN r : k + 1 \in DOMAIN w /\ r[k] = w[k + 1] /\ k \in Nat
  BY <1>r, TailElements
<1>2. TurnsPass(r)
  BY <1>1 DEF TurnsPass
<1>3. RefsLast(r)
  <2>1. ASSUME NEW j \in DOMAIN r, NEW k \in DOMAIN r, j < k, r[j].do = "ref" PROVE r[k].do = "ref"
    <3>1. j + 1 \in DOMAIN w /\ k + 1 \in DOMAIN w /\ j + 1 < k + 1 /\ w[j + 1].do = "ref" /\ r[k] = w[k + 1]
      BY <1>1, <2>1
    <3> QED
      BY <3>1 DEF RefsLast
  <2> QED
    BY <2>1 DEF RefsLast
<1>4. FieldsFor(fs, js, r)
  <2>1. ASSUME NEW x \in Elements(r), x.do = "refid", NEW d \in Elements(js)
        PROVE  Means(fs, d, Passable(x.call, x.param))
    <3>1. CASE d \in Elements(is)
      <4>1. Means(es, d, Passable(x.call, x.param))
        BY <1>1, <2>1, <3>1 DEF FieldsFor
      <4> QED
        BY <4>1, MeansKept
    <3>2. CASE d \notin Elements(is)
      BY <1>0, <2>1, <3>2
    <3> QED
      BY <3>1, <3>2
  <2>2. \A x \in Elements(r) : x.do = "refid" =>
          /\ Alias(x.call, x.param) = 0
          /\ \A p \in Elements(r) : p.do = "path" => p.val \in Passable(x.call, x.param)
    BY <1>1 DEF FieldsFor
  <2> QED
    BY <2>1, <2>2 DEF FieldsFor
<1> QED
  BY <1>2, <1>3, <1>4

\* Behind a turn about an argument there are only such turns.
LEMMA RefsBehind ==
  ASSUME NEW w, IsSeq(w), w # << >>, RefsLast(w), Head(w).do = "ref"
  PROVE  \A x \in Elements(Tail(w)) : x.do = "ref"
<1> DEFINE r == Tail(w)
<1>1. /\ Head(w) = w[1] /\ 1 \in DOMAIN w
      /\ \A n \in DOMAIN r : n + 1 \in DOMAIN w /\ r[n] = w[n + 1] /\ n \in Nat /\ n >= 1
  BY TailElements
<1> HIDE DEF r
<1>2. ASSUME NEW n \in DOMAIN r PROVE r[n].do = "ref"
  <2>1. n + 1 \in DOMAIN w /\ 1 < n + 1 /\ r[n] = w[n + 1]
    BY <1>1
  <2> QED
    BY <1>1, <2>1 DEF RefsLast
<1>3. \A x \in Elements(r) : x.do = "ref"
  BY <1>2 DEF Elements
<1> QED
  BY <1>3 DEF r

LEMMA RefsBefore ==
  ASSUME NEW q, IsSeq(q), NEW r, IsSeq(r), NEW y, y = q \o r
  PROVE  (\A x \in Elements(q) : x.do # "ref") /\ (\A x \in Elements(r) : x.do = "ref") => RefsLast(y)
<1>1. /\ IsSeq(y) /\ Len(y) = Len(q) + Len(r) /\ Len(q) \in Nat /\ Len(r) \in Nat
      /\ \A n \in 1 .. Len(y) : y[n] = IF n <= Len(q) THEN q[n] ELSE r[n - Len(q)]
  <2>1. IsSeq(y) /\ Len(y) = Len(q) + Len(r) /\ Len(q) \in Nat /\ Len(r) \in Nat
    BY Joined
  <2>2. \A n \in 1 .. Len(y) : y[n] = IF n <= Len(q) THEN q[n] ELSE r[n - Len(q)]
    BY Joined
  <2> QED
    BY <2>1, <2>2
<1>2. DOMAIN y = 1 .. Len(y) /\ DOMAIN q = 1 .. Len(q) /\ DOMAIN r = 1 .. Len(r)
  BY <1>1, SeqDomain
<1> SUFFICES ASSUME \A x \in Elements(q) : x.do # "ref", \A x \in Elements(r) : x.do = "ref"
             PROVE  RefsLast(y)
  OBVIOUS
<1>3. /\ \A n \in 1 .. Len(q) : q[n].do # "ref"
      /\ \A n \in 1 .. Len(r) : r[n].do = "ref"
  BY <1>2 DEF Elements
<1>4. ASSUME NEW m \in 1 .. Len(y), NEW n \in 1 .. Len(y), m < n, y[m].do = "ref" PROVE y[n].do = "ref"
  <2>1. ~(m <= Len(q))
    <3>1. SUFFICES ASSUME m <= Len(q) PROVE FALSE
      OBVIOUS
    <3>2. m \in 1 .. Len(q) /\ y[m] = q[m]
      BY <1>1, <3>1
    <3> QED
      BY <1>3, <1>4, <3>2
  <2>2. ~(n <= Len(q)) /\ n - Len(q) \in 1 .. Len(r)
    BY <1>1, <1>4, <2>1
  <2>3. y[n] = r[n - Len(q)]
    BY <1>1, <2>2
  <2> QED
    BY <1>3, <2>2, <2>3
<1> QED
  BY <1>2, <1>4 DEF RefsLast

(***************************************************************************)
(* An argument is looked up: the paths to its fields wait, behind them the *)
(* turn that takes one, and behind that the other arguments.               *)
(***************************************************************************)
LEMMA WorkMade ==
  ASSUME NEW w, TurnsPass(w), Head(w) \in Elements(w), Head(w).do = "ref",
         NEW c, NEW k, c = Head(w).call, k = Head(w).param,
         Alias(c, k) = 0, NEW v, v \in Passable(c, k),
         NEW z, \A p \in Elements(z) : p.do = "path" /\ p.val = v,
         NEW r, \A x \in Elements(r) : x.do = "ref" /\ x \in Elements(w),
         NEW y, Elements(y) = Elements(z) \cup {RefIdTurn(c, k)} \cup Elements(r)
  PROVE  /\ TurnsPass(y) /\ Waits(y, c, k) /\ \A es, is : Elements(is) = {} => FieldsFor(es, is, y)
         /\ \A x \in Elements(y) : x.do \in RefKinds \cup {"path"}
<1> DEFINE t == RefIdTurn(c, k)
<1>1. t.do = "refid" /\ t.call = c /\ t.param = k
  BY DEF RefIdTurn
<1>2. Elements(y) = Elements(z) \cup {t} \cup Elements(r)
  OBVIOUS
<1> HIDE DEF t
<1>3. c \in Clones /\ k \in Passes(c)
  BY DEF TurnsPass, RefKinds
<1>4. \A x \in Elements(y) : \/ x.do = "path" /\ x.val = v
                             \/ x = t
                             \/ x.do = "ref" /\ x \in Elements(w)
  BY <1>2
<1>5. TurnsPass(y)
  BY <1>1, <1>3, <1>4 DEF TurnsPass, RefKinds
<1>6. \A x \in Elements(y) : x.do = "refid" => x = t
  BY <1>4
<1>7. \A p \in Elements(y) : p.do = "path" => p.val = v
  BY <1>1, <1>4
<1>8. \A es, is : Elements(is) = {} => FieldsFor(es, is, y)
  BY <1>1, <1>6, <1>7 DEF FieldsFor
<1>9. \A x \in Elements(y) : x.do \in RefKinds \cup {"path"}
  BY <1>1, <1>4 DEF RefKinds
<1>10. Waits(y, c, k)
  BY <1>1, <1>2 DEF Waits, RefKinds
<1> QED
  BY <1>5, <1>8, <1>9, <1>10

-----------------------------------------------------------------------------
(* What the calls of clones pass: the turns that work it out. *)

RefsInv == FunctionsOK /\ KindsOK /\ RefTagsOK /\ RefWork /\ RefsCovered

LEMMA RefsAdvance ==
  ASSUME UNCHANGED <<prog, code>>, phase = "refs", phase' = "refs", left' \subseteq Clones,
         TagsRight(ents', tags'), Only(work', RefKinds \cup {"path"}), TurnsPass(work'), RefsLast(work'),
         FieldsFor(ents', ids', work'), Covers(left', work', tags')
  PROVE  KindsOK' /\ RefTagsOK' /\ RefWork' /\ RefsCovered'
<1>1. KindsOK'
  BY DEF KindsOK, Placing
<1>2. RefTagsOK'
  BY CallsKept DEF RefTagsOK
<1>3. RefWork'
  BY CallsKept, WorkKept DEF RefWork
<1>4. RefsCovered'
  BY WorkKept DEF RefsCovered
<1> QED
  BY <1>1, <1>2, <1>3, <1>4

\* What waits goes on waiting or is decided, and what is decided stays so.
LEMMA CoversStill ==
  ASSUME NEW A, NEW w, NEW T, Covers(A, w, T), NEW B, NEW y, NEW U,
         \A c \in A : c \in B \/ \A k \in Passes(c) : Waits(y, c, k),
         \A t \in Elements(w) : t.do \in RefKinds =>
           \/ Waits(y, t.call, t.param)
           \/ Decided(U, t.call, t.param),
         \A x, key : (\E t \in T : t.on = x /\ t.key = key) => (\E t \in U : t.on = x /\ t.key = key)
  PROVE  Covers(B, y, U)
<1>1. ASSUME NEW c \in Clones, NEW k \in Passes(c)
      PROVE  c \in B \/ Waits(y, c, k) \/ Decided(U, c, k)
  <2>1. CASE c \in A
    BY <2>1
  <2>2. CASE Waits(w, c, k)
    BY <2>2 DEF Waits
  <2>3. CASE Decided(T, c, k)
    BY <2>3 DEF Decided
  <2> QED
    BY <2>1, <2>2, <2>3 DEF Covers
<1> QED
  BY <1>1 DEF Covers

LEMMA RefSiteRefs ==
  ASSUME AnalysisInv, RefsInv, prog' = prog, RefSite
  PROVE  KindsOK' /\ RefTagsOK' /\ RefWork' /\ RefsCovered'
<1>1. PICK c \in left :
        /\ left' = left \ {c}
        /\ work' = Loop(Kept([k \in DOMAIN c.args |-> k],
                             {k \in DOMAIN c.args : k \in Pointers(c.callee) /\ c.args[k] # Null}),
                        LAMBDA k : RefTurn(c, k))
  BY DEF RefSite
<1> DEFINE a == [k \in DOMAIN c.args |-> k]
           K == Passes(c)
           s == Kept(a, K)
<1>2. /\ phase = "refs" /\ phase' = "refs" /\ work = << >> /\ UNCHANGED <<prog, code, ents, ids, tags>>
      /\ SvfInv
  BY DEF RefSite, passVars, AnalysisInv
<1>3. K = {k \in DOMAIN c.args : k \in Pointers(c.callee) /\ c.args[k] # Null}
  BY DEF Passes
<1>4. work' = [j \in DOMAIN s |-> RefTurn(c, s[j])]
  BY <1>1, <1>3 DEF Loop
<1>5. IsSeq(a) /\ DOMAIN a = DOMAIN c.args /\ \A k \in DOMAIN c.args : a[k] = k
  <2>1. IsSeq(c.args)
    BY <1>1, <1>2, IsSeqFacts DEF SvfInv, LeftOK, CallOK
  <2>2. DOMAIN a = DOMAIN c.args /\ a = [k \in DOMAIN c.args |-> a[k]]
    OBVIOUS
  <2> HIDE DEF a
  <2>3. IsSeq(a)
    BY <2>1, <2>2, LoopList
  <2> QED
    BY <2>2, <2>3 DEF a
<1> HIDE DEF a, K
<1>6. IsSeq(s) /\ Elements(s) = {a[k] : k \in K \cap DOMAIN a}
  BY <1>5, KeptFacts
<1> HIDE DEF s
<1>7. Elements(s) = K
  BY <1>3, <1>5, <1>6
<1>8. IsSeq(work') /\ Elements(work') = {work'[j] : j \in DOMAIN s}
  BY <1>4, <1>6, LoopList
<1>9. Elements(work') = {RefTurn(c, k) : k \in K}
  BY <1>4, <1>7, <1>8 DEF Elements
<1>10. \A k : RefTurn(c, k).do = "ref" /\ RefTurn(c, k).call = c /\ RefTurn(c, k).param = k
  BY DEF RefTurn
<1>11. c \in Clones /\ left' \subseteq Clones
  BY <1>1, <1>2 DEF RefsInv, RefWork
<1>12. Only(work', RefKinds \cup {"path"}) /\ TurnsPass(work') /\ FieldsFor(ents', ids', work')
  BY <1>8, <1>9, <1>10, <1>11 DEF Only, TurnsPass, FieldsFor, RefKinds, K
<1>13. RefsLast(work')
  BY <1>9, <1>10 DEF RefsLast, Elements
<1>14. Covers(left', work', tags')
  <2>1. \A k \in Passes(c) : Waits(work', c, k)
    BY <1>9, <1>10 DEF Waits, RefKinds, K
  <2>2. \A t \in Elements(work) : FALSE
    BY <1>2, EmptyList
  <2>3. Covers(left, work, tags)
    BY <1>2 DEF RefsInv, RefsCovered
  <2>4. /\ \A d \in left : d \in left' \/ \A k \in Passes(d) : Waits(work', d, k)
        /\ \A t \in Elements(work) : t.do \in RefKinds =>
             Waits(work', t.call, t.param) \/ Decided(tags', t.call, t.param)
        /\ \A x, key : (\E t \in tags : t.on = x /\ t.key = key) => (\E t \in tags' : t.on = x /\ t.key = key)
    BY <1>1, <1>2, <2>1, <2>2
  <2> QED
    BY <2>3, <2>4, CoversStill
<1>15. TagsRight(ents', tags')
  BY <1>2 DEF RefsInv, RefTagsOK, Placing
<1> QED
  BY <1>2, <1>11, <1>12, <1>13, <1>14, <1>15, RefsAdvance

\* The turns about arguments that wait behind the first one.
LEMMA BehindFirst ==
  ASSUME NEW w, IsSeq(w), w # << >>, NEW T, NEW rest, Covers(rest, w, T), NEW U,
         Head(w).do \in RefKinds => Decided(U, Head(w).call, Head(w).param),
         \A x, key : (\E t \in T : t.on = x /\ t.key = key) => (\E t \in U : t.on = x /\ t.key = key)
  PROVE  Covers(rest, Tail(w), U)
<1> DEFINE r == Tail(w)
<1>1. \A t \in Elements(w) : t = Head(w) \/ t \in Elements(r)
  BY HeadOrTail
<1> SUFFICES Covers(rest, r, U)
  OBVIOUS
<1> HIDE DEF r
<1>2. \A t \in Elements(w) : t.do \in RefKinds =>
        Waits(r, t.call, t.param) \/ Decided(U, t.call, t.param)
  BY <1>1 DEF Waits
<1> QED
  BY <1>2, CoversStill

\* What the tags of an argument decide.
LEMMA SetDecides ==
  ASSUME NEW T, NEW c, NEW k, NEW val
  PROVE  Decided(setMetadata(T, c.id, zref(c, k), val), c, k)
<1> DEFINE t == [on |-> c.id, key |-> zref(c, k), val |-> val]
<1>1. t \in setMetadata(T, c.id, zref(c, k), val) /\ t.on = c.id /\ t.key = zref(c, k)
  BY DEF setMetadata
<1> QED
  BY <1>1 DEF Decided

LEMMA GepPathRefs ==
  ASSUME AnalysisInv, AnalysisInv', RefsInv, prog' = prog, phase = "refs", GepPath
  PROVE  KindsOK' /\ RefTagsOK' /\ RefWork' /\ RefsCovered'
<1> DEFINE t == Head(work)
           fields == PathFields(t.val, t.path)
           es == PathEnts(t.val, t.path)
           fs == Targets(es, t.use, fields)
           js == ids \o fields
<1>1. /\ work # << >> /\ t.do = "path" /\ work' = Tail(work) /\ ents' = fs /\ ids' = js
      /\ UNCHANGED <<phase, left, tags, code>>
  BY DEF GepPath, nextId, PathFields, PathEnts, Missing, passVars
<1>2. /\ SvfInv /\ TurnOK(ents, t) /\ Len(ents) \in Nat /\ IsSeq(ids) /\ IsSeq(work)
      /\ Extends(ents, ents')
  BY <1>1, SvfFacts, GepPathStep DEF AnalysisInv, Turns
<1>3. FieldOK(t.val, t.path) /\ t.use \in Ids(ents) \cup {-1}
  BY <1>1, <1>2 DEF TurnOK
<1>4. /\ EntsOK(es) /\ Extends(ents, es) /\ Len(es) \in Nat
      /\ IsSeq(fields) /\ \A d \in Elements(fields) : d \in Ids(es) /\ es[d + 1].kind \in DefRows
  <2> HIDE DEF t
  <2> QED
    BY <1>2, <1>3, FieldFacts
<1>5. \A V : t.val \in V => \A d \in Elements(fields) : Means(es, d, V)
  <2> SUFFICES ASSUME NEW V, t.val \in V, NEW d \in Elements(fields) PROVE Means(es, d, V)
    OBVIOUS
  <2> HIDE DEF t
  <2> QED
    BY <1>2, <1>3, FieldValues
<1> HIDE DEF fields, es
<1>6. t.use \in Ids(es) \cup {-1}
  BY <1>2, <1>3, <1>4 DEF Ids, Extends
<1>7. Extends(es, fs) /\ Len(fs) = Len(es)
  <2> HIDE DEF t
  <2> QED
    BY <1>4, <1>6, TargetsKept
<1> HIDE DEF fs
<1>8. Elements(js) = Elements(ids) \cup Elements(fields)
  BY <1>2, <1>4, Joined
<1> HIDE DEF js
<1>9. TurnsPass(work) /\ RefsLast(work) /\ FieldsFor(ents, ids, work) /\ left \subseteq Clones
  BY DEF RefsInv, RefWork
<1>10. \A d \in Elements(js) : \/ d \in Elements(ids)
                               \/ \A r \in Elements(Tail(work)) : r.do = "refid" =>
                                    Means(fs, d, Passable(r.call, r.param))
  <2>1. SUFFICES ASSUME NEW d \in Elements(fields), NEW r \in Elements(Tail(work)), r.do = "refid"
                 PROVE  Means(fs, d, Passable(r.call, r.param))
    BY <1>8
  <2>2. r \in Elements(work) /\ t \in Elements(work)
    BY <1>1, <1>2, <2>1, HeadTail
  <2>3. t.val \in Passable(r.call, r.param)
    BY <1>1, <1>9, <2>1, <2>2 DEF FieldsFor
  <2>4. Means(es, d, Passable(r.call, r.param))
    BY <1>5, <2>1, <2>3
  <2> QED
    BY <1>4, <1>7, <2>4, MeansKept
<1>11. TurnsPass(Tail(work)) /\ RefsLast(Tail(work)) /\ FieldsFor(fs, js, Tail(work))
  BY <1>1, <1>2, <1>4, <1>7, <1>9, <1>10, WorkTail
<1>12. Only(Tail(work), RefKinds \cup {"path"})
  BY <1>1, OnlyTail DEF RefsInv, KindsOK
<1>13. Covers(left, Tail(work), tags)
  <2>1. Covers(left, work, tags) /\ t.do \notin RefKinds
    BY <1>1 DEF RefsInv, RefsCovered, RefKinds
  <2> QED
    BY <1>1, <1>2, <2>1, BehindFirst
<1>14. TagsRight(ents', tags)
  <2>1. TagsRight(ents, tags)
    BY DEF RefsInv, RefTagsOK, Placing
  <2>2. Len(ents') \in Nat
    BY <1>1, <1>4, <1>7
  <2> QED
    BY <1>2, <2>1, <2>2, TagsOther
<1> QED
  BY <1>1, <1>9, <1>11, <1>12, <1>13, <1>14, RefsAdvance

LEMMA RefFieldRefs ==
  ASSUME AnalysisInv, RefsInv, prog' = prog, phase = "refs", phase' # "undefined", RefField
  PROVE  KindsOK' /\ RefTagsOK' /\ RefWork' /\ RefsCovered'
<1> DEFINE t == Head(work)
           c == t.call
           k == t.param
           val == Literal(ids[1])
<1>1. /\ work # << >> /\ t.do = "refid" /\ ids # << >>
      /\ tags' = setMetadata(tags, c.id, zref(c, k), val)
      /\ work' = Tail(work) /\ UNCHANGED <<phase, left, ents, ids, code>>
  BY DEF RefField, Undefined, passVars
<1>2. SvfInv /\ ModuleInv /\ Len(ents) \in Nat /\ IsSeq(ids) /\ IsSeq(work) /\ Extends(ents, ents)
  BY <1>1, SvfFacts DEF AnalysisInv, Turns
<1>3. TurnsPass(work) /\ RefsLast(work) /\ FieldsFor(ents, ids, work) /\ left \subseteq Clones
  BY DEF RefsInv, RefWork
<1>4. t \in Elements(work)
  BY <1>1, <1>2, HeadTail
<1>5. c \in Clones /\ k \in Passes(c)
  BY <1>1, <1>3, <1>4 DEF TurnsPass, RefKinds
<1>6. Handed(ents, c, k, val)
  <2>1. Head(ids) \in Elements(ids) /\ Head(ids) = ids[1]
    BY <1>1, <1>2, HeadTail
  <2>2. Alias(c, k) = 0 /\ Means(ents, ids[1], Passable(c, k))
    BY <1>1, <1>3, <1>4, <2>1 DEF FieldsFor
  <2>3. val.param = "" /\ val.id = ids[1]
    BY DEF Literal
  <2> QED
    BY Zenon, <2>2, <2>3 DEF Handed
<1> HIDE DEF val
<1>7. TagsRight(ents, tags')
  <2>1. FunctionsOK /\ TagsRight(ents, tags) /\ phase \notin Placing
    BY DEF RefsInv, RefTagsOK, Placing
  <2> HIDE DEF c, k
  <2> QED
    BY <1>1, <1>2, <1>5, <1>6, <2>1, TagsHanded
<1>8. TurnsPass(Tail(work)) /\ RefsLast(Tail(work)) /\ FieldsFor(ents, ids, Tail(work))
  BY <1>1, <1>2, <1>3, WorkTail
<1>9. Only(Tail(work), RefKinds \cup {"path"})
  BY <1>1, OnlyTail DEF RefsInv, KindsOK
<1>10. Covers(left, Tail(work), tags')
  <2>1. Covers(left, work, tags)
    BY DEF RefsInv, RefsCovered
  <2>2. Decided(tags', c, k)
    <3> HIDE DEF c, k
    <3> QED
      BY <1>1, SetDecides
  <2>3. \A x, key : (\E s \in tags : s.on = x /\ s.key = key) => (\E s \in tags' : s.on = x /\ s.key = key)
    BY TaggedStays DEF Tagged, SvfNext
  <2> QED
    BY <1>1, <1>2, <2>1, <2>2, <2>3, BehindFirst
<1> QED
  BY <1>1, <1>3, <1>7, <1>8, <1>9, <1>10, RefsAdvance

LEMMA RefParamRefs ==
  ASSUME AnalysisInv, RefsInv, prog' = prog, phase = "refs", phase' # "undefined", RefParam
  PROVE  KindsOK' /\ RefTagsOK' /\ RefWork' /\ RefsCovered'
<1> DEFINE t == Head(work)
           c == t.call
           k == t.param
           a == check_parameter_aliasing(c.args[k], c.fn)
           defs == Answers(svf.defs, c.args[k])
           usable == {j \in DOMAIN defs : /\ defs[j] \notin svf.dominators
                                          /\ \/ defs[j] \in svf.struct \/ Known(defs[j])
                                             \/ svf.kind[defs[j]] = "dyn"}
           v == defs[Min(usable)]
           def == getOrBuildDef(v)
           z == analyzeGep(-1, v, c.args[k])
           i == <<RefIdTurn(c, k)>>
           r == Tail(work)
<1>1. /\ work # << >> /\ t.do = "ref" /\ UNCHANGED <<phase, left, code>>
      /\ \/ /\ a # 0
            /\ tags' = setMetadata(tags, c.id, zref(c, k), Named(Params(c.fn)[a].name))
            /\ work' = r
            /\ UNCHANGED <<ents, ids>>
         \/ /\ a = 0 /\ usable = {}
            /\ work' = r
            /\ UNCHANGED <<ents, ids, tags>>
         \/ /\ a = 0 /\ usable # {} /\ v \in svf.struct
            /\ work' = z \o i \o r
            /\ ids' = << >>
            /\ UNCHANGED <<ents, tags>>
         \/ /\ a = 0 /\ usable # {} /\ (IF v \in svf.struct THEN get_def_id(v) # -1 ELSE Known(v))
            /\ ents' = ents \o def.new
            /\ tags' = setMetadata(tags, c.id, zref(c, k), Literal(def.id))
            /\ work' = r
            /\ UNCHANGED ids
  BY Zenon DEF RefParam, Undefined, passVars
<1>2. /\ SvfInv /\ ModuleInv /\ prog \in Programs /\ TurnOK(ents, t) /\ Len(ents) \in Nat
      /\ EntsOK(ents) /\ DefsOK(ents, deflist) /\ IsSeq(ids) /\ IsSeq(work) /\ Extends(ents, ents)
  BY Zenon, <1>1, SvfFacts DEF AnalysisInv, ModuleInv, Turns
<1>3. /\ TurnsPass(work) /\ RefsLast(work) /\ FieldsFor(ents, ids, work) /\ left \subseteq Clones
      /\ Only(work, RefKinds \cup {"path"}) /\ Covers(left, work, tags) /\ TagsRight(ents, tags)
      /\ FunctionsOK /\ phase \notin Placing
  BY DEF RefsInv, RefWork, KindsOK, RefsCovered, RefTagsOK, Placing
<1>4. t \in Elements(work) /\ IsSeq(r) /\ Elements(r) \subseteq Elements(work)
  BY Zenon, <1>1, <1>2, HeadTail
<1>5. c \in Clones /\ k \in Passes(c) /\ a = Alias(c, k)
  BY Zenon, <1>1, <1>3, <1>4 DEF TurnsPass, RefKinds, Alias
<1>6. Only(r, RefKinds \cup {"path"})
  BY Zenon, <1>1, <1>3, OnlyTail
<1>7. usable # {} => v \in prog.values /\ v \in Passable(c, k)
  <2>1. defs \in Seq(prog.values) /\ defs = DefsOf(c.args[k])
    BY Zenon, <1>1, <1>2 DEF TurnOK, DefsOf
  <2>2. DOMAIN defs \subseteq Nat /\ \A j \in DOMAIN defs : defs[j] \in prog.values
    <3> HIDE DEF defs
    <3> QED
      BY <2>1
  <2>3. usable \subseteq DOMAIN defs /\ \A j \in usable : defs[j] \notin svf.dominators
    OBVIOUS
  <2> HIDE DEF usable, defs
  <2>4. usable # {} => Min(usable) \in usable
    BY <2>2, <2>3, MinIsLeast
  <2> QED
    BY <2>1, <2>2, <2>3, <2>4 DEF Passable, Elements
<1>n. usable = {} => \A x \in Passable(c, k) : svf.kind[x] # "dyn" /\ ~Buildable(x)
  BY DEF Passable, Elements, DefsOf, Known
<1>s. \A x, key : (\E s \in tags : s.on = x /\ s.key = key) => (\E s \in tags' : s.on = x /\ s.key = key)
  BY TaggedStays DEF Tagged, SvfNext
<1> HIDE DEF c, k, a, usable, defs, v
<1>8. ASSUME NEW val, tags' = setMetadata(tags, c.id, zref(c, k), val), Handed(ents', c, k, val),
             Extends(ents, ents'), Len(ents') \in Nat, work' = r, UNCHANGED ids
      PROVE  KindsOK' /\ RefTagsOK' /\ RefWork' /\ RefsCovered'
  <2>1. TagsRight(ents', tags')
    BY <1>2, <1>3, <1>5, <1>8, TagsHanded
  <2>2. TurnsPass(r) /\ RefsLast(r) /\ FieldsFor(ents', ids', r)
    BY <1>1, <1>2, <1>3, <1>8, WorkTail
  <2>3. Covers(left, r, tags')
    <3>1. Decided(tags', c, k)
      BY <1>8, SetDecides
    <3>2. t.do \in RefKinds => Decided(tags', t.call, t.param)
      BY <3>1 DEF c, k
    <3>3. IsSeq(work) /\ work # << >> /\ Covers(left, work, tags)
      BY <1>1, <1>2, <1>3
    <3> QED
      BY <1>s, <3>2, <3>3, BehindFirst
  <2> QED
    BY <1>1, <1>3, <1>6, <1>8, <2>1, <2>2, <2>3, RefsAdvance
<1>9. CASE /\ a # 0
           /\ tags' = setMetadata(tags, c.id, zref(c, k), Named(Params(c.fn)[a].name))
           /\ work' = r
           /\ UNCHANGED <<ents, ids>>
  <2>1. Handed(ents', c, k, Named(Params(c.fn)[a].name))
    BY <1>5, <1>9 DEF Handed
  <2> QED
    BY <1>2, <1>8, <1>9, <2>1
<1>10. CASE a = 0 /\ usable = {} /\ work' = r /\ UNCHANGED <<ents, ids, tags>>
  <2>1. Nowhere(c, k)
    BY <1>5, <1>10, <1>n DEF Nowhere
  <2>2. TurnsPass(r) /\ RefsLast(r) /\ FieldsFor(ents, ids, r)
    BY <1>1, <1>2, <1>3, WorkTail
  <2>3. Covers(left, r, tags)
    <3>1. t.do \in RefKinds => Decided(tags, t.call, t.param)
      BY <2>1 DEF Decided, c, k
    <3> QED
      BY <1>1, <1>2, <1>3, <3>1, BehindFirst
  <2> QED
    BY <1>1, <1>3, <1>6, <1>10, <2>2, <2>3, RefsAdvance
<1>11. CASE /\ a = 0 /\ usable # {} /\ v \in svf.struct
            /\ work' = z \o i \o r
            /\ ids' = << >>
            /\ UNCHANGED <<ents, tags>>
  <2>1. v \in prog.values /\ v \in Passable(c, k) /\ Alias(c, k) = 0
    BY <1>5, <1>7, <1>11
  <2>2. IsSeq(z) /\ \A p \in Elements(z) : p.do = "path" /\ p.val = v
    <3>1. v \in svf.struct /\ prog \in Programs /\ v \in prog.values
      BY <1>2, <1>11, <2>1
    <3>z. z = analyzeGep(-1, v, c.args[k])
      OBVIOUS
    <3> HIDE DEF z
    <3> QED
      BY <3>1, <3>z, PathsOf
  <2>3. IsSeq(i) /\ Elements(i) = {RefIdTurn(c, k)} /\ RefIdTurn(c, k).do = "refid"
    BY Single DEF RefIdTurn
  <2> DEFINE q == z \o i
  <2>4. work' = q \o r
    BY <1>11
  <2>q. q = z \o i
    OBVIOUS
  <2> HIDE DEF z, i, q, r
  <2>5. IsSeq(q) /\ Elements(q) = Elements(z) \cup Elements(i)
    BY <2>2, <2>3, <2>q, Joined
  <2>6. IsSeq(work') /\ Elements(work') = Elements(q) \cup Elements(r)
    BY <1>4, <2>4, <2>5, Joined
  <2>7. \A x \in Elements(r) : x.do = "ref" /\ x \in Elements(work)
    BY <1>1, <1>2, <1>3, <1>4, RefsBehind DEF r
  <2>8. RefsLast(work')
    <3>1. \A x \in Elements(q) : x.do # "ref"
      BY <2>2, <2>3, <2>5
    <3> QED
      BY <1>4, <2>4, <2>5, <2>7, <3>1, RefsBefore
  <2>9. Elements(ids') = {}
    BY <1>11, EmptyList
  <2>10. /\ TurnsPass(work') /\ FieldsFor(ents', ids', work') /\ Waits(work', c, k)
         /\ \A x \in Elements(work') : x.do \in RefKinds \cup {"path"}
    <3>1. Elements(work') = Elements(z) \cup {RefIdTurn(c, k)} \cup Elements(r)
      BY <2>3, <2>5, <2>6
    <3>2. /\ c = Head(work).call /\ k = Head(work).param /\ Head(work).do = "ref"
          /\ Head(work) \in Elements(work) /\ TurnsPass(work)
          /\ v \in Passable(c, k) /\ Alias(c, k) = 0
      BY <1>1, <1>3, <1>4, <2>1 DEF c, k
    <3>3. \A p \in Elements(z) : p.do = "path" /\ p.val = v
      BY <2>2
    <3> QED
      BY <2>7, <2>9, <3>1, <3>2, <3>3, WorkMade
  <2>11. Covers(left, work', tags)
    <3>1. \A x \in Elements(work) : x = t \/ x \in Elements(work')
      BY <1>1, <1>2, <2>6, HeadOrTail DEF r
    <3>2. \A x \in Elements(work) : x.do \in RefKinds =>
            Waits(work', x.call, x.param) \/ Decided(tags, x.call, x.param)
      BY <2>10, <3>1 DEF Waits, c, k
    <3> QED
      BY <1>3, <3>2, CoversStill
  <2>12. Only(work', RefKinds \cup {"path"})
    BY <2>6, <2>10 DEF Only
  <2> QED
    BY <1>1, <1>3, <1>11, <2>8, <2>10, <2>11, <2>12, RefsAdvance
<1>12. CASE /\ a = 0 /\ usable # {} /\ (IF v \in svf.struct THEN get_def_id(v) # -1 ELSE Known(v))
            /\ ents' = ents \o def.new
            /\ tags' = setMetadata(tags, c.id, zref(c, k), Literal(def.id))
            /\ work' = r
            /\ UNCHANGED ids
  <2>1. v \in prog.values /\ v \in Passable(c, k) /\ Alias(c, k) = 0 /\ Known(v)
    BY <1>5, <1>7, <1>12 DEF Known
  <2>2. Answered(v, def.id, def.new)
    BY <1>2, <2>1, DefFacts
  <2>3. /\ Extends(ents, ents') /\ Len(ents') \in Nat
        /\ def.id \in Ids(ents') /\ v \in ents'[def.id + 1].nodes
    BY <1>12, <2>2 DEF Answered
  <2>4. Handed(ents', c, k, Literal(def.id))
    <3>1. Literal(def.id).param = "" /\ Literal(def.id).id = def.id
      BY DEF Literal
    <3> QED
      BY Zenon, <2>1, <2>3, <3>1 DEF Handed, Means
  <2> QED
    BY <1>8, <1>12, <2>3, <2>4
<1> QED
  BY Zenon, <1>1, <1>9, <1>10, <1>11, <1>12

-----------------------------------------------------------------------------
(* What the calls of clones pass: the other loops leave it as it is. *)

LEMMA RefsAnalysed ==
  ASSUME AnalysisInv, AnalysisInv', RefsInv, prog' = prog, SvfNext, phase = "refs", phase' # "undefined"
  PROVE  KindsOK' /\ RefTagsOK' /\ RefWork' /\ RefsCovered'
<1>1. work # << >> => Head(work).do \in RefKinds \cup {"path"}
  BY OnlyTail DEF RefsInv, KindsOK
<1>2. ~(InputSite \/ LibSite \/ InputDef \/ StoreUse \/ UseTarget)
  BY Zenon, <1>1 DEF InputSite, LibSite, InputDef, StoreUse, UseTarget, RefKinds
<1>3. ~(IntToPtr \/ IndirectUse \/ IndirectParam \/ StartExport \/ ExportRow \/ TagValues)
  BY Zenon, <1>1 DEF IntToPtr, IndirectUse, IndirectParam, StartExport, ExportRow, TagValues, RefKinds
<1> QED
  BY <1>2, <1>3, RefSiteRefs, GepPathRefs, RefParamRefs, RefFieldRefs DEF SvfNext

LEMMA OtherTags ==
  ASSUME SvfNext, ~RefParam, ~RefField
  PROVE  \A t \in tags' : t \in tags \/ \A c, k : t.key # zref(c, k)
<1>k. \A c, k : zref(c, k) # <<"ziuse">> /\ zref(c, k) \notin RowKeys
  <2>1. \A x : <<"zref", x>> # <<"ziuse">>
    OBVIOUS
  <2> QED
    BY <2>1, KeysDiffer DEF zref
<1>1. CASE IndirectParam
  <2>1. UNCHANGED tags \/ \E on, val : tags' = setMetadata(tags, on, <<"ziuse">>, val)
    BY Zenon, <1>1 DEF IndirectParam
  <2> QED
    BY <1>k, <2>1, NewMetadata
<1>2. CASE TagValues
  <2>1. PICK last \in Survivors :
          tags' = tags \cup {[on |-> Ent(id).val, key |-> tagKey(id), val |-> Literal(id)] : id \in last}
    BY <1>2 DEF TagValues
  <2>2. \A id : tagKey(id) \in RowKeys
    BY DEF tagKey, RowKeys
  <2> QED
    BY <1>k, <2>1, <2>2
<1>3. CASE UNCHANGED tags
  BY <1>3
<1> QED
  BY <1>1, <1>2, <1>3, MapGrows

LEMMA RefsElsewhere ==
  ASSUME AnalysisInv, RefsInv, Extends(ents, ents'), Len(ents') \in Nat, prog' = prog, SvfNext,
         phase \notin {"refs", "undefined"}, phase' # "undefined"
  PROVE  KindsOK' /\ RefTagsOK' /\ RefWork' /\ RefsCovered'
<1>1. /\ phase \in {"sites", "inttoptr", "iuses", "export"} /\ UNCHANGED code
      /\ phase' = phase \/ (phase' \in {"export", "z_loops"} /\ phase \in {"iuses", "export"})
  <2>1. phase \in {"sites", "inttoptr", "iuses", "export"}
    BY SvfPhases DEF AnalysisInv
  <2>2. UNCHANGED code
    BY SvfSteps DEF passVars
  <2>3. phase' = phase \/ (phase' \in {"export", "z_loops"} /\ phase \in {"iuses", "export"})
    BY SvfSteps
  <2> QED
    BY <2>1, <2>2, <2>3
<1>2. Only(work', OtherKinds) /\ Only(work, OtherKinds) /\ Len(ents) \in Nat
  BY <1>1, KindsOther, SvfFacts DEF RefsInv, KindsOK, AnalysisInv
<1>3. KindsOK' /\ RefWork'
  BY <1>1, <1>2 DEF KindsOK, RefWork
<1>4. ~RefParam /\ ~RefField
  <2>1. work # << >> => Head(work).do \in OtherKinds
    BY <1>2, OnlyTail
  <2> QED
    BY Zenon, <2>1 DEF RefParam, RefField, OtherKinds
<1>5. TagsRight(ents', tags')
  <2>1. TagsRight(ents, tags)
    BY <1>1 DEF RefsInv, RefTagsOK, Placing
  <2> QED
    BY <1>2, <1>4, <2>1, OtherTags, TagsOther
<1>6. RefTagsOK'
  BY <1>1, <1>5, CallsKept DEF RefTagsOK
<1>7. ASSUME phase # "sites" PROVE \A c \in Clones : \A k \in Passes(c) : Decided(tags', c, k)
  <2>1. \A c \in Clones : \A k \in Passes(c) : Decided(tags, c, k)
    BY <1>1, <1>7 DEF RefsInv, RefsCovered, Placing
  <2>2. \A x, key : (\E t \in tags : t.on = x /\ t.key = key) => (\E t \in tags' : t.on = x /\ t.key = key)
    BY TaggedStays DEF Tagged
  <2> QED
    BY <2>1, <2>2 DEF Decided
<1>8. RefsCovered'
  BY <1>1, <1>7, CallsKept, WorkKept DEF RefsCovered
<1> QED
  BY <1>3, <1>6, <1>8

LEMMA RefsParts ==
  ASSUME AnalysisInv, RefsInv, prog' = prog, NextPart
  PROVE  KindsOK' /\ RefTagsOK' /\ RefWork' /\ RefsCovered'
<1>1. /\ UNCHANGED <<code, ents, tags, ids, work>> /\ left = {} /\ work = << >>
      /\ \/ phase = "erase" /\ phase' = "sites"
         \/ phase = "sites" /\ phase' = "refs"
         \/ phase = "refs" /\ phase' = "inttoptr"
         \/ phase = "inttoptr" /\ phase' = "iuses"
  BY PartSteps DEF passVars, svfVars
<1>2. KindsOK'
  BY <1>1, OnlyNone DEF KindsOK
<1>3. \A t : t \notin Elements(work)
  BY <1>1, EmptyList
<1>4. phase' = "refs" => left' = Clones
  <2>1. phase' = "refs" => left' = {c \in DirectCalls : c.callee.clone}
    BY <1>1 DEF NextPart, Through, Move
  <2> QED
    BY <2>1 DEF DirectCalls, Clones
<1>5. TurnsPass(work) /\ RefsLast(work) /\ FieldsFor(ents, ids, work)
  BY <1>3 DEF TurnsPass, RefsLast, FieldsFor, Elements
<1>6. RefWork'
  BY <1>1, <1>4, <1>5, CallsKept, WorkKept DEF RefWork
<1>7. TagsRight(ents, tags)
  BY <1>1 DEF RefsInv, RefTagsOK, TagsRight, Placing
<1>8. RefTagsOK'
  BY <1>1, <1>7, CallsKept DEF RefTagsOK
<1>9. phase' = "refs" => Covers(left', work, tags)
  BY <1>4 DEF Covers
<1>10. phase' \in {"inttoptr", "iuses"} => \A c \in Clones : \A k \in Passes(c) : Decided(tags, c, k)
  BY <1>1, <1>3 DEF RefsInv, RefsCovered, Covers, Waits, Placing
<1>11. RefsCovered'
  BY <1>1, <1>9, <1>10, CallsKept, WorkKept DEF RefsCovered
<1> QED
  BY <1>2, <1>6, <1>8, <1>11

LEMMA RefsStill ==
  ASSUME RefsInv, UNCHANGED <<prog, code, svfVars, left>>,
         \/ phase' = phase
         \/ phase \in Exporting \ {"done"} /\ phase' \in Exporting
  PROVE  KindsOK' /\ RefTagsOK' /\ RefWork' /\ RefsCovered'
<1>1. UNCHANGED <<ents, ids, work, tags>>
  BY DEF svfVars
<1>2. KindsOK'
  BY <1>1 DEF RefsInv, KindsOK, Exporting
<1>3. RefTagsOK'
  BY <1>1, CallsKept DEF RefsInv, RefTagsOK, Exporting, Placing
<1>4. RefWork'
  BY <1>1, CallsKept, WorkKept DEF RefsInv, RefWork, Exporting
<1>5. RefsCovered'
  BY <1>1, CallsKept, WorkKept DEF RefsInv, RefsCovered, Exporting, Placing
<1> QED
  BY <1>2, <1>3, <1>4, <1>5

LEMMA RefsInvStep ==
  ASSUME AnalysisInv, AnalysisInv', RefsInv, [Next]_vars PROVE RefsInv'
<1>0. /\ prog' = prog /\ SvfInv /\ ModuleInv /\ Idle /\ Extends(ents, ents') /\ Len(ents') \in Nat
  <2>1. SvfInv' /\ prog' = prog
    BY DEF AnalysisInv, Next, vars
  <2>2. IsSeq(ents')
    BY <2>1 DEF SvfInv, ListsOK, EntsOK, IsSeq, Elements
  <2> QED
    BY <2>1, <2>2, SeqDomain, SvfInvStep DEF AnalysisInv
<1>f. FunctionsOK'
  BY <1>0, FunctionsStep DEF RefsInv
<1> SUFFICES KindsOK' /\ RefTagsOK' /\ RefWork' /\ RefsCovered'
  BY <1>f DEF RefsInv
<1>1. CASE phase' = "undefined"
  BY <1>1 DEF KindsOK, RefTagsOK, RefWork, RefsCovered, Placing
<1>2. CASE PassNext /\ UNCHANGED <<prog, svfVars, zbVars>> /\ phase' # "undefined"
  <2>1. /\ phase \in {"wrap", "clone", "erase"} /\ phase' \in {"clone", "erase"} /\ UNCHANGED <<tags, work>>
    BY <1>2 DEF PassNext, InputWrapper, instrumentFunction, instrumentCalls, removeFunction, svfVars
  <2> QED
    BY <2>1 DEF RefsInv, KindsOK, RefTagsOK, RefWork, RefsCovered, Placing
<1>3. CASE SvfNext /\ phase' # "undefined"
  <2>1. CASE phase = "refs"
    BY <1>0, <1>3, <2>1, RefsAnalysed
  <2>2. CASE phase = "undefined"
    BY <1>0, <1>3, <2>2, SvfSteps
  <2>3. CASE phase \notin {"refs", "undefined"}
    BY <1>0, <1>3, <2>3, RefsElsewhere
  <2> QED
    BY <2>1, <2>2, <2>3
<1>4. CASE NextPart
  BY <1>0, <1>4, RefsParts
<1>5. CASE ZbNext /\ ~PassRefs
  BY <1>0, <1>5, ZbSteps, RefsStill DEF InsertSteps, Exporting, passVars
<1>6. CASE PassRefs
  <2>1. phase = "z_calls" /\ phase' = "done" /\ UNCHANGED <<work, tags>>
    BY <1>6 DEF PassRefs, svfVars
  <2> QED
    BY <2>1 DEF RefsInv, KindsOK, RefTagsOK, RefWork, RefsCovered, Placing
<1>7. CASE UNCHANGED vars
  BY <1>0, <1>7, RefsStill DEF vars, passVars, svfVars
<1> QED
  BY <1>1, <1>2, <1>3, <1>4, <1>5, <1>6, <1>7 DEF Next

-----------------------------------------------------------------------------
(* What the calls of clones pass: the calls are replaced. *)

\* What RefsAreDefs says of the reference r for parameter k of call c.
PassedOK(c, k, r) ==
  LET a == check_parameter_aliasing(c.args[k], c.fn)
      handed == a # 0 /\ c.fn.clone /\ a \in Pointers(c.fn)
      passed == Elements(Answers(svf.defs, c.args[k])) \ svf.dominators
  IN IF k \notin DOMAIN c.args \/ c.args[k] = Null THEN r = NoRef
     ELSE \/ handed /\ r = Named(Params(c.fn)[a].name)
          \/ a # 0 /\ ~handed /\ r = NoRef
          \/ a = 0 /\ r.param = "" /\ \E v \in passed : Defines(r.id, v)
          \/ a = 0 /\ r = NoRef /\ \A v \in passed : ~Known(v)

\* The parameter that an argument may alias is one of the caller's.
LEMMA AliasIn ==
  ASSUME ModuleInv, FunctionsOK, phase \notin Placing, NEW c \in Clones, c.fn.clone, NEW k,
         Alias(c, k) # 0
  PROVE  Alias(c, k) \in DOMAIN Params(c.fn)
<1> DEFINE hits == {j \in DOMAIN Params(c.fn) : <<c.args[k], c.fn.name, Params(c.fn)[j].name>> \in svf.aliases}
<1>1. hits # {} /\ Alias(c, k) = Min(hits)
  BY DEF Alias, check_parameter_aliasing
<1>2. DOMAIN Params(c.fn) \subseteq Nat
  <2>1. Params(c.fn) \in Seq(Parameter)
    BY CloneCalls
  <2> QED
    BY <2>1
<1>3. hits \subseteq DOMAIN Params(c.fn)
  OBVIOUS
<1> HIDE DEF hits
<1>4. Min(hits) \in hits
  BY <1>1, <1>2, <1>3, MinIsLeast
<1> QED
  BY <1>1, <1>3, <1>4

\* It depends on the program, the entities and the identifiers only.
LEMMA PassedKept ==
  ASSUME UNCHANGED <<prog, ents, deflist>>, NEW c, NEW k, NEW r
  PROVE  PassedOK(c, k, r)' <=> PassedOK(c, k, r)
<1> DEFINE a == check_parameter_aliasing(c.args[k], c.fn)
           handed == a # 0 /\ c.fn.clone /\ a \in Pointers(c.fn)
           passed == Elements(Answers(svf.defs, c.args[k])) \ svf.dominators
           given == \E v \in passed : Defines(r.id, v)
           unknown == \A v \in passed : ~Known(v)
<1>1. Params(c.fn)' = Params(c.fn)
  BY DEF Params
<1>2. Pointers(c.fn)' = Pointers(c.fn)
  BY DEF Params, Pointers
<1>3. a' = a
  BY StoredKept
<1>4. handed' <=> handed
  BY <1>2, <1>3
<1>5. given' <=> given
  BY DEF Defines, Ent
<1>6. unknown' <=> unknown
  BY DEF Known, get_def_id, Ent
<1>7. PassedOK(c, k, r) <=>
        IF k \notin DOMAIN c.args \/ c.args[k] = Null THEN r = NoRef
        ELSE \/ handed /\ r = Named(Params(c.fn)[a].name)
             \/ a # 0 /\ ~handed /\ r = NoRef
             \/ a = 0 /\ r.param = "" /\ given
             \/ a = 0 /\ r = NoRef /\ unknown
  BY DEF PassedOK
<1>8. PassedOK(c, k, r)' <=>
        IF k \notin DOMAIN c.args \/ c.args[k] = Null THEN r = NoRef
        ELSE \/ handed' /\ r = Named(Params(c.fn)'[a'].name)
             \/ a' # 0 /\ ~handed' /\ r = NoRef
             \/ a' = 0 /\ r.param = "" /\ given'
             \/ a' = 0 /\ r = NoRef /\ unknown'
  BY DEF PassedOK
<1> HIDE DEF a, handed, passed, given, unknown
<1> QED
  BY Zenon, <1>1, <1>3, <1>4, <1>5, <1>6, <1>7, <1>8

LEMMA PassedRight ==
  ASSUME AnalysisInv, RefsInv, phase = "z_calls", NEW c \in Clones, NEW k \in Pointers(c.callee)
  PROVE  PassedOK(c, k, Passed(c, k))
<1> DEFINE r == Passed(c, k)
           a == Alias(c, k)
           handed == a # 0 /\ c.fn.clone /\ a \in Pointers(c.fn)
<1>0. /\ ModuleInv /\ SvfInv /\ FunctionsOK /\ phase \notin Placing \cup {"done"} /\ phase \notin Placing
      /\ TagsRight(ents, tags) /\ \A j \in Passes(c) : Decided(tags, c, j)
  BY DEF AnalysisInv, RefsInv, RefTagsOK, RefsCovered, Placing
<1>1. c.refs[k] = NoRef
  BY <1>0, CloneRefs
<1>2. CASE ~Tagged(c.id, zref(c, k))
  <2>1. r = NoRef
    BY <1>1, <1>2 DEF Passed
  <2>2. CASE k \in Passes(c)
    <3>1. Nowhere(c, k)
      BY <1>0, <1>2, <2>2 DEF Decided, Tagged
    <3>2. \A v \in Passable(c, k) : ~Known(v)
      BY <1>0, <3>1, NeverKnown DEF Nowhere
    <3>3. k \in DOMAIN c.args /\ c.args[k] # Null
      BY <2>2 DEF Passes
    <3> QED
      BY Zenon, <2>1, <3>1, <3>2, <3>3 DEF PassedOK, Nowhere, Alias, Passable, DefsOf
  <2>3. CASE k \notin Passes(c)
    BY Zenon, <2>1, <2>3 DEF PassedOK, Passes
  <2> QED
    BY <2>2, <2>3
<1>3. CASE Tagged(c.id, zref(c, k))
  <2> DEFINE val == Tag(c.id, zref(c, k))
  <2>1. PICK t \in tags : t.on = c.id /\ t.key = zref(c, k) /\ val = t.val
    BY <1>3 DEF Tagged, Tag
  <2>2. k \in Passes(c) /\ Handed(ents, c, k, val)
    BY <1>0, <2>1 DEF TagsRight
  <2>3. k \in DOMAIN c.args /\ c.args[k] # Null
    BY <2>2 DEF Passes
  <2>4. r = IF val.param = "" \/ (c.fn.clone /\ \E j \in Pointers(c.fn) : Params(c.fn)[j].name = val.param)
              THEN val ELSE NoRef
    BY <1>1, <1>3 DEF Passed
  <2> HIDE DEF val
  <2>5. CASE a = 0
    <3>1. val.param = "" /\ Means(ents, val.id, Passable(c, k))
      BY Zenon, <2>2, <2>5 DEF Handed
    <3>2. r = val
      BY Zenon, <2>4, <3>1
    <3>3. \E v \in Passable(c, k) : Defines(val.id, v)
      BY Zenon, <3>1 DEF Means, Defines, Ent
    <3> QED
      BY Zenon, <2>3, <2>5, <3>1, <3>2, <3>3 DEF PassedOK, Alias, Passable, DefsOf
  <2>6. CASE a # 0
    <3> DEFINE name == Params(c.fn)[a].name
    <3>1. val = Named(name) /\ val.param = name
      BY <2>2, <2>6 DEF Handed, Named
    <3>2. name = "" => Named(name) = NoRef
      BY Zenon DEF Named, NoRef
    <3>3. ASSUME c.fn.clone, NEW j \in Pointers(c.fn), Params(c.fn)[j].name = name PROVE handed
      <4>1. a \in DOMAIN Params(c.fn) /\ j \in DOMAIN Params(c.fn)
        BY <1>0, <2>6, <3>3, AliasIn DEF Pointers
      <4>2. Distinct(c.fn)
        BY <1>0, <3>3, CloneCalls
      <4>3. j = a
        BY <3>3, <4>1, <4>2 DEF Distinct
      <4> QED
        BY <2>6, <3>3, <4>3
    <3>4. (handed /\ r = Named(name)) \/ (~handed /\ r = NoRef)
      <4>1. CASE handed
        <5>1. c.fn.clone /\ \E j \in Pointers(c.fn) : Params(c.fn)[j].name = name
          BY <4>1
        <5>2. r = val
          BY Zenon, <2>4, <3>1, <5>1
        <5> QED
          BY <3>1, <4>1, <5>2
      <4>2. CASE ~handed
        <5>1. ~(c.fn.clone /\ \E j \in Pointers(c.fn) : Params(c.fn)[j].name = name)
          BY <3>3, <4>2
        <5> QED
          BY Zenon, <2>4, <3>1, <3>2, <4>2, <5>1
      <4> QED
        BY <4>1, <4>2
    <3> QED
      BY Zenon, <2>3, <2>6, <3>4 DEF PassedOK, Alias
  <2> QED
    BY <2>5, <2>6
<1> QED
  BY <1>2, <1>3

LEMMA RefsReplaced ==
  ASSUME AnalysisInv, RefsInv, prog' = prog, PassRefs PROVE RefsAreDefs'
<1>1. /\ phase = "z_calls" /\ UNCHANGED <<prog, svfVars>> /\ ModuleInv
      /\ code' = (code \ Clones) \cup {[c EXCEPT !.refs = [k \in DOMAIN @ |-> Passed(c, k)]] : c \in Clones}
  BY DEF PassRefs, Clones, AnalysisInv
<1>2. \A c, k, r : PassedOK(c, k, r)' <=> PassedOK(c, k, r)
  <2>1. UNCHANGED <<prog, ents, deflist>>
    BY <1>1 DEF svfVars
  <2> QED
    BY <2>1, PassedKept
<1>3. ASSUME NEW d \in code', d.op = "call", d.callee.clone
      PROVE  DOMAIN d.refs = Pointers(d.callee) /\ \A k \in DOMAIN d.refs : PassedOK(d, k, d.refs[k])
  <2>1. PICK c \in Clones : d = [c EXCEPT !.refs = [k \in DOMAIN @ |-> Passed(c, k)]]
    BY <1>1, <1>3 DEF Clones
  <2> DEFINE s == [k \in DOMAIN c.refs |-> Passed(c, k)]
  <2>2. d = [c EXCEPT !.refs = s]
    BY <2>1
  <2>3. c.refs = [k \in Pointers(c.callee) |-> NoRef] /\ IsInstruction(c)
    BY <1>1, CloneRefs DEF Placing
  <2>4. DOMAIN s = Pointers(c.callee) /\ \A k \in Pointers(c.callee) : s[k] = Passed(c, k)
    BY <2>3
  <2> HIDE DEF s
  <2>5. d.callee = c.callee /\ d.fn = c.fn /\ d.args = c.args
    BY <2>2, <2>3, RefsFields
  <2>6. d.refs = s
    BY <2>2, <2>3 DEF IsInstruction
  <2>7. \A k \in Pointers(c.callee) : PassedOK(c, k, s[k])
    BY <1>1, <2>4, PassedRight
  <2>8. \A k, r : PassedOK(d, k, r) <=> PassedOK(c, k, r)
    BY <2>5 DEF PassedOK
  <2> QED
    BY <2>4, <2>5, <2>6, <2>7, <2>8
<1>4. \A f : Pointers(f)' = Pointers(f)
  BY <1>1 DEF Pointers, Params
<1>5. \A d \in code' : d.op = "call" /\ d.callee.clone =>
        DOMAIN d.refs = Pointers(d.callee)' /\ \A k \in DOMAIN d.refs : PassedOK(d, k, d.refs[k])'
  BY <1>2, <1>3, <1>4
<1> QED
  BY Zenon, <1>5 DEF RefsAreDefs, PassedOK

LEMMA RefsAreDefsStep ==
  ASSUME AnalysisInv, RefsInv, RefsAreDefs, [Next]_vars PROVE RefsAreDefs'
<1>0. prog' = prog /\ Idle
  BY DEF Next, vars, AnalysisInv
<1>1. CASE PassRefs
  BY <1>0, <1>1, RefsReplaced
<1>2. CASE UNCHANGED vars
  <2>1. UNCHANGED <<prog, ents, deflist>> /\ phase' = phase /\ code' = code
    BY <1>2 DEF vars, passVars, svfVars
  <2>2. \A c, k, r : PassedOK(c, k, r)' <=> PassedOK(c, k, r)
    BY <2>1, PassedKept
  <2>3. \A f : Pointers(f)' = Pointers(f)
    BY <2>1 DEF Pointers, Params
  <2>4. RefsAreDefs <=>
          (phase = "done" => \A c \in code : c.op = "call" /\ c.callee.clone =>
             DOMAIN c.refs = Pointers(c.callee) /\ \A k \in DOMAIN c.refs : PassedOK(c, k, c.refs[k]))
    BY Zenon DEF RefsAreDefs, PassedOK
  <2>5. RefsAreDefs' <=>
          (phase' = "done" => \A c \in code' : c.op = "call" /\ c.callee.clone =>
             DOMAIN c.refs = Pointers(c.callee)' /\ \A k \in DOMAIN c.refs : PassedOK(c, k, c.refs[k])')
    BY Zenon DEF RefsAreDefs, PassedOK
  <2> QED
    BY <2>1, <2>2, <2>3, <2>4, <2>5
<1>3. CASE PassNext \/ SvfNext \/ NextPart \/ (ZbNext /\ ~PassRefs)
  <2>1. phase' # "done"
    <3>1. CASE PassNext
      BY <3>1 DEF PassNext, InputWrapper, instrumentFunction, instrumentCalls, removeFunction
    <3>2. CASE SvfNext
      BY <1>0, <3>2, SvfSteps, SvfPhases
    <3>3. CASE NextPart
      BY <3>3, PartSteps
    <3>4. CASE ZbNext /\ ~PassRefs
      BY <3>4, ZbSteps DEF InsertSteps
    <3> QED
      BY <1>3, <3>1, <3>2, <3>3, <3>4
  <2> QED
    BY Zenon, <2>1 DEF RefsAreDefs
<1> QED
  BY <1>1, <1>2, <1>3 DEF Next

LEMMA RefsInvInit ==
  ASSUME Init PROVE RefsInv /\ RefsAreDefs
<1>1. phase = "wrap" /\ work = << >> /\ tags = {} /\ FunctionsOK
  BY FunctionsInit DEF Init, SvfInit
<1>2. KindsOK
  BY <1>1, OnlyNone DEF KindsOK
<1> QED
  BY <1>1, <1>2 DEF RefsInv, RefTagsOK, RefWork, RefsCovered, RefsAreDefs, Placing

(***************************************************************************)
(* What Zbouncer has a call of a clone pass for each pointer, by svf-ex's  *)
(* zref metadata, is what was found for that argument and nothing else     *)
(* (RefsAreDefs): a parameter of the caller that the argument may alias,   *)
(* one of its definitions, or 0 where there is neither -- in whichever     *)
(* order the calls are looked at and fields of structures are looked up    *)
(* in between, for every module and whatever SVF answers about it.         *)
(***************************************************************************)
THEOREM ReferencesAreDefinitions == Spec => []RefsAreDefs
<1> DEFINE Inv == AnalysisInv /\ RefsInv /\ RefsAreDefs
<1>1. Init => Inv
  BY SvfInvInit, RefsInvInit DEF AnalysisInv
<1>2. Inv /\ [Next]_vars => Inv'
  <2>1. SUFFICES ASSUME AnalysisInv, RefsInv, RefsAreDefs, [Next]_vars
                 PROVE  AnalysisInv' /\ RefsInv' /\ RefsAreDefs'
    OBVIOUS
  <2> QED
    BY <2>1, AnalysisKept, RefsInvStep, RefsAreDefsStep
<1>3. Inv => RefsAreDefs
  OBVIOUS
<1> HIDE DEF Inv
<1> QED
  BY <1>1, <1>2, <1>3, PTL DEF Spec
=============================================================================
