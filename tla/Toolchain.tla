----------------------------- MODULE Toolchain ------------------------------
(***************************************************************************)
(* From a compiled module to an instrumented one and its static trace:     *)
(* InputWrapper, FunctionInstrumentor, svf-ex and Zbouncer, one after the  *)
(* other on the same module.                                               *)
(***************************************************************************)
EXTENDS Zbouncer

vars == <<prog, phase, left, passVars, svfVars, zbVars>>

Init ==
  /\ prog \in Programs
  /\ phase = "wrap"
  /\ left = {}
  /\ PassInit /\ SvfInit /\ ZbInit

\* The parts in their order; each begins when the loop of the one before is through.
Through(from, to, set) == left = {} /\ Move(from, to, set)

NextPart ==
  \/ Through("erase", "sites",
             {c \in DirectCalls : c.callee.name \in inputFunctions \cup libFunctions})
  \/ Through("sites", "refs", {c \in DirectCalls : c.callee.clone})
  \/ Through("refs", "inttoptr", Pointed)
  \/ Through("inttoptr", "iuses", InUses)

PassNext == InputWrapper \/ instrumentFunction \/ instrumentCalls \/ removeFunction

Next ==
  \/ PassNext /\ UNCHANGED <<prog, svfVars, zbVars>>
  \/ (SvfNext \/ NextPart) /\ UNCHANGED <<prog, zbVars>>
  \/ ZbNext /\ UNCHANGED prog

Spec == Init /\ [][Next]_vars

\* The tools are run to their end; every turn of their loops is one of Next.
FairSpec == Spec /\ WF_vars(Next)

-----------------------------------------------------------------------------
Elements(s) == {s[k] : k \in DOMAIN s}

\* The kinds of the entities that a kind of report is about.
Kinds(call) == CASE call \in {"zbouncer_use", "zbouncer_iuse"} -> {"SUSE"}
                 [] call \in {"zbouncer_luse", "zbouncer_iluse"} -> {"LUSE"}
                 [] call \in {"zbouncer_collect_alloca", "zbouncer_collect_alloca_dyn"} -> DefRows
                 [] OTHER -> DefRows \cup {"SUSE", "LUSE"}

\* All reports but those of the start and the end of the run.
Reports == {r \in (UNION {Elements(after[x]) : x \in prog.values}) \cup Elements(entry) :
              r.call \notin {"zinit", "zexit"}}

\* The values that instruction i may write, as svf-ex looks them up.
Written(i) == Elements(IF i.op = "call" THEN Answers(svf.defs, libParam(i))
                                        ELSE Answers(svf.storeDefs, i.id))

\* Definition d stands for value v.
Defines(d, v) == v \in Ent(d).nodes \/ (Ent(d).kind = "SDEF" /\ Ent(d).val = v)

(***************************************************************************)
(* The lists of svf-ex hold entities that exist, a definition in deflist   *)
(* and a row or a tag for one of them only (trace.h, class TraceEntity).   *)
(***************************************************************************)
TypeOK ==
  /\ rows \in Seq(Row)
  /\ Elements(trace) \cup Elements(ids) \cup Elements(deflist) \cup valueMap \subseteq 0 .. nextId - 1
  /\ \A d \in Elements(deflist) : isDef(d)
  /\ \A e \in Elements(ents) : \A d \in Elements(e.kids) :
       d \in 0 .. nextId - 1 /\ (isDef(d) \/ (e.kind = "IN" /\ isUse(d)))
  /\ \A t \in tags : t.on \in prog.values /\ t.val.id \in 0 .. nextId

(***************************************************************************)
(* Cloning, redirecting and removing (FunctionInstrumentor.cpp) keep the   *)
(* program: when the passes are through, every compiled instruction is     *)
(* there once, in its function or in the clone that replaced it, with its  *)
(* arguments, and no call is left to a function that was removed.          *)
(***************************************************************************)
SameProgram ==
  phase \notin {"wrap", "clone", "erase", "undefined"} =>
    /\ \A i \in prog.code : \E j \in code :
         /\ {n \in code : n.id = i.id} = {j}
         /\ j.fn.name = i.fn.name /\ j.args = i.args /\ j.callee.name = i.callee.name
         /\ j.fn.clone <=> i.fn \in instrumentedFunctions
         /\ j.op = "call" => (j.callee.clone <=> i.callee \in instrumentedFunctions)
    /\ \A i, j \in code : i.fn.name = j.fn.name => i.fn = j.fn

(***************************************************************************)
(* What svf-ex writes is what the verifier can read: the rows that         *)
(* exportTrace has written so far form a well-formed static trace.         *)
(***************************************************************************)
RowsWellFormed == WellFormed(rows)

(***************************************************************************)
(* The field that analyzeGep works out from the operands lies inside its   *)
(* structure, as long as no structure holds a pointer to another: the sum  *)
(* of the sizes of the fields before it neither skips nor passes one.      *)
(***************************************************************************)
FieldsInside ==
  (\A type \in DOMAIN svf.fields : Elements(svf.fields[type]) \cap svf.pointers = {}) =>
    \A e \in Elements(ents) : e.kind = "SDEF" =>
      e.offset + svf.size[e.type] <= svf.size[svf.alloc[e.val]]

(***************************************************************************)
(* Every report that Zbouncer inserts names a row of the static trace of   *)
(* the kind the runtime library takes it for.                              *)
(***************************************************************************)
ReportsKnown ==
  phase = "done" => \A r \in Reports : \E row \in Elements(rows) :
    row.id = r.id /\ row.type \in Kinds(r.call)

(***************************************************************************)
(* The address of every definition in the static trace is reported under   *)
(* its identifier (the zdef tags of exportTrace and Zbouncer's calls for   *)
(* them), so that a use is never judged against one that has none: no      *)
(* value gets two definitions of which one is silent.  The code itself     *)
(* makes two exceptions.  A DDef is built with a target of its own, also   *)
(* where the list has a definition of that value; the verifier gives it    *)
(* the address of the allocation.  And all fields of a structure, and the  *)
(* structure, share one tag, which names one of them.                      *)
(***************************************************************************)
DefinitionsReported ==
  phase = "done" => \A row \in Elements(rows) : row.type \in DefRows =>
    \/ \E father \in Elements(rows) : father.id = row.father /\ father.type = "DDEF"
    \/ \E r \in Reports :
         /\ r.call \in {"zbouncer_collect_alloca", "zbouncer_collect_alloca_dyn"}
         /\ r.addr = Ent(row.id).val
         /\ r.id = row.id \/ "SDEF" \in {row.type, Ent(r.id).kind}

(***************************************************************************)
(* A store or library call found from several inputs has an entity for     *)
(* each, and one tag (svf-ex.cpp, exportTrace): whichever keeps it, the    *)
(* reported entity lists a definition for all that the instruction may     *)
(* write but structures, of which it lists the fields that analyzeGep      *)
(* finds, and the instruction of every exported use is reported.           *)
(***************************************************************************)
TargetsCover ==
  phase = "done" => \A i \in code :
    (\E u \in valueMap : isUse(u) /\ Ent(u).val = i.id) =>
      \E r \in Elements(after[i.id]) :
        /\ r.call \in {"zbouncer_use", "zbouncer_iuse", "zbouncer_luse", "zbouncer_iluse"}
        /\ \A v \in Written(i) \ svf.struct : \E d \in Elements(Ent(r.id).kids) : Defines(d, v)

(***************************************************************************)
(* What a call of a clone passes for a pointer (svf-ex's zref metadata     *)
(* and Zbouncer's replacement of the call): a parameter of its own caller  *)
(* that the argument may alias, or a definition of the argument that is no *)
(* dominator, or 0 if neither exists, if the caller has no such parameter  *)
(* or if the argument has no value.                                        *)
(***************************************************************************)
RefsAreDefs ==
  phase = "done" => \A c \in code : c.op = "call" /\ c.callee.clone =>
    /\ DOMAIN c.refs = Pointers(c.callee)
    /\ \A k \in DOMAIN c.refs :
         LET r == c.refs[k]
             a == check_parameter_aliasing(c.args[k], c.fn)
             handed == a # 0 /\ c.fn.clone /\ a \in Pointers(c.fn)
             passed == Elements(Answers(svf.defs, c.args[k])) \ svf.dominators
         IN IF k \notin DOMAIN c.args \/ c.args[k] = Null THEN r = NoRef
            ELSE \/ handed /\ r = Named(Params(c.fn)[a].name)
                 \/ a # 0 /\ ~handed /\ r = NoRef
                 \/ a = 0 /\ r.param = "" /\ \E v \in passed : Defines(r.id, v)
                 \/ a = 0 /\ r = NoRef /\ \A v \in passed : ~Known(v)

(***************************************************************************)
(* An indirect use reads the definition its function was given: the        *)
(* parameter that svf-ex names is one of the instruction's own function,   *)
(* and has an identifier, unless the dominator is also written somewhere   *)
(* else or from a parameter that is no pointer (Zbouncer.cpp looks the     *)
(* name up among the parameters added to that function and to no other).   *)
(***************************************************************************)
IndirectRefs ==
  phase = "done" => \A i \in code : \A r \in Elements(after[i.id]) :
    r.ref = Uninitialised =>
      \E s \in Elements(Answers(svf.argStores, findFirstDominator(i.id))) :
        LET a == check_parameter_aliasing(s.src, i.fn)
        IN s.fn # i.fn.name \/ (a # 0 /\ a \notin Pointers(i.fn))

General == {"zbouncer_use", "zbouncer_iuse", "zbouncer_luse", "zbouncer_iluse",
            "zbouncer_collect_alloca", "zbouncer_collect_alloca_dyn"}

\* The tags that Zbouncer reports instruction i for.
Made(i) == {t \in tags : /\ t.on = i.id
                         /\ \/ t.key \in {<<"zsuse">>, <<"zluse">>}
                            \/ t.key = <<"zdef">> /\ (i.op # "call" \/ isAllocation(i))}

\* The reports in s about entity id, by their own function and as generic entries.
Own(s, id) == {r \in Elements(s) : r.call \in General /\ r.id = id}
Generic(s, id) == {r \in Elements(s) : r.call \notin General \cup {"zexit"} /\ r.id = id}

\* One place of s holds a member of R.
Once(s, R) == \E k \in DOMAIN s : \A j \in DOMAIN s : s[j] \in R <=> j = k

(***************************************************************************)
(* The loop part and the general parts of Zbouncer both visit an           *)
(* instruction in a loop: for each tag it is reported by its own function  *)
(* exactly once, first, and once more as a generic entry; outside of loops *)
(* there is no generic entry, and nowhere a report that no tag asks for.   *)
(***************************************************************************)
ReportedOnce ==
  phase = "done" => \A i \in code :
    LET s == after[i.id] IN
    /\ \A t \in Made(i) : /\ Once(s, Own(s, t.val.id))
                          /\ i.loop => Once(s, Generic(s, t.val.id))
    /\ \A r \in Elements(s) : \/ r.call = "zexit"
                              \/ /\ r.call \in General \/ i.loop
                                 /\ \E t \in Made(i) : t.val.id = r.id
    /\ \A j, k \in DOMAIN s : j < k /\ s[k].call \in General => s[j].call \in General

\* The dominator of a use is one of the definitions that the use itself lists.
Dominated(i) ==
  LET dom == findFirstDominator(i.id) IN dom \in {Null} \cup svf.struct \cup Written(i)

(***************************************************************************)
(* The programs that the tools handle: every input call has a parameter    *)
(* svf-ex knows of, no function with pointers has its address taken, every *)
(* definition found can be built, a structure that is passed on is reached *)
(* by a path, and the dominator of a use is among what the use may write.  *)
(***************************************************************************)
Handled(p) ==
  LET calls == {i \in p.code : i.op = "call"}
      looked == (UNION {Elements(i.args) : i \in calls}) \cup Elements(svf.got)
      stores == {i.id : i \in {j \in p.code : j.op = "store"}}
      found == (UNION {Elements(Answers(svf.defs, x)) : x \in looked})
               \cup (UNION {Elements(Answers(svf.storeDefs, x)) : x \in stores})
  IN /\ \A i \in calls :
          /\ i.callee.name \notin GetsNames \cup (inputFunctions \ {"fgetc", "wrapper_scanf"})
          /\ i.callee.name = "fgetc" => i.id \in DOMAIN svf.got
          /\ i.callee.name \in ScanfNames => Len(i.args) >= 2
          /\ \A x \in Elements(i.args) : i.callee.name \in DOMAIN p.params =>
               \A v \in Elements(Answers(svf.defs, x)) \cap svf.struct : Answers(svf.geps, <<v, x>>) # << >>
     /\ \A i \in p.code : (i.op = "store" \/ i.callee.name \in libFunctions) => Dominated(i)
     /\ \A f \in p.taken : \A k \in DOMAIN p.params[f] : ~p.params[f][k].pointer
     /\ \A v \in found : Buildable(v)

(***************************************************************************)
(* On such a program the tools come to their end: no null pointer and no   *)
(* value that was never written is met on any order of the loops.          *)
(***************************************************************************)
Finishes == (phase = "wrap" /\ Handled(prog)) ~> (phase = "done")

(***************************************************************************)
(* The comments of Zbouncer.cpp on library uses: the reported address is   *)
(* that of the memory written, whose definitions svf-ex lists.             *)
(***************************************************************************)
LibUseReportsTarget ==
  phase = "done" => \A i \in code : \A r \in Elements(after[i.id]) :
    r.call \in {"zbouncer_luse", "zbouncer_iluse"} => r.addr = libParam(i)
=============================================================================
