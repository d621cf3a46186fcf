------------------------------- MODULE SvfEx --------------------------------
(***************************************************************************)
(* svf-ex: the entities of the static trace, their identifiers, what is    *)
(* listed under what, the metadata on instructions and the exported rows.  *)
(* One action is one turn of one of its loops; the turns of an inner loop  *)
(* wait in work, in their order, before the outer loop goes on.            *)
(*                                                                         *)
(* svf holds what SVF and the searches of GraphSearch answer:              *)
(*   kind        of a definition's value: alloca, global, dyn (malloc and  *)
(*               calloc) or call (any other call)                          *)
(*   targets     of a dyn value: what findTargetOfCall finds, and where    *)
(*               that is dyn, too, what it finds for it                    *)
(*   defs, storeDefs    getDefNodes of a value, findDefNodesFromStore      *)
(*   stores      the stores that traverseOnVFG finds from a value          *)
(*   got         what fgetc's answer is stored to first, or the answer     *)
(*               itself where nothing is done with it                      *)
(*   struct, type, alloc, aggregate, size   types of values                *)
(*   fields      of a structure, or of a pointer to one: its fields' types *)
(*   pointers    the types that are pointers to structures                 *)
(*   geps        of a structure and a use: the paths between them, each as *)
(*               the operands of its getelementptr instructions, Varies    *)
(*               for one that is no constant                               *)
(*   dominators, firstDom   isDominatorNode, findFirstDominator of a use   *)
(*   aliases     the values that may alias a parameter of a function       *)
(*   argStores   the stores into a value                                   *)
(*   callBlocks  the calls an inttoptr instruction's operand comes from    *)
(***************************************************************************)
EXTENDS Passes, TraceRows, SequencesExt

CONSTANT svf

VARIABLES
  ents,      \* the TraceEntity objects, by identifier
  deflist,   \* the identifiers in the list of definitions
  trace,     \* the identifiers at the top level of the trace
  work,      \* turns of the inner loops that wait
  ids,       \* what analyzeGep has returned so far
  tags,      \* metadata on instructions and globals
  rows,      \* the lines of ztrace.txt
  valueMap   \* the entities that are going to be tagged

svfVars == <<ents, deflist, trace, work, ids, tags, rows, valueMap>>

-----------------------------------------------------------------------------
Answers(f, x) == IF x \in DOMAIN f THEN f[x] ELSE << >>
findFirstDominator(u) == IF u \in DOMAIN svf.firstDom THEN svf.firstDom[u] ELSE Null

\* A function on the indices of s gives the turns of a loop over s.
Loop(s, Turn(_)) == [k \in DOMAIN s |-> Turn(s[k])]

\* The elements of s at the places K, in their order.
Kept(s, K) ==
  LET upTo[n \in 0 .. Len(s)] == IF n = 0 THEN << >>
                                 ELSE IF n \in K THEN Append(upTo[n - 1], s[n])
                                 ELSE upTo[n - 1]
  IN upTo[Len(s)]

(***************************************************************************)
(* An entity: val is the value that gets its tag, nodes the values that    *)
(* defNodeCompare finds it for, field its place in a structure, kids what  *)
(* is exported under it (sub-objects of an In, targets of a use, the       *)
(* target of a DDef).  Its identifier is its place in ents, from 0.        *)
(***************************************************************************)
Entity(kind, val, nodes, type, offset, kids) ==
  [kind |-> kind, val |-> val, nodes |-> nodes, type |-> type, offset |-> offset,
   kids |-> kids]

ADef(v, nodes, type) == Entity("ADEF", v, nodes, type, 0, << >>)
GDef(v, nodes, type) == Entity("GDEF", v, nodes, type, 0, << >>)
SDef(v, type, offset) == Entity("SDEF", v, {}, type, offset, << >>)
DDef(v, nodes, type, target) == Entity("DDEF", v, nodes, type, 0, <<target>>)
SUse(s) == Entity("SUSE", s, {}, "", 0, << >>)
LUse(c) == Entity("LUSE", c, {}, "", 0, << >>)
In(c, kids) == Entity("IN", c, {}, "", 0, kids)

Ent(id) == ents[id + 1]
nextId == Len(ents)

\* Mutant: d is listed under the entity made last.
UnderNewest(es, id, d) == [es EXCEPT ![Len(es)].kids = Append(@, d)]

\* es with d listed under id.
Under(es, id, d) == [es EXCEPT ![id + 1].kids = Append(@, d)]

isUse(id) == Ent(id).kind \in {"SUSE", "LUSE"}
isDef(id) == Ent(id).kind \in DefRows

-----------------------------------------------------------------------------
\* -1 where no definition in the list is one of v.
get_def_id(v) ==
  LET hits == {k \in DOMAIN deflist : v \in Ent(deflist[k]).nodes}
  IN IF hits = {} THEN -1 ELSE deflist[Min(hits)]

\* The value and its targets: a DDef is built after its target.
Chain(v) == <<v>> \o Answers(svf.targets, v)

\* buildDef returns a null pointer, or follows one, for any other value.
Buildable(v) ==
  LET c == Chain(v) IN
  /\ svf.kind[c[Len(c)]] \in {"alloca", "global"}
  /\ \A k \in 1 .. Len(c) - 1 : svf.kind[c[k]] = "dyn"

buildDef(v) ==
  LET c == Chain(v)
      n == Len(c)
      base == svf.alloc[c[n]]
  IN [k \in 1 .. n |->
        LET u == c[n + 1 - k]
            behind == {c[j] : j \in n + 1 - k .. n}
        IN IF k > 1 THEN DDef(u, behind, base, nextId + k - 2)
           ELSE IF svf.kind[u] = "alloca" THEN ADef(u, behind, base)
           ELSE GDef(u, behind, base)]

\* Mutant: every look-up builds a definition of its own.
AlwaysBuildDef(v) == [id |-> nextId + Len(Chain(v)) - 1, new |-> buildDef(v)]

\* The identifier of v's definition, and the entities made for it.
getOrBuildDef(v) ==
  IF get_def_id(v) # -1 THEN [id |-> get_def_id(v), new |-> << >>]
  ELSE [id |-> nextId + Len(Chain(v)) - 1, new |-> buildDef(v)]

Known(v) == get_def_id(v) # -1 \/ Buildable(v)

\* A null pointer is dereferenced, or a value read that was never written.
Undefined == phase' = "undefined" /\ UNCHANGED svfVars

setMetadata(T, on, key, val) ==
  {t \in T : t.on # on \/ t.key # key} \cup {[on |-> on, key |-> key, val |-> val]}

Literal(id) == [id |-> id, param |-> ""]
Named(param) == [id |-> 0, param |-> param]

-----------------------------------------------------------------------------
(* The call sites of input and library functions. *)

inputFunctions == {"wrapper_gets", "wrapper_getc", "wrapper_fgets", "fgetc", "wrapper_fread",
                   "wrapper_scanf"}
libFunctions == {"scanf", "__isoc99_scanf", "memcpy", "strcpy"}

InTurn(in, v)      == [do |-> "in", in |-> in, val |-> v, use |-> -1, path |-> v]
StoreTurn(in, s, p) == [do |-> "store", in |-> in, val |-> s, use |-> -1, path |-> p]
TargetTurn(u, v, p) == [do |-> "target", in |-> -1, val |-> v, use |-> u, path |-> p]

(***************************************************************************)
(* The input calls whose parameter is set.  The others leave it unwritten; *)
(* for an answer of fgetc that is used but never stored, it is null.       *)
(***************************************************************************)
ParamFound(c) ==
  c.callee.name = "wrapper_scanf" \/ (c.callee.name = "fgetc" /\ c.id \in DOMAIN svf.got)

\* The parameter whose definitions an input call writes.
inputParam(c) == IF c.callee.name = "wrapper_scanf" THEN c.args[2] ELSE svf.got[c.id]

InputSite ==
  /\ phase = "sites" /\ work = << >>
  /\ \E c \in left :
       /\ c.callee.name \in inputFunctions
       /\ left' = left \ {c}
       /\ \/ /\ ParamFound(c)
             /\ ents' = Append(ents, In(c.id, << >>))
             /\ trace' = Append(trace, nextId)
             /\ work' = Loop(Answers(svf.defs, inputParam(c)), LAMBDA v : InTurn(nextId, v))
             /\ UNCHANGED <<phase, deflist, ids, tags, rows, valueMap>>
          \/ ~ParamFound(c) /\ Undefined
  /\ UNCHANGED passVars

libParam(c) == IF c.callee.name \in {"scanf", "__isoc99_scanf"} THEN c.args[2] ELSE c.args[1]

LibSite ==
  /\ phase = "sites" /\ work = << >>
  /\ \E c \in left :
       /\ c.callee.name \in libFunctions
       /\ left' = left \ {c}
       /\ ents' = ents \o <<In(c.id, <<nextId + 1>>), LUse(c.id)>>
       /\ trace' = Append(trace, nextId)
       /\ work' = Loop(Answers(svf.defs, libParam(c)), LAMBDA v : TargetTurn(nextId + 1, v, c.id))
  /\ UNCHANGED <<passVars, phase, deflist, ids, tags, rows, valueMap>>

\* The rest of an input call: one of the definitions of its parameter.
InputDef ==
  /\ work # << >> /\ Head(work).do = "in"
  /\ LET t == Head(work)
         v == t.val
         from == IF svf.kind[v] = "dyn" THEN Chain(v)[2] ELSE v
         def == getOrBuildDef(v)
     IN \/ /\ Known(v)
           /\ ents' = Under(ents \o def.new, t.in, def.id)
           /\ deflist' = Append(deflist, def.id)
           /\ work' = Loop(Answers(svf.stores, from), LAMBDA s : StoreTurn(t.in, s, s)) \o Tail(work)
           /\ UNCHANGED <<phase, trace, ids, tags, rows, valueMap>>
        \/ ~Known(v) /\ Undefined
  /\ UNCHANGED <<passVars, left>>

\* Mutant: only the first definition of a store is looked at.
StoreUseFirst ==
  /\ work # << >> /\ Head(work).do = "store"
  /\ LET t == Head(work) IN
       /\ ents' = Under(Append(ents, SUse(t.val)), t.in, nextId)
       /\ work' = (IF Answers(svf.storeDefs, t.val) = << >> THEN << >>
                   ELSE <<TargetTurn(nextId, svf.storeDefs[t.val][1], t.path)>>) \o Tail(work)
  /\ UNCHANGED <<passVars, phase, left, deflist, trace, ids, tags, rows, valueMap>>

\* One of the stores that the definition or a pointer reaches.
StoreUse ==
  /\ work # << >> /\ Head(work).do = "store"
  /\ LET t == Head(work) IN
       /\ ents' = Under(Append(ents, SUse(t.val)), t.in, nextId)
       /\ work' = Loop(Answers(svf.storeDefs, t.val), LAMBDA v : TargetTurn(nextId, v, t.path))
                  \o Tail(work)
  /\ UNCHANGED <<passVars, phase, left, deflist, trace, ids, tags, rows, valueMap>>

-----------------------------------------------------------------------------
(* analyzeGep, one turn for every path to the use. *)

PathTurn(u, v, p) == [do |-> "path", use |-> u, val |-> v, path |-> p]
analyzeGep(u, v, to) == Loop(Answers(svf.geps, <<v, to>>), LAMBDA p : PathTurn(u, v, p))

Varies == -1
isStruct(type) == type \in DOMAIN svf.fields

\* Mutant: the field's own size is counted in, too.
FieldOffsetPast(type, n) == MapThenSumSet(LAMBDA k : svf.size[svf.fields[type][k]], 1 .. n + 1)

\* The sizes of the fields before field n, counted from 0; no padding.
FieldOffset(type, n) == MapThenSumSet(LAMBDA k : svf.size[svf.fields[type][k]], 1 .. n)

\* What one more operand selects; nothing behind an operand that varies.
Operand(st, n) ==
  IF st.varies \/ ~isStruct(st.type) THEN st
  ELSE IF n = Varies THEN [st EXCEPT !.varies = TRUE]
  ELSE [type |-> svf.fields[st.type][n + 1],
        offset |-> st.offset + FieldOffset(st.type, n), varies |-> FALSE]

\* The field of v that a path selects, by its type and offset.
Selected(v, path) ==
  FoldLeft(LAMBDA st, gep : FoldLeft(Operand, [st EXCEPT !.varies = FALSE], gep),
           [type |-> svf.type[v], offset |-> 0, varies |-> FALSE], path)

\* Mutant: what a use writes is not kept in the list.
UseTargetUnlisted ==
  /\ work # << >> /\ Head(work).do = "target"
  /\ LET t == Head(work)
         v == t.val
         def == getOrBuildDef(v)
     IN \/ /\ v \in svf.struct
           /\ work' = analyzeGep(t.use, v, t.path) \o Tail(work)
           /\ UNCHANGED <<phase, ents, deflist, trace, ids, tags, rows, valueMap>>
        \/ /\ v \notin svf.struct /\ Known(v)
           /\ ents' = Under(ents \o def.new, t.use, def.id)
           /\ work' = Tail(work)
           /\ UNCHANGED <<phase, deflist, trace, ids, tags, rows, valueMap>>
        \/ v \notin svf.struct /\ ~Known(v) /\ Undefined
  /\ UNCHANGED <<passVars, left>>

\* One of the definitions a use may write.
UseTarget ==
  /\ work # << >> /\ Head(work).do = "target"
  /\ LET t == Head(work)
         v == t.val
         def == getOrBuildDef(v)
     IN \/ /\ v \in svf.struct
           /\ work' = analyzeGep(t.use, v, t.path) \o Tail(work)
           /\ UNCHANGED <<phase, ents, deflist, trace, ids, tags, rows, valueMap>>
        \/ /\ v \notin svf.struct /\ Known(v)
           /\ ents' = Under(ents \o def.new, t.use, def.id)
           /\ deflist' = Append(deflist, def.id)
           /\ work' = Tail(work)
           /\ UNCHANGED <<phase, trace, ids, tags, rows, valueMap>>
        \/ v \notin svf.struct /\ ~Known(v) /\ Undefined
  /\ UNCHANGED <<passVars, left>>

\* The fields of v that are already in the list, in its order.
FieldsOf(v, f) ==
  Kept(deflist, {k \in DOMAIN deflist :
                   LET e == Ent(deflist[k]) IN
                     e.kind = "SDEF" /\ e.val = v /\ e.type = f.type /\ e.offset = f.offset})

\* The structure itself stands for its first field.
NewField(v, f) ==
  SDef(v, IF f.type = svf.type[v] THEN svf.fields[f.type][1] ELSE f.type, f.offset)

\* es with the definitions s added to a use, if there is one.
Targets(es, u, s) == IF u = -1 THEN es ELSE [es EXCEPT ![u + 1].kids = @ \o s]

GepPath ==
  /\ work # << >> /\ Head(work).do = "path"
  /\ LET t == Head(work)
         field == Selected(t.val, t.path)
         found == FieldsOf(t.val, field)
         fields == IF found # << >> THEN found ELSE <<nextId>>
         new == IF found # << >> THEN ents ELSE Append(ents, NewField(t.val, field))
     IN /\ ents' = Targets(new, t.use, fields)
        /\ deflist' = IF found # << >> THEN deflist ELSE Append(deflist, nextId)
        /\ ids' = ids \o fields
  /\ work' = Tail(work)
  /\ UNCHANGED <<passVars, phase, left, trace, tags, rows, valueMap>>

-----------------------------------------------------------------------------
(* The definitions that callers pass to instrumented functions. *)

\* The first parameter of f that v may alias; 0 when there is none.
check_parameter_aliasing(v, f) ==
  LET hits == {k \in DOMAIN Params(f) : <<v, f.name, Params(f)[k].name>> \in svf.aliases}
  IN IF hits = {} THEN 0 ELSE Min(hits)

RefTurn(c, k) == [do |-> "ref", call |-> c, param |-> k]
RefIdTurn(c, k) == [do |-> "refid", call |-> c, param |-> k]

\* The pointer parameters of a call, in order; those without a value are skipped.
RefSite ==
  /\ phase = "refs" /\ work = << >>
  /\ \E c \in left :
       /\ left' = left \ {c}
       /\ work' = Loop(Kept([k \in DOMAIN c.args |-> k],
                            {k \in DOMAIN c.args : k \in Pointers(c.callee) /\ c.args[k] # Null}),
                       LAMBDA k : RefTurn(c, k))
  /\ UNCHANGED <<passVars, phase, ents, deflist, trace, ids, tags, rows, valueMap>>

zref(c, k) == <<"zref", Params(c.callee)[k].name>>

(***************************************************************************)
(* A parameter of the caller is handed on by name; otherwise the first     *)
(* definition that is no dominator is passed.  One that is made here goes  *)
(* to the trace, but a field of a structure only to the list.              *)
(***************************************************************************)
RefParam ==
  /\ work # << >> /\ Head(work).do = "ref"
  /\ LET c == Head(work).call
         k == Head(work).param
         a == check_parameter_aliasing(c.args[k], c.fn)
         defs == Answers(svf.defs, c.args[k])
         usable == {j \in DOMAIN defs : /\ defs[j] \notin svf.dominators
                                        /\ \/ defs[j] \in svf.struct \/ Known(defs[j])
                                           \/ svf.kind[defs[j]] = "dyn"}
         v == defs[Min(usable)]
         def == getOrBuildDef(v)
     IN \/ /\ a # 0
           /\ tags' = setMetadata(tags, c.id, zref(c, k), Named(Params(c.fn)[a].name))
           /\ work' = Tail(work)
           /\ UNCHANGED <<phase, ents, deflist, trace, ids, rows, valueMap>>
        \/ /\ a = 0 /\ usable = {}
           /\ work' = Tail(work)
           /\ UNCHANGED <<phase, ents, deflist, trace, ids, tags, rows, valueMap>>
        \/ /\ a = 0 /\ usable # {} /\ v \in svf.struct /\ get_def_id(v) = -1
           /\ work' = analyzeGep(-1, v, c.args[k]) \o <<RefIdTurn(c, k)>> \o Tail(work)
           /\ ids' = << >>
           /\ UNCHANGED <<phase, ents, deflist, trace, tags, rows, valueMap>>
        \/ a = 0 /\ usable # {} /\ v \notin svf.struct /\ ~Known(v) /\ Undefined
        \/ /\ a = 0 /\ usable # {} /\ (IF v \in svf.struct THEN get_def_id(v) # -1 ELSE Known(v))
           /\ ents' = ents \o def.new
           /\ trace' = IF def.new = << >> THEN trace ELSE Append(trace, def.id)
           /\ deflist' = IF def.new = << >> THEN deflist ELSE Append(deflist, def.id)
           /\ tags' = setMetadata(tags, c.id, zref(c, k), Literal(def.id))
           /\ work' = Tail(work)
           /\ UNCHANGED <<phase, ids, rows, valueMap>>
  /\ UNCHANGED <<passVars, left>>

\* The first field that analyzeGep answered with is passed.
RefField ==
  /\ work # << >> /\ Head(work).do = "refid"
  /\ LET t == Head(work) IN
       \/ /\ ids # << >>
          /\ tags' = setMetadata(tags, t.call.id, zref(t.call, t.param), Literal(ids[1]))
          /\ work' = Tail(work)
          /\ UNCHANGED <<phase, ents, deflist, trace, ids, rows, valueMap>>
       \/ ids = << >> /\ Undefined
  /\ UNCHANGED <<passVars, left>>

-----------------------------------------------------------------------------
(***************************************************************************)
(* A pointer made from an integer that an input call returned: the stores  *)
(* through it are uses of that input.  left holds the pairs of such an     *)
(* instruction and an In.                                                  *)
(***************************************************************************)
Pointed == {<<i.id, in>> : i \in {j \in code : j.op = "inttoptr"},
                           in \in {trace[k] : k \in DOMAIN trace}}

Matches(pair) ==
  /\ Ent(pair[2]).kind = "IN"
  /\ Ent(pair[2]).val \in {svf.callBlocks[pair[1]][k] : k \in DOMAIN Answers(svf.callBlocks, pair[1])}

IntToPtr ==
  /\ phase = "inttoptr" /\ work = << >>
  /\ \E pair \in left :
       /\ left' = left \ {pair}
       /\ work' = IF Matches(pair)
                    THEN Loop(Answers(svf.stores, pair[1]), LAMBDA s : StoreTurn(pair[2], s, pair[1]))
                    ELSE << >>
  /\ UNCHANGED <<passVars, phase, ents, deflist, trace, ids, tags, rows, valueMap>>

-----------------------------------------------------------------------------
(* Uses of a definition that the caller chose. *)

IuseTurn(u, v) == [do |-> "iuse", use |-> u, val |-> v]

InUses == {u \in UNION {{Ent(in).kids[k] : k \in DOMAIN Ent(in).kids} :
                          in \in {trace[k] : k \in DOMAIN trace}} : isUse(u)}

IndirectUse ==
  /\ phase = "iuses" /\ work = << >>
  /\ \E u \in left :
       LET dom == findFirstDominator(Ent(u).val) IN
       /\ left' = left \ {u}
       /\ \/ /\ dom = Null
             /\ UNCHANGED <<phase, svfVars>>
          \/ /\ dom # Null /\ dom \in svf.struct
             /\ work' = analyzeGep(-1, dom, Ent(u).val) \o <<IuseTurn(u, dom)>>
             /\ ids' = << >>
             /\ UNCHANGED <<phase, ents, deflist, trace, tags, rows, valueMap>>
          \/ /\ dom # Null /\ dom \notin svf.struct /\ get_def_id(dom) # -1
             /\ work' = <<IuseTurn(u, dom)>>
             /\ ids' = <<get_def_id(dom)>>
             /\ UNCHANGED <<phase, ents, deflist, trace, tags, rows, valueMap>>
          \/ dom # Null /\ dom \notin svf.struct /\ get_def_id(dom) = -1 /\ Undefined
  /\ UNCHANGED passVars

(***************************************************************************)
(* The parameter that is kept in the dominator: the first store into it,   *)
(* in an instrumented function, of something that may alias a parameter.   *)
(***************************************************************************)
IndirectParam ==
  /\ work # << >> /\ Head(work).do = "iuse"
  /\ LET t == Head(work)
         all == Answers(svf.argStores, t.val)
         fitting == {k \in DOMAIN all :
                       /\ Function(all[k].fn) \in instrumentedFunctions
                       /\ check_parameter_aliasing(all[k].src, Function(all[k].fn)) # 0}
         s == all[Min(fitting)]
         scalar == \E k \in DOMAIN ids : Ent(ids[k]).type \notin svf.aggregate
     IN tags' = IF scalar /\ fitting # {}
                  THEN setMetadata(tags, Ent(t.use).val, <<"ziuse">>,
                         Named(Params(Function(s.fn))[check_parameter_aliasing(s.src, Function(s.fn))].name))
                  ELSE tags
  /\ work' = Tail(work)
  /\ UNCHANGED <<passVars, phase, left, ents, deflist, trace, ids, rows, valueMap>>

-----------------------------------------------------------------------------
(* The exported file and the tags. *)

RowTurn(id, father, mapped) == [do |-> "row", id |-> id, father |-> father, mapped |-> mapped]

evaluateSizeDL(type) == svf.size[type]

getBytes(e) == IF e.kind = "DDEF" THEN -1 ELSE evaluateSizeDL(e.type)

\* Mutant: a DDef is written with the identifier of its target.
traceLineOfTarget(id, father) ==
  LET e == Ent(id)
      def == isDef(id)
  IN [id |-> IF e.kind = "DDEF" THEN e.kids[1] ELSE id, type |-> e.kind, father |-> father,
      cls |-> IF ~def THEN ""
              ELSE IF e.kind # "DDEF" /\ e.val \in svf.dominators THEN "DOMINATOR" ELSE "BASE",
      length |-> IF def THEN getBytes(e) ELSE 0,
      offset |-> e.offset]

traceLine(id, father) ==
  LET e == Ent(id)
      def == isDef(id)
  IN [id |-> id, type |-> e.kind, father |-> father,
      cls |-> IF ~def THEN ""
              ELSE IF e.kind # "DDEF" /\ e.val \in svf.dominators THEN "DOMINATOR" ELSE "BASE",
      length |-> IF def THEN getBytes(e) ELSE 0,
      offset |-> e.offset]

StartExport ==
  /\ phase = "iuses" /\ left = {} /\ work = << >>
  /\ work' = Loop(trace, LAMBDA id : RowTurn(id, -1, TRUE))
  /\ phase' = "export"
  /\ UNCHANGED <<passVars, left, ents, deflist, trace, ids, tags, rows, valueMap>>

(***************************************************************************)
(* A row, and then the rows under it.  The target of a DDef is exported    *)
(* with it but never tagged.                                               *)
(***************************************************************************)
ExportRow ==
  /\ phase = "export" /\ work # << >>
  /\ LET t == Head(work) IN
       /\ rows' = Append(rows, traceLine(t.id, t.father))
       /\ valueMap' = IF t.mapped /\ (isDef(t.id) \/ isUse(t.id)) THEN valueMap \cup {t.id}
                                                                  ELSE valueMap
       /\ work' = Loop(Ent(t.id).kids, LAMBDA d : RowTurn(d, t.id, Ent(t.id).kind # "DDEF"))
                  \o Tail(work)
  /\ UNCHANGED <<passVars, phase, left, ents, deflist, trace, ids, tags>>

tagKey(id) == IF isDef(id) THEN <<"zdef">>
              ELSE IF Ent(id).kind = "SUSE" THEN <<"zsuse">> ELSE <<"zluse">>

(***************************************************************************)
(* The map is in the order of the objects' addresses, and a later tag      *)
(* replaces an earlier one: of the entities with the same value and key    *)
(* any one may keep its tag.                                               *)
(***************************************************************************)
place(id) == <<Ent(id).val, tagKey(id)>>

\* The sets with one of the entities in the map for every place.
Survivors ==
  LET rivals == {id \in valueMap : \E k \in valueMap \ {id} : place(k) = place(id)}
      Chosen(S) == /\ \A id \in rivals : \E k \in S : place(k) = place(id)
                   /\ \A j, k \in S : place(j) = place(k) => j = k
  IN {(valueMap \ rivals) \cup S : S \in {T \in SUBSET rivals : Chosen(T)}}

TagValues ==
  /\ phase = "export" /\ work = << >>
  /\ \E last \in Survivors :
       tags' = tags \cup {[on |-> Ent(id).val, key |-> tagKey(id), val |-> Literal(id)] : id \in last}
  /\ phase' = "z_loops"
  /\ UNCHANGED <<passVars, left, ents, deflist, trace, work, ids, rows, valueMap>>

-----------------------------------------------------------------------------
DirectCalls == {i \in code : i.op = "call"}

\* From one loop of main to the next; the loops before the export visit a set.
Move(from, to, set) ==
  /\ phase = from /\ work = << >>
  /\ phase' = to
  /\ left' = set
  /\ UNCHANGED <<passVars, svfVars>>

SvfInit ==
  /\ ents = << >> /\ deflist = << >> /\ trace = << >> /\ work = << >> /\ ids = << >>
  /\ tags = {} /\ rows = << >> /\ valueMap = {}

SvfNext ==
  \/ InputSite \/ LibSite \/ InputDef \/ StoreUse \/ UseTarget \/ GepPath
  \/ RefSite \/ RefParam \/ RefField \/ IntToPtr \/ IndirectUse \/ IndirectParam
  \/ StartExport \/ ExportRow \/ TagValues

-----------------------------------------------------------------------------
\* Where f answers one of the values X, it answers with a list of values in V.
Lists(f, X, V) == \A x \in X \cap DOMAIN f : f[x] \in Seq(V)

(***************************************************************************)
(* What is taken from LLVM and SVF: calls have the arguments that their    *)
(* functions are declared with; the answers about values of a module are   *)
(* values of it; only a dyn value has a target, and the searches for it    *)
(* agree with each other; types and the paths to fields have sizes and     *)
(* offsets.                                                                *)
(***************************************************************************)
ASSUME AnswersAssumption ==
  \A p \in Programs :
    LET V == p.values
        calls == {i \in p.code : i.op = "call"}
        stores == {i.id : i \in {j \in p.code : j.op = "store"}}
        arguments == UNION {{i.args[k] : k \in DOMAIN i.args} : i \in calls}
        results == {svf.got[c] : c \in V \cap DOMAIN svf.got}
    IN /\ \A i \in p.code : i.id \in V
       /\ \A i \in calls :
            /\ {<<i.id[1], 1>>, <<i.id[1], 2>>} \subseteq V
            /\ i.callee.name \in GetsNames \cup {"memcpy", "strcpy"} => Len(i.args) >= 1
            /\ i.callee.name = "wrapper_scanf" => Len(i.args) >= 2
            /\ i.callee.name \in ScanfNames /\ i.fn.name \in {"wrapper_scanf", "wrapper_gets"} =>
                 Len(i.args) >= 2
       /\ Lists(svf.targets, V, V) /\ Lists(svf.storeDefs, V, V) /\ Lists(svf.stores, V, stores)
       /\ Lists(svf.defs, arguments \cup results, V)
       /\ \A u \in V : findFirstDominator(u) \in V \cup {Null}
       /\ \A v \in V : /\ \A k \in 1 .. Len(Chain(v)) - 1 : Len(Chain(Chain(v)[k])) > 1
                       /\ svf.kind[v] # "dyn" => Answers(svf.targets, v) = << >>
                       /\ Buildable(v) => svf.size[svf.alloc[Chain(v)[Len(Chain(v))]]] \in Nat
       /\ Lists(svf.argStores, V, [fn : STRING, src : Value])
       /\ \A g \in DOMAIN svf.geps : g[1] \in V \cap svf.struct =>
            /\ svf.geps[g] \in Seq(Seq(Seq(Int)))
            /\ \A k \in DOMAIN svf.geps[g] :
                 LET e == NewField(g[1], Selected(g[1], svf.geps[g][k]))
                 IN e.offset \in Nat /\ svf.size[e.type] \in Nat
=============================================================================
