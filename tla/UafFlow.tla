------------------------------- MODULE UafFlow ------------------------------
(***************************************************************************)
(* svf-uaf: the calls that allocate and free, the control-flow graph       *)
(* carved down to them, and the flows malloc, free, malloc found in it.    *)
(*                                                                         *)
(* SVF provides the program: the interprocedural control-flow graph, the   *)
(* value flow and the call sites.  The loops that search a graph are those *)
(* of GraphSearch; here they are what GraphSearch shows them to compute.   *)
(***************************************************************************)
EXTENDS Integers, Sequences, FiniteSets

CONSTANTS
  Node,      \* nodes of the control-flow graph
  Val,       \* values of the program
  Obj,       \* objects, as the PAG names them
  Fun,       \* functions
  NoNode,    \* the null pointer
  Programs

(***************************************************************************)
(* A call site: the function it calls (when that is known), the values it  *)
(* passes and returns, the function it is in.                              *)
(***************************************************************************)
Calls == {"free", "alloc", "other", "indirect"}
Site == [node : Node, call : Calls, args : Seq(Val), res : Val, caller : Fun]

(***************************************************************************)
(* addr and flow are the PAG, place the control-flow node of the first     *)
(* edge that leaves an object (none for a global), namedMain the functions *)
(* whose name contains "main".  A call site has a control-flow node of its *)
(* own, and a PAG has finitely many objects.                               *)
(***************************************************************************)
ASSUME ProgramAssumption ==
  /\ NoNode \notin Node /\ IsFiniteSet(Obj)
  /\ \A p \in Programs :
       /\ p.icfg \subseteq Node \X Node
       /\ p.sites \subseteq Site
       /\ \A c, d \in p.sites : c.node = d.node => c = d
       /\ p.place \in [Obj -> Node \cup {NoNode}]
       /\ p.addr \subseteq Obj \X Val
       /\ p.flow \subseteq Val \X Val
       /\ p.entry \in [Fun -> Node]
       /\ p.namedMain \subseteq Fun

VARIABLES
  prog, phase,
  left,                  \* call sites still to be looked at
  freeList, allocList,   \* the calls found, each with the objects it may mean;
                         \* their order shows only in the log, so they are sets
  mainNode,
  g,                     \* the carved graph
  MFFlow,
  totalPathCounter,
  rows                   \* nodes written to the CSV file

vars == <<prog, phase, left, freeList, allocList, mainNode, g, MFFlow,
          totalPathCounter, rows>>

\* The nodes a path from a leads to: the smallest set closed under the edges E.
Closed(S, E) == \A e \in E : e[1] \in S => e[2] \in S
Reach(V, E, a) == {n \in V : \A S \in SUBSET V : a \in S /\ Closed(S, E) => n \in S}

\* getDefNodes: back along the flow, and the objects whose address arrives there.
getDefNodes(v) ==
  LET behind == Reach(Val, {<<e[2], e[1]>> : e \in prog.flow}, v)
  IN {o \in Obj : \E u \in behind : <<o, u>> \in prog.addr}

\* An entry of freeList (one for every argument) or of allocList.
CallTo(n, i, v) == [node |-> n, arg |-> i, defs |-> getDefNodes(v)]

getICFGNodeFromPAGNode(o) == prog.place[o]

Init ==
  /\ prog \in Programs
  /\ phase = "sites"
  /\ left = prog.sites
  /\ freeList = {} /\ allocList = {}
  /\ mainNode = NoNode
  /\ g = {}
  /\ MFFlow = {}
  /\ totalPathCounter = 0
  /\ rows = {}

\* Mutant: the search for main keeps the node of the call, not the entry of its caller.
ScanSiteFromCall ==
  /\ phase = "sites"
  /\ \E c \in left :
       /\ left' = left \ {c}
       /\ freeList' = IF c.call = "free"
                        THEN freeList \cup {CallTo(c.node, i, c.args[i]) : i \in DOMAIN c.args}
                        ELSE freeList
       /\ allocList' = IF c.call = "alloc" THEN allocList \cup {CallTo(c.node, 0, c.res)}
                                           ELSE allocList
       /\ mainNode' = IF c.call # "indirect" /\ c.caller \in prog.namedMain
                        THEN c.node ELSE mainNode
  /\ UNCHANGED <<prog, phase, g, MFFlow, totalPathCounter, rows>>

(***************************************************************************)
(* One turn of the loop over the call sites, which come in any order.  A   *)
(* call through a pointer is skipped altogether, and the function that     *)
(* contains "main" in its name and is met last gives mainNode.             *)
(***************************************************************************)
ScanSite ==
  /\ phase = "sites"
  /\ \E c \in left :
       /\ left' = left \ {c}
       /\ freeList' = IF c.call = "free"
                        THEN freeList \cup {CallTo(c.node, i, c.args[i]) : i \in DOMAIN c.args}
                        ELSE freeList
       /\ allocList' = IF c.call = "alloc" THEN allocList \cup {CallTo(c.node, 0, c.res)}
                                           ELSE allocList
       /\ mainNode' = IF c.call # "indirect" /\ c.caller \in prog.namedMain
                        THEN prog.entry[c.caller] ELSE mainNode
  /\ UNCHANGED <<prog, phase, g, MFFlow, totalPathCounter, rows>>

\* allocAndFreeAndDefNodes: the calls and the places of their objects.
Interesting(calls) ==
  {c.node : c \in calls}
  \cup ({getICFGNodeFromPAGNode(o) : o \in UNION {c.defs : c \in calls}} \ {NoNode})

\* existPathWithoutForbiddenNodes
existPathWithoutForbiddenNodes(E, a, b, forbidden) ==
  b \in Reach(Node, {e \in E : e[2] \notin forbidden}, a)

\* Mutant: the ends of the path stay among the forbidden nodes.
CarvedWithEnds(E, X) ==
  {e \in X \X X : existPathWithoutForbiddenNodes(E, e[1], e[2], X \ {e[1]})}

Carved(E, X) ==
  {e \in X \X X : existPathWithoutForbiddenNodes(E, e[1], e[2], X \ {e[1], e[2]})}

createAllocFreeFlowGraph ==
  /\ phase = "sites" /\ left = {}
  /\ g' = Carved(prog.icfg, Interesting(freeList \cup allocList))
  /\ phase' = "match"
  /\ UNCHANGED <<prog, left, freeList, allocList, mainNode, MFFlow, totalPathCounter, rows>>

-----------------------------------------------------------------------------
(***************************************************************************)
(* A path couples a call of the alloc list with one of the free list; it   *)
(* is made once for every object the two have in common.                   *)
(***************************************************************************)
MFPath(free, alloc, o) == [free |-> free, alloc |-> alloc, def |-> o, lastAlloc |-> {}]

\* Mutant: the match stops at the first object in common.
MFPathsFirst(allocs, frees) ==
  {MFPath(c[2], c[1], CHOOSE o \in Obj : o \in c[2].defs \cap c[1].defs) :
     c \in {c \in allocs \X frees : c[1].defs \cap c[2].defs # {}}}

MFPaths(allocs, frees) ==
  UNION {UNION {{MFPath(f, a, o) : o \in f.defs \cap a.defs} : a \in allocs} : f \in frees}

\* main passes the lists in the other order than initMFFlow declares them: what
\* is called free from here on is an allocation.
initMFFlow ==
  /\ phase = "match"
  /\ MFFlow' = MFPaths(freeList, allocList)
  /\ phase' = "resolve"
  /\ UNCHANGED <<prog, left, freeList, allocList, mainNode, g, totalPathCounter, rows>>

\* Mutant: only the successors of a node count.
hasPathDirect(a, b) == <<a, b>> \in g

\* hasPath, on the carved graph
hasPath(a, b) == b \in Reach(Node, g, a)

addLastAlloc(p, A) == [p EXCEPT !.lastAlloc = A]

resolveMFMFlow ==
  /\ phase = "resolve"
  /\ MFFlow' = {addLastAlloc(p, {a \in allocList : hasPath(p.free.node, a.node)}) : p \in MFFlow}
  /\ phase' = "count"
  /\ UNCHANGED <<prog, left, freeList, allocList, mainNode, g, totalPathCounter, rows>>

\* getMFMPathCounter, summed over the paths
countPaths ==
  /\ phase = "count"
  /\ totalPathCounter' = Cardinality(UNION {{<<p, a>> : a \in p.lastAlloc} : p \in MFFlow})
  /\ phase' = "write"
  /\ UNCHANGED <<prog, left, freeList, allocList, mainNode, g, MFFlow, rows>>

(***************************************************************************)
(* traverseAndWriteToCSV from mainNode.  Where no call gave it a value it  *)
(* is an uninitialised pointer, and nothing that follows is defined.       *)
(***************************************************************************)
writeCSV ==
  /\ phase = "write"
  /\ \/ mainNode # NoNode /\ rows' = Reach(Node, prog.icfg, mainNode) /\ phase' = "done"
     \/ mainNode = NoNode /\ rows' = rows /\ phase' = "undefined"
  /\ UNCHANGED <<prog, left, freeList, allocList, mainNode, g, MFFlow, totalPathCounter>>

Next == ScanSite \/ createAllocFreeFlowGraph \/ initMFFlow \/ resolveMFMFlow
        \/ countPaths \/ writeCSV

Spec == Init /\ [][Next]_vars

-----------------------------------------------------------------------------
Call == [node : Node, arg : Nat, defs : SUBSET Obj]
Path == [free : Call, alloc : Call, def : Obj, lastAlloc : SUBSET Call]

TypeOK ==
  /\ prog \in Programs
  /\ phase \in {"sites", "match", "resolve", "count", "write", "done", "undefined"}
  /\ left \subseteq prog.sites
  /\ freeList \subseteq Call /\ allocList \subseteq Call
  /\ mainNode \in Node \cup {NoNode}
  /\ g \subseteq Node \X Node
  /\ MFFlow \subseteq Path
  /\ rows \subseteq Node

\* The nodes the graph is carved down to.
Kept == Interesting(freeList \cup allocList)

(***************************************************************************)
(* Carving loses nothing: from one of the calls and objects another can be *)
(* reached in the carved graph exactly when it can in the program, though  *)
(* each edge stands for paths that avoid all the others.                   *)
(***************************************************************************)
CarvedReach ==
  phase # "sites" =>
    \A a, b \in Kept : b \in Reach(Node, g, a) <=> b \in Reach(Node, prog.icfg, a)

(***************************************************************************)
(* After the resolution a pair lists the allocations that the program can  *)
(* reach from the allocation of the pair, and only those.  With the lists  *)
(* handed over the other way round (svf-uaf.cpp:1024), it is the           *)
(* allocation that stands where initMFFlow and resolveMFMFlow say free,    *)
(* although the line that resolveMFMFlow prints for each (svf-uaf.cpp:698) *)
(* announces an allocation behind the free.                                *)
(***************************************************************************)
LastAllocsFollowAlloc ==
  phase \in {"count", "write", "done", "undefined"} =>
    \A p \in MFFlow :
      /\ p.free \in allocList
      /\ p.lastAlloc = {a \in allocList : a.node \in Reach(Node, prog.icfg, p.free.node)}

(***************************************************************************)
(* An allocation and a free that may mean the same object are coupled,     *)
(* once for each such object, whatever the order of the call sites.        *)
(***************************************************************************)
PairsCoupled ==
  phase \in {"resolve", "count", "write", "done", "undefined"} =>
    \A c, d \in prog.sites : c.call = "alloc" /\ d.call = "free" =>
      \A i \in DOMAIN d.args :
        Cardinality({p \in MFFlow : /\ {p.free.node, p.alloc.node} = {c.node, d.node}
                                     /\ i \in {p.free.arg, p.alloc.arg}})
          = Cardinality(getDefNodes(c.res) \cap getDefNodes(d.args[i]))

(***************************************************************************)
(* The CSV file describes what main reaches, when main makes a direct call *)
(* and no other caller's name contains "main".                             *)
(***************************************************************************)
MainIsWritten ==
  phase = "done" =>
    \A f \in prog.namedMain :
      (\A c \in prog.sites : c.caller \in prog.namedMain => c.caller = f)
        => rows = Reach(Node, prog.icfg, prog.entry[f])
=============================================================================
