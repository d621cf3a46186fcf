--------------------------- MODULE UafFlowProofs ----------------------------
(***************************************************************************)
(* The carved graph of svf-uaf and what is read off it, for every program. *)
(***************************************************************************)
EXTENDS UafFlow, FiniteSetTheorems, FunctionTheorems, TLAPS

-----------------------------------------------------------------------------
(* Reachability by closed sets. *)

LEMMA ReachClosed ==
  ASSUME NEW V, NEW E \in SUBSET (V \X V), NEW a \in V
  PROVE  a \in Reach(V, E, a) /\ Closed(Reach(V, E, a), E) /\ Reach(V, E, a) \subseteq V
<1>1. a \in Reach(V, E, a) /\ Reach(V, E, a) \subseteq V
  BY DEF Reach
<1>2. ASSUME NEW e \in E, e[1] \in Reach(V, E, a) PROVE e[2] \in Reach(V, E, a)
  <2>1. e[2] \in V
    OBVIOUS
  <2>2. ASSUME NEW S \in SUBSET V, a \in S, Closed(S, E) PROVE e[2] \in S
    BY <1>2, <2>2 DEF Reach, Closed
  <2> QED
    BY <2>1, <2>2 DEF Reach
<1> QED
  BY <1>1, <1>2 DEF Closed

LEMMA ReachLeast ==
  ASSUME NEW V, NEW E, NEW a, NEW S \in SUBSET V, a \in S, Closed(S, E)
  PROVE  Reach(V, E, a) \subseteq S
  BY DEF Reach

\* With fewer edges less is reached.
LEMMA ReachMonotone ==
  ASSUME NEW V, NEW E \in SUBSET (V \X V), NEW D \in SUBSET E, NEW a \in V
  PROVE  Reach(V, D, a) \subseteq Reach(V, E, a)
<1>1. a \in Reach(V, E, a) /\ Closed(Reach(V, E, a), D) /\ Reach(V, E, a) \in SUBSET V
  BY ReachClosed DEF Closed
<1> QED
  BY <1>1, ReachLeast

\* From a node that is reached nothing new is reached.
LEMMA ReachTransitive ==
  ASSUME NEW V, NEW E \in SUBSET (V \X V), NEW a \in V, NEW b \in Reach(V, E, a)
  PROVE  Reach(V, E, b) \subseteq Reach(V, E, a)
<1>1. Closed(Reach(V, E, a), E) /\ Reach(V, E, a) \in SUBSET V
  BY ReachClosed
<1> QED
  BY <1>1, ReachLeast

-----------------------------------------------------------------------------
(***************************************************************************)
(* Carving.  Every edge of the carved graph is a path of the program.  For *)
(* the converse let S be closed in the carved graph, and T what paths lead *)
(* to from S without entering another node of X: S and T together are      *)
(* closed in the program, because the first node of X on a path that       *)
(* leaves T is the end of a carved edge.                                   *)
(***************************************************************************)
Away(E, X) == {e \in E : e[2] \notin X}

LEMMA CarvedEdgesArePaths ==
  ASSUME NEW E \in SUBSET (Node \X Node), NEW X \in SUBSET Node, NEW a \in X
  PROVE  Reach(Node, Carved(E, X), a) \subseteq Reach(Node, E, a)
<1> DEFINE R == Reach(Node, E, a)
<1>1. a \in R /\ R \in SUBSET Node
  BY ReachClosed
<1>2. ASSUME NEW e \in Carved(E, X), e[1] \in R PROVE e[2] \in R
  <2> DEFINE D == {d \in E : d[2] \notin X \ {e[1], e[2]}}
  <2>1. e[1] \in Node /\ e[2] \in Reach(Node, D, e[1])
    BY DEF Carved, existPathWithoutForbiddenNodes
  <2>2. Reach(Node, D, e[1]) \subseteq Reach(Node, E, e[1])
    BY <2>1, ReachMonotone
  <2>3. Reach(Node, E, e[1]) \subseteq R
    BY <1>2, ReachTransitive
  <2> QED
    BY <2>1, <2>2, <2>3
<1>3. Closed(R, Carved(E, X))
  BY <1>2 DEF Closed
<1> QED
  BY <1>1, <1>3, ReachLeast

LEMMA PathsAreCarved ==
  ASSUME NEW E \in SUBSET (Node \X Node), NEW X \in SUBSET Node, NEW a \in X
  PROVE  Reach(Node, E, a) \cap X \subseteq Reach(Node, Carved(E, X), a)
<1> SUFFICES ASSUME NEW U \in SUBSET Node, a \in U, Closed(U, Carved(E, X)),
                    NEW b \in Reach(Node, E, a), b \in X
             PROVE  b \in U
  BY DEF Reach
<1> DEFINE S == U \cap X
           W(x) == Reach(Node, Away(E, X), x)
           T == UNION {W(x) : x \in S}
<1>1. Away(E, X) \in SUBSET (Node \X Node) /\ Away(E, X) \in SUBSET E
  BY DEF Away
<1>2. ASSUME NEW x \in S PROVE x \in W(x) /\ Closed(W(x), Away(E, X)) /\ W(x) \subseteq Node
  BY <1>1, ReachClosed
<1>3. ASSUME NEW x \in S, NEW m \in W(x), m \in X PROVE m = x
  <2> DEFINE Q == {x} \cup (Node \ X)
  <2>1. x \in Q /\ Q \in SUBSET Node /\ Closed(Q, Away(E, X))
    BY <1>1 DEF Closed, Away
  <2>2. W(x) \subseteq Q
    BY <2>1, ReachLeast
  <2> QED
    BY <1>3, <2>2
<1>4. ASSUME NEW e \in E, e[1] \in T PROVE e[2] \in T
  <2>1. PICK x \in S : e[1] \in W(x)
    BY <1>4
  <2>2. CASE e[2] \notin X
    <3>1. e \in Away(E, X)
      BY <2>2 DEF Away
    <3> QED
      BY <1>2, <2>1, <3>1 DEF Closed
  <2>3. CASE e[2] \in X
    <3> DEFINE c == <<x, e[2]>>
               D == {d \in E : d[2] \notin X \ {x, e[2]}}
    <3>1. D \in SUBSET (Node \X Node) /\ Away(E, X) \in SUBSET D /\ e \in D /\ x \in Node
      BY DEF Away
    <3>2. W(x) \subseteq Reach(Node, D, x)
      BY <3>1, ReachMonotone
    <3>3. Closed(Reach(Node, D, x), D)
      BY <3>1, ReachClosed
    <3>4. e[2] \in Reach(Node, D, x)
      BY <2>1, <3>1, <3>2, <3>3 DEF Closed
    <3>5. c \in X \X X /\ c[1] = x /\ c[2] = e[2]
      BY <2>3
    <3>6. existPathWithoutForbiddenNodes(E, x, e[2], X \ {x, e[2]})
      BY <3>4 DEF existPathWithoutForbiddenNodes
    <3> HIDE DEF c
    <3>7. c \in Carved(E, X)
      BY <3>5, <3>6 DEF Carved
    <3>8. e[2] \in S
      BY <2>3, <3>5, <3>7 DEF Closed
    <3> QED
      BY <1>2, <3>8
  <2> QED
    BY <2>2, <2>3
<1>5. a \in T /\ T \in SUBSET Node
  BY <1>2
<1>6. Closed(T, E)
  BY <1>4 DEF Closed
<1>7. b \in T
  BY <1>5, <1>6, ReachLeast
<1> QED
  BY <1>3, <1>7

LEMMA CarvingKeepsReach ==
  ASSUME NEW E \in SUBSET (Node \X Node), NEW X \in SUBSET Node, NEW a \in X, NEW b \in X
  PROVE  b \in Reach(Node, Carved(E, X), a) <=> b \in Reach(Node, E, a)
  BY CarvedEdgesArePaths, PathsAreCarved

-----------------------------------------------------------------------------
(* The state machine. *)

Lists == <<prog, freeList, allocList>>

LEMMA CallTyped ==
  ASSUME prog \in Programs, NEW n \in Node, NEW i \in Nat, NEW v
  PROVE  CallTo(n, i, v) \in Call
  BY DEF CallTo, Call, getDefNodes

\* Reading calls off the site being scanned.
LEMMA SiteTyped ==
  ASSUME prog \in Programs, NEW c \in prog.sites
  PROVE  /\ c.node \in Node /\ c.caller \in Fun
         /\ \A i \in DOMAIN c.args : i \in Nat
         /\ prog.entry[c.caller] \in Node
<1>1. c \in Site /\ prog.entry \in [Fun -> Node]
  BY ProgramAssumption
<1>2. c.node \in Node /\ c.args \in Seq(Val) /\ c.caller \in Fun
  BY <1>1 DEF Site
<1> QED
  BY <1>1, <1>2

LEMMA KeptTyped ==
  ASSUME prog \in Programs, freeList \subseteq Call, allocList \subseteq Call
  PROVE  /\ Kept \in SUBSET Node
         /\ prog.icfg \in SUBSET (Node \X Node)
         /\ \A c \in freeList \cup allocList : c.node \in Kept
<1>1. prog.place \in [Obj -> Node \cup {NoNode}] /\ prog.icfg \in SUBSET (Node \X Node)
  BY ProgramAssumption
<1>2. \A c \in freeList \cup allocList : c.node \in Node /\ c.defs \subseteq Obj
  BY DEF Call
<1> QED
  BY <1>1, <1>2 DEF Kept, Interesting, getICFGNodeFromPAGNode

LEMMA KeptUnchanged ==
  ASSUME UNCHANGED Lists
  PROVE  Kept' = Kept
  BY DEF Kept, Interesting, getICFGNodeFromPAGNode, Lists

LEMMA UafTypeStep == TypeOK /\ [Next]_vars => TypeOK'
<1> SUFFICES ASSUME TypeOK, [Next]_vars PROVE TypeOK'
  OBVIOUS
<1>1. CASE ScanSite
  <2>1. PICK c \in left :
           /\ left' = left \ {c}
           /\ freeList' = IF c.call = "free"
                            THEN freeList \cup {CallTo(c.node, i, c.args[i]) : i \in DOMAIN c.args}
                            ELSE freeList
           /\ allocList' = IF c.call = "alloc" THEN allocList \cup {CallTo(c.node, 0, c.res)}
                                               ELSE allocList
           /\ mainNode' = IF c.call # "indirect" /\ c.caller \in prog.namedMain
                            THEN prog.entry[c.caller] ELSE mainNode
    BY <1>1 DEF ScanSite
  <2>2. prog \in Programs /\ c \in prog.sites
    BY DEF TypeOK
  <2>3. c.node \in Node /\ prog.entry[c.caller] \in Node /\ \A i \in DOMAIN c.args : i \in Nat
    BY <2>2, SiteTyped
  <2>4. freeList' \subseteq Call
    BY <2>1, <2>2, <2>3, CallTyped DEF TypeOK
  <2>5. allocList' \subseteq Call
    BY <2>1, <2>2, <2>3, CallTyped DEF TypeOK
  <2> QED
    BY <1>1, <2>1, <2>3, <2>4, <2>5 DEF ScanSite, TypeOK
<1>2. CASE createAllocFreeFlowGraph
  <2>1. Kept \in SUBSET Node
    BY KeptTyped DEF TypeOK
  <2>2. g' \subseteq Node \X Node
    BY <1>2, <2>1 DEF createAllocFreeFlowGraph, Carved, Kept
  <2> QED
    BY <1>2, <2>2 DEF createAllocFreeFlowGraph, TypeOK
<1>3. CASE initMFFlow
  <2>1. ASSUME NEW p \in MFPaths(freeList, allocList) PROVE p \in Path
    <3>1. PICK f \in allocList, a \in freeList : \E o \in f.defs \cap a.defs : p = MFPath(f, a, o)
      BY DEF MFPaths
    <3>2. PICK o \in f.defs \cap a.defs : p = MFPath(f, a, o)
      BY <3>1
    <3>3. f \in Call /\ a \in Call /\ o \in Obj
      BY <3>2 DEF TypeOK, Call
    <3> QED
      BY <3>2, <3>3 DEF MFPath, Path
  <2> QED
    BY <1>3, <2>1 DEF initMFFlow, TypeOK
<1>4. CASE resolveMFMFlow
  <2>1. ASSUME NEW p \in MFFlow, NEW A \in SUBSET allocList PROVE addLastAlloc(p, A) \in Path
    BY DEF addLastAlloc, Path, TypeOK
  <2>2. MFFlow' \subseteq Path
    BY <1>4, <2>1 DEF resolveMFMFlow
  <2> QED
    BY <1>4, <2>2 DEF resolveMFMFlow, TypeOK
<1>5. CASE countPaths
  BY <1>5 DEF countPaths, TypeOK
<1>6. CASE writeCSV
  <2>1. rows' \subseteq Node
    BY <1>6 DEF writeCSV, TypeOK, Reach
  <2> QED
    BY <1>6, <2>1 DEF writeCSV, TypeOK
<1>7. CASE UNCHANGED vars
  BY <1>7 DEF vars, TypeOK
<1> QED
  BY <1>1, <1>2, <1>3, <1>4, <1>5, <1>6, <1>7 DEF Next

(***************************************************************************)
(* The inductive invariant: the carved graph is the one of the lists, the  *)
(* paths couple calls of the lists, and once resolved a path lists what    *)
(* the carved graph reaches.                                               *)
(***************************************************************************)
Resolved == {"count", "write", "done", "undefined"}

UafInv ==
  /\ TypeOK
  /\ phase # "sites" => g = Carved(prog.icfg, Kept)
  /\ phase \in {"sites", "match"} => MFFlow = {}
  /\ \A p \in MFFlow : p.free \in allocList
  /\ phase \in Resolved =>
       \A p \in MFFlow : p.lastAlloc = {a \in allocList : hasPath(p.free.node, a.node)}

LEMMA UafInvStep == UafInv /\ [Next]_vars => UafInv'
<1> SUFFICES ASSUME UafInv, [Next]_vars PROVE UafInv'
  OBVIOUS
<1>0. TypeOK /\ TypeOK'
  BY UafTypeStep DEF UafInv
<1>1. CASE ScanSite
  BY <1>0, <1>1 DEF ScanSite, UafInv, Resolved
<1>2. CASE createAllocFreeFlowGraph
  <2>1. Kept' = Kept
    BY <1>2, KeptUnchanged DEF createAllocFreeFlowGraph, Lists
  <2> QED
    BY <1>0, <1>2, <2>1 DEF createAllocFreeFlowGraph, UafInv, Resolved, Kept
<1>3. CASE initMFFlow
  <2>1. Kept' = Kept
    BY <1>3, KeptUnchanged DEF initMFFlow, Lists
  <2>2. ASSUME NEW p \in MFFlow' PROVE p.free \in allocList
    <3>1. PICK f \in allocList, a \in freeList : \E o \in f.defs \cap a.defs : p = MFPath(f, a, o)
      BY <1>3 DEF initMFFlow, MFPaths
    <3> QED
      BY <3>1 DEF MFPath
  <2> QED
    BY <1>0, <1>3, <2>1, <2>2 DEF initMFFlow, UafInv, Resolved
<1>4. CASE resolveMFMFlow
  <2>1. Kept' = Kept
    BY <1>4, KeptUnchanged DEF resolveMFMFlow, Lists
  <2>2. \A a, b : hasPath(a, b)' <=> hasPath(a, b)
    BY <1>4 DEF resolveMFMFlow, hasPath
  <2>3. ASSUME NEW q \in MFFlow'
        PROVE  /\ q.free \in allocList
               /\ q.lastAlloc = {a \in allocList : hasPath(q.free.node, a.node)}
    <3>1. PICK p \in MFFlow :
             q = addLastAlloc(p, {a \in allocList : hasPath(p.free.node, a.node)})
      BY <1>4 DEF resolveMFMFlow
    <3>2. p \in Path /\ p.free \in allocList
      BY <1>0 DEF TypeOK, UafInv
    <3>3. q.free = p.free /\ q.lastAlloc = {a \in allocList : hasPath(p.free.node, a.node)}
      BY <3>1, <3>2 DEF addLastAlloc, Path
    <3> QED
      BY <3>2, <3>3
  <2>4. phase' = "count" /\ UNCHANGED <<prog, freeList, allocList, g>> /\ phase = "resolve"
    BY <1>4 DEF resolveMFMFlow
  <2>5. g' = Carved(prog.icfg, Kept)'
    BY <2>1, <2>4 DEF UafInv
  <2>6. \A p \in MFFlow' : p.lastAlloc = {a \in allocList : hasPath(p.free.node, a.node)}'
    BY <2>2, <2>3, <2>4
  <2> QED
    BY <1>0, <2>3, <2>4, <2>5, <2>6 DEF UafInv
<1>5. CASE countPaths \/ writeCSV \/ UNCHANGED vars
  <2>1. /\ UNCHANGED <<prog, freeList, allocList, g, MFFlow>>
        /\ phase' # phase => phase \in Resolved /\ phase' \in Resolved
    BY <1>5 DEF countPaths, writeCSV, vars, Resolved
  <2>2. Kept' = Kept
    BY <2>1, KeptUnchanged DEF Lists
  <2>3. \A a, b : hasPath(a, b)' <=> hasPath(a, b)
    BY <2>1 DEF hasPath
  <2>4. CASE phase' = phase
    BY <1>0, <2>1, <2>2, <2>3, <2>4 DEF UafInv
  <2>5. CASE phase' # phase
    BY <1>0, <2>1, <2>2, <2>3, <2>5 DEF UafInv, Resolved
  <2> QED
    BY <2>4, <2>5
<1> QED
  BY <1>1, <1>2, <1>3, <1>4, <1>5 DEF Next

LEMMA UafInductive == Spec => []UafInv
<1>1. Init => UafInv
  BY DEF Init, UafInv, TypeOK, Resolved
<1> QED
  BY <1>1, UafInvStep, PTL DEF Spec

LEMMA CarvedReachHolds == UafInv => CarvedReach
<1> SUFFICES ASSUME UafInv, phase # "sites", NEW a \in Kept, NEW b \in Kept
             PROVE  b \in Reach(Node, g, a) <=> b \in Reach(Node, prog.icfg, a)
  BY DEF CarvedReach
<1>1. Kept \in SUBSET Node /\ prog.icfg \in SUBSET (Node \X Node)
  BY KeptTyped DEF UafInv, TypeOK
<1>2. g = Carved(prog.icfg, Kept)
  BY DEF UafInv
<1> QED
  BY <1>1, <1>2, CarvingKeepsReach

(***************************************************************************)
(* createAllocFreeFlowGraph of svf-uaf, for every program: the carved      *)
(* graph connects two calls or objects exactly when the program does.      *)
(***************************************************************************)
THEOREM CarvedGraphKeepsReach == Spec => []CarvedReach
  BY UafInductive, CarvedReachHolds, PTL

(***************************************************************************)
(* resolveMFMFlow, for every program: a pair lists exactly the allocations *)
(* that the program can reach from the allocation of the pair.             *)
(***************************************************************************)
THEOREM LastAllocsExact == Spec => []LastAllocsFollowAlloc
<1>1. UafInv => LastAllocsFollowAlloc
  <2> SUFFICES ASSUME UafInv, phase \in Resolved, NEW p \in MFFlow
               PROVE  /\ p.free \in allocList
                      /\ p.lastAlloc
                           = {a \in allocList : a.node \in Reach(Node, prog.icfg, p.free.node)}
    BY DEF LastAllocsFollowAlloc, Resolved
  <2>1. p.lastAlloc = {a \in allocList : hasPath(p.free.node, a.node)}
    BY DEF UafInv
  <2>2. \A c \in freeList \cup allocList : c.node \in Kept
    BY KeptTyped DEF UafInv, TypeOK
  <2>3. p.free \in allocList
    BY DEF UafInv
  <2>4. phase # "sites"
    BY DEF Resolved
  <2>5. \A a \in allocList :
           hasPath(p.free.node, a.node) <=> a.node \in Reach(Node, prog.icfg, p.free.node)
    BY <2>2, <2>3, <2>4, CarvedReachHolds DEF CarvedReach, hasPath
  <2> QED
    BY <2>1, <2>3, <2>5
<1> QED
  BY <1>1, UafInductive, PTL

-----------------------------------------------------------------------------
(***************************************************************************)
(* What the scan of the call sites leaves: the lists hold the calls of the *)
(* sites looked at and nothing else, and mainNode the entry of a caller.   *)
(***************************************************************************)
FreesOf(c) == {CallTo(c.node, i, c.args[i]) : i \in DOMAIN c.args}
NamesMain(c) == c.call # "indirect" /\ c.caller \in prog.namedMain

ScanInv ==
  /\ phase # "sites" => left = {}
  /\ allocList = {CallTo(c.node, 0, c.res) : c \in {s \in prog.sites \ left : s.call = "alloc"}}
  /\ freeList = UNION {FreesOf(c) : c \in {s \in prog.sites \ left : s.call = "free"}}
  /\ mainNode # NoNode => \E c \in prog.sites : NamesMain(c) /\ mainNode = prog.entry[c.caller]
  /\ phase = "done" => mainNode # NoNode /\ rows = Reach(Node, prog.icfg, mainNode)

LEMMA CallOfSite ==
  ASSUME UNCHANGED prog
  PROVE  /\ \A n, i, v : CallTo(n, i, v)' = CallTo(n, i, v)
         /\ \A c : FreesOf(c)' = FreesOf(c)
  BY DEF CallTo, getDefNodes, FreesOf

LEMMA ScanInvStep == UafInv /\ ScanInv /\ [Next]_vars => ScanInv'
<1> SUFFICES ASSUME UafInv, ScanInv, [Next]_vars PROVE ScanInv'
  OBVIOUS
<1>0. TypeOK
  BY DEF UafInv
<1>1. CASE ScanSite
  <2>1. PICK c \in left :
           /\ left' = left \ {c}
           /\ freeList' = IF c.call = "free" THEN freeList \cup FreesOf(c) ELSE freeList
           /\ allocList' = IF c.call = "alloc" THEN allocList \cup {CallTo(c.node, 0, c.res)}
                                               ELSE allocList
           /\ mainNode' = IF NamesMain(c) THEN prog.entry[c.caller] ELSE mainNode
    BY <1>1 DEF ScanSite, FreesOf, NamesMain
  <2>2. prog' = prog /\ phase = "sites" /\ phase' = "sites" /\ left \subseteq prog.sites
    BY <1>0, <1>1 DEF ScanSite, TypeOK
  <2>3. prog.sites \ left' = (prog.sites \ left) \cup {c} /\ c \in prog.sites
    BY <2>1, <2>2
  <2>4. allocList' = {CallTo(d.node, 0, d.res) : d \in {s \in prog.sites \ left' : s.call = "alloc"}}
    <3>1. CASE c.call = "alloc"
      <4>1. {s \in prog.sites \ left' : s.call = "alloc"}
              = {s \in prog.sites \ left : s.call = "alloc"} \cup {c}
        BY <2>3, <3>1
      <4> QED
        BY <2>1, <3>1, <4>1 DEF ScanInv
    <3>2. CASE c.call # "alloc"
      <4>1. {s \in prog.sites \ left' : s.call = "alloc"}
              = {s \in prog.sites \ left : s.call = "alloc"}
        BY <2>3, <3>2
      <4> QED
        BY <2>1, <3>2, <4>1 DEF ScanInv
    <3> QED
      BY <3>1, <3>2
  <2>5. freeList' = UNION {FreesOf(d) : d \in {s \in prog.sites \ left' : s.call = "free"}}
    <3>1. CASE c.call = "free"
      <4>1. {s \in prog.sites \ left' : s.call = "free"}
              = {s \in prog.sites \ left : s.call = "free"} \cup {c}
        BY <2>3, <3>1
      <4> QED
        BY <2>1, <3>1, <4>1 DEF ScanInv
    <3>2. CASE c.call # "free"
      <4>1. {s \in prog.sites \ left' : s.call = "free"}
              = {s \in prog.sites \ left : s.call = "free"}
        BY <2>3, <3>2
      <4> QED
        BY <2>1, <3>2, <4>1 DEF ScanInv
    <3> QED
      BY <3>1, <3>2
  <2>6. (\A d : NamesMain(d)' <=> NamesMain(d))
    BY <2>2 DEF NamesMain
  <2>7. mainNode' # NoNode
          => \E d \in prog.sites : NamesMain(d) /\ mainNode' = prog.entry[d.caller]
    BY <2>1, <2>3 DEF ScanInv
  <2>8. /\ \A n, i, v : CallTo(n, i, v)' = CallTo(n, i, v)
        /\ \A d : FreesOf(d)' = FreesOf(d)
    BY <2>2, CallOfSite
  <2> QED
    BY <2>2, <2>4, <2>5, <2>6, <2>7, <2>8 DEF ScanInv
<1>2. CASE ~ScanSite
  <2>1. UNCHANGED <<prog, left, freeList, allocList, mainNode>>
    BY <1>2 DEF Next, createAllocFreeFlowGraph, initMFFlow, resolveMFMFlow, countPaths,
                writeCSV, vars
  <2>2. phase' # "sites" => left = {}
    BY <1>2 DEF Next, createAllocFreeFlowGraph, initMFFlow, resolveMFMFlow, countPaths,
                writeCSV, vars, ScanInv
  <2>3. phase' = "done" => mainNode # NoNode /\ rows' = Reach(Node, prog.icfg, mainNode)
    BY <1>2 DEF Next, createAllocFreeFlowGraph, initMFFlow, resolveMFMFlow, countPaths,
                writeCSV, vars, ScanInv
  <2>4. /\ \A n, i, v : CallTo(n, i, v)' = CallTo(n, i, v)
        /\ \A d : FreesOf(d)' = FreesOf(d)
    BY <2>1, CallOfSite
  <2>5. (\A d : NamesMain(d)' <=> NamesMain(d))
    BY <2>1 DEF NamesMain
  <2> QED
    BY <2>1, <2>2, <2>3, <2>4, <2>5 DEF ScanInv
<1> QED
  BY <1>1, <1>2

LEMMA ScanInductive == Spec => []ScanInv
<1>1. Init => ScanInv
  BY DEF Init, ScanInv
<1> QED
  BY <1>1, UafInductive, ScanInvStep, PTL DEF Spec

(***************************************************************************)
(* The loop over the call sites and traverseAndWriteToCSV, for every       *)
(* program: when one function alone can give mainNode, the file lists what *)
(* the control flow reaches from its entry.                                *)
(***************************************************************************)
THEOREM MainWritten == Spec => []MainIsWritten
<1>1. ScanInv => MainIsWritten
  <2> SUFFICES ASSUME ScanInv, phase = "done", NEW f \in prog.namedMain,
                      \A c \in prog.sites : c.caller \in prog.namedMain => c.caller = f
               PROVE  rows = Reach(Node, prog.icfg, prog.entry[f])
    BY DEF MainIsWritten
  <2>1. mainNode = prog.entry[f]
    BY DEF ScanInv, NamesMain
  <2> QED
    BY <2>1 DEF ScanInv
<1> QED
  BY <1>1, ScanInductive, PTL

-----------------------------------------------------------------------------
(* The paths: made of the two lists, and after that only given their last allocations. *)

LastAllocs(p) == {a \in allocList : hasPath(p.free.node, a.node)}

FlowInv ==
  /\ phase = "resolve" => MFFlow = MFPaths(freeList, allocList)
  /\ phase \in Resolved => MFFlow = {addLastAlloc(p, LastAllocs(p)) : p \in MFPaths(freeList, allocList)}

LEMMA FlowInvStep == UafInv /\ FlowInv /\ [Next]_vars => FlowInv'
<1> SUFFICES ASSUME UafInv, FlowInv, [Next]_vars PROVE FlowInv'
  OBVIOUS
<1>1. CASE ScanSite \/ createAllocFreeFlowGraph
  BY <1>1 DEF ScanSite, createAllocFreeFlowGraph, FlowInv, Resolved
<1>2. CASE initMFFlow
  BY <1>2 DEF initMFFlow, FlowInv, Resolved, MFPaths, MFPath
<1>3. CASE resolveMFMFlow
  <2>1. /\ MFFlow = MFPaths(freeList, allocList)
        /\ MFFlow' = {addLastAlloc(p, LastAllocs(p)) : p \in MFFlow}
        /\ phase' = "count"
        /\ UNCHANGED <<freeList, allocList, g>>
    BY <1>3 DEF resolveMFMFlow, FlowInv, LastAllocs
  <2>2. /\ MFPaths(freeList, allocList)' = MFPaths(freeList, allocList)
        /\ \A p : LastAllocs(p)' = LastAllocs(p)
    BY <2>1 DEF MFPaths, MFPath, LastAllocs, hasPath
  <2> QED
    BY <2>1, <2>2 DEF FlowInv, Resolved
<1>4. CASE countPaths \/ writeCSV \/ UNCHANGED vars
  <2>1. /\ UNCHANGED <<freeList, allocList, g, MFFlow>>
        /\ phase' = "resolve" => phase = "resolve"
        /\ phase' \in Resolved => phase \in Resolved
    BY <1>4 DEF countPaths, writeCSV, vars, Resolved
  <2>2. /\ MFPaths(freeList, allocList)' = MFPaths(freeList, allocList)
        /\ \A p : LastAllocs(p)' = LastAllocs(p)
    BY <2>1 DEF MFPaths, MFPath, LastAllocs, hasPath
  <2> QED
    BY <2>1, <2>2 DEF FlowInv
<1> QED
  BY <1>1, <1>2, <1>3, <1>4 DEF Next

LEMMA FlowInductive == Spec => []FlowInv
<1>1. Init => FlowInv
  BY DEF Init, FlowInv, Resolved
<1> QED
  BY <1>1, UafInductive, FlowInvStep, PTL DEF Spec

\* A path is the coupling of an allocation site with an argument of a freeing one.
LEMMA PathOfSites ==
  ASSUME ScanInv, left = {}, NEW q \in MFPaths(freeList, allocList)
  PROVE  \E c \in prog.sites, d \in prog.sites : \E i \in DOMAIN d.args :
           /\ c.call = "alloc" /\ d.call = "free"
           /\ \E o \in getDefNodes(c.res) \cap getDefNodes(d.args[i]) :
                q = MFPath(CallTo(c.node, 0, c.res), CallTo(d.node, i, d.args[i]), o)
<1>1. PICK f \in allocList, a \in freeList : \E o \in f.defs \cap a.defs : q = MFPath(f, a, o)
  BY DEF MFPaths
<1>2. PICK o \in f.defs \cap a.defs : q = MFPath(f, a, o)
  BY <1>1
<1>3. PICK c \in prog.sites : c.call = "alloc" /\ f = CallTo(c.node, 0, c.res)
  BY DEF ScanInv
<1>4. PICK d \in prog.sites : d.call = "free" /\ a \in FreesOf(d)
  BY DEF ScanInv
<1>5. PICK i \in DOMAIN d.args : a = CallTo(d.node, i, d.args[i])
  BY <1>4 DEF FreesOf
<1>6. f.defs = getDefNodes(c.res) /\ a.defs = getDefNodes(d.args[i])
  BY <1>3, <1>5 DEF CallTo
<1> QED
  BY <1>2, <1>3, <1>4, <1>5, <1>6

LEMMA SitesGivePath ==
  ASSUME ScanInv, left = {}, NEW c \in prog.sites, NEW d \in prog.sites,
         c.call = "alloc", d.call = "free", NEW i \in DOMAIN d.args,
         NEW o \in getDefNodes(c.res) \cap getDefNodes(d.args[i])
  PROVE  MFPath(CallTo(c.node, 0, c.res), CallTo(d.node, i, d.args[i]), o)
           \in MFPaths(freeList, allocList)
<1> DEFINE f == CallTo(c.node, 0, c.res)
           a == CallTo(d.node, i, d.args[i])
<1>1. f \in allocList
  BY DEF ScanInv
<1>2. a \in FreesOf(d)
  BY DEF FreesOf
<1>3. a \in freeList
  BY <1>2 DEF ScanInv
<1>4. o \in f.defs \cap a.defs
  BY DEF CallTo
<1> QED
  BY <1>1, <1>3, <1>4 DEF MFPaths

(***************************************************************************)
(* The paths that couple one allocation with one argument of a free are,   *)
(* each, the path made for one of the objects the two have in common: a    *)
(* path is made for every such object, and none of them twice.             *)
(***************************************************************************)
Coupling(c, d, i) ==
  {p \in MFFlow : {p.free.node, p.alloc.node} = {c.node, d.node} /\ i \in {p.free.arg, p.alloc.arg}}

LEMMA CouplingCounts ==
  ASSUME TypeOK, ScanInv, FlowInv, phase \in {"resolve"} \cup Resolved,
         NEW c \in prog.sites, NEW d \in prog.sites,
         c.call = "alloc", d.call = "free", NEW i \in DOMAIN d.args
  PROVE  Cardinality(Coupling(c, d, i))
           = Cardinality(getDefNodes(c.res) \cap getDefNodes(d.args[i]))
<1> DEFINE Common == getDefNodes(c.res) \cap getDefNodes(d.args[i])
           f == CallTo(c.node, 0, c.res)
           a == CallTo(d.node, i, d.args[i])
           Last(p) == IF phase = "resolve" THEN {} ELSE LastAllocs(p)
           PathFor(o) == addLastAlloc(MFPath(f, a, o), Last(MFPath(f, a, o)))
           F == [o \in Common |-> PathFor(o)]
<1>1. left = {} /\ prog \in Programs
  BY DEF ScanInv, TypeOK, Resolved
<1>2. MFFlow = {addLastAlloc(p, Last(p)) : p \in MFPaths(freeList, allocList)}
  <2>1. CASE phase = "resolve"
    <3>1. \A p \in MFPaths(freeList, allocList) : addLastAlloc(p, {}) = p
      BY DEF MFPaths, MFPath, addLastAlloc
    <3> QED
      BY <2>1, <3>1 DEF FlowInv
  <2>2. CASE phase \in Resolved
    BY <2>2 DEF FlowInv, Resolved
  <2> QED
    BY <2>1, <2>2
<1>3. \A i1 \in DOMAIN d.args : i1 \in Nat /\ i1 # 0
  BY <1>1, ProgramAssumption DEF Site
<1>4. \A o : /\ PathFor(o).free = f /\ PathFor(o).alloc = a /\ PathFor(o).def = o
             /\ PathFor(o).free.node = c.node /\ PathFor(o).alloc.node = d.node
             /\ PathFor(o).alloc.arg = i
  BY DEF addLastAlloc, MFPath, CallTo
<1>5. ASSUME NEW o \in Common PROVE PathFor(o) \in Coupling(c, d, i)
  <2>1. PathFor(o) \in MFFlow
    BY <1>1, <1>2, SitesGivePath
  <2> QED
    BY <1>4, <2>1 DEF Coupling
<1>6. ASSUME NEW p \in Coupling(c, d, i) PROVE \E o \in Common : p = PathFor(o)
  <2>1. PICK q \in MFPaths(freeList, allocList) : p = addLastAlloc(q, Last(q))
    BY <1>2 DEF Coupling
  <2>2. PICK c1 \in prog.sites, d1 \in prog.sites : \E i1 \in DOMAIN d1.args :
           /\ c1.call = "alloc" /\ d1.call = "free"
           /\ \E o \in getDefNodes(c1.res) \cap getDefNodes(d1.args[i1]) :
                q = MFPath(CallTo(c1.node, 0, c1.res), CallTo(d1.node, i1, d1.args[i1]), o)
    BY <1>1, PathOfSites
  <2>a. PICK i1 \in DOMAIN d1.args :
           /\ c1.call = "alloc" /\ d1.call = "free"
           /\ \E o \in getDefNodes(c1.res) \cap getDefNodes(d1.args[i1]) :
                q = MFPath(CallTo(c1.node, 0, c1.res), CallTo(d1.node, i1, d1.args[i1]), o)
    BY <2>2
  <2>3. PICK o \in getDefNodes(c1.res) \cap getDefNodes(d1.args[i1]) :
           /\ c1.call = "alloc" /\ d1.call = "free"
           /\ q = MFPath(CallTo(c1.node, 0, c1.res), CallTo(d1.node, i1, d1.args[i1]), o)
    BY <2>a
  <2>4. /\ p.free.node = c1.node /\ p.alloc.node = d1.node
        /\ p.free.arg = 0 /\ p.alloc.arg = i1
    BY <2>1, <2>3 DEF addLastAlloc, MFPath, CallTo
  <2>5. {c1.node, d1.node} = {c.node, d.node} /\ i \in {0, i1}
    BY <2>4 DEF Coupling
  <2>6. \A s, t \in prog.sites : s.node = t.node => s = t
    BY <1>1, ProgramAssumption
  <2>7. c1.node # d.node /\ d1.node # c.node
    BY <2>3, <2>6
  <2>8. c1 = c /\ d1 = d
    BY <2>5, <2>6, <2>7
  <2>9. i1 = i
    BY <1>3, <2>5
  <2> QED
    BY <2>1, <2>3, <2>8, <2>9
<1>7. F \in [Common -> Coupling(c, d, i)]
  BY <1>5
<1>8. \A o1, o2 \in Common : F[o1] = F[o2] => o1 = o2
  BY <1>4
<1>9. \A p \in Coupling(c, d, i) : \E o \in Common : F[o] = p
  BY <1>6
<1>10. IsFiniteSet(Common)
  <2>1. Common \in SUBSET Obj
    BY DEF getDefNodes
  <2> QED
    BY <2>1, ProgramAssumption, FS_Subset
<1> HIDE DEF F, Common
<1>11. F \in Bijection(Common, Coupling(c, d, i))
  BY <1>7, <1>8, <1>9, Fun_IsBij
<1>12. ExistsBijection(Common, Coupling(c, d, i))
  BY <1>11, Fun_ExistsBij
<1>13. Cardinality(Coupling(c, d, i)) = Cardinality(Common)
  BY <1>10, <1>12, FS_Bijection
<1> QED
  BY <1>13 DEF Common

(***************************************************************************)
(* initMFFlow, for every program: an allocation and a free that may mean   *)
(* the same objects are coupled exactly once for each of them.             *)
(***************************************************************************)
THEOREM EveryPairCoupled == Spec => []PairsCoupled
<1>1. TypeOK /\ ScanInv /\ FlowInv => PairsCoupled
  <2> SUFFICES ASSUME TypeOK, ScanInv, FlowInv, phase \in {"resolve"} \cup Resolved,
                      NEW c \in prog.sites, NEW d \in prog.sites,
                      c.call = "alloc", d.call = "free", NEW i \in DOMAIN d.args
               PROVE  Cardinality(Coupling(c, d, i))
                        = Cardinality(getDefNodes(c.res) \cap getDefNodes(d.args[i]))
    BY DEF PairsCoupled, Coupling, Resolved
  <2> QED
    BY CouplingCounts
<1>2. UafInv => TypeOK
  BY DEF UafInv
<1> QED
  BY <1>1, <1>2, UafInductive, ScanInductive, FlowInductive, PTL
=============================================================================
