----------------------------- MODULE GraphSearch ----------------------------
(***************************************************************************)
(* The graph searches of the static analyses: visits.cpp (in both of its   *)
(* copies), traverseOnVFG of svf-ex and the path searches of svf-uaf.      *)
(* One step is one turn of the worklist loop: a node is taken and the      *)
(* selection function is run on it.                                        *)
(*                                                                         *)
(* The graphs are SVF's.  A search meets the edges of a node in whatever   *)
(* order SVF keeps them, so every order is possible here.                  *)
(***************************************************************************)
EXTENDS Integers, Sequences, FiniteSets

CONSTANTS
  Node,       \* the nodes of the graph
  Searches,   \* the searches that may be asked, each with its graph
  MaxWork     \* bound: entries a worklist may hold (searches that never mark)

\* Addr, Store and the call edges of SVF's PAG; the other kinds only carry a value on.
Kinds == {"addr", "store", "call", "flow"}
Edge == [src : Node, dst : Node, kind : Kinds]

Marking == {"defs", "storedefs", "callblocks", "vfg", "csv", "path", "avoid"}
Ops == Marking \cup {"firststore", "firstdom", "target", "allstore", "paths"}

\* The searches that stop at the first node they select.
Stops == {"firststore", "firstdom", "target", "path", "avoid"}

(***************************************************************************)
(* top is the node asked about, goal the target of a path; a dummy node is *)
(* one of SVF's, with no value of the program; calls are the nodes of call *)
(* instructions, forbid the nodes a path must avoid.                       *)
(***************************************************************************)
Search == [op : Ops, edges : SUBSET Edge, dummy : SUBSET Node, calls : SUBSET Node,
           forbid : SUBSET Node, top : Node, goal : Node]

(***************************************************************************)
(* In a PAG an Addr edge goes from an object to a pointer, and objects     *)
(* have no other edges: a copy, load, store or call relates pointers.      *)
(***************************************************************************)
ObjectsApart(E) ==
  \A e, f \in E : e.kind = "addr" => e.src # f.dst /\ (f.kind # "addr" => e.src # f.src)

ASSUME SearchAssumption ==
  /\ IsFiniteSet(Node)
  /\ Searches \subseteq Search
  /\ \A q \in Searches : IsFiniteSet(q.edges) /\ ObjectsApart(q.edges)
  /\ MaxWork \in Nat

VARIABLES
  search,    \* what is asked; never changes
  op,        \* the search under way
  start,     \* the node it started from
  worklist,
  visited,
  ret,       \* the nodes selected
  done,      \* history: the nodes the selection function has handled
  stack,     \* getPathFromTo: the open calls, each a node with its edges left
  paths      \* getPathFromTo: the paths found

vars == <<search, op, start, worklist, visited, ret, done, stack, paths>>

In(n)  == {e \in search.edges : e.dst = n}
Out(n) == {e \in search.edges : e.src = n}
Srcs(E) == {e.src : e \in E}
Dsts(E) == {e.dst : e \in E}

\* Edges that leave a dummy node are discarded by the visits of the PAG.
Kept(E)  == {e \in E : e.src \notin search.dummy}
Addrs(E) == {e \in Kept(E) : e.kind = "addr"}
Stores(E) == {e \in Kept(E) : e.kind = "store"}

\* An edge that defines its destination carries the destination's value.
Defining(n) == {e \in In(n) : e.kind \in {"addr", "flow"}}
AddressTaken(n) == \E e \in Out(n) : e.kind = "addr"

(***************************************************************************)
(* findDefNodesFromStore: the visit starts behind the first edge that      *)
(* defines the stored-to value, if there is one.                           *)
(***************************************************************************)
findDefNodesFromStore(n) ==
  IF Defining(n) = {} THEN {n} ELSE Srcs(Defining(n))

\* Mutant: the start of the visit is not looked at.
StartNeverDef(n) == {}

\* A start that is an object already belongs to the definitions of the store.
StartIsDef(n) == IF AddressTaken(n) THEN {n} ELSE {}

\* A path from a node to itself is found before the loop.
AlreadyThere(n) == IF n = search.goal THEN {n} ELSE {}

\* The orders in which the members of a finite set can be met.
Arrangements(S) ==
  {s \in [1..Cardinality(S) -> S] : \A x \in S : \E i \in DOMAIN s : s[i] = x}

SrcsInOrder(s) == [i \in DOMAIN s |-> s[i].src]
DstsInOrder(s) == [i \in DOMAIN s |-> s[i].dst]

Back == worklist[Len(worklist)]
PopBack == SubSeq(worklist, 1, Len(worklist) - 1)

-----------------------------------------------------------------------------
InitRet(o) ==
  IF o = "storedefs" THEN StartIsDef(start)
  ELSE IF o = "avoid" THEN AlreadyThere(start)
  ELSE {}

Init ==
  /\ search \in Searches
  /\ op = search.op
  /\ start \in IF op = "storedefs" THEN findDefNodesFromStore(search.top)
                                   ELSE {search.top}
  /\ ret = InitRet(op)
  /\ worklist = IF op = "paths" \/ (op = "avoid" /\ ret # {}) THEN << >> ELSE <<start>>
  /\ visited = IF op \in {"csv", "paths"} THEN {start} ELSE {}
  /\ done = {}
  /\ stack = IF op = "paths" THEN <<[node |-> start, left |-> Out(start)]>> ELSE << >>
  /\ paths = {}

\* What a turn of a worklist loop leaves alone.
Turn(current) ==
  /\ worklist # << >>
  /\ done' = done \cup {current}
  /\ UNCHANGED <<search, op, start, stack, paths>>

Found(n) == ret' = ret \cup {n} /\ worklist' = << >>

\* selectDefs marks a node when it is pushed, and the start when it is handled.
selectDefs ==
  LET current == Back
      fresh == Srcs({e \in Kept(In(current)) : e.kind # "addr"}) \ visited
  IN /\ op \in {"defs", "storedefs"}
     /\ Turn(current)
     /\ \E s \in Arrangements(fresh) : worklist' = PopBack \o s
     /\ visited' = visited \cup fresh \cup {current}
     /\ ret' = ret \cup Srcs(Addrs(In(current)))

(***************************************************************************)
(* selectFirstStore, selectFirstDominator and selectAllStore mark nothing: *)
(* a node is handled once for every way that leads to it.                  *)
(***************************************************************************)
selectFirstStore ==
  LET current == Back
      stores == Stores(Out(current))
  IN /\ op \in {"firststore", "target"}
     /\ Turn(current)
     /\ \/ \E e \in stores : Found(e.dst)
        \/ /\ stores = {}
           /\ \E s \in Arrangements(Kept(Out(current))) : worklist' = PopBack \o DstsInOrder(s)
           /\ UNCHANGED ret
     /\ Len(worklist') <= MaxWork
     /\ UNCHANGED visited

selectFirstDominator ==
  LET current == Back
      addrs == Addrs(In(current))
  IN /\ op = "firstdom"
     /\ Turn(current)
     /\ \/ \E e \in addrs : Found(e.src)
        \/ /\ addrs = {}
           /\ \E s \in Arrangements(Kept(In(current))) : worklist' = PopBack \o SrcsInOrder(s)
           /\ UNCHANGED ret
     /\ Len(worklist') <= MaxWork
     /\ UNCHANGED visited

selectAllStore ==
  LET current == Back
  IN /\ op = "allstore"
     /\ Turn(current)
     /\ \E s \in Arrangements(Kept(Out(current))) : worklist' = PopBack \o DstsInOrder(s)
     /\ Len(worklist') <= MaxWork
     /\ ret' = ret \cup Dsts(Stores(Out(current)))
     /\ UNCHANGED visited

(***************************************************************************)
(* findTargetOfCall goes on from the value the call's result is stored to. *)
(* Without such a store svf-ex dereferences a null pointer and svf-uaf     *)
(* returns none: no step follows.                                          *)
(***************************************************************************)
findTargetOfCall ==
  /\ op = "target"
  /\ worklist = << >>
  /\ \E n \in ret : /\ Stores(In(n)) # {}
                    /\ start' = n
                    /\ worklist' = <<n>>
  /\ op' = "firstdom"
  /\ ret' = {}
  /\ done' = {}
  /\ UNCHANGED <<search, visited, stack, paths>>

\* Mutant: the insertion into visited is missing (and the worklist is bounded).
selectCallBlockNodesUnmarked ==
  LET current == Back
      new == {e \in In(current) : e.src \notin visited \cup {current}}
  IN /\ op = "callblocks"
     /\ Turn(current)
     /\ \E s \in Arrangements(new) : worklist' = PopBack \o SrcsInOrder(s)
     /\ Len(worklist') <= MaxWork
     /\ ret' = ret \cup ({current} \cap search.calls)
     /\ UNCHANGED visited

\* selectCallBlockNodes marks a node only when it is handled.
selectCallBlockNodes ==
  LET current == Back
      new == {e \in In(current) : e.src \notin visited \cup {current}}
  IN /\ op = "callblocks"
     /\ Turn(current)
     /\ \E s \in Arrangements(new) : worklist' = PopBack \o SrcsInOrder(s)
     /\ visited' = visited \cup {current}
     /\ ret' = ret \cup ({current} \cap search.calls)

\* traverseOnVFG answers with the nodes it marked.
traverseOnVFG ==
  LET current == Head(worklist)
      fresh == Dsts(Out(current)) \ visited
  IN /\ op = "vfg"
     /\ Turn(current)
     /\ \E s \in Arrangements(fresh) : worklist' = Tail(worklist) \o s
     /\ visited' = visited \cup fresh
     /\ ret' = ret \cup fresh

\* traverseAndWriteToCSV writes the statements of a node when it is handled.
traverseAndWriteToCSV ==
  LET current == Head(worklist)
      fresh == Dsts(Out(current)) \ visited
  IN /\ op = "csv"
     /\ Turn(current)
     /\ \E s \in Arrangements(fresh) : worklist' = Tail(worklist) \o s
     /\ visited' = visited \cup fresh
     /\ ret' = ret \cup {current}

hasPath ==
  LET current == Back
      marked == visited \cup {current}
  IN /\ op = "path"
     /\ Turn(current)
     /\ \/ current = search.goal /\ Found(current) /\ UNCHANGED visited
        \/ /\ current # search.goal
           /\ \E s \in Arrangements(Dsts(Out(current)) \ marked) : worklist' = PopBack \o s
           /\ visited' = marked
           /\ UNCHANGED ret

\* Mutant: nodes are marked when they are pushed and still skipped when popped.
existPathMarkedEarly ==
  LET current == Head(worklist)
      open == {e \in Out(current) : e.dst \notin search.forbid \cup visited}
  IN /\ op = "avoid"
     /\ Turn(current)
     /\ \/ /\ current \in visited
           /\ worklist' = Tail(worklist)
           /\ UNCHANGED <<visited, ret>>
        \/ /\ current \notin visited
           /\ visited' = visited \cup {current} \cup Dsts(open)
           /\ \/ search.goal \in Dsts(open) /\ Found(search.goal)
              \/ /\ search.goal \notin Dsts(open)
                 /\ \E s \in Arrangements(open) : worklist' = Tail(worklist) \o DstsInOrder(s)
                 /\ UNCHANGED ret

existPathWithoutForbiddenNodes ==
  LET current == Head(worklist)
      marked == visited \cup {current}
      open == {e \in Out(current) : e.dst \notin search.forbid \cup marked}
  IN /\ op = "avoid"
     /\ Turn(current)
     /\ \/ /\ current \in visited
           /\ worklist' = Tail(worklist)
           /\ UNCHANGED <<visited, ret>>
        \/ /\ current \notin visited
           /\ visited' = marked
           /\ \/ search.goal \in Dsts(open) /\ Found(search.goal)
              \/ /\ search.goal \notin Dsts(open)
                 /\ \E s \in Arrangements(open) : worklist' = Tail(worklist) \o DstsInOrder(s)
                 /\ UNCHANGED ret

(***************************************************************************)
(* getPathFromTo is recursive.  The open calls are the path from the start *)
(* to the node being handled; an edge is taken, recorded when it leads to  *)
(* the goal, and followed when its end was not visited before.             *)
(***************************************************************************)
PathTo(n) == Append(Tail([i \in DOMAIN stack |-> stack[i].node]), n)

\* Mutant: an edge to a node visited before is passed over, the goal included.
concreteGetPathUnvisited ==
  /\ op = "paths"
  /\ stack # << >>
  /\ LET n == Len(stack) IN
       \/ /\ stack[n].left = {}
          /\ stack' = SubSeq(stack, 1, n - 1)
          /\ UNCHANGED <<visited, paths>>
       \/ \E e \in stack[n].left :
            LET rest == [stack EXCEPT ![n].left = @ \ {e}]
            IN /\ paths' = IF e.dst = search.goal /\ e.dst \notin visited
                            THEN paths \cup {PathTo(e.dst)} ELSE paths
               /\ visited' = visited \cup {e.dst}
               /\ stack' = IF e.dst \in visited THEN rest
                           ELSE Append(rest, [node |-> e.dst, left |-> Out(e.dst)])
  /\ UNCHANGED <<search, op, start, worklist, ret, done>>

concreteGetPathFromTo ==
  /\ op = "paths"
  /\ stack # << >>
  /\ LET n == Len(stack) IN
       \/ /\ stack[n].left = {}
          /\ stack' = SubSeq(stack, 1, n - 1)
          /\ UNCHANGED <<visited, paths>>
       \/ \E e \in stack[n].left :
            LET rest == [stack EXCEPT ![n] = [node |-> stack[n].node, left |-> stack[n].left \ {e}]]
            IN /\ paths' = IF e.dst = search.goal THEN paths \cup {PathTo(e.dst)} ELSE paths
               /\ visited' = visited \cup {e.dst}
               /\ stack' = IF e.dst \in visited THEN rest
                           ELSE Append(rest, [node |-> e.dst, left |-> Out(e.dst)])
  /\ UNCHANGED <<search, op, start, worklist, ret, done>>

Next ==
  \/ selectDefs \/ selectFirstStore \/ selectFirstDominator \/ selectAllStore
  \/ findTargetOfCall \/ selectCallBlockNodes \/ traverseOnVFG
  \/ traverseAndWriteToCSV \/ hasPath \/ existPathWithoutForbiddenNodes
  \/ concreteGetPathFromTo

Spec == Init /\ [][Next]_vars

\* The analyses are single-threaded programs: a loop turns until it ends.
FairSpec == Spec /\ WF_vars(Next)

-----------------------------------------------------------------------------
(***************************************************************************)
(* What the searches are for.  Around are the nodes a search is to go on   *)
(* to from n, Wanted the nodes n gives the answer.                         *)
(***************************************************************************)
Around(n) ==
  IF op \in {"defs", "storedefs", "firstdom"}
    THEN Srcs({e \in Kept(In(n)) : e.kind # "addr"})
  ELSE IF op \in {"firststore", "target"} THEN Dsts(Kept(Out(n)) \ Stores(Out(n)))
  ELSE IF op = "allstore" THEN Dsts(Kept(Out(n)))
  ELSE IF op = "callblocks" THEN Srcs(In(n))
  ELSE IF op = "avoid" THEN Dsts(Out(n)) \ search.forbid
  ELSE Dsts(Out(n))

Wanted(n) ==
  IF op \in {"defs", "storedefs", "firstdom"} THEN Srcs(Addrs(In(n)))
  ELSE IF op \in {"firststore", "target", "allstore"} THEN Dsts(Stores(Out(n)))
  ELSE IF op = "callblocks" THEN {n} \cap search.calls
  ELSE IF op = "vfg" THEN Dsts(Out(n))
  ELSE IF op = "csv" THEN {n}
  ELSE IF op = "path" THEN {n} \cap {search.goal}
  ELSE (Dsts(Out(n)) \ search.forbid) \cap {search.goal}

Closed(S) == \A n \in S : Around(n) \subseteq S

\* The nodes that Around leads to from the start: the smallest closed set.
Reached == {n \in Node : \A S \in SUBSET Node : start \in S /\ Closed(S) => n \in S}

Answer == InitRet(op) \cup UNION {Wanted(n) : n \in Reached}

\* An open call of concreteGetPathFromTo.
Frame == [node : Node, left : SUBSET Edge]

\* A node the PAG made up never counts as a definition or a dominator.
TypeOK ==
  /\ search \in Search
  /\ op \in Ops
  /\ start \in Node
  /\ worklist \in Seq(Node)
  /\ visited \subseteq Node
  /\ ret \subseteq IF op \in {"defs", "firstdom"} THEN Node \ search.dummy ELSE Node
  /\ done \subseteq Node
  /\ stack \in Seq(Frame)
  /\ paths \subseteq Seq(Node)

(***************************************************************************)
(* When a worklist runs empty, a search that collects has found exactly    *)
(* the nodes it is for, whatever the order of the edges, and one that      *)
(* stops at the first has found one of them, or none when there is none.   *)
(***************************************************************************)
SearchExact ==
  op # "paths" /\ worklist = << >> =>
    /\ ret \subseteq Answer
    /\ op \in Stops => (Answer # {} => ret # {})
    /\ op \notin Stops => Answer \subseteq ret

(***************************************************************************)
(* Why: the nodes handled and those waiting are all within reach, and when *)
(* nothing stopped the search nothing next to a handled node is forgotten. *)
(***************************************************************************)
Waiting == {worklist[i] : i \in DOMAIN worklist}
Known == done \cup Waiting

Stopped == op \in Stops /\ ret # {}

WithinReach == \A S \in SUBSET Node : start \in S /\ Closed(S) => Known \subseteq S

NothingForgotten ==
  ~Stopped =>
    /\ start \in Known
    /\ visited \subseteq Known
    /\ \A n \in done : Around(n) \subseteq Known

SelectedSoFar ==
  /\ ret \subseteq InitRet(op) \cup UNION {Wanted(n) : n \in done}
  /\ op \notin Stops => InitRet(op) \cup UNION {Wanted(n) : n \in done} \subseteq ret
  /\ Stopped => worklist = << >>
  /\ ~Stopped /\ op \in Stops => InitRet(op) = {} /\ \A n \in done : Wanted(n) = {}

\* The search that avoids nodes leaves the goal out of its worklist.
GoalAhead ==
  op = "avoid" => visited \subseteq done /\ (ret = {} => search.goal \notin Known)

\* traverseOnVFG keeps no answer but its marks.
MarkedIsAnswer == op = "vfg" => visited = ret

SearchInv ==
  op # "paths" =>
    WithinReach /\ NothingForgotten /\ SelectedSoFar /\ GoalAhead /\ MarkedIsAnswer

(***************************************************************************)
(* The visit from a store, whose start ignores which nodes are dummies:    *)
(* from a value that no dummy defines it finds no object that a visit from *)
(* the value would not find, and it finds them all when a single edge      *)
(* leads to the value.  Behind a second edge they are lost.                *)
(***************************************************************************)
StoreDefsComplete ==
  op = "storedefs" /\ worklist = << >> /\ start \notin search.dummy =>
    LET from == {n \in Node : \A S \in SUBSET Node : search.top \in S /\ Closed(S) => n \in S}
        objects == UNION {Wanted(n) : n \in from}
    IN /\ ret \subseteq objects \cup StartIsDef(search.top)
       /\ Cardinality(In(search.top)) = 1 => objects \subseteq ret

(***************************************************************************)
(* getPathFromTo: every path it reports goes along edges of the graph from *)
(* the start to the goal, and it reports one whenever the goal can be      *)
(* reached.  It does not report them all: analyzeGep must not rely on it.  *)
(***************************************************************************)
IsPath(p) ==
  /\ p[Len(p)] = search.goal
  /\ \A i \in 1..Len(p) :
       \E e \in search.edges : /\ e.src = IF i = 1 THEN start ELSE p[i - 1]
                               /\ e.dst = p[i]

PathsSound ==
  op = "paths" =>
    /\ \A p \in paths : p # << >> /\ IsPath(p)
    /\ stack = << >> =>
         (paths # {} <=> \E n \in Reached : search.goal \in Dsts(Out(n)))

(***************************************************************************)
(* The searches that mark what they visit end on every graph.  Those that  *)
(* do not mark end when no cycle is within their reach.                    *)
(***************************************************************************)
Cyclic == \E C \in SUBSET Reached : C # {} /\ \A n \in C : Around(n) \cap C # {}

Terminates ==
  (op \in Marking \cup {"paths"} \/ ~Cyclic) ~> (worklist = << >> /\ stack = << >>)
=============================================================================
