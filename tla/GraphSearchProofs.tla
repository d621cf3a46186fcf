-------------------------- MODULE GraphSearchProofs -------------------------
(***************************************************************************)
(* The searches find what they are for on every graph, in every order of   *)
(* its edges: the type invariant, the inductive invariant SearchInv and    *)
(* SearchExact; then the visit from a store, and the recursive search for  *)
(* paths, whose invariant is about the stack of its open calls.            *)
(***************************************************************************)
EXTENDS GraphSearch, FiniteSetTheorems, SequenceTheorems, TLAPS

-----------------------------------------------------------------------------
(* Sequences as worklists. *)

Entries(s) == {s[i] : i \in DOMAIN s}

\* An arrangement of a finite set is a sequence of exactly its members.
LEMMA ArrangementRange ==
  ASSUME NEW S, IsFiniteSet(S), NEW s \in Arrangements(S)
  PROVE  /\ s \in Seq(S)
         /\ Entries(s) = S
  BY FS_CardinalityType DEF Arrangements, Entries

LEMMA ConcatEntries ==
  ASSUME NEW N, NEW u \in Seq(N), NEW s \in Seq(N)
  PROVE  u \o s \in Seq(N) /\ Entries(u \o s) = Entries(u) \cup Entries(s)
<1> DEFINE v == u \o s
<1>1. /\ v \in Seq(N)
      /\ Len(v) = Len(u) + Len(s)
      /\ \A i \in 1..Len(u) + Len(s) : v[i] = IF i <= Len(u) THEN u[i] ELSE s[i - Len(u)]
  BY ConcatProperties
<1> HIDE DEF v
<1>2. /\ Len(u) \in Nat /\ DOMAIN u = 1..Len(u)
      /\ Len(s) \in Nat /\ DOMAIN s = 1..Len(s)
      /\ DOMAIN v = 1..(Len(u) + Len(s))
  BY <1>1
<1>3. ASSUME NEW i \in DOMAIN v
      PROVE  (i \in DOMAIN u /\ v[i] = u[i]) \/ (i - Len(u) \in DOMAIN s /\ v[i] = s[i - Len(u)])
  BY <1>1, <1>2
<1>4. ASSUME NEW i \in DOMAIN u PROVE i \in DOMAIN v /\ v[i] = u[i]
  BY <1>1, <1>2
<1>5. ASSUME NEW i \in DOMAIN s PROVE Len(u) + i \in DOMAIN v /\ v[Len(u) + i] = s[i]
  <2>1. /\ Len(u) + i \in DOMAIN v /\ ~(Len(u) + i <= Len(u)) /\ (Len(u) + i) - Len(u) = i
    BY <1>2
  <2> QED
    BY <1>1, <1>2, <2>1
<1>6. ASSUME NEW x \in Entries(v) PROVE x \in Entries(u) \cup Entries(s)
  BY <1>3 DEF Entries
<1>7. ASSUME NEW x \in Entries(u) PROVE x \in Entries(v)
  BY <1>4 DEF Entries
<1>8. ASSUME NEW x \in Entries(s) PROVE x \in Entries(v)
  BY <1>5 DEF Entries
<1>9. Entries(v) = Entries(u) \cup Entries(s)
  BY <1>6, <1>7, <1>8
<1> QED
  BY <1>1, <1>9 DEF v

\* Taking the last entry and appending others: nothing else comes or goes.
LEMMA PopBackRange ==
  ASSUME NEW N, NEW w \in Seq(N), NEW s \in Seq(N), w # << >>
  PROVE  /\ SubSeq(w, 1, Len(w) - 1) \o s \in Seq(N)
         /\ w[Len(w)] \in N
         /\ w[Len(w)] \in Entries(w)
         /\ Entries(SubSeq(w, 1, Len(w) - 1) \o s) \cup {w[Len(w)]} = Entries(w) \cup Entries(s)
<1> DEFINE n == Len(w) - 1
           u == SubSeq(w, 1, n)
<1>1. Len(w) \in Nat /\ Len(w) >= 1 /\ n \in Nat /\ DOMAIN w = 1..Len(w)
  OBVIOUS
<1>2. u \in Seq(N) /\ Len(u) = n /\ \A i \in 1..n : u[i] = w[i]
  BY <1>1
<1> HIDE DEF u
<1>3. \A i \in DOMAIN w : i \in 1..n \/ i = Len(w)
  BY <1>1
<1>4. \A i \in 1..n : i \in DOMAIN w
  BY <1>1
<1>5. DOMAIN u = 1..n
  BY <1>2
<1>6. w[Len(w)] \in N /\ Len(w) \in DOMAIN w
  BY <1>1
<1>7. Entries(u) \cup {w[Len(w)]} = Entries(w)
  BY <1>2, <1>3, <1>4, <1>5, <1>6 DEF Entries
<1>8. u \o s \in Seq(N) /\ Entries(u \o s) = Entries(u) \cup Entries(s)
  BY <1>2, ConcatEntries
<1> QED
  BY <1>6, <1>7, <1>8 DEF u

\* The same for an entry taken from the front.
LEMMA PopFrontRange ==
  ASSUME NEW N, NEW w \in Seq(N), NEW s \in Seq(N), w # << >>
  PROVE  /\ Tail(w) \o s \in Seq(N)
         /\ Head(w) \in N
         /\ Head(w) \in Entries(w)
         /\ Entries(Tail(w) \o s) \cup {Head(w)} = Entries(w) \cup Entries(s)
<1> DEFINE n == Len(w) - 1
           u == Tail(w)
<1>1. Len(w) \in Nat /\ Len(w) >= 1 /\ n \in Nat /\ DOMAIN w = 1..Len(w) /\ Head(w) = w[1]
  OBVIOUS
<1>2. u \in Seq(N) /\ Len(u) = n /\ \A i \in 1..n : u[i] = w[i + 1]
  BY <1>1
<1> HIDE DEF u
<1>3. DOMAIN u = 1..n
  BY <1>2
<1>4. ASSUME NEW i \in DOMAIN w
      PROVE  i = 1 \/ (i - 1 \in DOMAIN u /\ u[i - 1] = w[i])
  <2>1. i = 1 \/ (i - 1 \in 1..n /\ (i - 1) + 1 = i)
    BY <1>1
  <2> QED
    BY <1>2, <1>3, <2>1
<1>5. ASSUME NEW i \in DOMAIN u PROVE i + 1 \in DOMAIN w /\ w[i + 1] = u[i]
  BY <1>1, <1>2, <1>3
<1>6. w[1] \in N /\ 1 \in DOMAIN w
  BY <1>1
<1>7. Entries(u) \cup {w[1]} = Entries(w)
  BY <1>4, <1>5, <1>6 DEF Entries
<1>8. u \o s \in Seq(N) /\ Entries(u \o s) = Entries(u) \cup Entries(s)
  BY <1>2, ConcatEntries
<1> QED
  BY <1>1, <1>6, <1>7, <1>8 DEF u

-----------------------------------------------------------------------------
(* Types. *)

\* The ends of edges are nodes, and there are finitely many.
LEMMA EdgeEnds ==
  ASSUME search \in Searches, NEW E \in SUBSET search.edges
  PROVE  /\ IsFiniteSet(E)
         /\ E \subseteq Edge
         /\ Srcs(E) \subseteq Node
         /\ Dsts(E) \subseteq Node
<1>1. search \in Search /\ IsFiniteSet(search.edges)
  BY SearchAssumption
<1>2. search.edges \subseteq Edge
  BY <1>1 DEF Search
<1> QED
  BY <1>1, <1>2, FS_Subset DEF Srcs, Dsts, Edge

LEMMA FiniteNodes ==
  ASSUME NEW S \in SUBSET Node
  PROVE  IsFiniteSet(S)
  BY SearchAssumption, FS_Subset

\* Arranged nodes, as pushed on a worklist.
LEMMA OrderedNodes ==
  ASSUME NEW S \in SUBSET Node, NEW s \in Arrangements(S)
  PROVE  s \in Seq(Node) /\ Entries(s) = S
<1>1. IsFiniteSet(S)
  BY FiniteNodes
<1>2. Cardinality(S) \in Nat /\ s \in [1..Cardinality(S) -> S]
  BY <1>1, FS_CardinalityType DEF Arrangements
<1>3. s \in [1..Cardinality(S) -> Node]
  BY <1>2
<1>4. s \in Seq(Node)
  BY <1>2, <1>3
<1> QED
  BY <1>1, <1>4, ArrangementRange

\* The ends of arranged edges, as pushed on a worklist.
LEMMA OrderedEnds ==
  ASSUME search \in Searches, NEW E \in SUBSET search.edges, NEW s \in Arrangements(E)
  PROVE  /\ SrcsInOrder(s) \in Seq(Node)
         /\ DstsInOrder(s) \in Seq(Node)
         /\ Entries(SrcsInOrder(s)) = Srcs(E)
         /\ Entries(DstsInOrder(s)) = Dsts(E)
<1>1. /\ s \in Seq(E)
      /\ \A i \in DOMAIN s : s[i] \in E
      /\ \A e \in E : \E i \in DOMAIN s : s[i] = e
  BY EdgeEnds, ArrangementRange DEF Entries
<1>2. DOMAIN s = 1..Len(s) /\ Len(s) \in Nat
  BY <1>1
<1>3. \A e \in E : e.src \in Node /\ e.dst \in Node
  BY EdgeEnds DEF Srcs, Dsts
<1>4. SrcsInOrder(s) \in [1..Len(s) -> Node] /\ DstsInOrder(s) \in [1..Len(s) -> Node]
  BY <1>1, <1>2, <1>3 DEF SrcsInOrder, DstsInOrder
<1>5. SrcsInOrder(s) \in Seq(Node) /\ DstsInOrder(s) \in Seq(Node)
  BY <1>2, <1>4
<1>6. /\ DOMAIN SrcsInOrder(s) = DOMAIN s
      /\ DOMAIN DstsInOrder(s) = DOMAIN s
      /\ \A i \in DOMAIN s : SrcsInOrder(s)[i] = s[i].src /\ DstsInOrder(s)[i] = s[i].dst
  BY DEF SrcsInOrder, DstsInOrder
<1>7. \A x : (\E i \in DOMAIN s : s[i].src = x) <=> x \in Srcs(E)
  BY <1>1 DEF Srcs
<1>8. \A x : (\E i \in DOMAIN s : s[i].dst = x) <=> x \in Dsts(E)
  BY <1>1 DEF Dsts
<1> QED
  BY <1>5, <1>6, <1>7, <1>8 DEF Entries

\* A turn that takes the last entry and pushes others: what is known afterwards.
LEMMA PushAfterBack ==
  ASSUME worklist \in Seq(Node), worklist # << >>, done' = done \cup {Back},
         NEW s \in Seq(Node), worklist' = PopBack \o s
  PROVE  /\ worklist' \in Seq(Node)
         /\ Back \in Node /\ Back \in Waiting
         /\ Known' = Known \cup Entries(s)
<1>1. /\ worklist' \in Seq(Node)
      /\ Back \in Node
      /\ Back \in Entries(worklist)
      /\ Entries(worklist') \cup {Back} = Entries(worklist) \cup Entries(s)
  BY PopBackRange DEF Back, PopBack
<1>2. Waiting = Entries(worklist) /\ Waiting' = Entries(worklist')
  BY DEF Waiting, Entries
<1> QED
  BY <1>1, <1>2 DEF Known

\* The same for an entry taken from the front.
LEMMA PushAfterFront ==
  ASSUME worklist \in Seq(Node), worklist # << >>, done' = done \cup {Head(worklist)},
         NEW s \in Seq(Node), worklist' = Tail(worklist) \o s
  PROVE  /\ worklist' \in Seq(Node)
         /\ Head(worklist) \in Node /\ Head(worklist) \in Waiting
         /\ Known' = Known \cup Entries(s)
<1>1. /\ worklist' \in Seq(Node)
      /\ Head(worklist) \in Node
      /\ Head(worklist) \in Entries(worklist)
      /\ Entries(worklist') \cup {Head(worklist)} = Entries(worklist) \cup Entries(s)
  BY PopFrontRange
<1>2. Waiting = Entries(worklist) /\ Waiting' = Entries(worklist')
  BY DEF Waiting, Entries
<1> QED
  BY <1>1, <1>2 DEF Known
-----------------------------------------------------------------------------
(* What one turn does to the invariant. *)

\* The types, and which searches mark.
TypeInv ==
  /\ TypeOK
  /\ search \in Searches
  /\ op \notin Marking \cup {"paths"} => visited = {}

\* What is asked decides Around, Wanted and the first answer.
LEMMA SameQuestion ==
  ASSUME UNCHANGED <<search, op, start>>
  PROVE  /\ \A n : Around(n)' = Around(n) /\ Wanted(n)' = Wanted(n)
         /\ InitRet(op)' = InitRet(op)
<1>1. \A n : In(n)' = In(n) /\ Out(n)' = Out(n)
  BY DEF In, Out
<1>2. \A E : Kept(E)' = Kept(E) /\ Addrs(E)' = Addrs(E) /\ Stores(E)' = Stores(E)
  BY DEF Kept, Addrs, Stores
<1>3. \A n : Around(n)' = Around(n) /\ Wanted(n)' = Wanted(n)
  BY <1>1, <1>2 DEF Around, Wanted
<1>4. InitRet(op)' = InitRet(op)
  BY DEF InitRet, StartIsDef, AlreadyThere, AddressTaken, Out
<1> QED
  BY <1>3, <1>4

\* A node is handled and the search goes on.
LEMMA NodeHandled ==
  ASSUME SearchInv, op # "paths", ~Stopped, UNCHANGED <<search, op, start>>,
         NEW c \in Waiting, done' = done \cup {c},
         NEW New, Known' = Known \cup New,
         New \subseteq Around(c), Around(c) \subseteq Known \cup New,
         visited' \subseteq Known \cup New,
         op \notin Stops => ret' = ret \cup Wanted(c),
         op \in Stops => ret' = ret /\ Wanted(c) = {},
         op = "avoid" => visited' \subseteq done' /\ search.goal \notin New,
         op = "vfg" => visited' = ret'
  PROVE  SearchInv'
<1> DEFINE All == InitRet(op) \cup UNION {Wanted(n) : n \in done}
           All2 == InitRet(op) \cup UNION {Wanted(n) : n \in done'}
<1>1. WithinReach /\ NothingForgotten /\ SelectedSoFar /\ GoalAhead /\ MarkedIsAnswer
  BY DEF SearchInv
<1>2. /\ \A n : Around(n)' = Around(n) /\ Wanted(n)' = Wanted(n)
      /\ InitRet(op)' = InitRet(op)
  BY SameQuestion
<1>3. \A S : Closed(S)' <=> Closed(S)
  BY <1>2 DEF Closed
<1>4. ~Stopped'
  BY DEF Stopped
<1>5. c \in Known
  BY DEF Known
<1>6. WithinReach'
  BY <1>1, <1>3, <1>5 DEF WithinReach, Closed
<1>7. NothingForgotten'
  <2>1. start' \in Known' /\ visited' \subseteq Known'
    BY <1>1 DEF NothingForgotten
  <2>2. \A n \in done' : Around(n) \subseteq Known'
    BY <1>1 DEF NothingForgotten
  <2> QED
    BY <1>2, <2>1, <2>2 DEF NothingForgotten
<1>8. SelectedSoFar'
  <2>1. All2 = All \cup Wanted(c)
    OBVIOUS
  <2>2. ret \subseteq All /\ (op \notin Stops => All \subseteq ret)
    BY <1>1 DEF SelectedSoFar
  <2>3. ret' \subseteq All2 /\ (op \notin Stops => All2 \subseteq ret')
    BY <2>1, <2>2
  <2>4. op \in Stops => InitRet(op) = {} /\ \A n \in done' : Wanted(n) = {}
    BY <1>1 DEF SelectedSoFar
  <2>5. (UNION {Wanted(n) : n \in done})' = UNION {Wanted(n) : n \in done'}
    BY <1>2
  <2> QED
    BY <1>2, <1>4, <2>3, <2>4, <2>5 DEF SelectedSoFar
<1>9. GoalAhead'
  BY <1>1 DEF GoalAhead, Stops, Stopped
<1>10. MarkedIsAnswer'
  BY DEF MarkedIsAnswer, Stops
<1> QED
  BY <1>6, <1>7, <1>8, <1>9, <1>10 DEF SearchInv

\* A node is found and the worklist dropped.
LEMMA NodeFound ==
  ASSUME SearchInv, op \in Stops, ~Stopped, UNCHANGED <<search, op, start>>,
         NEW c \in Waiting, done' = done \cup {c},
         NEW x \in Wanted(c), Found(x),
         op = "avoid" => visited' \subseteq done'
  PROVE  SearchInv'
<1>1. WithinReach /\ NothingForgotten /\ SelectedSoFar /\ GoalAhead /\ MarkedIsAnswer
  BY DEF SearchInv, Stops
<1>2. /\ \A n : Around(n)' = Around(n) /\ Wanted(n)' = Wanted(n)
      /\ InitRet(op)' = InitRet(op)
  BY SameQuestion
<1>3. \A S : Closed(S)' <=> Closed(S)
  BY <1>2 DEF Closed
<1>4. Stopped' /\ worklist' = << >> /\ ret' = ret \cup {x} /\ ret = {}
  BY DEF Stopped, Found
<1>5. Known' \subseteq Known
  BY <1>4 DEF Known, Waiting
<1>6. WithinReach'
  BY <1>1, <1>3, <1>5 DEF WithinReach
<1>7. NothingForgotten'
  BY <1>4 DEF NothingForgotten
<1>8. SelectedSoFar'
  BY <1>2, <1>4 DEF SelectedSoFar
<1>9. GoalAhead'
  BY <1>4 DEF GoalAhead
<1>10. MarkedIsAnswer'
  BY DEF MarkedIsAnswer, Stops
<1> QED
  BY <1>6, <1>7, <1>8, <1>9, <1>10 DEF SearchInv

\* A worklist that is not empty belongs to a search that nothing stopped.
LEMMA GoesOn ==
  ASSUME SearchInv, op # "paths", worklist # << >>
  PROVE  ~Stopped
  BY DEF SearchInv, SelectedSoFar

-----------------------------------------------------------------------------
(* One lemma per action: it keeps the types and the invariant. *)

LEMMA selectDefsKeeps ==
  ASSUME TypeInv, SearchInv, selectDefs
  PROVE  TypeInv' /\ SearchInv'
<1> DEFINE around == Srcs({e \in Kept(In(Back)) : e.kind # "addr"})
           fresh == around \ visited
<1>1. /\ op \in {"defs", "storedefs"}
      /\ worklist # << >> /\ worklist \in Seq(Node)
      /\ done' = done \cup {Back}
      /\ UNCHANGED <<search, op, start, stack, paths>>
      /\ visited' = visited \cup fresh \cup {Back}
      /\ ret' = ret \cup Srcs(Addrs(In(Back)))
  BY DEF selectDefs, Turn, TypeInv, TypeOK
<1>2. PICK s \in Arrangements(fresh) : worklist' = PopBack \o s
  BY DEF selectDefs
<1>3. around \subseteq Node /\ Srcs(Addrs(In(Back))) \subseteq Node
  BY EdgeEnds DEF Kept, In, Addrs, TypeInv
<1>4. s \in Seq(Node) /\ Entries(s) = fresh
  BY <1>2, <1>3, OrderedNodes
<1>5. /\ worklist' \in Seq(Node)
      /\ Back \in Node /\ Back \in Waiting
      /\ Known' = Known \cup fresh
  BY <1>1, <1>2, <1>4, PushAfterBack
<1>6. Around(Back) = around /\ Wanted(Back) = Srcs(Addrs(In(Back)))
  BY <1>1 DEF Around, Wanted
<1> HIDE DEF around
<1>d. Srcs(Addrs(In(Back))) \subseteq Node \ search.dummy
  BY <1>3 DEF Srcs, Addrs, Kept
<1>7. TypeInv'
  BY <1>1, <1>3, <1>5, <1>d DEF TypeInv, TypeOK, Marking
<1>8. op # "paths" /\ op \notin Stops
  BY <1>1 DEF Stops
<1>9. ~Stopped
  BY <1>8 DEF Stopped
<1>10. visited \subseteq Known
  BY <1>8, <1>9 DEF SearchInv, NothingForgotten
<1>11. Back \in Known
  BY <1>5 DEF Known
<1>12. SearchInv'
  BY <1>1, <1>5, <1>6, <1>8, <1>9, <1>10, <1>11, NodeHandled
<1> QED
  BY <1>7, <1>12

LEMMA traverseOnVFGKeeps ==
  ASSUME TypeInv, SearchInv, traverseOnVFG
  PROVE  TypeInv' /\ SearchInv'
<1> DEFINE around == Dsts(Out(Head(worklist)))
           fresh == around \ visited
<1>1. /\ op = "vfg"
      /\ worklist # << >> /\ worklist \in Seq(Node)
      /\ done' = done \cup {Head(worklist)}
      /\ UNCHANGED <<search, op, start, stack, paths>>
      /\ visited' = visited \cup fresh
      /\ ret' = ret \cup fresh
  BY DEF traverseOnVFG, Turn, TypeInv, TypeOK
<1>2. PICK s \in Arrangements(fresh) : worklist' = Tail(worklist) \o s
  BY DEF traverseOnVFG
<1>3. around \subseteq Node
  BY EdgeEnds DEF Out, TypeInv
<1>4. s \in Seq(Node) /\ Entries(s) = fresh
  BY <1>2, <1>3, OrderedNodes
<1>5. /\ worklist' \in Seq(Node)
      /\ Head(worklist) \in Node /\ Head(worklist) \in Waiting
      /\ Known' = Known \cup fresh
  BY <1>1, <1>2, <1>4, PushAfterFront
<1>6. Around(Head(worklist)) = around /\ Wanted(Head(worklist)) = around
  BY <1>1 DEF Around, Wanted
<1> HIDE DEF around
<1>7. TypeInv'
  BY <1>1, <1>3, <1>5 DEF TypeInv, TypeOK, Marking
<1>8. op # "paths" /\ op \notin Stops /\ op # "avoid"
  BY <1>1 DEF Stops
<1>9. ~Stopped
  BY <1>8 DEF Stopped
<1>10. visited \subseteq Known
  BY <1>8, <1>9 DEF SearchInv, NothingForgotten
<1>11. visited = ret
  BY <1>1, <1>8 DEF SearchInv, MarkedIsAnswer
<1>12. visited' = ret' /\ ret' = ret \cup around
  BY <1>1, <1>11
<1>13. SearchInv'
  BY <1>1, <1>5, <1>6, <1>8, <1>9, <1>10, <1>12, NodeHandled
<1> QED
  BY <1>7, <1>13


LEMMA traverseAndWriteToCSVKeeps ==
  ASSUME TypeInv, SearchInv, traverseAndWriteToCSV
  PROVE  TypeInv' /\ SearchInv'
<1> DEFINE around == Dsts(Out(Head(worklist)))
           fresh == around \ visited
<1>1. /\ op = "csv"
      /\ worklist # << >> /\ worklist \in Seq(Node)
      /\ done' = done \cup {Head(worklist)}
      /\ UNCHANGED <<search, op, start, stack, paths>>
      /\ visited' = visited \cup fresh
      /\ ret' = ret \cup {Head(worklist)}
  BY DEF traverseAndWriteToCSV, Turn, TypeInv, TypeOK
<1>2. PICK s \in Arrangements(fresh) : worklist' = Tail(worklist) \o s
  BY DEF traverseAndWriteToCSV
<1>3. around \subseteq Node
  BY EdgeEnds DEF Out, TypeInv
<1>4. s \in Seq(Node) /\ Entries(s) = fresh
  BY <1>2, <1>3, OrderedNodes
<1>5. /\ worklist' \in Seq(Node)
      /\ Head(worklist) \in Node /\ Head(worklist) \in Waiting
      /\ Known' = Known \cup fresh
  BY <1>1, <1>2, <1>4, PushAfterFront
<1>6. Around(Head(worklist)) = around /\ Wanted(Head(worklist)) = {Head(worklist)}
  BY <1>1 DEF Around, Wanted
<1> HIDE DEF around
<1>7. TypeInv'
  BY <1>1, <1>3, <1>5 DEF TypeInv, TypeOK, Marking
<1>8. op # "paths" /\ op \notin Stops /\ op # "avoid"
  BY <1>1 DEF Stops
<1>9. ~Stopped
  BY <1>8 DEF Stopped
<1>10. visited \subseteq Known
  BY <1>8, <1>9 DEF SearchInv, NothingForgotten
<1>12. SearchInv'
  BY <1>1, <1>5, <1>6, <1>8, <1>9, <1>10, NodeHandled
<1> QED
  BY <1>7, <1>12

LEMMA selectCallBlockNodesKeeps ==
  ASSUME TypeInv, SearchInv, selectCallBlockNodes
  PROVE  TypeInv' /\ SearchInv'
<1> DEFINE new == {e \in In(Back) : e.src \notin visited \cup {Back}}
<1>1. /\ op = "callblocks"
      /\ worklist # << >> /\ worklist \in Seq(Node)
      /\ done' = done \cup {Back}
      /\ UNCHANGED <<search, op, start, stack, paths>>
      /\ visited' = visited \cup {Back}
      /\ ret' = ret \cup ({Back} \cap search.calls)
  BY DEF selectCallBlockNodes, Turn, TypeInv, TypeOK
<1>2. PICK s \in Arrangements(new) : worklist' = PopBack \o SrcsInOrder(s)
  BY DEF selectCallBlockNodes
<1>3. new \in SUBSET search.edges
  BY DEF In
<1>4. SrcsInOrder(s) \in Seq(Node) /\ Entries(SrcsInOrder(s)) = Srcs(new)
  BY <1>2, <1>3, OrderedEnds DEF TypeInv
<1>5. /\ worklist' \in Seq(Node)
      /\ Back \in Node /\ Back \in Waiting
      /\ Known' = Known \cup Srcs(new)
  BY <1>1, <1>2, <1>4, PushAfterBack
<1>6. Around(Back) = Srcs(In(Back)) /\ Wanted(Back) = {Back} \cap search.calls
  BY <1>1 DEF Around, Wanted
<1>7. Srcs(In(Back)) \subseteq Srcs(new) \cup visited \cup {Back} /\ Srcs(new) \subseteq Srcs(In(Back))
  BY DEF Srcs
<1>8. op # "paths" /\ op \notin Stops /\ op # "avoid" /\ op # "vfg"
  BY <1>1 DEF Stops
<1>9. TypeInv'
  BY <1>1, <1>5 DEF TypeInv, TypeOK, Marking
<1> HIDE DEF new
<1>10. ~Stopped
  BY <1>8 DEF Stopped
<1>11. visited \subseteq Known /\ Back \in Known
  BY <1>5, <1>8, <1>10 DEF SearchInv, NothingForgotten, Known
<1>12. /\ Srcs(new) \subseteq Around(Back) /\ Around(Back) \subseteq Known \cup Srcs(new)
       /\ visited' \subseteq Known \cup Srcs(new)
       /\ ret' = ret \cup Wanted(Back)
  BY <1>1, <1>6, <1>7, <1>11
<1>13. SearchInv'
  BY <1>1, <1>5, <1>8, <1>10, <1>12, NodeHandled
<1> QED
  BY <1>9, <1>13

LEMMA selectAllStoreKeeps ==
  ASSUME TypeInv, SearchInv, selectAllStore
  PROVE  TypeInv' /\ SearchInv'
<1> DEFINE new == Kept(Out(Back))
<1>1. /\ op = "allstore"
      /\ worklist # << >> /\ worklist \in Seq(Node)
      /\ done' = done \cup {Back}
      /\ UNCHANGED <<search, op, start, visited, stack, paths>>
      /\ ret' = ret \cup Dsts(Stores(Out(Back)))
  BY DEF selectAllStore, Turn, TypeInv, TypeOK
<1>2. PICK s \in Arrangements(new) : worklist' = PopBack \o DstsInOrder(s)
  BY DEF selectAllStore
<1>3. new \in SUBSET search.edges /\ Stores(Out(Back)) \in SUBSET search.edges
  BY DEF Out, Kept, Stores
<1>4. DstsInOrder(s) \in Seq(Node) /\ Entries(DstsInOrder(s)) = Dsts(new)
  BY <1>2, <1>3, OrderedEnds DEF TypeInv
<1>5. /\ worklist' \in Seq(Node)
      /\ Back \in Node /\ Back \in Waiting
      /\ Known' = Known \cup Dsts(new)
  BY <1>1, <1>2, <1>4, PushAfterBack
<1>6. Around(Back) = Dsts(new) /\ Wanted(Back) = Dsts(Stores(Out(Back)))
  BY <1>1 DEF Around, Wanted
<1>7. Dsts(Stores(Out(Back))) \subseteq Node
  BY <1>3, EdgeEnds DEF TypeInv
<1>8. op # "paths" /\ op \notin Stops /\ op # "avoid" /\ op # "vfg"
  BY <1>1 DEF Stops
<1>9. TypeInv'
  BY <1>1, <1>5, <1>7 DEF TypeInv, TypeOK, Marking
<1> HIDE DEF new
<1>10. ~Stopped
  BY <1>8 DEF Stopped
<1>11. visited \subseteq Known
  BY <1>8, <1>10 DEF SearchInv, NothingForgotten
<1>12. SearchInv'
  BY <1>1, <1>5, <1>6, <1>8, <1>10, <1>11, NodeHandled
<1> QED
  BY <1>9, <1>12


LEMMA selectFirstStoreKeeps ==
  ASSUME TypeInv, SearchInv, selectFirstStore
  PROVE  TypeInv' /\ SearchInv'
<1> DEFINE stores == Stores(Out(Back))
           new == Kept(Out(Back))
<1>1. /\ op \in {"firststore", "target"}
      /\ worklist # << >> /\ worklist \in Seq(Node)
      /\ done' = done \cup {Back}
      /\ UNCHANGED <<search, op, start, visited, stack, paths>>
  BY DEF selectFirstStore, Turn, TypeInv, TypeOK
<1>2. \/ \E e \in stores : Found(e.dst)
      \/ /\ stores = {}
         /\ \E s \in Arrangements(new) : worklist' = PopBack \o DstsInOrder(s)
         /\ ret' = ret
  BY DEF selectFirstStore
<1>3. new \in SUBSET search.edges /\ stores \in SUBSET search.edges
  BY DEF Out, Kept, Stores, Addrs
<1>4. Dsts(stores) \subseteq Node
  BY <1>3, EdgeEnds DEF TypeInv
<1>5. Around(Back) = Dsts(new \ stores) /\ Wanted(Back) = Dsts(stores)
  BY <1>1 DEF Around, Wanted
<1>6. op # "paths" /\ op \in Stops /\ op # "avoid" /\ op # "vfg"
  BY <1>1 DEF Stops
<1>7. ~Stopped
  BY <1>1, <1>6, GoesOn
<1>8. visited \subseteq Known
  BY <1>6, <1>7 DEF SearchInv, NothingForgotten
<1>9. stores = {} => Around(Back) = Dsts(new) /\ Wanted(Back) = {}
  BY <1>5 DEF Dsts, Srcs, Addrs, Stores
<1> HIDE DEF new, stores
<1>10. CASE \E e \in stores : Found(e.dst)
  <2>1. PICK e \in stores : Found(e.dst)
    BY <1>10
  <2>2. e.dst \in Wanted(Back) /\ e.dst \in Node
    BY <1>4, <1>5 DEF Dsts
  <2>3. worklist' = << >> /\ ret' = ret \cup {e.dst}
    BY <2>1 DEF Found
  <2>4. Back \in Waiting /\ Back \in Node
    BY <1>1, PopBackRange DEF Back, Waiting, Entries
  <2>5. TypeInv'
    BY <1>1, <2>2, <2>3, <2>4 DEF TypeInv, TypeOK, Marking
  <2>6. SearchInv'
    BY <1>1, <1>6, <1>7, <2>1, <2>2, <2>4, NodeFound
  <2> QED
    BY <2>5, <2>6
<1>11. CASE /\ stores = {}
            /\ \E s \in Arrangements(new) : worklist' = PopBack \o DstsInOrder(s)
            /\ ret' = ret
  <2>1. PICK s \in Arrangements(new) : worklist' = PopBack \o DstsInOrder(s)
    BY <1>11
  <2>2. DstsInOrder(s) \in Seq(Node) /\ Entries(DstsInOrder(s)) = Dsts(new)
    BY <1>3, <2>1, OrderedEnds DEF TypeInv
  <2>3. /\ worklist' \in Seq(Node)
        /\ Back \in Node /\ Back \in Waiting
        /\ Known' = Known \cup Dsts(new)
    BY <1>1, <2>1, <2>2, PushAfterBack
  <2>4. TypeInv'
    BY <1>1, <1>11, <2>3 DEF TypeInv, TypeOK, Marking
  <2>5. SearchInv'
    BY <1>1, <1>6, <1>7, <1>8, <1>9, <1>11, <2>3, NodeHandled
  <2> QED
    BY <2>4, <2>5
<1> QED
  BY <1>2, <1>10, <1>11


LEMMA selectFirstDominatorKeeps ==
  ASSUME TypeInv, SearchInv, selectFirstDominator
  PROVE  TypeInv' /\ SearchInv'
<1> DEFINE addrs == Addrs(In(Back))
           new == Kept(In(Back))
<1>1. /\ op = "firstdom"
      /\ worklist # << >> /\ worklist \in Seq(Node)
      /\ done' = done \cup {Back}
      /\ UNCHANGED <<search, op, start, visited, stack, paths>>
  BY DEF selectFirstDominator, Turn, TypeInv, TypeOK
<1>2. \/ \E e \in addrs : Found(e.src)
      \/ /\ addrs = {}
         /\ \E s \in Arrangements(new) : worklist' = PopBack \o SrcsInOrder(s)
         /\ ret' = ret
  BY DEF selectFirstDominator
<1>3. new \in SUBSET search.edges /\ addrs \in SUBSET search.edges
  BY DEF In, Kept, Stores, Addrs
<1>4. Srcs(addrs) \subseteq Node
  BY <1>3, EdgeEnds DEF TypeInv
<1>5. Around(Back) = Srcs({e \in new : e.kind # "addr"}) /\ Wanted(Back) = Srcs(addrs)
  BY <1>1 DEF Around, Wanted
<1>6. op # "paths" /\ op \in Stops /\ op # "avoid" /\ op # "vfg"
  BY <1>1 DEF Stops
<1>7. ~Stopped
  BY <1>1, <1>6, GoesOn
<1>8. visited \subseteq Known
  BY <1>6, <1>7 DEF SearchInv, NothingForgotten
<1>9. addrs = {} => Around(Back) = Srcs(new) /\ Wanted(Back) = {}
  BY <1>5 DEF Dsts, Srcs, Addrs, Stores
<1>12. \A e \in addrs : e.src \notin search.dummy
  BY DEF Addrs, Kept
<1> HIDE DEF new, addrs
<1>10. CASE \E e \in addrs : Found(e.src)
  <2>1. PICK e \in addrs : Found(e.src)
    BY <1>10
  <2>2. e.src \in Wanted(Back) /\ e.src \in Node /\ e.src \notin search.dummy
    BY <1>4, <1>5, <1>12 DEF Srcs
  <2>3. worklist' = << >> /\ ret' = ret \cup {e.src}
    BY <2>1 DEF Found
  <2>4. Back \in Waiting /\ Back \in Node
    BY <1>1, PopBackRange DEF Back, Waiting, Entries
  <2>5. TypeInv'
    BY <1>1, <2>2, <2>3, <2>4 DEF TypeInv, TypeOK, Marking
  <2>6. SearchInv'
    BY <1>1, <1>6, <1>7, <2>1, <2>2, <2>4, NodeFound
  <2> QED
    BY <2>5, <2>6
<1>11. CASE /\ addrs = {}
            /\ \E s \in Arrangements(new) : worklist' = PopBack \o SrcsInOrder(s)
            /\ ret' = ret
  <2>1. PICK s \in Arrangements(new) : worklist' = PopBack \o SrcsInOrder(s)
    BY <1>11
  <2>2. SrcsInOrder(s) \in Seq(Node) /\ Entries(SrcsInOrder(s)) = Srcs(new)
    BY <1>3, <2>1, OrderedEnds DEF TypeInv
  <2>3. /\ worklist' \in Seq(Node)
        /\ Back \in Node /\ Back \in Waiting
        /\ Known' = Known \cup Srcs(new)
    BY <1>1, <2>1, <2>2, PushAfterBack
  <2>4. TypeInv'
    BY <1>1, <1>11, <2>3 DEF TypeInv, TypeOK, Marking
  <2>5. SearchInv'
    BY <1>1, <1>6, <1>7, <1>8, <1>9, <1>11, <2>3, NodeHandled
  <2> QED
    BY <2>4, <2>5
<1> QED
  BY <1>2, <1>10, <1>11

LEMMA hasPathKeeps ==
  ASSUME TypeInv, SearchInv, hasPath
  PROVE  TypeInv' /\ SearchInv'
<1> DEFINE around == Dsts(Out(Back))
           fresh == around \ (visited \cup {Back})
<1>1. /\ op = "path"
      /\ worklist # << >> /\ worklist \in Seq(Node)
      /\ done' = done \cup {Back}
      /\ UNCHANGED <<search, op, start, stack, paths>>
  BY DEF hasPath, Turn, TypeInv, TypeOK
<1>2. \/ Back = search.goal /\ Found(Back) /\ visited' = visited
      \/ /\ Back # search.goal
         /\ \E s \in Arrangements(fresh) : worklist' = PopBack \o s
         /\ visited' = visited \cup {Back}
         /\ ret' = ret
  BY DEF hasPath
<1>3. around \subseteq Node
  BY EdgeEnds DEF Out, TypeInv
<1>4. Around(Back) = around /\ Wanted(Back) = {Back} \cap {search.goal}
  BY <1>1 DEF Around, Wanted
<1>5. op # "paths" /\ op \in Stops /\ op # "avoid" /\ op # "vfg"
  BY <1>1 DEF Stops
<1>6. ~Stopped
  BY <1>1, <1>5, GoesOn
<1>7. Back \in Waiting /\ Back \in Node
  BY <1>1, PopBackRange DEF Back, Waiting, Entries
<1>8. visited \subseteq Known /\ Back \in Known
  BY <1>5, <1>6, <1>7 DEF SearchInv, NothingForgotten, Known
<1> HIDE DEF around
<1>9. CASE Back = search.goal /\ Found(Back) /\ visited' = visited
  <2>1. worklist' = << >> /\ ret' = ret \cup {Back} /\ Back \in Wanted(Back)
    BY <1>4, <1>9 DEF Found
  <2>2. TypeInv'
    BY <1>1, <1>7, <1>9, <2>1 DEF TypeInv, TypeOK, Marking
  <2>3. SearchInv'
    BY <1>1, <1>5, <1>6, <1>7, <1>9, <2>1, NodeFound
  <2> QED
    BY <2>2, <2>3
<1>10. CASE /\ Back # search.goal
            /\ \E s \in Arrangements(fresh) : worklist' = PopBack \o s
            /\ visited' = visited \cup {Back}
            /\ ret' = ret
  <2>1. PICK s \in Arrangements(fresh) : worklist' = PopBack \o s
    BY <1>10
  <2>2. s \in Seq(Node) /\ Entries(s) = fresh
    BY <1>3, <2>1, OrderedNodes
  <2>3. worklist' \in Seq(Node) /\ Known' = Known \cup fresh
    BY <1>1, <2>1, <2>2, PushAfterBack
  <2>4. TypeInv'
    BY <1>1, <1>7, <1>10, <2>3 DEF TypeInv, TypeOK, Marking
  <2>5. /\ fresh \subseteq Around(Back) /\ Around(Back) \subseteq Known \cup fresh
        /\ visited' \subseteq Known \cup fresh /\ Wanted(Back) = {} /\ ret' = ret
    BY <1>4, <1>8, <1>10
  <2>6. SearchInv'
    BY <1>1, <1>5, <1>6, <1>7, <2>3, <2>5, NodeHandled
  <2> QED
    BY <2>4, <2>6
<1> QED
  BY <1>2, <1>9, <1>10

LEMMA existPathKeeps ==
  ASSUME TypeInv, SearchInv, existPathWithoutForbiddenNodes
  PROVE  TypeInv' /\ SearchInv'
<1> DEFINE c == Head(worklist)
           marked == visited \cup {c}
           open == {e \in Out(c) : e.dst \notin search.forbid \cup marked}
<1>1. /\ op = "avoid"
      /\ worklist # << >> /\ worklist \in Seq(Node)
      /\ done' = done \cup {c}
      /\ UNCHANGED <<search, op, start, stack, paths>>
  BY DEF existPathWithoutForbiddenNodes, Turn, TypeInv, TypeOK
<1>2. \/ c \in visited /\ worklist' = Tail(worklist) /\ visited' = visited /\ ret' = ret
      \/ c \notin visited /\ visited' = marked /\ search.goal \in Dsts(open) /\ Found(search.goal)
      \/ /\ c \notin visited /\ visited' = marked /\ search.goal \notin Dsts(open) /\ ret' = ret
         /\ \E s \in Arrangements(open) : worklist' = Tail(worklist) \o DstsInOrder(s)
  BY DEF existPathWithoutForbiddenNodes
<1>3. open \in SUBSET search.edges /\ search.goal \in Node
  BY SearchAssumption DEF Out, TypeInv, Search
<1>4. /\ Around(c) = Dsts(Out(c)) \ search.forbid
      /\ Wanted(c) = (Dsts(Out(c)) \ search.forbid) \cap {search.goal}
  BY <1>1 DEF Around, Wanted
<1>5. /\ Dsts(open) \subseteq Around(c)
      /\ Around(c) \subseteq Dsts(open) \cup marked
  BY <1>4 DEF Dsts
<1>6. op # "paths" /\ op \in Stops /\ op # "vfg"
  BY <1>1 DEF Stops
<1>7. ~Stopped /\ ret = {}
  BY <1>1, <1>6, GoesOn DEF Stopped
<1>8. c \in Waiting /\ c \in Node
  BY <1>1, PopFrontRange DEF Waiting, Entries
<1>9. /\ visited \subseteq done /\ visited \subseteq Known /\ c \in Known
      /\ search.goal \notin Known /\ \A n \in done : Around(n) \subseteq Known /\ Wanted(n) = {}
  BY <1>1, <1>6, <1>7, <1>8 DEF SearchInv, NothingForgotten, GoalAhead, SelectedSoFar, Known
<1>10. << >> \in Seq(Node) /\ Entries(<< >>) = {}
  BY DEF Entries
<1> HIDE DEF c, open
<1>11. CASE c \in visited /\ worklist' = Tail(worklist) /\ visited' = visited /\ ret' = ret
  <2>1. worklist' = Tail(worklist) \o << >>
    BY <1>1, <1>11
  <2>2. worklist' \in Seq(Node) /\ Known' = Known \cup {}
    BY <1>1, <1>10, <2>1, PushAfterFront DEF c
  <2>3. TypeInv'
    BY <1>1, <1>8, <1>11, <2>2 DEF TypeInv, TypeOK, Marking
  <2>4. Around(c) \subseteq Known /\ Wanted(c) = {} /\ visited' \subseteq done'
    BY <1>1, <1>9, <1>11
  <2>5. SearchInv'
    BY <1>1, <1>6, <1>7, <1>8, <1>9, <1>11, <2>2, <2>4, NodeHandled
  <2> QED
    BY <2>3, <2>5
<1>12. CASE c \notin visited /\ visited' = marked /\ search.goal \in Dsts(open) /\ Found(search.goal)
  <2>1. worklist' = << >> /\ ret' = ret \cup {search.goal} /\ search.goal \in Wanted(c)
    BY <1>4, <1>5, <1>12 DEF Found
  <2>2. TypeInv'
    BY <1>1, <1>3, <1>8, <1>12, <2>1 DEF TypeInv, TypeOK, Marking
  <2>3. visited' \subseteq done'
    BY <1>1, <1>9, <1>12
  <2>4. SearchInv'
    BY <1>1, <1>6, <1>7, <1>8, <1>12, <2>1, <2>3, NodeFound
  <2> QED
    BY <2>2, <2>4
<1>13. CASE /\ c \notin visited /\ visited' = marked /\ search.goal \notin Dsts(open) /\ ret' = ret
            /\ \E s \in Arrangements(open) : worklist' = Tail(worklist) \o DstsInOrder(s)
  <2>1. PICK s \in Arrangements(open) : worklist' = Tail(worklist) \o DstsInOrder(s)
    BY <1>13
  <2>2. DstsInOrder(s) \in Seq(Node) /\ Entries(DstsInOrder(s)) = Dsts(open)
    BY <1>3, <2>1, OrderedEnds DEF TypeInv
  <2>3. worklist' \in Seq(Node) /\ Known' = Known \cup Dsts(open)
    BY <1>1, <2>1, <2>2, PushAfterFront DEF c
  <2>4. TypeInv'
    BY <1>1, <1>8, <1>13, <2>3 DEF TypeInv, TypeOK, Marking
  <2>5. /\ Around(c) \subseteq Known \cup Dsts(open) /\ visited' \subseteq done'
        /\ visited' \subseteq Known \cup Dsts(open)
    BY <1>1, <1>5, <1>9, <1>13
  <2>6. Wanted(c) = {}
    BY <1>4, <1>5, <1>9, <1>13
  <2>7. SearchInv'
    BY <1>1, <1>5, <1>6, <1>7, <1>8, <1>13, <2>3, <2>5, <2>6, NodeHandled
  <2> QED
    BY <2>4, <2>7
<1> QED
  BY <1>2, <1>11, <1>12, <1>13

LEMMA findTargetOfCallKeeps ==
  ASSUME TypeInv, SearchInv, findTargetOfCall
  PROVE  TypeInv' /\ SearchInv'
<1>1. PICK n \in ret : start' = n /\ worklist' = <<n>>
  BY DEF findTargetOfCall
<1>2. /\ op = "target" /\ op' = "firstdom" /\ ret' = {} /\ done' = {}
      /\ UNCHANGED <<search, visited, stack, paths>>
  BY DEF findTargetOfCall
<1>3. n \in Node /\ visited = {}
  BY <1>2 DEF TypeInv, TypeOK, Marking
<1>4. TypeInv'
  BY <1>1, <1>2, <1>3 DEF TypeInv, TypeOK, Ops
<1>5. Known' = {n}
  BY <1>1, <1>2 DEF Known, Waiting
<1>6. WithinReach'
  BY <1>1, <1>5 DEF WithinReach
<1>7. NothingForgotten'
  BY <1>1, <1>2, <1>3, <1>5 DEF NothingForgotten
<1>8. InitRet(op)' = {}
  BY <1>2 DEF InitRet
<1>9. SelectedSoFar'
  BY <1>2, <1>8 DEF SelectedSoFar, Stopped, Stops
<1>10. GoalAhead' /\ MarkedIsAnswer'
  BY <1>2 DEF GoalAhead, MarkedIsAnswer
<1> QED
  BY <1>4, <1>6, <1>7, <1>9, <1>10 DEF SearchInv

LEMMA getPathKeeps ==
  ASSUME TypeInv, SearchInv, concreteGetPathFromTo
  PROVE  TypeInv' /\ SearchInv'
<1> DEFINE n == Len(stack)
<1>1. /\ op = "paths" /\ stack \in Seq(Frame) /\ stack # << >>
      /\ UNCHANGED <<search, op, start, worklist, ret, done>>
  BY DEF concreteGetPathFromTo, TypeInv, TypeOK
<1>2. n \in Nat /\ n >= 1 /\ n \in DOMAIN stack /\ stack[n] \in Frame
  BY <1>1
<1>3. SearchInv'
  BY <1>1 DEF SearchInv
<1>4. CASE stack' = SubSeq(stack, 1, n - 1) /\ UNCHANGED <<visited, paths>>
  <2>1. stack' \in Seq(Frame)
    BY <1>1, <1>2, <1>4
  <2> QED
    BY <1>1, <1>3, <1>4, <2>1 DEF TypeInv, TypeOK
<1>5. ASSUME NEW e \in stack[n].left,
             paths' = IF e.dst = search.goal THEN paths \cup {PathTo(e.dst)} ELSE paths,
             visited' = visited \cup {e.dst},
             stack' = LET rest == [stack EXCEPT ![n] = [node |-> stack[n].node, left |-> stack[n].left \ {e}]]
                      IN IF e.dst \in visited THEN rest
                         ELSE Append(rest, [node |-> e.dst, left |-> Out(e.dst)])
      PROVE  TypeInv'
  <2> DEFINE top == [node |-> stack[n].node, left |-> stack[n].left \ {e}]
             rest == [stack EXCEPT ![n] = top]
             next == [node |-> e.dst, left |-> Out(e.dst)]
  <2>1. e \in Edge /\ e.dst \in Node
    BY <1>2 DEF Edge, Frame
  <2>2. Out(e.dst) \subseteq Edge
    BY SearchAssumption DEF Out, TypeInv, Search
  <2>3. top \in Frame /\ next \in Frame
    BY <1>2, <2>1, <2>2 DEF Frame
  <2>4. rest \in Seq(Frame)
    BY <1>1, <1>2, <2>3
  <2> HIDE DEF top, next, rest
  <2>5. Append(rest, next) \in Seq(Frame)
    BY <2>3, <2>4
  <2>6. stack' \in Seq(Frame)
    BY <1>5, <2>4, <2>5 DEF top, next, rest
  <2>7. PathTo(e.dst) \in Seq(Node)
    <3> DEFINE nodes == [i \in DOMAIN stack |-> stack[i].node]
    <3>1. nodes \in Seq(Node) /\ nodes # << >>
      <4>1. DOMAIN stack = 1..n /\ \A i \in 1..n : stack[i] \in Frame
        BY <1>1
      <4>2. \A i \in 1..n : stack[i].node \in Node
        BY <4>1 DEF Frame
      <4>3. nodes \in [1..n -> Node]
        BY <4>1, <4>2
      <4> QED
        BY <1>2, <4>3
    <3> HIDE DEF nodes
    <3>2. Tail(nodes) \in Seq(Node)
      BY <3>1
    <3>3. Append(Tail(nodes), e.dst) \in Seq(Node)
      BY <2>1, <3>2
    <3> QED
      BY <3>3 DEF PathTo, nodes
  <2>8. paths' \subseteq Seq(Node)
    BY <1>5, <2>7 DEF TypeInv, TypeOK
  <2> QED
    BY <1>1, <1>5, <2>1, <2>6, <2>8 DEF TypeInv, TypeOK
<1> QED
  BY <1>3, <1>4, <1>5 DEF concreteGetPathFromTo

LEMMA InitKeeps == Init => TypeInv /\ SearchInv
<1> SUFFICES ASSUME Init PROVE TypeInv /\ SearchInv
  OBVIOUS
<1>1. /\ search \in Searches /\ search \in Search /\ op = search.op
      /\ op \in Ops /\ search.top \in Node
  BY SearchAssumption DEF Init, Search
<1>2. start \in Node
  <2>1. Defining(search.top) \in SUBSET search.edges
    BY DEF Defining, In
  <2>2. findDefNodesFromStore(search.top) \subseteq Node
    BY <1>1, <2>1, EdgeEnds DEF findDefNodesFromStore
  <2> QED
    BY <1>1, <2>2 DEF Init
<1>3. ret \subseteq {start} /\ ret = InitRet(op) /\ done = {} /\ paths = {}
  BY DEF Init, InitRet, StartIsDef, AlreadyThere
<1>4. /\ worklist = IF op = "paths" \/ (op = "avoid" /\ ret # {}) THEN << >> ELSE <<start>>
      /\ visited = IF op \in {"csv", "paths"} THEN {start} ELSE {}
      /\ stack = IF op = "paths" THEN <<[node |-> start, left |-> Out(start)]>> ELSE << >>
  BY DEF Init
<1>5. Out(start) \subseteq Edge
  BY <1>1 DEF Out, Search
<1>6. TypeInv
  <2>1. worklist \in Seq(Node)
    BY <1>2, <1>4
  <2> DEFINE first == [node |-> start, left |-> Out(start)]
  <2>2. first \in Frame
    BY <1>2, <1>5 DEF Frame
  <2> HIDE DEF first
  <2>3. <<first>> \in Seq(Frame) /\ << >> \in Seq(Frame)
    BY <2>2
  <2>5. stack \in Seq(Frame)
    BY <1>4, <2>3 DEF first
  <2>4. visited \subseteq Node /\ (op \notin Marking \cup {"paths"} => visited = {})
    BY <1>2, <1>4 DEF Marking
  <2>6. ret \subseteq IF op \in {"defs", "firstdom"} THEN Node \ search.dummy ELSE Node
    BY <1>2, <1>3 DEF InitRet
  <2> QED
    BY <1>1, <1>2, <1>3, <2>1, <2>4, <2>5, <2>6 DEF TypeInv, TypeOK
<1>7. ASSUME op # "paths" PROVE SearchInv
  <2>1. worklist = IF op = "avoid" /\ ret # {} THEN << >> ELSE <<start>>
    BY <1>4, <1>7
  <2>2. Known \subseteq {start} /\ (worklist # << >> => Known = {start})
    BY <1>3, <2>1 DEF Known, Waiting
  <2>3. WithinReach
    BY <2>2 DEF WithinReach
  <2>4. op \in Stops /\ op # "avoid" => ret = {}
    BY <1>3 DEF InitRet, Stops
  <2>5. Stopped <=> worklist = << >>
    <3>1. CASE op = "avoid"
      BY <2>1, <3>1 DEF Stopped, Stops
    <3>2. CASE op # "avoid"
      BY <2>1, <2>4, <3>2 DEF Stopped
    <3> QED
      BY <3>1, <3>2
  <2>6. visited \subseteq {start} /\ (op # "csv" => visited = {})
    BY <1>4, <1>7
  <2>7. NothingForgotten
    BY <1>3, <2>2, <2>5, <2>6 DEF NothingForgotten
  <2>8. SelectedSoFar
    BY <1>3, <2>5 DEF SelectedSoFar, Stopped
  <2>9. GoalAhead
    <3>1. op = "avoid" /\ ret = {} => start # search.goal
      BY <1>3 DEF InitRet, AlreadyThere
    <3> QED
      BY <2>2, <2>6, <3>1 DEF GoalAhead
  <2>10. MarkedIsAnswer
    BY <1>3, <2>6 DEF MarkedIsAnswer, InitRet
  <2> QED
    BY <2>3, <2>7, <2>8, <2>9, <2>10 DEF SearchInv
<1> QED
  BY <1>6, <1>7 DEF SearchInv

LEMMA NothingHappens ==
  ASSUME TypeInv, SearchInv, UNCHANGED vars
  PROVE  TypeInv' /\ SearchInv'
<1>1. UNCHANGED <<search, op, start>> /\ worklist' = worklist /\ visited' = visited
      /\ ret' = ret /\ done' = done /\ stack' = stack /\ paths' = paths
  BY DEF vars
<1>2. /\ \A n : Around(n)' = Around(n) /\ Wanted(n)' = Wanted(n)
      /\ InitRet(op)' = InitRet(op)
  BY <1>1, SameQuestion
<1>3. \A S : Closed(S)' <=> Closed(S)
  BY <1>2 DEF Closed
<1>4. Known' = Known
  BY <1>1 DEF Known, Waiting
<1>5. WithinReach' <=> WithinReach
  BY <1>1, <1>3, <1>4 DEF WithinReach
<1>6. NothingForgotten' <=> NothingForgotten
  BY <1>1, <1>2, <1>4 DEF NothingForgotten, Stopped
<1>7. (UNION {Wanted(n) : n \in done})' = UNION {Wanted(n) : n \in done}
  BY <1>1, <1>2
<1>8. SelectedSoFar' <=> SelectedSoFar
  BY <1>1, <1>2, <1>7 DEF SelectedSoFar, Stopped
<1>9. GoalAhead' <=> GoalAhead
  BY <1>1, <1>4 DEF GoalAhead
<1>10. MarkedIsAnswer' <=> MarkedIsAnswer
  BY <1>1 DEF MarkedIsAnswer
<1>11. TypeInv'
  BY <1>1 DEF TypeInv, TypeOK
<1> QED
  BY <1>1, <1>5, <1>6, <1>8, <1>9, <1>10, <1>11 DEF SearchInv

\* When the worklist is empty the invariant says what the answer is.
LEMMA EmptyWorklist == TypeInv /\ SearchInv => SearchExact
<1> SUFFICES ASSUME TypeInv, SearchInv, op # "paths", worklist = << >>
             PROVE  /\ ret \subseteq Answer
                    /\ op \in Stops => (Answer # {} => ret # {})
                    /\ op \notin Stops => Answer \subseteq ret
  BY DEF SearchExact
<1> DEFINE sofar == InitRet(op) \cup UNION {Wanted(n) : n \in done}
<1>1. WithinReach /\ NothingForgotten /\ SelectedSoFar
  BY DEF SearchInv
<1>2. Known = done /\ done \subseteq Node
  BY DEF Known, Waiting, TypeInv, TypeOK
<1>3. done \subseteq Reached
  BY <1>1, <1>2 DEF WithinReach, Reached
<1>4. ret \subseteq sofar /\ sofar \subseteq Answer
  BY <1>1, <1>3 DEF SelectedSoFar, Answer
<1>5. ~Stopped => Reached \subseteq done
  <2> SUFFICES ASSUME ~Stopped PROVE Reached \subseteq done
    OBVIOUS
  <2>1. start \in done /\ Closed(done)
    BY <1>1, <1>2 DEF NothingForgotten, Closed
  <2> QED
    BY <1>2, <2>1 DEF Reached
<1>6. ~Stopped => Answer \subseteq sofar
  BY <1>5 DEF Answer
<1>7. CASE op \in Stops
  <2>1. ~Stopped => sofar = {}
    BY <1>1, <1>7 DEF SelectedSoFar
  <2> HIDE DEF sofar
  <2>2. ret \subseteq Answer
    BY <1>4
  <2>3. ret = {} => Answer = {}
    BY <1>6, <2>1 DEF Stopped
  <2> QED
    BY <1>7, <2>2, <2>3
<1>8. CASE op \notin Stops
  <2>1. ~Stopped /\ sofar \subseteq ret
    BY <1>1, <1>8 DEF SelectedSoFar, Stopped
  <2> QED
    BY <1>4, <1>6, <1>8, <2>1
<1> QED
  BY <1>7, <1>8

-----------------------------------------------------------------------------
LEMMA SearchInductive == Spec => [](TypeInv /\ SearchInv)
<1>1. Init => TypeInv /\ SearchInv
  BY InitKeeps
<1>2. TypeInv /\ SearchInv /\ [Next]_vars => (TypeInv /\ SearchInv)'
  <2> SUFFICES ASSUME TypeInv, SearchInv, [Next]_vars PROVE TypeInv' /\ SearchInv'
    OBVIOUS
  <2>1. CASE selectDefs
    BY <2>1, selectDefsKeeps
  <2>2. CASE selectFirstStore
    BY <2>2, selectFirstStoreKeeps
  <2>3. CASE selectFirstDominator
    BY <2>3, selectFirstDominatorKeeps
  <2>4. CASE selectAllStore
    BY <2>4, selectAllStoreKeeps
  <2>5. CASE findTargetOfCall
    BY <2>5, findTargetOfCallKeeps
  <2>6. CASE selectCallBlockNodes
    BY <2>6, selectCallBlockNodesKeeps
  <2>7. CASE traverseOnVFG
    BY <2>7, traverseOnVFGKeeps
  <2>8. CASE traverseAndWriteToCSV
    BY <2>8, traverseAndWriteToCSVKeeps
  <2>9. CASE hasPath
    BY <2>9, hasPathKeeps
  <2>10. CASE existPathWithoutForbiddenNodes
    BY <2>10, existPathKeeps
  <2>11. CASE concreteGetPathFromTo
    BY <2>11, getPathKeeps
  <2>12. CASE UNCHANGED vars
    BY <2>12, NothingHappens
  <2> QED
    BY <2>1, <2>2, <2>3, <2>4, <2>5, <2>6, <2>7, <2>8, <2>9, <2>10, <2>11, <2>12 DEF Next
<1> QED
  BY <1>1, <1>2, PTL DEF Spec

(***************************************************************************)
(* Types: no search of visits.cpp or svf-uaf leaves the nodes of its graph. *)
(***************************************************************************)
THEOREM SearchTypes == Spec => []TypeOK
<1>1. TypeInv /\ SearchInv => TypeOK
  BY DEF TypeInv
<1> QED
  BY <1>1, SearchInductive, PTL

(***************************************************************************)
(* For every finite graph, every question and every order of the edges:    *)
(* when the worklist of a search runs empty its answer is the one it is    *)
(* for, although each search marks nodes at another moment or not at all.  *)
(***************************************************************************)
THEOREM SearchesAreExact == Spec => []SearchExact
<1>1. TypeInv /\ SearchInv => SearchExact
  BY EmptyWorklist
<1> QED
  BY <1>1, SearchInductive, PTL

-----------------------------------------------------------------------------
(* The visit from a store. *)

StartInv == op = "storedefs" => start \in findDefNodesFromStore(search.top)

LEMMA StartInductive == Spec => []StartInv
<1>1. Init => StartInv
  BY DEF Init, StartInv
<1>2. StartInv /\ [Next]_vars => StartInv'
  <2> SUFFICES ASSUME StartInv, [Next]_vars PROVE StartInv'
    OBVIOUS
  <2>1. CASE findTargetOfCall
    BY <2>1 DEF findTargetOfCall, StartInv
  <2>2. CASE ~findTargetOfCall
    <3>1. UNCHANGED <<search, op, start>>
      BY <2>2 DEF Next, Turn, selectDefs, selectFirstStore, selectFirstDominator, selectAllStore,
                  selectCallBlockNodes, traverseOnVFG, traverseAndWriteToCSV, hasPath,
                  existPathWithoutForbiddenNodes, concreteGetPathFromTo, vars
    <3>2. findDefNodesFromStore(search.top)' = findDefNodesFromStore(search.top)
      BY <3>1 DEF findDefNodesFromStore, Defining, In
    <3> QED
      BY <3>1, <3>2 DEF StartInv
  <2> QED
    BY <2>1, <2>2
<1> QED
  BY <1>1, <1>2, PTL DEF Spec

\* What a visit from n comes to.
From(n) == {m \in Node : \A S \in SUBSET Node : n \in S /\ Closed(S) => m \in S}
Objects(n) == UNION {Wanted(m) : m \in From(n)}

LEMMA FromClosed ==
  ASSUME TypeInv, op = "storedefs", NEW n \in Node
  PROVE  /\ n \in From(n) /\ From(n) \in SUBSET Node /\ Closed(From(n))
         /\ \A S \in SUBSET Node : n \in S /\ Closed(S) => From(n) \subseteq S
<1>1. \A m : Around(m) \subseteq Node
  <2> TAKE m
  <2>1. {e \in Kept(In(m)) : e.kind # "addr"} \in SUBSET search.edges
    BY DEF Kept, In
  <2> QED
    BY <2>1, EdgeEnds DEF Around, TypeInv
<1> QED
  BY <1>1 DEF From, Closed

(***************************************************************************)
(* Behind a defining edge there is either a pointer, from which the visit  *)
(* goes on as it would have from the value stored to, or an object, with   *)
(* nothing behind it.                                                      *)
(***************************************************************************)
LEMMA BehindTheStore ==
  ASSUME TypeInv, StartInv, op = "storedefs", start \notin search.dummy,
         Defining(search.top) # {}
  PROVE  \/ /\ start \in Around(search.top) /\ ~AddressTaken(start)
         \/ /\ start \in Wanted(search.top) /\ AddressTaken(start)
            /\ Around(start) = {} /\ Wanted(start) = {}
<1> DEFINE top == search.top
<1>1. PICK e \in Defining(top) : start = e.src
  BY DEF StartInv, findDefNodesFromStore, Srcs
<1>2. e \in In(top) /\ e \in Kept(In(top)) /\ e.kind \in {"addr", "flow"} /\ e \in search.edges
  BY <1>1 DEF Defining, Kept, In
<1>3. ObjectsApart(search.edges)
  BY SearchAssumption DEF TypeInv
<1>4. CASE e.kind = "flow"
  <2>1. start \in Around(top)
    BY <1>1, <1>2, <1>4 DEF Around, Srcs
  <2>2. \A f \in search.edges : f.kind = "addr" => f.src # start
    BY <1>1, <1>2, <1>3, <1>4 DEF ObjectsApart
  <2>3. ~AddressTaken(start)
    BY <2>2 DEF AddressTaken, Out
  <2> QED
    BY <2>1, <2>3
<1>5. CASE e.kind = "addr"
  <2>1. start \in Wanted(top)
    BY <1>1, <1>2, <1>5 DEF Wanted, Addrs, Kept, Srcs
  <2>2. AddressTaken(start)
    BY <1>1, <1>2, <1>5 DEF AddressTaken, Out
  <2>3. In(start) = {}
    BY <1>1, <1>2, <1>3, <1>5 DEF ObjectsApart, In
  <2>4. Around(start) = {} /\ Wanted(start) = {}
    BY <2>3 DEF Around, Wanted, Addrs, Kept, Srcs
  <2> QED
    BY <2>1, <2>2, <2>4
<1> QED
  BY <1>2, <1>4, <1>5

(***************************************************************************)
(* findDefNodesFromStore of svf-ex, on every PAG: the objects it finds are *)
(* among those a visit from the stored-to value finds, and are all of them *)
(* when one edge alone leads to the value.                                 *)
(***************************************************************************)
THEOREM StoreDefs == Spec => []StoreDefsComplete
<1>1. TypeInv /\ SearchInv /\ StartInv => StoreDefsComplete
  <2> DEFINE top == search.top
  <2> SUFFICES ASSUME TypeInv, SearchInv, StartInv,
                      op = "storedefs", worklist = << >>, start \notin search.dummy
               PROVE  /\ ret \subseteq Objects(top) \cup StartIsDef(top)
                      /\ Cardinality(In(top)) = 1 => Objects(top) \subseteq ret
    BY DEF StoreDefsComplete, Objects, From
  <2>1. ret = StartIsDef(start) \cup Objects(start)
    <3>1. SearchExact
      BY EmptyWorklist
    <3>2. Answer = StartIsDef(start) \cup Objects(start)
      BY DEF Answer, InitRet, Reached, Objects, From
    <3> QED
      BY <3>1, <3>2 DEF SearchExact, Stops
  <2>2. top \in Node /\ start \in Node
    BY SearchAssumption DEF TypeInv, TypeOK, Search
  <2>3. /\ top \in From(top) /\ From(top) \in SUBSET Node /\ Closed(From(top))
        /\ \A S \in SUBSET Node : top \in S /\ Closed(S) => From(top) \subseteq S
    BY <2>2, FromClosed
  <2>4. /\ start \in From(start) /\ From(start) \in SUBSET Node /\ Closed(From(start))
        /\ \A S \in SUBSET Node : start \in S /\ Closed(S) => From(start) \subseteq S
    BY <2>2, FromClosed
  <2>5. CASE Defining(top) = {}
    <3>1. start = top
      BY <2>5 DEF StartInv, findDefNodesFromStore
    <3> QED
      BY <2>1, <3>1
  <2>6. CASE Defining(top) # {} /\ start \in Around(top) /\ ~AddressTaken(start)
    <3>1. StartIsDef(start) = {}
      BY <2>6 DEF StartIsDef
    <3>2. start \in From(top)
      BY <2>3, <2>6 DEF Closed
    <3>3. From(start) \subseteq From(top)
      BY <2>3, <2>4, <3>2
    <3>4. ret \subseteq Objects(top)
      BY <2>1, <3>1, <3>3 DEF Objects
    <3>5. ASSUME Cardinality(In(top)) = 1 PROVE Objects(top) \subseteq ret
      <4>1. PICK f : In(top) = {f}
        BY <3>5, EdgeEnds, FS_Singleton DEF In, TypeInv
      <4>2. Defining(top) = {f} /\ f.src = start /\ f.kind # "addr"
        <5>1. Defining(top) = {f}
          BY <2>6, <4>1 DEF Defining
        <5>2. f.src = start /\ f.kind # "addr"
          BY <2>6, <4>1 DEF Around, Srcs, Kept
        <5> QED
          BY <5>1, <5>2
      <4>3. Around(top) \subseteq {start} /\ Wanted(top) = {}
        BY <4>1, <4>2 DEF Around, Wanted, Srcs, Addrs, Kept
      <4>4. Closed({top} \cup From(start))
        BY <2>4, <4>3 DEF Closed
      <4>5. From(top) \subseteq {top} \cup From(start)
        BY <2>2, <2>3, <2>4, <4>4
      <4> QED
        BY <2>1, <4>3, <4>5 DEF Objects
    <3> QED
      BY <3>4, <3>5
  <2>7. CASE /\ Defining(top) # {} /\ start \in Wanted(top) /\ AddressTaken(start)
             /\ Around(start) = {} /\ Wanted(start) = {}
    <3>1. StartIsDef(start) = {start}
      BY <2>7 DEF StartIsDef
    <3>2. Closed({start})
      BY <2>7 DEF Closed
    <3>3. From(start) \subseteq {start}
      BY <2>2, <2>4, <3>2
    <3>4. Objects(start) = {}
      BY <2>7, <3>3 DEF Objects
    <3>5. ret = {start} /\ start \in Objects(top)
      BY <2>1, <2>3, <2>7, <3>1, <3>4 DEF Objects
    <3>6. ASSUME Cardinality(In(top)) = 1 PROVE Objects(top) \subseteq ret
      <4>1. PICK f : In(top) = {f}
        BY <3>6, EdgeEnds, FS_Singleton DEF In, TypeInv
      <4>2. f.src = start /\ f.kind = "addr"
        BY <2>7, <4>1 DEF Wanted, Srcs, Addrs, Kept
      <4>3. Around(top) = {} /\ Wanted(top) \subseteq {start}
        BY <4>1, <4>2 DEF Around, Wanted, Srcs, Addrs, Kept
      <4>4. Closed({top})
        BY <4>3 DEF Closed
      <4>5. From(top) \subseteq {top}
        BY <2>2, <2>3, <4>4
      <4> QED
        BY <3>5, <4>3, <4>5 DEF Objects
    <3> QED
      BY <3>5, <3>6
  <2> QED
    BY <2>5, <2>6, <2>7, BehindTheStore
<1> QED
  BY <1>1, SearchInductive, StartInductive, PTL

-----------------------------------------------------------------------------
(* getPathFromTo. *)

\* An edge of the graph from one node to another.
Joined(m, n) == \E e \in search.edges : e.src = m /\ e.dst = n

(***************************************************************************)
(* The open calls are a path from the start, each with edges of its own    *)
(* node left.                                                              *)
(***************************************************************************)
StackInv ==
  /\ stack # << >> => stack[1].node = start
  /\ \A i \in 1..Len(stack) : stack[i].left \subseteq Out(stack[i].node)
  /\ \A i \in 2..Len(stack) : Joined(stack[i - 1].node, stack[i].node)

\* Reached is the smallest closed set.
Reachable(n) == \A S \in SUBSET Node : start \in S /\ Closed(S) => n \in S
Hit == \E n \in Node : Reachable(n) /\ search.goal \in Dsts(Out(n))

(***************************************************************************)
(* Of a visited node each edge is either left in an open call or has been  *)
(* taken: then its end is visited, and reported when it is the goal.       *)
(***************************************************************************)
Taken(e) == e.dst \in visited /\ (e.dst = search.goal => paths # {})
StillOpen(e) == \E i \in 1..Len(stack) : e \in stack[i].left

VisitInv ==
  /\ start \in visited
  /\ \A i \in 1..Len(stack) : stack[i].node \in visited
  /\ \A n \in visited : Reachable(n)
  /\ \A n \in visited : \A e \in Out(n) : Taken(e) \/ StillOpen(e)
  /\ paths # {} => Hit

PathsInv ==
  op = "paths" =>
    /\ StackInv
    /\ VisitInv
    /\ \A p \in paths : p # << >> /\ IsPath(p)

\* The open calls with the end of one more edge are a path from the start.
LEMMA PathIsPath ==
  ASSUME TypeInv, StackInv, stack # << >>, NEW e \in search.edges,
         e.src = stack[Len(stack)].node, e.dst = search.goal,
         NEW p, p = PathTo(e.dst)
  PROVE  p # << >> /\ IsPath(p)
<1> DEFINE n == Len(stack)
           nodes == [i \in DOMAIN stack |-> stack[i].node]
           t == Tail(nodes)
<1>1. stack \in Seq(Frame) /\ n \in Nat /\ n >= 1 /\ DOMAIN stack = 1..n
  BY DEF TypeInv, TypeOK
<1>2. nodes \in Seq(Node) /\ Len(nodes) = n /\ \A i \in 1..n : nodes[i] = stack[i].node
  <2>1. \A i \in 1..n : stack[i] \in Frame
    BY <1>1
  <2>2. nodes \in [1..n -> Node]
    BY <1>1, <2>1 DEF Frame
  <2> QED
    BY <1>1, <2>2
<1> HIDE DEF nodes
<1>3. t \in Seq(Node) /\ Len(t) = n - 1 /\ \A i \in 1..(n - 1) : t[i] = nodes[i + 1]
  BY <1>1, <1>2
<1>4. e.dst \in Node
  BY EdgeEnds DEF TypeInv, Dsts
<1>5. p = Append(t, e.dst)
  BY DEF PathTo, nodes
<1> HIDE DEF t
<1>6. p \in Seq(Node) /\ Len(p) = n /\ p[n] = e.dst /\ \A i \in 1..(n - 1) : p[i] = t[i]
  <2>1. /\ p \in Seq(Node) /\ Len(p) = Len(t) + 1 /\ p[Len(t) + 1] = e.dst
        /\ \A i \in 1..Len(t) : p[i] = t[i]
    BY <1>3, <1>4, <1>5
  <2>2. Len(t) = n - 1 /\ Len(t) + 1 = n
    BY <1>1, <1>3
  <2> QED
    BY <2>1, <2>2
<1> HIDE DEF n
<1>7. \A i \in 1..(n - 1) : p[i] = stack[i + 1].node
  <2> TAKE i \in 1..(n - 1)
  <2>1. i + 1 \in 1..n
    BY <1>1
  <2> QED
    BY <1>2, <1>3, <1>6, <2>1
<1>e. e.src = stack[n].node
  BY DEF n
<1>8. ASSUME NEW i \in 1..n
      PROVE  Joined(IF i = 1 THEN start ELSE p[i - 1], p[i])
  <2>1. (IF i = 1 THEN start ELSE p[i - 1]) = stack[i].node
    <3>1. CASE i = 1
      BY <3>1 DEF StackInv
    <3>2. CASE i # 1
      <4>1. i - 1 \in 1..(n - 1) /\ (i - 1) + 1 = i
        BY <1>1, <3>2
      <4>2. p[i - 1] = stack[(i - 1) + 1].node
        BY <1>7, <4>1
      <4> QED
        BY <3>2, <4>1, <4>2
    <3> QED
      BY <3>1, <3>2
  <2>2. CASE i = n
    BY <1>6, <1>e, <2>1, <2>2 DEF Joined
  <2>3. CASE i # n
    <3>1. i \in 1..(n - 1) /\ i + 1 \in 2..n /\ (i + 1) - 1 = i
      BY <1>1, <2>3
    <3>2. Joined(stack[(i + 1) - 1].node, stack[i + 1].node)
      BY <3>1 DEF StackInv, n
    <3> QED
      BY <1>7, <2>1, <3>1, <3>2
  <2> QED
    BY <2>2, <2>3
<1>9. Len(p) = n /\ n # 0 /\ p[Len(p)] = search.goal
  BY <1>1, <1>6
<1> QED
  BY <1>8, <1>9 DEF IsPath, Joined

\* Following an edge from a node within reach.
LEMMA ReachableNext ==
  ASSUME op = "paths", NEW n, Reachable(n), NEW e \in Out(n), NEW m, m = e.dst
  PROVE  Reachable(m)
<1>1. m \in Around(n)
  BY DEF Around, Dsts
<1> QED
  BY <1>1 DEF Reachable, Closed

\* The question does not change, so neither do the graph and what is within reach.
LEMMA SameGraph ==
  ASSUME UNCHANGED <<search, op, start>>
  PROVE  /\ \A n : Out(n)' = Out(n) /\ Reachable(n)' = Reachable(n)
         /\ \A m, n : Joined(m, n)' = Joined(m, n)
         /\ \A p : IsPath(p)' = IsPath(p)
         /\ Hit' = Hit
<1>1. \A n : Out(n)' = Out(n)
  BY DEF Out
<1>2. \A S : Closed(S)' = Closed(S)
  BY SameQuestion DEF Closed
<1>3. \A n : Reachable(n)' = Reachable(n)
  BY <1>2 DEF Reachable
<1> QED
  BY <1>1, <1>3 DEF Joined, IsPath, Hit

\* A sequence without its last member.
LEMMA WithoutLast ==
  ASSUME NEW N, NEW w \in Seq(N), w # << >>, NEW q, q = SubSeq(w, 1, Len(w) - 1)
  PROVE  Len(q) = Len(w) - 1 /\ \A i \in 1..(Len(w) - 1) : q[i] = w[i]
<1> DEFINE n == Len(w) - 1
           u == SubSeq(w, 1, n)
<1>1. Len(w) \in Nat /\ Len(w) >= 1 /\ n \in Nat /\ DOMAIN w = 1..Len(w)
  OBVIOUS
<1>2. u \in Seq(N) /\ Len(u) = n /\ \A i \in 1..n : u[i] = w[i]
  BY <1>1
<1> QED
  BY <1>2

\* An open call without edges left returns.
LEMMA ReturnKeeps ==
  ASSUME TypeInv, StackInv, VisitInv, stack # << >>, stack[Len(stack)].left = {},
         stack' = SubSeq(stack, 1, Len(stack) - 1),
         UNCHANGED <<search, op, start, visited, paths>>
  PROVE  StackInv' /\ VisitInv'
<1> DEFINE n == Len(stack)
           m == Len(stack')
<1>1. stack \in Seq(Frame) /\ n \in Nat /\ n >= 1
  BY DEF TypeInv, TypeOK
<1>2. m = n - 1 /\ \A i \in 1..m : stack'[i] = stack[i]
  <2>1. m = n - 1 /\ \A i \in 1..(n - 1) : stack'[i] = stack[i]
    BY <1>1, WithoutLast
  <2> QED
    BY <2>1
<1>3. stack' # << >> => m >= 1
  BY <1>1
<1>4. stack[n].left = {}
  OBVIOUS
<1>5. StackInv /\ VisitInv
  OBVIOUS
<1>6. /\ \A k : Out(k)' = Out(k) /\ Reachable(k)' = Reachable(k)
      /\ \A j, k : Joined(j, k)' = Joined(j, k)
      /\ Hit' = Hit
  BY SameGraph
<1>7. m \in Nat
  BY <1>1, <1>2
<1>v. \A i \in 1..m : stack'[i].node \in visited'
  <2>1. \A i \in 1..m : i \in 1..n
    BY <1>1, <1>2, <1>7
  <2> QED
    BY <1>2, <2>1 DEF VisitInv
<1>8. stack' # << >> => stack'[1].node = start'
  <2>1. stack' # << >> => 1 \in 1..m
    BY <1>3, <1>7
  <2> QED
    BY <1>2, <2>1 DEF StackInv
<1>9. \A i \in 1..m : stack'[i].left \subseteq Out(stack'[i].node)
  <2>1. \A i \in 1..m : i \in 1..n
    BY <1>1, <1>2, <1>7
  <2> QED
    BY <1>2, <2>1 DEF StackInv
<1>10. \A i \in 2..m : Joined(stack'[i - 1].node, stack'[i].node)
  <2>1. \A i \in 2..m : i \in 2..n /\ i \in 1..m /\ i - 1 \in 1..m
    BY <1>1, <1>2, <1>7
  <2> QED
    BY <1>2, <2>1 DEF StackInv
<1>11. \A e : StillOpen(e) => \E i \in 1..m : e \in stack'[i].left
  <2> SUFFICES ASSUME NEW e, StillOpen(e) PROVE \E i \in 1..m : e \in stack'[i].left
    OBVIOUS
  <2>1. PICK i \in 1..n : e \in stack[i].left
    BY DEF StillOpen
  <2>2. i # n
    BY <1>4, <2>1
  <2>3. i \in 1..m
    BY <1>1, <1>2, <2>2
  <2> QED
    BY <1>2, <2>1, <2>3
<1> HIDE DEF n
<1>12. \A e : StillOpen(e) => StillOpen(e)'
  BY <1>11 DEF StillOpen
<1>13. \A e : Taken(e)' <=> Taken(e)
  BY DEF Taken
<1>14. StackInv'
  BY <1>6, <1>8, <1>9, <1>10 DEF StackInv
<1>15. VisitInv'
  BY <1>5, <1>6, <1>v, <1>12, <1>13 DEF VisitInv
<1> QED
  BY <1>14, <1>15

\* An open call takes an edge, to a node visited before or to a new one.
LEMMA TakeKeeps ==
  ASSUME TypeInv, StackInv, VisitInv, op = "paths", stack # << >>,
         NEW e \in stack[Len(stack)].left,
         NEW rest, rest = [stack EXCEPT ![Len(stack)] =
                             [node |-> stack[Len(stack)].node,
                              left |-> stack[Len(stack)].left \ {e}]],
         paths' = IF e.dst = search.goal THEN paths \cup {PathTo(e.dst)} ELSE paths,
         visited' = visited \cup {e.dst},
         stack' = IF e.dst \in visited THEN rest
                  ELSE Append(rest, [node |-> e.dst, left |-> Out(e.dst)]),
         UNCHANGED <<search, op, start>>
  PROVE  StackInv' /\ VisitInv'
<1> DEFINE n == Len(stack)
           m == Len(stack')
           top == [node |-> stack[n].node, left |-> stack[n].left \ {e}]
           new == [node |-> e.dst, left |-> Out(e.dst)]
<1>1. stack \in Seq(Frame) /\ n \in Nat \ {0} /\ n >= 1 /\ stack[n] \in Frame
  BY DEF TypeInv, TypeOK
<1>2. top \in Frame /\ new \in Frame /\ e \in Out(stack[n].node)
  <2>1. e \in Out(stack[n].node)
    BY <1>1 DEF StackInv
  <2>2. e \in search.edges /\ Out(e.dst) \in SUBSET search.edges
    BY <2>1 DEF Out
  <2>3. e.dst \in Node /\ Out(e.dst) \subseteq Edge
    BY <2>2, EdgeEnds DEF TypeInv, Dsts
  <2> QED
    BY <1>1, <2>1, <2>3 DEF Frame
<1>3. e.src = stack[n].node /\ e \in search.edges
  BY <1>2 DEF Out
<1>4. /\ rest \in Seq(Frame) /\ Len(rest) = n /\ rest[n] = top
      /\ \A i \in 1..n : i # n => rest[i] = stack[i]
  <2>1. n \in Nat \ {0} /\ stack \in Seq(Frame) /\ Len(stack) = n /\ top \in Frame
        /\ rest = [stack EXCEPT ![n] = top]
    BY <1>1, <1>2
  <2>2. DOMAIN stack = 1..n /\ n \in 1..n
    BY <2>1
  <2> HIDE DEF n, top
  <2>3. rest \in Seq(Frame)
    <3>1. \A i \in 1..n : stack[i] \in Frame
      BY <2>1, <2>2
    <3>2. rest \in [1..n -> Frame]
      BY <2>1, <2>2, <3>1
    <3> QED
      BY <2>1, <3>2
  <2>4. DOMAIN rest = 1..n /\ rest[n] = top /\ \A i \in 1..n : i # n => rest[i] = stack[i]
    BY <2>1, <2>2
  <2>5. Len(rest) = n
    BY <2>1, <2>3, <2>4
  <2> QED
    BY <2>3, <2>4, <2>5
<1>5. StackInv /\ VisitInv
  OBVIOUS
<1>6. /\ \A k : Out(k)' = Out(k) /\ Reachable(k)' = Reachable(k)
      /\ \A j, k : Joined(j, k)' = Joined(j, k)
      /\ Hit' = Hit
  BY SameGraph
<1>7. stack' = IF e.dst \in visited THEN rest ELSE Append(rest, new)
  OBVIOUS
<1>8. top.node = stack[n].node /\ top.left = stack[n].left \ {e}
      /\ new.node = e.dst /\ new.left = Out(e.dst)
  OBVIOUS
<1>9. /\ \A i \in 1..n : stack'[i] = rest[i]
      /\ m = IF e.dst \in visited THEN n ELSE n + 1
      /\ e.dst \notin visited => stack'[n + 1] = new
  <2> HIDE DEF n, top, new
  <2>1. CASE e.dst \in visited
    BY <1>4, <1>7, <2>1
  <2>2. CASE e.dst \notin visited
    <3>1. stack' = Append(rest, new)
      BY <1>7, <2>2
    <3> QED
      BY <1>1, <1>2, <1>4, <2>2, <3>1
  <2> QED
    BY <2>1, <2>2
<1>10. e \in stack[n].left
  OBVIOUS
<1>11. \A k \in visited : Reachable(k)
  BY DEF VisitInv
<1>12. /\ stack[1].node = start
       /\ \A i \in 1..n : stack[i].left \subseteq Out(stack[i].node)
       /\ \A i \in 2..n : Joined(stack[i - 1].node, stack[i].node)
  BY <1>5 DEF StackInv
<1>13. \A i \in 1..n : /\ stack'[i].node = stack[i].node
                       /\ stack'[i].left \subseteq stack[i].left
                       /\ stack[i].left \subseteq stack'[i].left \cup {e}
  <2> HIDE DEF n, m, top, new
  <2> SUFFICES ASSUME NEW i \in 1..n
               PROVE  /\ stack'[i].node = stack[i].node
                      /\ stack'[i].left \subseteq stack[i].left
                      /\ stack[i].left \subseteq stack'[i].left \cup {e}
    OBVIOUS
  <2>1. stack'[i] = rest[i]
    BY <1>9
  <2>2. CASE i = n
    <3>1. stack'[i] = top
      BY <1>4, <2>1, <2>2
    <3> QED
      BY <1>8, <2>2, <3>1
  <2>3. CASE i # n
    <3>1. stack'[i] = stack[i]
      BY <1>4, <2>1, <2>3
    <3> QED
      BY <3>1
  <2> QED
    BY <2>2, <2>3
<1>14. \A i \in 1..n : stack[i].node \in visited
  BY <1>5 DEF VisitInv
<1>15. n \in 1..n /\ 1 \in 1..n
  BY <1>1
<1>16. Reachable(stack[n].node) /\ Reachable(e.dst)
  BY <1>2, <1>11, <1>14, <1>15, ReachableNext
<1> HIDE DEF n, m, top, new
<1>17. \A i \in 1..m : i \in 1..n \/ (i = n + 1 /\ e.dst \notin visited)
  BY <1>1, <1>9
<1>18. /\ \A i \in 1..n : i \in 1..m
       /\ e.dst \notin visited => n + 1 \in 1..m
  BY <1>1, <1>9
<1>19. StackInv'
  <2>1. stack'[1].node = start'
    BY <1>12, <1>13, <1>15
  <2>2. ASSUME NEW i \in 1..m PROVE stack'[i].left \subseteq Out(stack'[i].node)
    <3>1. CASE i \in 1..n
      BY <1>12, <1>13, <3>1
    <3>2. CASE i = n + 1 /\ e.dst \notin visited
      BY <1>8, <1>9, <3>2
    <3> QED
      BY <1>17, <3>1, <3>2
  <2>3. ASSUME NEW i \in 2..m PROVE Joined(stack'[i - 1].node, stack'[i].node)
    <3>1. i \in 1..m
      BY <1>1, <1>9
    <3>2. CASE i \in 1..n
      <4>1. i - 1 \in 1..n /\ i \in 2..n
        BY <1>1, <3>2
      <4> QED
        BY <1>12, <1>13, <3>2, <4>1
    <3>3. CASE i = n + 1 /\ e.dst \notin visited
      <4>1. i - 1 = n
        BY <1>1, <3>3
      <4>2. stack'[i].node = e.dst /\ stack'[i - 1].node = stack[n].node
        BY <1>8, <1>9, <1>13, <1>15, <3>3, <4>1
      <4>3. Joined(stack[n].node, e.dst)
        BY <1>3 DEF Joined
      <4> QED
        BY <4>2, <4>3
    <3> QED
      BY <1>17, <3>1, <3>2, <3>3
  <2> QED
    BY <1>6, <2>1, <2>2, <2>3 DEF StackInv, m
<1>20. VisitInv'
  <2>1. start' \in visited'
    BY <1>5 DEF VisitInv
  <2>2. ASSUME NEW i \in 1..m PROVE stack'[i].node \in visited'
    <3>1. CASE i \in 1..n
      <4>1. stack'[i].node = stack[i].node /\ stack[i].node \in visited
        BY <1>13, <1>14, <3>1
      <4>2. visited \subseteq visited'
        OBVIOUS
      <4> QED
        BY <4>1, <4>2
    <3>2. CASE i = n + 1 /\ e.dst \notin visited
      BY <1>8, <1>9, <3>2
    <3> QED
      BY <1>17, <3>1, <3>2
  <2>3. \A k \in visited' : Reachable(k)'
    BY <1>6, <1>11, <1>16
  <2>4. paths' # {} => Hit'
    <3>1. CASE e.dst = search.goal
      <4>1. stack[n].node \in Node /\ search.goal \in Dsts(Out(stack[n].node))
        BY <1>1, <1>2, <3>1 DEF Frame, Dsts
      <4> QED
        BY <1>6, <1>16, <4>1 DEF Hit
    <3>2. CASE e.dst # search.goal
      BY <1>5, <1>6, <3>2 DEF VisitInv
    <3> QED
      BY <3>1, <3>2
  <2>5. ASSUME NEW k \in visited', NEW d \in Out(k)
        PROVE  Taken(d)' \/ \E i \in 1..m : d \in stack'[i].left
    <3>1. CASE d = e
      <4>1. e.dst \in visited' /\ (e.dst = search.goal => paths' # {})
        OBVIOUS
      <4> QED
        BY <3>1, <4>1 DEF Taken
    <3>2. CASE k \in visited /\ d # e
      <4>1. Taken(d) => Taken(d)'
        BY DEF Taken
      <4>2. Taken(d) \/ StillOpen(d)
        BY <1>5, <3>2 DEF VisitInv
      <4>3. ASSUME StillOpen(d) PROVE \E i \in 1..m : d \in stack'[i].left
        <5>1. PICK i \in 1..n : d \in stack[i].left
          BY <4>3 DEF StillOpen, n
        <5> QED
          BY <1>13, <1>18, <3>2, <5>1
      <4> QED
        BY <4>1, <4>2, <4>3
    <3>3. CASE k \notin visited
      <4>1. k = e.dst /\ e.dst \notin visited
        BY <3>3
      <4>2. d \in stack'[n + 1].left
        BY <1>8, <1>9, <4>1
      <4> QED
        BY <1>18, <4>1, <4>2
    <3> QED
      BY <3>1, <3>2, <3>3
  <2>6. \A k \in visited' : \A d \in Out(k)' : Taken(d)' \/ StillOpen(d)'
    BY <1>6, <2>5 DEF StillOpen, m
  <2> QED
    BY <2>1, <2>2, <2>3, <2>4, <2>6 DEF VisitInv, m
<1> QED
  BY <1>19, <1>20

LEMMA PathsInvStep ==
  ASSUME TypeInv, PathsInv, [Next]_vars
  PROVE  PathsInv'
<1>1. CASE concreteGetPathFromTo
  <2>1. /\ op = "paths" /\ stack # << >> /\ UNCHANGED <<search, op, start>>
        /\ StackInv /\ VisitInv /\ \A p \in paths : p # << >> /\ IsPath(p)
    BY <1>1 DEF concreteGetPathFromTo, PathsInv
  <2>2. \A p : IsPath(p)' = IsPath(p)
    BY <2>1, SameGraph
  <2>3. CASE /\ stack[Len(stack)].left = {} /\ stack' = SubSeq(stack, 1, Len(stack) - 1)
             /\ UNCHANGED <<visited, paths>>
    <3>1. StackInv' /\ VisitInv'
      BY <2>1, <2>3, ReturnKeeps
    <3> QED
      BY <2>1, <2>2, <2>3, <3>1 DEF PathsInv
  <2>4. ASSUME NEW e \in stack[Len(stack)].left,
               paths' = IF e.dst = search.goal THEN paths \cup {PathTo(e.dst)} ELSE paths,
               visited' = visited \cup {e.dst},
               stack' = LET rest == [stack EXCEPT ![Len(stack)] =
                                       [node |-> stack[Len(stack)].node,
                                        left |-> stack[Len(stack)].left \ {e}]]
                        IN IF e.dst \in visited THEN rest
                           ELSE Append(rest, [node |-> e.dst, left |-> Out(e.dst)])
        PROVE  PathsInv'
    <3> DEFINE rest == [stack EXCEPT ![Len(stack)] = [node |-> stack[Len(stack)].node,
                                                     left |-> stack[Len(stack)].left \ {e}]]
    <3>1. StackInv' /\ VisitInv'
      <4>1. stack' = IF e.dst \in visited THEN rest
                     ELSE Append(rest, [node |-> e.dst, left |-> Out(e.dst)])
        BY <2>4
      <4> QED
        BY <2>1, <2>4, <4>1, TakeKeeps
    <3>2. e \in search.edges /\ e.src = stack[Len(stack)].node
      <4>1. stack \in Seq(Frame)
        BY DEF TypeInv, TypeOK
      <4>2. Len(stack) \in 1..Len(stack)
        BY <2>1, <4>1
      <4> QED
        BY <2>1, <4>2 DEF StackInv, Out
    <3>3. ASSUME NEW p \in paths' PROVE p # << >> /\ IsPath(p)
      <4>1. CASE p \in paths
        BY <2>1, <4>1
      <4>2. CASE e.dst = search.goal /\ p = PathTo(e.dst)
        BY <2>1, <3>2, <4>2, PathIsPath
      <4> QED
        BY <2>4, <4>1, <4>2
    <3> QED
      BY <2>2, <3>1, <3>3 DEF PathsInv
  <2> QED
    BY <1>1, <2>3, <2>4 DEF concreteGetPathFromTo
<1>2. CASE op # "paths" /\ ~concreteGetPathFromTo
  <2>1. op' # "paths"
    BY <1>2 DEF Next, Turn, selectDefs, selectFirstStore, selectFirstDominator, selectAllStore,
                findTargetOfCall, selectCallBlockNodes, traverseOnVFG, traverseAndWriteToCSV,
                hasPath, existPathWithoutForbiddenNodes, vars
  <2> QED
    BY <2>1 DEF PathsInv
<1>3. CASE op = "paths" /\ ~concreteGetPathFromTo
  <2>1. UNCHANGED vars
    BY <1>3 DEF Next, selectDefs, selectFirstStore, selectFirstDominator, selectAllStore,
                findTargetOfCall, selectCallBlockNodes, traverseOnVFG, traverseAndWriteToCSV,
                hasPath, existPathWithoutForbiddenNodes
  <2>2. UNCHANGED <<search, op, start>> /\ UNCHANGED <<stack, visited, paths>>
    BY <2>1 DEF vars
  <2>3. /\ \A n : Out(n)' = Out(n) /\ Reachable(n)' = Reachable(n)
        /\ \A m, n : Joined(m, n)' = Joined(m, n)
        /\ \A p : IsPath(p)' = IsPath(p)
        /\ Hit' = Hit
    BY <2>2, SameGraph
  <2>4. \A e : (Taken(e)' <=> Taken(e)) /\ (StillOpen(e)' <=> StillOpen(e))
    BY <2>2 DEF Taken, StillOpen
  <2>5. StackInv' /\ VisitInv'
    BY <1>3, <2>2, <2>3, <2>4 DEF PathsInv, StackInv, VisitInv
  <2> QED
    BY <1>3, <2>2, <2>3, <2>5 DEF PathsInv
<1> QED
  BY <1>1, <1>2, <1>3

LEMMA PathsInit == Init => PathsInv
<1> SUFFICES ASSUME Init, op = "paths" PROVE PathsInv
  BY DEF PathsInv
<1> DEFINE f == [node |-> start, left |-> Out(start)]
<1>1. stack = <<f>> /\ visited = {start} /\ paths = {}
  BY DEF Init
<1>2. Len(stack) = 1 /\ stack[1] = f /\ 1..1 = {1} /\ 2..1 = {}
  BY <1>1
<1>3. stack[1].node = start /\ stack[1].left = Out(start)
  BY <1>2
<1>4. StackInv
  BY <1>2, <1>3 DEF StackInv
<1>5. Reachable(start)
  BY DEF Reachable
<1>6. VisitInv
  BY <1>1, <1>2, <1>3, <1>5 DEF VisitInv, StillOpen
<1> QED
  BY <1>1, <1>4, <1>6 DEF PathsInv

LEMMA PathsInductive == Spec => [](TypeInv /\ PathsInv)
<1>1. PathsInv /\ TypeInv /\ SearchInv /\ [Next]_vars => PathsInv'
  BY PathsInvStep
<1> QED
  BY <1>1, PathsInit, SearchInductive, PTL DEF Spec

(***************************************************************************)
(* getPathFromTo of svf-uaf, on every graph and in every order of its      *)
(* edges: each path it reports leads along edges from the start to the     *)
(* goal, and it reports one exactly when the goal can be reached.          *)
(***************************************************************************)
THEOREM PathsAreSound == Spec => []PathsSound
<1>1. TypeInv /\ PathsInv => PathsSound
  <2> SUFFICES ASSUME TypeInv, StackInv, VisitInv, op = "paths"
               PROVE  stack = << >> =>
                        (paths # {} <=> \E n \in Reached : search.goal \in Dsts(Out(n)))
    BY DEF PathsInv, PathsSound
  <2>1. Hit <=> \E n \in Reached : search.goal \in Dsts(Out(n))
    BY DEF Hit, Reached, Reachable
  <2>2. paths # {} => Hit
    BY DEF VisitInv
  <2>3. ASSUME stack = << >>, NEW n \in Reached, search.goal \in Dsts(Out(n)) PROVE paths # {}
    <3>1. \A m \in visited : \A e \in Out(m) : Taken(e)
      BY <2>3 DEF VisitInv, StillOpen
    <3>2. visited \in SUBSET Node /\ start \in visited
      BY DEF VisitInv, TypeInv, TypeOK
    <3>3. Closed(visited)
      BY <3>1 DEF Closed, Around, Dsts, Taken
    <3>4. n \in visited
      BY <2>3, <3>2, <3>3 DEF Reached
    <3>5. PICK e \in Out(n) : e.dst = search.goal
      BY <2>3 DEF Dsts
    <3> QED
      BY <3>1, <3>4, <3>5 DEF Taken
  <2> QED
    BY <2>1, <2>2, <2>3
<1> QED
  BY <1>1, PathsInductive, PTL
=============================================================================
