---------------------------- MODULE VerdictsProofs ---------------------------
(***************************************************************************)
(* The verdict on every write of an array is the truth: for every program, *)
(* every recursion, every retransmission of its trace and every static     *)
(* trace in which the verifier finds the array that a use writes.          *)
(***************************************************************************)
EXTENDS Verdicts, WellFoundedInduction, TLAPS

\* The theorems about the program, which its half of a state satisfies.
PP == INSTANCE ProgramProofs

-----------------------------------------------------------------------------
\* The program of Verdicts is the one that they are about.
LEMMA Shape == PP!ProgramShape
BY VerdictsAssumption DEF P!ProgramShape, PP!ProgramShape, P!Defs, PP!Defs, P!None, PP!None

LEMMA ProgramStep ==
  /\ P!Init => PP!Init
  /\ P!Next => PP!Next
<1>1. P!Init => PP!Init
  BY DEF P!Init, PP!Init, P!Unset, PP!Unset, P!Defs, PP!Defs, P!Depths, PP!Depths
<1>2. P!Next => PP!Next
  BY DEF P!Next, P!Globals, P!Start, P!CallFn, P!Return, P!Malloc, P!WriteLocal, P!WriteGlobal,
         P!WriteHeap, P!WriteArg, P!Enter, P!Report, P!Use, P!Pack, P!Refs, P!FreeAddresses, P!Top,
         P!NoRef, P!Unset, P!None, P!MakeEvent,
         PP!Next, PP!Globals, PP!Start, PP!CallFn, PP!Return, PP!Malloc, PP!WriteLocal, PP!WriteGlobal,
         PP!WriteHeap, PP!WriteArg, PP!Enter, PP!Report, PP!Use, PP!Pack, PP!Refs, PP!FreeAddresses, PP!Top,
         PP!NoRef, PP!Unset, PP!None, PP!MakeEvent
<1> QED
  BY <1>1, <1>2

\* What holds of every state of the program holds of its half.
ProgramInv == PP!IInv /\ PP!Told

LEMMA ProgramInvInit == Init => ProgramInv
BY Shape, ProgramStep, PP!InitInv, PP!InitTold DEF Init, ProgramInv

LEMMA ProgramInvNext == ASSUME ProgramInv, [Next]_vars PROVE ProgramInv'
<1>1. PP!Next \/ UNCHANGED PP!programVars
  BY ProgramStep DEF Next, vars, Run, Retransmit, Judge, programVars, PP!programVars
<1> QED
  BY <1>1, Shape, PP!NextInv, PP!NextTold DEF ProgramInv

-----------------------------------------------------------------------------
(***************************************************************************)
(* Numbers and rows.                                                       *)
(***************************************************************************)
Pack(d, g) == PP!Pack(d, g)
Depths     == PP!Depths
Arrays     == PP!Arrays

LEMMA ArraysSame == P!Arrays = Arrays
BY DEF P!Arrays, Arrays, PP!Arrays, P!Defs, PP!Defs, P!None, PP!None

LEMMA NumberParts ==
  ASSUME NEW d \in Nat, NEW g \in Depths
  PROVE  V!IdOf(Pack(d, g)) = d /\ V!DepthOf(Pack(d, g)) = g /\ Pack(d, g) \in Nat
BY Shape, PP!PackParts, PP!PackType DEF V!IdOf, V!DepthOf, Pack, Depths

\* A number that stays below the sign is printed as it is.
LEMMA Unsigned ==
  ASSUME NEW d \in Nat, NEW g \in Depths, 2 * (d + 1) <= IdSpace
  PROVE  V!Signed(Pack(d, g)) = Pack(d, g)
<1> DEFINE w == DepthSpace
           x == 2 * (d + 1)
           s == IdSpace
<1>1. w \in Nat /\ s \in Nat /\ g \in 0 .. w - 1
  BY Shape, VerdictsAssumption DEF PP!ProgramShape, Depths, PP!Depths
<1>2. x * w <= s * w
  <2>1. x < s => x * w + w <= s * w
    BY <1>1, Shape, PP!Products
  <2>2. \A a, b \in Nat : a * b \in Nat
    OBVIOUS
  <2>3. x \in Nat /\ x <= s
    OBVIOUS
  <2> HIDE DEF x, w, s
  <2> QED
    BY <1>1, <2>1, <2>2, <2>3
<1>3. x * w = 2 * (d * w) + 2 * w
  BY <1>1
<1>4. d * w \in Nat
  <2>1. \A a, b \in Nat : a * b \in Nat
    OBVIOUS
  <2> HIDE DEF w
  <2> QED
    BY <1>1, <2>1
<1>5. 2 * (d * w + g) < s * w
  <2> DEFINE p == d * w
             q == s * w
             r == x * w
  <2>1. p \in Nat /\ r <= q /\ r = 2 * p + 2 * w /\ q \in Int
    <3>1. \A a, b \in Nat : a * b \in Nat
      OBVIOUS
    <3>2. q \in Int
      <4> HIDE DEF s, w
      <4> QED
        BY <1>1, <3>1
    <3> QED
      BY <1>2, <1>3, <1>4, <3>2
  <2> HIDE DEF p, q, r, w
  <2>2. 2 * (p + g) < q
    BY <1>1, <2>1
  <2> QED
    BY <2>2 DEF p, q, w
<1>6. \A number : ~(2 * number >= s * w) => V!Signed(number) = number
  BY DEF V!Signed
<1>7. 2 * (d * w + g) \in Int /\ s * w \in Int
  <2>1. \A a, b \in Nat : a * b \in Nat
    OBVIOUS
  <2> HIDE DEF s, w
  <2> QED
    BY <1>1, <2>1
<1>8. ~(2 * (d * w + g) >= s * w)
  <2> DEFINE m == 2 * (d * w + g)
             q == s * w
  <2> HIDE DEF m, q
  <2>1. m \in Int /\ q \in Int /\ m < q
    BY <1>5, <1>7 DEF m, q
  <2>2. ~(m >= q)
    BY <2>1
  <2> QED
    BY <2>2 DEF m, q
<1> QED
  BY <1>6, <1>8 DEF Pack, PP!Pack

-----------------------------------------------------------------------------
\* A static trace has a first row of each identifier.
LEMMA FirstNodeIs ==
  ASSUME NEW d, NodesNamed(d) # {}
  PROVE  FirstNode(d) \in NodesNamed(d)
<1> DEFINE S == NodesNamed(d)
           R == {ss \in Nat \X Nat : ss[1] < ss[2]}
<1>1. S \in SUBSET Nat /\ S # {}
  BY StaticTraceAssumption DEF NodesNamed, Nodes, WellFormed
<1>2. IsWellFoundedOn(R, Nat)
  BY NatLessThanWellFounded DEF OpToRel
<1>3. \E m \in S : \A k \in S : ~(<<k, m>> \in R)
  <2> HIDE DEF R, S
  <2> QED BY <1>1, <1>2, WFMin
<1>4. \A k, m \in Nat : ~(<<k, m>> \in R) => m <= k
  OBVIOUS
<1>5. \E m \in S : \A k \in S : m <= k
  <2> HIDE DEF R, S
  <2> QED BY <1>1, <1>3, <1>4
<1>6. Min(S) \in S
  <2> HIDE DEF S
  <2> QED BY <1>5 DEF Min
<1> QED
  BY <1>6 DEF FirstNode

(***************************************************************************)
(* The rows of the arrays: every row of one has the length and offset of   *)
(* the array.                                                              *)
(***************************************************************************)
LEMMA ArrayRows ==
  ASSUME NEW d \in Arrays
  PROVE  /\ d \in Nat /\ d # Heap /\ d # None /\ d \in DefIds
         /\ Size[d] \in Nat /\ Offset[d] \in Nat
         /\ Metadata[FirstNode(d)].length = Size[d]
         /\ Describes(V!DefRow(d), d)
<1>1. /\ d \in Nat /\ d # Heap /\ d # PP!None /\ Size[d] \in Nat /\ Offset[d] \in Nat
  BY Shape, PP!ArrayType DEF Arrays
<1>2. Describes(V!DefRow(d), d)
  BY VerdictsAssumption, ArraysSame
<1>3. V!DefRow(d) \in NodesNamed(d)
  BY <1>2 DEF Describes, NodesNamed
<1>4. FirstNode(d) \in Nodes /\ Metadata[FirstNode(d)].id = d
  BY <1>3, FirstNodeIs DEF NodesNamed
<1>5. [Metadata[FirstNode(d)] EXCEPT !.father = -1] = [Metadata[V!DefRow(d)] EXCEPT !.father = -1]
  BY <1>2, <1>4, StaticTraceAssumption DEF WellFormed, Describes, Nodes
<1>6. Metadata[FirstNode(d)] \in Row /\ Metadata[V!DefRow(d)] \in Row
  BY <1>2, <1>4, StaticTraceAssumption DEF WellFormed, Describes, Nodes
<1>7. Metadata[FirstNode(d)].length = Metadata[V!DefRow(d)].length
  <2> DEFINE a == Metadata[FirstNode(d)]
             b == Metadata[V!DefRow(d)]
  <2>1. \A r \in Row : [r EXCEPT !.father = -1].length = r.length
    BY DEF Row
  <2> HIDE DEF a, b
  <2>2. [a EXCEPT !.father = -1] = [b EXCEPT !.father = -1] /\ a \in Row /\ b \in Row
    BY <1>5, <1>6 DEF a, b
  <2>3. a.length = b.length
    BY <2>1, <2>2
  <2> QED
    BY <2>3 DEF a, b
<1>8. d \in DefIds
  BY <1>2 DEF DefIds, Describes
<1> QED
  BY <1>1, <1>2, <1>7, <1>8 DEF Describes, PP!None, None

-----------------------------------------------------------------------------
(***************************************************************************)
(* The inductive invariant of the verifier.  What was received are first   *)
(* parts of the history; under the pair of every array that the lines of   *)
(* the trace so far have reported, the maps hold the last address that     *)
(* they gave, whatever earlier traces left behind.                         *)
(***************************************************************************)
FirstPart(s) ==
  /\ s \in Seq(PP!Event) /\ Len(s) <= Len(events)
  /\ \A k \in 1 .. Len(s) : s[k] = events[k]

Received == /\ queue \in Seq(Seq(PP!Event)) /\ \A k \in 1 .. Len(queue) : FirstPart(queue[k])
            /\ FirstPart(trace) /\ next \in 1 .. Len(trace) + 1

LengthsKept ==
  /\ length = [d \in DefIds |-> length[d]]
  /\ \A d \in Arrays : length[d] = [g \in {0} |-> Size[d]]

AddressesTold ==
  /\ address = [d \in DefIds |-> address[d]]
  /\ Global # None => DOMAIN address[Global] \subseteq {0}
  /\ \A d \in Arrays, g \in Depths, base \in Addresses \cup {GlobalBase} :
       PP!LastBefore(trace, next, d, g, base) => g \in DOMAIN address[d] /\ address[d][g] = base

\* The verdict on a line is true, unless it is a write of the allocated array.
ArrayVerdictIsTruth ==
  judged.line # 0 =>
    \/ judged.overflow = (truth[judged.line] = "overflows")
    \/ Heap # None /\ V!IdOf(events[judged.line].id) \in HeapUses

JudgedLine == judged.line \in 0 .. Len(events)

VerdictInv == ProgramInv /\ Received /\ LengthsKept /\ AddressesTold /\ JudgedLine /\ ArrayVerdictIsTruth

\* The line that the verifier is at is the line that the program reported.
LEMMA LineAt ==
  ASSUME ProgramInv, Received, ~V!Idle
  PROVE  /\ next \in 1 .. Len(events) /\ next \in 1 .. Len(trace) /\ next \in Nat
         /\ trace[next] = events[next] /\ trace[next] \in PP!Event
         /\ PP!LineOK(events, next, truth[next])
         /\ \A k \in 1 .. next - 1 : trace[k] = events[k]
<1>1. /\ trace \in Seq(PP!Event) /\ Len(trace) <= Len(events) /\ next \in 1 .. Len(trace) + 1
      /\ \A k \in 1 .. Len(trace) : trace[k] = events[k]
      /\ events \in Seq(PP!Event)
  BY DEF Received, FirstPart, ProgramInv, PP!IInv, PP!TypeOK
<1>2. next \in 1 .. Len(trace)
  BY <1>1 DEF V!Idle
<1>3. next \in 1 .. Len(events)
  BY <1>1, <1>2
<1>4. PP!LineOK(events, next, truth[next])
  BY <1>3 DEF ProgramInv, PP!Told
<1>5. trace[next] \in PP!Event
  BY <1>1, <1>2
<1> QED
  BY <1>1, <1>2, <1>3, <1>4, <1>5

\* What the lines so far have reported, after one more line.
LEMMA OneMoreLine ==
  ASSUME NEW ev, NEW n \in Nat \ {0}, NEW d, NEW g, NEW base, PP!LastBefore(ev, n + 1, d, g, base)
  PROVE  \/ PP!Reports(ev[n], d, g) /\ base = ev[n].addr
         \/ ~PP!Reports(ev[n], d, g) /\ PP!LastBefore(ev, n, d, g, base)
<1>1. PICK j \in 1 .. n :
        /\ PP!Reports(ev[j], d, g) /\ ev[j].addr = base
        /\ \A k \in j + 1 .. n : ~PP!Reports(ev[k], d, g)
  BY DEF PP!LastBefore
<1>2. CASE j = n
  BY <1>1, <1>2
<1>3. CASE j # n
  <2>1. j \in 1 .. n - 1 /\ n \in j + 1 .. n /\ \A k \in j + 1 .. n - 1 : k \in j + 1 .. n
    BY <1>3
  <2> QED
    BY <1>1, <2>1 DEF PP!LastBefore
<1> QED
  BY <1>2, <1>3

-----------------------------------------------------------------------------
\* The static trace of the verifier is that of Verdicts.
LEMMA RowsSame ==
  /\ V!DefIds = DefIds
  /\ \A d : V!NodesNamed(d) = NodesNamed(d) /\ V!FirstNode(d) = FirstNode(d)
<1>1. V!Nodes = Nodes /\ V!DefRows = DefRows
  BY DEF V!Nodes, Nodes, V!DefRows, DefRows
<1>2. V!DefIds = DefIds
  BY <1>1 DEF V!DefIds, DefIds
<1>3. ASSUME NEW d PROVE V!NodesNamed(d) = NodesNamed(d)
  BY <1>1 DEF V!NodesNamed, NodesNamed
<1>4. ASSUME NEW d PROVE V!FirstNode(d) = FirstNode(d)
  BY <1>3 DEF V!FirstNode, FirstNode, V!Min, Min
<1> QED
  BY <1>2, <1>3, <1>4

LEMMA VerdictInvInit == Init => VerdictInv
<1> SUFFICES ASSUME Init PROVE VerdictInv
  OBVIOUS
<1>1. /\ ProgramInv /\ events = << >>
      /\ address = [d \in DefIds |-> << >>]
      /\ length = [d \in DefIds |-> [g \in {0} |-> Metadata[FirstNode(d)].length]]
      /\ queue = << >> /\ trace = << >> /\ next = 1 /\ judged.line = 0
  <2>1. ProgramInv
    BY ProgramInvInit
  <2>2. events = << >>
    BY DEF Init, P!Init
  <2>3. /\ address = [d \in DefIds |-> << >>]
        /\ length = [d \in DefIds |-> [g \in {0} |-> Metadata[FirstNode(d)].length]]
        /\ queue = << >> /\ trace = << >> /\ next = 1 /\ judged = [line |-> 0, overflow |-> FALSE]
    <3> USE DEF Init, V!Init
    <3>1. address = [d \in DefIds |-> << >>]
      BY RowsSame
    <3>2. length = [d \in DefIds |-> [g \in {0} |-> Metadata[FirstNode(d)].length]]
      BY RowsSame
    <3>3. queue = << >> /\ trace = << >> /\ next = 1 /\ judged = [line |-> 0, overflow |-> FALSE]
      OBVIOUS
    <3> QED
      BY <3>1, <3>2, <3>3
  <2> QED
    BY <2>1, <2>2, <2>3
<1>2. Received
  BY <1>1 DEF Received, FirstPart
<1>3. LengthsKept
  <2>1. \A d \in Arrays : length[d] = [g \in {0} |-> Size[d]]
    BY <1>1, ArrayRows
  <2>2. length = [d \in DefIds |-> length[d]]
    BY <1>1
  <2> QED
    BY <2>1, <2>2 DEF LengthsKept
<1>4. AddressesTold
  <2>1. address = [d \in DefIds |-> address[d]]
    BY <1>1
  <2>2. \A d, g, base : ~PP!LastBefore(trace, next, d, g, base)
    BY <1>1 DEF PP!LastBefore
  <2>3. Global # None => DOMAIN address[Global] \subseteq {0}
    <3>1. DOMAIN << >> = {}
      OBVIOUS
    <3>2. Global # None => Global \in DefIds
      <4>1. Global # None => Global \in Arrays
        BY Shape DEF PP!ProgramShape, Arrays, PP!Arrays, PP!Defs, PP!None, None
      <4> QED
        BY <4>1, ArrayRows
    <3> QED
      BY <1>1, <3>1, <3>2
  <2> QED
    BY <2>1, <2>2, <2>3 DEF AddressesTold
<1>5. JudgedLine /\ ArrayVerdictIsTruth
  BY <1>1 DEF JudgedLine, ArrayVerdictIsTruth
<1> QED
  BY <1>1, <1>2, <1>3, <1>4, <1>5 DEF VerdictInv

(***************************************************************************)
(* What the program does, and a trace that is sent, leave what is known of *)
(* the first parts of the history as it is.                                *)
(***************************************************************************)
LEMMA HistoryExtends ==
  ASSUME ProgramInv, [PP!Next]_(PP!programVars)
  PROVE  /\ events \in Seq(PP!Event) /\ events' \in Seq(PP!Event)
         /\ Len(events) <= Len(events')
         /\ \A k \in 1 .. Len(events) : events'[k] = events[k] /\ truth'[k] = truth[k]
<1>1. /\ events \in Seq(PP!Event) /\ truth \in Seq({"def", "fits", "overflows"}) /\ Len(truth) = Len(events)
  BY DEF ProgramInv, PP!IInv, PP!TypeOK, PP!Told
<1>2. events' \in Seq(PP!Event)
  <2>1. PP!IInv'
    BY Shape, PP!NextInv DEF ProgramInv
  <2> QED
    BY <2>1 DEF PP!IInv, PP!TypeOK
<1>3. \/ UNCHANGED <<events, truth>>
      \/ \E e, t : events' = Append(events, e) /\ truth' = Append(truth, t)
  BY DEF PP!Next, PP!programVars, PP!Globals, PP!Start, PP!CallFn, PP!Return, PP!Malloc, PP!WriteLocal,
         PP!WriteGlobal, PP!WriteHeap, PP!WriteArg, PP!Enter, PP!Use, PP!Report
<1>4. ASSUME NEW e, NEW t, events' = Append(events, e), truth' = Append(truth, t)
      PROVE  /\ Len(events) <= Len(events')
             /\ \A k \in 1 .. Len(events) : events'[k] = events[k] /\ truth'[k] = truth[k]
  BY <1>1, <1>4
<1> QED
  BY <1>1, <1>2, <1>3, <1>4

LEMMA ProgramSide ==
  ASSUME VerdictInv, [PP!Next]_(PP!programVars),
         UNCHANGED <<address, length, trace, next, judged>>,
         queue' = queue \/ queue' = Append(queue, events)
  PROVE  Received' /\ LengthsKept' /\ AddressesTold' /\ JudgedLine' /\ ArrayVerdictIsTruth'
<1>1. /\ events \in Seq(PP!Event) /\ events' \in Seq(PP!Event)
      /\ Len(events) \in Nat /\ Len(events') \in Nat /\ Len(events) <= Len(events')
      /\ \A k \in 1 .. Len(events) : events'[k] = events[k] /\ truth'[k] = truth[k]
  BY HistoryExtends DEF VerdictInv
<1>2. ASSUME NEW s \in Seq(PP!Event), Len(s) <= Len(events), \A k \in 1 .. Len(s) : s[k] = events[k]
      PROVE  Len(s) <= Len(events') /\ \A k \in 1 .. Len(s) : s[k] = events'[k]
  <2>1. Len(s) \in Nat
    OBVIOUS
  <2> QED
    BY <1>1, <1>2, <2>1
<1>3. Received'
  <2>1. queue \in Seq(Seq(PP!Event)) /\ trace \in Seq(PP!Event) /\ next' \in 1 .. Len(trace') + 1
    BY DEF VerdictInv, Received, FirstPart
  <2>2. FirstPart(trace)'
    BY <1>2, <2>1 DEF VerdictInv, Received, FirstPart
  <2>3. ASSUME NEW k \in 1 .. Len(queue) PROVE FirstPart(queue[k])'
    <3>0. queue'[k] = queue[k]
      <4>1. Append(queue, events)[k] = queue[k]
        BY <1>1, <2>1
      <4> QED
        BY <4>1
    <3>1. queue[k] \in Seq(PP!Event)
      BY <2>1
    <3>2. Len(queue[k]) <= Len(events) /\ \A j \in 1 .. Len(queue[k]) : queue[k][j] = events[j]
      BY DEF VerdictInv, Received, FirstPart
    <3>3. Len(queue[k]) <= Len(events') /\ \A j \in 1 .. Len(queue[k]) : queue[k][j] = events'[j]
      BY <1>2, <3>1, <3>2
    <3> QED
      BY <3>0, <3>1, <3>3 DEF FirstPart
  <2>4. CASE queue' = queue
    BY <2>1, <2>2, <2>3, <2>4 DEF Received
  <2>5. CASE queue' = Append(queue, events)
    <3>1. /\ queue' \in Seq(Seq(PP!Event)) /\ Len(queue') = Len(queue) + 1 /\ Len(queue) \in Nat
          /\ queue'[Len(queue) + 1] = events
      BY <1>1, <2>1, <2>5
    <3>2. Len(events) <= Len(events') /\ \A j \in 1 .. Len(events) : events[j] = events'[j]
      BY <1>1
    <3>3. ASSUME NEW k \in 1 .. Len(queue') PROVE FirstPart(queue[k])'
      <4>1. CASE k = Len(queue) + 1
        BY <1>1, <3>1, <3>2, <4>1 DEF FirstPart
      <4>2. CASE k # Len(queue) + 1
        <5>1. k \in 1 .. Len(queue)
          BY <3>1, <4>2
        <5> QED
          BY <2>3, <5>1
      <4> QED
        BY <4>1, <4>2
    <3> QED
      BY <2>1, <2>2, <3>1, <3>3 DEF Received
  <2> QED
    BY <2>4, <2>5
<1>4. LengthsKept' /\ AddressesTold'
  BY DEF VerdictInv, LengthsKept, AddressesTold
<1>5. JudgedLine'
  BY <1>1 DEF VerdictInv, JudgedLine
<1>6. ArrayVerdictIsTruth'
  <2>1. judged.line # 0 => judged.line \in 1 .. Len(events)
    BY <1>1 DEF VerdictInv, JudgedLine
  <2> QED
    BY <1>1, <2>1 DEF VerdictInv, ArrayVerdictIsTruth
<1> QED
  BY <1>3, <1>4, <1>5, <1>6

-----------------------------------------------------------------------------
(***************************************************************************)
(* The steps of the verifier.  A new trace is read from its first line, of *)
(* which nothing is known yet.                                             *)
(***************************************************************************)
LEMMA GetTraceKeeps ==
  ASSUME VerdictInv, V!GetTrace, UNCHANGED <<events, truth>>
  PROVE  Received' /\ LengthsKept' /\ AddressesTold' /\ JudgedLine' /\ ArrayVerdictIsTruth'
<1>1. /\ queue # << >> /\ trace' = Head(queue) /\ queue' = Tail(queue) /\ next' = 1
      /\ UNCHANGED <<address, length, alive, judged>>
  BY DEF V!GetTrace
<1>2. Received'
  <2>1. queue \in Seq(Seq(PP!Event)) /\ \A k \in 1 .. Len(queue) : FirstPart(queue[k])
    BY DEF VerdictInv, Received
  <2>2. /\ queue' \in Seq(Seq(PP!Event)) /\ 1 \in 1 .. Len(queue) /\ trace' = queue[1]
        /\ \A k \in 1 .. Len(queue') : k + 1 \in 1 .. Len(queue) /\ queue'[k] = queue[k + 1]
    BY <1>1, <2>1
  <2>3. FirstPart(trace)' /\ \A k \in 1 .. Len(queue') : FirstPart(queue[k])'
    BY <2>1, <2>2 DEF FirstPart
  <2>4. next' \in 1 .. Len(trace') + 1
    BY <1>1, <2>3 DEF FirstPart
  <2> QED
    BY <2>2, <2>3, <2>4 DEF Received
<1>3. AddressesTold'
  <2>1. \A d, g, base : ~PP!LastBefore(trace', 1, d, g, base)
    BY DEF PP!LastBefore
  <2> QED
    BY <1>1, <2>1 DEF VerdictInv, AddressesTold
<1>4. LengthsKept' /\ JudgedLine' /\ ArrayVerdictIsTruth'
  BY <1>1 DEF VerdictInv, LengthsKept, JudgedLine, ArrayVerdictIsTruth
<1> QED
  BY <1>2, <1>3, <1>4

\* A line that reports no array.
LEMMA OtherLine ==
  ASSUME VerdictInv, V!NextLine, UNCHANGED <<events, truth>>, trace[next].kind # "DEF",
         \A d \in Arrays : address'[d] = address[d]
  PROVE  /\ Received'
         /\ \A d \in Arrays, g \in Depths, base \in Addresses \cup {GlobalBase} :
              PP!LastBefore(trace', next', d, g, base) => g \in DOMAIN address'[d] /\ address'[d][g] = base
<1>1. next' = next + 1 /\ UNCHANGED <<queue, trace>> /\ ~V!Idle
  BY DEF V!NextLine
<1>2. next \in Nat \ {0} /\ next \in 1 .. Len(trace) /\ Len(trace) \in Nat
  BY <1>1, LineAt DEF VerdictInv, Received, FirstPart
<1>3. Received'
  <2>1. next' \in 1 .. Len(trace') + 1
    BY <1>1, <1>2
  <2>2. FirstPart(trace)' /\ \A k \in 1 .. Len(queue') : FirstPart(queue[k])'
    BY <1>1 DEF VerdictInv, Received, FirstPart
  <2> QED
    BY <1>1, <2>1, <2>2 DEF VerdictInv, Received
<1>4. \A d, g, base : PP!LastBefore(trace, next + 1, d, g, base) => PP!LastBefore(trace, next, d, g, base)
  BY <1>2, OneMoreLine DEF PP!Reports
<1> QED
  BY <1>1, <1>3, <1>4 DEF VerdictInv, AddressesTold

\* An address that a line reports is the one known under its pair from now on.
LEMMA ApplyDefKeeps ==
  ASSUME VerdictInv, V!ApplyDef, UNCHANGED <<events, truth>>
  PROVE  Received' /\ LengthsKept' /\ AddressesTold' /\ JudgedLine' /\ ArrayVerdictIsTruth'
<1> DEFINE e == trace[next]
<1>1. /\ e.kind = "DEF" /\ next' = next + 1 /\ UNCHANGED <<queue, trace, length, judged>> /\ ~V!Idle
      /\ V!IdOf(e.id) \in DefIds
      /\ address' = [address EXCEPT ![V!IdOf(e.id)] = V!SetAt({V!DepthOf(e.id)}, e.addr, address[V!IdOf(e.id)])]
  BY RowsSame DEF V!ApplyDef, V!NextLine
<1>2. /\ next \in Nat \ {0} /\ next \in 1 .. Len(trace) /\ Len(trace) \in Nat
      /\ PP!LineOK(events, next, truth[next]) /\ e = events[next]
  BY <1>1, LineAt DEF VerdictInv, Received, FirstPart
<1>3. PP!DefLine(e)
  BY <1>1, <1>2 DEF PP!LineOK, PP!HeapLine, PP!UseLine, PP!Names
<1>4. PICK d0 \in Arrays, g0 \in Depths : PP!Reports(e, d0, g0) /\ g0 = PP!ReportedAt(d0, g0)
  BY <1>3 DEF PP!DefLine, Arrays, Depths
<1>5. V!IdOf(e.id) = d0 /\ V!DepthOf(e.id) = g0 /\ d0 \in DefIds
  BY <1>4, ArrayRows, NumberParts DEF PP!Reports, Pack
<1>6. /\ address' = [address EXCEPT ![d0] = V!SetAt({g0}, e.addr, address[d0])]
      /\ address = [d \in DefIds |-> address[d]]
  BY <1>1, <1>5 DEF VerdictInv, AddressesTold
<1> HIDE DEF e
<1>7. /\ address'[d0] = [g \in {g0} \cup DOMAIN address[d0] |-> IF g \in {g0} THEN e.addr ELSE address[d0][g]]
      /\ \A d \in DefIds : d # d0 => address'[d] = address[d]
      /\ address' = [d \in DefIds |-> address'[d]]
  BY <1>5, <1>6 DEF V!SetAt
<1>8. Received'
  <2>1. next' \in 1 .. Len(trace') + 1
    BY <1>1, <1>2
  <2>2. FirstPart(trace)' /\ \A k \in 1 .. Len(queue') : FirstPart(queue[k])'
    BY <1>1 DEF VerdictInv, Received, FirstPart
  <2> QED
    BY <1>1, <2>1, <2>2 DEF VerdictInv, Received
<1>9. Global # None => DOMAIN address'[Global] \subseteq {0}
  <2>1. CASE d0 = Global
    <3>1. g0 = 0
      BY <1>4, <2>1 DEF PP!ReportedAt
    <3> QED
      BY <1>7, <2>1, <3>1 DEF VerdictInv, AddressesTold
  <2>2. CASE d0 # Global
    <3>1. Global # None => Global \in Arrays
      BY Shape DEF PP!ProgramShape, Arrays, PP!Arrays, PP!Defs, PP!None, None
    <3> QED
      BY <1>7, <2>2, <3>1, ArrayRows DEF VerdictInv, AddressesTold
  <2> QED
    BY <2>1, <2>2
<1>10. ASSUME NEW d \in Arrays, NEW g \in Depths, NEW base \in Addresses \cup {GlobalBase},
              PP!LastBefore(trace', next', d, g, base)
       PROVE  g \in DOMAIN address'[d] /\ address'[d][g] = base
  <2>0. d \in Nat /\ d0 \in Nat /\ d \in DefIds
    BY ArrayRows
  <2>1. PP!LastBefore(trace, next + 1, d, g, base)
    BY <1>1, <1>10
  <2>2. CASE PP!Reports(e, d, g) /\ base = e.addr
    <3>1. d = d0 /\ g = g0
      BY <1>5, <2>0, <2>2, NumberParts DEF PP!Reports, Pack
    <3> QED
      BY <1>7, <2>2, <3>1
  <2>3. CASE ~PP!Reports(e, d, g) /\ PP!LastBefore(trace, next, d, g, base)
    <3>1. g \in DOMAIN address[d] /\ address[d][g] = base
      BY <2>3 DEF VerdictInv, AddressesTold
    <3>2. ~(d = d0 /\ g = g0)
      BY <1>4, <2>3
    <3> QED
      BY <1>7, <2>0, <3>1, <3>2
  <2> QED
    BY <1>2, <2>1, <2>2, <2>3, OneMoreLine DEF e
<1>11. AddressesTold'
  BY <1>7, <1>9, <1>10 DEF AddressesTold
<1>12. LengthsKept' /\ JudgedLine' /\ ArrayVerdictIsTruth'
  BY <1>1 DEF VerdictInv, LengthsKept, JudgedLine, ArrayVerdictIsTruth
<1> QED
  BY <1>8, <1>11, <1>12

\* The address and length of an allocation are those of no array.
LEMMA ApplyDDefKeeps ==
  ASSUME VerdictInv, V!ApplyDDef, UNCHANGED <<events, truth>>
  PROVE  Received' /\ LengthsKept' /\ AddressesTold' /\ JudgedLine' /\ ArrayVerdictIsTruth'
<1> DEFINE e == trace[next]
           i == V!IdOf(e.id)
<1>1. /\ e.kind = "DDEF" /\ V!NextLine /\ UNCHANGED judged /\ ~V!Idle /\ i \in DefIds
      /\ \E f : address' = [address EXCEPT ![i] = f]
      /\ \E f : length' = [length EXCEPT ![i] = f]
  BY RowsSame DEF V!ApplyDDef, V!NextLine
<1>2. PP!LineOK(events, next, truth[next]) /\ e = events[next]
  BY <1>1, LineAt DEF VerdictInv
<1>3. PP!HeapLine(e)
  BY <1>1, <1>2 DEF PP!LineOK, PP!DefLine, PP!Reports, PP!UseLine, PP!Names
<1>4. PICK h \in Depths : e.id = Pack(Heap, h)
  BY <1>1, <1>3 DEF PP!HeapLine, Depths, Pack
<1>5. i = Heap
  BY <1>4, Shape, NumberParts DEF PP!ProgramShape
<1> HIDE DEF e, i
<1>6. /\ address = [d \in DefIds |-> address[d]] /\ length = [d \in DefIds |-> length[d]]
      /\ Global # None => DOMAIN address[Global] \subseteq {0}
      /\ \A d \in Arrays : length[d] = [g \in {0} |-> Size[d]]
  BY DEF VerdictInv, AddressesTold, LengthsKept
<1>7. /\ \A d \in Arrays : address'[d] = address[d] /\ length'[d] = length[d]
      /\ address' = [d \in DefIds |-> address'[d]] /\ length' = [d \in DefIds |-> length'[d]]
  BY <1>1, <1>5, <1>6, ArrayRows
<1>8. Global # None => Global \in Arrays
  BY Shape DEF PP!ProgramShape, Arrays, PP!Arrays, PP!Defs, PP!None, None
<1>9. /\ Received'
      /\ \A d \in Arrays, g \in Depths, base \in Addresses \cup {GlobalBase} :
           PP!LastBefore(trace', next', d, g, base) => g \in DOMAIN address'[d] /\ address'[d][g] = base
  BY <1>1, <1>7, OtherLine DEF e
<1>10. AddressesTold'
  BY <1>6, <1>7, <1>8, <1>9 DEF AddressesTold
<1>11. LengthsKept'
  BY <1>6, <1>7 DEF LengthsKept
<1>12. JudgedLine' /\ ArrayVerdictIsTruth'
  BY <1>1 DEF VerdictInv, JudgedLine, ArrayVerdictIsTruth
<1> QED
  BY <1>9, <1>10, <1>11, <1>12

(***************************************************************************)
(* The row, the depth, the address and the length that a use of an array   *)
(* is judged with.                                                         *)
(***************************************************************************)
LEMMA UseFinds ==
  ASSUME NEW e \in PP!Event, NEW d \in Arrays, NEW g \in Depths, PP!Names(e, d, g)
  PROVE  /\ V!UseDepth(e) = g
         /\ V!MeasuredDef(V!UsedDef(e)) = V!UsedDef(e)
         /\ Describes(V!UsedDef(e), d)
<1>1. d \in Nat /\ PP!Pack(d, g) = Pack(d, g)
  BY ArrayRows DEF Pack
<1>2. V!UseDepth(e) = g /\ Describes(V!UsedDef(e), d)
  <2>1. CASE e.kind = "USE" /\ \E f \in Functions : e.id = PP!Pack(LocalUse[f], g) /\ d = Local[f]
    <3>1. PICK f \in Functions : e.id = Pack(LocalUse[f], g) /\ d = Local[f]
      BY <2>1 DEF Pack
    <3>2. LocalUse[f] \in Nat /\ Describes(V!UseRow(LocalUse[f]), d)
      BY <3>1, Shape, VerdictsAssumption DEF PP!ProgramShape
    <3>3. V!IdOf(e.id) = LocalUse[f] /\ V!DepthOf(e.id) = g
      BY <3>1, <3>2, NumberParts
    <3> QED
      BY <2>1, <3>2, <3>3 DEF V!UseDepth, V!UsedDef
  <2>2. CASE e.kind = "USE" /\ \E f \in Functions : e.id = PP!Pack(GlobalUse[f], g) /\ d = Global
    <3>1. PICK f \in Functions : e.id = Pack(GlobalUse[f], g) /\ d = Global
      BY <2>2 DEF Pack
    <3>2. GlobalUse[f] \in Nat /\ Describes(V!UseRow(GlobalUse[f]), d)
      BY <3>1, ArrayRows, Shape, VerdictsAssumption DEF PP!ProgramShape
    <3>3. V!IdOf(e.id) = GlobalUse[f] /\ V!DepthOf(e.id) = g
      BY <3>1, <3>2, NumberParts
    <3> QED
      BY <2>2, <3>2, <3>3 DEF V!UseDepth, V!UsedDef
  <2>3. CASE e.kind = "IUSE" /\ \E f \in Functions \ {Main}, c \in PP!Depths :
               e.id = PP!Pack(ArgUse[f], c) /\ e.aux = PP!Pack(d, g)
    <3>1. PICK f \in Functions \ {Main}, c \in Depths : e.id = Pack(ArgUse[f], c) /\ e.aux = Pack(d, g)
      BY <2>3 DEF Pack, Depths
    <3>2. /\ ArgUse[f] \in Nat /\ NodesNamed(ArgUse[f]) # {}
          /\ 2 * (ArgUse[f] + 1) <= IdSpace /\ 2 * (d + 1) <= IdSpace
      BY <3>1, ArraysSame, Shape, VerdictsAssumption DEF PP!ProgramShape, References
    <3>3. V!Signed(e.id) = e.id /\ V!Signed(e.aux) = e.aux
      BY <1>1, <3>1, <3>2, Unsigned
    <3>4. V!IdOf(e.id) = ArgUse[f] /\ V!IdOf(e.aux) = d /\ V!DepthOf(e.aux) = g
      BY <1>1, <3>1, <3>2, NumberParts
    <3>5. Describes(V!DefRow(d), d) /\ V!NodesNamed(ArgUse[f]) # {}
      BY <3>2, ArrayRows, RowsSame
    <3> QED
      BY <2>3, <3>3, <3>4, <3>5 DEF V!UseDepth, V!UsedDef
  <2> QED
    BY <2>1, <2>2, <2>3 DEF PP!Names
<1>3. Metadata[V!UsedDef(e)].type # "DDEF"
  BY <1>2 DEF Describes
<1> QED
  BY <1>2, <1>3 DEF V!MeasuredDef

\* A use of an array is judged against the address that its trace gave.
LEMMA UseIsMeasured ==
  ASSUME VerdictInv, NEW e \in PP!Event, NEW d \in Arrays, NEW g \in Depths, PP!Names(e, d, g),
         NEW base \in Addresses \cup {GlobalBase},
         PP!LastBefore(trace, next, d, PP!ReportedAt(d, g), base)
  PROVE  V!check_use(e) = (e.addr > base + Offset[d] + Size[d])
<1> DEFINE n == V!UsedDef(e)
           r == PP!ReportedAt(d, g)
<1>1. /\ V!UseDepth(e) = g /\ V!MeasuredDef(n) = n /\ Metadata[n].id = d /\ Metadata[n].offset = Offset[d]
  BY UseFinds DEF Describes
<1>2. r \in Depths
  BY Shape DEF PP!ReportedAt, PP!ProgramShape, Depths, PP!Depths
<1>3. r \in DOMAIN address[d] /\ address[d][r] = base
  BY <1>2 DEF VerdictInv, AddressesTold
<1>4. d = Global => DOMAIN address[d] \subseteq {0} /\ r = 0
  BY ArrayRows DEF VerdictInv, AddressesTold, PP!ReportedAt
<1>5. d # Global => r = g
  BY DEF PP!ReportedAt
<1> HIDE DEF n, r
<1>6. V!get_base(d, n, g) = base + Offset[d]
  <2> DEFINE known == {g, 0} \cap DOMAIN address[d]
  <2>1. known # {} /\ address[d][IF g \in known THEN g ELSE 0] = base
    BY <1>3, <1>4, <1>5
  <2> QED
    BY <1>1, <2>1 DEF V!get_base
<1>7. V!get_len(d, g) = Size[d]
  <2>1. length[d] = [h \in {0} |-> Size[d]]
    BY DEF VerdictInv, LengthsKept
  <2> QED
    BY <2>1 DEF V!get_len
<1>8. V!check_use(e) = (e.addr - (base + Offset[d]) > Size[d])
  BY <1>1, <1>6, <1>7 DEF V!check_use, n
<1>9. e.addr \in Nat /\ base \in Nat /\ Offset[d] \in Nat /\ Size[d] \in Nat
  BY ArrayRows, Shape DEF PP!Event, PP!ProgramShape
<1>10. (e.addr - (base + Offset[d]) > Size[d]) <=> (e.addr > base + Offset[d] + Size[d])
  BY <1>9
<1> QED
  BY <1>8, <1>10

LEMMA JudgeUseKeeps ==
  ASSUME VerdictInv, V!JudgeUse, UNCHANGED <<events, truth>>
  PROVE  Received' /\ LengthsKept' /\ AddressesTold' /\ JudgedLine' /\ ArrayVerdictIsTruth'
<1> DEFINE e == trace[next]
<1>1. /\ e.kind \in {"USE", "IUSE"} /\ V!NextLine /\ UNCHANGED <<address, length>> /\ ~V!Idle
      /\ judged' = [line |-> next, overflow |-> V!check_use(e)]
  BY DEF V!JudgeUse, V!NextLine
<1>2. /\ next \in 1 .. Len(events) /\ next \in Nat \ {0} /\ e = events[next] /\ e \in PP!Event
      /\ PP!LineOK(events, next, truth[next]) /\ \A k \in 1 .. next - 1 : trace[k] = events[k]
  BY <1>1, LineAt DEF VerdictInv
<1>3. /\ Received'
      /\ \A d \in Arrays, g \in Depths, base \in Addresses \cup {GlobalBase} :
           PP!LastBefore(trace', next', d, g, base) => g \in DOMAIN address'[d] /\ address'[d][g] = base
  BY <1>1, OtherLine
<1>4. LengthsKept' /\ AddressesTold'
  BY <1>1, <1>3 DEF VerdictInv, LengthsKept, AddressesTold
<1>5. JudgedLine'
  BY <1>1, <1>2 DEF JudgedLine
<1> HIDE DEF e
<1>6. CASE PP!HeapLine(e)
  <2>1. PICK f \in Functions, g \in Depths : e.id = Pack(HeapUse[f], g) /\ Heap # None
    BY <1>1, <1>6 DEF PP!HeapLine, PP!None, None, Pack, Depths
  <2>2. HeapUse[f] \in Nat
    BY Shape DEF PP!ProgramShape
  <2>3. V!IdOf(e.id) = HeapUse[f]
    BY <2>1, <2>2, NumberParts
  <2>4. V!IdOf(events'[judged'.line].id) \in HeapUses /\ Heap # None
    BY <1>1, <1>2, <2>1, <2>3 DEF HeapUses
  <2> QED
    BY <1>4, <1>3, <1>5, <2>4 DEF ArrayVerdictIsTruth, V!IdOf
<1>7. CASE PP!UseLine(events, next, truth[next])
  <2>1. PICK d \in Arrays, g \in Depths, base \in Addresses \cup {GlobalBase} :
          /\ PP!Names(e, d, g)
          /\ PP!LastBefore(events, next, d, PP!ReportedAt(d, g), base)
          /\ (truth[next] = "overflows") <=> (e.addr > base + Offset[d] + Size[d])
    BY <1>2, <1>7 DEF PP!UseLine, Arrays, Depths
  <2>2. PP!LastBefore(trace, next, d, PP!ReportedAt(d, g), base)
    <3>1. PICK j \in 1 .. next - 1 :
            /\ PP!Reports(events[j], d, PP!ReportedAt(d, g)) /\ events[j].addr = base
            /\ \A k \in j + 1 .. next - 1 : ~PP!Reports(events[k], d, PP!ReportedAt(d, g))
      BY <2>1 DEF PP!LastBefore
    <3>2. \A k \in j + 1 .. next - 1 : k \in 1 .. next - 1
      BY <1>2
    <3> QED
      BY <1>2, <3>1, <3>2 DEF PP!LastBefore
  <2>3. V!check_use(e) = (e.addr > base + Offset[d] + Size[d])
    BY <1>2, <2>1, <2>2, UseIsMeasured
  <2>4. judged'.overflow = (truth'[judged'.line] = "overflows")
    <3>1. judged'.overflow = V!check_use(e) /\ judged'.line = next /\ truth' = truth
      BY <1>1 DEF e
    <3>2. V!check_use(e) = (truth[next] = "overflows")
      BY <2>1, <2>3
    <3> QED
      BY <3>1, <3>2
  <2> QED
    BY <1>3, <1>4, <1>5, <2>4 DEF ArrayVerdictIsTruth
<1>8. ~PP!DefLine(e)
  BY <1>1 DEF PP!DefLine, PP!Reports, e
<1> QED
  BY <1>2, <1>3, <1>4, <1>5, <1>6, <1>7, <1>8 DEF PP!LineOK

LEMMA VerdictInvNext == ASSUME VerdictInv, [Next]_vars PROVE VerdictInv'
<1>1. ProgramInv'
  BY ProgramInvNext DEF VerdictInv
<1>2. CASE Judge
  <2>1. V!Step /\ UNCHANGED <<events, truth>>
    BY <1>2 DEF Judge, programVars
  <2>2. CASE V!Raise
    <3>1. UNCHANGED <<address, length, queue, trace, next, judged>>
      BY <2>2 DEF V!Raise
    <3> QED
      BY <1>1, <2>1, <3>1 DEF VerdictInv, Received, FirstPart, LengthsKept, AddressesTold,
                              JudgedLine, ArrayVerdictIsTruth
  <2> QED
    BY <1>1, <2>1, <2>2, GetTraceKeeps, ApplyDefKeeps, ApplyDDefKeeps, JudgeUseKeeps DEF V!Step, VerdictInv
<1>3. CASE Run \/ Retransmit \/ UNCHANGED vars
  <2>1. /\ [PP!Next]_(PP!programVars)
        /\ UNCHANGED <<address, length, trace, next, judged>>
        /\ queue' = queue \/ queue' = Append(queue, events)
    BY <1>3, ProgramStep DEF Run, Retransmit, vars, verifierVars, programVars, PP!programVars
  <2> QED
    BY <1>1, <2>1, ProgramSide DEF VerdictInv
<1> QED
  BY <1>2, <1>3 DEF Next

(***************************************************************************)
(* The inductive invariant: what the verifier holds of addresses and       *)
(* lengths is what the reports handled so far told, and what it judged is  *)
(* the truth about the uses among them.                                    *)
(***************************************************************************)
THEOREM VerdictInvariant == Spec => []VerdictInv
BY VerdictInvInit, VerdictInvNext, PTL DEF Spec

(***************************************************************************)
(* However the program recurses and hands on references, and however often *)
(* its trace is sent again, the verdict on a write of an array is the      *)
(* truth; with an allocated array in the program, too.                     *)
(***************************************************************************)
THEOREM ArrayVerdicts == Spec => []ArrayVerdictIsTruth
BY VerdictInvariant, PTL DEF VerdictInv

(***************************************************************************)
(* The verdict on every write is the truth (VerdictIsTruth) in a program   *)
(* without an allocated array.                                             *)
(***************************************************************************)
THEOREM VerdictTruth ==
  ASSUME Heap = None
  PROVE  Spec => []VerdictIsTruth
<1>1. ArrayVerdictIsTruth => VerdictIsTruth
  BY DEF ArrayVerdictIsTruth, VerdictIsTruth
<1> QED
  BY <1>1, ArrayVerdicts, PTL
=============================================================================
