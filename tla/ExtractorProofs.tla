-------------------------- MODULE ExtractorProofs ---------------------------
(***************************************************************************)
(* Proofs about Extractor, for every size of trace, copy and cache, every  *)
(* set of calls and every number of extraction rounds:                     *)
(*                                                                         *)
(*   ExtractorTypes   the types of library, child, connections and queue;  *)
(*   CutIsLast        a trace that was cut short is the last one;          *)
(*   FinalIsComplete  the last extraction misses nothing still exported;   *)
(*   Refinement       the system implements Evidence;                      *)
(*   TracesGrow       each trace extends the complete ones before it.      *)
(*                                                                         *)
(* The library and the application are those of LibzbouncerProofs: a step  *)
(* of the system is a step of them or leaves them alone (LibraryStep), so  *)
(* their invariants hold here too.  Each theorem adds an invariant of its  *)
(* own, which module Extractor states beside the property.                 *)
(***************************************************************************)
EXTENDS Extractor, TLAPS

LP == INSTANCE LibzbouncerProofs

-----------------------------------------------------------------------------
(***************************************************************************)
(* The parent of Extractor is the library of LibzbouncerProofs: the two    *)
(* instances say the same, so that what is proved there holds here.        *)
(***************************************************************************)
LEMMA LibraryAssumption == LP!CacheAssumption
BY ExtractorAssumption
   DEF LP!CacheAssumption, LP!Call, Call, LP!ENTRY_TYPE, ENTRY_TYPE, LP!None, None

LEMMA SameEntries ==
  /\ LP!UseT = UseT /\ LP!TA!UseT = UseT /\ Lib!UseT = UseT /\ TA!UseT = UseT
  /\ LP!Event = Event /\ Lib!Event = Event /\ TA!Event = Event
  /\ LP!ZeroEntry = ZeroEntry /\ Lib!ZeroEntry = ZeroEntry /\ TA!ZeroEntry = ZeroEntry
  /\ LP!TA!ZeroEntry = ZeroEntry /\ Lib!TA!ZeroEntry = ZeroEntry
  /\ LP!Entries = Lib!Entries
  /\ LP!TA!Slots = TA!Slots /\ Lib!TA!Slots = TA!Slots
  /\ LP!TA!Commands = Lib!TA!Commands
  /\ LP!DefTypes = Lib!DefTypes /\ LP!UseTypes = Lib!UseTypes /\ LP!IUseTypes = Lib!IUseTypes
  /\ LP!DefKinds = Lib!DefKinds
BY DEF LP!UseT, LP!TA!UseT, Lib!UseT, TA!UseT, UseT, LP!Static, LP!TA!Static, Lib!Static,
       TA!Static, Static, LP!Event, Lib!Event, TA!Event, Event, LP!EventKind, Lib!EventKind,
       TA!EventKind, EventKind, LP!ZeroEntry, Lib!ZeroEntry, TA!ZeroEntry, LP!TA!ZeroEntry,
       Lib!TA!ZeroEntry, ZeroEntry, LP!None, Lib!None, TA!None, LP!TA!None, Lib!TA!None, None,
       LP!Entries, Lib!Entries, LP!TA!Slots, TA!Slots, Lib!TA!Slots, LP!TA!Commands,
       Lib!TA!Commands, LP!DefTypes, Lib!DefTypes, LP!UseTypes, Lib!UseTypes, LP!IUseTypes,
       Lib!IUseTypes, LP!DefKinds, Lib!DefKinds

LEMMA SameCalls ==
  ASSUME NEW c, NEW e
  PROVE  /\ LP!CallFact(c) = Lib!CallFact(c)
         /\ LP!CallEvent(c) = Lib!CallEvent(c)
         /\ LP!SentEvent(c) = Lib!SentEvent(c)
         /\ LP!UpdateEntry(e, c) = Lib!UpdateEntry(e, c)
<1>1. LP!EndOfWrite(c) = Lib!EndOfWrite(c)
  BY DEF LP!EndOfWrite, Lib!EndOfWrite
<1>2. LP!CallFact(c) = Lib!CallFact(c)
  BY <1>1, SameEntries, Zenon
  DEF LP!CallFact, Lib!CallFact, LP!DefFact, Lib!DefFact, LP!UseFact, Lib!UseFact,
      LP!IUseFact, Lib!IUseFact, LP!None, Lib!None
<1>3. LP!CallEvent(c) = Lib!CallEvent(c)
  BY <1>1, SameEntries, Zenon DEF LP!CallEvent, Lib!CallEvent, LP!MakeEvent, Lib!MakeEvent
<1>4. LP!SentEvent(c) = Lib!SentEvent(c)
  BY <1>3, Zenon DEF LP!SentEvent, Lib!SentEvent, LP!MakeEvent, Lib!MakeEvent
<1>5. LP!UpdateEntry(e, c) = Lib!UpdateEntry(e, c)
  BY <1>1, SameEntries, Zenon
  DEF LP!UpdateEntry, Lib!UpdateEntry, LP!SetDef, Lib!SetDef, LP!SetUse, Lib!SetUse,
      LP!SetIUse, Lib!SetIUse
<1> QED BY <1>2, <1>3, <1>4, <1>5

LEMMA SameApplication ==
  ASSUME NEW buf, NEW e
  PROVE  /\ LP!TA!Init <=> Lib!TA!Init
         /\ LP!TA!OpenSession <=> Lib!TA!OpenSession
         /\ LP!TA!Command(e) <=> Lib!TA!Command(e)
         /\ LP!TA!FlushCache(buf) <=> Lib!TA!FlushCache(buf)
         /\ LP!TA!FuncCtr = Lib!TA!FuncCtr
<1>1. ASSUME NEW t PROVE LP!TA!EntryKind(t) = Lib!TA!EntryKind(t)
  BY DEF LP!TA!EntryKind, Lib!TA!EntryKind, LP!TA!None, Lib!TA!None
<1>2. ASSUME NEW t PROVE LP!TA!Emits(t) <=> Lib!TA!Emits(t)
  BY <1>1 DEF LP!TA!Emits, Lib!TA!Emits
<1>3. ASSUME NEW t PROVE LP!TA!EntryEvent(t) = Lib!TA!EntryEvent(t)
  BY <1>1, Zenon DEF LP!TA!EntryEvent, Lib!TA!EntryEvent, LP!TA!MakeEvent, Lib!TA!MakeEvent
<1>4. ASSUME NEW t, NEW ev PROVE LP!TA!StoreEvent(t, ev) = Lib!TA!StoreEvent(t, ev)
  BY Zenon
  DEF LP!TA!StoreEvent, Lib!TA!StoreEvent, LP!TA!SetDef, Lib!TA!SetDef, LP!TA!SetUse,
      Lib!TA!SetUse, LP!TA!SetIUse, Lib!TA!SetIUse, LP!TA!DefKinds, Lib!TA!DefKinds,
      LP!TA!Static, Lib!TA!Static
<1>5. LP!TA!FlushCount(buf) = Lib!TA!FlushCount(buf)
  BY <1>2 DEF LP!TA!FlushCount, Lib!TA!FlushCount
<1>6. ASSUME NEW s PROVE LP!TA!FlushedSlot(buf, s) = Lib!TA!FlushedSlot(buf, s)
  BY <1>3, <1>4, <1>5, Zenon DEF LP!TA!FlushedSlot, Lib!TA!FlushedSlot
<1>7. LP!TA!FlushCache(buf) <=> Lib!TA!FlushCache(buf)
  BY <1>3, <1>5, <1>6, SameEntries, Zenon DEF LP!TA!FlushCache, Lib!TA!FlushCache
<1>8. LP!TA!Command(e) <=> Lib!TA!Command(e)
  BY <1>4, Zenon DEF LP!TA!Command, Lib!TA!Command
<1>9. LP!TA!Init <=> Lib!TA!Init
  BY SameEntries, Zenon DEF LP!TA!Init, Lib!TA!Init
<1>10. LP!TA!FuncCtr = Lib!TA!FuncCtr
  BY DEF LP!TA!FuncCtr, Lib!TA!FuncCtr, LP!TA!Commands, Lib!TA!Commands
<1>11. LP!TA!OpenSession <=> Lib!TA!OpenSession
  BY DEF LP!TA!OpenSession, Lib!TA!OpenSession
<1> QED BY <1>7, <1>8, <1>9, <1>10, <1>11

LEMMA SameInit == LP!Init <=> Lib!Init
BY SameApplication, SameEntries, Zenon
   DEF LP!Init, Lib!Init, LP!ZeroCache, Lib!ZeroCache

LEMMA SameFlush ==
  ASSUME NEW buf
  PROVE  LP!FlushCache(buf) <=> Lib!FlushCache(buf)
<1>1. LP!ClearPrefix(buf) = Lib!ClearPrefix(buf)
  BY SameEntries, Zenon DEF LP!ClearPrefix, Lib!ClearPrefix
<1> QED BY <1>1, SameApplication, Zenon
        DEF LP!FlushCache, Lib!FlushCache, LP!Invoke, Lib!Invoke, LP!taVars, Lib!taVars

LEMMA SameCollect ==
  ASSUME NEW c
  PROVE  /\ LP!CollectAgain(c) <=> Lib!CollectAgain(c)
         /\ LP!CollectNew(c) <=> Lib!CollectNew(c)
         /\ LP!CollectLast(c) <=> Lib!CollectLast(c)
         /\ LP!Send(c) <=> Lib!Send(c)
<1>1. LP!CallMade(c) <=> Lib!CallMade(c)
  BY SameCalls, Zenon DEF LP!CallMade, Lib!CallMade
<1>2. LP!Matches(c) = Lib!Matches(c)
  BY SameEntries, Zenon DEF LP!Matches, Lib!Matches, LP!Live, Lib!Live
<1>3. ASSUME NEW S PROVE LP!Min(S) = Lib!Min(S)
  BY Zenon DEF LP!Min, Lib!Min
<1>4. LP!Remember(c) = Lib!Remember(c)
  BY <1>3, SameCalls, SameEntries, Zenon
  DEF LP!Remember, Lib!Remember, LP!GenPlace, Lib!GenPlace
<1>5. LP!CacheWith(c) = Lib!CacheWith(c)
  BY SameCalls, Zenon DEF LP!CacheWith, Lib!CacheWith
<1>6. LP!CollectAgain(c) <=> Lib!CollectAgain(c)
  BY <1>1, <1>2, <1>3, <1>4, SameCalls, Zenon
  DEF LP!CollectAgain, Lib!CollectAgain, LP!taVars, Lib!taVars
<1>7. LP!CollectNew(c) <=> Lib!CollectNew(c)
  BY <1>1, <1>2, <1>4, <1>5, Zenon
  DEF LP!CollectNew, Lib!CollectNew, LP!taVars, Lib!taVars
<1>8. LP!CollectLast(c) <=> Lib!CollectLast(c)
  BY <1>1, <1>2, <1>5, SameFlush, Zenon DEF LP!CollectLast, Lib!CollectLast
<1>9. LP!Send(c) <=> Lib!Send(c)
  BY <1>1, SameCalls, SameApplication, Zenon
  DEF LP!Send, Lib!Send, LP!Invoke, Lib!Invoke, LP!taVars, Lib!taVars
<1> QED BY <1>6, <1>7, <1>8, <1>9

(***************************************************************************)
(* A step of the whole system is a step of the library, or leaves it alone.*)
(***************************************************************************)
LEMMA LibraryStep == [Next]_vars => [LP!Next]_LP!vars
<1> SUFFICES ASSUME [Next]_vars PROVE [LP!Next]_LP!vars
  OBVIOUS
<1> USE DEF LP!vars, LP!libVars, LP!taVars
<1>1. CASE Fork
  <2>1. LP!zinit
    BY <1>1, SameApplication, SameEntries
    DEF Fork, LP!zinit, Lib!zinit, LP!ZeroCache, Lib!ZeroCache
  <2> QED BY <2>1 DEF LP!Next
<1>2. CASE Parent
  <2>1. ASSUME NEW c \in Calls, Lib!Collect(c) PROVE LP!Next
    BY <2>1, SameCollect, Zenon DEF Lib!Collect, LP!Next
  <2>2. ASSUME Lib!zexit PROVE LP!Next
    <3>1. LP!zexit
      BY <2>2, SameFlush
      DEF LP!zexit, Lib!zexit, LP!TA!FuncCtr, Lib!TA!FuncCtr, LP!TA!Commands, Lib!TA!Commands
    <3> QED BY <3>1 DEF LP!Next
  <2>3. ASSUME Lib!Exit \/ Lib!Die PROVE LP!Next
    <3>1. LP!Exit \/ LP!Die
      BY <2>3 DEF LP!Exit, Lib!Exit, LP!Die, Lib!Die, Lib!taVars
    <3> QED BY <3>1 DEF LP!Next
  <2> QED BY <1>2, <2>1, <2>2, <2>3 DEF Parent
<1>3. CASE UNCHANGED libVars
  BY <1>3 DEF libVars, taVars
<1>4. CASE UNCHANGED vars
  BY <1>4 DEF vars, libVars, taVars
<1> QED
  BY <1>1, <1>2, <1>3, <1>4, Zenon
  DEF Next, Wake, GotValue, WriteTrace, Connect, OpenTrace, SendLine, SendInfo, Close, Abort,
      Receive, Reset, ReceiverFails, Verify

LEMMA Library == Spec => LP!Spec
<1>1. Init => LP!Init
  BY SameInit DEF Init
<1> QED BY <1>1, LibraryStep, PTL DEF Spec, LP!Spec

-----------------------------------------------------------------------------
(***************************************************************************)
(* FlattenSeq, whatever it flattens.                                       *)
(***************************************************************************)
LEMMA LeastNat ==
  ASSUME NEW S \in SUBSET Nat, S # {}
  PROVE  \E m \in S : \A k \in S : m <= k
BY LP!LeastNat, LibraryAssumption

LEMMA ConcatRange ==
  ASSUME NEW T, NEW s \in Seq(T), NEW t \in Seq(T)
  PROVE  Range(s \o t) = Range(s) \cup Range(t)
<1>1. LP!Range(s \o t) = LP!Range(s) \cup LP!Range(t)
  BY LP!ConcatRange, LibraryAssumption
<1> QED BY <1>1 DEF LP!Range, Range

\* The prefixes that FlattenSeq builds, as the function it is defined by.
Flattening(seqs, n, f) ==
  f = [i \in 1 .. n |-> IF i = 1 THEN seqs[i] ELSE f[i - 1] \o seqs[i]]

LEMMA FlatteningExists ==
  ASSUME NEW seqs, NEW n \in Nat
  PROVE  \E f : Flattening(seqs, n, f)
<1> DEFINE Bad == {m \in Nat : \A f : ~Flattening(seqs, m, f)}
<1>1. Bad = {}
  <2> SUFFICES ASSUME Bad # {} PROVE FALSE
    OBVIOUS
  <2>1. PICK m \in Bad : \A k \in Bad : m <= k
    BY LeastNat
  <2>2. m # 0
    <3> SUFFICES ASSUME m = 0 PROVE FALSE
      OBVIOUS
    <3> DEFINE e == [i \in 1 .. 0 |-> i]
    <3>1. Flattening(seqs, 0, e)
      BY DEF Flattening
    <3> QED BY <2>1, <3>1
  <2>3. PICK g : Flattening(seqs, m - 1, g)
    BY <2>1, <2>2
  <2> DEFINE f == [i \in 1 .. m |-> IF i = m THEN IF m = 1 THEN seqs[1] ELSE g[m - 1] \o seqs[m]
                                    ELSE g[i]]
  <2>4. \A i \in 1 .. m - 1 : g[i] = IF i = 1 THEN seqs[i] ELSE g[i - 1] \o seqs[i]
    BY <2>3 DEF Flattening
  <2>5. \A i \in 1 .. m : f[i] = IF i = 1 THEN seqs[i] ELSE f[i - 1] \o seqs[i]
    BY <2>1, <2>2, <2>4
  <2>6. Flattening(seqs, m, f)
    <3>1. f = [i \in 1 .. m |-> f[i]]
      OBVIOUS
    <3> HIDE DEF f
    <3> QED BY <2>5, <3>1 DEF Flattening
  <2> QED BY <2>1, <2>6
<1> QED BY <1>1

\* f[i] is what FlattenSeq makes of the first i of n sequences.
Partial(seqs, n, f) ==
  /\ FlattenSeq(seqs) = f[n]
  /\ f[1] = seqs[1]
  /\ \A i \in 2 .. n : f[i] = f[i - 1] \o seqs[i]

LEMMA FlattenSteps ==
  ASSUME NEW n \in Nat \ {0}, NEW T, NEW seqs \in [1 .. n -> Seq(T)]
  PROVE  \E f : Partial(seqs, n, f)
<1> DEFINE f == CHOOSE g : Flattening(seqs, n, g)
<1>1. Flattening(seqs, n, f)
  BY FlatteningExists
<1>2. FlattenSeq(seqs) = f[n]
  <2>1. Len(seqs) = n
    OBVIOUS
  <2> QED BY <2>1 DEF FlattenSeq, Flattening
<1> HIDE DEF f
<1>3. \A i \in 1 .. n : f[i] = IF i = 1 THEN seqs[i] ELSE f[i - 1] \o seqs[i]
  BY <1>1 DEF Flattening
<1>4. f[1] = seqs[1]
  BY <1>3
<1>5. \A i \in 2 .. n : f[i] = f[i - 1] \o seqs[i]
  <2>1. \A i \in 2 .. n : i \in 1 .. n /\ i # 1
    OBVIOUS
  <2> QED BY <1>3, <2>1
<1> QED BY <1>2, <1>4, <1>5 DEF Partial

(***************************************************************************)
(* FlattenSeq of sequences over T is a sequence over T, and what it holds  *)
(* comes from one of them.                                                 *)
(***************************************************************************)
LEMMA FlattenRange ==
  ASSUME NEW n \in Nat \ {0}, NEW T, NEW seqs \in [1 .. n -> Seq(T)], NEW R,
         \A i \in 1 .. n : Range(seqs[i]) \subseteq R
  PROVE  FlattenSeq(seqs) \in Seq(T) /\ Range(FlattenSeq(seqs)) \subseteq R
<1>1. PICK f : Partial(seqs, n, f)
  BY FlattenSteps, Zenon
<1> DEFINE Good(i) == f[i] \in Seq(T) /\ Range(f[i]) \subseteq R
           Bad == {i \in 1 .. n : ~Good(i)}
<1>2. ASSUME NEW i \in 2 .. n, Good(i - 1) PROVE Good(i)
  <2>1. f[i] = f[i - 1] \o seqs[i]
    BY <1>1 DEF Partial
  <2>3. i \in 1 .. n
    OBVIOUS
  <2>4. seqs[i] \in Seq(T) /\ Range(seqs[i]) \subseteq R
    BY <2>3
  <2>2. Range(f[i - 1] \o seqs[i]) = Range(f[i - 1]) \cup Range(seqs[i])
    BY <1>2, <2>4, ConcatRange
  <2> QED BY <1>2, <2>1, <2>2, <2>4
<1>3. Good(1)
  BY <1>1 DEF Partial
<1>4. Bad = {}
  <2> SUFFICES ASSUME Bad # {} PROVE FALSE
    OBVIOUS
  <2>1. PICK m \in Bad : \A k \in Bad : m <= k
    <3> HIDE DEF Good
    <3>1. Bad \in SUBSET Nat
      OBVIOUS
    <3> QED BY <3>1, LeastNat
  <2>2. m \in 2 .. n /\ m - 1 \in 1 .. n /\ m - 1 \notin Bad
    <3> HIDE DEF Good
    <3> QED BY <1>3, <2>1
  <2>3. Good(m - 1)
    BY <2>2
  <2> HIDE DEF Good
  <2> QED BY <1>2, <2>1, <2>2, <2>3
<1> HIDE DEF Good
<1>5. Good(n)
  BY <1>4
<1> QED BY <1>1, <1>5 DEF Good, Partial

(***************************************************************************)
(* Sequences that agree up to place m and are empty behind it in the first *)
(* of two lists flatten to a prefix.                                       *)
(***************************************************************************)
LEMMA PrefixRefl ==
  ASSUME NEW T, NEW s \in Seq(T)
  PROVE  IsPrefix(s, s)
BY DEF IsPrefix

LEMMA PrefixTrans ==
  ASSUME NEW T, NEW s \in Seq(T), NEW t \in Seq(T), NEW u \in Seq(T),
         IsPrefix(s, t), IsPrefix(t, u)
  PROVE  IsPrefix(s, u)
BY DEF IsPrefix

LEMMA PrefixAppend ==
  ASSUME NEW T, NEW s \in Seq(T), NEW t \in Seq(T), NEW u \in Seq(T), IsPrefix(s, t)
  PROVE  IsPrefix(s, t \o u)
BY DEF IsPrefix

LEMMA FlattenPrefix ==
  ASSUME NEW n \in Nat \ {0}, NEW T, NEW a \in [1 .. n -> Seq(T)], NEW b \in [1 .. n -> Seq(T)],
         NEW m \in 0 .. n,
         \A i \in 1 .. m : a[i] = b[i],
         \A i \in m + 1 .. n : a[i] = << >>
  PROVE  IsPrefix(FlattenSeq(a), FlattenSeq(b))
<1>1. PICK f : Partial(a, n, f)
  BY FlattenSteps, Zenon
<1>2. PICK g : Partial(b, n, g)
  BY FlattenSteps, Zenon
<1> DEFINE Good(i) == /\ f[i] \in Seq(T) /\ g[i] \in Seq(T)
                      /\ i <= m => f[i] = g[i]
                      /\ IsPrefix(f[i], g[i])
           Bad == {i \in 1 .. n : ~Good(i)}
<1>3. ASSUME NEW i \in 2 .. n, Good(i - 1) PROVE Good(i)
  <2>1. f[i] = f[i - 1] \o a[i] /\ g[i] = g[i - 1] \o b[i]
    BY <1>1, <1>2 DEF Partial
  <2>5. i \in 1 .. n
    OBVIOUS
  <2>6. a[i] \in Seq(T) /\ b[i] \in Seq(T)
    BY <2>5
  <2>2. f[i] \in Seq(T) /\ g[i] \in Seq(T)
    BY <1>3, <2>1, <2>6
  <2>3. CASE i <= m
    <3>1. f[i - 1] = g[i - 1] /\ a[i] = b[i]
      BY <1>3, <2>3, <2>5
    <3>2. f[i] = g[i]
      BY <2>1, <3>1
    <3> QED BY <2>2, <3>2, PrefixRefl
  <2>4. CASE ~(i <= m)
    <3>1. f[i] = f[i - 1]
      <4>1. a[i] = << >>
        BY <2>4, <2>5
      <4>2. f[i - 1] \in Seq(T)
        BY <1>3
      <4>3. f[i - 1] \o << >> = f[i - 1]
        BY <4>2
      <4> QED BY <2>1, <4>1, <4>3
    <3>2. IsPrefix(f[i], g[i])
      <4>1. /\ f[i - 1] \in Seq(T) /\ g[i - 1] \in Seq(T)
            /\ IsPrefix(f[i - 1], g[i - 1])
        BY <1>3
      <4>2. IsPrefix(f[i - 1], g[i - 1] \o b[i])
        BY <2>6, <4>1, PrefixAppend
      <4> QED BY <2>1, <3>1, <4>2
    <3> QED BY <2>2, <2>4, <3>2
  <2> QED BY <2>3, <2>4
<1>4. Good(1)
  <2>1. f[1] \in Seq(T) /\ g[1] \in Seq(T)
    BY <1>1, <1>2 DEF Partial
  <2>2. CASE 1 <= m
    <3>1. f[1] = g[1]
      BY <1>1, <1>2, <2>2 DEF Partial
    <3> QED BY <2>1, <3>1, PrefixRefl
  <2>3. CASE ~(1 <= m)
    <3>1. f[1] = << >>
      BY <1>1, <2>3 DEF Partial
    <3> QED BY <2>1, <2>3, <3>1 DEF IsPrefix
  <2> QED BY <2>2, <2>3
<1>5. Bad = {}
  <2> SUFFICES ASSUME Bad # {} PROVE FALSE
    OBVIOUS
  <2>1. PICK k \in Bad : \A j \in Bad : k <= j
    <3> HIDE DEF Good
    <3>1. Bad \in SUBSET Nat
      OBVIOUS
    <3> QED BY <3>1, LeastNat
  <2>2. k \in 2 .. n /\ k - 1 \in 1 .. n /\ k - 1 \notin Bad
    <3> HIDE DEF Good
    <3> QED BY <1>4, <2>1
  <2>3. Good(k - 1)
    BY <2>2
  <2> HIDE DEF Good
  <2> QED BY <1>3, <2>1, <2>2, <2>3
<1> HIDE DEF Good
<1>6. Good(n)
  <2>1. n \in 1 .. n
    OBVIOUS
  <2> QED BY <1>5, <2>1
<1> QED BY <1>1, <1>2, <1>6 DEF Good, Partial

-----------------------------------------------------------------------------
(***************************************************************************)
(* What the library guarantees, in the terms of Extractor.                 *)
(***************************************************************************)
LEMMA LibraryTypes ==
  ASSUME LP!IInv
  PROVE  /\ Lib!TypeOK
         /\ dynamic_trace \in [TA!Slots -> UseT]
         /\ trace_id \in Nat
         /\ log \in Seq(Event)
<1>1. LP!CacheT = Lib!CacheT
  BY SameEntries DEF LP!CacheT, Lib!CacheT, LP!Static, Lib!Static
<1>2. LP!TA!TypeOK => Lib!TA!TypeOK
  BY SameEntries DEF LP!TA!TypeOK, Lib!TA!TypeOK, LP!TA!UseT, Lib!TA!UseT, LP!TA!Static,
     Lib!TA!Static, LP!TA!Event, Lib!TA!Event, LP!TA!EventKind, Lib!TA!EventKind
<1>3. LP!TypeOK
  BY DEF LP!IInv
<1>4. Lib!TypeOK
  BY <1>1, <1>2, <1>3, SameEntries
  DEF LP!TypeOK, Lib!TypeOK, LP!MainState, Lib!MainState, LP!Fact, Lib!Fact
<1>5. LP!TA!TypeOK /\ LP!TA!Event = Event
  BY <1>3 DEF LP!TypeOK, LP!TA!Event, Event, LP!TA!EventKind, EventKind
<1> QED BY <1>4, <1>5, SameEntries DEF LP!TA!TypeOK

LEMMA SameLines ==
  ASSUME NEW slot, NEW e
  PROVE  /\ LP!PrintedLines(slot) = PrintedLines(slot)
         /\ LP!EventFact(e) = EventFact(e)
<1>1. LP!PrintedLines(slot) = PrintedLines(slot)
  BY Zenon DEF LP!PrintedLines, PrintedLines, LP!LineIf, LineIf, LP!MakeEvent, MakeEvent,
     LP!None, None, LP!Static, Static
<1>2. LP!EventFact(e) = EventFact(e)
  BY SameEntries, Zenon DEF LP!EventFact, EventFact, LP!DefFact, DefFact, LP!UseFact, UseFact,
     LP!IUseFact, IUseFact, LP!DefKinds, DefKinds, LP!None, None
<1> QED BY <1>1, <1>2

LEMMA PrintedLinesType ==
  ASSUME NEW slot \in UseT
  PROVE  PrintedLines(slot) \in Seq(Event)
BY LP!PrintedLinesRange, LibraryAssumption, SameLines, SameEntries

LEMMA TraceLinesType ==
  ASSUME NEW slots \in [TA!Slots -> UseT], NEW R,
         \A s \in TA!Slots : Range(PrintedLines(slots[s])) \subseteq R
  PROVE  TraceLines(slots) \in Seq(Event) /\ Range(TraceLines(slots)) \subseteq R
<1> DEFINE seqs == [k \in 1 .. TraceSize |-> PrintedLines(slots[k - 1])]
<1>1. TraceSize \in Nat \ {0}
  BY ExtractorAssumption
<1>2. \A k \in 1 .. TraceSize : k - 1 \in TA!Slots
  BY <1>1 DEF TA!Slots
<1>3. seqs \in [1 .. TraceSize -> Seq(Event)]
  BY <1>2, PrintedLinesType
<1>4. \A k \in 1 .. TraceSize : Range(seqs[k]) \subseteq R
  BY <1>2
<1> HIDE DEF seqs
<1>5. FlattenSeq(seqs) \in Seq(Event) /\ Range(FlattenSeq(seqs)) \subseteq R
  BY <1>1, <1>3, <1>4, FlattenRange
<1> QED BY <1>5 DEF seqs, TraceLines

LEMMA CopyTraceType ==
  ASSUME dynamic_trace \in [TA!Slots -> UseT], NEW slots \in [TA!Slots -> UseT]
  PROVE  TA!CopyTrace(slots) \in [TA!Slots -> UseT]
BY DEF TA!CopyTrace

-----------------------------------------------------------------------------
(***************************************************************************)
(* Every variable of the system keeps its type.                            *)
(***************************************************************************)
ChildTypes ==
  /\ pc \in ChildPC
  /\ final \in BOOLEAN
  /\ rounds \in 0 .. MaxRounds + 1
  /\ failed \subseteq {"copy", "transport"}
  /\ shared \in [TA!Slots -> UseT]
  /\ file \in Seq(Event)
  /\ line \in {"null", "freed"}
  /\ sent \in 0 .. Len(file)

TransportTypes ==
  /\ wire \in Seq(Connection)
  /\ receiver \in {"up", "down"}
  /\ data_queue \in Seq(Trace)
  /\ verified \in Trace
  /\ proof \in Trace

LEMMA TypeParts == TypeOK <=> Lib!TypeOK /\ ChildTypes /\ TransportTypes
BY DEF TypeOK, ChildTypes, TransportTypes

LEMMA StepChildTypes ==
  ASSUME TypeOK, dynamic_trace \in [TA!Slots -> UseT], [Next]_vars
  PROVE  ChildTypes'
<1> USE DEF ChildPC
<1>1. ChildTypes /\ TransportTypes
  BY TypeParts
<1>2. MaxRounds \in Nat
  BY ExtractorAssumption
<1>3. CASE Fork
  BY <1>1, <1>3 DEF Fork, ChildTypes, roundVars, dataVars
<1>4. CASE Parent \/ Receive \/ ReceiverFails \/ Verify \/ UNCHANGED vars
  BY <1>1, <1>4 DEF Parent, Receive, ReceiverFails, Verify, vars, ChildTypes, roundVars, dataVars
<1>5. CASE Wake
  BY <1>1, <1>2, <1>5 DEF Wake, ChildTypes, dataVars, Orphan
<1>6. CASE GotValue
  <2>1. shared' \in [TA!Slots -> UseT]
    BY <1>1, <1>6, CopyTraceType DEF GotValue, ChildTypes
  <2> QED BY <1>1, <1>6, <2>1 DEF GotValue, ChildTypes, Fails
<1>7. CASE WriteTrace
  <2>1. TraceLines(shared) \in Seq(Event)
    <3> DEFINE R == UNION {Range(PrintedLines(shared[s])) : s \in TA!Slots}
    <3>1. \A s \in TA!Slots : Range(PrintedLines(shared[s])) \subseteq R
      OBVIOUS
    <3> HIDE DEF R
    <3> QED BY <1>1, <3>1, TraceLinesType DEF ChildTypes
  <2>2. file' \in Seq(Event) /\ sent' \in 0 .. Len(file')
    <3>1. CASE file' = TraceLines(shared) /\ sent' = 0
      BY <2>1, <3>1
    <3>2. CASE UNCHANGED <<file, sent>>
      BY <1>1, <3>2 DEF ChildTypes
    <3> QED BY <1>7, <3>1, <3>2 DEF WriteTrace
  <2> QED BY <1>1, <1>7, <2>2 DEF WriteTrace, ChildTypes, Fails, AfterRound
<1>8. CASE Connect \/ OpenTrace
  BY <1>1, <1>8 DEF Connect, OpenTrace, ChildTypes, Fails, dataVars
<1>9. CASE SendLine \/ SendInfo
  <2>1. file' = file /\ Len(file) \in Nat /\ sent' \in 0 .. Len(file)
    BY <1>1, <1>9 DEF SendLine, SendInfo, ChildTypes
  <2> QED BY <1>1, <1>9, <2>1 DEF SendLine, SendInfo, ChildTypes, roundVars
<1>10. CASE Close \/ Abort
  BY <1>1, <1>10 DEF Close, Abort, ChildTypes, AfterRound, roundVars, dataVars
<1>11. CASE Reset
  BY <1>1, <1>11 DEF Reset, ChildTypes, Fails, dataVars
<1>12. ASSUME Next PROVE ChildTypes'
  <2> HIDE DEF ChildPC
  <2> QED BY <1>3, <1>4, <1>5, <1>6, <1>7, <1>8, <1>9, <1>10, <1>11, <1>12, Zenon DEF Next
<1> QED BY <1>4, <1>12

(***************************************************************************)
(* The two ways a connection changes: what it carries and its state.       *)
(***************************************************************************)
LEMMA WithTrace ==
  ASSUME NEW w \in Seq(Connection), NEW i \in 1 .. Len(w), NEW trace \in Trace,
         NEW new, new = [w EXCEPT ![i].trace = trace]
  PROVE  /\ new \in Seq(Connection) /\ Len(new) = Len(w)
         /\ \A k \in 1 .. Len(w) :
              IF k = i THEN new[k].state = w[k].state /\ new[k].trace = trace ELSE new[k] = w[k]
<1> DEFINE c == [w[i] EXCEPT !.trace = trace]
<1>1. w[i] \in Connection
  OBVIOUS
<1>2. c = [trace |-> trace, state |-> w[i].state] /\ c \in Connection
  BY <1>1 DEF Connection
<1> HIDE DEF c
<1>3. [w EXCEPT ![i] = c] \in Seq(Connection) /\ Len([w EXCEPT ![i] = c]) = Len(w)
  BY <1>2
<1>4. \A k \in 1 .. Len(w) : [w EXCEPT ![i] = c][k] = IF k = i THEN c ELSE w[k]
  OBVIOUS
<1> QED BY <1>2, <1>3, <1>4 DEF c

LEMMA WithState ==
  ASSUME NEW w \in Seq(Connection), NEW i \in 1 .. Len(w),
         NEW state \in {"open", "closed", "reset"}, NEW new, new = [w EXCEPT ![i].state = state]
  PROVE  /\ new \in Seq(Connection) /\ Len(new) = Len(w)
         /\ \A k \in 1 .. Len(w) :
              IF k = i THEN new[k].state = state /\ new[k].trace = w[k].trace ELSE new[k] = w[k]
<1> DEFINE c == [w[i] EXCEPT !.state = state]
<1>1. w[i] \in Connection
  OBVIOUS
<1>2. c = [trace |-> w[i].trace, state |-> state] /\ c \in Connection
  BY <1>1 DEF Connection
<1> HIDE DEF c
<1>3. [w EXCEPT ![i] = c] \in Seq(Connection) /\ Len([w EXCEPT ![i] = c]) = Len(w)
  BY <1>2
<1>4. \A k \in 1 .. Len(w) : [w EXCEPT ![i] = c][k] = IF k = i THEN c ELSE w[k]
  OBVIOUS
<1> QED BY <1>2, <1>3, <1>4 DEF c

LEMMA PutType ==
  ASSUME wire \in Seq(Connection), NEW trace \in Trace, Put(trace)
  PROVE  /\ wire' \in Seq(Connection) /\ Len(wire') = Len(wire)
         /\ \A k \in 1 .. Len(wire) :
              IF Connected /\ k = Len(wire)
              THEN wire'[k].state = "open" /\ wire'[k].trace = trace
              ELSE wire'[k] = wire[k]
<1>1. CASE Connected
  <2> DEFINE n == Len(wire)
  <2>1. n \in 1 .. Len(wire) /\ wire[n].state = "open"
    BY <1>1 DEF Connected, Last
  <2>2. wire' = [wire EXCEPT ![n].trace = trace]
    BY <1>1 DEF Put
  <2> HIDE DEF n
  <2>3. /\ wire' \in Seq(Connection) /\ Len(wire') = Len(wire)
        /\ \A k \in 1 .. Len(wire) :
             IF k = n THEN wire'[k].state = wire[k].state /\ wire'[k].trace = trace
             ELSE wire'[k] = wire[k]
    BY <2>1, <2>2, WithTrace
  <2> QED BY <1>1, <2>1, <2>3 DEF n
<1>2. CASE ~Connected
  BY <1>2 DEF Put
<1> QED BY <1>1, <1>2

LEMMA HangupType ==
  ASSUME NEW w \in Seq(Connection), NEW v, v = Hangup(w)
  PROVE  /\ v \in Seq(Connection) /\ Len(v) = Len(w)
         /\ \A k \in 1 .. Len(w) :
              IF k = Len(w) /\ w[k].state = "open"
              THEN v[k].state = "closed" /\ v[k].trace = w[k].trace
              ELSE v[k] = w[k]
<1> DEFINE n == Len(w)
<1>1. CASE w # << >> /\ w[n].state = "open"
  <2>1. n \in 1 .. Len(w)
    BY <1>1
  <2>2. v = [w EXCEPT ![n].state = "closed"]
    BY <1>1 DEF Hangup, Last
  <2> DEFINE c == [w[n] EXCEPT !.state = "closed"]
  <2>3. c \in Connection /\ c.state = "closed" /\ c.trace = w[n].trace
    <3>1. w[n] \in Connection
      BY <2>1
    <3> QED BY <3>1 DEF Connection
  <2> HIDE DEF n, c
  <2>4. v = [w EXCEPT ![n] = c]
    BY <2>2 DEF c
  <2>5. v \in Seq(Connection) /\ Len(v) = Len(w)
    BY <2>1, <2>3, <2>4
  <2>6. \A k \in 1 .. Len(w) : v[k] = IF k = n THEN c ELSE w[k]
    BY <2>4
  <2> QED BY <1>1, <2>3, <2>5, <2>6 DEF n
<1>2. CASE ~(w # << >> /\ w[n].state = "open")
  BY <1>2 DEF Hangup, Last
<1> QED BY <1>1, <1>2

LEMMA StepTransportTypes ==
  ASSUME TypeOK, [Next]_vars
  PROVE  TransportTypes'
<1>1. ChildTypes /\ TransportTypes
  BY TypeParts
<1>2. CASE \/ Fork \/ Parent \/ Wake \/ GotValue \/ WriteTrace \/ OpenTrace
           \/ UNCHANGED vars
  BY <1>1, <1>2
  DEF Fork, Parent, Wake, GotValue, WriteTrace, OpenTrace, vars, TransportTypes, rxVars
<1>3. CASE Connect
  <2>1. [trace |-> NoTrace, state |-> "open"] \in Connection
    BY DEF Connection, Trace, NoTrace
  <2> QED BY <1>1, <1>3, <2>1 DEF Connect, TransportTypes, rxVars
<1>4. CASE SendLine
  <2>1. [lines |-> SubSeq(file, 1, sent + 1), info |-> FALSE] \in Trace
    BY <1>1, <1>4 DEF SendLine, ChildTypes, Trace
  <2> QED BY <1>1, <1>4, <2>1, PutType DEF SendLine, TransportTypes, rxVars
<1>5. CASE SendInfo
  <2>1. [lines |-> file, info |-> TRUE] \in Trace
    BY <1>1 DEF ChildTypes, Trace
  <2> QED BY <1>1, <1>5, <2>1, PutType DEF SendInfo, TransportTypes, rxVars
<1>6. CASE Close \/ Abort
  BY <1>1, <1>6, HangupType DEF Close, Abort, TransportTypes, rxVars
<1>7. CASE Receive
  <2>1. Head(wire) \in Connection /\ Tail(wire) \in Seq(Connection)
    BY <1>1, <1>7 DEF Receive, TransportTypes
  <2>2. Head(wire).trace \in Trace
    BY <2>1 DEF Connection
  <2> QED BY <1>1, <1>7, <2>1, <2>2 DEF Receive, TransportTypes
<1>8. CASE Reset
  <2>1. wire' \in Seq(Connection)
    <3>1. /\ wire \in Seq(Connection)
          /\ 1 \in 1 .. Len(wire) /\ wire' = [wire EXCEPT ![1].state = "reset"]
      BY <1>1, <1>8 DEF Reset, TransportTypes
    <3> QED BY <3>1, WithState
  <2> QED BY <1>1, <1>8, <2>1 DEF Reset, TransportTypes, rxVars
<1>9. CASE ReceiverFails
  BY <1>1, <1>9 DEF ReceiverFails, TransportTypes
<1>10. CASE Verify
  BY <1>1, <1>10 DEF Verify, TransportTypes
<1> QED BY <1>2, <1>3, <1>4, <1>5, <1>6, <1>7, <1>8, <1>9, <1>10 DEF Next

LEMMA InitTypes == Init => TypeOK
<1> SUFFICES ASSUME Init PROVE TypeOK
  OBVIOUS
<1>1. Lib!TypeOK
  <2>1. LP!IInv
    BY SameInit, LP!InitIInv, LibraryAssumption DEF Init
  <2> QED BY <2>1, LibraryTypes
<1>2. ZeroEntry \in UseT
  BY DEF ZeroEntry, UseT, None
<1>3. ChildTypes
  <2>1. file \in Seq(Event) /\ sent \in 0 .. Len(file)
    BY DEF Init
  <2>2. shared \in [TA!Slots -> UseT] /\ rounds \in 0 .. MaxRounds + 1
    BY <1>2, ExtractorAssumption DEF Init
  <2> QED BY <2>1, <2>2 DEF Init, ChildTypes, ChildPC
<1>4. TransportTypes
  BY DEF Init, TransportTypes, Trace, NoTrace
<1> QED BY <1>1, <1>3, <1>4, TypeParts

LEMMA LibraryInvariant == Spec => [](LP!IInv /\ LP!TraceInv)
BY LibraryAssumption, Library, LP!Invariant, LP!RingInvariant, PTL

(***************************************************************************)
(* Type correctness of the whole system: of the library, the child, the    *)
(* connections and the queue of the verifier.                              *)
(***************************************************************************)
THEOREM ExtractorTypes == Spec => []TypeOK
<1>1. LP!IInv /\ LP!IInv' /\ TypeOK /\ [Next]_vars => TypeOK'
  <2> SUFFICES ASSUME LP!IInv, LP!IInv', TypeOK, [Next]_vars PROVE TypeOK'
    OBVIOUS
  <2>1. ChildTypes' /\ TransportTypes'
    BY LibraryTypes, StepChildTypes, StepTransportTypes
  <2>2. (LP!IInv => Lib!TypeOK)'
    BY LibraryTypes, PTL
  <2> QED BY <2>1, <2>2 DEF TypeOK, ChildTypes, TransportTypes
<1> QED BY <1>1, InitTypes, LibraryInvariant, PTL DEF Spec

-----------------------------------------------------------------------------
(***************************************************************************)
(* A trace that was cut short, by connection: the state of a connection    *)
(* tells where the child must be.                                          *)
(***************************************************************************)
LEMMA StepWire ==
  ASSUME TypeOK, TypeOK', WireInv, main = "start" => pc = "unborn", [Next]_vars
  PROVE  WireInv'
<1>1. /\ ChildTypes /\ TransportTypes /\ wire \in Seq(Connection)
      /\ wire' \in Seq(Connection) /\ pc \in ChildPC
  BY TypeParts DEF TypeOK, ChildTypes, TransportTypes
<1>2. \A k \in 1 .. Len(wire) : wire[k] \in Connection
  BY <1>1
<1>3. CASE wire' = wire /\ pc' = pc
  BY <1>3 DEF WireInv
<1>4. CASE Fork \/ Wake \/ GotValue \/ WriteTrace
  <2>1. wire' = wire /\ pc \in {"unborn", "sleep", "copy", "write"}
    BY <1>4 DEF Fork, Lib!zinit, Wake, GotValue, WriteTrace
  <2> QED BY <2>1 DEF WireInv
<1>5. CASE Connect
  <2>1. CASE pc' = "dead" /\ wire' = wire /\ pc = "connect"
    BY <2>1 DEF WireInv
  <2>2. CASE /\ wire' = Append(wire, [trace |-> NoTrace, state |-> "open"])
             /\ pc' = "open" /\ pc = "connect"
    <3>1. /\ Len(wire') = Len(wire) + 1 /\ Len(wire) \in Nat
          /\ \A k \in 1 .. Len(wire) : wire'[k] = wire[k]
          /\ wire'[Len(wire) + 1] = [trace |-> NoTrace, state |-> "open"]
      BY <1>1, <2>2
    <3>2. ~Cut(NoTrace)
      BY DEF Cut, NoTrace
    <3> QED BY <2>2, <3>1, <3>2 DEF WireInv
  <2> QED BY <1>5, <2>1, <2>2 DEF Connect
<1>6. CASE OpenTrace
  <2>1. wire' = wire /\ pc = "open" /\ pc' \in {"send", "close"}
    BY <1>6 DEF OpenTrace
  <2> QED BY <2>1 DEF WireInv
<1>7. CASE SendLine
  <2>1. /\ pc = "send" /\ pc' = "send"
        /\ Put([lines |-> SubSeq(file, 1, sent + 1), info |-> FALSE])
        /\ [lines |-> SubSeq(file, 1, sent + 1), info |-> FALSE] \in Trace
    BY <1>1, <1>7 DEF SendLine, ChildTypes, Trace
  <2>2. /\ Len(wire') = Len(wire)
        /\ \A k \in 1 .. Len(wire) :
             IF Connected /\ k = Len(wire) THEN wire'[k].state = "open" ELSE wire'[k] = wire[k]
    BY <1>1, <2>1, PutType
  <2> QED BY <1>1, <2>1, <2>2 DEF WireInv
<1>8. CASE SendInfo
  <2>1. /\ pc = "send" /\ pc' = "close"
        /\ Put([lines |-> file, info |-> TRUE]) /\ [lines |-> file, info |-> TRUE] \in Trace
    BY <1>1, <1>8 DEF SendInfo, ChildTypes, Trace
  <2>2. /\ Len(wire') = Len(wire)
        /\ \A k \in 1 .. Len(wire) :
             IF Connected /\ k = Len(wire)
             THEN wire'[k].state = "open" /\ wire'[k].trace.info ELSE wire'[k] = wire[k]
    BY <1>1, <2>1, PutType
  <2>3. \A k \in 1 .. Len(wire) : wire[k].state = "open" => Connected /\ k = Len(wire)
    BY <1>1 DEF WireInv, Connected, Last
  <2> QED BY <1>1, <2>1, <2>2, <2>3 DEF WireInv, Cut
<1>9. CASE Close
  <2>1. pc = "close" /\ pc' \in {"dead", "sleep"} /\ wire' = Hangup(wire)
    BY <1>9 DEF Close, AfterRound
  <2>2. /\ Len(wire') = Len(wire)
        /\ \A k \in 1 .. Len(wire) :
             IF k = Len(wire) /\ wire[k].state = "open"
             THEN wire'[k].state = "closed" /\ wire'[k].trace = wire[k].trace
             ELSE wire'[k] = wire[k]
    BY <1>1, <2>1, HangupType
  <2> QED BY <1>1, <2>1, <2>2 DEF WireInv
<1>10. CASE Abort
  <2>1. pc \in {"write", "open", "send"} /\ pc' = "dead" /\ wire' = Hangup(wire)
    BY <1>10 DEF Abort
  <2>2. /\ Len(wire') = Len(wire)
        /\ \A k \in 1 .. Len(wire) :
             IF k = Len(wire) /\ wire[k].state = "open"
             THEN wire'[k].state = "closed" /\ wire'[k].trace = wire[k].trace
             ELSE wire'[k] = wire[k]
    BY <1>1, <2>1, HangupType
  <2> QED BY <1>1, <2>1, <2>2 DEF WireInv
<1>11. CASE Receive
  <2>1. /\ Len(wire') = Len(wire) - 1 /\ pc' = pc
        /\ \A k \in 1 .. Len(wire') : wire'[k] = wire[k + 1] /\ k + 1 \in 1 .. Len(wire)
    BY <1>1, <1>11 DEF Receive
  <2> QED BY <1>1, <2>1 DEF WireInv
<1>12. CASE Reset
  <2>1. 1 \in 1 .. Len(wire) /\ wire' = [wire EXCEPT ![1].state = "reset"] /\ pc' = pc
    BY <1>1, <1>12 DEF Reset
  <2>2. /\ Len(wire') = Len(wire)
        /\ \A k \in 1 .. Len(wire) :
             IF k = 1 THEN wire'[k].state = "reset" ELSE wire'[k] = wire[k]
    BY <1>1, <2>1, WithState
  <2> QED BY <1>1, <2>1, <2>2 DEF WireInv
<1>13. CASE ReceiverFails
  BY <1>13 DEF ReceiverFails, WireInv
<1>14. CASE Parent \/ Verify \/ UNCHANGED vars
  BY <1>3, <1>14 DEF Parent, Verify, vars
<1> QED BY <1>4, <1>5, <1>6, <1>7, <1>8, <1>9, <1>10, <1>11, <1>12, <1>13, <1>14 DEF Next

LEMMA NonEmpty ==
  ASSUME NEW T, NEW s \in Seq(T), s # << >>
  PROVE  /\ 1 \in 1 .. Len(s) /\ Len(s) \in Nat /\ s[1] \in T /\ Head(s) = s[1]
         /\ Len(s) = 1 => Tail(s) = << >>
         /\ Len(Tail(s)) = Len(s) - 1
         /\ \A i \in 1 .. Len(Tail(s)) : Tail(s)[i] = s[i + 1] /\ i + 1 \in 1 .. Len(s)
<1>1. Len(s) \in Nat /\ Len(s) # 0
  OBVIOUS
<1>2. Len(Tail(s)) = Len(s) - 1 /\ Tail(s) \in Seq(T)
  BY <1>1
<1>3. Len(s) = 1 => Tail(s) = << >>
  <2> DEFINE t == Tail(s)
  <2>1. t \in Seq(T) /\ (Len(s) = 1 => Len(t) = 0)
    BY <1>1, <1>2
  <2> HIDE DEF t
  <2>2. Len(s) = 1 => t = << >>
    BY <2>1
  <2> QED BY <2>2 DEF t
<1> QED BY <1>1, <1>2, <1>3

LEMMA StartStays ==
  ASSUME [Next]_vars, main' = "start"
  PROVE  main = "start"
<1>1. CASE Fork
  BY <1>1 DEF Fork, Lib!zinit
<1>2. CASE Parent
  <2>1. ASSUME NEW c \in Calls, Lib!Collect(c) PROVE main' = main
    BY <2>1 DEF Lib!Collect, Lib!CollectAgain, Lib!CollectNew, Lib!CollectLast, Lib!Send,
       Lib!CallMade
  <2>2. ~Lib!zexit /\ ~Lib!Exit /\ ~Lib!Die
    BY DEF Lib!zexit, Lib!Exit, Lib!Die
  <2> QED BY <1>2, <2>1, <2>2 DEF Parent
<1>3. CASE UNCHANGED libVars \/ UNCHANGED vars
  BY <1>3 DEF vars, libVars
<1> QED
  BY <1>1, <1>2, <1>3, Zenon
  DEF Next, Wake, GotValue, WriteTrace, Connect, OpenTrace, SendLine, SendInfo, Close, Abort,
      Receive, Reset, ReceiverFails, Verify

LEMMA StartUnborn ==
  ASSUME main = "start" => pc = "unborn", [Next]_vars
  PROVE  main' = "start" => pc' = "unborn"
<1>1. main' = "start" => main = "start"
  BY StartStays
<1>2. pc = "unborn" /\ pc' # "unborn" => Fork
  BY DEF Next, Parent, Wake, GotValue, WriteTrace, Connect, OpenTrace, SendLine, SendInfo, Close,
     Abort, Receive, Reset, ReceiverFails, Verify, vars
<1>3. Fork => main' = "run"
  BY DEF Fork, Lib!zinit
<1> QED BY <1>1, <1>2, <1>3

LEMMA StepCut ==
  ASSUME TypeOK, CutInv, WireInv', main = "start" => pc = "unborn", [Next]_vars
  PROVE  CutInv'
<1>1. /\ wire \in Seq(Connection) /\ data_queue \in Seq(Trace) /\ WireInv
      /\ Cut(verified) => data_queue = << >> /\ LastSign
      /\ \A i \in 1 .. Len(data_queue) :
           Cut(data_queue[i]) => i = Len(data_queue) /\ LastSign
  BY DEF TypeOK, CutInv
<1>2. CASE Receive
  <2>1. /\ wire # << >> /\ Head(wire) = wire[1] /\ wire[1].state = "closed"
        /\ data_queue' = Append(data_queue, wire[1].trace) /\ wire' = Tail(wire)
        /\ pc' = pc /\ verified' = verified
    BY <1>1, <1>2 DEF Receive
  <2>2. ~Cut(verified) /\ \A i \in 1 .. Len(data_queue) : ~Cut(data_queue[i])
    BY <1>1, <2>1 DEF LastSign
  <2>3. ASSUME Cut(wire[1].trace) PROVE pc = "dead" /\ Tail(wire) = << >>
    <3>1. 1 \in 1 .. Len(wire)
      BY <1>1, <2>1, NonEmpty
    <3>2. pc = "dead" /\ Len(wire) = 1
      BY <1>1, <2>1, <2>3, <3>1 DEF WireInv
    <3> QED BY <1>1, <2>1, <3>2, NonEmpty
  <2>4. /\ Len(data_queue') = Len(data_queue) + 1 /\ Len(data_queue) \in Nat
        /\ \A i \in 1 .. Len(data_queue) : data_queue'[i] = data_queue[i]
        /\ data_queue'[Len(data_queue) + 1] = wire[1].trace
    <3>1. wire[1] \in Connection
      BY <1>1, <2>1, NonEmpty
    <3>2. wire[1].trace \in Trace
      BY <3>1 DEF Connection
    <3> QED BY <1>1, <2>1, <3>2
  <2>5. ASSUME NEW i \in 1 .. Len(data_queue'), Cut(data_queue'[i])
        PROVE  i = Len(data_queue') /\ pc' = "dead" /\ wire' = << >>
    BY <2>1, <2>2, <2>3, <2>4, <2>5
  <2> QED BY <2>1, <2>2, <2>5 DEF CutInv, LastSign
<1>3. CASE Verify
  <2>1. /\ data_queue # << >> /\ verified' = data_queue[1] /\ wire' = wire /\ pc' = pc
        /\ Len(data_queue') = Len(data_queue) - 1 /\ data_queue' = Tail(data_queue)
        /\ \A i \in 1 .. Len(data_queue') :
             data_queue'[i] = data_queue[i + 1] /\ i + 1 \in 1 .. Len(data_queue)
    <3>1. data_queue # << >> /\ data_queue' = Tail(data_queue) /\ verified' = Head(data_queue)
          /\ wire' = wire /\ pc' = pc
      BY <1>3 DEF Verify
    <3> QED BY <1>1, <3>1, NonEmpty
  <2>2. 1 \in 1 .. Len(data_queue) /\ (Len(data_queue) = 1 => data_queue' = << >>)
    BY <1>1, <2>1, NonEmpty
  <2>3. Cut(verified') => data_queue' = << >> /\ LastSign
    BY <1>1, <2>1, <2>2
  <2>4. ASSUME NEW i \in 1 .. Len(data_queue'), Cut(data_queue'[i])
        PROVE  i = Len(data_queue') /\ LastSign
    <3>1. i + 1 \in 1 .. Len(data_queue) /\ Cut(data_queue[i + 1])
      BY <2>1, <2>4
    <3>2. i + 1 = Len(data_queue) /\ LastSign
      BY <1>1, <3>1
    <3>3. i \in Int
      OBVIOUS
    <3>4. Len(data_queue) \in Nat
      BY <1>1
    <3>5. Len(data_queue') = Len(data_queue) - 1
      BY <2>1
    <3>6. i = Len(data_queue')
      BY <3>2, <3>3, <3>4, <3>5
    <3> QED BY <3>2, <3>6
  <2> QED BY <2>1, <2>3, <2>4 DEF CutInv, LastSign
<1>4. CASE UNCHANGED <<data_queue, verified>>
  <2>1. ASSUME LastSign PROVE LastSign'
    <3>1. pc = "dead" /\ wire = << >> /\ pc # "unborn"
      BY <2>1 DEF LastSign
    <3>2. ~Fork
      BY <3>1 DEF Fork, Lib!zinit
    <3> QED
      BY <3>1, <3>2
      DEF LastSign, Next, Parent, Wake, GotValue, WriteTrace, Connect, OpenTrace, SendLine,
          SendInfo, Close, Abort, Receive, Reset, ReceiverFails, Verify, vars
  <2> QED BY <1>1, <1>4, <2>1 DEF CutInv
<1> QED
  BY <1>2, <1>3, <1>4, Zenon
  DEF Next, Fork, Parent, Wake, GotValue, WriteTrace, Connect, OpenTrace, SendLine, SendInfo,
      Close, Abort, Reset, ReceiverFails, rxVars, vars

(***************************************************************************)
(* The verifier takes no trace after one that the death of the child cut   *)
(* short, whatever the network, the files and the schedulers do.           *)
(***************************************************************************)
THEOREM CutIsLast == Spec => []CutTraceIsLast
<1> DEFINE Start == main = "start" => pc = "unborn"
<1>1. Init => CutInv /\ Start
  BY DEF Init, CutInv, WireInv, Cut, NoTrace
<1>2. Start /\ [Next]_vars => Start'
  BY StartUnborn
<1>3. TypeOK /\ TypeOK' /\ CutInv /\ Start /\ [Next]_vars => CutInv'
  BY StepCut, StepWire DEF CutInv
<1>4. TypeOK /\ CutInv => CutTraceIsLast
  <2> SUFFICES ASSUME TypeOK, CutInv,
                      NEW i \in 1 .. Len(Received), Cut(Received[i])
               PROVE  i = Len(Received) /\ pc = "dead" /\ wire = << >>
    BY DEF CutTraceIsLast, Cut
  <2>1. data_queue \in Seq(Trace) /\ verified \in Trace
    BY DEF TypeOK
  <2>2. /\ Len(Received) = Len(data_queue) + 1 /\ Len(data_queue) \in Nat
        /\ Received[1] = verified
        /\ \A j \in 1 .. Len(data_queue) : Received[j + 1] = data_queue[j]
    BY <2>1 DEF Received
  <2>3. CASE i = 1
    BY <2>2, <2>3 DEF CutInv, LastSign
  <2>4. CASE i # 1
    <3>1. i - 1 \in 1 .. Len(data_queue) /\ Received[(i - 1) + 1] = data_queue[i - 1]
          /\ (i - 1) + 1 = i
      BY <2>2, <2>4
    <3> QED BY <2>2, <3>1 DEF CutInv, LastSign
  <2> QED BY <2>3, <2>4
<1> QED BY <1>1, <1>2, <1>3, <1>4, ExtractorTypes, PTL DEF Spec

-----------------------------------------------------------------------------
(***************************************************************************)
(* Once the protected process is gone, nothing changes in the application. *)
(***************************************************************************)
LEMMA OrphanIdle ==
  ASSUME Orphan, [Next]_vars
  PROVE  UNCHANGED libVars
<1>1. ~Fork /\ ~Parent
  <2>1. ASSUME NEW c \in Calls, Lib!Collect(c) PROVE main = "run"
    BY <2>1 DEF Lib!Collect, Lib!CollectAgain, Lib!CollectNew, Lib!CollectLast, Lib!Send,
       Lib!CallMade
  <2>2. main # "run" /\ main # "start" /\ main # "returned"
    BY DEF Orphan
  <2> QED BY <2>1, <2>2 DEF Fork, Parent, Lib!zinit, Lib!zexit, Lib!Exit, Lib!Die
<1> QED
  BY <1>1, Zenon
  DEF Next, Wake, GotValue, WriteTrace, Connect, OpenTrace, SendLine, SendInfo, Close, Abort,
      Receive, Reset, ReceiverFails, Verify, vars

LEMMA SameExported ==
  ASSUME UNCHANGED libVars
  PROVE  Exported' = Exported /\ TraceLines(Exported)' = TraceLines(Exported) /\ Orphan' = Orphan
<1>1. dynamic_trace' = dynamic_trace /\ main' = main
  BY DEF libVars, taVars
<1>2. Exported' = Exported
  BY <1>1 DEF Exported, TA!CopyTrace
<1> QED BY <1>1, <1>2 DEF TraceLines, Orphan

\* A copy into a buffer whose upper part is empty is what is exported.
LEMMA CopyIsExported ==
  ASSUME \A s \in TA!Slots : s >= CopySize => shared[s] = ZeroEntry
  PROVE  /\ TA!CopyTrace(shared) = Exported
         /\ \A s \in TA!Slots : s >= CopySize => Exported[s] = ZeroEntry
<1>1. CopySize \in Nat /\ \A s \in TA!Slots : s < CopySize \/ s >= CopySize
  BY ExtractorAssumption DEF TA!Slots
<1>2. ASSUME NEW s \in TA!Slots
      PROVE  (IF s < CopySize THEN dynamic_trace[s] ELSE shared[s])
               = (IF s < CopySize THEN dynamic_trace[s] ELSE [t \in TA!Slots |-> ZeroEntry][s])
  BY <1>1
<1>3. TA!CopyTrace(shared) = Exported
  BY <1>2, Zenon DEF Exported, TA!CopyTrace
<1>4. ASSUME NEW s \in TA!Slots, s >= CopySize PROVE Exported[s] = ZeroEntry
  <2>1. CopySize \in Int /\ s \in Int
    BY <1>1 DEF TA!Slots
  <2>2. ~(s < CopySize)
    BY <1>4, <2>1
  <2> QED BY <2>2 DEF Exported, TA!CopyTrace
<1> QED BY <1>3, <1>4

LEMMA StepFinal ==
  ASSUME TypeOK, FinalInv, [Next]_vars
  PROVE  FinalInv'
<1>1. /\ pc \in ChildPC
      /\ main = "start" => pc = "unborn"
      /\ final => Orphan
      /\ \A s \in TA!Slots : s >= CopySize => shared[s] = ZeroEntry
      /\ final /\ "copy" \notin failed =>
           /\ pc = "write" => shared = Exported
           /\ pc \in {"connect", "open", "send", "close"} => file = TraceLines(Exported)
      /\ proof.info => final /\ pc \in {"close", "dead"}
      /\ proof.info /\ "copy" \notin failed => proof.lines = TraceLines(Exported)
  BY DEF TypeOK, FinalInv, FinalTraceComplete
<1>2. main' = "start" => pc' = "unborn"
  BY <1>1, StartUnborn
<1>3. Orphan => Exported' = Exported /\ TraceLines(Exported)' = TraceLines(Exported) /\ Orphan'
  BY OrphanIdle, SameExported
<1>4. proof.info => Orphan /\ pc \in {"close", "dead"}
  BY <1>1
<1> USE DEF ChildPC
<1>5. CASE Fork
  <2>1. pc = "unborn" /\ pc' = "sleep" /\ UNCHANGED <<final, failed, shared, file, proof>>
    BY <1>1, <1>5 DEF Fork, Lib!zinit, roundVars, dataVars
  <2>2. ~proof.info /\ ~final
    BY <1>1, <1>5, <2>1 DEF Fork, Lib!zinit, Orphan
  <2> QED BY <1>1, <1>2, <2>1, <2>2 DEF FinalInv, FinalTraceComplete
<1>6. CASE Wake
  <2>1. /\ pc = "sleep" /\ pc' = "copy" /\ final' = Orphan /\ UNCHANGED <<shared, file, proof>>
        /\ Orphan' = Orphan
    BY <1>6, SameExported DEF Wake, dataVars
  <2>2. ~proof.info
    BY <1>1, <2>1
  <2> QED BY <1>1, <1>2, <2>1, <2>2 DEF FinalInv, FinalTraceComplete
<1>7. CASE GotValue
  <2>1. /\ pc = "copy" /\ pc' = "write" /\ UNCHANGED <<final, file, proof>>
        /\ \/ shared' = Exported /\ failed' = failed
           \/ "copy" \in failed' /\ shared' = shared
    BY <1>1, <1>7, CopyIsExported DEF GotValue, Fails
  <2>2. ~proof.info
    BY <1>1, <2>1
  <2>3. \A s \in TA!Slots : s >= CopySize => shared'[s] = ZeroEntry
    BY <1>1, <2>1, CopyIsExported
  <2>4. final' => Orphan'
    BY <1>1, <1>3, <2>1
  <2>5. final' /\ "copy" \notin failed' => shared' = Exported'
    BY <1>1, <1>3, <2>1
  <2> QED BY <1>2, <2>1, <2>2, <2>3, <2>4, <2>5 DEF FinalInv, FinalTraceComplete
<1>8. CASE WriteTrace
  <2>1. /\ pc = "write" /\ UNCHANGED <<final, shared, proof>>
        /\ \/ pc' = "connect" /\ file' = TraceLines(shared) /\ failed' = failed
           \/ pc' \in {"dead", "sleep"} /\ file' = file /\ ("copy" \in failed' <=> "copy" \in failed)
    BY <1>8 DEF WriteTrace, Fails, AfterRound
  <2>2. ~proof.info
    BY <1>1, <2>1
  <2>3. final' => Orphan'
    BY <1>1, <1>3, <2>1
  <2>4. final' /\ "copy" \notin failed' /\ pc' = "connect" => file' = TraceLines(Exported)'
    <3> SUFFICES ASSUME final', "copy" \notin failed', pc' = "connect"
                 PROVE  file' = TraceLines(Exported)'
      OBVIOUS
    <3>1. file' = TraceLines(shared) /\ shared = Exported /\ Orphan
      BY <1>1, <2>1
    <3> QED BY <1>3, <3>1
  <2> QED BY <1>1, <1>2, <2>1, <2>2, <2>3, <2>4 DEF FinalInv, FinalTraceComplete
<1>9. CASE Connect \/ OpenTrace \/ SendLine
  <2>1. /\ pc \in {"connect", "open", "send"} /\ pc' \in {"dead", "open", "send", "close"}
        /\ UNCHANGED <<final, shared, file, proof>>
        /\ "copy" \in failed' <=> "copy" \in failed
    BY <1>9 DEF Connect, OpenTrace, SendLine, Fails, roundVars, dataVars
  <2>2. ~proof.info
    BY <1>1, <2>1
  <2> QED BY <1>1, <1>2, <1>3, <2>1, <2>2 DEF FinalInv, FinalTraceComplete
<1>10. CASE SendInfo
  <2>1. /\ pc = "send" /\ pc' = "close" /\ UNCHANGED <<final, failed, shared, file>>
        /\ proof' = IF final /\ Connected THEN [lines |-> file, info |-> TRUE] ELSE proof
    BY <1>10 DEF SendInfo, roundVars
  <2>2. ~proof.info
    BY <1>1, <2>1
  <2>3. CASE final /\ Connected
    <3>1. proof'.info /\ proof'.lines = file
      BY <2>1, <2>3
    <3> QED BY <1>1, <1>2, <1>3, <2>1, <2>3, <3>1 DEF FinalInv, FinalTraceComplete
  <2>4. CASE ~(final /\ Connected)
    BY <1>1, <1>2, <1>3, <2>1, <2>2, <2>4 DEF FinalInv, FinalTraceComplete
  <2> QED BY <2>3, <2>4
<1>11. CASE Close \/ Abort
  <2>1. /\ UNCHANGED <<final, failed, shared, file, proof>>
        /\ pc \in {"close", "write", "open", "send"}
        /\ pc' = "dead" \/ (pc' = "sleep" /\ ~final)
    BY <1>11 DEF Close, Abort, AfterRound, roundVars, dataVars
  <2> QED BY <1>1, <1>2, <1>3, <2>1 DEF FinalInv, FinalTraceComplete
<1>12. CASE Parent \/ Receive \/ Reset \/ ReceiverFails \/ Verify \/ UNCHANGED vars
  <2>1. /\ UNCHANGED <<pc, final, shared, file, proof>>
        /\ "copy" \in failed' <=> "copy" \in failed
    BY <1>12 DEF Parent, Receive, Reset, Fails, ReceiverFails, Verify, vars, roundVars, dataVars
  <2> QED BY <1>1, <1>2, <1>3, <2>1 DEF FinalInv, FinalTraceComplete
<1> QED BY <1>5, <1>6, <1>7, <1>8, <1>9, <1>10, <1>11, <1>12, Zenon DEF Next

LEMMA InitFinal == Init => FinalInv
BY DEF Init, FinalInv, FinalTraceComplete, NoTrace

(***************************************************************************)
(* A completed final extraction carries what the application still exports:*)
(* the child looks for its parent before it copies.                        *)
(***************************************************************************)
THEOREM FinalIsComplete == Spec => []FinalTraceComplete
<1>1. FinalInv => FinalTraceComplete
  BY DEF FinalInv
<1> QED BY <1>1, InitFinal, StepFinal, ExtractorTypes, PTL DEF Spec

-----------------------------------------------------------------------------
(***************************************************************************)
(* The history of the application only grows, and by reported facts.       *)
(***************************************************************************)
LogGrows ==
  \E new \in Seq(Event) :
    log' = log \o new /\ \A k \in 1 .. Len(new) : EventFact(new[k]) \in recorded'

LEMMA LibraryGrows ==
  ASSUME LP!IInv, LP!TraceInv, [Next]_vars, main # "start"
  PROVE  /\ LogGrows
         /\ trace_id' >= trace_id
         /\ trace_id' <= TraceSize =>
              \A s \in TA!Slots :
                s < trace_id \/ s >= trace_id' => dynamic_trace'[s] = dynamic_trace[s]
<1>1. LP!TraceGrows
  BY LibraryAssumption, LibraryStep, LP!StepGrows
<1>2. /\ trace_id' >= trace_id
      /\ trace_id' <= TraceSize =>
           \A s \in TA!Slots :
             s < trace_id \/ s >= trace_id' => dynamic_trace'[s] = dynamic_trace[s]
  BY <1>1, SameEntries DEF LP!TraceGrows
<1>3. \E new \in Seq(Event) :
        log' = log \o new /\ \A k \in 1 .. Len(new) : LP!EventFact(new[k]) \in recorded'
  BY <1>1, SameEntries DEF LP!TraceGrows
<1>4. LogGrows
  BY <1>3, SameLines DEF LogGrows
<1> QED BY <1>2, <1>4

LEMMA EmptyGrowth ==
  ASSUME log \in Seq(Event), log' = log
  PROVE  LogGrows
<1> DEFINE none == << >>
<1>1. /\ none \in Seq(Event) /\ log' = log \o none
      /\ \A k \in 1 .. Len(none) : EventFact(none[k]) \in recorded'
  OBVIOUS
<1> HIDE DEF none
<1> QED BY <1>1 DEF LogGrows

LEMMA StartStep ==
  ASSUME UnbornInv, main = "start", [Next]_vars
  PROVE  /\ log' = log /\ trace_id' = trace_id /\ dynamic_trace' = dynamic_trace
         /\ recorded' = recorded
         /\ Fork \/ pc' = pc
<1>1. CASE Fork
  BY <1>1 DEF Fork, Lib!zinit, Lib!TA!OpenSession, UnbornInv
<1>2. CASE Parent
  <2>1. ASSUME NEW c \in Calls, Lib!Collect(c) PROVE main = "run"
    BY <2>1 DEF Lib!Collect, Lib!CollectAgain, Lib!CollectNew, Lib!CollectLast, Lib!Send,
       Lib!CallMade
  <2>2. Lib!Die
    BY <1>2, <2>1 DEF Parent, Lib!zexit, Lib!Exit
  <2> QED BY <1>2, <2>2 DEF Parent, Lib!Die, Lib!taVars
<1>3. CASE Receive \/ Reset \/ ReceiverFails \/ Verify \/ UNCHANGED vars
  BY <1>3 DEF Receive, Reset, ReceiverFails, Verify, vars, libVars, taVars
<1>4. pc = "unborn"
  BY DEF UnbornInv
<1>5. ~Wake /\ ~GotValue /\ ~WriteTrace /\ ~Connect /\ ~OpenTrace /\ ~SendLine /\ ~SendInfo
      /\ ~Close /\ ~Abort
  BY <1>4 DEF Wake, GotValue, WriteTrace, Connect, OpenTrace, SendLine, SendInfo, Close, Abort
<1> QED BY <1>1, <1>2, <1>3, <1>5 DEF Next

LEMMA StepLog ==
  ASSUME LP!IInv, LP!TraceInv, UnbornInv, [Next]_vars
  PROVE  LogGrows /\ Range(log) \subseteq Range(log')
<1>1. log \in Seq(Event)
  BY LibraryTypes
<1>2. LogGrows
  BY <1>1, LibraryGrows, StartStep, EmptyGrowth
<1>3. PICK new \in Seq(Event) : log' = log \o new
  BY <1>2 DEF LogGrows
<1> QED BY <1>1, <1>2, <1>3, ConcatRange

LEMMA StepUnborn ==
  ASSUME UnbornInv, [Next]_vars
  PROVE  UnbornInv'
<1>1. main = "start" => pc = "unborn"
  BY DEF UnbornInv
<1>2. main' = "start" => pc' = "unborn"
  BY <1>1, StartUnborn
<1>3. main' = "start" => main = "start"
  BY StartStays
<1>4. main' = "start" => log' = << >> /\ trace_id' = 0
  BY <1>3, StartStep DEF UnbornInv
<1>5. pc' = "unborn" =>
        pc = "unborn" /\ UNCHANGED <<shared, file>>
        /\ (UNCHANGED <<wire, data_queue, verified>> \/ Receive \/ Reset \/ ReceiverFails \/ Verify)
  <2>1. ~(pc' = "unborn") \/ Parent \/ Receive \/ Reset \/ ReceiverFails \/ Verify \/ UNCHANGED vars
        \/ (pc' = pc /\ pc # "unborn")
    BY DEF Next, Fork, Wake, GotValue, WriteTrace, Connect, OpenTrace, SendLine, SendInfo, Close,
       Abort, AfterRound
  <2> QED BY <2>1 DEF Parent, Receive, Reset, ReceiverFails, Verify, vars, dataVars, rxVars
<1>6. pc = "unborn" => ~Receive /\ ~Reset /\ ~ReceiverFails /\ ~Verify
  BY DEF UnbornInv, Receive, Reset, ReceiverFails, Verify
<1> QED BY <1>2, <1>4, <1>5, <1>6 DEF UnbornInv

-----------------------------------------------------------------------------
(***************************************************************************)
(* Every line on its way is an event of the application.                   *)
(***************************************************************************)
LEMMA TraceKnown ==
  ASSUME LP!IInv, LP!TraceInv, NEW s \in TA!Slots
  PROVE  Known(PrintedLines(dynamic_trace[s]))
<1>1. log \in Seq(Event) /\ LP!TA!Slots = TA!Slots
  BY LibraryTypes, SameEntries
<1>2. ASSUME NEW e \in Range(PrintedLines(dynamic_trace[s])) PROVE e \in Range(log)
  <2>1. LP!RingHoldsLog
    BY DEF LP!TraceInv
  <2>2. e \in LP!Range(LP!PrintedLines(dynamic_trace[s]))
    BY <1>2, SameLines DEF LP!Range, Range
  <2>3. PICK k \in 1 .. Len(log) : log[k] = e
    BY <1>1, <2>1, <2>2, Zenon DEF LP!RingHoldsLog
  <2> QED BY <1>1, <2>3 DEF Range
<1> QED BY <1>2 DEF Known

LEMMA StepCarried ==
  ASSUME TypeOK, LP!IInv, LP!TraceInv, UnbornInv, CarriedInv, [Next]_vars
  PROVE  CarriedInv'
<1> DEFINE R == Range(log')
<1>1. /\ ChildTypes /\ TransportTypes /\ wire \in Seq(Connection) /\ data_queue \in Seq(Trace)
      /\ file \in Seq(Event) /\ shared \in [TA!Slots -> UseT]
  BY TypeParts DEF ChildTypes, TransportTypes
<1>2. ASSUME NEW x, Known(x) PROVE Range(x) \subseteq R
  BY <1>2, StepLog DEF Known
<1>3. /\ \A s \in TA!Slots : Range(PrintedLines(shared[s])) \subseteq R
      /\ Range(file) \subseteq R
      /\ \A k \in 1 .. Len(wire) : Range(wire[k].trace.lines) \subseteq R
      /\ \A i \in 1 .. Len(data_queue) : Range(data_queue[i].lines) \subseteq R
      /\ Range(verified.lines) \subseteq R
  BY <1>2 DEF CarriedInv
<1> HIDE DEF R
<1>4. ASSUME \A s \in TA!Slots : Range(PrintedLines(shared'[s])) \subseteq R,
             Range(file') \subseteq R,
             \A k \in 1 .. Len(wire') : Range(wire'[k].trace.lines) \subseteq R,
             \A i \in 1 .. Len(data_queue') : Range(data_queue'[i].lines) \subseteq R,
             Range(verified'.lines) \subseteq R
      PROVE  CarriedInv'
  BY <1>4 DEF CarriedInv, Known, R
<1>5. CASE UNCHANGED <<shared, file, wire, data_queue, verified>>
  BY <1>3, <1>4, <1>5
<1>6. CASE Fork \/ Parent \/ Wake \/ OpenTrace \/ UNCHANGED vars
  BY <1>5, <1>6 DEF Fork, Parent, Wake, OpenTrace, vars, dataVars, rxVars
<1>7. CASE GotValue
  <2>1. UNCHANGED <<file, wire, data_queue, verified>>
    BY <1>7 DEF GotValue, rxVars
  <2>2. ASSUME NEW s \in TA!Slots PROVE Range(PrintedLines(shared'[s])) \subseteq R
    <3>1. Range(PrintedLines(dynamic_trace[s])) \subseteq R
      BY <1>2, TraceKnown DEF R
    <3>2. shared'[s] = dynamic_trace[s] \/ shared'[s] = shared[s]
      BY <1>7 DEF GotValue, TA!CopyTrace
    <3> QED BY <1>3, <3>1, <3>2
  <2> QED BY <1>3, <1>4, <2>1, <2>2
<1>8. CASE WriteTrace
  <2>1. UNCHANGED <<shared, wire, data_queue, verified>>
    BY <1>8 DEF WriteTrace, rxVars
  <2>2. file' = TraceLines(shared) \/ file' = file
    BY <1>8 DEF WriteTrace
  <2>3. Range(TraceLines(shared)) \subseteq R
    BY <1>1, <1>3, TraceLinesType
  <2> QED BY <1>3, <1>4, <2>1, <2>2, <2>3
<1>9. CASE Connect
  <2>1. UNCHANGED <<shared, file, data_queue, verified>>
    BY <1>9 DEF Connect, dataVars, rxVars
  <2>2. CASE wire' = Append(wire, [trace |-> NoTrace, state |-> "open"])
    <3>1. Len(wire') = Len(wire) + 1 /\ Len(wire) \in Nat
          /\ (\A k \in 1 .. Len(wire) : wire'[k] = wire[k])
          /\ wire'[Len(wire) + 1] = [trace |-> NoTrace, state |-> "open"]
      BY <1>1, <2>2
    <3>2. Range(NoTrace.lines) \subseteq R
      BY DEF NoTrace, Range
    <3>3. \A k \in 1 .. Len(wire') : Range(wire'[k].trace.lines) \subseteq R
      BY <1>3, <3>1, <3>2
    <3> QED BY <1>3, <1>4, <2>1, <3>3
  <2>3. CASE wire' = wire
    BY <1>5, <2>1, <2>3
  <2> QED BY <1>9, <2>2, <2>3 DEF Connect
<1>10. ASSUME NEW trace \in Trace, Put(trace), Range(trace.lines) \subseteq R,
              UNCHANGED <<shared, file, data_queue, verified>>
       PROVE  CarriedInv'
  <2>1. /\ Len(wire') = Len(wire)
        /\ \A k \in 1 .. Len(wire) : wire'[k].trace = trace \/ wire'[k] = wire[k]
    BY <1>1, <1>10, PutType
  <2>2. \A k \in 1 .. Len(wire') : Range(wire'[k].trace.lines) \subseteq R
    BY <1>3, <1>10, <2>1
  <2> QED BY <1>3, <1>4, <1>10, <2>2
<1>11. CASE SendLine
  <2> DEFINE some == SubSeq(file, 1, sent + 1)
  <2>1. /\ sent + 1 \in 1 .. Len(file) /\ Put([lines |-> some, info |-> FALSE])
        /\ UNCHANGED <<shared, file, data_queue, verified>>
    BY <1>1, <1>11 DEF SendLine, ChildTypes, rxVars
  <2>2. some \in Seq(Event) /\ Range(some) \subseteq Range(file)
    BY <1>1, <2>1 DEF Range
  <2>3. [lines |-> some, info |-> FALSE] \in Trace
    BY <2>2 DEF Trace
  <2> QED BY <1>3, <1>10, <2>1, <2>2, <2>3
<1>12. CASE SendInfo
  <2>1. [lines |-> file, info |-> TRUE] \in Trace
    BY <1>1 DEF Trace
  <2> QED BY <1>3, <1>10, <1>12, <2>1 DEF SendInfo, rxVars
<1>13. CASE Close \/ Abort
  <2>1. UNCHANGED <<shared, file, data_queue, verified>> /\ wire' = Hangup(wire)
    BY <1>13 DEF Close, Abort, dataVars, rxVars
  <2>2. /\ Len(wire') = Len(wire)
        /\ \A k \in 1 .. Len(wire) : wire'[k].trace = wire[k].trace
    BY <1>1, <2>1, HangupType
  <2> QED BY <1>3, <1>4, <2>1, <2>2
<1>14. CASE Receive
  <2>1. /\ wire # << >> /\ data_queue' = Append(data_queue, wire[1].trace) /\ wire' = Tail(wire)
        /\ UNCHANGED <<shared, file, verified>>
    BY <1>1, <1>14, NonEmpty DEF Receive, dataVars
  <2>2. \A k \in 1 .. Len(wire') : wire'[k] = wire[k + 1] /\ k + 1 \in 1 .. Len(wire)
    BY <1>1, <2>1, NonEmpty
  <2>3. 1 \in 1 .. Len(wire) /\ wire[1] \in Connection
    BY <1>1, <2>1, NonEmpty
  <2>4. /\ Len(data_queue') = Len(data_queue) + 1 /\ Len(data_queue) \in Nat
        /\ \A i \in 1 .. Len(data_queue) : data_queue'[i] = data_queue[i]
        /\ data_queue'[Len(data_queue) + 1] = wire[1].trace
    <3>1. wire[1].trace \in Trace
      BY <2>3 DEF Connection
    <3> QED BY <1>1, <2>1, <3>1
  <2>5. \A k \in 1 .. Len(wire') : Range(wire'[k].trace.lines) \subseteq R
    BY <1>3, <2>2
  <2>6. \A i \in 1 .. Len(data_queue') : Range(data_queue'[i].lines) \subseteq R
    BY <1>3, <2>3, <2>4
  <2> QED BY <1>3, <1>4, <2>1, <2>5, <2>6
<1>15. CASE Reset
  <2>1. 1 \in 1 .. Len(wire) /\ wire' = [wire EXCEPT ![1].state = "reset"]
        /\ UNCHANGED <<shared, file, data_queue, verified>>
    BY <1>1, <1>15, NonEmpty DEF Reset, dataVars, rxVars
  <2>2. /\ Len(wire') = Len(wire)
        /\ \A k \in 1 .. Len(wire) :
             IF k = 1 THEN wire'[k].state = "reset" /\ wire'[k].trace = wire[k].trace
             ELSE wire'[k] = wire[k]
    BY <1>1, <2>1, WithState
  <2> QED BY <1>3, <1>4, <2>1, <2>2
<1>16. CASE ReceiverFails
  <2>1. UNCHANGED <<shared, file, data_queue, verified>> /\ wire' = << >>
    BY <1>16 DEF ReceiverFails, dataVars
  <2> QED BY <1>3, <1>4, <2>1
<1>17. CASE Verify
  <2>1. /\ data_queue # << >> /\ verified' = Head(data_queue) /\ data_queue' = Tail(data_queue)
        /\ UNCHANGED <<shared, file, wire>>
    BY <1>17 DEF Verify, dataVars
  <2>2. /\ 1 \in 1 .. Len(data_queue) /\ verified' = data_queue[1]
        /\ \A i \in 1 .. Len(data_queue') :
             data_queue'[i] = data_queue[i + 1] /\ i + 1 \in 1 .. Len(data_queue)
    BY <1>1, <2>1, NonEmpty
  <2>3. \A i \in 1 .. Len(data_queue') : Range(data_queue'[i].lines) \subseteq R
    BY <1>3, <2>2
  <2> QED BY <1>3, <1>4, <2>1, <2>2, <2>3
<1> QED BY <1>6, <1>7, <1>8, <1>9, <1>11, <1>12, <1>13, <1>14, <1>15, <1>16, <1>17 DEF Next
-----------------------------------------------------------------------------
LEMMA SameFact == ASSUME NEW c PROVE Lib!CallFact(c) = CallFact(c)
<1>1. Lib!EndOfWrite(c) = EndOfWrite(c)
  BY DEF Lib!EndOfWrite, EndOfWrite
<1> QED BY <1>1, Zenon
  DEF Lib!CallFact, CallFact, Lib!DefFact, DefFact, Lib!UseFact, UseFact, Lib!IUseFact, IUseFact,
      Lib!DefTypes, DefTypes, Lib!UseTypes, UseTypes, Lib!None, None

\* What the application holds grows by facts reported so far.
LEMMA HeldGrows ==
  ASSUME LP!IInv, LP!TraceInv, UnbornInv, [Next]_vars
  PROVE  /\ FactsOf(log) \subseteq FactsOf(log')
         /\ FactsOf(log') \subseteq FactsOf(log) \cup recorded'
<1>1. log \in Seq(Event) /\ LogGrows /\ Range(log) \subseteq Range(log')
  BY LibraryTypes, StepLog
<1>2. PICK new \in Seq(Event) :
        log' = log \o new /\ \A k \in 1 .. Len(new) : EventFact(new[k]) \in recorded'
  BY <1>1 DEF LogGrows
<1>3. Range(log') = Range(log) \cup Range(new)
  BY <1>1, <1>2, ConcatRange
<1>4. \A e \in Range(new) : EventFact(e) \in recorded'
  BY <1>2 DEF Range
<1> QED BY <1>1, <1>3, <1>4 DEF FactsOf

LEMMA StepReports ==
  ASSUME [Next]_vars
  PROVE  \/ recorded' = recorded
         \/ \E c \in Calls : recorded' = recorded \cup {CallFact(c)}
<1>1. CASE Parent
  <2>1. ASSUME NEW c \in Calls, Lib!Collect(c) PROVE recorded' = recorded \cup {CallFact(c)}
    BY <2>1, SameFact
    DEF Lib!Collect, Lib!CollectAgain, Lib!CollectNew, Lib!CollectLast, Lib!Send, Lib!CallMade
  <2>2. Lib!zexit \/ Lib!Exit \/ Lib!Die => recorded' = recorded
    BY DEF Lib!zexit, Lib!Exit, Lib!Die
  <2> QED BY <1>1, <2>1, <2>2 DEF Parent
<1>2. CASE Fork \/ UNCHANGED libVars \/ UNCHANGED vars
  BY <1>2 DEF Fork, Lib!zinit, libVars, vars
<1> QED
  BY <1>1, <1>2, Zenon
  DEF Next, Wake, GotValue, WriteTrace, Connect, OpenTrace, SendLine, SendInfo, Close, Abort,
      Receive, Reset, ReceiverFails, Verify

(***************************************************************************)
(* A step of the system is a step of Evidence, or changes none of it.      *)
(***************************************************************************)
LEMMA StepEvidence ==
  ASSUME TypeOK, LP!IInv, LP!TraceInv, UnbornInv, CarriedInv, [Next]_vars
  PROVE  [Abstract!Next]_Abstract!vars
<1>1. CASE Verify
  <2>1. /\ data_queue # << >> /\ verified' = Head(data_queue)
        /\ UNCHANGED <<recorded, log>>
    BY <1>1 DEF Verify, libVars, taVars
  <2>2. 1 \in 1 .. Len(data_queue) /\ verified' = data_queue[1]
    BY <2>1, NonEmpty DEF TypeOK
  <2>3. Range(verified'.lines) \subseteq Range(log)
    BY <2>2 DEF CarriedInv, Known
  <2>4. FactsOf(verified'.lines) \subseteq FactsOf(log)
    BY <2>3 DEF FactsOf
  <2>5. Abstract!Accept
    BY <2>1, <2>4 DEF Abstract!Accept, FactsOf
  <2> QED BY <2>5 DEF Abstract!Next
<1>2. CASE verified' = verified
  <2>1. FactsOf(verified.lines)' = FactsOf(verified.lines)
    BY <1>2 DEF FactsOf
  <2>2. Abstract!Store
    BY HeldGrows DEF Abstract!Store, FactsOf
  <2>3. CASE recorded' = recorded
    BY <2>1, <2>2, <2>3 DEF Abstract!Next, Abstract!Flush
  <2>4. ASSUME NEW c \in Calls, recorded' = recorded \cup {CallFact(c)}
        PROVE  Abstract!Report
    BY <2>1, <2>2, <2>4 DEF Abstract!Report
  <2> QED BY <2>3, <2>4, StepReports DEF Abstract!Next
<1>3. Verify \/ verified' = verified
  BY Zenon
  DEF Next, Fork, Parent, Wake, GotValue, WriteTrace, Connect, OpenTrace, SendLine, SendInfo,
      Close, Abort, Receive, Reset, ReceiverFails, rxVars, vars
<1> QED BY <1>1, <1>2, <1>3

LEMMA InitCarried == Init => UnbornInv /\ CarriedInv
<1> SUFFICES ASSUME Init PROVE UnbornInv /\ CarriedInv
  OBVIOUS
<1>1. /\ shared = [s \in TA!Slots |-> ZeroEntry] /\ file = << >> /\ wire = << >>
      /\ data_queue = << >> /\ verified.lines = << >> /\ log = << >> /\ trace_id = 0
      /\ pc = "unborn"
  BY DEF Init, Lib!Init, Lib!TA!Init, NoTrace
<1>2. \A s \in TA!Slots : PrintedLines(shared[s]) = << >>
  BY <1>1 DEF PrintedLines, LineIf, ZeroEntry
<1> QED BY <1>1, <1>2 DEF UnbornInv, CarriedInv, Known, Range

(***************************************************************************)
(* The whole system implements Evidence: no trace the verifier accepts     *)
(* mentions a fact that the program did not report, whatever the caches,   *)
(* the ring, the files, the sockets and the schedulers do on the way.      *)
(***************************************************************************)
THEOREM Refinement == Spec => ImplementsEvidence
<1>1. Init => Abstract!Init
  BY DEF Init, Lib!Init, Lib!TA!Init, Abstract!Init, NoTrace, FactsOf, Range
<1>2. Init => UnbornInv /\ CarriedInv
  BY InitCarried
<1>3. UnbornInv /\ [Next]_vars => UnbornInv'
  BY StepUnborn
<1>4. TypeOK /\ LP!IInv /\ LP!TraceInv /\ UnbornInv /\ CarriedInv /\ [Next]_vars => CarriedInv'
  BY StepCarried
<1>5. TypeOK /\ LP!IInv /\ LP!TraceInv /\ UnbornInv /\ CarriedInv /\ [Next]_vars
        => [Abstract!Next]_Abstract!vars
  BY StepEvidence
<1> QED
  BY <1>1, <1>2, <1>3, <1>4, <1>5, ExtractorTypes, LibraryInvariant, PTL
  DEF Spec, ImplementsEvidence, Abstract!Spec
-----------------------------------------------------------------------------
(***************************************************************************)
(* SnapshotsGrow speaks of the places of Pipeline.                         *)
(***************************************************************************)
Ordered(p) ==
  \A i, j \in 1 .. Len(p) : i < j /\ p[i].info /\ p[j].info => IsPrefix(p[i].lines, p[j].lines)

PipelineOf(v, q, w, f) ==
  << v >> \o q \o [k \in 1 .. Len(w) |-> w[k].trace] \o << [lines |-> f, info |-> TRUE] >>

LEMMA ConcatPlaces ==
  ASSUME NEW T, NEW s \in Seq(T), NEW t \in Seq(T), NEW u, u = s \o t
  PROVE  /\ u \in Seq(T) /\ Len(u) = Len(s) + Len(t)
         /\ \A i \in 1 .. Len(s) : u[i] = s[i]
         /\ \A i \in 1 .. Len(t) : u[Len(s) + i] = t[i]
OBVIOUS

LEMMA AppendPlaces ==
  ASSUME NEW T, NEW s \in Seq(T), NEW e \in T, NEW u, u = s \o << e >>
  PROVE  /\ u \in Seq(T) /\ Len(u) = Len(s) + 1
         /\ \A i \in 1 .. Len(s) : u[i] = s[i]
         /\ u[Len(s) + 1] = e
OBVIOUS

\* Where the parts of a pipeline are.
Places(p, v, q, w, f) ==
  /\ Len(p) = 2 + Len(q) + Len(w)
  /\ p[1] = v
  /\ \A i \in 2 .. 1 + Len(q) : p[i] = q[i - 1]
  /\ \A i \in 2 + Len(q) .. 1 + Len(q) + Len(w) : p[i] = w[i - 1 - Len(q)].trace
  /\ p[2 + Len(q) + Len(w)] = [lines |-> f, info |-> TRUE]

LEMMA PipelinePlaces ==
  ASSUME NEW v \in Trace, NEW q \in Seq(Trace), NEW w \in Seq(Connection), NEW f \in Seq(Event),
         NEW p, p = PipelineOf(v, q, w, f)
  PROVE  p \in Seq(Trace) /\ Places(p, v, q, w, f)
<1> DEFINE a == << v >> \o q
           b == [k \in 1 .. Len(w) |-> w[k].trace]
           c == a \o b
           d == [lines |-> f, info |-> TRUE]
<1>1. /\ a \in Seq(Trace) /\ Len(a) = 1 + Len(q) /\ Len(q) \in Nat
      /\ a[1] = v /\ \A i \in 1 .. Len(q) : a[1 + i] = q[i]
  OBVIOUS
<1>2. b \in Seq(Trace) /\ Len(b) = Len(w) /\ \A k \in 1 .. Len(w) : b[k] = w[k].trace
  <2>1. Len(w) \in Nat /\ \A k \in 1 .. Len(w) : w[k] \in Connection
    OBVIOUS
  <2>2. \A k \in 1 .. Len(w) : w[k].trace \in Trace
    BY <2>1 DEF Connection
  <2> QED BY <2>1, <2>2
<1>3. d \in Trace
  BY DEF Trace
<1>12. c = a \o b
  OBVIOUS
<1> HIDE DEF a, b, c, d
<1>4. /\ c \in Seq(Trace) /\ Len(c) = Len(a) + Len(b)
      /\ \A i \in 1 .. Len(a) : c[i] = a[i]
      /\ \A i \in 1 .. Len(b) : c[Len(a) + i] = b[i]
  <2>1. a \in Seq(Trace) /\ b \in Seq(Trace)
    BY <1>1, <1>2
  <2> QED BY <1>12, <2>1, ConcatPlaces
<1>5. p = c \o << d >>
  BY DEF PipelineOf, a, b, c, d
<1>6. /\ p \in Seq(Trace) /\ Len(p) = Len(c) + 1
      /\ \A i \in 1 .. Len(c) : p[i] = c[i]
      /\ p[Len(c) + 1] = d
  <2>1. c \in Seq(Trace)
    BY <1>4
  <2> QED BY <1>3, <1>5, <2>1, AppendPlaces
<1>7. Len(q) \in Nat /\ Len(w) \in Nat /\ Len(c) = 1 + Len(q) + Len(w)
  BY <1>1, <1>2, <1>4
<1>8. p[1] = v
  <2>1. 1 \in 1 .. Len(a) /\ 1 \in 1 .. Len(c)
    BY <1>1, <1>7
  <2> QED BY <1>1, <1>4, <1>6, <2>1
<1>9. ASSUME NEW i \in 2 .. 1 + Len(q) PROVE p[i] = q[i - 1]
  <2>1. i \in 1 .. Len(a) /\ i \in 1 .. Len(c) /\ i - 1 \in 1 .. Len(q) /\ 1 + (i - 1) = i
    BY <1>1, <1>7
  <2>2. a[1 + (i - 1)] = q[i - 1]
    BY <1>1, <2>1
  <2> QED BY <1>4, <1>6, <2>1, <2>2
<1>10. ASSUME NEW i \in 2 + Len(q) .. 1 + Len(q) + Len(w) PROVE p[i] = w[i - 1 - Len(q)].trace
  <2>1. /\ i \in 1 .. Len(c) /\ i - 1 - Len(q) \in 1 .. Len(b)
        /\ Len(a) + (i - 1 - Len(q)) = i
    BY <1>1, <1>2, <1>7
  <2>2. c[Len(a) + (i - 1 - Len(q))] = b[i - 1 - Len(q)]
    BY <1>4, <2>1
  <2> QED BY <1>2, <1>6, <2>1, <2>2
<1>11. p[2 + Len(q) + Len(w)] = d
  <2>1. 2 + Len(q) + Len(w) = Len(c) + 1
    BY <1>7
  <2> QED BY <1>6, <2>1
<1>13. Len(p) = 2 + Len(q) + Len(w)
  BY <1>6, <1>7
<1> QED BY <1>6, <1>8, <1>9, <1>10, <1>11, <1>13 DEF Places, d

(***************************************************************************)
(* Traces taken from an ordered list, in its order, are ordered.           *)
(***************************************************************************)
LEMMA OrderKept ==
  ASSUME NEW p \in Seq(Trace), NEW q \in Seq(Trace), NEW h, Ordered(p),
         \A i \in 1 .. Len(q) : q[i].info =>
           h[i] \in 1 .. Len(p) /\ p[h[i]].info /\ q[i].lines = p[h[i]].lines,
         \A i, j \in 1 .. Len(q) : i < j /\ q[i].info /\ q[j].info => h[i] <= h[j]
  PROVE  Ordered(q)
<1> SUFFICES ASSUME NEW i \in 1 .. Len(q), NEW j \in 1 .. Len(q), i < j, q[i].info, q[j].info
             PROVE  IsPrefix(q[i].lines, q[j].lines)
  BY DEF Ordered
<1>1. /\ h[i] \in 1 .. Len(p) /\ p[h[i]].info /\ q[i].lines = p[h[i]].lines
      /\ h[j] \in 1 .. Len(p) /\ p[h[j]].info /\ q[j].lines = p[h[j]].lines
      /\ h[i] <= h[j]
  OBVIOUS
<1>2. CASE h[i] < h[j]
  BY <1>1, <1>2 DEF Ordered
<1>3. CASE h[i] = h[j]
  <2>1. q[i] \in Trace
    OBVIOUS
  <2>2. q[i].lines \in Seq(Event)
    BY <2>1 DEF Trace
  <2>3. q[j].lines = q[i].lines
    BY <1>1, <1>3
  <2> QED BY <2>2, <2>3, PrefixRefl
<1>4. h[i] < h[j] \/ h[i] = h[j]
  BY <1>1
<1> QED BY <1>2, <1>3, <1>4

LEMMA StepOrder ==
  ASSUME TypeOK, TypeOK', [Next]_vars, ~WriteTrace,
         NEW p, p = Pipeline, NEW r, r = Pipeline', Ordered(p)
  PROVE  Ordered(r)
<1> DEFINE n == Len(data_queue)
           m == Len(wire)
<1>1. /\ verified \in Trace /\ data_queue \in Seq(Trace) /\ wire \in Seq(Connection)
      /\ file \in Seq(Event) /\ sent \in 0 .. Len(file)
      /\ verified' \in Trace /\ data_queue' \in Seq(Trace) /\ wire' \in Seq(Connection)
      /\ file' \in Seq(Event)
  BY DEF TypeOK
<1>2. p \in Seq(Trace) /\ Places(p, verified, data_queue, wire, file)
  <2>1. p = PipelineOf(verified, data_queue, wire, file)
    BY DEF Pipeline, PipelineOf
  <2> QED BY <1>1, <2>1, PipelinePlaces
<1>3. r \in Seq(Trace) /\ Places(r, verified', data_queue', wire', file')
  <2>1. r = PipelineOf(verified', data_queue', wire', file')
    BY DEF Pipeline, PipelineOf
  <2> QED BY <1>1, <2>1, PipelinePlaces
<1>4. /\ p \in Seq(Trace) /\ r \in Seq(Trace) /\ n \in Nat /\ m \in Nat
      /\ Len(p) = 2 + n + m
  BY <1>1, <1>2, <1>3 DEF Places
<1>5. ASSUME UNCHANGED <<file, data_queue, verified>>, Len(wire') = m,
             \A k \in 1 .. m : \/ wire'[k].trace = wire[k].trace
                               \/ ~wire'[k].trace.info
                               \/ k = m /\ wire'[k].trace = [lines |-> file, info |-> TRUE]
      PROVE  Ordered(r)
  <2>1. Len(r) = Len(p) /\ UNCHANGED <<data_queue, verified, file>> /\ Len(wire') = m
    BY <1>2, <1>3, <1>5 DEF Places
  <2> DEFINE h == [i \in 1 .. Len(r) |-> IF r[i] = p[i] THEN i ELSE 2 + n + m]
  <2>2. \A i \in 1 .. Len(r) : h[i] = IF r[i] = p[i] THEN i ELSE 2 + n + m
    OBVIOUS
  <2> HIDE DEF h
  <2>3. ASSUME NEW i \in 1 .. Len(r)
        PROVE  \/ r[i] = p[i]
               \/ ~r[i].info
               \/ i = 1 + n + m /\ r[i] = p[2 + n + m]
    <3>1. CASE i = 1 \/ i \in 2 .. 1 + n \/ i = 2 + n + m
      BY <1>2, <1>3, <2>1, <3>1 DEF Places
    <3>2. CASE i \in 2 + n .. 1 + n + m
      <4>1. i - 1 - n \in 1 .. m
        BY <1>4, <3>2
      <4>2. \/ wire'[i - 1 - n].trace = wire[i - 1 - n].trace
            \/ ~wire'[i - 1 - n].trace.info
            \/ i - 1 - n = m /\ wire'[i - 1 - n].trace = [lines |-> file, info |-> TRUE]
        BY <1>5, <4>1
      <4>3. r[i] = wire'[i - 1 - n].trace
        BY <1>3, <2>1, <3>2 DEF Places
      <4>4. p[i] = wire[i - 1 - n].trace
        BY <1>2, <3>2 DEF Places
      <4>5. i - 1 - n = m => i = 1 + n + m
        BY <1>4
      <4> QED BY <1>2, <4>2, <4>3, <4>4, <4>5 DEF Places
    <3> QED BY <1>4, <2>1, <3>1, <3>2
  <2>4. ASSUME NEW i \in 1 .. Len(r), r[i].info
        PROVE  h[i] \in 1 .. Len(p) /\ p[h[i]].info /\ r[i].lines = p[h[i]].lines
    BY <1>4, <2>1, <2>2, <2>3, <2>4
  <2>5. ASSUME NEW i \in 1 .. Len(r), NEW j \in 1 .. Len(r), i < j, r[i].info, r[j].info
        PROVE  h[i] <= h[j]
    <3>1. i \in 1 .. 2 + n + m /\ j \in 1 .. 2 + n + m
      BY <1>4, <2>1
    <3>2. h[j] = j \/ h[j] = 2 + n + m
      BY <2>2
    <3>3. h[i] = i \/ (h[i] = 2 + n + m /\ i = 1 + n + m)
      BY <2>2, <2>3, <2>5
    <3> QED BY <1>4, <2>5, <3>1, <3>2, <3>3
  <2> QED BY <1>4, <2>4, <2>5, OrderKept
<1>6. CASE UNCHANGED <<file, wire, data_queue, verified>>
  BY <1>5, <1>6
<1>7. CASE SendLine
  <2>1. Put([lines |-> SubSeq(file, 1, sent + 1), info |-> FALSE]) /\ sent + 1 \in 1 .. Len(file)
        /\ UNCHANGED <<file, data_queue, verified>>
    BY <1>1, <1>7 DEF SendLine, rxVars
  <2>2. [lines |-> SubSeq(file, 1, sent + 1), info |-> FALSE] \in Trace
    BY <1>1, <2>1 DEF Trace
  <2>3. /\ Len(wire') = m
        /\ \A k \in 1 .. m : wire'[k].trace = wire[k].trace \/ ~wire'[k].trace.info
    BY <1>1, <2>1, <2>2, PutType
  <2> QED BY <1>5, <2>1, <2>3
<1>8. CASE SendInfo
  <2> DEFINE all == [lines |-> file, info |-> TRUE]
  <2>1. Put(all) /\ UNCHANGED <<file, data_queue, verified>>
    BY <1>8 DEF SendInfo, rxVars
  <2>2. all \in Trace
    BY <1>1 DEF Trace
  <2>3. /\ Len(wire') = m
        /\ \A k \in 1 .. m : wire'[k].trace = wire[k].trace \/ (k = m /\ wire'[k].trace = all)
    BY <1>1, <2>1, <2>2, PutType
  <2> QED BY <1>5, <2>1, <2>3
<1>9. CASE Close \/ Abort
  <2>1. UNCHANGED <<file, data_queue, verified>> /\ wire' = Hangup(wire)
    BY <1>9 DEF Close, Abort, dataVars, rxVars
  <2>2. Len(wire') = m /\ \A k \in 1 .. m : wire'[k].trace = wire[k].trace
    BY <1>1, <2>1, HangupType
  <2> QED BY <1>5, <2>1, <2>2
<1>10. CASE Reset
  <2>1. 1 \in 1 .. m /\ wire' = [wire EXCEPT ![1].state = "reset"]
        /\ UNCHANGED <<file, data_queue, verified>>
    BY <1>1, <1>10, NonEmpty DEF Reset, dataVars, rxVars
  <2>2. /\ Len(wire') = m
        /\ \A k \in 1 .. m :
             IF k = 1 THEN wire'[k].state = "reset" /\ wire'[k].trace = wire[k].trace
             ELSE wire'[k] = wire[k]
    BY <1>1, <2>1, WithState
  <2> QED BY <1>5, <2>1, <2>2
<1>11. CASE Connect
  <2>1. UNCHANGED <<file, data_queue, verified>>
    BY <1>11 DEF Connect, dataVars, rxVars
  <2>2. CASE wire' = Append(wire, [trace |-> NoTrace, state |-> "open"])
    <3> DEFINE h == [i \in 1 .. Len(r) |-> IF i = Len(r) THEN Len(p) ELSE i]
    <3>1. \A i \in 1 .. Len(r) : h[i] = IF i = Len(r) THEN Len(p) ELSE i
      OBVIOUS
    <3> HIDE DEF h
    <3>2. /\ Len(wire') = m + 1
          /\ \A k \in 1 .. m : wire'[k] = wire[k]
          /\ wire'[m + 1].trace = NoTrace
      BY <1>1, <1>4, <2>2
    <3>3. Len(r) = 3 + n + m /\ r[3 + n + m] = p[2 + n + m]
      <4>1. Len(r) = 3 + n + m /\ 2 + Len(data_queue') + Len(wire') = 3 + n + m
        BY <1>3, <1>4, <2>1, <3>2 DEF Places
      <4>2. r[3 + n + m] = [lines |-> file, info |-> TRUE]
        BY <1>3, <2>1, <4>1 DEF Places
      <4> QED BY <1>2, <4>1, <4>2 DEF Places
    <3>4. ~r[2 + n + m].info
      <4>1. 2 + n + m \in 2 + n .. 1 + n + Len(wire') /\ (2 + n + m) - 1 - n = m + 1
        BY <1>4, <3>2
      <4>2. r[2 + n + m] = wire'[(2 + n + m) - 1 - n].trace
        BY <1>3, <2>1, <4>1 DEF Places
      <4> QED BY <3>2, <4>1, <4>2 DEF NoTrace
    <3>5. ASSUME NEW i \in 1 .. 1 + n + m PROVE r[i] = p[i]
      <4>1. CASE i = 1 \/ i \in 2 .. 1 + n
        BY <1>2, <1>3, <2>1, <4>1 DEF Places
      <4>2. CASE i \in 2 + n .. 1 + n + m
        <5>1. i - 1 - n \in 1 .. m /\ i \in 2 + n .. 1 + n + Len(wire')
          BY <1>4, <3>2, <4>2
        <5>2. r[i] = wire'[i - 1 - n].trace
          BY <1>3, <2>1, <5>1 DEF Places
        <5>3. p[i] = wire[i - 1 - n].trace
          BY <1>2, <4>2 DEF Places
        <5> QED BY <3>2, <5>1, <5>2, <5>3
      <4> QED BY <1>4, <4>1, <4>2
    <3>6. ASSUME NEW i \in 1 .. Len(r), r[i].info
          PROVE  h[i] \in 1 .. Len(p) /\ p[h[i]].info /\ r[i].lines = p[h[i]].lines
      <4>1. i = 3 + n + m \/ i = 2 + n + m \/ i \in 1 .. 1 + n + m
        BY <1>4, <3>3
      <4> QED BY <1>4, <3>1, <3>3, <3>4, <3>5, <3>6, <4>1
    <3>7. ASSUME NEW i \in 1 .. Len(r), NEW j \in 1 .. Len(r), i < j, r[i].info, r[j].info
          PROVE  h[i] <= h[j]
      <4>1. h[i] \in 1 .. Len(p) /\ i # Len(r) /\ h[i] = i
        BY <1>4, <3>1, <3>3, <3>6, <3>7
      <4>2. h[j] = Len(p) \/ h[j] = j
        BY <3>1
      <4> QED BY <1>4, <3>7, <4>1, <4>2
    <3> QED BY <1>4, <3>6, <3>7, OrderKept
  <2> QED BY <1>6, <1>11, <2>1, <2>2 DEF Connect
<1>12. CASE Receive
  <2>1. /\ wire # << >> /\ data_queue' = Append(data_queue, wire[1].trace) /\ wire' = Tail(wire)
        /\ UNCHANGED <<file, verified>>
    BY <1>1, <1>12, NonEmpty DEF Receive, dataVars
  <2>2. /\ m # 0 /\ wire[1].trace \in Trace /\ Len(wire') = m - 1
        /\ \A k \in 1 .. m - 1 : wire'[k] = wire[k + 1]
    <3>1. wire[1] \in Connection /\ 1 \in 1 .. m
      BY <1>1, <2>1, NonEmpty
    <3>2. wire[1].trace \in Trace
      BY <3>1 DEF Connection
    <3>3. Len(wire') = m - 1 /\ \A k \in 1 .. Len(wire') : wire'[k] = wire[k + 1]
      BY <1>1, <2>1, NonEmpty
    <3> QED BY <1>4, <3>1, <3>2, <3>3
  <2>3. /\ Len(data_queue') = n + 1 /\ data_queue'[n + 1] = wire[1].trace
        /\ \A i \in 1 .. n : data_queue'[i] = data_queue[i]
    BY <1>1, <1>4, <2>1, <2>2
  <2>4. Len(r) = Len(p) /\ 2 + Len(data_queue') + Len(wire') = 2 + n + m
    BY <1>3, <1>4, <2>2, <2>3 DEF Places
  <2>5. ASSUME NEW i \in 1 .. Len(r) PROVE r[i] = p[i]
    <3>1. CASE i = 1 \/ i = 2 + n + m
      BY <1>2, <1>3, <2>1, <2>4, <3>1 DEF Places
    <3>2. CASE i \in 2 .. 1 + n
      <4>1. i - 1 \in 1 .. n /\ i \in 2 .. 1 + Len(data_queue')
        BY <1>4, <2>3, <3>2
      <4>2. r[i] = data_queue'[i - 1] /\ p[i] = data_queue[i - 1]
        BY <1>2, <1>3, <3>2, <4>1 DEF Places
      <4> QED BY <2>3, <4>1, <4>2
    <3>3. CASE i = 2 + n
      <4>1. i \in 2 .. 1 + Len(data_queue') /\ i - 1 = n + 1 /\ i - 1 - n = 1
            /\ i \in 2 + n .. 1 + n + m
        BY <1>4, <2>2, <2>3, <3>3
      <4>2. r[i] = data_queue'[i - 1] /\ p[i] = wire[i - 1 - n].trace
        BY <1>2, <1>3, <4>1 DEF Places
      <4> QED BY <2>3, <4>1, <4>2
    <3>4. CASE i \in 3 + n .. 1 + n + m
      <4>1. /\ i - 1 - Len(data_queue') \in 1 .. m - 1
            /\ (i - 1 - Len(data_queue')) + 1 = i - 1 - n
            /\ i \in 2 + Len(data_queue') .. 1 + Len(data_queue') + Len(wire')
            /\ i \in 2 + n .. 1 + n + m
        BY <1>4, <2>2, <2>3, <3>4
      <4>2. r[i] = wire'[i - 1 - Len(data_queue')].trace /\ p[i] = wire[i - 1 - n].trace
        BY <1>2, <1>3, <4>1 DEF Places
      <4>3. wire'[i - 1 - Len(data_queue')] = wire[i - 1 - n]
        BY <2>2, <4>1
      <4> QED BY <4>2, <4>3
    <3> QED BY <1>4, <2>4, <3>1, <3>2, <3>3, <3>4
  <2> QED BY <1>4, <2>4, <2>5 DEF Ordered
<1>13. CASE ReceiverFails
  <2>1. wire' = << >> /\ UNCHANGED <<file, data_queue, verified>>
    BY <1>13 DEF ReceiverFails, dataVars
  <2>2. Len(wire') = 0
    BY <2>1
  <2> DEFINE h == [i \in 1 .. Len(r) |-> IF i = Len(r) THEN Len(p) ELSE i]
  <2>3. \A i \in 1 .. Len(r) : h[i] = IF i = Len(r) THEN Len(p) ELSE i
    OBVIOUS
  <2> HIDE DEF h
  <2>4. Len(r) = 2 + n /\ r[2 + n] = p[2 + n + m]
    <3>1. Len(r) = 2 + n /\ 2 + Len(data_queue') + Len(wire') = 2 + n
      BY <1>3, <1>4, <2>1, <2>2 DEF Places
    <3>2. r[2 + n] = [lines |-> file, info |-> TRUE]
      BY <1>3, <2>1, <3>1 DEF Places
    <3> QED BY <1>2, <3>1, <3>2 DEF Places
  <2>5. ASSUME NEW i \in 1 .. 1 + n PROVE r[i] = p[i]
    <3>1. i = 1 \/ i \in 2 .. 1 + n
      BY <1>4
    <3> QED BY <1>2, <1>3, <2>1, <3>1 DEF Places
  <2>6. ASSUME NEW i \in 1 .. Len(r)
        PROVE  h[i] \in 1 .. Len(p) /\ r[i] = p[h[i]] /\ h[i] >= i
    <3>1. i = 2 + n \/ i \in 1 .. 1 + n
      BY <1>4, <2>4
    <3> QED BY <1>4, <2>3, <2>4, <2>5, <3>1
  <2>7. ASSUME NEW i \in 1 .. Len(r), NEW j \in 1 .. Len(r), i < j PROVE h[i] <= h[j]
    <3>1. h[i] = i
      BY <1>4, <2>3, <2>4, <2>7
    <3>2. h[j] >= j /\ h[j] \in 1 .. Len(p)
      BY <2>6
    <3> QED BY <1>4, <2>7, <3>1, <3>2
  <2> QED BY <1>4, <2>6, <2>7, OrderKept
<1>14. CASE Verify
  <2>1. /\ data_queue # << >> /\ verified' = Head(data_queue) /\ data_queue' = Tail(data_queue)
        /\ UNCHANGED <<file, wire>>
    BY <1>14 DEF Verify, dataVars
  <2>2. /\ n # 0 /\ verified' = data_queue[1] /\ Len(data_queue') = n - 1
        /\ \A k \in 1 .. n - 1 : data_queue'[k] = data_queue[k + 1]
    <3>1. /\ 1 \in 1 .. n /\ Head(data_queue) = data_queue[1]
          /\ Len(data_queue') = n - 1
          /\ \A k \in 1 .. Len(data_queue') : data_queue'[k] = data_queue[k + 1]
      BY <1>1, <2>1, NonEmpty
    <3> QED BY <1>4, <2>1, <3>1
  <2>3. Len(r) = 1 + n + m /\ 2 + Len(data_queue') + Len(wire') = 1 + n + m
    BY <1>3, <1>4, <2>1, <2>2 DEF Places
  <2>4. ASSUME NEW i \in 1 .. Len(r) PROVE r[i] = p[i + 1]
    <3>1. CASE i = 1
      <4>1. 2 \in 2 .. 1 + n /\ 2 - 1 = 1
        BY <1>4, <2>2
      <4>2. p[2] = data_queue[2 - 1]
        BY <1>2, <4>1 DEF Places
      <4> QED BY <1>3, <2>2, <3>1, <4>1, <4>2 DEF Places
    <3>2. CASE i \in 2 .. n
      <4>1. /\ i \in 2 .. 1 + Len(data_queue') /\ i - 1 \in 1 .. n - 1
            /\ i + 1 \in 2 .. 1 + n /\ (i - 1) + 1 = (i + 1) - 1
        BY <1>4, <2>2, <3>2
      <4>2. r[i] = data_queue'[i - 1] /\ p[i + 1] = data_queue[(i + 1) - 1]
        BY <1>2, <1>3, <4>1 DEF Places
      <4>3. data_queue'[i - 1] = data_queue[(i - 1) + 1]
        BY <2>2, <4>1
      <4> QED BY <4>1, <4>2, <4>3
    <3>3. CASE i \in 1 + n .. n + m
      <4>1. /\ i \in 2 + Len(data_queue') .. 1 + Len(data_queue') + Len(wire')
            /\ i + 1 \in 2 + n .. 1 + n + m
            /\ i - 1 - Len(data_queue') = (i + 1) - 1 - n
        BY <1>4, <2>1, <2>2, <3>3
      <4>2. /\ r[i] = wire'[i - 1 - Len(data_queue')].trace
            /\ p[i + 1] = wire[(i + 1) - 1 - n].trace
        BY <1>2, <1>3, <4>1 DEF Places
      <4> QED BY <2>1, <4>1, <4>2
    <3>4. CASE i = 1 + n + m
      <4>1. r[1 + n + m] = [lines |-> file, info |-> TRUE] /\ i + 1 = 2 + n + m
        BY <1>3, <1>4, <2>1, <2>3, <3>4 DEF Places
      <4>2. p[2 + n + m] = [lines |-> file, info |-> TRUE]
        BY <1>2 DEF Places
      <4> QED BY <3>4, <4>1, <4>2
    <3>5. i = 1 \/ i \in 2 .. n \/ i \in 1 + n .. n + m \/ i = 1 + n + m
      <4> HIDE DEF n, m
      <4> QED BY <1>4, <2>3
    <3> QED BY <3>1, <3>2, <3>3, <3>4, <3>5
  <2>5. ASSUME NEW i \in 1 .. Len(r), NEW j \in 1 .. Len(r), i < j, r[i].info, r[j].info
        PROVE  IsPrefix(r[i].lines, r[j].lines)
    <3>1. r[i] = p[i + 1] /\ r[j] = p[j + 1]
      BY <2>4
    <3>2. i + 1 \in 1 .. Len(p) /\ j + 1 \in 1 .. Len(p) /\ i + 1 < j + 1
      BY <1>4, <2>3, <2>5
    <3> QED BY <2>5, <3>1, <3>2 DEF Ordered
  <2> QED BY <2>5 DEF Ordered
<1> QED
  BY <1>6, <1>7, <1>8, <1>9, <1>10, <1>11, <1>12, <1>13, <1>14, Zenon
  DEF Next, Fork, Parent, Wake, GotValue, OpenTrace, dataVars, rxVars, vars

(***************************************************************************)
(* A slot array that is earlier than another prints a prefix of it.        *)
(***************************************************************************)
LEMMA EarlierPrints ==
  ASSUME NEW a \in [TA!Slots -> UseT], NEW b \in [TA!Slots -> UseT], Earlier(a, b)
  PROVE  IsPrefix(TraceLines(a), TraceLines(b))
<1> DEFINE la == [k \in 1 .. TraceSize |-> PrintedLines(a[k - 1])]
           lb == [k \in 1 .. TraceSize |-> PrintedLines(b[k - 1])]
<1>1. TraceSize \in Nat \ {0}
  BY ExtractorAssumption
<1>2. \A k \in 1 .. TraceSize : k - 1 \in TA!Slots
  BY <1>1 DEF TA!Slots
<1>3. la \in [1 .. TraceSize -> Seq(Event)] /\ lb \in [1 .. TraceSize -> Seq(Event)]
  BY <1>2, PrintedLinesType
<1>4. PICK m \in 0 .. TraceSize :
        \A s \in TA!Slots : IF s < m THEN a[s] = b[s] ELSE a[s] = ZeroEntry
  BY DEF Earlier
<1>5. ASSUME NEW k \in 1 .. m PROVE la[k] = lb[k]
  <2>1. k \in 1 .. TraceSize /\ k - 1 \in TA!Slots /\ k - 1 < m
    BY <1>1 DEF TA!Slots
  <2> QED BY <1>4, <2>1
<1>6. ASSUME NEW k \in m + 1 .. TraceSize PROVE la[k] = << >>
  <2>1. k \in 1 .. TraceSize /\ k - 1 \in TA!Slots /\ ~(k - 1 < m)
    BY <1>1 DEF TA!Slots
  <2>2. a[k - 1] = ZeroEntry
    BY <1>4, <2>1
  <2>3. PrintedLines(ZeroEntry) = << >>
    BY DEF PrintedLines, LineIf, ZeroEntry
  <2> QED BY <2>1, <2>2, <2>3
<1> HIDE DEF la, lb
<1>7. IsPrefix(FlattenSeq(la), FlattenSeq(lb))
  BY <1>1, <1>3, <1>5, <1>6, FlattenPrefix
<1> QED BY <1>7 DEF la, lb, TraceLines

LEMMA EarlierRefl == ASSUME NEW a PROVE Earlier(a, a)
<1> DEFINE m == TraceSize
<1>1. m \in 0 .. TraceSize /\ \A s \in TA!Slots : s < m
  BY ExtractorAssumption DEF TA!Slots
<1> HIDE DEF m
<1> QED BY <1>1 DEF Earlier

\* What the application adds behind place n was empty before.
LEMMA EarlierGrows ==
  ASSUME NEW a, NEW b, NEW c, Earlier(a, b), NEW n \in Nat, n <= TraceSize,
         \A s \in TA!Slots : IF s < n THEN c[s] = b[s] ELSE b[s] = ZeroEntry
  PROVE  Earlier(a, c)
<1>1. PICK m \in 0 .. TraceSize :
        \A s \in TA!Slots : IF s < m THEN a[s] = b[s] ELSE a[s] = ZeroEntry
  BY DEF Earlier
<1> DEFINE k == IF m < n THEN m ELSE n
<1>2. k \in 0 .. TraceSize
  BY ExtractorAssumption
<1>3. ASSUME NEW s \in TA!Slots
      PROVE  IF s < k THEN a[s] = c[s] ELSE a[s] = ZeroEntry
  <2>1. s \in Int /\ m \in Int /\ n \in Int
    BY DEF TA!Slots
  <2>2. s < k => s < m /\ s < n
    BY <2>1
  <2>3. ~(s < k) => ~(s < m) \/ (s < m /\ ~(s < n))
    BY <2>1
  <2> QED BY <1>1, <2>2, <2>3
<1> HIDE DEF k
<1> QED BY <1>2, <1>3 DEF Earlier

LEMMA LinesType ==
  ASSUME NEW slots \in [TA!Slots -> UseT]
  PROVE  TraceLines(slots) \in Seq(Event)
<1> DEFINE R == UNION {Range(PrintedLines(slots[s])) : s \in TA!Slots}
<1>1. \A s \in TA!Slots : Range(PrintedLines(slots[s])) \subseteq R
  OBVIOUS
<1> HIDE DEF R
<1> QED BY <1>1, TraceLinesType

(***************************************************************************)
(* In the first turn of the ring the application only adds.                *)
(***************************************************************************)
Behind == \A s \in TA!Slots : s >= trace_id => dynamic_trace[s] = ZeroEntry

LEMMA ExportGrows ==
  ASSUME LP!IInv, LP!IInv', LP!TraceInv, UnbornInv, trace_id <= TraceSize => Behind, [Next]_vars,
         trace_id' <= TraceSize
  PROVE  /\ trace_id \in Nat /\ trace_id <= TraceSize
         /\ Behind'
         /\ \A s \in TA!Slots :
              IF s < trace_id THEN Exported'[s] = Exported[s] ELSE Exported[s] = ZeroEntry
<1>1. trace_id \in Nat /\ TraceSize \in Nat /\ trace_id' \in Nat
  <2>1. trace_id \in Nat
    BY LibraryTypes
  <2>2. trace_id' \in Nat
    BY DEF LP!IInv, LP!TypeOK, LP!TA!TypeOK
  <2> QED BY <2>1, <2>2, ExtractorAssumption
<1>2. /\ trace_id' >= trace_id
      /\ \A s \in TA!Slots :
           s < trace_id \/ s >= trace_id' => dynamic_trace'[s] = dynamic_trace[s]
  <2>1. CASE main = "start"
    BY <1>1, <2>1, StartStep
  <2>2. CASE main # "start"
    BY <2>2, LibraryGrows
  <2> QED BY <2>1, <2>2
<1>3. trace_id <= TraceSize /\ Behind
  BY <1>1, <1>2
<1>4. Behind'
  <2>1. ASSUME NEW s \in TA!Slots, s >= trace_id' PROVE dynamic_trace'[s] = ZeroEntry
    <3>1. s \in Int
      BY DEF TA!Slots
    <3>2. s >= trace_id
      BY <1>1, <1>2, <2>1, <3>1
    <3> QED BY <1>2, <1>3, <2>1, <3>2 DEF Behind
  <2> QED BY <2>1 DEF Behind
<1>5. ASSUME NEW s \in TA!Slots
      PROVE  IF s < trace_id THEN Exported'[s] = Exported[s] ELSE Exported[s] = ZeroEntry
  <2>1. s \in Int
    BY DEF TA!Slots
  <2>2. Exported[s] = IF s < CopySize THEN dynamic_trace[s] ELSE ZeroEntry
    BY DEF Exported, TA!CopyTrace
  <2>3. Exported'[s] = IF s < CopySize THEN dynamic_trace'[s] ELSE ZeroEntry
    BY DEF Exported, TA!CopyTrace
  <2>4. CASE s < trace_id
    BY <1>2, <2>2, <2>3, <2>4
  <2>5. CASE ~(s < trace_id)
    <3>1. s >= trace_id
      BY <1>1, <2>1, <2>5
    <3> QED BY <1>3, <2>2, <2>5, <3>1 DEF Behind
  <2> QED BY <2>4, <2>5
<1> QED BY <1>1, <1>3, <1>4, <1>5

(***************************************************************************)
(* The buffer and the file stay behind what is exported.                   *)
(***************************************************************************)
Snapshots ==
  /\ Behind
  /\ Earlier(shared, Exported)
  /\ IsPrefix(file, TraceLines(shared))

LEMMA StepSnapshots ==
  ASSUME TypeOK, TypeOK', FinalInv, LP!IInv, LP!IInv', LP!TraceInv, UnbornInv, [Next]_vars,
         trace_id <= TraceSize => Snapshots, trace_id' <= TraceSize
  PROVE  Snapshots'
<1>1. /\ shared \in [TA!Slots -> UseT] /\ shared' \in [TA!Slots -> UseT] /\ file \in Seq(Event)
      /\ dynamic_trace \in [TA!Slots -> UseT]
  BY LibraryTypes DEF TypeOK
<1>2. /\ trace_id \in Nat /\ trace_id <= TraceSize /\ Behind'
      /\ \A s \in TA!Slots :
           IF s < trace_id THEN Exported'[s] = Exported[s] ELSE Exported[s] = ZeroEntry
  BY ExportGrows DEF Snapshots
<1>3. Earlier(shared, Exported) /\ IsPrefix(file, TraceLines(shared))
  BY <1>2 DEF Snapshots
<1>4. Earlier(shared, Exported')
  BY <1>2, <1>3, EarlierGrows
<1>5. TraceLines(shared) \in Seq(Event)
  BY <1>1, LinesType
<1>6. CASE UNCHANGED <<shared, file>>
  <2>1. Earlier(shared, Exported)'
    BY <1>4, <1>6 DEF Earlier
  <2>2. IsPrefix(file, TraceLines(shared))'
    BY <1>3, <1>6 DEF TraceLines
  <2> QED BY <1>2, <2>1, <2>2 DEF Snapshots
<1>7. CASE GotValue
  <2>1. UNCHANGED <<file, libVars>> /\ (shared' = Exported \/ shared' = shared)
    BY <1>7, CopyIsExported DEF GotValue, FinalInv
  <2>2. CASE shared' = Exported
    <3>1. Exported' = Exported
      BY <2>1, SameExported
    <3>2. Earlier(shared, Exported)'
      BY <2>2, <3>1, EarlierRefl DEF Earlier
    <3>3. IsPrefix(TraceLines(shared), TraceLines(Exported)) /\ TraceLines(Exported) \in Seq(Event)
      BY <1>1, <1>3, <2>2, EarlierPrints, LinesType
    <3>4. IsPrefix(file, TraceLines(Exported))
      BY <1>1, <1>3, <1>5, <3>3, PrefixTrans
    <3>5. IsPrefix(file, TraceLines(shared))'
      BY <2>1, <2>2, <3>4 DEF TraceLines
    <3> QED BY <1>2, <3>2, <3>5 DEF Snapshots
  <2> QED BY <1>6, <2>1, <2>2
<1>8. CASE WriteTrace
  <2>1. shared' = shared /\ (file' = TraceLines(shared) \/ file' = file)
    BY <1>8 DEF WriteTrace
  <2>2. CASE file' = TraceLines(shared)
    <3>1. Earlier(shared, Exported)'
      BY <1>4, <2>1 DEF Earlier
    <3>2. IsPrefix(file, TraceLines(shared))'
      BY <1>5, <2>1, <2>2, PrefixRefl DEF TraceLines
    <3> QED BY <1>2, <3>1, <3>2 DEF Snapshots
  <2> QED BY <1>6, <2>1, <2>2
<1> QED
  BY <1>6, <1>7, <1>8, Zenon
  DEF Next, Fork, Parent, Wake, Connect, OpenTrace, SendLine, SendInfo, Close, Abort, Receive,
      Reset, ReceiverFails, Verify, dataVars, vars

LEMMA WriteOrder ==
  ASSUME TypeOK, TypeOK', WriteTrace, IsPrefix(file, TraceLines(shared)),
         NEW p, p = Pipeline, NEW r, r = Pipeline', Ordered(p)
  PROVE  Ordered(r)
<1> DEFINE last == 2 + Len(data_queue) + Len(wire)
<1>1. /\ verified \in Trace /\ data_queue \in Seq(Trace) /\ wire \in Seq(Connection)
      /\ file \in Seq(Event) /\ file' \in Seq(Event)
      /\ UNCHANGED <<verified, data_queue, wire>>
  BY DEF TypeOK, WriteTrace, rxVars
<1>2. p \in Seq(Trace) /\ Places(p, verified, data_queue, wire, file)
  <2>1. p = PipelineOf(verified, data_queue, wire, file)
    BY DEF Pipeline, PipelineOf
  <2> QED BY <1>1, <2>1, PipelinePlaces
<1>3. r \in Seq(Trace) /\ Places(r, verified, data_queue, wire, file')
  <2>1. r = PipelineOf(verified, data_queue, wire, file')
    BY <1>1 DEF Pipeline, PipelineOf
  <2> QED BY <1>1, <2>1, PipelinePlaces
<1>4. /\ Len(data_queue) \in Nat /\ Len(wire) \in Nat /\ last \in Nat
      /\ Len(p) = last /\ Len(r) = last
      /\ p[last] = [lines |-> file, info |-> TRUE] /\ r[last] = [lines |-> file', info |-> TRUE]
  BY <1>1, <1>2, <1>3 DEF Places
<1>5. ASSUME NEW i \in 1 .. last - 1 PROVE r[i] = p[i]
  <2>1. \/ i = 1 \/ i \in 2 .. 1 + Len(data_queue)
        \/ i \in 2 + Len(data_queue) .. 1 + Len(data_queue) + Len(wire)
    BY <1>4
  <2> QED BY <1>2, <1>3, <2>1 DEF Places
<1>6. IsPrefix(file, file')
  BY <1>1, PrefixRefl DEF WriteTrace
<1> HIDE DEF last
<1>7. ASSUME NEW i \in 1 .. Len(r), NEW j \in 1 .. Len(r), i < j, r[i].info, r[j].info
      PROVE  IsPrefix(r[i].lines, r[j].lines)
  <2>1. i \in 1 .. last - 1 /\ j \in 1 .. last
    BY <1>4, <1>7
  <2>2. r[i] = p[i] /\ i \in 1 .. Len(p) /\ p[i].info
    BY <1>4, <1>5, <1>7, <2>1
  <2>3. CASE j = last
    <3>1. last \in 1 .. Len(p) /\ i < last /\ p[last].info /\ p[last].lines = file
      BY <1>4, <2>1
    <3>2. IsPrefix(p[i].lines, file)
      BY <2>2, <3>1 DEF Ordered
    <3>3. p[i].lines \in Seq(Event)
      <4>1. p[i] \in Trace
        BY <1>2, <2>2
      <4> QED BY <4>1 DEF Trace
    <3>4. IsPrefix(p[i].lines, file')
      BY <1>1, <1>6, <3>2, <3>3, PrefixTrans
    <3> QED BY <1>4, <2>2, <2>3, <3>4
  <2>4. CASE j # last
    <3>1. j \in 1 .. last - 1
      BY <1>4, <2>1, <2>4
    <3>2. r[j] = p[j] /\ j \in 1 .. Len(p)
      BY <1>4, <1>5, <3>1
    <3> QED BY <1>7, <2>2, <3>2 DEF Ordered
  <2> QED BY <2>3, <2>4
<1> QED BY <1>7 DEF Ordered

LEMMA StepGrow ==
  ASSUME TypeOK, TypeOK', FinalInv, LP!IInv, LP!IInv', LP!TraceInv, UnbornInv, GrowInv, [Next]_vars
  PROVE  GrowInv'
<1>1. trace_id <= TraceSize => Snapshots
  BY DEF GrowInv, Snapshots, Behind
<1>2. trace_id' <= TraceSize => Snapshots'
  BY <1>1, StepSnapshots
<1>3. ASSUME trace_id' <= TraceSize PROVE Ordered(Pipeline)'
  <2>1. trace_id <= TraceSize
    BY <1>1, <1>3, ExportGrows DEF Snapshots
  <2>2. IsPrefix(file, TraceLines(shared)) /\ Ordered(Pipeline)
    BY <1>1, <2>1 DEF GrowInv, SnapshotsGrow, Snapshots, Ordered
  <2> DEFINE p == Pipeline
             r == Pipeline'
  <2>3. p = Pipeline /\ r = Pipeline' /\ Ordered(p)
    BY <2>2
  <2> HIDE DEF p, r
  <2>4. Ordered(r)
    BY <2>2, <2>3, StepOrder, WriteOrder
  <2> QED BY <2>3, <2>4 DEF Ordered
<1> QED BY <1>2, <1>3 DEF GrowInv, SnapshotsGrow, Snapshots, Behind, Ordered

(***************************************************************************)
(* Until the ring wraps, every complete trace extends the ones before it,  *)
(* whichever of file, socket and queue they have reached: a verdict given  *)
(* on one of them still stands on the next.                                *)
(***************************************************************************)
THEOREM TracesGrow == Spec => []SnapshotsGrow
<1>1. Init => UnbornInv
  BY InitCarried
<1>2. Init => FinalInv
  BY InitFinal
<1>3. Init => GrowInv
  <2> SUFFICES ASSUME Init PROVE GrowInv
    OBVIOUS
  <2> DEFINE zero == [s \in TA!Slots |-> ZeroEntry]
  <2>1. /\ dynamic_trace = zero /\ shared = zero /\ file = << >> /\ wire = << >>
        /\ data_queue = << >> /\ verified = NoTrace
    BY SameEntries DEF Init, Lib!Init, Lib!TA!Init
  <2>2. Exported = zero
    BY <2>1 DEF Exported, TA!CopyTrace
  <2>3. Earlier(shared, Exported)
    BY <2>1, <2>2, EarlierRefl
  <2>4. zero \in [TA!Slots -> UseT]
    BY DEF UseT, ZeroEntry, None, Static
  <2>5. IsPrefix(file, TraceLines(shared))
    BY <2>1, <2>4, LinesType DEF IsPrefix
  <2>6. Len(Pipeline) = 2 /\ ~Pipeline[1].info
    BY <2>1 DEF Pipeline, NoTrace
  <2>7. SnapshotsGrow
    BY <2>6 DEF SnapshotsGrow
  <2> QED BY <2>1, <2>3, <2>5, <2>7 DEF GrowInv
<1>4. UnbornInv /\ [Next]_vars => UnbornInv'
  BY StepUnborn
<1>5. TypeOK /\ FinalInv /\ [Next]_vars => FinalInv'
  BY StepFinal
<1>6. TypeOK /\ TypeOK' /\ FinalInv /\ LP!IInv /\ LP!IInv' /\ LP!TraceInv /\ UnbornInv /\ GrowInv
        /\ [Next]_vars => GrowInv'
  BY StepGrow
<1>7. GrowInv => SnapshotsGrow
  BY DEF GrowInv
<1> QED
  BY <1>1, <1>2, <1>3, <1>4, <1>5, <1>6, <1>7, ExtractorTypes, LibraryInvariant, PTL DEF Spec
=============================================================================
