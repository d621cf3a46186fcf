---------------------------- MODULE ProgramProofs ---------------------------
(***************************************************************************)
(* For every program shape, every size of the depth counter and every      *)
(* stack that is not deeper than it: a packed number leads back to the     *)
(* activation that reported it.                                            *)
(***************************************************************************)
EXTENDS Program, TLAPS

USE DEF ProgramShape

-----------------------------------------------------------------------------
(***************************************************************************)
(* Facts about the packed pairs.                                           *)
(***************************************************************************)

\* The depth of a frame is a value of the counter.
LEMMA DepthOfType ==
  ASSUME NEW k \in Nat
  PROVE  DepthOf(k) \in Depths
BY ProgramAssumption DEF DepthOf, Depths

\* Truncation commutes with counting: RecursionTracker adds and subtracts
\* one in 32 bits and stores 16 of them.
LEMMA CounterSteps ==
  ASSUME NEW n \in Nat, n < MaxDepth
  PROVE  /\ (DepthOf(n) + 1) % DepthSpace = DepthOf(n + 1)
         /\ (DepthOf(n + 1) - 1) % DepthSpace = DepthOf(n)
<1>1. n < DepthSpace /\ DepthSpace \in Nat /\ 0 < DepthSpace
  BY ProgramAssumption
<1>2. DepthOf(n) = n
  BY <1>1 DEF DepthOf
<1>3. CASE n + 1 < DepthSpace
  <2>1. DepthOf(n + 1) = n + 1
    BY <1>1, <1>3 DEF DepthOf
  <2> QED BY <1>1, <1>2, <1>3, <2>1
<1>4. CASE n + 1 = DepthSpace
  <2>1. DepthOf(n + 1) = 0
    BY <1>1, <1>4 DEF DepthOf
  <2>2. (0 - 1) % DepthSpace = DepthSpace - 1
    BY <1>1
  <2> QED BY <1>1, <1>2, <1>4, <2>1, <2>2
<1> QED BY <1>1, <1>3, <1>4

\* No two frames of the stack have the same counter.
LEMMA DepthOfInjective ==
  ASSUME NEW j \in 1 .. MaxDepth, NEW k \in 1 .. MaxDepth, j # k
  PROVE  DepthOf(j) # DepthOf(k)
<1>1. /\ j <= DepthSpace /\ k <= DepthSpace /\ DepthSpace \in Nat
      /\ 0 < DepthSpace /\ 0 < j /\ 0 < k
  BY ProgramAssumption
<1>2. DepthOf(j) = IF j = DepthSpace THEN 0 ELSE j
  BY <1>1 DEF DepthOf
<1>3. DepthOf(k) = IF k = DepthSpace THEN 0 ELSE k
  BY <1>1 DEF DepthOf
<1> QED BY <1>1, <1>2, <1>3

\* The number of a pair is a number.
LEMMA PackType ==
  ASSUME NEW id \in Nat, NEW g \in Depths
  PROVE  Pack(id, g) \in Nat
BY ProgramAssumption DEF Pack, Depths

\* A report extends both histories by one element.
LEMMA ReportType ==
  ASSUME TypeOK,
         NEW kind \in EventKind, NEW id \in Nat, NEW addr \in Nat, NEW aux \in Nat,
         NEW t \in {"def", "fits", "overflows"},
         Report(kind, id, addr, aux, t)
  PROVE  /\ events' \in Seq(Event) /\ truth' \in Seq({"def", "fits", "overflows"})
         /\ events' # << >>
<1>1. MakeEvent(kind, id, addr, aux) \in Event
  BY DEF MakeEvent, Event
<1>2. /\ events' = Append(events, MakeEvent(kind, id, addr, aux))
      /\ truth' = Append(truth, t)
  BY DEF Report
<1> QED BY <1>1, <1>2 DEF TypeOK

-----------------------------------------------------------------------------
LEMMA InitInv == Init => IInv
<1> SUFFICES ASSUME Init PROVE IInv
  OBVIOUS
<1>1. /\ stack = << >> /\ Len(stack) = 0 /\ counter = 0 /\ events = << >>
      /\ latest = [k \in Defs \X Depths |-> Unset]
  BY DEF Init
<1>2. 0 \in Depths /\ DepthOf(0) = 0
  BY ProgramAssumption DEF Depths, DepthOf
<1>3. TypeOK
  BY <1>1, <1>2, ProgramAssumption DEF Init, TypeOK
<1>4. OwnActivation /\ ArgumentsPointDown
  BY <1>1, <1>2 DEF OwnActivation, ArgumentsPointDown
<1>5. GlobalAtZero
  BY <1>1 DEF GlobalAtZero, Defs
<1> QED BY <1>1, <1>3, <1>4, <1>5 DEF IInv

(***************************************************************************)
(* The entry of a function.  The new frame reports the one pair that no    *)
(* frame below uses; what it is passed must lead to a frame below.         *)
(***************************************************************************)
PointsBelow(arg, n) ==
  \/ arg = NoRef
  \/ Global # None /\ arg.def = Global /\ arg.base = GlobalBase
  \/ \E j \in 1 .. n :
       /\ arg.def = Local[stack[j].fn]
       /\ arg.depth = DepthOf(j)
       /\ arg.base = stack[j].base

LEMMA EnterInv ==
  ASSUME IInv, Len(stack) < MaxDepth,
         NEW f \in Functions, NEW base \in Addresses, NEW arg \in Ref \cup {NoRef},
         Enter(f, base, arg), UNCHANGED heap,
         PointsBelow(arg, Len(stack)),
         Global # None => events # << >>
  PROVE  IInv'
<1> DEFINE n     == Len(stack)
           frame == [fn |-> f, base |-> base, arg |-> arg]
           key   == <<Local[f], DepthOf(n + 1)>>
<1>1. /\ TypeOK /\ OwnActivation /\ ArgumentsPointDown /\ GlobalAtZero
      /\ n \in Nat /\ n + 1 <= MaxDepth
  BY ProgramAssumption DEF IInv, TypeOK
<1>2. /\ stack' = Append(stack, frame) /\ Len(stack') = n + 1
      /\ stack'[n + 1] = frame
      /\ \A k \in 1 .. n : stack'[k] = stack[k]
  BY <1>1 DEF Enter, TypeOK
<1>3. counter' = DepthOf(n + 1) /\ DepthOf(n + 1) \in Depths
  BY <1>1, CounterSteps, DepthOfType DEF Enter, OwnActivation
<1>4. key \in Defs \X Depths /\ Local[f] \in Nat \ {None, Global, Heap}
  BY <1>3, ProgramAssumption DEF Defs
<1>5. /\ latest' = [latest EXCEPT ![key] = base]
      /\ latest'[key] = base
      /\ \A p \in Defs \X Depths : p # key => latest'[p] = latest[p]
  BY <1>1, <1>3, <1>4 DEF Enter, TypeOK
<1>6. TypeOK'
  <2>1. frame \in Frame
    BY DEF Frame
  <2>2. stack' \in Seq(Frame) /\ Len(stack') <= MaxDepth
    BY <1>1, <1>2, <2>1 DEF TypeOK
  <2>3. latest' \in [Defs \X Depths -> Nat \cup {Unset}]
    BY <1>1, <1>4, <1>5, ProgramAssumption DEF TypeOK
  <2>4. Pack(Local[f], counter') \in Nat
    BY <1>3, <1>4, PackType
  <2>5. /\ events' \in Seq(Event) /\ truth' \in Seq({"def", "fits", "overflows"})
    BY <1>1, <2>4, ReportType, ProgramAssumption DEF Enter, EventKind
  <2> QED BY <1>1, <1>3, <2>2, <2>3, <2>5 DEF TypeOK
<1>7. events' # << >>
  <2>1. Pack(Local[f], counter') \in Nat
    BY <1>3, <1>4, PackType
  <2> QED BY <1>1, <2>1, ReportType, ProgramAssumption DEF Enter, EventKind
<1>8. OwnActivation'
  <2> SUFFICES ASSUME NEW k \in 1 .. n + 1
               PROVE  latest'[<<Local[stack'[k].fn], DepthOf(k)>>] = stack'[k].base
    BY <1>2, <1>3 DEF OwnActivation, DepthOf
  <2>1. CASE k = n + 1
    BY <1>2, <1>5, <2>1
  <2>2. CASE k # n + 1
    <3>1. k \in 1 .. n /\ stack'[k] = stack[k] /\ stack[k] \in Frame
      BY <1>1, <1>2, <2>2 DEF TypeOK
    <3>2. DepthOf(k) # DepthOf(n + 1)
      <4>1. k \in 1 .. MaxDepth /\ n + 1 \in 1 .. MaxDepth
        BY <1>1, ProgramAssumption
      <4> QED BY <2>2, <4>1, DepthOfInjective
    <3>3. <<Local[stack[k].fn], DepthOf(k)>> \in Defs \X Depths
      BY <1>1, <3>1, DepthOfType DEF Frame, Defs
    <3> QED BY <1>1, <1>5, <3>1, <3>2, <3>3 DEF OwnActivation
  <2> QED BY <2>1, <2>2
<1>9. ArgumentsPointDown'
  <2> DEFINE Down(r, m) ==
        \/ r = NoRef
        \/ Global # None /\ r.def = Global /\ r.base = GlobalBase
        \/ \E j \in 1 .. m :
             /\ r.def = Local[stack'[j].fn]
             /\ r.depth = DepthOf(j)
             /\ r.base = stack'[j].base
  <2>1. SUFFICES ASSUME NEW k \in 1 .. n + 1
                 PROVE  Down(stack'[k].arg, k - 1)
    BY <1>2 DEF ArgumentsPointDown, DepthOf
  <2>2. CASE k = n + 1
    BY <1>1, <1>2, <2>2 DEF PointsBelow
  <2>3. CASE k # n + 1
    <3>1. k \in 1 .. n /\ stack'[k] = stack[k]
      BY <1>1, <1>2, <2>3
    <3>2. \A j \in 1 .. k - 1 : stack'[j] = stack[j]
      BY <1>1, <1>2, <3>1
    <3> QED BY <1>1, <3>1, <3>2 DEF ArgumentsPointDown
  <2> QED BY <2>2, <2>3
<1>10. GlobalAtZero'
  <2> SUFFICES ASSUME Global # None
               PROVE  /\ \A g \in Depths : g # 0 => latest'[<<Global, g>>] = Unset
                      /\ latest'[<<Global, 0>>] = GlobalBase
    BY DEF GlobalAtZero
  <2>1. \A g \in Depths : /\ <<Global, g>> \in Defs \X Depths
                          /\ <<Global, g>> # key
    BY <1>4 DEF Defs
  <2>2. 0 \in Depths
    BY ProgramAssumption DEF Depths
  <2> QED BY <1>1, <1>5, <2>1, <2>2 DEF GlobalAtZero
<1> QED BY <1>6, <1>7, <1>8, <1>9, <1>10 DEF IInv

\* A write changes the histories only.
LEMMA UseInv ==
  ASSUME IInv, stack # << >>,
         NEW kind \in EventKind, NEW use \in Nat, NEW aux \in Nat,
         NEW d \in Defs \ {None}, NEW base \in Nat,
         Use(kind, use, aux, d, base)
  PROVE  IInv'
<1>1. /\ UNCHANGED <<stack, counter, heap, latest>>
      /\ TypeOK /\ counter \in Depths
  BY DEF IInv, TypeOK, Use
<1>2. PICK n \in {Size[d], Size[d] + 1} :
        Report(kind, Pack(use, counter), base + Offset[d] + n, aux,
               IF n > Size[d] THEN "overflows" ELSE "fits")
  BY DEF Use
<1>3. base + Offset[d] + n \in Nat /\ Pack(use, counter) \in Nat
  <2>1. Size[d] \in Nat /\ Offset[d] \in Nat
    BY ProgramAssumption
  <2>2. n \in Nat
    BY <1>2, <2>1
  <2>3. base + Offset[d] + n \in Nat
    BY <2>1, <2>2
  <2>4. Pack(use, counter) \in Nat
    BY <1>1, PackType
  <2> QED BY <2>3, <2>4
<1>4. /\ events' \in Seq(Event) /\ truth' \in Seq({"def", "fits", "overflows"})
      /\ events' # << >>
  BY <1>1, <1>2, <1>3, ReportType
<1>5. TypeOK'
  BY <1>1, <1>4 DEF TypeOK
<1>6. OwnActivation' /\ ArgumentsPointDown'
  BY <1>1 DEF IInv, OwnActivation, ArgumentsPointDown, DepthOf
<1>7. GlobalAtZero'
  BY <1>1 DEF IInv, GlobalAtZero
<1> QED BY <1>4, <1>5, <1>6, <1>7 DEF IInv

\* The frames that remain keep their pairs; the counter follows the stack.
LEMMA ReturnInv == IInv /\ Return => IInv'
<1> SUFFICES ASSUME IInv, Return PROVE IInv'
  OBVIOUS
<1> DEFINE n == Len(stack) - 1
<1>1. /\ TypeOK /\ OwnActivation /\ ArgumentsPointDown /\ GlobalAtZero
      /\ stack \in Seq(Frame) /\ stack # << >>
      /\ n \in Nat /\ n < MaxDepth /\ n + 1 = Len(stack)
      /\ events # << >>
      /\ UNCHANGED <<heap, latest, events, truth>>
  BY ProgramAssumption DEF IInv, TypeOK, Return
<1>2. /\ stack' = SubSeq(stack, 1, n) /\ stack' \in Seq(Frame) /\ Len(stack') = n
      /\ \A k \in 1 .. n : stack'[k] = stack[k]
  BY <1>1 DEF Return
<1>3. counter' = DepthOf(n) /\ DepthOf(n) \in Depths
  BY <1>1, CounterSteps, DepthOfType DEF Return, OwnActivation
<1>4. TypeOK'
  BY <1>1, <1>2, <1>3, ProgramAssumption DEF TypeOK
<1>5. OwnActivation'
  BY <1>1, <1>2, <1>3 DEF OwnActivation, DepthOf
<1>6. ArgumentsPointDown'
  <2>1. \A k \in 1 .. n : /\ k \in 1 .. Len(stack)
                          /\ \A j \in 1 .. k - 1 : stack'[j] = stack[j]
    BY <1>1, <1>2
  <2> QED BY <1>1, <1>2, <2>1 DEF ArgumentsPointDown, DepthOf
<1>7. GlobalAtZero'
  BY <1>1 DEF GlobalAtZero
<1> QED BY <1>1, <1>4, <1>5, <1>6, <1>7 DEF IInv

\* The allocation reports pairs of its own definition only.
LEMMA MallocInv == IInv /\ Malloc => IInv'
<1> SUFFICES ASSUME IInv, Malloc PROVE IInv'
  OBVIOUS
<1>1. PICK base \in FreeAddresses :
        /\ heap' = base
        /\ latest' = [latest EXCEPT ![<<Heap, counter>>] = base, ![<<Heap, 0>>] = base]
        /\ Report("DDEF", Pack(Heap, counter), base, Size[Heap], "def")
  BY DEF Malloc
<1>2. /\ TypeOK /\ OwnActivation /\ ArgumentsPointDown /\ GlobalAtZero
      /\ stack # << >> /\ events # << >>
      /\ Heap \in Defs \ {None} /\ Heap \in Nat
      /\ base \in Addresses /\ base \in Nat
      /\ UNCHANGED <<stack, counter>>
  BY <1>1, ProgramAssumption DEF IInv, Malloc, FreeAddresses, Defs
<1>3. counter \in Depths /\ 0 \in Depths /\ Size[Heap] \in Nat
  BY <1>2, ProgramAssumption DEF TypeOK, Depths
<1>4. /\ events' \in Seq(Event) /\ truth' \in Seq({"def", "fits", "overflows"})
      /\ events' # << >>
  BY <1>1, <1>2, <1>3, PackType, ReportType DEF EventKind
<1>5. /\ latest' \in [Defs \X Depths -> Nat \cup {Unset}]
      /\ \A d \in Defs, g \in Depths : d # Heap => latest'[<<d, g>>] = latest[<<d, g>>]
  BY <1>1, <1>2, <1>3 DEF TypeOK
<1>6. TypeOK'
  BY <1>1, <1>2, <1>4, <1>5 DEF TypeOK
<1>7. OwnActivation'
  <2>1. ASSUME NEW k \in 1 .. Len(stack)
        PROVE  /\ Local[stack[k].fn] \in Defs /\ Local[stack[k].fn] # Heap
               /\ DepthOf(k) \in Depths
    <3>1. k \in Nat /\ stack[k] \in Frame
      BY <1>2 DEF TypeOK
    <3> QED BY <3>1, DepthOfType, ProgramAssumption DEF Frame, Defs
  <2> QED BY <1>2, <1>5, <2>1 DEF OwnActivation, DepthOf
<1>8. ArgumentsPointDown'
  BY <1>2 DEF ArgumentsPointDown, DepthOf
<1>9. GlobalAtZero'
  <2>1. Global # None => Global \in Defs /\ Global # Heap
    BY <1>2, ProgramAssumption DEF Defs
  <2> QED BY <1>2, <1>3, <1>4, <1>5, <2>1 DEF GlobalAtZero
<1> QED BY <1>2, <1>4, <1>6, <1>7, <1>8, <1>9 DEF IInv

LEMMA GlobalsInv == IInv /\ Globals => IInv'
<1> SUFFICES ASSUME IInv, Globals PROVE IInv'
  OBVIOUS
<1>1. /\ TypeOK /\ OwnActivation /\ ArgumentsPointDown /\ GlobalAtZero
      /\ stack = << >> /\ Global # None /\ Global \in Nat /\ Global \in Defs
      /\ latest' = [latest EXCEPT ![<<Global, 0>>] = GlobalBase]
      /\ Report("DEF", Pack(Global, 0), GlobalBase, 0, "def")
      /\ UNCHANGED <<stack, counter, heap>>
  BY ProgramAssumption DEF IInv, Globals, Defs
<1>2. 0 \in Depths /\ GlobalBase \in Nat
  BY ProgramAssumption DEF Depths
<1>3. /\ events' \in Seq(Event) /\ truth' \in Seq({"def", "fits", "overflows"})
  BY <1>1, <1>2, PackType, ReportType DEF EventKind
<1>4. TypeOK'
  BY <1>1, <1>2, <1>3 DEF TypeOK
<1>5. OwnActivation' /\ ArgumentsPointDown'
  BY <1>1 DEF OwnActivation, ArgumentsPointDown, DepthOf
<1>6. GlobalAtZero'
  BY <1>1, <1>2 DEF TypeOK, GlobalAtZero
<1> QED BY <1>1, <1>4, <1>5, <1>6 DEF IInv

\* Every reference a call can pass leads to a frame below the new one.
LEMMA RefsPointBelow ==
  ASSUME IInv, stack # << >>, NEW arg \in Refs
  PROVE  arg \in Ref \cup {NoRef} /\ PointsBelow(arg, Len(stack))
<1> DEFINE n == Len(stack)
<1>1. /\ TypeOK /\ n \in Nat /\ 0 < n /\ Top = stack[n] /\ stack[n] \in Frame
      /\ counter = DepthOf(n) /\ counter \in Depths
  BY DEF IInv, TypeOK, OwnActivation, Top
<1>2. CASE arg = [def |-> Local[Top.fn], depth |-> counter, base |-> Top.base]
  <2>1. Local[Top.fn] \in Defs /\ Top.base \in Nat
    BY <1>1, ProgramAssumption DEF Frame, Defs
  <2>2. arg \in Ref
    BY <1>1, <1>2, <2>1 DEF Ref
  <2>3. n \in 1 .. n /\ arg.def = Local[stack[n].fn] /\ arg.depth = DepthOf(n)
        /\ arg.base = stack[n].base
    BY <1>1, <1>2
  <2> QED BY <2>2, <2>3 DEF PointsBelow
<1>3. CASE Global # None /\ arg = [def |-> Global, depth |-> counter, base |-> GlobalBase]
  <2>1. arg \in Ref
    BY <1>1, <1>3, ProgramAssumption DEF Ref, Defs
  <2> QED BY <1>3, <2>1 DEF PointsBelow
<1>4. CASE arg = Top.arg
  <2>1. arg \in Ref \cup {NoRef} /\ 1 .. n - 1 \subseteq 1 .. n
    BY <1>1, <1>4 DEF Frame
  <2> QED BY <1>1, <1>4, <2>1 DEF IInv, ArgumentsPointDown, PointsBelow
<1> QED BY <1>2, <1>3, <1>4 DEF Refs

\* What a function was passed, if anything, is a definition.
LEMMA ArgumentDefined ==
  ASSUME IInv, stack # << >>, Top.arg # NoRef
  PROVE  Top.arg.def # None
<1> DEFINE n == Len(stack)
<1>1. /\ TypeOK /\ n \in Nat /\ n \in 1 .. n /\ Top = stack[n]
  BY DEF IInv, TypeOK, Top
<1>2. CASE Global # None /\ Top.arg.def = Global
  BY <1>2
<1>3. CASE \E j \in 1 .. n - 1 : Top.arg.def = Local[stack[j].fn]
  <2>1. PICK j \in 1 .. n - 1 : Top.arg.def = Local[stack[j].fn]
    BY <1>3
  <2>2. stack[j] \in Frame
    BY <1>1 DEF TypeOK
  <2> QED BY <2>1, <2>2, ProgramAssumption DEF Frame
<1> QED BY <1>1, <1>2, <1>3 DEF IInv, ArgumentsPointDown

LEMMA NextInv == IInv /\ [Next]_programVars => IInv'
<1> SUFFICES ASSUME IInv, [Next]_programVars PROVE IInv'
  OBVIOUS
<1>1. /\ TypeOK /\ stack \in Seq(Frame)
      /\ stack # << >> => Top \in Frame
      /\ counter \in Depths
  BY DEF IInv, TypeOK, Top
<1>2. CASE Globals
  BY <1>2, GlobalsInv
<1>3. CASE Start
  <2>1. PICK base \in Addresses : Enter(Main, base, NoRef)
    BY <1>3 DEF Start
  <2>2. /\ Len(stack) < MaxDepth /\ PointsBelow(NoRef, Len(stack))
        /\ Main \in Functions /\ UNCHANGED heap
    BY <1>3, ProgramAssumption DEF Start, PointsBelow
  <2>3. Global # None => events # << >>
    BY <1>3 DEF Start
  <2> QED BY <2>1, <2>2, <2>3, EnterInv
<1>4. CASE CallFn
  <2>1. PICK f \in Functions, base \in Addresses, arg \in Refs : Enter(f, base, arg)
    BY <1>4 DEF CallFn, FreeAddresses
  <2>2. /\ stack # << >> /\ Len(stack) < MaxDepth /\ UNCHANGED heap
        /\ events # << >>
    BY <1>4 DEF CallFn, IInv
  <2> QED BY <2>1, <2>2, RefsPointBelow, EnterInv
<1>5. CASE Return
  BY <1>5, ReturnInv
<1>6. CASE Malloc
  BY <1>6, MallocInv
<1>7. CASE WriteLocal
  <2>1. /\ Local[Top.fn] \in Defs \ {None} /\ Top.base \in Nat
        /\ LocalUse[Top.fn] \in Nat
    BY <1>1, <1>7, ProgramAssumption DEF WriteLocal, Frame, Defs
  <2> QED BY <1>7, <2>1, UseInv DEF WriteLocal, EventKind
<1>8. CASE WriteGlobal
  <2>1. Global \in Defs \ {None} /\ GlobalBase \in Nat /\ GlobalUse[Top.fn] \in Nat
    BY <1>1, <1>8, ProgramAssumption DEF WriteGlobal, Frame, Defs
  <2> QED BY <1>8, <2>1, UseInv DEF WriteGlobal, EventKind
<1>9. CASE WriteHeap
  <2>1. /\ Heap \in Defs \ {None} /\ heap \in Nat /\ HeapUse[Top.fn] \in Nat
    BY <1>1, <1>9, ProgramAssumption DEF WriteHeap, TypeOK, Frame, Defs, Unset
  <2> QED BY <1>9, <2>1, UseInv DEF WriteHeap, EventKind
<1>10. CASE WriteArg
  <2>1. Top.arg \in Ref /\ ArgUse[Top.fn] \in Nat
    BY <1>1, <1>10, ProgramAssumption DEF WriteArg, Frame
  <2>2. Top.arg.def \in Defs \ {None} /\ Top.arg.base \in Nat
    BY <1>10, <2>1, ArgumentDefined DEF WriteArg, Ref
  <2>3. Pack(Top.arg.def, Top.arg.depth) \in Nat
    BY <2>1, <2>2, PackType, ProgramAssumption DEF Ref, Defs
  <2> QED BY <1>10, <2>1, <2>2, <2>3, UseInv DEF WriteArg, EventKind
<1>11. CASE UNCHANGED programVars
  BY <1>11 DEF programVars, IInv, TypeOK, OwnActivation, ArgumentsPointDown,
               GlobalAtZero, DepthOf
<1> QED BY <1>2, <1>3, <1>4, <1>5, <1>6, <1>7, <1>8, <1>9, <1>10, <1>11 DEF Next

-----------------------------------------------------------------------------
(***************************************************************************)
(* The invariant of RecursionTracker's counter and of the packed numbers.  *)
(***************************************************************************)
THEOREM Invariant == Spec => []IInv
<1> QED BY InitInv, NextInv, PTL DEF Spec

(***************************************************************************)
(* zbouncer_recursion_counter keeps its width and reports are numbers.     *)
(***************************************************************************)
THEOREM TypeCorrect == Spec => []TypeOK
<1>1. IInv => TypeOK
  BY DEF IInv
<1> QED BY <1>1, Invariant, PTL

(***************************************************************************)
(* Between entry and return every function, however often it is on the     *)
(* stack, finds its own array under the counter RecursionTracker gives it. *)
(***************************************************************************)
THEOREM ActivationsDistinguished == Spec => []OwnActivation
<1>1. IInv => OwnActivation
  BY DEF IInv
<1> QED BY <1>1, Invariant, PTL

(***************************************************************************)
(* The number the Zbouncer pass hands to a clone leads to the array that   *)
(* the pointer argument points to, through any number of calls.            *)
(***************************************************************************)
THEOREM ReferencesResolve == Spec => []ArgumentsResolve
<1>1. IInv => ArgumentsResolve
  <2> SUFFICES ASSUME IInv, NEW k \in 1 .. Len(stack), stack[k].arg # NoRef
               PROVE  Resolved(stack[k].arg) = stack[k].arg.base
    BY DEF ArgumentsResolve
  <2> DEFINE arg == stack[k].arg
  <2>1. /\ TypeOK /\ k \in Nat /\ stack[k] \in Frame /\ arg \in Ref
        /\ stack # << >> /\ events # << >>
    <3>1. TypeOK /\ stack \in Seq(Frame) /\ k \in Nat
      BY DEF IInv, TypeOK
    <3>2. stack[k] \in Frame /\ stack # << >>
      BY <3>1
    <3>3. arg \in Ref
      BY <3>2 DEF Frame
    <3>4. events # << >>
      BY <3>2 DEF IInv
    <3> QED BY <3>1, <3>2, <3>3, <3>4
  <2>2. CASE Global # None /\ arg.def = Global /\ arg.base = GlobalBase
    <3>1. /\ latest[<<Global, 0>>] = GlobalBase
          /\ \A g \in Depths : g # 0 => latest[<<Global, g>>] = Unset
      BY <2>1, <2>2 DEF IInv, GlobalAtZero
    <3> QED BY <2>1, <2>2, <3>1 DEF Resolved, Ref
  <2>3. CASE \E j \in 1 .. k - 1 : /\ arg.def = Local[stack[j].fn]
                                   /\ arg.depth = DepthOf(j)
                                   /\ arg.base = stack[j].base
    <3>1. PICK j \in 1 .. k - 1 : /\ arg.def = Local[stack[j].fn]
                                  /\ arg.depth = DepthOf(j)
                                  /\ arg.base = stack[j].base
      BY <2>3
    <3>2. j \in 1 .. Len(stack) /\ stack[j] \in Frame
      BY <2>1 DEF TypeOK
    <3>3. latest[<<arg.def, arg.depth>>] = arg.base /\ arg.base # Unset
      BY <3>1, <3>2, ProgramAssumption DEF IInv, OwnActivation, Frame, Unset
    <3> QED BY <3>3 DEF Resolved
  <2> QED BY <2>2, <2>3 DEF IInv, ArgumentsPointDown
<1> QED BY <1>1, Invariant, PTL

-----------------------------------------------------------------------------
\* Products with a natural number keep order.
LEMMA Products ==
  ASSUME NEW a \in Int, NEW b \in Int, NEW w \in Nat, a < b
  PROVE  a * w + w <= b * w
<1>1. PICK c \in Nat : b = a + 1 + c
  <2>1. b - a - 1 \in Nat
    OBVIOUS
  <2> QED
    BY <2>1
<1>2. c * w >= 0
  OBVIOUS
<1>3. b * w = a * w + w + c * w
  BY <1>1
<1> QED
  BY <1>2, <1>3

\* The two halves of a number: what get_id_var takes apart again.
LEMMA PackParts ==
  ASSUME NEW d \in Nat, NEW g \in Depths
  PROVE  Pack(d, g) \div DepthSpace = d /\ Pack(d, g) % DepthSpace = g
<1> DEFINE w == DepthSpace
           p == d * w + g
           q == p \div w
           r == p % w
<1>1. w \in Nat /\ 0 < w /\ g \in 0 .. w - 1 /\ d * w \in Nat
  <2>1. w \in Nat /\ 0 < w /\ g \in 0 .. w - 1
    BY ProgramAssumption DEF Depths
  <2>2. \A x, y \in Nat : x * y \in Nat
    OBVIOUS
  <2> HIDE DEF w
  <2> QED
    BY <2>1, <2>2
<1>2. q \in Int /\ r \in 0 .. w - 1 /\ p = q * w + r
  BY <1>1
<1>3. ~(q < d)
  <2>1. q < d => q * w + w <= d * w
    BY <1>1, <1>2, Products
  <2> HIDE DEF q, r
  <2> QED
    BY <1>1, <1>2, <2>1
<1>4. ~(d < q)
  <2>1. d < q => d * w + w <= q * w
    BY <1>1, <1>2, Products
  <2> HIDE DEF q, r
  <2> QED
    BY <1>1, <1>2, <2>1
<1>5. q = d
  <2> HIDE DEF q
  <2> QED
    BY <1>2, <1>3, <1>4
<1>6. r = g
  <2> HIDE DEF q, r
  <2> QED
    BY <1>1, <1>2, <1>5
<1> QED
  BY <1>5, <1>6 DEF Pack

\* Different pairs have different numbers.
LEMMA PackInjective ==
  ASSUME NEW d \in Nat, NEW e \in Nat, NEW g \in Depths, NEW h \in Depths, Pack(d, g) = Pack(e, h)
  PROVE  d = e /\ g = h
BY PackParts

-----------------------------------------------------------------------------
(***************************************************************************)
(* What the reports of a run tell: the pair that a use carries leads to    *)
(* the report of the array that it wrote, which is in the trace before it. *)
(***************************************************************************)
Reports(e, d, g) == e.kind = "DEF" /\ e.id = Pack(d, g)

NoneBefore(ev, n, d, g) == \A j \in 1 .. n - 1 : ~Reports(ev[j], d, g)

\* The last report of d under g before line n says that it is at base.
LastBefore(ev, n, d, g, base) ==
  \E j \in 1 .. n - 1 :
    /\ Reports(ev[j], d, g) /\ ev[j].addr = base
    /\ \A k \in j + 1 .. n - 1 : ~Reports(ev[k], d, g)

\* The pair under which the array that e wrote is looked up.
Names(e, d, g) ==
  \/ e.kind = "USE" /\ \E f \in Functions : e.id = Pack(LocalUse[f], g) /\ d = Local[f]
  \/ e.kind = "USE" /\ \E f \in Functions : e.id = Pack(GlobalUse[f], g) /\ d = Global
  \/ e.kind = "IUSE" /\ \E f \in Functions \ {Main}, c \in Depths :
                          e.id = Pack(ArgUse[f], c) /\ e.aux = Pack(d, g)

ReportedAt(d, g) == IF d = Global THEN 0 ELSE g

DefLine(e) == \E d \in Arrays, g \in Depths : Reports(e, d, g) /\ g = ReportedAt(d, g)

\* The lines about the allocated array.
HeapLine(e) ==
  /\ Heap # None
  /\ \/ e.kind = "DDEF" /\ \E g \in Depths : e.id = Pack(Heap, g)
     \/ e.kind = "USE" /\ \E f \in Functions, g \in Depths : e.id = Pack(HeapUse[f], g)

UseLine(ev, n, t) ==
  \E d \in Arrays, g \in Depths, base \in Addresses \cup {GlobalBase} :
    /\ Names(ev[n], d, g)
    /\ LastBefore(ev, n, d, ReportedAt(d, g), base)
    /\ (t = "overflows") <=> (ev[n].addr > base + Offset[d] + Size[d])

LineOK(ev, n, t) == ev[n] \in Event /\ (DefLine(ev[n]) \/ HeapLine(ev[n]) \/ UseLine(ev, n, t))

MainUnreferenced == \A k \in 1 .. Len(stack) : stack[k].fn = Main => stack[k].arg = NoRef

LatestTold ==
  \A d \in Arrays, g \in Depths :
    IF latest[<<d, g>>] = Unset THEN NoneBefore(events, Len(events) + 1, d, g)
    ELSE LastBefore(events, Len(events) + 1, d, g, latest[<<d, g>>])

Told ==
  /\ Len(truth) = Len(events)
  /\ \A n \in 1 .. Len(events) : LineOK(events, n, truth[n])
  /\ MainUnreferenced
  /\ LatestTold

-----------------------------------------------------------------------------
\* A definition of an array is a number, and not the allocated one.
LEMMA ArrayType ==
  ASSUME NEW d \in Arrays
  PROVE  d \in Nat /\ d # None /\ d # Heap /\ d \in Defs /\ Size[d] \in Nat /\ Offset[d] \in Nat
BY ProgramAssumption DEF Arrays, Defs

\* What was said of a line depends on nothing that comes after it.
LEMMA LinesStay ==
  ASSUME NEW ev, NEW ew, NEW n \in Nat, \A k \in 1 .. n : ew[k] = ev[k], NEW t
  PROVE  /\ LineOK(ev, n, t) /\ n > 0 => LineOK(ew, n, t)
         /\ \A d, g : NoneBefore(ev, n + 1, d, g) => NoneBefore(ew, n + 1, d, g)
         /\ \A d, g, base : LastBefore(ev, n + 1, d, g, base) => LastBefore(ew, n + 1, d, g, base)
<1>1. ASSUME NEW m \in Nat, m <= n + 1, NEW d, NEW g, NEW base, LastBefore(ev, m, d, g, base)
      PROVE  LastBefore(ew, m, d, g, base)
  <2>1. PICK j \in 1 .. m - 1 :
          /\ Reports(ev[j], d, g) /\ ev[j].addr = base
          /\ \A k \in j + 1 .. m - 1 : ~Reports(ev[k], d, g)
    BY <1>1 DEF LastBefore
  <2>2. j \in 1 .. n /\ ew[j] = ev[j] /\ \A k \in j + 1 .. m - 1 : k \in 1 .. n /\ ew[k] = ev[k]
    BY <1>1
  <2> QED
    BY <2>1, <2>2 DEF LastBefore
<1>2. ASSUME NEW d, NEW g, NoneBefore(ev, n + 1, d, g) PROVE NoneBefore(ew, n + 1, d, g)
  BY <1>2 DEF NoneBefore
<1>3. ASSUME LineOK(ev, n, t), n > 0 PROVE LineOK(ew, n, t)
  <2>1. n \in 1 .. n /\ ew[n] = ev[n]
    BY <1>3
  <2>2. UseLine(ev, n, t) => UseLine(ew, n, t)
    BY <1>1, <2>1 DEF UseLine
  <2> QED
    BY <1>3, <2>1, <2>2 DEF LineOK
<1> QED
  BY <1>1, <1>2, <1>3

(***************************************************************************)
(* A report extends the history by a line; the lines before stay as they   *)
(* were, and a pair that it does not report keeps its last report.         *)
(***************************************************************************)
LEMMA ReportTold ==
  ASSUME TypeOK, Told, NEW kind \in EventKind, NEW id \in Nat, NEW addr \in Nat, NEW aux \in Nat,
         NEW t \in {"def", "fits", "overflows"}, Report(kind, id, addr, aux, t),
         LineOK(events', Len(events) + 1, t)
  PROVE  LET e == MakeEvent(kind, id, addr, aux) IN
         /\ Len(truth') = Len(events')
         /\ Len(events') = Len(events) + 1
         /\ \A n \in 1 .. Len(events') : LineOK(events', n, truth'[n])
         /\ events'[Len(events')] = e
         /\ \A d, g : ~Reports(e, d, g) =>
              /\ NoneBefore(events, Len(events) + 1, d, g) => NoneBefore(events', Len(events') + 1, d, g)
              /\ \A base : LastBefore(events, Len(events) + 1, d, g, base)
                             => LastBefore(events', Len(events') + 1, d, g, base)
<1> DEFINE e == MakeEvent(kind, id, addr, aux)
           N == Len(events)
<1>1. /\ events \in Seq(Event) /\ truth \in Seq({"def", "fits", "overflows"}) /\ Len(truth) = N /\ N \in Nat
      /\ \A n \in 1 .. N : LineOK(events, n, truth[n])
  BY DEF TypeOK, Told
<1>2. e \in Event
  BY DEF MakeEvent, Event
<1>3. events' = Append(events, e) /\ truth' = Append(truth, t)
  BY DEF Report
<1>4. /\ Len(truth') = N + 1 /\ Len(events') = N + 1
      /\ events'[N + 1] = e /\ truth'[N + 1] = t
      /\ \A k \in 1 .. N : events'[k] = events[k] /\ truth'[k] = truth[k]
  <2> HIDE DEF e
  <2> QED
    BY <1>1, <1>2, <1>3
<1> HIDE DEF e, N
<1>5. ASSUME NEW n \in 1 .. N + 1 PROVE LineOK(events', n, truth'[n])
  <2>1. CASE n = N + 1
    BY <1>4, <2>1 DEF N
  <2>2. CASE n # N + 1
    <3>1. n \in 1 .. N /\ n \in Nat /\ n > 0 /\ \A k \in 1 .. n : events'[k] = events[k]
      BY <1>1, <1>4, <2>2
    <3> QED
      BY <1>1, <1>4, <3>1, LinesStay
  <2> QED
    BY <2>1, <2>2
<1>6. ASSUME NEW d, NEW g, ~Reports(e, d, g), NoneBefore(events, N + 1, d, g)
      PROVE  NoneBefore(events', N + 2, d, g)
  <2>1. NoneBefore(events', N + 1, d, g)
    BY <1>1, <1>4, <1>6, LinesStay
  <2> QED
    BY <1>1, <1>4, <1>6, <2>1 DEF NoneBefore
<1>7. ASSUME NEW d, NEW g, ~Reports(e, d, g), NEW base, LastBefore(events, N + 1, d, g, base)
      PROVE  LastBefore(events', N + 2, d, g, base)
  <2>1. LastBefore(events', N + 1, d, g, base)
    BY <1>1, <1>4, <1>7, LinesStay
  <2>2. PICK j \in 1 .. N :
          /\ Reports(events'[j], d, g) /\ events'[j].addr = base
          /\ \A k \in j + 1 .. N : ~Reports(events'[k], d, g)
    BY <1>1, <2>1 DEF LastBefore
  <2>3. j \in 1 .. N + 1 /\ \A k \in j + 1 .. N + 1 : ~Reports(events'[k], d, g)
    BY <1>1, <1>4, <1>7, <2>2
  <2> QED
    BY <1>1, <2>2, <2>3 DEF LastBefore
<1>8. Len(events') + 1 = N + 2
  BY <1>1, <1>4
<1> QED
  BY <1>4, <1>5, <1>6, <1>7, <1>8 DEF e, N

-----------------------------------------------------------------------------
LEMMA InitTold == Init => Told
<1> SUFFICES ASSUME Init PROVE Told
  OBVIOUS
<1>1. stack = << >> /\ events = << >> /\ truth = << >> /\ latest = [k \in Defs \X Depths |-> Unset]
  BY DEF Init
<1>2. ASSUME NEW d \in Arrays, NEW g \in Depths
      PROVE  latest[<<d, g>>] = Unset /\ NoneBefore(events, Len(events) + 1, d, g)
  <2>1. d \in Defs
    BY ArrayType
  <2> QED
    BY <1>1, <2>1 DEF NoneBefore
<1>3. LatestTold
  BY <1>2 DEF LatestTold
<1> QED
  BY <1>1, <1>3 DEF Told, MainUnreferenced

\* A report of an array under a pair leads from that pair to it.
LEMMA DefTold ==
  ASSUME TypeOK, Told, NEW d0 \in Arrays, NEW g0 \in Depths, g0 = ReportedAt(d0, g0),
         NEW base \in Nat, latest' = [latest EXCEPT ![<<d0, g0>>] = base],
         Report("DEF", Pack(d0, g0), base, 0, "def"), MainUnreferenced'
  PROVE  Told'
<1> DEFINE e == MakeEvent("DEF", Pack(d0, g0), base, 0)
           N == Len(events)
<1>1. d0 \in Nat /\ d0 \in Defs /\ Pack(d0, g0) \in Nat /\ e \in Event
  BY ArrayType, PackType DEF MakeEvent, Event, EventKind
<1>2. events' = Append(events, e) /\ events \in Seq(Event) /\ N \in Nat
  BY DEF Report, TypeOK
<1>3. events'[N + 1] = e
  <2> HIDE DEF e
  <2> QED
    BY <1>1, <1>2
<1>4. Reports(e, d0, g0)
  BY DEF Reports, MakeEvent
<1>5. LineOK(events', N + 1, "def")
  BY <1>1, <1>3, <1>4 DEF LineOK, DefLine
<1>6. /\ Len(truth') = Len(events') /\ Len(events') = N + 1
      /\ \A n \in 1 .. Len(events') : LineOK(events', n, truth'[n])
      /\ \A d, g : ~Reports(e, d, g) =>
           /\ NoneBefore(events, N + 1, d, g) => NoneBefore(events', Len(events') + 1, d, g)
           /\ \A b : LastBefore(events, N + 1, d, g, b) => LastBefore(events', Len(events') + 1, d, g, b)
  BY <1>1, <1>5, ReportTold DEF EventKind
<1>7. ASSUME NEW d \in Arrays, NEW g \in Depths
      PROVE  IF latest'[<<d, g>>] = Unset THEN NoneBefore(events', Len(events') + 1, d, g)
             ELSE LastBefore(events', Len(events') + 1, d, g, latest'[<<d, g>>])
  <2>1. d \in Nat /\ <<d, g>> \in Defs \X Depths
    BY ArrayType
  <2>2. CASE d = d0 /\ g = g0
    <3>1. latest'[<<d, g>>] = base /\ base # Unset
      BY <2>1, <2>2 DEF TypeOK, Unset
    <3>2. N + 1 \in 1 .. N + 1 /\ Reports(events'[N + 1], d, g) /\ events'[N + 1].addr = base
      BY <1>2, <1>3, <1>4, <2>2 DEF MakeEvent
    <3>3. Len(events') + 1 - 1 = N + 1 /\ (N + 1) + 1 .. N + 1 = {}
      BY <1>2, <1>6
    <3> QED
      BY <3>1, <3>2, <3>3 DEF LastBefore
  <2>3. CASE ~(d = d0 /\ g = g0)
    <3>1. ~Reports(e, d, g)
      BY <1>1, <2>1, <2>3, PackInjective DEF Reports, MakeEvent
    <3>2. latest'[<<d, g>>] = latest[<<d, g>>]
      BY <2>1, <2>3 DEF TypeOK
    <3> QED
      BY <1>6, <3>1, <3>2 DEF Told, LatestTold
  <2> QED
    BY <2>2, <2>3
<1>8. LatestTold'
  <2> HIDE DEF e, N
  <2> QED
    BY <1>7 DEF LatestTold
<1> QED
  BY <1>6, <1>8 DEF Told

\* Other reports lead from no pair to anywhere.
LEMMA OtherTold ==
  ASSUME TypeOK, Told, NEW kind \in EventKind \ {"DEF"}, NEW id \in Nat, NEW addr \in Nat, NEW aux \in Nat,
         NEW t \in {"def", "fits", "overflows"}, Report(kind, id, addr, aux, t),
         LineOK(events', Len(events) + 1, t), MainUnreferenced',
         \A d \in Arrays, g \in Depths : latest'[<<d, g>>] = latest[<<d, g>>]
  PROVE  Told'
<1> DEFINE e == MakeEvent(kind, id, addr, aux)
<1>1. \A d, g : ~Reports(e, d, g)
  BY DEF Reports, MakeEvent
<1>2. /\ Len(truth') = Len(events')
      /\ \A n \in 1 .. Len(events') : LineOK(events', n, truth'[n])
      /\ \A d, g :
           /\ NoneBefore(events, Len(events) + 1, d, g) => NoneBefore(events', Len(events') + 1, d, g)
           /\ \A b : LastBefore(events, Len(events) + 1, d, g, b) => LastBefore(events', Len(events') + 1, d, g, b)
  BY <1>1, ReportTold
<1>3. LatestTold'
  BY <1>2 DEF Told, LatestTold
<1> QED
  BY <1>2, <1>3 DEF Told

LEMMA EnterTold ==
  ASSUME IInv, Told, NEW f \in Functions, NEW base \in Addresses, NEW arg, f = Main => arg = NoRef,
         Enter(f, base, arg), Len(stack) < MaxDepth
  PROVE  Told'
<1>1. /\ stack' = Append(stack, [fn |-> f, base |-> base, arg |-> arg])
      /\ counter' = (counter + 1) % DepthSpace
      /\ latest' = [latest EXCEPT ![<<Local[f], counter'>>] = base]
      /\ Report("DEF", Pack(Local[f], counter'), base, 0, "def")
  BY DEF Enter
<1>2. TypeOK /\ counter' \in Depths /\ base \in Nat
  BY <1>1, ProgramAssumption DEF IInv, TypeOK, Depths
<1>3. Local[f] \in Arrays /\ counter' = ReportedAt(Local[f], counter')
  BY ProgramAssumption DEF Arrays, Defs, ReportedAt
<1>4. MainUnreferenced'
  <2>1. Len(stack') = Len(stack) + 1 /\ Len(stack) \in Nat
        /\ \A k \in 1 .. Len(stack) : stack'[k] = stack[k]
    BY <1>1, <1>2 DEF TypeOK
  <2>2. stack'[Len(stack) + 1].fn = f /\ stack'[Len(stack) + 1].arg = arg
    BY <1>1, <1>2 DEF TypeOK
  <2> QED
    BY <2>1, <2>2 DEF Told, MainUnreferenced
<1>5. \A g : g = counter' => Told'
  <2> SUFFICES ASSUME NEW g, g = counter' PROVE Told'
    OBVIOUS
  <2> QED
    BY <1>1, <1>2, <1>3, <1>4, DefTold
<1> QED
  BY <1>5

LEMMA GlobalsTold == ASSUME IInv, Told, Globals PROVE Told'
<1>1. /\ Global # None /\ UNCHANGED stack
      /\ latest' = [latest EXCEPT ![<<Global, 0>>] = GlobalBase]
      /\ Report("DEF", Pack(Global, 0), GlobalBase, 0, "def")
  BY DEF Globals
<1>2. TypeOK /\ GlobalBase \in Nat /\ 0 \in Depths /\ Global \in Arrays /\ 0 = ReportedAt(Global, 0)
  BY <1>1, ProgramAssumption DEF IInv, Depths, Arrays, Defs, ReportedAt
<1>3. MainUnreferenced'
  BY <1>1 DEF Told, MainUnreferenced
<1> QED
  BY <1>1, <1>2, <1>3, DefTold

LEMMA MallocTold == ASSUME IInv, Told, Malloc PROVE Told'
<1>1. PICK base \in FreeAddresses :
        /\ latest' = [latest EXCEPT ![<<Heap, counter>>] = base, ![<<Heap, 0>>] = base]
        /\ Report("DDEF", Pack(Heap, counter), base, Size[Heap], "def")
  BY DEF Malloc
<1>2. TypeOK /\ counter \in Depths /\ base \in Nat /\ Heap # None /\ Size[Heap] \in Nat /\ Heap \in Nat
      /\ Pack(Heap, counter) \in Nat
  BY PackType, ProgramAssumption DEF IInv, TypeOK, FreeAddresses, Malloc, Defs
<1>3. MainUnreferenced' /\ UNCHANGED stack
  BY DEF Malloc, Told, MainUnreferenced
<1>4. ASSUME NEW d \in Arrays, NEW g \in Depths PROVE latest'[<<d, g>>] = latest[<<d, g>>]
  <2>1. d # Heap /\ <<d, g>> \in Defs \X Depths
    BY ArrayType
  <2> QED
    BY <1>1, <1>2, <2>1 DEF TypeOK
<1>5. LineOK(events', Len(events) + 1, "def")
  <2> DEFINE e == MakeEvent("DDEF", Pack(Heap, counter), base, Size[Heap])
  <2>1. e \in Event /\ HeapLine(e)
    BY <1>2 DEF MakeEvent, Event, EventKind, HeapLine
  <2>2. events' = Append(events, e) /\ events \in Seq(Event)
    BY <1>1, <1>2 DEF Report, TypeOK
  <2>3. events'[Len(events) + 1] = e
    <3> HIDE DEF e
    <3> QED
      BY <2>1, <2>2
  <2> QED
    BY <2>1, <2>3 DEF LineOK
<1> QED
  BY <1>1, <1>2, <1>3, <1>4, <1>5, OtherTold DEF EventKind

(***************************************************************************)
(* A write of an array that its pair leads to.  The pair and the address   *)
(* of the object decide what the use tells.                                *)
(***************************************************************************)
LEMMA UseTold ==
  ASSUME IInv, Told, NEW kind \in {"USE", "IUSE"}, NEW use \in Nat, NEW aux \in Nat,
         NEW d \in Arrays, NEW g \in Depths, NEW base \in Addresses \cup {GlobalBase},
         Use(kind, use, aux, d, base),
         \A addr : Names(MakeEvent(kind, Pack(use, counter), addr, aux), d, g),
         ReportedAt(d, g) \in Depths, latest[<<d, ReportedAt(d, g)>>] = base
  PROVE  Told'
<1> DEFINE N == Len(events)
<1>1. PICK n \in {Size[d], Size[d] + 1} :
        Report(kind, Pack(use, counter), base + Offset[d] + n, aux,
               IF n > Size[d] THEN "overflows" ELSE "fits")
  BY DEF Use
<1>2. /\ TypeOK /\ counter \in Depths /\ base \in Nat /\ Size[d] \in Nat /\ Offset[d] \in Nat
      /\ n \in Nat /\ base # Unset /\ base + Offset[d] + n \in Nat
  <2>1. TypeOK /\ counter \in Depths
    BY DEF IInv, TypeOK
  <2>2. base \in Nat
    BY ProgramAssumption
  <2>3. Size[d] \in Nat /\ Offset[d] \in Nat
    BY ArrayType
  <2> QED
    BY <2>1, <2>2, <2>3 DEF Unset
<1>3. Pack(use, counter) \in Nat
  BY <1>2, PackType
<1>4. UNCHANGED <<stack, latest>> /\ MainUnreferenced'
  BY DEF Use, Told, MainUnreferenced
<1> DEFINE e == MakeEvent(kind, Pack(use, counter), base + Offset[d] + n, aux)
           t == IF n > Size[d] THEN "overflows" ELSE "fits"
<1>5. e \in Event /\ Names(e, d, g) /\ e.addr = base + Offset[d] + n
  BY <1>2, <1>3 DEF MakeEvent, Event, EventKind
<1>6. (t = "overflows") <=> (e.addr > base + Offset[d] + Size[d])
  BY <1>2, <1>5
<1>7. events' = Append(events, e) /\ events \in Seq(Event) /\ N \in Nat /\ Report(kind, Pack(use, counter), base + Offset[d] + n, aux, t)
  BY <1>1, <1>2 DEF Report, TypeOK
<1>8. t \in {"def", "fits", "overflows"}
  OBVIOUS
<1> HIDE DEF e, t
<1>9. events'[N + 1] = e /\ \A k \in 1 .. N : events'[k] = events[k]
  BY <1>5, <1>7
<1>10. LastBefore(events, N + 1, d, ReportedAt(d, g), base)
  BY <1>2 DEF Told, LatestTold
<1>11. LastBefore(events', N + 1, d, ReportedAt(d, g), base)
  BY <1>7, <1>9, <1>10, LinesStay
<1>12. LineOK(events', N + 1, t)
  BY <1>5, <1>6, <1>9, <1>11 DEF LineOK, UseLine
<1> QED
  BY <1>2, <1>3, <1>4, <1>7, <1>8, <1>12, OtherTold DEF EventKind, N

LEMMA NextTold == ASSUME IInv, Told, [Next]_programVars PROVE Told'
<1>1. /\ TypeOK /\ counter \in Depths
      /\ stack # << >> =>
           /\ Len(stack) \in 1 .. Len(stack) /\ Top = stack[Len(stack)] /\ Top \in Frame
           /\ Top.fn \in Functions /\ Top.base \in Addresses
  <2>1. TypeOK /\ stack \in Seq(Frame) /\ counter \in Depths
    BY DEF IInv, TypeOK
  <2>2. stack # << >> => Len(stack) \in 1 .. Len(stack) /\ Top = stack[Len(stack)]
    BY <2>1 DEF Top
  <2>3. stack # << >> => stack[Len(stack)] \in Frame
    BY <2>1, <2>2
  <2> QED
    BY <2>1, <2>2, <2>3 DEF Frame
<1>2. CASE Globals
  BY <1>2, GlobalsTold
<1>3. CASE Start
  <2>1. PICK base \in Addresses : Enter(Main, base, NoRef)
    BY <1>3 DEF Start
  <2>2. Len(stack) < MaxDepth /\ Main \in Functions
    BY <1>3, ProgramAssumption DEF Start
  <2> QED
    BY <2>1, <2>2, EnterTold
<1>4. CASE CallFn
  <2>1. PICK f \in Functions \ {Main}, base \in Addresses, arg \in Refs : Enter(f, base, arg)
    BY <1>4 DEF CallFn, FreeAddresses
  <2> QED
    BY <1>4, <2>1, EnterTold DEF CallFn
<1>5. CASE Return
  <2>1. UNCHANGED <<latest, events, truth>> /\ stack' = SubSeq(stack, 1, Len(stack) - 1) /\ stack # << >>
    BY <1>5 DEF Return
  <2>2. MainUnreferenced'
    <3> DEFINE n == Len(stack) - 1
    <3>1. stack \in Seq(Frame) /\ n \in Nat /\ n + 1 = Len(stack)
      BY <1>1, <2>1 DEF TypeOK
    <3>2. stack' = SubSeq(stack, 1, n)
      BY <2>1
    <3>3. Len(stack') = n /\ \A k \in 1 .. n : stack'[k] = stack[k] /\ k \in 1 .. Len(stack)
      <4> HIDE DEF n
      <4> QED
        BY <3>1, <3>2
    <3> HIDE DEF n
    <3> QED
      BY <3>3 DEF Told, MainUnreferenced
  <2> QED
    BY <2>1, <2>2 DEF Told, LatestTold
<1>6. CASE Malloc
  BY <1>6, MallocTold
<1>7. CASE WriteLocal
  <2> DEFINE d == Local[Top.fn]
             g == counter
  <2>1. Use("USE", LocalUse[Top.fn], 0, d, Top.base) /\ stack # << >>
    BY <1>7 DEF WriteLocal
  <2>2. d \in Arrays /\ LocalUse[Top.fn] \in Nat /\ d # Global
    BY <1>1, <2>1, ProgramAssumption DEF Arrays, Defs
  <2>3. ReportedAt(d, g) = counter /\ latest[<<d, counter>>] = Top.base
    BY <1>1, <2>1, <2>2 DEF ReportedAt, IInv, OwnActivation
  <2>4. \A addr : Names(MakeEvent("USE", Pack(LocalUse[Top.fn], g), addr, 0), d, g)
    BY <1>1, <2>1 DEF Names, MakeEvent
  <2> QED
    BY <1>1, <2>1, <2>2, <2>3, <2>4, UseTold
<1>8. CASE WriteGlobal
  <2>1. Use("USE", GlobalUse[Top.fn], 0, Global, GlobalBase) /\ stack # << >> /\ Global # None
    BY <1>8 DEF WriteGlobal
  <2>2. Global \in Arrays /\ GlobalUse[Top.fn] \in Nat /\ 0 \in Depths
    BY <1>1, <2>1, ProgramAssumption DEF Arrays, Defs, Depths
  <2>3. ReportedAt(Global, counter) = 0 /\ latest[<<Global, 0>>] = GlobalBase
    BY <2>1 DEF ReportedAt, IInv, GlobalAtZero
  <2>4. \A addr : Names(MakeEvent("USE", Pack(GlobalUse[Top.fn], counter), addr, 0), Global, counter)
    BY <1>1, <2>1 DEF Names, MakeEvent
  <2>5. "USE" \in {"USE", "IUSE"} /\ 0 \in Nat /\ GlobalBase \in Addresses \cup {GlobalBase}
    OBVIOUS
  <2>6. ReportedAt(Global, counter) \in Depths /\ latest[<<Global, ReportedAt(Global, counter)>>] = GlobalBase
    BY <2>2, <2>3
  <2> QED
    BY <1>1, <2>1, <2>2, <2>4, <2>5, <2>6, UseTold
<1>9. CASE WriteHeap
  <2>1. PICK n \in {Size[Heap], Size[Heap] + 1} :
          Report("USE", Pack(HeapUse[Top.fn], counter), heap + Offset[Heap] + n, 0,
                 IF n > Size[Heap] THEN "overflows" ELSE "fits")
    BY <1>9 DEF WriteHeap, Use
  <2> DEFINE addr == heap + Offset[Heap] + n
             t == IF n > Size[Heap] THEN "overflows" ELSE "fits"
             e == MakeEvent("USE", Pack(HeapUse[Top.fn], counter), addr, 0)
  <2>2. /\ Heap # None /\ stack # << >> /\ heap \in Nat /\ HeapUse[Top.fn] \in Nat
        /\ Size[Heap] \in Nat /\ Offset[Heap] \in Nat /\ UNCHANGED <<stack, latest>>
    BY <1>1, <1>9, ProgramAssumption DEF WriteHeap, Use, TypeOK, Unset, Defs
  <2>3. addr \in Nat /\ Pack(HeapUse[Top.fn], counter) \in Nat /\ t \in {"def", "fits", "overflows"}
    <3>1. n \in Nat
      BY <2>2
    <3>2. addr \in Nat
      BY <2>2, <3>1
    <3>3. Pack(HeapUse[Top.fn], counter) \in Nat
      BY <1>1, <2>2, PackType
    <3> QED
      BY <3>2, <3>3
  <2>4. Report("USE", Pack(HeapUse[Top.fn], counter), addr, 0, t)
    BY <2>1
  <2> HIDE DEF addr, t
  <2>5. e \in Event /\ HeapLine(e)
    BY <1>1, <2>2, <2>3 DEF MakeEvent, Event, EventKind, HeapLine
  <2>6. events' = Append(events, e) /\ events \in Seq(Event)
    BY <1>1, <2>4 DEF Report, TypeOK
  <2>7. events'[Len(events) + 1] = e
    <3> HIDE DEF e
    <3> QED
      BY <2>5, <2>6
  <2>8. LineOK(events', Len(events) + 1, t)
    BY <2>5, <2>7 DEF LineOK
  <2>9. MainUnreferenced'
    BY <2>2 DEF Told, MainUnreferenced
  <2> QED
    BY <1>1, <2>2, <2>3, <2>4, <2>8, <2>9, OtherTold DEF EventKind
<1>10. CASE WriteArg
  <2> DEFINE d == Top.arg.def
             g == Top.arg.depth
  <2>1. /\ stack # << >> /\ Top.arg # NoRef
        /\ Use("IUSE", ArgUse[Top.fn], Pack(d, g), d, Top.arg.base)
    BY <1>10 DEF WriteArg
  <2>2. Top.arg \in Ref /\ g \in Depths /\ ArgUse[Top.fn] \in Nat /\ Top.fn \in Functions \ {Main}
    BY <1>1, <2>1, ProgramAssumption DEF Frame, Ref, Told, MainUnreferenced
  <2>3. /\ d \in Arrays /\ Top.arg.base \in Addresses \cup {GlobalBase} /\ ReportedAt(d, g) \in Depths
        /\ latest[<<d, ReportedAt(d, g)>>] = Top.arg.base
    <3>1. CASE Global # None /\ d = Global /\ Top.arg.base = GlobalBase
      <4>1. 0 \in Depths /\ Global \in Arrays
        BY <3>1, ProgramAssumption DEF Arrays, Defs, Depths
      <4>2. latest[<<Global, 0>>] = GlobalBase
        BY <2>1, <3>1 DEF IInv, GlobalAtZero
      <4> QED
        BY <3>1, <4>1, <4>2 DEF ReportedAt
    <3>2. CASE \E j \in 1 .. Len(stack) - 1 :
                 d = Local[stack[j].fn] /\ g = DepthOf(j) /\ Top.arg.base = stack[j].base
      <4>1. PICK j \in 1 .. Len(stack) - 1 :
                 d = Local[stack[j].fn] /\ g = DepthOf(j) /\ Top.arg.base = stack[j].base
        BY <3>2
      <4>2. j \in 1 .. Len(stack) /\ stack[j] \in Frame
        BY <1>1, <4>1 DEF TypeOK
      <4>3. stack[j].fn \in Functions /\ stack[j].base \in Addresses
        BY <4>2 DEF Frame
      <4>4. d \in Arrays /\ d # Global
        BY <4>1, <4>3, ProgramAssumption DEF Arrays, Defs
      <4>5. latest[<<d, g>>] = stack[j].base
        BY <4>1, <4>2 DEF IInv, OwnActivation
      <4> QED
        BY <2>2, <4>1, <4>3, <4>4, <4>5 DEF ReportedAt
    <3> QED
      BY <1>1, <2>1, <3>1, <3>2 DEF IInv, ArgumentsPointDown
  <2>4. Pack(d, g) \in Nat
    BY <2>2, <2>3, ArrayType, PackType
  <2>5. \A addr : Names(MakeEvent("IUSE", Pack(ArgUse[Top.fn], counter), addr, Pack(d, g)), d, g)
    BY <1>1, <2>2 DEF Names, MakeEvent
  <2> HIDE DEF d, g
  <2> QED
    BY <2>1, <2>2, <2>3, <2>4, <2>5, UseTold
<1>11. CASE UNCHANGED programVars
  BY <1>11 DEF programVars, Told, MainUnreferenced, LatestTold
<1> QED
  BY <1>2, <1>3, <1>4, <1>5, <1>6, <1>7, <1>8, <1>9, <1>10, <1>11 DEF Next

(***************************************************************************)
(* Whatever calls and recursion a run makes, its trace is enough to judge  *)
(* each write of an array: before the line of the write there is a report  *)
(* of the array under the pair that the line names, and the last such      *)
(* report gives the address of the very object that was written.           *)
(***************************************************************************)
THEOREM TraceTells == Spec => []Told
<1> QED
  BY InitInv, NextInv, InitTold, NextTold, PTL DEF Spec
=============================================================================
