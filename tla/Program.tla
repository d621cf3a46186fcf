------------------------------- MODULE Program ------------------------------
(***************************************************************************)
(* A protected program after all passes: the call stack, the counter that  *)
(* RecursionTracker adds to it, and the reports that the Zbouncer pass     *)
(* inserts, each under a number that packs an identifier with the counter. *)
(*                                                                         *)
(* Every function has one local array and an indirect use of the array its *)
(* caller passes; one array is global and one is allocated with malloc,    *)
(* which a global pointer keeps.                                           *)
(***************************************************************************)
EXTENDS TraceEntry

CONSTANTS
  Functions, Main,
  Local,        \* the definition of the array of a function
  Global, Heap, \* the global array and the malloc site; None: there is none
  LocalUse, ArgUse, GlobalUse, HeapUse,   \* the uses in each function
  Size,         \* the bytes of a definition
  Offset,       \* where in its object the used field starts
  Addresses,    \* where objects can lie
  GlobalBase,   \* where the global array lies
  DepthSpace,   \* 2^16: values of zbouncer_recursion_counter
  MaxDepth,     \* bound on the frames of the stack
  MaxEvents     \* bound on the reports of a run

Depths == 0 .. DepthSpace - 1
Defs   == {Local[f] : f \in Functions} \cup {Global, Heap}
Arrays == Defs \ {None, Heap}

(***************************************************************************)
(* The stack is not deeper than the counter can tell: the deepest frame    *)
(* may have counter 0, which main does not use.                            *)
(***************************************************************************)
ProgramShape ==
  /\ Main \in Functions
  /\ Local \in [Functions -> Nat \ {None, Global, Heap}]
  /\ Global \in Nat /\ Heap \in Nat /\ (Global = Heap => Heap = None)
  /\ \A f \in Functions :
       {LocalUse[f], ArgUse[f], GlobalUse[f], HeapUse[f]} \subseteq Nat
  /\ \A d \in Defs \ {None} : Size[d] \in Nat /\ Offset[d] \in Nat
  /\ Addresses \subseteq Nat /\ GlobalBase \in Nat
  /\ DepthSpace \in Nat /\ MaxDepth \in Nat /\ MaxEvents \in Nat
  /\ 0 < MaxDepth /\ MaxDepth <= DepthSpace

ASSUME ProgramAssumption == ProgramShape

Unset == -1

VARIABLES
  stack,     \* the frames, main first
  counter,   \* zbouncer_recursion_counter
  heap,      \* what the global pointer points to
  latest,    \* history: the last address reported under each pair
  events,    \* history: the reports, in order
  truth      \* history: whether the write of each report overflows

programVars == <<stack, counter, heap, latest, events, truth>>

\* A reference: the packed pair an argument carries and the object behind it.
Ref   == [def : Defs, depth : Depths, base : Nat]
NoRef == [def |-> None, depth |-> 0, base |-> 0]
Frame == [fn : Functions, base : Addresses, arg : Ref \cup {NoRef}]

TypeOK ==
  /\ stack \in Seq(Frame) /\ Len(stack) <= MaxDepth
  /\ counter \in Depths
  /\ heap \in Addresses \cup {Unset}
  /\ latest \in [Defs \X Depths -> Nat \cup {Unset}]
  /\ events \in Seq(Event)
  /\ truth \in Seq({"def", "fits", "overflows"})

Init ==
  /\ stack = << >>
  /\ counter = 0
  /\ heap = Unset
  /\ latest = [k \in Defs \X Depths |-> Unset]
  /\ events = << >>
  /\ truth = << >>

-----------------------------------------------------------------------------
\* shl 16, and the low half of the counter.
Pack(id, depth) == id * DepthSpace + depth

Top == stack[Len(stack)]

Report(kind, id, addr, aux, t) ==
  /\ Len(events) < MaxEvents
  /\ events' = Append(events, MakeEvent(kind, id, addr, aux))
  /\ truth' = Append(truth, t)

\* Mutant: the sum is not truncated to the width of the counter.
EnterNoTrunc(f, base, arg) ==
  /\ stack' = Append(stack, [fn |-> f, base |-> base, arg |-> arg])
  /\ counter' = counter + 1
  /\ latest' = [latest EXCEPT ![<<Local[f], counter' % DepthSpace>>] = base]
  /\ Report("DEF", Pack(Local[f], counter' % DepthSpace), base, 0, "def")

(***************************************************************************)
(* The entry block of a function: the counter goes up before anything      *)
(* else, then the array is allocated and reported.                         *)
(***************************************************************************)
Enter(f, base, arg) ==
  /\ stack' = Append(stack, [fn |-> f, base |-> base, arg |-> arg])
  /\ counter' = (counter + 1) % DepthSpace
  /\ latest' = [latest EXCEPT ![<<Local[f], counter'>>] = base]
  /\ Report("DEF", Pack(Local[f], counter'), base, 0, "def")

\* The global array is reported by main, without the counter.
Globals ==
  /\ events = << >>
  /\ Global # None
  /\ latest' = [latest EXCEPT ![<<Global, 0>>] = GlobalBase]
  /\ Report("DEF", Pack(Global, 0), GlobalBase, 0, "def")
  /\ UNCHANGED <<stack, counter, heap>>

Start ==
  /\ stack = << >>
  /\ IF Global = None THEN events = << >> ELSE Len(events) = 1
  /\ \E base \in Addresses : Enter(Main, base, NoRef)
  /\ UNCHANGED heap

\* Live arrays do not overlap; the one of a function that returned is free.
FreeAddresses ==
  Addresses \ ({stack[k].base : k \in 1 .. Len(stack)} \cup {heap})

\* Mutant: the number passed for the own array is packed in the function called.
RefsOfCallee ==
  {[def |-> Local[Top.fn], depth |-> (counter + 1) % DepthSpace, base |-> Top.base]}
    \cup (IF Global = None THEN {}
          ELSE {[def |-> Global, depth |-> counter, base |-> GlobalBase]})
    \cup {Top.arg}

(***************************************************************************)
(* What a call can pass: the own array or the global one, packed with the  *)
(* counter of the caller, or the number the caller was passed itself.  The *)
(* literal 0 stays where the analysis found nothing.                       *)
(***************************************************************************)
Refs ==
  {[def |-> Local[Top.fn], depth |-> counter, base |-> Top.base]}
    \cup (IF Global = None THEN {}
          ELSE {[def |-> Global, depth |-> counter, base |-> GlobalBase]})
    \cup {Top.arg}

CallFn ==
  /\ stack # << >>
  /\ Len(stack) < MaxDepth
  /\ \E f \in Functions \ {Main}, base \in FreeAddresses, arg \in Refs :
       Enter(f, base, arg)
  /\ UNCHANGED heap

\* Mutant: only the return of main is instrumented.
ReturnMainOnly ==
  /\ stack # << >>
  /\ stack' = SubSeq(stack, 1, Len(stack) - 1)
  /\ counter' = IF Len(stack) = 1 THEN (counter - 1) % DepthSpace ELSE counter
  /\ UNCHANGED <<heap, latest, events, truth>>

Return ==
  /\ stack # << >>
  /\ stack' = SubSeq(stack, 1, Len(stack) - 1)
  /\ counter' = (counter - 1) % DepthSpace
  /\ UNCHANGED <<heap, latest, events, truth>>

\* malloc and the report of its result under the counter of this function.
Malloc ==
  /\ stack # << >>
  /\ Heap # None
  /\ \E base \in FreeAddresses :
       /\ heap' = base
       /\ latest' = [latest EXCEPT ![<<Heap, counter>>] = base, ![<<Heap, 0>>] = base]
       /\ Report("DDEF", Pack(Heap, counter), base, Size[Heap], "def")
  /\ UNCHANGED <<stack, counter>>

(***************************************************************************)
(* A write of n bytes into the field of definition d in the object at      *)
(* base; the use reports where the write ends.                             *)
(***************************************************************************)
Use(kind, use, aux, d, base) ==
  /\ \E n \in {Size[d], Size[d] + 1} :
       Report(kind, Pack(use, counter), base + Offset[d] + n, aux,
              IF n > Size[d] THEN "overflows" ELSE "fits")
  /\ UNCHANGED <<stack, counter, heap, latest>>

WriteLocal ==
  /\ stack # << >>
  /\ Use("USE", LocalUse[Top.fn], 0, Local[Top.fn], Top.base)

WriteGlobal ==
  /\ stack # << >>
  /\ Global # None
  /\ Use("USE", GlobalUse[Top.fn], 0, Global, GlobalBase)

WriteHeap ==
  /\ stack # << >>
  /\ Heap # None /\ heap # Unset /\ HeapUse[Top.fn] # None
  /\ Use("USE", HeapUse[Top.fn], 0, Heap, heap)

\* A use without a definition, number 0, is never printed.
WriteArg ==
  /\ stack # << >>
  /\ Top.arg # NoRef
  /\ Use("IUSE", ArgUse[Top.fn], Pack(Top.arg.def, Top.arg.depth),
         Top.arg.def, Top.arg.base)

Next ==
  \/ Globals \/ Start \/ CallFn \/ Return \/ Malloc
  \/ WriteLocal \/ WriteGlobal \/ WriteHeap \/ WriteArg

Spec == Init /\ [][Next]_programVars

-----------------------------------------------------------------------------
(***************************************************************************)
(* The counter is the depth, so a function finds under its own counter the *)
(* array of this activation, also after it has called itself and other     *)
(* functions have used the same depths.                                    *)
(***************************************************************************)
DepthOf(k) == k % DepthSpace

OwnActivation ==
  /\ counter = DepthOf(Len(stack))
  /\ \A k \in 1 .. Len(stack) :
       latest[<<Local[stack[k].fn], DepthOf(k)>>] = stack[k].base

(***************************************************************************)
(* The pair passed for an argument leads to the array the argument points  *)
(* to, however many calls hand it on: at the depth it names, or, for the   *)
(* global array, which no depth ever reports, at depth 0.                  *)
(***************************************************************************)
Resolved(ref) ==
  IF latest[<<ref.def, ref.depth>>] # Unset
  THEN latest[<<ref.def, ref.depth>>] ELSE latest[<<ref.def, 0>>]

ArgumentsResolve ==
  \A k \in 1 .. Len(stack) :
    stack[k].arg # NoRef => Resolved(stack[k].arg) = stack[k].arg.base

(***************************************************************************)
(* The inductive invariant behind them: an argument names the array of a   *)
(* frame below, whose pair no later frame can report again, or the global  *)
(* array, which is reported before main runs and at depth 0 only.          *)
(***************************************************************************)
ArgumentsPointDown ==
  \A k \in 1 .. Len(stack) :
    LET arg == stack[k].arg IN
    \/ arg = NoRef
    \/ Global # None /\ arg.def = Global /\ arg.base = GlobalBase
    \/ \E j \in 1 .. k - 1 :
         /\ arg.def = Local[stack[j].fn]
         /\ arg.depth = DepthOf(j)
         /\ arg.base = stack[j].base

GlobalAtZero ==
  Global # None =>
    /\ \A g \in Depths : g # 0 => latest[<<Global, g>>] = Unset
    /\ events # << >> => latest[<<Global, 0>>] = GlobalBase

IInv ==
  /\ TypeOK
  /\ stack # << >> => events # << >>
  /\ OwnActivation
  /\ ArgumentsPointDown
  /\ GlobalAtZero
=============================================================================
