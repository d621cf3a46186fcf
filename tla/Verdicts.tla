------------------------------ MODULE Verdicts ------------------------------
(***************************************************************************)
(* The protected program and the verifier, end to end: while the program   *)
(* runs, its trace is retransmitted again and again, and every arrival is  *)
(* judged with the addresses and lengths that earlier ones left behind.    *)
(*                                                                         *)
(* In between every report is a command of its own and the ring does not   *)
(* wrap, so that a trace is the reports so far, in order; the library and  *)
(* the transport, which do more than that, are Libzbouncer and Extractor.  *)
(***************************************************************************)
EXTENDS TraceEntry, StaticTrace

CONSTANTS
  Functions, Main, Local, Global, Heap, LocalUse, ArgUse, GlobalUse, HeapUse,
  Size, Offset, Addresses, GlobalBase, DepthSpace, MaxDepth, MaxEvents,
  IdSpace, Info, GlobalTags, InstrTags,
  MaxTraces     \* bound on the retransmissions of a run

VARIABLES
  stack, counter, heap, latest, events, truth,             \* the program
  address, length, alive, queue, trace, next, judged,      \* the verifier
  sent          \* traces sent so far (bounds a run)

P == INSTANCE Program
V == INSTANCE Verifier

\* Row n of the static trace is that of array d of the program.
Describes(n, d) ==
  /\ n \in Nodes
  /\ Metadata[n].id = d /\ Metadata[n].type \in DefRows \ {"DDEF"}
  /\ Metadata[n].length = Size[d] /\ Metadata[n].offset = Offset[d]

References == P!Arrays \cup {ArgUse[f] : f \in Functions \ {Main}}

(***************************************************************************)
(* The static trace is that of the program: what the verifier selects for  *)
(* a use is the array that the use writes.  The numbers of an I-USE line,  *)
(* which are printed with a sign, stay below the sign.                     *)
(***************************************************************************)
ASSUME VerdictsAssumption ==
  /\ P!ProgramShape
  /\ MaxTraces \in Nat /\ IdSpace \in Nat
  /\ \A f \in Functions :
       /\ Describes(V!UseRow(LocalUse[f]), Local[f])
       /\ Global # None => Describes(V!UseRow(GlobalUse[f]), Global)
       /\ f # Main => NodesNamed(ArgUse[f]) # {}
  /\ \A d \in P!Arrays : Describes(V!DefRow(d), d)
  /\ \A id \in References : 2 * (id + 1) <= IdSpace

programVars  == <<stack, counter, heap, latest, events, truth>>
verifierVars == <<address, length, alive, queue, trace, next, judged>>
vars         == <<programVars, verifierVars, sent>>

Init == P!Init /\ V!Init /\ sent = 0

Run == P!Next /\ UNCHANGED <<verifierVars, sent>>

\* One round of the extracting child, as its trace arrives in the queue.
Retransmit ==
  /\ sent < MaxTraces
  /\ sent' = sent + 1
  /\ queue' = Append(queue, events)
  /\ UNCHANGED <<programVars, address, length, alive, trace, next, judged>>

Judge == V!Step /\ UNCHANGED <<programVars, sent>>

Next == Run \/ Retransmit \/ Judge

Spec == Init /\ [][Next]_vars

\* The main thread of the verifier is scheduled; nobody else owes anything.
FairSpec == Spec /\ WF_vars(Judge)

-----------------------------------------------------------------------------
TypeOK ==
  /\ P!TypeOK
  /\ \A d \in DefIds :
       /\ address[d] \in [DOMAIN address[d] -> Nat] /\ DOMAIN address[d] \subseteq P!Depths
       /\ length[d] \in [DOMAIN length[d] -> Nat \cup {-1}] /\ 0 \in DOMAIN length[d]
  /\ alive \in BOOLEAN
  /\ queue \in Seq(Seq(Event))
  /\ trace \in Seq(Event)
  /\ next \in 1 .. Len(trace) + 1
  /\ judged \in [line : Nat, overflow : BOOLEAN]

(***************************************************************************)
(* The verdict on a write is the truth about it, in both directions and on *)
(* every retransmission: the recursion of the program, the references it   *)
(* hands on and the maps the verifier keeps from earlier traces never make *)
(* it compare a write with another object or another activation.           *)
(***************************************************************************)
VerdictIsTruth ==
  judged.line # 0 => judged.overflow = (truth[judged.line] = "overflows")

\* A use of an allocation that is listed for an earlier use, too.
UsesListedBefore(e) ==
  /\ e.kind = "USE"
  /\ \E n \in Nodes, k \in Nodes :
       /\ k < n
       /\ Metadata[n].type = "DDEF" /\ Metadata[n].father = V!IdOf(e.id)
       /\ Metadata[k].id = Metadata[n].id /\ Metadata[k].father # Metadata[n].father

\* What can end the main thread, told by the program and the files alone.
UnknownUse(e) ==
  e.kind \in {"USE", "IUSE"} /\ NodesNamed(V!IdOf(e.id)) = {}

TakenForGlobal(e) ==
  /\ e.kind \in {"USE", "IUSE"}
  /\ \E t \in GlobalTags : V!Within(V!IdOf(e.id), t)


HeapUses == {HeapUse[f] : f \in Functions}

(***************************************************************************)
(* The comment over Def::getBytes reserves the size -1 for a definition    *)
(* whose size cannot be defined at static time.  The size of such an       *)
(* allocation is reported at run time: a write inside it is no overflow.   *)
(***************************************************************************)
HeapWritesInBoundsPass ==
  (/\ judged.line # 0
   /\ judged.overflow
   /\ V!IdOf(events[judged.line].id) \in HeapUses)
    => truth[judged.line] = "overflows"
=============================================================================
