------------------------------ MODULE Verifier ------------------------------
(***************************************************************************)
(* The judging half of the verifier: the address and length that each      *)
(* definition of the static trace had at each call depth, and the loop     *)
(* that applies a received trace line by line.  An exception in that loop  *)
(* ends the main thread; the receiver thread keeps filling the queue.      *)
(*                                                                         *)
(* For an overflow the two instructions are searched in the llvm module to *)
(* print them, which can raise such an exception, too.  Statistics and log *)
(* files decide nothing and are left out.                                  *)
(***************************************************************************)
EXTENDS TraceEntry, StaticTrace

CONSTANTS IdSpace,      \* 2^16: identifiers in the high half of a number
          DepthSpace,   \* 2^16: call depths in the low half
          Info,         \* the text of the value that a row is about
          GlobalTags,   \* the identifiers tagged on globals of the llvm module
          InstrTags     \* and those tagged on its instructions

VARIABLES
  address,   \* per definition, its address at each depth that reported one
  length,    \* per definition, its length likewise; 0 holds the static one
  alive,     \* is the main thread running?
  queue,     \* data_queue
  trace,     \* the lines of the trace being verified
  next,      \* the next line of it; beyond the last when idle
  judged     \* history: the last verdict

verifierVars == <<address, length, alive, queue, trace, next, judged>>

-----------------------------------------------------------------------------
Init ==
  /\ address = [d \in DefIds |-> << >>]
  /\ length = [d \in DefIds |-> [g \in {0} |-> Metadata[FirstNode(d)].length]]
  /\ alive = TRUE
  /\ queue = << >>
  /\ trace = << >>
  /\ next = 1
  /\ judged = [line |-> 0, overflow |-> FALSE]

-----------------------------------------------------------------------------
\* get_id_var; Python shifts and masks negative numbers like this, too.
IdOf(number)    == number \div DepthSpace
DepthOf(number) == number % DepthSpace

\* Both numbers of an I-USE line are printed with a sign.
Signed(number) ==
  IF 2 * number >= IdSpace * DepthSpace THEN number - IdSpace * DepthSpace
  ELSE number

get_len(d, depth) ==
  IF depth \in DOMAIN length[d] THEN length[d][depth] ELSE length[d][0]

\* The addresses of definition d with the field offset of row n; an address
\* that was never reported counts as 0.
get_base(d, n, depth) ==
  LET known == {depth, 0} \cap DOMAIN address[d] IN
  IF known = {} THEN 0
  ELSE address[d][IF depth \in known THEN depth ELSE 0] + Metadata[n].offset

\* The row a use is judged against, 0 where the code raises an exception.
NoNode == 0

FirstOf(nodes) == IF nodes = << >> THEN NoNode ELSE Head(nodes)

UseRow(id) ==
  IF NodesNamed(id) = {} THEN NoNode
  ELSE LET children == Children[FirstNode(id)] IN
       IF Len(children) > 1
       THEN FirstOf(SelectSeq(children, LAMBDA n : Metadata[n].cls = "BASE"))
       ELSE FirstOf(children)

DefRow(id) == IF def_map(id) = {} THEN NoNode ELSE Min(def_map(id))

UsedDef(e) ==
  IF e.kind = "USE" THEN UseRow(IdOf(e.id))
  ELSE IF NodesNamed(IdOf(Signed(e.id))) = {} THEN NoNode
  ELSE DefRow(IdOf(Signed(e.aux)))

\* For a dynamic definition its first child is copied and given the address
\* of the allocation; the length goes to an attribute nobody reads.
MeasuredDef(d) ==
  IF d # NoNode /\ Metadata[d].type = "DDEF" THEN FirstOf(Children[d]) ELSE d

\* Mutant: an indirect use is looked up at the depth of the use.
UseDepthOfUse(e) ==
  IF e.kind = "USE" THEN DepthOf(e.id) ELSE DepthOf(Signed(e.id))

\* An indirect use is looked up at the depth of the definition it carries.
UseDepth(e) ==
  IF e.kind = "USE" THEN DepthOf(e.id) ELSE DepthOf(Signed(e.aux))

check_use(e) ==
  LET d == UsedDef(e)
      n == MeasuredDef(d) IN
  e.addr - get_base(Metadata[d].id, n, UseDepth(e))
    > get_len(Metadata[n].id, UseDepth(e))

\* The digits that identifier n is written with; an int has at most ten, and
\* Digits bounds those of a model.
Digits == 9
DigitsOf(n) == CHOOSE m \in 1 .. Digits : n < 10^m /\ (m = 1 \/ 10^(m-1) <= n)

\* The number id as a part of the text of the number t.
Within(id, t) ==
  \E k \in 0 .. DigitsOf(t) - DigitsOf(id) : (t \div 10^k) % 10^DigitsOf(id) = id

\* The globals are searched before the functions, and the first tag with id
\* somewhere in it is taken for that of id.
find_instr(id) ==
  IF \E t \in GlobalTags : Within(id, t) THEN "global"
  ELSE IF \E t \in InstrTags : Within(id, t) THEN "instruction" ELSE "none"

\* Some definition with the text of row n is found in the module.
Located(n) ==
  \E k \in Nodes : /\ Metadata[k].type \in DefRows
                   /\ Info[k] = Info[n]
                   /\ find_instr(Metadata[k].id) # "none"

UseId(e) == IF e.kind = "USE" THEN IdOf(e.id) ELSE IdOf(Signed(e.id))

(***************************************************************************)
(* The message about an overflow names the function of either instruction; *)
(* a global has none, which only the definition is asked about first.      *)
(***************************************************************************)
Lost(e) ==
  /\ check_use(e)
  /\ find_instr(UseId(e)) = "global"
  /\ Located(MeasuredDef(UsedDef(e)))

-----------------------------------------------------------------------------
Idle == next > Len(trace)

GetTrace ==
  /\ alive
  /\ Idle
  /\ queue # << >>
  /\ trace' = Head(queue)
  /\ queue' = Tail(queue)
  /\ next' = 1
  /\ UNCHANGED <<address, length, alive, judged>>

\* One line of the trace has been dealt with.
NextLine ==
  /\ alive /\ ~Idle
  /\ next' = next + 1
  /\ UNCHANGED <<alive, queue, trace>>

\* The dictionary of a definition, with a new value at some depths.
SetAt(depths, value, known) ==
  [g \in depths \cup DOMAIN known |-> IF g \in depths THEN value ELSE known[g]]

ApplyDef ==
  /\ NextLine
  /\ LET e == trace[next] IN
     /\ e.kind = "DEF"
     /\ IdOf(e.id) \in DefIds
     /\ address' = [address EXCEPT ![IdOf(e.id)] = SetAt({DepthOf(e.id)}, e.addr, @)]
  /\ UNCHANGED <<length, judged>>

\* A dynamic definition is also the one for every depth that has none.
ApplyDDef ==
  /\ NextLine
  /\ LET e      == trace[next]
         depths == {DepthOf(e.id), 0} IN
     /\ e.kind = "DDEF"
     /\ IdOf(e.id) \in DefIds
     /\ address' = [address EXCEPT ![IdOf(e.id)] = SetAt(depths, e.addr, @)]
     /\ length'  = [length  EXCEPT ![IdOf(e.id)] = SetAt(depths, e.aux, @)]
  /\ UNCHANGED judged

JudgeUse ==
  /\ NextLine
  /\ LET e == trace[next] IN
     /\ e.kind \in {"USE", "IUSE"}
     /\ MeasuredDef(UsedDef(e)) # NoNode
     /\ ~Lost(e)
     /\ judged' = [line |-> next, overflow |-> check_use(e)]
  /\ UNCHANGED <<address, length>>

\* KeyError, StopIteration or IndexError, and AttributeError where an
\* overflow should be printed: nothing catches them.
Raise ==
  /\ alive /\ ~Idle
  /\ LET e == trace[next] IN
     IF e.kind \in DefKinds THEN IdOf(e.id) \notin DefIds
     ELSE MeasuredDef(UsedDef(e)) # NoNode => Lost(e)
  /\ alive' = FALSE
  /\ UNCHANGED <<address, length, queue, trace, next, judged>>

Step == GetTrace \/ ApplyDef \/ ApplyDDef \/ JudgeUse \/ Raise
=============================================================================
