----------------------------- MODULE ZbouncerTA -----------------------------
(***************************************************************************)
(* The trusted application: a ring of trace slots in secure memory that    *)
(* the normal world fills with one command per event, or with one command  *)
(* per flushed cache, and copies out with GOTVALUE.  OP-TEE runs one       *)
(* command of a session at a time, so a command is one action.             *)
(*                                                                         *)
(* log is a history variable: every event stored since the session was     *)
(* opened, in order.                                                       *)
(***************************************************************************)
EXTENDS TraceEntry

CONSTANTS TraceSize,   \* slots of dynamic_trace (2048)
          CopySize,    \* slots copy_trace moves to the normal world (1024)
          CacheSize    \* entries of a flushed cache (128)

VARIABLES dynamic_trace, trace_id, func_ctr, log

taVars == <<dynamic_trace, trace_id, func_ctr, log>>

Slots == 0 .. TraceSize - 1

Commands == {"DEF", "DDEF", "USE", "IUSE"}

TypeOK ==
  /\ dynamic_trace \in [Slots -> UseT]
  /\ trace_id \in Nat
  /\ func_ctr \in [Commands -> Nat]
  /\ log \in Seq(Event)

\* Loading the application zeroes its data.
Init ==
  /\ dynamic_trace = [s \in Slots |-> ZeroEntry]
  /\ trace_id = 0
  /\ func_ctr = [c \in Commands |-> 0]
  /\ log = << >>

-----------------------------------------------------------------------------
\* TA_OpenSessionEntryPoint rewinds the trace and keeps its slots.
OpenSession ==
  /\ trace_id' = 0
  /\ log' = << >>
  /\ UNCHANGED <<dynamic_trace, func_ctr>>

(***************************************************************************)
(* zbouncer_def, zbouncer_ddef, zbouncer_use, zbouncer_iuse: one event     *)
(* into the current slot.                                                  *)
(***************************************************************************)
\* Mutant: the index wraps at the size of the copy.
CommandWrapsEarly(e) ==
  /\ dynamic_trace' =
       [dynamic_trace EXCEPT ![trace_id % CopySize] = StoreEvent(@, e)]
  /\ trace_id' = trace_id + 1
  /\ log' = Append(log, e)
  /\ UNCHANGED func_ctr

Command(e) ==
  /\ dynamic_trace' =
       [dynamic_trace EXCEPT ![trace_id % TraceSize] = StoreEvent(@, e)]
  /\ trace_id' = trace_id + 1
  /\ log' = Append(log, e)
  /\ UNCHANGED func_ctr

(***************************************************************************)
(* The loop of zbouncer_flush_cache has no bound of its own: it ends at    *)
(* the first entry that holds nothing.  FlushCount is the number of        *)
(* entries it stores; CacheSize means that it ran off the buffer.          *)
(***************************************************************************)
Emits(entry) == EntryKind(entry) # "END"

FlushCount(buf) ==
  CHOOSE n \in 0 .. CacheSize :
    /\ \A i \in 0 .. n - 1 : Emits(buf[i])
    /\ n = CacheSize \/ ~Emits(buf[n])

\* Mutant: a flush starts at the first slot again.
FlushedSlotFromZero(buf, s) ==
  IF s \in 0 .. FlushCount(buf) - 1
  THEN StoreEvent(dynamic_trace[s], EntryEvent(buf[s]))
  ELSE dynamic_trace[s]

\* The k-th stored entry goes to slot trace_id + k of the ring.
FlushedSlot(buf, s) ==
  LET k == (s - trace_id) % TraceSize IN
  IF k \in 0 .. FlushCount(buf) - 1
  THEN StoreEvent(dynamic_trace[s], EntryEvent(buf[k]))
  ELSE dynamic_trace[s]

FlushCache(buf) ==
  /\ dynamic_trace' = [s \in Slots |-> FlushedSlot(buf, s)]
  /\ trace_id' = trace_id + FlushCount(buf)
  /\ func_ctr' = [func_ctr EXCEPT !["DEF"] = @ + 1]
  /\ log' = log \o [k \in 1 .. FlushCount(buf) |-> EntryEvent(buf[k - 1])]

\* zbouncer_func_ctr packs every counter into 16 bits of its answer.
FuncCtr == [c \in Commands |-> func_ctr[c] % 65536]

\* copy_trace: the part of a slot array that GOTVALUE overwrites.
CopyTrace(shared) ==
  [s \in Slots |-> IF s < CopySize THEN dynamic_trace[s] ELSE shared[s]]
=============================================================================
