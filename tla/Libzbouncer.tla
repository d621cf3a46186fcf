---------------------------- MODULE Libzbouncer -----------------------------
(***************************************************************************)
(* The normal-world runtime library inside the protected process: a cache  *)
(* of trace entries that is flushed into the trusted application when it   *)
(* is nearly full and when main returns.                                   *)
(*                                                                         *)
(* The protected program is the environment: it makes any of the calls in  *)
(* Calls in any order, and it may stop at any point without reaching the   *)
(* return of main (exit, abort, a crash).                                  *)
(***************************************************************************)
EXTENDS TraceEntry, FiniteSetsExt

CONSTANTS TraceSize,     \* slots of the trace (2048)
          CopySize,      \* slots GOTVALUE copies (1024)
          CacheSize,     \* entries of the cache (128)
          FlushIndex,    \* the cache is flushed above this index (120)
          Cleared,       \* entries the memset after a flush covers (16)
          CacheEnabled,  \* the global cache_enabled
          TeeFaults,     \* may TEEC_InvokeCommand fail?
          Calls,         \* the calls the instrumented program can make
          MaxCalls       \* bound on the calls of a run

(***************************************************************************)
(* The last index that can be written, FlushIndex + 1, leaves at least one *)
(* entry of the cache unused: 121 < 127.  A flushed cache fits into the    *)
(* trace: 128 <= 2048.                                                     *)
(***************************************************************************)
ASSUME CacheAssumption ==
  /\ TraceSize \in Nat /\ CopySize \in Nat
  /\ 0 < CopySize /\ CopySize <= TraceSize /\ CacheSize <= TraceSize
  /\ CacheSize \in Nat /\ FlushIndex \in Nat /\ Cleared \in Nat
  /\ FlushIndex + 1 < CacheSize - 1
  /\ Cleared <= CacheSize
  /\ CacheEnabled \in BOOLEAN /\ TeeFaults \in BOOLEAN
  /\ Calls \subseteq Call
  /\ MaxCalls \in Nat

VARIABLES
  dynamic_trace, trace_id, func_ctr, log,   \* the trusted application
  cache, cache_last_index,                  \* the library
  main,       \* the protected process, see MainState
  total,      \* answer of FUNC_CTR read by zexit
  calls,      \* calls made so far (bounds a run)
  recorded,   \* history: the facts the program reported
  gen         \* history: the events reported since the last flush

libVars == <<cache, cache_last_index, main, total, calls, recorded, gen>>

TA == INSTANCE ZbouncerTA

taVars == <<dynamic_trace, trace_id, func_ctr, log>>
vars   == <<taVars, libVars>>

Entries   == 0 .. CacheSize - 1
ZeroCache == [i \in Entries |-> ZeroEntry]

\* "returned": zexit is done; "exited" and "dead": the process is gone.
MainState == {"start", "run", "returned", "exited", "dead"}

Fact == [what : {"def", "use", "iuse"}, id : Nat, at : Nat, of : Nat]

TypeOK ==
  /\ TA!TypeOK
  /\ cache \in [Entries -> CacheT]
  /\ cache_last_index \in -1 .. FlushIndex
  /\ main \in MainState
  /\ total \in [TA!Commands -> Nat]
  /\ calls \in Nat
  /\ recorded \subseteq Fact
  /\ gen \in Seq(Event)

Init ==
  /\ TA!Init
  /\ cache = ZeroCache
  /\ cache_last_index = -1
  /\ main = "start"
  /\ total = [c \in TA!Commands |-> 0]
  /\ calls = 0
  /\ recorded = {}
  /\ gen = << >>

-----------------------------------------------------------------------------
\* The first statement of main; the child it forks is module Extractor.
zinit ==
  /\ main = "start"
  /\ TA!OpenSession
  /\ cache' = ZeroCache
  /\ main' = "run"
  /\ UNCHANGED <<cache_last_index, total, calls, recorded, gen>>

\* A command reaches the application, or fails and nobody looks at res.
Invoke(command) == command \/ (TeeFaults /\ UNCHANGED taVars)

\* Mutant: the memset stops one entry early.
ClearPrefixShort(buf) ==
  [i \in Entries |-> IF i < Cleared - 1 THEN ZeroEntry ELSE buf[i]]

\* The memset counts bytes of an enumeration constant, not of a use_t.
ClearPrefix(buf) ==
  [i \in Entries |-> IF i < Cleared THEN ZeroEntry ELSE buf[i]]

(***************************************************************************)
(* zbouncer_flush_cache on the entries buf.  Without the cache the loop    *)
(* over 0 .. cache_last_index has nothing to do: the index stays at -1.    *)
(***************************************************************************)
FlushCache(buf) ==
  /\ IF CacheEnabled THEN Invoke(TA!FlushCache(buf)) ELSE UNCHANGED taVars
  /\ cache' = ClearPrefix(buf)
  /\ cache_last_index' = -1
  /\ gen' = << >>

-----------------------------------------------------------------------------
Live == 0 .. cache_last_index

\* Mutant: the scan misses the last live entry.
MatchesButLast(c) ==
  {i \in 0 .. cache_last_index - 1 :
     /\ cache[i].def.id = c.id
     /\ c.type \in IUseTypes => cache[i].def.id = c.def_id}

\* The entries zbouncer_collect_entry would overwrite, whatever wrote them.
Matches(c) ==
  {i \in Live : /\ cache[i].def.id = c.id
                /\ c.type \in IUseTypes => cache[i].def.id = c.def_id}

\* History: a definition seen again in this generation keeps its place.
GenPlace(c) ==
  {k \in 1 .. Len(gen) : gen[k].kind \in DefKinds /\ gen[k].id = c.id}

Remember(c) ==
  IF c.type \in DefTypes /\ GenPlace(c) # {}
  THEN [gen EXCEPT ![Min(GenPlace(c))] = CallEvent(c)]
  ELSE Append(gen, CallEvent(c))

\* What every call of the program has in common.
CallMade(c) ==
  /\ main = "run"
  /\ calls < MaxCalls
  /\ calls' = calls + 1
  /\ recorded' = recorded \cup {CallFact(c)}
  /\ UNCHANGED <<main, total>>

CollectAgain(c) ==
  /\ CacheEnabled
  /\ CallMade(c)
  /\ Matches(c) # {}
  /\ cache' = [cache EXCEPT ![Min(Matches(c))] = UpdateEntry(@, c)]
  /\ gen' = Remember(c)
  /\ UNCHANGED <<taVars, cache_last_index>>

CacheWith(c) ==
  [cache EXCEPT ![cache_last_index + 1] = UpdateEntry(@, c)]

\* Mutant: the cache is flushed one entry later.
CollectNewLateFlush(c) ==
  /\ CacheEnabled
  /\ CallMade(c)
  /\ Matches(c) = {}
  /\ cache_last_index + 1 <= FlushIndex + 1
  /\ cache' = CacheWith(c)
  /\ cache_last_index' = cache_last_index + 1
  /\ gen' = Remember(c)
  /\ UNCHANGED taVars

CollectNew(c) ==
  /\ CacheEnabled
  /\ CallMade(c)
  /\ Matches(c) = {}
  /\ cache_last_index + 1 <= FlushIndex
  /\ cache' = CacheWith(c)
  /\ cache_last_index' = cache_last_index + 1
  /\ gen' = Remember(c)
  /\ UNCHANGED taVars

CollectLast(c) ==
  /\ CacheEnabled
  /\ CallMade(c)
  /\ Matches(c) = {}
  /\ cache_last_index + 1 > FlushIndex
  /\ FlushCache(CacheWith(c))

\* A call sent on its own keeps its kind: an allocation of size 0 is a DDEF.
SentEvent(c) ==
  IF c.type = "dalloca" THEN MakeEvent("DDEF", c.id, c.addr, c.def_size)
  ELSE CallEvent(c)

\* Without the cache every call is a command of its own.
Send(c) ==
  /\ ~CacheEnabled
  /\ CallMade(c)
  /\ Invoke(TA!Command(SentEvent(c)))
  /\ UNCHANGED <<cache, cache_last_index, gen>>

\* Before main returns: flush, then read the counters.
zexit ==
  /\ main = "run"
  /\ FlushCache(cache)
  /\ \/ total' = TA!FuncCtr'
     \/ TeeFaults /\ UNCHANGED total
  /\ main' = "returned"
  /\ UNCHANGED <<calls, recorded>>

Exit ==
  /\ main = "returned"
  /\ main' = "exited"
  /\ UNCHANGED <<taVars, cache, cache_last_index, total, calls, recorded, gen>>

\* exit(), abort(), a signal: the return of main is never reached.
Die ==
  /\ main \in {"start", "run"}
  /\ main' = "dead"
  /\ UNCHANGED <<taVars, cache, cache_last_index, total, calls, recorded, gen>>

Collect(c) == CollectAgain(c) \/ CollectNew(c) \/ CollectLast(c) \/ Send(c)

Next ==
  \/ zinit
  \/ \E c \in Calls : CollectAgain(c)
  \/ \E c \in Calls : CollectNew(c)
  \/ \E c \in Calls : CollectLast(c)
  \/ \E c \in Calls : Send(c)
  \/ zexit
  \/ Exit
  \/ Die

Spec == Init /\ [][Next]_vars

-----------------------------------------------------------------------------
(***************************************************************************)
(* The loop of the application has no bound: whatever the program calls    *)
(* next, every buffer a flush can be given ends before its last entry.     *)
(* That relies on the threshold of zbouncer_collect_entry and on nobody    *)
(* ever writing the entries above it.                                      *)
(***************************************************************************)
FlushStaysInBuffer ==
  /\ TA!FlushCount(cache) < CacheSize
  /\ \A c \in Calls : TA!FlushCount(CacheWith(c)) < CacheSize

(***************************************************************************)
(* The same loop does not end early either: it reports one event for each  *)
(* live entry, because a call always leaves a kind the loop recognises.    *)
(***************************************************************************)
FlushReachesLastEntry == TA!FlushCount(cache) > cache_last_index

(***************************************************************************)
(* However entries are merged, overwritten, left uncleared and sent again, *)
(* neither the cache nor the trace ever pairs an identifier with an        *)
(* address the program did not report for it.                              *)
(***************************************************************************)
OnlyReportedFacts ==
  /\ \A i \in Entries : EntryFacts(cache[i]) \subseteq recorded
  /\ \A s \in TA!Slots : EntryFacts(dynamic_trace[s]) \subseteq recorded

(***************************************************************************)
(* The inductive invariant behind the three properties above: nothing is   *)
(* ever written past FlushIndex + 1, and every live entry holds a kind the *)
(* flush recognises, also after an update in place.  zinit replaces the    *)
(* cache without touching the index, so the index must still be -1.        *)
(***************************************************************************)
UnreachedEntriesEmpty ==
  \A i \in Entries : i > FlushIndex + 1 => cache[i] = ZeroEntry

LiveEntriesEmit == \A i \in Live : TA!Emits(cache[i])

IInv ==
  /\ TypeOK
  /\ UnreachedEntriesEmpty
  /\ LiveEntriesEmit
  /\ main = "start" => cache_last_index = -1
  /\ OnlyReportedFacts

(***************************************************************************)
(* A definition reported in this generation is found at the lowest live    *)
(* entry that names it, with the address of its latest report: the scan of *)
(* zbouncer_collect_entry and its in-place update agree on the entry, even *)
(* among entries that an incomplete memset left with old definitions.      *)
(***************************************************************************)
LatestAddressFirst ==
  CacheEnabled =>
    \A k \in 1 .. Len(gen) : gen[k].kind \in DefKinds =>
      LET named == {i \in Live : cache[i].def.id = gen[k].id} IN
      /\ named # {}
      /\ cache[Min(named)].def.addr = gen[k].addr

(***************************************************************************)
(* Until the ring is full, what the trace says is never rewritten.         *)
(***************************************************************************)
AppendOnlyUntilWrap ==
  [][(main = "run" /\ trace_id' <= TraceSize) =>
       \A s \in 0 .. trace_id - 1 : dynamic_trace'[s] = dynamic_trace[s]]_vars

(***************************************************************************)
(* zexit hands over the events of the last generation, all of them, in     *)
(* order and nothing else, when they fit into the part of the cache that   *)
(* the memset really clears with one cleared entry left to end the loop.   *)
(***************************************************************************)
ShortGenerationExact ==
  [][(main = "run" /\ main' = "returned" /\ log' # log
        /\ cache_last_index + 1 < Cleared) => log' = log \o gen]_vars

(***************************************************************************)
(* The ring holds the log modulo its size: the newest event of a slot is   *)
(* printed for it, and whatever else is printed for it is an older event   *)
(* of that same slot that the newer ones did not cover.                    *)
(***************************************************************************)
Newest(s) == Max({k \in 1 .. Len(log) : (k - 1) % TraceSize = s})

RingHoldsLog ==
  /\ Len(log) = trace_id
  /\ \A s \in TA!Slots :
       LET lines == Range(PrintedLines(dynamic_trace[s])) IN
       /\ s < trace_id =>
            LET e == log[Newest(s)] IN
            (e.kind = "IUSE" => e.aux # None) => e \in lines
       /\ \A e \in lines :
            \E k \in 1 .. Len(log) : log[k] = e /\ (k - 1) % TraceSize = s

(***************************************************************************)
(* What RingHoldsLog rests on: the slots that zinit keeps when it rewinds  *)
(* the trace are still empty, and a size in the cache always belongs to a  *)
(* definition, so that the flush never stores an event without a name.     *)
(***************************************************************************)
TraceInv ==
  /\ RingHoldsLog
  /\ main = "start" => dynamic_trace = [s \in TA!Slots |-> ZeroEntry]
  /\ \A i \in Entries : cache[i].def.size # 0 => cache[i].def.id # None

(***************************************************************************)
(* What LatestAddressFirst rests on: a definition has one place in the     *)
(* history of a generation, and no generation begins before zinit.         *)
(***************************************************************************)
GenInv ==
  /\ LatestAddressFirst
  /\ \A j, k \in 1 .. Len(gen) :
       gen[j].kind \in DefKinds /\ gen[k].kind \in DefKinds /\ gen[j].id = gen[k].id => j = k
  /\ main = "start" => gen = << >>

(***************************************************************************)
(* One counter numbers definitions and uses alike, and Zbouncer reports a  *)
(* local also as a dynamic allocation, in a loop, but with the size 0.     *)
(***************************************************************************)
IdsByKind ==
  \A c, d \in Calls : c.id = d.id =>
    /\ c.type \in DefTypes <=> d.type \in DefTypes
    /\ c.type = "def" /\ d.type = "dalloca" => d.def_size = 0

(***************************************************************************)
(* What ShortGenerationExact rests on: while the generation stays within   *)
(* the cleared part of the cache, every live entry is what the call of its *)
(* place in the generation makes of an empty one, and the next is empty.   *)
(***************************************************************************)
PrefixInv ==
  CacheEnabled /\ cache_last_index + 1 < Cleared =>
    /\ Len(gen) = cache_last_index + 1
    /\ \A i \in Live : \E c \in Calls :
         cache[i] = UpdateEntry(ZeroEntry, c) /\ gen[i + 1] = CallEvent(c)
    /\ \A i \in Entries : cache_last_index < i /\ i < Cleared => cache[i] = ZeroEntry

-----------------------------------------------------------------------------
(***************************************************************************)
(* A statement of the repository about the library that the code does not  *)
(* keep.  The comment over zbouncer_use says that it collects uses: by the *)
(* time main returns the application should have seen every one.           *)
(***************************************************************************)
EveryUseCollected ==
  main \in {"returned", "exited"} =>
    \A f \in recorded : f.what = "use" =>
      \E k \in 1 .. Len(log) : EventFact(log[k]) = f
=============================================================================
