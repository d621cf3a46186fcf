------------------------- MODULE LibzbouncerProofs --------------------------
(***************************************************************************)
(* Proofs about Libzbouncer, for every size of the cache and the trace and *)
(* for every program: the type invariant, the two bounds of the unbounded  *)
(* loop of zbouncer_flush_cache, that no entry of the cache or of the      *)
(* trace states anything the program did not report, that the ring holds   *)
(* the whole trace until it wraps and grows only at its end until then,    *)
(* that a definition is flushed with its latest address, and that a short  *)
(* generation is flushed as it was reported.                               *)
(***************************************************************************)
EXTENDS Libzbouncer, WellFoundedInduction, TLAPS

-----------------------------------------------------------------------------
(***************************************************************************)
(* The least-number principle, from the well-foundedness of < on Nat.      *)
(***************************************************************************)
LEMMA LeastNat ==
  ASSUME NEW S \in SUBSET Nat, S # {}
  PROVE  \E m \in S : \A k \in S : m <= k
<1> DEFINE R == {ss \in Nat \X Nat : ss[1] < ss[2]}
<1>1. IsWellFoundedOn(R, Nat)
  BY NatLessThanWellFounded DEF OpToRel
<1>2. \E m \in S : \A k \in S : ~(<<k, m>> \in R)
  <2> HIDE DEF R
  <2> QED BY <1>1, WFMin
<1>3. \A k, m \in Nat : ~(<<k, m>> \in R) => m <= k
  OBVIOUS
<1> HIDE DEF R
<1> QED BY <1>2, <1>3

(***************************************************************************)
(* FlushCount is well defined: the loop of zbouncer_flush_cache has a      *)
(* first entry that ends it, or runs off the buffer.                       *)
(***************************************************************************)
LEMMA FlushCountIsPrefix ==
  ASSUME NEW buf
  PROVE  /\ TA!FlushCount(buf) \in 0 .. CacheSize
         /\ \A i \in 0 .. TA!FlushCount(buf) - 1 : TA!Emits(buf[i])
         /\ TA!FlushCount(buf) = CacheSize \/ ~TA!Emits(buf[TA!FlushCount(buf)])
<1> DEFINE P(n) == /\ \A i \in 0 .. n - 1 : TA!Emits(buf[i])
                   /\ n = CacheSize \/ ~TA!Emits(buf[n])
           Ends == {n \in 0 .. CacheSize : n = CacheSize \/ ~TA!Emits(buf[n])}
<1>1. CacheSize \in Nat
  BY CacheAssumption
<1>2. PICK m \in Ends : \A k \in Ends : m <= k
  <2>1. Ends \in SUBSET Nat /\ CacheSize \in Ends
    BY <1>1
  <2> QED BY <2>1, LeastNat
<1>3. m \in 0 .. CacheSize /\ P(m)
  BY <1>1, <1>2
<1>4. TA!FlushCount(buf) = CHOOSE n \in 0 .. CacheSize : P(n)
  BY DEF TA!FlushCount
<1> HIDE DEF P
<1>5. TA!FlushCount(buf) \in 0 .. CacheSize /\ P(TA!FlushCount(buf))
  BY <1>3, <1>4
<1> QED BY <1>5 DEF P

-----------------------------------------------------------------------------
(***************************************************************************)
(* The application and the library declare the same struct: what TA! says  *)
(* of entries and events is what TraceEntry says of them.                  *)
(***************************************************************************)
LEMMA SameLayout ==
  /\ TA!UseT = UseT
  /\ TA!Event = Event
  /\ TA!ZeroEntry = ZeroEntry
BY DEF TA!UseT, UseT, TA!Event, Event, TA!EventKind, EventKind, TA!ZeroEntry,
       ZeroEntry, TA!None, None, TA!Static, Static

LEMMA SameEvents ==
  ASSUME NEW entry, NEW e
  PROVE  /\ TA!Emits(entry) <=> EntryKind(entry) # "END"
         /\ TA!EntryEvent(entry) = EntryEvent(entry)
         /\ TA!StoreEvent(entry, e) = StoreEvent(entry, e)
<1>1. TA!EntryKind(entry) = EntryKind(entry)
  BY DEF TA!EntryKind, EntryKind, TA!None, None
<1>2. TA!Emits(entry) <=> EntryKind(entry) # "END"
  BY <1>1 DEF TA!Emits
<1>3. TA!EntryEvent(entry) = EntryEvent(entry)
  BY <1>1, Zenon DEF TA!EntryEvent, EntryEvent, TA!MakeEvent, MakeEvent
<1>4. TA!StoreEvent(entry, e) = StoreEvent(entry, e)
  BY Zenon DEF TA!StoreEvent, StoreEvent, TA!SetDef, SetDef, TA!SetUse, SetUse,
     TA!SetIUse, SetIUse, TA!DefKinds, DefKinds, TA!Static, Static
<1> QED BY <1>2, <1>3, <1>4

-----------------------------------------------------------------------------
(***************************************************************************)
(* What a call does to an entry: it stays an entry, it becomes one that    *)
(* the flush reports, and the only new fact in it is the reported one.     *)
(***************************************************************************)
LEMMA EndOfWriteType == ASSUME NEW c \in Call PROVE EndOfWrite(c) \in Nat
BY DEF EndOfWrite, Call

LEMMA UpdateEntryType ==
  ASSUME NEW entry \in CacheT, NEW c \in Call
  PROVE  UpdateEntry(entry, c) \in CacheT
BY EndOfWriteType DEF UpdateEntry, SetDef, SetUse, SetIUse, CacheT, UseT, Call,
   Static, None

LEMMA UpdateEntryEmits ==
  ASSUME NEW entry \in CacheT, NEW c \in Call
  PROVE  TA!Emits(UpdateEntry(entry, c))
<1> DEFINE new == UpdateEntry(entry, c)
<1>1. CASE c.type \in DefTypes
  <2>1. new.def.id = c.id /\ new.def.id # None
    BY <1>1 DEF UpdateEntry, SetDef, Call, None
  <2> QED BY <2>1, SameEvents DEF EntryKind
<1>2. CASE c.type \in UseTypes
  <2>1. new.use.id = c.id /\ new.use.id # None
    BY <1>2 DEF UpdateEntry, SetUse, Call, None, DefTypes, UseTypes
  <2> QED BY <2>1, SameEvents DEF EntryKind
<1>3. CASE c.type \notin DefTypes \cup UseTypes
  <2>1. new.iuse.id = c.id /\ new.iuse.id # None
    BY <1>3 DEF UpdateEntry, SetIUse, Call, None
  <2> QED BY <2>1, SameEvents DEF EntryKind
<1> QED BY <1>1, <1>2, <1>3

LEMMA UpdateEntryFacts ==
  ASSUME NEW entry \in CacheT, NEW c \in Call
  PROVE  EntryFacts(UpdateEntry(entry, c)) \subseteq EntryFacts(entry) \cup {CallFact(c)}
<1> USE DEF UpdateEntry, SetDef, SetUse, SetIUse, EntryFacts, CallFact, DefFact,
            UseFact, IUseFact
<1>1. CASE c.type \in DefTypes
  BY <1>1 DEF DefTypes, UseTypes
<1>2. CASE c.type \in UseTypes
  BY <1>2 DEF DefTypes, UseTypes
<1>3. CASE c.type \notin DefTypes \cup UseTypes
  BY <1>3 DEF DefTypes, UseTypes
<1> QED BY <1>1, <1>2, <1>3

(***************************************************************************)
(* A call is an event and a fact of the model.                             *)
(***************************************************************************)
LEMMA CallFactType == ASSUME NEW c \in Call PROVE CallFact(c) \in Fact
BY EndOfWriteType DEF CallFact, DefFact, UseFact, IUseFact, Call, Fact, None

LEMMA CallEventType ==
  ASSUME NEW c \in Call
  PROVE  CallEvent(c) \in Event /\ SentEvent(c) \in Event
BY EndOfWriteType DEF CallEvent, SentEvent, MakeEvent, Call, Event, EventKind, None

LEMMA EventOfCall ==
  ASSUME NEW c \in Call
  PROVE  EventFact(SentEvent(c)) = CallFact(c)
BY EndOfWriteType DEF EventFact, SentEvent, CallEvent, CallFact, MakeEvent, DefFact, UseFact,
   IUseFact, DefKinds, DefTypes, UseTypes, IUseTypes, Call, ENTRY_TYPE, None

(***************************************************************************)
(* What the application makes of a flushed entry and of a sent event.      *)
(***************************************************************************)
LEMMA EntryEventType ==
  ASSUME NEW entry \in CacheT
  PROVE  EntryEvent(entry) \in Event
BY DEF EntryEvent, EntryKind, MakeEvent, CacheT, UseT, Event, EventKind, Static, None

LEMMA StoreEventType ==
  ASSUME NEW slot \in UseT, NEW e \in Event
  PROVE  StoreEvent(slot, e) \in UseT
BY DEF StoreEvent, SetDef, SetUse, SetIUse, UseT, Event, EventKind, Static

LEMMA StoreEventFacts ==
  ASSUME NEW slot \in UseT, NEW e \in Event,
         NEW f \in EntryFacts(StoreEvent(slot, e))
  PROVE  f.id # None /\ (f \in EntryFacts(slot) \/ f = EventFact(e))
<1> USE DEF StoreEvent, SetDef, SetUse, SetIUse, EntryFacts, EventFact, DefFact,
            UseFact, IUseFact
<1>1. CASE e.kind \in DefKinds
  BY <1>1 DEF DefKinds
<1>2. CASE e.kind = "USE"
  BY <1>2 DEF DefKinds
<1>3. CASE e.kind \notin DefKinds \cup {"USE"}
  BY <1>3 DEF DefKinds
<1> QED BY <1>1, <1>2, <1>3

LEMMA EntryEventFact ==
  ASSUME NEW entry \in CacheT, EventFact(EntryEvent(entry)).id # None
  PROVE  EventFact(EntryEvent(entry)) \in EntryFacts(entry)
BY DEF EntryEvent, EntryKind, MakeEvent, EntryFacts, EventFact, DefFact, UseFact,
   IUseFact, DefKinds, None

LEMMA StoreEntryFacts ==
  ASSUME NEW slot \in UseT, NEW entry \in CacheT
  PROVE  EntryFacts(StoreEvent(slot, EntryEvent(entry)))
           \subseteq EntryFacts(slot) \cup EntryFacts(entry)
BY EntryEventType, StoreEventFacts, EntryEventFact

-----------------------------------------------------------------------------
(***************************************************************************)
(* The commands of the trusted application, as steps: they keep its type,  *)
(* and put nothing into the trace that was not in R, in the buffer or in   *)
(* the event.                                                              *)
(***************************************************************************)
LEMMA FlushCommand ==
  ASSUME TA!TypeOK, NEW buf \in [Entries -> CacheT], NEW R,
         \A i \in Entries : EntryFacts(buf[i]) \subseteq R,
         \A s \in TA!Slots : EntryFacts(dynamic_trace[s]) \subseteq R,
         TA!FlushCache(buf)
  PROVE  /\ TA!TypeOK'
         /\ \A s \in TA!Slots : EntryFacts(dynamic_trace'[s]) \subseteq R
<1> DEFINE n == TA!FlushCount(buf)
<1>1. CacheSize \in Nat /\ n \in 0 .. CacheSize
  BY CacheAssumption, FlushCountIsPrefix
<1>2. ASSUME NEW s \in TA!Slots
      PROVE  /\ TA!FlushedSlot(buf, s) \in UseT
             /\ EntryFacts(TA!FlushedSlot(buf, s)) \subseteq R
  <2> DEFINE k == (s - trace_id) % TraceSize
  <2>1. dynamic_trace[s] \in UseT /\ EntryFacts(dynamic_trace[s]) \subseteq R
    BY SameLayout DEF TA!TypeOK
  <2>2. CASE k \in 0 .. n - 1
    <3>1. TA!FlushedSlot(buf, s) = StoreEvent(dynamic_trace[s], EntryEvent(buf[k]))
      BY <2>2, SameEvents DEF TA!FlushedSlot
    <3>2. buf[k] \in CacheT /\ EntryFacts(buf[k]) \subseteq R
      <4> HIDE DEF k
      <4> QED BY <1>1, <2>2 DEF Entries
    <3> QED BY <2>1, <3>1, <3>2, EntryEventType, StoreEventType, StoreEntryFacts
  <2>3. CASE k \notin 0 .. n - 1
    BY <2>1, <2>3 DEF TA!FlushedSlot
  <2> QED BY <2>2, <2>3
<1>3. dynamic_trace' = [s \in TA!Slots |-> TA!FlushedSlot(buf, s)]
  BY DEF TA!FlushCache
<1>4. trace_id' \in Nat
  BY <1>1 DEF TA!FlushCache, TA!TypeOK
<1>5. func_ctr' \in [TA!Commands -> Nat]
  BY DEF TA!FlushCache, TA!TypeOK, TA!Commands
<1>6. log' \in Seq(TA!Event)
  <2> DEFINE new == [k \in 1 .. n |-> TA!EntryEvent(buf[k - 1])]
  <2>1. \A k \in 1 .. n : buf[k - 1] \in CacheT
    BY <1>1 DEF Entries
  <2>2. new \in [1 .. n -> Event]
    BY <2>1, SameEvents, EntryEventType
  <2> HIDE DEF new
  <2>3. new \in Seq(Event)
    BY <1>1, <2>2
  <2>4. log' = log \o new
    BY DEF TA!FlushCache, new
  <2> QED BY <2>3, <2>4, SameLayout DEF TA!TypeOK
<1>7. dynamic_trace' \in [TA!Slots -> TA!UseT]
  BY <1>2, <1>3, SameLayout
<1> QED BY <1>2, <1>3, <1>4, <1>5, <1>6, <1>7 DEF TA!TypeOK

LEMMA EventCommand ==
  ASSUME TA!TypeOK, NEW e \in Event, NEW R, EventFact(e) \in R,
         \A s \in TA!Slots : EntryFacts(dynamic_trace[s]) \subseteq R,
         TA!Command(e)
  PROVE  /\ TA!TypeOK'
         /\ \A s \in TA!Slots : EntryFacts(dynamic_trace'[s]) \subseteq R
<1> DEFINE at == trace_id % TraceSize
<1>1. ASSUME NEW s \in TA!Slots
      PROVE  /\ StoreEvent(dynamic_trace[s], e) \in UseT
             /\ EntryFacts(StoreEvent(dynamic_trace[s], e)) \subseteq R
  <2>1. dynamic_trace[s] \in UseT
    BY SameLayout DEF TA!TypeOK
  <2> QED BY <2>1, StoreEventType, StoreEventFacts
<1>2. dynamic_trace' = [dynamic_trace EXCEPT ![at] = StoreEvent(dynamic_trace[at], e)]
  BY SameEvents DEF TA!Command
<1> HIDE DEF at
<1>3. dynamic_trace' \in [TA!Slots -> UseT]
  BY <1>1, <1>2, SameLayout DEF TA!TypeOK
<1>4. \A s \in TA!Slots : EntryFacts(dynamic_trace'[s]) \subseteq R
  BY <1>1, <1>2 DEF TA!TypeOK
<1>5. trace_id' \in Nat /\ func_ctr' \in [TA!Commands -> Nat]
  BY DEF TA!Command, TA!TypeOK
<1>6. log' \in Seq(TA!Event)
  BY SameLayout DEF TA!Command, TA!TypeOK
<1> QED BY <1>3, <1>4, <1>5, <1>6, SameLayout DEF TA!TypeOK

-----------------------------------------------------------------------------
(***************************************************************************)
(* What zexit and a full cache have in common: the flush of a buffer that  *)
(* satisfies the invariant, against a set R of facts.                      *)
(***************************************************************************)
LEMMA BufferFlush ==
  ASSUME TypeOK, NEW buf \in [Entries -> CacheT], NEW R,
         \A i \in Entries : i > FlushIndex + 1 => buf[i] = ZeroEntry,
         \A i \in Entries : EntryFacts(buf[i]) \subseteq R,
         \A s \in TA!Slots : EntryFacts(dynamic_trace[s]) \subseteq R,
         FlushCache(buf)
  PROVE  /\ TA!TypeOK'
         /\ cache' \in [Entries -> CacheT]
         /\ cache_last_index' = -1
         /\ gen' \in Seq(Event)
         /\ UnreachedEntriesEmpty'
         /\ LiveEntriesEmit'
         /\ \A i \in Entries : EntryFacts(cache'[i]) \subseteq R
         /\ \A s \in TA!Slots : EntryFacts(dynamic_trace'[s]) \subseteq R
<1>1. /\ TA!TypeOK'
      /\ \A s \in TA!Slots : EntryFacts(dynamic_trace'[s]) \subseteq R
  <2>1. CASE TA!FlushCache(buf)
    BY <2>1, FlushCommand DEF TypeOK
  <2>2. CASE UNCHANGED taVars
    BY <2>2 DEF TypeOK, TA!TypeOK, taVars
  <2> QED BY <2>1, <2>2 DEF FlushCache, Invoke
<1>2. ZeroEntry \in CacheT /\ EntryFacts(ZeroEntry) = {}
  BY DEF ZeroEntry, CacheT, UseT, EntryFacts, DefFact, UseFact, IUseFact, None, Static
<1>3. cache' = [i \in Entries |-> IF i < Cleared THEN ZeroEntry ELSE buf[i]]
  BY DEF FlushCache, ClearPrefix
<1>4. cache' \in [Entries -> CacheT]
  BY <1>2, <1>3
<1>5. \A i \in Entries : EntryFacts(cache'[i]) \subseteq R
  BY <1>2, <1>3
<1>6. cache_last_index' = -1 /\ gen' = << >>
  BY DEF FlushCache
<1>7. UnreachedEntriesEmpty'
  BY <1>3 DEF UnreachedEntriesEmpty
<1>8. LiveEntriesEmit'
  BY <1>6 DEF LiveEntriesEmit, Live
<1> QED BY <1>1, <1>4, <1>5, <1>6, <1>7, <1>8

(***************************************************************************)
(* What an update of one entry, in place or of the next one, does.         *)
(***************************************************************************)
LEMMA EntryUpdate ==
  ASSUME IInv, NEW c \in Call, NEW i \in Entries, i <= FlushIndex + 1, NEW buf,
         buf = [cache EXCEPT ![i] = UpdateEntry(cache[i], c)]
  PROVE  /\ buf \in [Entries -> CacheT]
         /\ TA!Emits(buf[i])
         /\ \A j \in Entries : j > FlushIndex + 1 => buf[j] = ZeroEntry
         /\ \A j \in Entries : j # i => buf[j] = cache[j]
         /\ \A j \in Entries : EntryFacts(buf[j]) \subseteq recorded \cup {CallFact(c)}
<1>1. cache \in [Entries -> CacheT] /\ FlushIndex \in Nat /\ CacheSize \in Nat
  BY CacheAssumption DEF IInv, TypeOK
<1>2. UpdateEntry(cache[i], c) \in CacheT /\ TA!Emits(UpdateEntry(cache[i], c))
  BY <1>1, UpdateEntryType, UpdateEntryEmits
<1>3. EntryFacts(UpdateEntry(cache[i], c)) \subseteq recorded \cup {CallFact(c)}
  BY <1>1, UpdateEntryFacts DEF IInv, OnlyReportedFacts
<1>4. \A j \in Entries : j # i => buf[j] = cache[j]
  BY <1>1
<1>5. buf[i] = UpdateEntry(cache[i], c)
  BY <1>1
<1>6. \A j \in Entries : j > FlushIndex + 1 => buf[j] = ZeroEntry
  BY <1>1, <1>4 DEF IInv, UnreachedEntriesEmpty, Entries
<1>7. buf \in [Entries -> CacheT]
  BY <1>1, <1>2
<1>8. \A j \in Entries : EntryFacts(buf[j]) \subseteq recorded \cup {CallFact(c)}
  BY <1>3, <1>4, <1>5 DEF IInv, OnlyReportedFacts
<1> QED BY <1>2, <1>4, <1>5, <1>6, <1>7, <1>8

(***************************************************************************)
(* The history of a generation stays a sequence of events.                 *)
(***************************************************************************)
LEMMA RememberType ==
  ASSUME TypeOK, NEW c \in Call
  PROVE  Remember(c) \in Seq(Event)
<1>1. gen \in Seq(Event) /\ CallEvent(c) \in Event
  BY CallEventType DEF TypeOK
<1>2. ASSUME NEW k PROVE [gen EXCEPT ![k] = CallEvent(c)] \in Seq(Event)
  <2>1. Len(gen) \in Nat /\ gen \in [1 .. Len(gen) -> Event]
    BY <1>1
  <2> DEFINE new == [gen EXCEPT ![k] = CallEvent(c)]
  <2>2. new \in [1 .. Len(gen) -> Event]
    BY <1>1, <2>1
  <2> HIDE DEF new
  <2>3. new \in Seq(Event)
    BY <2>1, <2>2
  <2> QED BY <2>3 DEF new
<1>3. Append(gen, CallEvent(c)) \in Seq(Event)
  BY <1>1
<1> QED BY <1>2, <1>3, Zenon DEF Remember

(***************************************************************************)
(* The parts of TypeOK every call of the program takes care of.            *)
(***************************************************************************)
LEMMA CallMadeType ==
  ASSUME TypeOK, NEW c \in Call, CallMade(c)
  PROVE  /\ main' \in MainState /\ total' \in [TA!Commands -> Nat]
         /\ calls' \in Nat /\ recorded' \subseteq Fact
         /\ recorded' = recorded \cup {CallFact(c)}
BY CallFactType DEF CallMade, TypeOK

-----------------------------------------------------------------------------
(***************************************************************************)
(* IInv is inductive: the initial states, then one step per action.        *)
(***************************************************************************)
LEMMA InitIInv == Init => IInv
<1> SUFFICES ASSUME Init PROVE IInv
  OBVIOUS
<1>1. ZeroEntry \in CacheT /\ ZeroEntry \in UseT /\ EntryFacts(ZeroEntry) = {}
  BY DEF ZeroEntry, CacheT, UseT, EntryFacts, DefFact, UseFact, IUseFact, None, Static
<1>2. TA!TypeOK
  BY <1>1, SameLayout DEF Init, TA!Init, TA!TypeOK
<1>3. cache \in [Entries -> CacheT] /\ UnreachedEntriesEmpty
  BY <1>1 DEF Init, ZeroCache, UnreachedEntriesEmpty
<1>4. OnlyReportedFacts
  BY <1>1, SameLayout DEF Init, ZeroCache, TA!Init, OnlyReportedFacts
<1>5. LiveEntriesEmit
  BY DEF Init, LiveEntriesEmit, Live
<1>6. TypeOK
  BY <1>2, <1>3, CacheAssumption DEF Init, TypeOK, MainState
<1> QED BY <1>3, <1>4, <1>5, <1>6 DEF IInv, Init

\* zinit rewinds the trace, and empties the cache, which holds nothing yet.
LEMMA StepZinit == IInv /\ zinit => IInv'
<1> SUFFICES ASSUME IInv, zinit PROVE IInv'
  OBVIOUS
<1>1. ZeroEntry \in CacheT /\ EntryFacts(ZeroEntry) = {}
  BY DEF ZeroEntry, CacheT, UseT, EntryFacts, DefFact, UseFact, IUseFact, None, Static
<1>2. TA!TypeOK'
  BY DEF IInv, TypeOK, zinit, TA!OpenSession, TA!TypeOK
<1>3. TypeOK'
  BY <1>1, <1>2 DEF IInv, TypeOK, zinit, ZeroCache, MainState
<1>4. UnreachedEntriesEmpty'
  BY DEF zinit, ZeroCache, UnreachedEntriesEmpty
<1>5. OnlyReportedFacts'
  BY <1>1 DEF IInv, OnlyReportedFacts, zinit, ZeroCache, TA!OpenSession
<1>6. LiveEntriesEmit'
  BY DEF IInv, zinit, LiveEntriesEmit, Live
<1> QED BY <1>3, <1>4, <1>5, <1>6 DEF IInv, zinit

\* A call that finds its identifier updates that entry in place.
LEMMA StepCollectAgain ==
  ASSUME IInv, NEW c \in Calls, CollectAgain(c)
  PROVE  IInv'
<1> DEFINE i == Min(Matches(c))
<1>1. c \in Call /\ TypeOK /\ CacheSize \in Nat /\ FlushIndex \in Nat
  BY CacheAssumption DEF IInv
<1>2. i \in Live
  <2>1. Matches(c) \in SUBSET Nat /\ Matches(c) # {}
    BY <1>1 DEF Matches, Live, TypeOK, CollectAgain
  <2>2. PICK m \in Matches(c) : \A k \in Matches(c) : m <= k
    BY <2>1, LeastNat
  <2>3. i \in Matches(c)
    BY <2>2 DEF Min
  <2> QED BY <2>3 DEF Matches
<1>3. i \in Entries /\ i <= FlushIndex + 1
  BY <1>1, <1>2, CacheAssumption DEF Live, Entries, TypeOK
<1>4. cache' = [cache EXCEPT ![i] = UpdateEntry(cache[i], c)]
  BY DEF CollectAgain
<1> HIDE DEF i
<1>5. /\ cache' \in [Entries -> CacheT]
      /\ TA!Emits(cache'[i])
      /\ \A j \in Entries : j > FlushIndex + 1 => cache'[j] = ZeroEntry
      /\ \A j \in Entries : j # i => cache'[j] = cache[j]
      /\ \A j \in Entries : EntryFacts(cache'[j]) \subseteq recorded \cup {CallFact(c)}
  BY <1>1, <1>3, <1>4, EntryUpdate
<1>6. CallMade(c) /\ UNCHANGED <<taVars, cache_last_index>> /\ gen' = Remember(c)
  BY DEF CollectAgain
<1>7. TA!TypeOK'
  BY <1>1, <1>6 DEF TypeOK, TA!TypeOK, taVars
<1>8. TypeOK'
  BY <1>1, <1>5, <1>6, <1>7, CallMadeType, RememberType DEF TypeOK
<1>9. OnlyReportedFacts'
  BY <1>1, <1>5, <1>6, CallMadeType DEF IInv, OnlyReportedFacts, taVars
<1>10. LiveEntriesEmit'
  <2>1. cache_last_index' = cache_last_index /\ Live \subseteq Entries
    BY <1>1, <1>6, CacheAssumption DEF TypeOK, Live, Entries
  <2> QED BY <1>5, <2>1 DEF IInv, LiveEntriesEmit, Live
<1> QED BY <1>5, <1>6, <1>8, <1>9, <1>10 DEF IInv, UnreachedEntriesEmpty, CallMade

\* The entry after the last one, for the two actions that write it.
LEMMA NextEntry ==
  ASSUME IInv, NEW c \in Calls
  PROVE  /\ cache_last_index + 1 \in Entries
         /\ CacheWith(c) \in [Entries -> CacheT]
         /\ TA!Emits(CacheWith(c)[cache_last_index + 1])
         /\ \A j \in Entries : j > FlushIndex + 1 => CacheWith(c)[j] = ZeroEntry
         /\ \A j \in Entries :
              j # cache_last_index + 1 => CacheWith(c)[j] = cache[j]
         /\ \A j \in Entries :
              EntryFacts(CacheWith(c)[j]) \subseteq recorded \cup {CallFact(c)}
<1>1. c \in Call /\ CacheSize \in Nat /\ FlushIndex \in Nat
  BY CacheAssumption
<1>2. cache_last_index + 1 \in Entries /\ cache_last_index + 1 <= FlushIndex + 1
  BY CacheAssumption DEF IInv, TypeOK, Entries
<1>3. CacheWith(c) = [cache EXCEPT ![cache_last_index + 1] =
                        UpdateEntry(cache[cache_last_index + 1], c)]
  BY DEF CacheWith
<1> QED BY <1>1, <1>2, <1>3, EntryUpdate

\* A call with a new identifier appends an entry.
LEMMA StepCollectNew ==
  ASSUME IInv, NEW c \in Calls, CollectNew(c)
  PROVE  IInv'
<1>1. c \in Call /\ TypeOK /\ CacheSize \in Nat /\ FlushIndex \in Nat
  BY CacheAssumption DEF IInv
<1>2. /\ CallMade(c) /\ UNCHANGED taVars /\ gen' = Remember(c)
      /\ cache' = CacheWith(c)
      /\ cache_last_index' = cache_last_index + 1
      /\ cache_last_index + 1 <= FlushIndex
  BY DEF CollectNew
<1>3. TA!TypeOK'
  BY <1>1, <1>2 DEF TypeOK, TA!TypeOK, taVars
<1>4. TypeOK'
  <2>1. cache_last_index' \in -1 .. FlushIndex
    BY <1>1, <1>2 DEF TypeOK
  <2> QED BY <1>1, <1>2, <1>3, <2>1, CallMadeType, RememberType, NextEntry DEF TypeOK
<1>5. OnlyReportedFacts'
  BY <1>1, <1>2, CallMadeType, NextEntry DEF IInv, OnlyReportedFacts, taVars
<1>6. LiveEntriesEmit'
  <2> SUFFICES ASSUME NEW j \in Live' PROVE TA!Emits(cache'[j])
    BY DEF LiveEntriesEmit
  <2>1. j \in Entries /\ (j \in Live \/ j = cache_last_index + 1)
    BY <1>1, <1>2, CacheAssumption DEF Live, Entries, TypeOK
  <2> QED BY <1>2, <2>1, NextEntry DEF IInv, LiveEntriesEmit, Live
<1> QED BY <1>2, <1>4, <1>5, <1>6, NextEntry DEF IInv, UnreachedEntriesEmpty, CallMade

\* A call that fills the cache appends its entry and flushes.
LEMMA StepCollectLast ==
  ASSUME IInv, NEW c \in Calls, CollectLast(c)
  PROVE  IInv'
<1> DEFINE R == recorded \cup {CallFact(c)}
<1>1. c \in Call /\ TypeOK /\ -1 \in -1 .. FlushIndex
  BY CacheAssumption DEF IInv
<1>2. CallMade(c) /\ FlushCache(CacheWith(c))
  BY DEF CollectLast
<1>3. \A s \in TA!Slots : EntryFacts(dynamic_trace[s]) \subseteq R
  BY DEF IInv, OnlyReportedFacts
<1>4. /\ TA!TypeOK'
      /\ cache' \in [Entries -> CacheT]
      /\ cache_last_index' = -1
      /\ gen' \in Seq(Event)
      /\ UnreachedEntriesEmpty'
      /\ LiveEntriesEmit'
      /\ \A i \in Entries : EntryFacts(cache'[i]) \subseteq R
      /\ \A s \in TA!Slots : EntryFacts(dynamic_trace'[s]) \subseteq R
  <2> HIDE DEF R
  <2>1. \A i \in Entries : EntryFacts(CacheWith(c)[i]) \subseteq R
    BY NextEntry DEF R
  <2>2. /\ CacheWith(c) \in [Entries -> CacheT]
        /\ \A i \in Entries : i > FlushIndex + 1 => CacheWith(c)[i] = ZeroEntry
    BY NextEntry
  <2> QED BY <1>1, <1>2, <1>3, <2>1, <2>2, BufferFlush
<1>5. TypeOK'
  BY <1>1, <1>2, <1>4, CallMadeType DEF TypeOK
<1>6. OnlyReportedFacts'
  BY <1>1, <1>2, <1>4, CallMadeType DEF OnlyReportedFacts
<1> QED BY <1>2, <1>4, <1>5, <1>6 DEF IInv, CallMade

\* Without the cache a call is one command, which may also fail.
LEMMA StepSend ==
  ASSUME IInv, NEW c \in Calls, Send(c)
  PROVE  IInv'
<1> DEFINE R == recorded \cup {CallFact(c)}
<1>1. c \in Call /\ TypeOK /\ SentEvent(c) \in Event /\ EventFact(SentEvent(c)) \in R
  BY CacheAssumption, CallEventType, EventOfCall DEF IInv
<1>2. CallMade(c) /\ UNCHANGED <<cache, cache_last_index, gen>>
  BY DEF Send
<1>3. \A s \in TA!Slots : EntryFacts(dynamic_trace[s]) \subseteq R
  BY DEF IInv, OnlyReportedFacts
<1>4. TA!TypeOK' /\ \A s \in TA!Slots : EntryFacts(dynamic_trace'[s]) \subseteq R
  <2>1. CASE TA!Command(SentEvent(c))
    <3> HIDE DEF R
    <3> QED BY <1>1, <1>3, <2>1, EventCommand DEF TypeOK
  <2>2. CASE UNCHANGED taVars
    BY <1>1, <1>3, <2>2 DEF TypeOK, TA!TypeOK, taVars
  <2> QED BY <2>1, <2>2 DEF Send, Invoke
<1>5. TypeOK'
  BY <1>1, <1>2, <1>4, CallMadeType DEF TypeOK
<1>6. OnlyReportedFacts'
  BY <1>1, <1>2, <1>4, CallMadeType DEF IInv, OnlyReportedFacts
<1> QED BY <1>2, <1>5, <1>6
        DEF IInv, CallMade, UnreachedEntriesEmpty, LiveEntriesEmit, Live

\* The return of main: a flush, and two commands that only read.
LEMMA StepZexit ==
  ASSUME IInv, zexit
  PROVE  IInv'
<1>1. TypeOK /\ -1 \in -1 .. FlushIndex
  BY CacheAssumption DEF IInv
<1>2. /\ TA!TypeOK'
      /\ cache' \in [Entries -> CacheT]
      /\ cache_last_index' = -1
      /\ gen' \in Seq(Event)
      /\ UnreachedEntriesEmpty'
      /\ LiveEntriesEmit'
      /\ \A i \in Entries : EntryFacts(cache'[i]) \subseteq recorded
      /\ \A s \in TA!Slots : EntryFacts(dynamic_trace'[s]) \subseteq recorded
  <2>1. /\ cache \in [Entries -> CacheT]
        /\ \A i \in Entries : i > FlushIndex + 1 => cache[i] = ZeroEntry
        /\ \A i \in Entries : EntryFacts(cache[i]) \subseteq recorded
        /\ \A s \in TA!Slots : EntryFacts(dynamic_trace[s]) \subseteq recorded
    BY <1>1 DEF IInv, TypeOK, UnreachedEntriesEmpty, OnlyReportedFacts
  <2>2. FlushCache(cache)
    BY DEF zexit
  <2> QED BY <1>1, <2>1, <2>2, BufferFlush
<1>3. total' \in [TA!Commands -> Nat]
  <2>1. func_ctr' \in [TA!Commands -> Nat]
    BY <1>2 DEF TA!TypeOK
  <2>2. \A n \in Nat : n % 65536 \in Nat
    OBVIOUS
  <2>3. [c \in TA!Commands |-> func_ctr'[c] % 65536] \in [TA!Commands -> Nat]
    BY <2>1, <2>2
  <2>4. total' = TA!FuncCtr' \/ total' = total
    BY DEF zexit
  <2> QED BY <1>1, <2>3, <2>4 DEF TypeOK, TA!FuncCtr
<1>4. TypeOK'
  BY <1>1, <1>2, <1>3 DEF TypeOK, zexit, MainState
<1>5. OnlyReportedFacts'
  BY <1>2 DEF zexit, OnlyReportedFacts
<1> QED BY <1>2, <1>4, <1>5 DEF IInv, zexit

\* The end of the process, and stuttering, change nothing the invariant reads.
LEMMA StepEnd ==
  ASSUME IInv, Exit \/ Die \/ UNCHANGED vars
  PROVE  IInv'
<1>1. UNCHANGED <<taVars, cache, cache_last_index, total, calls, recorded, gen>>
  BY DEF Exit, Die, vars, taVars, libVars
<1>2. main' \in MainState /\ (main' = "start" => main = "start")
  BY DEF Exit, Die, vars, libVars, MainState, IInv, TypeOK
<1>3. TypeOK'
  BY <1>1, <1>2 DEF IInv, TypeOK, TA!TypeOK, taVars
<1>4. OnlyReportedFacts'
  BY <1>1 DEF IInv, OnlyReportedFacts, taVars
<1> QED BY <1>1, <1>2, <1>3, <1>4
        DEF IInv, UnreachedEntriesEmpty, LiveEntriesEmit, Live

THEOREM Invariant == Spec => []IInv
<1>1. Init => IInv
  BY InitIInv
<1>2. IInv /\ [Next]_vars => IInv'
  BY StepZinit, StepCollectAgain, StepCollectNew, StepCollectLast, StepSend,
     StepZexit, StepEnd DEF Next
<1> QED BY <1>1, <1>2, PTL DEF Spec

-----------------------------------------------------------------------------
(***************************************************************************)
(* The three safety properties, each from the invariant alone.             *)
(***************************************************************************)
LEMMA BoundedBuffer ==
  ASSUME NEW buf, buf[CacheSize - 1] = ZeroEntry
  PROVE  TA!FlushCount(buf) < CacheSize
<1>1. CacheSize \in Nat /\ CacheSize - 1 \in 0 .. CacheSize - 1
  BY CacheAssumption
<1>2. ~TA!Emits(ZeroEntry)
  BY SameEvents DEF EntryKind, ZeroEntry, None
<1>3. TA!FlushCount(buf) \in 0 .. CacheSize
      /\ (TA!FlushCount(buf) = CacheSize => TA!Emits(buf[CacheSize - 1]))
  BY <1>1, FlushCountIsPrefix
<1> QED BY <1>1, <1>2, <1>3

(***************************************************************************)
(* The loop of zbouncer_flush_cache, which has no bound, never leaves the  *)
(* 128 entries it is given, for every size and every program: entries up   *)
(* to the threshold are written, and at least one lies above it.           *)
(***************************************************************************)
THEOREM FlushBound == Spec => []FlushStaysInBuffer
<1>1. IInv => FlushStaysInBuffer
  <2> SUFFICES ASSUME IInv PROVE FlushStaysInBuffer
    OBVIOUS
  <2>1. CacheSize - 1 \in Entries /\ CacheSize - 1 > FlushIndex + 1
    BY CacheAssumption DEF Entries
  <2>2. cache[CacheSize - 1] = ZeroEntry
    BY <2>1 DEF IInv, UnreachedEntriesEmpty
  <2>3. \A c \in Calls : CacheWith(c)[CacheSize - 1] = ZeroEntry
    BY <2>1, NextEntry
  <2> QED BY <2>2, <2>3, BoundedBuffer DEF FlushStaysInBuffer
<1> QED BY <1>1, Invariant, PTL

(***************************************************************************)
(* Nor does that loop stop before the last live entry: every call leaves   *)
(* an entry that it recognises, also in place of an older one.             *)
(***************************************************************************)
THEOREM FlushComplete == Spec => []FlushReachesLastEntry
<1>1. IInv => FlushReachesLastEntry
  <2> SUFFICES ASSUME IInv, TA!FlushCount(cache) <= cache_last_index PROVE FALSE
    <3>1. TA!FlushCount(cache) \in Int /\ (IInv => cache_last_index \in Int)
      BY CacheAssumption, FlushCountIsPrefix DEF IInv, TypeOK
    <3> QED BY <3>1 DEF FlushReachesLastEntry
  <2>1. /\ TA!FlushCount(cache) \in 0 .. CacheSize
        /\ cache_last_index \in -1 .. CacheSize - 1
    BY CacheAssumption, FlushCountIsPrefix DEF IInv, TypeOK
  <2>2. TA!FlushCount(cache) \in Live /\ TA!FlushCount(cache) # CacheSize
    BY <2>1, CacheAssumption DEF Live
  <2> QED BY <2>2, FlushCountIsPrefix DEF IInv, LiveEntriesEmit
<1> QED BY <1>1, Invariant, PTL

(***************************************************************************)
(* No entry of the cache or slot of the trace states anything the program  *)
(* did not report, whatever the order of the calls and the failures of     *)
(* TEEC_InvokeCommand.                                                     *)
(***************************************************************************)
THEOREM NothingInvented == Spec => []OnlyReportedFacts
<1>1. IInv => OnlyReportedFacts
  BY DEF IInv
<1> QED BY <1>1, Invariant, PTL

\* The variables of the library keep the types of Libzbouncer!TypeOK.
THEOREM TypeCorrect == Spec => []TypeOK
<1>1. IInv => TypeOK
  BY DEF IInv
<1> QED BY <1>1, Invariant, PTL

-----------------------------------------------------------------------------
(***************************************************************************)
(* Remainders by a size that is a parameter.                               *)
(***************************************************************************)
LEMMA Quotient ==
  ASSUME NEW n \in Nat, n > 0, NEW a \in Int
  PROVE  a % n \in 0 .. n - 1 /\ \E q \in Int : a = n * q + (a % n)
<1>1. a = n * (a \div n) + (a % n) /\ a \div n \in Int
  OBVIOUS
<1> QED BY <1>1

LEMMA SameRemainder ==
  ASSUME NEW n \in Nat, n > 0, NEW p \in Int, NEW q \in Int,
         NEW r \in 0 .. n - 1, NEW s \in 0 .. n - 1, n * p + r = n * q + s
  PROVE  p = q /\ r = s
<1>1. n * (p - q) = s - r
  OBVIOUS
<1>2. CASE p - q >= 1
  <2>1. n * (p - q) >= n
    BY <1>2
  <2> QED BY <1>1, <2>1
<1>3. CASE p - q <= -1
  <2>1. n * (p - q) <= -n
    BY <1>3
  <2> QED BY <1>1, <2>1
<1>4. CASE p = q
  BY <1>4
<1> QED BY <1>2, <1>3, <1>4

LEMMA Remainder ==
  ASSUME NEW n \in Nat, n > 0, NEW a \in Int, NEW q \in Int, NEW r \in 0 .. n - 1,
         a = n * q + r
  PROVE  (a % n) = r
<1>1. PICK p \in Int : a = n * p + (a % n)
  BY Quotient
<1>2. a % n \in 0 .. n - 1
  BY Quotient
<1>3. n * p + (a % n) = n * q + r
  BY <1>1
<1> QED BY <1>2, <1>3, SameRemainder

(***************************************************************************)
(* The k-th event stored from index i on goes to slot (i + k) % n, and to  *)
(* no other slot within one turn of the ring.                              *)
(***************************************************************************)
LEMMA SlotOfEvent ==
  ASSUME NEW n \in Nat, n > 0, NEW i \in Nat, NEW s \in 0 .. n - 1,
         NEW k \in 0 .. n - 1, (s - i) % n = k
  PROVE  (i + k) % n = s
<1> DEFINE a == s - i
           b == i + k
<1>1. PICK q \in Int : a = n * q + (a % n)
  <2>1. a \in Int
    OBVIOUS
  <2> HIDE DEF a
  <2> QED BY <2>1, Quotient
<1>2. b = n * (-q) + s /\ b \in Int /\ -q \in Int
  BY <1>1
<1>3. b % n = s
  <2> HIDE DEF a, b
  <2> QED BY <1>2, Remainder
<1> QED BY <1>3

LEMMA EventOfSlot ==
  ASSUME NEW n \in Nat, n > 0, NEW i \in Nat, NEW s \in 0 .. n - 1,
         NEW k \in 0 .. n - 1, (i + k) % n = s
  PROVE  (s - i) % n = k
<1> DEFINE a == i + k
           b == s - i
<1>1. PICK q \in Int : a = n * q + (a % n)
  <2>1. a \in Int
    OBVIOUS
  <2> HIDE DEF a
  <2> QED BY <2>1, Quotient
<1>2. b = n * (-q) + k /\ b \in Int /\ -q \in Int
  BY <1>1
<1>3. b % n = k
  <2> HIDE DEF a, b
  <2> QED BY <1>2, Remainder
<1> QED BY <1>3

\* A nonempty bounded set of numbers has a greatest element, which Max finds.
LEMMA GreatestNat ==
  ASSUME NEW n \in Nat, NEW S \in SUBSET (0 .. n), S # {}
  PROVE  Max(S) \in S /\ \A k \in S : Max(S) >= k
<1> DEFINE D == {n - k : k \in S}
<1>1. D \in SUBSET Nat /\ D # {}
  <2>1. PICK x \in S : TRUE
    OBVIOUS
  <2>2. \A k \in S : n - k \in Nat
    OBVIOUS
  <2>3. n - x \in D
    BY <2>1
  <2> QED BY <2>2, <2>3
<1>2. PICK m \in D : \A k \in D : m <= k
  BY <1>1, LeastNat
<1>3. PICK x \in S : m = n - x
  BY <1>2
<1>4. \A k \in S : x >= k
  BY <1>2, <1>3
<1> QED BY <1>4 DEF Max

-----------------------------------------------------------------------------
(***************************************************************************)
(* The lines printed for a slot, as a set.                                 *)
(***************************************************************************)
LEMMA ConcatRange ==
  ASSUME NEW T, NEW s \in Seq(T), NEW t \in Seq(T)
  PROVE  Range(s \o t) = Range(s) \cup Range(t)
<1>1. ASSUME NEW x \in Range(s \o t) PROVE x \in Range(s) \cup Range(t)
  BY DEF Range
<1>2. ASSUME NEW x \in Range(s) PROVE x \in Range(s \o t)
  <2>1. PICK i \in 1 .. Len(s) : x = s[i]
    BY DEF Range
  <2>2. i \in 1 .. Len(s \o t) /\ (s \o t)[i] = x
    BY <2>1
  <2> QED BY <2>2 DEF Range
<1>3. ASSUME NEW x \in Range(t) PROVE x \in Range(s \o t)
  <2>1. PICK i \in 1 .. Len(t) : x = t[i]
    BY DEF Range
  <2>2. Len(s) + i \in 1 .. Len(s \o t) /\ (s \o t)[Len(s) + i] = x
    BY <2>1
  <2> QED BY <2>2 DEF Range
<1> QED BY <1>1, <1>2, <1>3

LEMMA LineIfRange ==
  ASSUME NEW b \in BOOLEAN, NEW T, NEW e \in T
  PROVE  /\ LineIf(b, e) \in Seq(T)
         /\ Range(LineIf(b, e)) = IF b THEN {e} ELSE {}
BY DEF LineIf, Range

LEMMA PrintedLinesRange ==
  ASSUME NEW slot \in UseT
  PROVE  /\ PrintedLines(slot) \in Seq(Event)
         /\ \A e : e \in Range(PrintedLines(slot)) <=>
              \/ /\ slot.def.id # None /\ slot.def.size = Static
                 /\ e = MakeEvent("DEF", slot.def.id, slot.def.addr, 0)
              \/ /\ slot.def.id # None /\ slot.def.size # Static
                 /\ e = MakeEvent("DDEF", slot.def.id, slot.def.addr, slot.def.size)
              \/ /\ slot.use.id # None
                 /\ e = MakeEvent("USE", slot.use.id, slot.use.addr, 0)
              \/ /\ slot.iuse.of # None
                 /\ e = MakeEvent("IUSE", slot.iuse.id, slot.iuse.addr, slot.iuse.of)
<1> DEFINE b1 == slot.def.id # None /\ slot.def.size = Static
           b2 == slot.def.id # None /\ slot.def.size # Static
           b3 == slot.use.id # None
           b4 == slot.iuse.of # None
           e1 == MakeEvent("DEF", slot.def.id, slot.def.addr, 0)
           e2 == MakeEvent("DDEF", slot.def.id, slot.def.addr, slot.def.size)
           e3 == MakeEvent("USE", slot.use.id, slot.use.addr, 0)
           e4 == MakeEvent("IUSE", slot.iuse.id, slot.iuse.addr, slot.iuse.of)
<1>1. e1 \in Event /\ (b2 => e2 \in Event) /\ e3 \in Event /\ e4 \in Event
  BY DEF MakeEvent, Event, EventKind, UseT, Static
<1>2. PrintedLines(slot) = LineIf(b1, e1) \o LineIf(b2, e2) \o LineIf(b3, e3) \o LineIf(b4, e4)
  BY DEF PrintedLines
<1>3. b1 \in BOOLEAN /\ b2 \in BOOLEAN /\ b3 \in BOOLEAN /\ b4 \in BOOLEAN
  OBVIOUS
<1> HIDE DEF b1, b2, b3, b4, e1, e2, e3, e4
<1>4. /\ LineIf(b1, e1) \in Seq(Event)
      /\ Range(LineIf(b1, e1)) = IF b1 THEN {e1} ELSE {}
  BY <1>1, <1>3, LineIfRange
<1>5. /\ LineIf(b2, e2) \in Seq(Event)
      /\ Range(LineIf(b2, e2)) = IF b2 THEN {e2} ELSE {}
  <2>1. CASE b2
    BY <1>1, <1>3, <2>1, LineIfRange
  <2>2. CASE ~b2
    BY <2>2 DEF LineIf, Range
  <2> QED BY <2>1, <2>2
<1>6. /\ LineIf(b3, e3) \in Seq(Event)
      /\ Range(LineIf(b3, e3)) = IF b3 THEN {e3} ELSE {}
  BY <1>1, <1>3, LineIfRange
<1>7. /\ LineIf(b4, e4) \in Seq(Event)
      /\ Range(LineIf(b4, e4)) = IF b4 THEN {e4} ELSE {}
  BY <1>1, <1>3, LineIfRange
<1> DEFINE s1 == LineIf(b1, e1)
           s2 == LineIf(b2, e2)
           s3 == LineIf(b3, e3)
           s4 == LineIf(b4, e4)
           s12 == s1 \o s2
           s123 == s12 \o s3
<1>8. s12 \in Seq(Event) /\ Range(s12) = Range(s1) \cup Range(s2)
  <2> HIDE DEF s1, s2
  <2> QED BY <1>4, <1>5, ConcatRange DEF s1, s2
<1>9. s123 \in Seq(Event) /\ Range(s123) = Range(s12) \cup Range(s3)
  <2> HIDE DEF s12, s3
  <2> QED BY <1>6, <1>8, ConcatRange DEF s3
<1>10. s123 \o s4 \in Seq(Event) /\ Range(s123 \o s4) = Range(s123) \cup Range(s4)
  <2> HIDE DEF s123, s4
  <2> QED BY <1>7, <1>9, ConcatRange DEF s4
<1>11. PrintedLines(slot) = s123 \o s4
  BY <1>2
<1>12. \A e : e \in Range(PrintedLines(slot)) <=>
         (b1 /\ e = e1) \/ (b2 /\ e = e2) \/ (b3 /\ e = e3) \/ (b4 /\ e = e4)
  <2> HIDE DEF s12, s123
  <2> QED BY <1>4, <1>5, <1>6, <1>7, <1>8, <1>9, <1>10, <1>11
<1> QED BY <1>10, <1>11, <1>12 DEF b1, b2, b3, b4, e1, e2, e3, e4

(***************************************************************************)
(* The events that reach the trace: they have a name, and only a DDEF and  *)
(* an IUSE have more than that and an address.                             *)
(***************************************************************************)
Proper(e) == /\ e \in Event /\ e.id # None
             /\ e.kind \in {"DEF", "USE"} => e.aux = 0

LEMMA StoreLines ==
  ASSUME NEW slot \in UseT, NEW e, Proper(e)
  PROVE  /\ Range(PrintedLines(StoreEvent(slot, e))) \subseteq Range(PrintedLines(slot)) \cup {e}
         /\ (e.kind = "IUSE" => e.aux # None) => e \in Range(PrintedLines(StoreEvent(slot, e)))
<1> DEFINE new == StoreEvent(slot, e)
<1>1. e \in Event /\ e.id # None /\ (e.kind \in {"DEF", "USE"} => e.aux = 0)
      /\ e = MakeEvent(e.kind, e.id, e.addr, e.aux)
  BY DEF Proper, Event, MakeEvent
<1>2. new \in UseT
  BY <1>1, StoreEventType
<1>3. CASE e.kind = "DEF"
  <2>1. /\ new.def.id = e.id /\ new.def.addr = e.addr /\ new.def.size = Static
        /\ new.use = slot.use /\ new.iuse = slot.iuse
    BY <1>3 DEF StoreEvent, SetDef, DefKinds
  <2> HIDE DEF new
  <2> QED BY <1>1, <1>2, <1>3, <2>1, PrintedLinesRange DEF new
<1>4. CASE e.kind = "DDEF"
  <2>1. /\ new.def.id = e.id /\ new.def.addr = e.addr /\ new.def.size = e.aux
        /\ new.use = slot.use /\ new.iuse = slot.iuse /\ e.aux # Static
    BY <1>1, <1>4 DEF StoreEvent, SetDef, DefKinds, Event, Static
  <2> HIDE DEF new
  <2> QED BY <1>1, <1>2, <1>4, <2>1, PrintedLinesRange DEF new
<1>5. CASE e.kind = "USE"
  <2>1. /\ new.use.id = e.id /\ new.use.addr = e.addr
        /\ new.def = slot.def /\ new.iuse = slot.iuse
    BY <1>5 DEF StoreEvent, SetUse, DefKinds
  <2> HIDE DEF new
  <2> QED BY <1>1, <1>2, <1>5, <2>1, PrintedLinesRange DEF new
<1>6. CASE e.kind = "IUSE"
  <2>1. /\ new.iuse.id = e.id /\ new.iuse.addr = e.addr /\ new.iuse.of = e.aux
        /\ new.def = slot.def /\ new.use = slot.use
    BY <1>6 DEF StoreEvent, SetIUse, DefKinds
  <2> HIDE DEF new
  <2> QED BY <1>1, <1>2, <1>6, <2>1, PrintedLinesRange DEF new
<1> QED BY <1>1, <1>3, <1>4, <1>5, <1>6 DEF Event, EventKind

LEMMA EntryEventProper ==
  ASSUME NEW entry \in CacheT, entry.def.size # 0 => entry.def.id # None, TA!Emits(entry)
  PROVE  Proper(EntryEvent(entry))
BY EntryEventType, SameEvents DEF Proper, EntryEvent, EntryKind, MakeEvent

LEMMA SentEventProper ==
  ASSUME NEW c \in Call
  PROVE  Proper(SentEvent(c))
BY CallEventType DEF Proper, SentEvent, CallEvent, MakeEvent, Call, None

-----------------------------------------------------------------------------
(***************************************************************************)
(* Storing n events, not more than the ring has slots, from the current    *)
(* index on: one event of the loop of zbouncer_flush_cache per slot.       *)
(***************************************************************************)
Stored(n, new) ==
  /\ log' = log \o new
  /\ trace_id' = trace_id + n
  /\ dynamic_trace' =
       [s \in TA!Slots |->
          IF (s - trace_id) % TraceSize < n
          THEN StoreEvent(dynamic_trace[s], new[((s - trace_id) % TraceSize) + 1])
          ELSE dynamic_trace[s]]

LEMMA RingAppend ==
  ASSUME TA!TypeOK, RingHoldsLog, NEW n \in 0 .. TraceSize, NEW new \in [1 .. n -> Event],
         \A k \in 1 .. n : Proper(new[k]), Stored(n, new)
  PROVE  RingHoldsLog'
<1>1. /\ TraceSize \in Nat /\ TraceSize > 0 /\ n \in Nat /\ n <= TraceSize
      /\ trace_id \in Nat /\ log \in Seq(Event) /\ Len(log) = trace_id
      /\ dynamic_trace \in [TA!Slots -> UseT]
  BY CacheAssumption, SameLayout DEF TA!TypeOK, RingHoldsLog
<1>2. new \in Seq(Event) /\ Len(new) = n
  BY <1>1
<1>3. /\ Len(log') = trace_id' /\ trace_id' = trace_id + n
      /\ \A k \in 1 .. trace_id : log'[k] = log[k]
      /\ \A k \in 1 .. n : log'[trace_id + k] = new[k]
  <2>1. log' = log \o new /\ trace_id' = trace_id + n
    BY DEF Stored
  <2>2. Len(log \o new) = trace_id + n
    BY <1>1, <1>2
  <2>3. \A k \in 1 .. trace_id : (log \o new)[k] = log[k]
    BY <1>1, <1>2
  <2>4. \A k \in 1 .. n : (log \o new)[trace_id + k] = new[k]
    BY <1>1, <1>2
  <2> QED BY <2>1, <2>2, <2>3, <2>4
<1>4. ASSUME NEW s \in TA!Slots
      PROVE  LET lines == Range(PrintedLines(dynamic_trace'[s])) IN
             /\ s < trace_id' =>
                  LET e == log'[Newest(s)'] IN
                  (e.kind = "IUSE" => e.aux # None) => e \in lines
             /\ \A e \in lines :
                  \E k \in 1 .. Len(log') : log'[k] = e /\ (k - 1) % TraceSize = s
  <2> DEFINE k == (s - trace_id) % TraceSize
             lines == Range(PrintedLines(dynamic_trace[s]))
             lines1 == Range(PrintedLines(dynamic_trace'[s]))
             turns == {j \in 1 .. Len(log) : (j - 1) % TraceSize = s}
             turns1 == {j \in 1 .. Len(log') : (j - 1) % TraceSize = s}
  <2>1. s \in 0 .. TraceSize - 1 /\ s \in Int
    BY <1>1 DEF TA!Slots
  <2>2. k \in 0 .. TraceSize - 1
    <3> DEFINE a == s - trace_id
    <3>1. a \in Int
      BY <1>1, <2>1
    <3> HIDE DEF a
    <3>2. a % TraceSize \in 0 .. TraceSize - 1
      BY <1>1, <3>1, Quotient
    <3> QED BY <3>2 DEF a
  <2>3. \A m \in 0 .. TraceSize - 1 : (trace_id + m) % TraceSize = s <=> m = k
    <3> SUFFICES ASSUME NEW m \in 0 .. TraceSize - 1
                 PROVE  (trace_id + m) % TraceSize = s <=> (s - trace_id) % TraceSize = m
      OBVIOUS
    <3>1. TraceSize \in Nat /\ TraceSize > 0 /\ trace_id \in Nat /\ s \in 0 .. TraceSize - 1
      BY <1>1, <2>1
    <3>2. ASSUME (trace_id + m) % TraceSize = s PROVE (s - trace_id) % TraceSize = m
      BY <3>1, <3>2, EventOfSlot, Zenon
    <3>3. ASSUME (s - trace_id) % TraceSize = m PROVE (trace_id + m) % TraceSize = s
      BY <3>1, <3>3, SlotOfEvent, Zenon
    <3> QED BY <3>2, <3>3
  <2>4. dynamic_trace[s] \in UseT
    BY <1>1
  <2>5. Newest(s) = Max(turns) /\ Newest(s)' = Max(turns1)
    BY DEF Newest
  <2>6. \A e \in lines : \E j \in 1 .. Len(log) : log[j] = e /\ (j - 1) % TraceSize = s
    BY DEF RingHoldsLog
  <2>7. dynamic_trace'[s] = IF k < n THEN StoreEvent(dynamic_trace[s], new[k + 1])
                                     ELSE dynamic_trace[s]
    BY DEF Stored
  <2>8. \A j \in turns1 : j \in turns \/ (j = trace_id + k + 1 /\ k < n)
    <3> SUFFICES ASSUME NEW j \in turns1, j > trace_id
                 PROVE  j = trace_id + k + 1 /\ k < n
      BY <1>1, <1>3
    <3> DEFINE m == j - 1 - trace_id
    <3>1. m \in 0 .. TraceSize - 1 /\ m < n /\ j - 1 = trace_id + m /\ (j - 1) % TraceSize = s
      BY <1>1, <1>3
    <3>2. m = k
      <4> HIDE DEF m, k
      <4> QED BY <2>3, <3>1
    <3> HIDE DEF k
    <3> QED BY <1>1, <2>2, <3>1, <3>2
  <2>9. CASE k < n
    <3> DEFINE top == trace_id + k + 1
    <3>1. k + 1 \in 1 .. n /\ top \in 1 .. Len(log') /\ top > Len(log) /\ log'[top] = new[k + 1]
      <4> HIDE DEF k
      <4> QED BY <1>1, <1>3, <2>2, <2>9
    <3>2. (top - 1) % TraceSize = s
      <4>1. top - 1 = trace_id + k
        <5> HIDE DEF k
        <5> QED BY <1>1, <2>2
      <4> HIDE DEF top, k
      <4> QED BY <2>2, <2>3, <4>1
    <3> HIDE DEF k
    <3>3. \A j \in turns1 : top >= j
      BY <1>1, <2>2, <2>8, <3>1
    <3>4. top \in turns1
      BY <3>1, <3>2
    <3> HIDE DEF turns1, top
    <3>5. Max(turns1) = top
      <4>1. turns1 \in SUBSET (0 .. Len(log')) /\ turns1 # {} /\ Len(log') \in Nat
        <5>1. Len(log') \in Nat
          BY <1>1, <1>3
        <5>2. turns1 \subseteq 1 .. Len(log')
          BY DEF turns1
        <5> QED BY <3>4, <5>1, <5>2
      <4>2. Max(turns1) \in turns1 /\ \A j \in turns1 : Max(turns1) >= j
        BY <4>1, GreatestNat
      <4>3. turns1 \subseteq Int
        BY <4>1
      <4>4. top >= Max(turns1) /\ Max(turns1) >= top
        BY <3>3, <3>4, <4>2
      <4>5. Max(turns1) \in Int /\ top \in Int
        BY <3>4, <4>2, <4>3
      <4> QED BY <4>4, <4>5
    <3>6. lines1 \subseteq lines \cup {new[k + 1]}
          /\ ((new[k + 1].kind = "IUSE" => new[k + 1].aux # None) => new[k + 1] \in lines1)
      BY <2>4, <2>7, <2>9, <3>1, StoreLines
    <3>7. \A e \in lines1 : \E j \in 1 .. Len(log') : log'[j] = e /\ (j - 1) % TraceSize = s
      <4> SUFFICES ASSUME NEW e \in lines1
                   PROVE  \E j \in 1 .. Len(log') : log'[j] = e /\ (j - 1) % TraceSize = s
        OBVIOUS
      <4>1. CASE e \in lines
        <5>1. PICK j \in 1 .. Len(log) : log[j] = e /\ (j - 1) % TraceSize = s
          BY <2>6, <4>1
        <5>2. j \in 1 .. Len(log') /\ log'[j] = e
          BY <1>1, <1>3, <5>1
        <5> QED BY <5>1, <5>2
      <4>2. CASE e = new[k + 1]
        BY <3>1, <3>2, <4>2
      <4> QED BY <3>6, <4>1, <4>2
    <3> QED BY <2>5, <3>1, <3>5, <3>6, <3>7
  <2>10. CASE ~(k < n)
    <3>1. dynamic_trace'[s] = dynamic_trace[s]
      BY <2>7, <2>10
    <3>2. turns1 = turns
      <4>1. turns1 \subseteq turns
        BY <2>8, <2>10
      <4>2. 1 .. Len(log) \subseteq 1 .. Len(log')
        BY <1>1, <1>3
      <4> QED BY <4>1, <4>2
    <3>3. \A e \in lines1 : \E j \in 1 .. Len(log') : log'[j] = e /\ (j - 1) % TraceSize = s
      <4> SUFFICES ASSUME NEW e \in lines1
                   PROVE  \E j \in 1 .. Len(log') : log'[j] = e /\ (j - 1) % TraceSize = s
        OBVIOUS
      <4>1. PICK j \in 1 .. Len(log) : log[j] = e /\ (j - 1) % TraceSize = s
        BY <2>6, <3>1
      <4>2. j \in 1 .. Len(log') /\ log'[j] = e
        BY <1>1, <1>3, <4>1
      <4> QED BY <4>1, <4>2
    <3>4. ASSUME s < trace_id'
          PROVE  LET e == log'[Max(turns1)] IN (e.kind = "IUSE" => e.aux # None) => e \in lines1
      <4>1. s < trace_id
        <5> SUFFICES ASSUME s >= trace_id PROVE k < n
          BY <1>1, <2>1, <2>10
        <5> DEFINE m == s - trace_id
        <5>1. m \in 0 .. TraceSize - 1 /\ m < n /\ trace_id + m = s
          BY <1>1, <1>3, <2>1, <3>4
        <5>2. s % TraceSize = s
          <6>1. s = TraceSize * 0 + s
            BY <1>1, <2>1
          <6> QED BY <1>1, <2>1, <6>1, Remainder
        <5>3. m = k
          <6> HIDE DEF m, k
          <6> QED BY <2>3, <5>1, <5>2
        <5> QED BY <5>1, <5>3
      <4>2. s + 1 \in turns
        <5>1. s = TraceSize * 0 + s
          BY <1>1, <2>1
        <5>2. s % TraceSize = s
          BY <1>1, <2>1, <5>1, Remainder
        <5>3. s + 1 \in 1 .. Len(log) /\ (s + 1) - 1 = s
          BY <1>1, <2>1, <4>1
        <5> QED BY <5>2, <5>3
      <4>3. Max(turns) \in 1 .. Len(log)
        <5>1. turns \in SUBSET (0 .. Len(log)) /\ turns \subseteq 1 .. Len(log) /\ turns # {}
          BY <1>1, <4>2
        <5> HIDE DEF turns
        <5> QED BY <1>1, <5>1, GreatestNat
      <4>4. log'[Max(turns1)] = log[Max(turns)]
        <5> HIDE DEF turns, turns1
        <5> QED BY <1>1, <1>3, <3>2, <4>3
      <4>5. LET e == log[Max(turns)] IN (e.kind = "IUSE" => e.aux # None) => e \in lines
        <5> HIDE DEF turns
        <5> QED BY <2>5, <4>1 DEF RingHoldsLog
      <4> HIDE DEF turns, turns1
      <4> QED BY <3>1, <4>4, <4>5
    <3> QED BY <2>5, <3>3, <3>4
  <2> QED BY <2>9, <2>10
<1> QED BY <1>3, <1>4 DEF RingHoldsLog

(***************************************************************************)
(* The two commands that write the trace store proper events: one of its   *)
(* own, or those of a flushed buffer, which is not longer than the ring.   *)
(***************************************************************************)
LEMMA CommandStores ==
  ASSUME TA!TypeOK, NEW e \in Event, TA!Command(e)
  PROVE  Stored(1, [k \in 1 .. 1 |-> e])
<1> DEFINE at == trace_id % TraceSize
<1>1. /\ TraceSize \in Nat /\ TraceSize > 0 /\ trace_id \in Nat /\ trace_id + 0 = trace_id
      /\ 0 \in 0 .. TraceSize - 1
      /\ dynamic_trace \in [TA!Slots -> UseT] /\ log \in Seq(Event)
  BY CacheAssumption, SameLayout DEF TA!TypeOK
<1>2. dynamic_trace' = [dynamic_trace EXCEPT ![at] = StoreEvent(dynamic_trace[at], e)]
  BY SameEvents DEF TA!Command
<1>3. log' = log \o [k \in 1 .. 1 |-> e]
  <2>1. log' = Append(log, e)
    BY DEF TA!Command
  <2>2. [k \in 1 .. 1 |-> e] = <<e>>
    OBVIOUS
  <2> QED BY <1>1, <2>1, <2>2
<1>4. trace_id' = trace_id + 1
  BY DEF TA!Command
<1>5. ASSUME NEW s \in TA!Slots
      PROVE  dynamic_trace'[s] = IF (s - trace_id) % TraceSize < 1
                                 THEN StoreEvent(dynamic_trace[s], [k \in 1 .. 1 |-> e][((s - trace_id) % TraceSize) + 1])
                                 ELSE dynamic_trace[s]
  <2> DEFINE k == (s - trace_id) % TraceSize
  <2>1. s \in 0 .. TraceSize - 1
    BY DEF TA!Slots
  <2>2. k \in 0 .. TraceSize - 1
    <3> DEFINE a == s - trace_id
    <3>1. a \in Int
      BY <1>1, <2>1
    <3> HIDE DEF a
    <3>2. a % TraceSize \in 0 .. TraceSize - 1
      BY <1>1, <3>1, Quotient
    <3> QED BY <3>2 DEF a
  <2>3. ASSUME k = 0 PROVE s = at
    <3> DEFINE z == 0
    <3>1. (s - trace_id) % TraceSize = z /\ z \in 0 .. TraceSize - 1 /\ trace_id + z = trace_id
      BY <1>1, <2>3
    <3> HIDE DEF k, z, at
    <3>2. (trace_id + z) % TraceSize = s
      BY <1>1, <2>1, <3>1, SlotOfEvent, Zenon
    <3> QED BY <3>1, <3>2 DEF at
  <2>4. ASSUME s = at PROVE k = 0
    <3>1. (trace_id + 0) % TraceSize = s
      BY <1>1, <2>4
    <3> QED BY <1>1, <2>1, <3>1, EventOfSlot, Zenon
  <2> HIDE DEF at, k
  <2>5. dynamic_trace'[s] = IF s = at THEN StoreEvent(dynamic_trace[s], e) ELSE dynamic_trace[s]
    BY <1>1, <1>2
  <2>6. k < 1 <=> k = 0
    BY <2>2
  <2>7. k = 0 => [j \in 1 .. 1 |-> e][k + 1] = e
    OBVIOUS
  <2>8. dynamic_trace'[s] = IF k < 1 THEN StoreEvent(dynamic_trace[s], [j \in 1 .. 1 |-> e][k + 1])
                                     ELSE dynamic_trace[s]
    BY <2>3, <2>4, <2>5, <2>6, <2>7
  <2> QED BY <2>8 DEF k
<1>6. dynamic_trace' = [s \in TA!Slots |-> dynamic_trace'[s]]
  <2> HIDE DEF at
  <2> QED BY <1>1, <1>2
<1> QED BY <1>3, <1>4, <1>5, <1>6 DEF Stored

LEMMA FlushStores ==
  ASSUME TA!TypeOK, NEW buf \in [Entries -> CacheT], TA!FlushCache(buf)
  PROVE  LET n == TA!FlushCount(buf) IN
         /\ n \in 0 .. CacheSize /\ n \in 0 .. TraceSize
         /\ [k \in 1 .. n |-> EntryEvent(buf[k - 1])] \in [1 .. n -> Event]
         /\ Stored(n, [k \in 1 .. n |-> EntryEvent(buf[k - 1])])
<1> DEFINE n == TA!FlushCount(buf)
           new == [k \in 1 .. n |-> EntryEvent(buf[k - 1])]
<1>1. /\ TraceSize \in Nat /\ TraceSize > 0 /\ CacheSize \in Nat /\ CacheSize <= TraceSize
      /\ n \in 0 .. CacheSize /\ trace_id \in Nat
  BY CacheAssumption, FlushCountIsPrefix DEF TA!TypeOK
<1> HIDE DEF n
<1>2. n \in 0 .. TraceSize
  BY <1>1
<1>3. new \in [1 .. n -> Event]
  <2>1. \A k \in 1 .. n : buf[k - 1] \in CacheT
    BY <1>1 DEF Entries
  <2> QED BY <2>1, EntryEventType
<1>4. log' = log \o new
  <2>1. log' = log \o [k \in 1 .. n |-> TA!EntryEvent(buf[k - 1])]
    BY DEF TA!FlushCache, n
  <2> QED BY <2>1, SameEvents
<1>5. ASSUME NEW s \in TA!Slots
      PROVE  TA!FlushedSlot(buf, s) =
               IF (s - trace_id) % TraceSize < n
               THEN StoreEvent(dynamic_trace[s], new[((s - trace_id) % TraceSize) + 1])
               ELSE dynamic_trace[s]
  <2> DEFINE k == (s - trace_id) % TraceSize
  <2>1. k \in 0 .. TraceSize - 1
    <3> DEFINE a == s - trace_id
    <3>1. a \in Int
      BY <1>1 DEF TA!Slots
    <3> HIDE DEF a
    <3>2. a % TraceSize \in 0 .. TraceSize - 1
      BY <1>1, <3>1, Quotient
    <3> QED BY <3>2 DEF a
  <2>2. TA!FlushedSlot(buf, s) = IF k \in 0 .. n - 1
                                 THEN StoreEvent(dynamic_trace[s], EntryEvent(buf[k]))
                                 ELSE dynamic_trace[s]
    BY SameEvents DEF TA!FlushedSlot, n
  <2> HIDE DEF k
  <2>3. k \in 0 .. n - 1 <=> k < n
    BY <1>1, <2>1
  <2>4. k < n => new[k + 1] = EntryEvent(buf[k])
    <3>1. k < n => k + 1 \in 1 .. n /\ (k + 1) - 1 = k
      BY <1>1, <2>1
    <3> QED BY <3>1
  <2>5. TA!FlushedSlot(buf, s) = IF k < n THEN StoreEvent(dynamic_trace[s], new[k + 1])
                                          ELSE dynamic_trace[s]
    <3> HIDE DEF new
    <3> QED BY <2>2, <2>3, <2>4
  <2> QED BY <2>5 DEF k
<1>6. /\ trace_id' = trace_id + n
      /\ dynamic_trace' = [s \in TA!Slots |-> TA!FlushedSlot(buf, s)]
  BY DEF TA!FlushCache, n
<1>7. Stored(n, new)
  <2> HIDE DEF new
  <2> QED BY <1>4, <1>5, <1>6 DEF Stored
<1> QED BY <1>1, <1>2, <1>3, <1>7 DEF n

\* What is stored within the first turn of the ring goes behind what is there.
LEMMA StoredBehind ==
  ASSUME TA!TypeOK, NEW n \in 0 .. TraceSize, NEW new, Stored(n, new), trace_id' <= TraceSize,
         NEW s \in 0 .. trace_id - 1
  PROVE  dynamic_trace'[s] = dynamic_trace[s]
<1>1. /\ TraceSize \in Nat /\ TraceSize > 0 /\ trace_id \in Nat
      /\ trace_id + n <= TraceSize
  BY CacheAssumption DEF TA!TypeOK, Stored
<1> DEFINE a == s - trace_id
           r == s - trace_id + TraceSize
<1>2. a = TraceSize * (-1) + r /\ a \in Int /\ r \in 0 .. TraceSize - 1 /\ ~(r < n)
  BY <1>1
<1>3. a % TraceSize = r
  <2> HIDE DEF a, r
  <2> QED BY <1>1, <1>2, Remainder
<1>4. ~((s - trace_id) % TraceSize < n) /\ s \in TA!Slots
  BY <1>1, <1>2, <1>3 DEF TA!Slots
<1> QED BY <1>4 DEF Stored

(***************************************************************************)
(* A step of the library leaves the trace alone, or stores events in it.   *)
(***************************************************************************)
LEMMA RingUnchanged ==
  ASSUME RingHoldsLog, UNCHANGED taVars
  PROVE  RingHoldsLog'
<1>1. dynamic_trace' = dynamic_trace /\ trace_id' = trace_id /\ log' = log
  BY DEF taVars
<1> QED BY <1>1 DEF RingHoldsLog, Newest

LEMMA RingFlush ==
  ASSUME TypeOK, RingHoldsLog, NEW buf \in [Entries -> CacheT],
         \A i \in Entries : buf[i].def.size # 0 => buf[i].def.id # None,
         FlushCache(buf)
  PROVE  /\ RingHoldsLog'
         /\ \A i \in Entries : cache'[i].def.size # 0 => cache'[i].def.id # None
<1>1. ASSUME TA!FlushCache(buf) PROVE RingHoldsLog'
  <2> DEFINE n == TA!FlushCount(buf)
             new == [k \in 1 .. n |-> EntryEvent(buf[k - 1])]
  <2>1. /\ n \in 0 .. CacheSize /\ n \in 0 .. TraceSize /\ new \in [1 .. n -> Event]
        /\ Stored(n, new)
    BY <1>1, FlushStores DEF TypeOK
  <2>2. \A i \in 0 .. n - 1 : TA!Emits(buf[i])
    BY FlushCountIsPrefix
  <2> HIDE DEF n
  <2>3. \A k \in 1 .. n : Proper(new[k])
    <3> SUFFICES ASSUME NEW k \in 1 .. n PROVE Proper(EntryEvent(buf[k - 1]))
      OBVIOUS
    <3>1. k - 1 \in Entries /\ k - 1 \in 0 .. n - 1
      BY <2>1, CacheAssumption DEF Entries
    <3> QED BY <2>2, <3>1, EntryEventProper
  <2> HIDE DEF new
  <2> QED BY <2>1, <2>3, RingAppend DEF TypeOK
<1>2. \A i \in Entries : cache'[i].def.size # 0 => cache'[i].def.id # None
  <2>1. cache' = [i \in Entries |-> IF i < Cleared THEN ZeroEntry ELSE buf[i]]
    BY DEF FlushCache, ClearPrefix
  <2> QED BY <2>1 DEF ZeroEntry
<1>3. CASE UNCHANGED taVars
  BY <1>2, <1>3, RingUnchanged
<1> QED BY <1>1, <1>2, <1>3 DEF FlushCache, Invoke

\* An entry that a call writes has a size only with a name.
LEMMA UpdateEntryNamed ==
  ASSUME NEW entry \in CacheT, entry.def.size # 0 => entry.def.id # None, NEW c \in Call
  PROVE  UpdateEntry(entry, c).def.size # 0 => UpdateEntry(entry, c).def.id # None
BY DEF UpdateEntry, SetDef, SetUse, SetIUse, Call, None

LEMMA TraceStep == IInv /\ TraceInv /\ [Next]_vars => TraceInv'
<1> SUFFICES ASSUME IInv, TraceInv, [Next]_vars PROVE TraceInv'
  OBVIOUS
<1>1. /\ TypeOK /\ RingHoldsLog /\ cache \in [Entries -> CacheT] /\ Calls \subseteq Call
      /\ \A i \in Entries : cache[i].def.size # 0 => cache[i].def.id # None
  BY CacheAssumption DEF IInv, TypeOK, TraceInv
<1>2. ASSUME NEW i \in Entries, NEW c \in Calls, NEW buf,
             buf = [cache EXCEPT ![i] = UpdateEntry(cache[i], c)]
      PROVE  \A j \in Entries : buf[j].def.size # 0 => buf[j].def.id # None
  <2>1. \A j \in Entries : buf[j] = IF j = i THEN UpdateEntry(cache[i], c) ELSE cache[j]
    BY <1>1, <1>2
  <2>2. UpdateEntry(cache[i], c).def.size # 0 => UpdateEntry(cache[i], c).def.id # None
    BY <1>1, UpdateEntryNamed
  <2> QED BY <1>1, <2>1, <2>2
<1>3. CASE zinit
  <2>1. /\ dynamic_trace' = [s \in TA!Slots |-> ZeroEntry] /\ log' = << >> /\ trace_id' = 0
        /\ cache' = ZeroCache /\ main' = "run"
    BY <1>3 DEF zinit, TA!OpenSession, TraceInv
  <2>2. ASSUME NEW e \in Range(PrintedLines(ZeroEntry)) PROVE FALSE
    <3>1. ZeroEntry \in UseT
      BY DEF ZeroEntry, UseT, None
    <3> QED BY <2>2, <3>1, PrintedLinesRange DEF ZeroEntry, None
  <2>3. RingHoldsLog'
    BY <2>1, <2>2, CacheAssumption DEF RingHoldsLog, TA!Slots
  <2> QED BY <2>1, <2>3 DEF TraceInv, ZeroCache, ZeroEntry
<1>4. ASSUME NEW c \in Calls, CollectAgain(c) PROVE TraceInv'
  <2>1. Min(Matches(c)) \in Entries
    <3>1. Matches(c) \in SUBSET Nat /\ Matches(c) # {} /\ Matches(c) \subseteq Entries
      BY <1>1, <1>4, CacheAssumption DEF Matches, Live, Entries, TypeOK, CollectAgain
    <3>2. PICK m \in Matches(c) : \A k \in Matches(c) : m <= k
      BY <3>1, LeastNat
    <3>3. Min(Matches(c)) \in Matches(c)
      BY <3>2 DEF Min
    <3> QED BY <3>1, <3>3
  <2>2. /\ cache' = [cache EXCEPT ![Min(Matches(c))] = UpdateEntry(cache[Min(Matches(c))], c)]
        /\ UNCHANGED taVars /\ main = "run" /\ main' = "run"
    BY <1>4 DEF CollectAgain, CallMade
  <2>3. \A j \in Entries : cache'[j].def.size # 0 => cache'[j].def.id # None
    BY <1>2, <2>1, <2>2
  <2> QED BY <1>1, <2>2, <2>3, RingUnchanged DEF TraceInv
<1>5. ASSUME NEW c \in Calls
      PROVE  \A j \in Entries : CacheWith(c)[j].def.size # 0 => CacheWith(c)[j].def.id # None
  <2>1. cache_last_index + 1 \in Entries
    BY NextEntry
  <2> QED BY <1>2, <2>1 DEF CacheWith
<1>6. ASSUME NEW c \in Calls, CollectNew(c) PROVE TraceInv'
  BY <1>1, <1>5, <1>6, RingUnchanged DEF TraceInv, CollectNew, CallMade
<1>7. ASSUME NEW c \in Calls, CollectLast(c) PROVE TraceInv'
  <2>1. FlushCache(CacheWith(c)) /\ main' = "run"
    BY <1>7 DEF CollectLast, CallMade
  <2>2. CacheWith(c) \in [Entries -> CacheT]
    BY NextEntry
  <2> QED BY <1>1, <1>5, <2>1, <2>2, RingFlush DEF TraceInv
<1>8. ASSUME NEW c \in Calls, Send(c) PROVE TraceInv'
  <2>1. /\ cache' = cache /\ main' = "run"
        /\ TA!Command(SentEvent(c)) \/ UNCHANGED taVars
    BY <1>8 DEF Send, CallMade, Invoke
  <2>2. Proper(SentEvent(c)) /\ SentEvent(c) \in Event
    BY <1>1, SentEventProper, CallEventType
  <2>3. CASE TA!Command(SentEvent(c))
    <3> DEFINE new == [k \in 1 .. 1 |-> SentEvent(c)]
    <3>1. /\ new \in [1 .. 1 -> Event] /\ \A k \in 1 .. 1 : Proper(new[k])
          /\ 1 \in 0 .. TraceSize
      BY <2>2, CacheAssumption
    <3>2. Stored(1, new)
      BY <1>1, <2>2, <2>3, CommandStores DEF TypeOK
    <3> HIDE DEF new
    <3>3. RingHoldsLog'
      BY <1>1, <3>1, <3>2, RingAppend DEF TypeOK
    <3> QED BY <1>1, <2>1, <3>3 DEF TraceInv
  <2>4. CASE UNCHANGED taVars
    BY <1>1, <2>1, <2>4, RingUnchanged DEF TraceInv
  <2> QED BY <2>1, <2>3, <2>4
<1>9. CASE zexit
  <2>1. FlushCache(cache) /\ main' = "returned"
    BY <1>9 DEF zexit
  <2> QED BY <1>1, <2>1, RingFlush DEF TraceInv
<1>10. CASE Exit \/ Die \/ UNCHANGED vars
  <2>1. /\ UNCHANGED taVars /\ cache' = cache /\ (main' = "start" => main = "start")
        /\ dynamic_trace' = dynamic_trace
    BY <1>10 DEF Exit, Die, vars, libVars, taVars
  <2> QED BY <1>1, <2>1, RingUnchanged DEF TraceInv
<1> QED BY <1>3, <1>4, <1>6, <1>7, <1>8, <1>9, <1>10 DEF Next

LEMMA RingInvariant == Spec => []TraceInv
<1>1. Init => TraceInv
  <2> SUFFICES ASSUME Init PROVE TraceInv
    OBVIOUS
  <2>1. /\ dynamic_trace = [s \in TA!Slots |-> ZeroEntry] /\ log = << >> /\ trace_id = 0
        /\ cache = ZeroCache
    BY SameLayout DEF Init, TA!Init
  <2>2. ASSUME NEW e \in Range(PrintedLines(ZeroEntry)) PROVE FALSE
    <3>1. ZeroEntry \in UseT
      BY DEF ZeroEntry, UseT, None
    <3> QED BY <2>2, <3>1, PrintedLinesRange DEF ZeroEntry, None
  <2>3. RingHoldsLog
    BY <2>1, <2>2, CacheAssumption DEF RingHoldsLog, TA!Slots
  <2> QED BY <2>1, <2>3 DEF TraceInv, ZeroCache, ZeroEntry
<1> QED BY <1>1, TraceStep, Invariant, PTL DEF Spec

(***************************************************************************)
(* The ring of the trusted application is its history modulo the size of   *)
(* the trace, for every size: the newest event of a slot is printed for    *)
(* it, and nothing is printed for it that was not stored in that slot.     *)
(***************************************************************************)
THEOREM RingFaithful == Spec => []RingHoldsLog
<1>1. TraceInv => RingHoldsLog
  BY DEF TraceInv
<1> QED BY <1>1, RingInvariant, PTL

(***************************************************************************)
(* Within the first turn of the ring the trace only grows: no slot that    *)
(* has been stored is written again, by a flush or by a single command.    *)
(***************************************************************************)
THEOREM FirstTurnAppends == Spec => AppendOnlyUntilWrap
<1>1. ASSUME IInv, [Next]_vars, main = "run", trace_id' <= TraceSize,
             NEW s \in 0 .. trace_id - 1
      PROVE  dynamic_trace'[s] = dynamic_trace[s]
  <2>1. TypeOK /\ TA!TypeOK /\ cache \in [Entries -> CacheT] /\ Calls \subseteq Call
    BY <1>1, CacheAssumption DEF IInv, TypeOK
  <2>2. ASSUME NEW buf \in [Entries -> CacheT], FlushCache(buf)
        PROVE  dynamic_trace'[s] = dynamic_trace[s]
    <3>1. CASE TA!FlushCache(buf)
      BY <1>1, <2>1, <3>1, FlushStores, StoredBehind
    <3>2. CASE UNCHANGED taVars
      BY <3>2 DEF taVars
    <3> QED BY <2>2, <3>1, <3>2 DEF FlushCache, Invoke
  <2>3. ASSUME NEW c \in Calls, CollectLast(c) PROVE dynamic_trace'[s] = dynamic_trace[s]
    BY <1>1, <2>2, <2>3, NextEntry DEF CollectLast
  <2>4. CASE zexit
    BY <2>1, <2>2, <2>4 DEF zexit
  <2>5. ASSUME NEW c \in Calls, Send(c) PROVE dynamic_trace'[s] = dynamic_trace[s]
    <3>1. CASE TA!Command(SentEvent(c))
      <4>1. SentEvent(c) \in Event
        BY <2>1, CallEventType
      <4>2. Stored(1, [k \in 1 .. 1 |-> SentEvent(c)])
        BY <2>1, <3>1, <4>1, CommandStores
      <4>3. 1 \in 0 .. TraceSize
        BY CacheAssumption
      <4> QED BY <1>1, <2>1, <4>2, <4>3, StoredBehind
    <3>2. CASE UNCHANGED taVars
      BY <3>2 DEF taVars
    <3> QED BY <2>5, <3>1, <3>2 DEF Send, Invoke
  <2>6. CASE zinit
    BY <1>1, <2>6 DEF zinit
  <2>7. CASE Exit \/ Die \/ UNCHANGED vars
    BY <2>7 DEF Exit, Die, vars, taVars
  <2>8. ASSUME NEW c \in Calls, CollectAgain(c) \/ CollectNew(c)
        PROVE  dynamic_trace'[s] = dynamic_trace[s]
    BY <2>8 DEF CollectAgain, CollectNew, taVars
  <2> QED BY <1>1, <2>3, <2>4, <2>5, <2>6, <2>7, <2>8 DEF Next
<1>2. IInv /\ [Next]_vars =>
        [(main = "run" /\ trace_id' <= TraceSize) =>
           \A s \in 0 .. trace_id - 1 : dynamic_trace'[s] = dynamic_trace[s]]_vars
  BY <1>1
<1> QED BY <1>2, Invariant, PTL DEF Spec, AppendOnlyUntilWrap

(***************************************************************************)
(* What a step after zinit may do to the trace, whoever takes it: append   *)
(* events that state reported facts, and within the first turn of the ring *)
(* write no slot but the ones behind the current index.                    *)
(***************************************************************************)
TraceGrows ==
  /\ \E new \in Seq(Event) :
       log' = log \o new /\ \A k \in 1 .. Len(new) : EventFact(new[k]) \in recorded'
  /\ trace_id' >= trace_id
  /\ trace_id' <= TraceSize =>
       \A s \in TA!Slots : s < trace_id \/ s >= trace_id' => dynamic_trace'[s] = dynamic_trace[s]

LEMMA StoredGrows ==
  ASSUME TA!TypeOK, NEW n \in 0 .. TraceSize, NEW new \in [1 .. n -> Event], Stored(n, new),
         \A k \in 1 .. n : EventFact(new[k]) \in recorded'
  PROVE  TraceGrows
<1>1. /\ TraceSize \in Nat /\ TraceSize > 0 /\ trace_id \in Nat /\ n \in Nat
      /\ trace_id' = trace_id + n /\ log' = log \o new
  BY CacheAssumption DEF TA!TypeOK, Stored
<1>2. new \in Seq(Event) /\ Len(new) = n
  BY <1>1
<1>3. ASSUME trace_id' <= TraceSize, NEW s \in TA!Slots, s >= trace_id'
      PROVE  dynamic_trace'[s] = dynamic_trace[s]
  <2> DEFINE a == s - trace_id
  <2>1. a = TraceSize * 0 + a /\ a \in Int /\ a \in 0 .. TraceSize - 1 /\ ~(a < n)
    BY <1>1, <1>3 DEF TA!Slots
  <2>2. a % TraceSize = a
    <3> HIDE DEF a
    <3> QED BY <1>1, <2>1, Remainder
  <2>3. ~((s - trace_id) % TraceSize < n)
    BY <2>1, <2>2
  <2> QED BY <2>3 DEF Stored
<1>4. ASSUME trace_id' <= TraceSize, NEW s \in TA!Slots, s < trace_id
      PROVE  dynamic_trace'[s] = dynamic_trace[s]
  BY <1>1, <1>4, StoredBehind DEF TA!Slots
<1>5. \E q \in Seq(Event) :
        log' = log \o q /\ \A k \in 1 .. Len(q) : EventFact(q[k]) \in recorded'
  <2>1. \A k \in 1 .. Len(new) : EventFact(new[k]) \in recorded'
    BY <1>2
  <2> QED BY <1>1, <1>2, <2>1
<1>6. trace_id' >= trace_id
  BY <1>1
<1>7. \A s \in TA!Slots :
        trace_id' <= TraceSize /\ (s < trace_id \/ s >= trace_id') => dynamic_trace'[s] = dynamic_trace[s]
  BY <1>3, <1>4
<1> QED BY <1>5, <1>6, <1>7 DEF TraceGrows

LEMMA NothingGrows ==
  ASSUME TA!TypeOK, UNCHANGED taVars
  PROVE  TraceGrows
<1>1. dynamic_trace' = dynamic_trace /\ trace_id' = trace_id /\ log' = log
  BY DEF taVars
<1>2. << >> \in Seq(Event) /\ Len(<< >>) = 0
  OBVIOUS
<1>3. log' = log \o << >> /\ trace_id' >= trace_id
  BY <1>1 DEF TA!TypeOK
<1>4. \E new \in Seq(Event) :
        log' = log \o new /\ \A k \in 1 .. Len(new) : EventFact(new[k]) \in recorded'
  <2> DEFINE none == << >>
  <2>1. none \in Seq(Event) /\ log' = log \o none
        /\ \A k \in 1 .. Len(none) : EventFact(none[k]) \in recorded'
    BY <1>2, <1>3
  <2> HIDE DEF none
  <2> QED BY <2>1
<1> QED BY <1>1, <1>3, <1>4 DEF TraceGrows

LEMMA FlushGrows ==
  ASSUME TypeOK, NEW buf \in [Entries -> CacheT], FlushCache(buf),
         \A i \in Entries : EntryFacts(buf[i]) \subseteq recorded',
         \A i \in Entries : buf[i].def.size # 0 => buf[i].def.id # None
  PROVE  TraceGrows
<1>1. CASE TA!FlushCache(buf)
  <2> DEFINE n == TA!FlushCount(buf)
             new == [k \in 1 .. n |-> EntryEvent(buf[k - 1])]
  <2>1. /\ n \in 0 .. CacheSize /\ n \in 0 .. TraceSize /\ new \in [1 .. n -> Event]
        /\ Stored(n, new)
    BY <1>1, FlushStores DEF TypeOK
  <2>2. \A i \in 0 .. n - 1 : TA!Emits(buf[i])
    BY FlushCountIsPrefix
  <2> HIDE DEF n
  <2>3. ASSUME NEW k \in 1 .. n PROVE EventFact(EntryEvent(buf[k - 1])) \in recorded'
    <3>1. k - 1 \in Entries /\ k - 1 \in 0 .. n - 1
      BY <2>1, CacheAssumption DEF Entries
    <3>2. Proper(EntryEvent(buf[k - 1])) /\ buf[k - 1] \in CacheT
      BY <2>2, <3>1, EntryEventProper
    <3>3. EventFact(EntryEvent(buf[k - 1])) \in EntryFacts(buf[k - 1])
      BY <2>2, <3>1, <3>2 DEF EntryFacts, EventFact, EntryEvent, MakeEvent, DefKinds, Proper,
         DefFact, UseFact, IUseFact
    <3> QED BY <3>1, <3>3
  <2>4. \A k \in 1 .. n : EventFact(new[k]) \in recorded'
    BY <2>3
  <2> HIDE DEF new
  <2> QED BY <2>1, <2>4, StoredGrows DEF TypeOK
<1>2. CASE UNCHANGED taVars
  BY <1>2, NothingGrows DEF TypeOK
<1> QED BY <1>1, <1>2 DEF FlushCache, Invoke

LEMMA StepGrows ==
  ASSUME IInv, TraceInv, [Next]_vars, main # "start"
  PROVE  TraceGrows
<1>1. /\ TypeOK /\ TA!TypeOK /\ cache \in [Entries -> CacheT] /\ Calls \subseteq Call
      /\ \A i \in Entries : cache[i].def.size # 0 => cache[i].def.id # None
      /\ \A i \in Entries : EntryFacts(cache[i]) \subseteq recorded
  BY CacheAssumption DEF IInv, TypeOK, TraceInv, OnlyReportedFacts
<1>2. ASSUME UNCHANGED taVars PROVE TraceGrows
  BY <1>1, <1>2, NothingGrows
<1>3. ASSUME NEW c \in Calls, CollectAgain(c) \/ CollectNew(c) PROVE TraceGrows
  BY <1>2, <1>3 DEF CollectAgain, CollectNew
<1>4. ASSUME NEW c \in Calls, CollectLast(c) PROVE TraceGrows
  <2>1. /\ cache_last_index + 1 \in Entries /\ CacheWith(c) \in [Entries -> CacheT]
        /\ FlushCache(CacheWith(c)) /\ recorded' = recorded \cup {CallFact(c)}
    BY <1>1, <1>4, NextEntry DEF CollectLast, CallMade
  <2> DEFINE j == cache_last_index + 1
             u == UpdateEntry(cache[j], c)
  <2>2. \A i \in Entries : CacheWith(c)[i] = IF i = j THEN u ELSE cache[i]
    BY <1>1, <2>1 DEF CacheWith
  <2>3. (u.def.size # 0 => u.def.id # None) /\ EntryFacts(u) \subseteq recorded'
    <3>1. cache[j] \in CacheT /\ c \in Call /\ EntryFacts(cache[j]) \subseteq recorded
      BY <1>1, <2>1
    <3>2. EntryFacts(u) \subseteq recorded \cup {CallFact(c)}
      BY <3>1, UpdateEntryFacts
    <3> QED BY <1>1, <2>1, <3>1, <3>2, UpdateEntryNamed
  <2> HIDE DEF u, j
  <2>4. /\ \A i \in Entries : EntryFacts(CacheWith(c)[i]) \subseteq recorded'
        /\ \A i \in Entries : CacheWith(c)[i].def.size # 0 => CacheWith(c)[i].def.id # None
    BY <1>1, <2>1, <2>2, <2>3
  <2> QED BY <1>1, <2>1, <2>4, FlushGrows
<1>5. ASSUME NEW c \in Calls, Send(c) PROVE TraceGrows
  <2>1. /\ TA!Command(SentEvent(c)) \/ UNCHANGED taVars
        /\ recorded' = recorded \cup {CallFact(c)}
    BY <1>5 DEF Send, CallMade, Invoke
  <2>2. SentEvent(c) \in Event /\ EventFact(SentEvent(c)) = CallFact(c)
    BY <1>1, CallEventType, EventOfCall
  <2>3. CASE TA!Command(SentEvent(c))
    <3> DEFINE new == [k \in 1 .. 1 |-> SentEvent(c)]
    <3>1. /\ new \in [1 .. 1 -> Event] /\ \A k \in 1 .. 1 : EventFact(new[k]) \in recorded'
          /\ 1 \in 0 .. TraceSize
      BY <2>1, <2>2, CacheAssumption
    <3>2. Stored(1, new)
      BY <1>1, <2>2, <2>3, CommandStores
    <3> HIDE DEF new
    <3> QED BY <1>1, <3>1, <3>2, StoredGrows
  <2> QED BY <1>2, <2>1, <2>3
<1>6. CASE zexit
  BY <1>1, <1>6, FlushGrows DEF zexit
<1>7. CASE Exit \/ Die \/ UNCHANGED vars
  BY <1>2, <1>7 DEF Exit, Die, vars
<1>8. ~zinit
  BY DEF zinit
<1> QED BY <1>3, <1>4, <1>5, <1>6, <1>7, <1>8 DEF Next

-----------------------------------------------------------------------------
(***************************************************************************)
(* The history of a generation against the cache.                          *)
(***************************************************************************)
LEMMA MinIn ==
  ASSUME NEW S \in SUBSET Nat, S # {}
  PROVE  Min(S) \in S /\ \A k \in S : Min(S) <= k
<1>1. PICK m \in S : \A k \in S : m <= k
  BY LeastNat
<1> QED BY <1>1 DEF Min

LEMMA CallEventParts ==
  ASSUME NEW c \in Call
  PROVE  /\ CallEvent(c).id = c.id
         /\ CallEvent(c).kind \in DefKinds <=> c.type \in DefTypes
         /\ c.type \in DefTypes => CallEvent(c).addr = c.addr
BY DEF CallEvent, MakeEvent, Call, ENTRY_TYPE, DefKinds, DefTypes, UseTypes, IUseTypes

LEMMA UpdateEntryDef ==
  ASSUME NEW entry, NEW c \in Call
  PROVE  /\ c.type \in DefTypes => /\ UpdateEntry(entry, c).def.id = c.id
                                   /\ UpdateEntry(entry, c).def.addr = c.addr
         /\ c.type \notin DefTypes => UpdateEntry(entry, c).def = entry.def
BY DEF UpdateEntry, SetDef, SetUse, SetIUse

Unique(g) ==
  \A j, k \in 1 .. Len(g) :
    g[j].kind \in DefKinds /\ g[k].kind \in DefKinds /\ g[j].id = g[k].id => j = k

(***************************************************************************)
(* A definition that is remembered has one place in the generation, with   *)
(* its latest address; all others stay where they were.                    *)
(***************************************************************************)
LEMMA RememberDefs ==
  ASSUME TypeOK, Unique(gen), NEW c \in Call
  PROVE  /\ Unique(Remember(c))
         /\ \A k \in 1 .. Len(Remember(c)) : Remember(c)[k].kind \in DefKinds =>
              \/ /\ c.type \in DefTypes
                 /\ Remember(c)[k].id = c.id /\ Remember(c)[k].addr = c.addr
              \/ /\ k \in 1 .. Len(gen) /\ Remember(c)[k] = gen[k]
                 /\ c.type \in DefTypes => gen[k].id # c.id
<1>1. gen \in Seq(Event) /\ CallEvent(c) \in Event /\ Len(gen) \in Nat
  BY CallEventType DEF TypeOK
<1>2. /\ CallEvent(c).id = c.id
      /\ CallEvent(c).kind \in DefKinds <=> c.type \in DefTypes
      /\ c.type \in DefTypes => CallEvent(c).addr = c.addr
  BY CallEventParts
<1>3. CASE c.type \in DefTypes /\ GenPlace(c) # {}
  <2> DEFINE g == Min(GenPlace(c))
             new == [gen EXCEPT ![g] = CallEvent(c)]
  <2>1. GenPlace(c) \in SUBSET Nat /\ g \in GenPlace(c)
    <3>1. GenPlace(c) \in SUBSET Nat
      BY <1>1 DEF GenPlace
    <3> QED BY <1>3, <3>1, MinIn
  <2>2. g \in 1 .. Len(gen) /\ gen[g].kind \in DefKinds /\ gen[g].id = c.id
    BY <2>1 DEF GenPlace
  <2> HIDE DEF g
  <2>3. /\ Len(new) = Len(gen) /\ new[g] = CallEvent(c)
        /\ \A k \in 1 .. Len(gen) : k # g => new[k] = gen[k]
    BY <1>1, <2>2
  <2>4. Remember(c) = new
    BY <1>3 DEF Remember, g
  <2> HIDE DEF new
  <2>5. \A k \in 1 .. Len(gen) : k # g /\ gen[k].kind \in DefKinds => gen[k].id # c.id
    BY <2>2 DEF Unique
  <2>6. Unique(new)
    BY <1>2, <1>3, <2>2, <2>3, <2>5 DEF Unique
  <2> QED BY <1>2, <1>3, <2>3, <2>4, <2>5, <2>6
<1>4. CASE ~(c.type \in DefTypes /\ GenPlace(c) # {})
  <2> DEFINE new == Append(gen, CallEvent(c))
  <2>1. Remember(c) = new
    BY <1>4 DEF Remember
  <2>2. /\ Len(new) = Len(gen) + 1 /\ new[Len(gen) + 1] = CallEvent(c)
        /\ \A k \in 1 .. Len(gen) : new[k] = gen[k]
    BY <1>1
  <2> HIDE DEF new
  <2>3. \A k \in 1 .. Len(gen) :
           c.type \in DefTypes /\ gen[k].kind \in DefKinds => gen[k].id # c.id
    BY <1>4 DEF GenPlace
  <2>4. \A k \in 1 .. Len(new) : k \in 1 .. Len(gen) \/ k = Len(gen) + 1
    BY <1>1, <2>2
  <2>5. Unique(new)
    BY <1>2, <2>2, <2>3, <2>4 DEF Unique
  <2> QED BY <1>2, <2>1, <2>2, <2>3, <2>4, <2>5
<1> QED BY <1>3, <1>4

\* The entries that a scan for definition d passes; the property is about the lowest.
NamedBy(d) == {i \in Live : cache[i].def.id = d}

LEMMA GenStep == IInv /\ GenInv /\ [Next]_vars => GenInv'
<1> SUFFICES ASSUME IInv, GenInv, [Next]_vars PROVE GenInv'
  OBVIOUS
<1>1. /\ TypeOK /\ cache \in [Entries -> CacheT] /\ Calls \subseteq Call
      /\ CacheEnabled \in BOOLEAN
      /\ Live \subseteq Entries /\ Live \subseteq Nat /\ Unique(gen)
      /\ cache_last_index \in Int
  BY CacheAssumption DEF IInv, TypeOK, GenInv, Live, Entries, Unique
<1>2. ASSUME CacheEnabled, NEW k \in 1 .. Len(gen), gen[k].kind \in DefKinds
      PROVE  /\ NamedBy(gen[k].id) # {}
             /\ Min(NamedBy(gen[k].id)) \in NamedBy(gen[k].id)
             /\ \A i \in NamedBy(gen[k].id) : Min(NamedBy(gen[k].id)) <= i
             /\ cache[Min(NamedBy(gen[k].id))].def.addr = gen[k].addr
  <2>1. NamedBy(gen[k].id) # {} /\ cache[Min(NamedBy(gen[k].id))].def.addr = gen[k].addr
    BY <1>2 DEF GenInv, LatestAddressFirst, NamedBy
  <2>2. NamedBy(gen[k].id) \in SUBSET Nat
    BY <1>1 DEF NamedBy
  <2> QED BY <2>1, <2>2, MinIn
<1>3. ASSUME NEW c \in Calls, CollectAgain(c) PROVE GenInv'
  <2> DEFINE i == Min(Matches(c))
  <2>1. /\ cache' = [cache EXCEPT ![i] = UpdateEntry(cache[i], c)]
        /\ gen' = Remember(c) /\ cache_last_index' = cache_last_index
        /\ main' = "run" /\ CacheEnabled
    BY <1>3 DEF CollectAgain, CallMade
  <2>2. i \in Matches(c) /\ \A j \in Matches(c) : i <= j
    <3>1. Matches(c) \in SUBSET Nat /\ Matches(c) # {}
      BY <1>1, <1>3 DEF Matches, CollectAgain
    <3> QED BY <3>1, MinIn
  <2>3. i \in Live /\ cache[i].def.id = c.id
    BY <2>2 DEF Matches
  <2>4. c.type \in DefTypes => Matches(c) = NamedBy(c.id)
    BY DEF Matches, NamedBy, DefTypes, IUseTypes
  <2> HIDE DEF i
  <2>5. \A j \in Live : cache'[j] = IF j = i THEN UpdateEntry(cache[i], c) ELSE cache[j]
    BY <1>1, <2>1
  <2>6. /\ c.type \in DefTypes => cache'[i].def.id = c.id /\ cache'[i].def.addr = c.addr
        /\ c.type \notin DefTypes => cache'[i].def = cache[i].def
    BY <1>1, <2>3, <2>5, UpdateEntryDef
  <2>7. \A d : NamedBy(d)' = NamedBy(d)
    <3>1. \A j \in Live : cache'[j].def.id = cache[j].def.id
      BY <2>3, <2>5, <2>6
    <3> QED BY <2>1, <3>1 DEF NamedBy, Live
  <2>8. Unique(gen')
    BY <1>1, <2>1, RememberDefs
  <2>9. ASSUME NEW k \in 1 .. Len(gen'), gen'[k].kind \in DefKinds
        PROVE  /\ NamedBy(gen'[k].id) # {}
               /\ cache'[Min(NamedBy(gen'[k].id))].def.addr = gen'[k].addr
    <3>1. \/ /\ c.type \in DefTypes /\ gen'[k].id = c.id /\ gen'[k].addr = c.addr
          \/ /\ k \in 1 .. Len(gen) /\ gen'[k] = gen[k]
             /\ c.type \in DefTypes => gen[k].id # c.id
      BY <1>1, <2>1, <2>9, RememberDefs
    <3>2. CASE c.type \in DefTypes /\ gen'[k].id = c.id /\ gen'[k].addr = c.addr
      <4>1. NamedBy(gen'[k].id) = Matches(c) /\ Min(NamedBy(gen'[k].id)) = i
        BY <2>4, <3>2 DEF i
      <4> QED BY <2>2, <2>6, <3>2, <4>1
    <3>3. CASE /\ k \in 1 .. Len(gen) /\ gen'[k] = gen[k]
               /\ c.type \in DefTypes => gen[k].id # c.id
      <4> DEFINE m == Min(NamedBy(gen[k].id))
      <4>1. /\ NamedBy(gen[k].id) # {} /\ m \in NamedBy(gen[k].id)
            /\ cache[m].def.addr = gen[k].addr
        BY <1>2, <2>1, <2>9, <3>3
      <4> HIDE DEF m
      <4>2. m \in Live /\ cache[m].def.id = gen[k].id
        BY <4>1 DEF NamedBy
      <4>3. cache'[m].def.addr = cache[m].def.addr
        BY <2>3, <2>5, <2>6, <3>3, <4>2
      <4> QED BY <3>3, <4>1, <4>3 DEF m
    <3> QED BY <3>1, <3>2, <3>3
  <2>10. LatestAddressFirst'
    <3>1. \A d : {j \in Live' : cache'[j].def.id = d} = NamedBy(d)
      BY <2>7 DEF NamedBy
    <3> QED BY <2>9, <3>1 DEF LatestAddressFirst
  <2> QED BY <2>1, <2>8, <2>10 DEF GenInv, Unique
<1>4. ASSUME NEW c \in Calls, CollectNew(c) PROVE GenInv'
  <2> DEFINE i == cache_last_index + 1
             After(d) == {j \in Live' : cache'[j].def.id = d}
  <2>1. /\ cache' = [cache EXCEPT ![i] = UpdateEntry(cache[i], c)]
        /\ gen' = Remember(c) /\ cache_last_index' = i
        /\ main' = "run" /\ CacheEnabled /\ Matches(c) = {}
    BY <1>4 DEF CollectNew, CallMade, CacheWith
  <2>2. /\ i \in Entries /\ Live' = Live \cup {i} /\ i \notin Live
        /\ i \in Nat /\ \A j \in Live : j < i
    <3>1. i \in Entries
      BY NextEntry
    <3>2. cache_last_index \in -1 .. FlushIndex /\ FlushIndex \in Nat
      BY <1>1, CacheAssumption DEF TypeOK
    <3> QED BY <2>1, <3>1, <3>2 DEF Live
  <2> HIDE DEF i
  <2>3. \A j \in Live' : cache'[j] = IF j = i THEN UpdateEntry(cache[i], c) ELSE cache[j]
    BY <1>1, <2>1, <2>2
  <2>4. /\ c.type \in DefTypes => cache'[i].def.id = c.id /\ cache'[i].def.addr = c.addr
        /\ c.type \notin DefTypes => cache'[i].def = cache[i].def
    BY <1>1, <2>2, <2>3, UpdateEntryDef
  <2>5. c.type \in DefTypes => NamedBy(c.id) = {}
    BY <2>1 DEF Matches, NamedBy, DefTypes, IUseTypes
  <2>6. \A d : /\ NamedBy(d) \subseteq After(d)
               /\ After(d) \subseteq NamedBy(d) \cup {i}
               /\ i \in After(d) <=> cache'[i].def.id = d
    BY <2>2, <2>3 DEF NamedBy
  <2>7. Unique(gen')
    BY <1>1, <2>1, RememberDefs
  <2>8. ASSUME NEW k \in 1 .. Len(gen'), gen'[k].kind \in DefKinds
        PROVE  /\ After(gen'[k].id) # {}
               /\ cache'[Min(After(gen'[k].id))].def.addr = gen'[k].addr
    <3>1. \/ /\ c.type \in DefTypes /\ gen'[k].id = c.id /\ gen'[k].addr = c.addr
          \/ /\ k \in 1 .. Len(gen) /\ gen'[k] = gen[k]
             /\ c.type \in DefTypes => gen[k].id # c.id
      BY <1>1, <2>1, <2>8, RememberDefs
    <3>2. CASE c.type \in DefTypes /\ gen'[k].id = c.id /\ gen'[k].addr = c.addr
      <4>1. After(gen'[k].id) = {i}
        BY <2>4, <2>5, <2>6, <3>2
      <4>2. Min({i}) \in {i}
        <5>1. {i} \in SUBSET Nat /\ {i} # {}
          BY <2>2
        <5> QED BY <5>1, MinIn
      <4> QED BY <2>4, <3>2, <4>1, <4>2
    <3>3. CASE /\ k \in 1 .. Len(gen) /\ gen'[k] = gen[k]
               /\ c.type \in DefTypes => gen[k].id # c.id
      <4> DEFINE m == Min(NamedBy(gen[k].id))
      <4>1. /\ NamedBy(gen[k].id) # {} /\ m \in NamedBy(gen[k].id)
            /\ \A j \in NamedBy(gen[k].id) : m <= j
            /\ cache[m].def.addr = gen[k].addr
        BY <1>2, <2>1, <2>8, <3>3
      <4> HIDE DEF m
      <4>2. m \in Live /\ m \in Nat /\ m < i
        BY <1>1, <2>2, <4>1 DEF NamedBy
      <4> DEFINE M == After(gen[k].id)
      <4>3. After(gen'[k].id) = M
        BY <3>3
      <4>4. NamedBy(gen[k].id) \subseteq M /\ M \subseteq NamedBy(gen[k].id) \cup {i}
        BY <2>2, <2>3 DEF NamedBy
      <4>5. M \in SUBSET Nat /\ M # {} /\ m \in M
        BY <1>1, <2>2, <4>1, <4>4
      <4> HIDE DEF M
      <4>6. Min(M) = m
        <5>1. Min(M) \in M /\ \A j \in M : Min(M) <= j
          BY <4>5, MinIn
        <5>2. \A j \in M : m <= j
          BY <4>1, <4>2, <4>4, <2>2
        <5>3. Min(M) \in Nat /\ Min(M) <= m /\ m <= Min(M)
          BY <4>5, <5>1, <5>2
        <5> QED BY <4>2, <5>3
      <4>7. cache'[m] = cache[m]
        BY <2>2, <2>3, <4>2
      <4> QED BY <3>3, <4>1, <4>3, <4>5, <4>6, <4>7 DEF M
    <3> QED BY <3>1, <3>2, <3>3
  <2>9. LatestAddressFirst'
    BY <2>8 DEF LatestAddressFirst
  <2> QED BY <2>1, <2>7, <2>9 DEF GenInv, Unique
<1>5. ASSUME gen' = << >> PROVE GenInv'
  BY <1>5 DEF GenInv, LatestAddressFirst
<1>6. ASSUME NEW c \in Calls, CollectLast(c) PROVE GenInv'
  BY <1>5, <1>6 DEF CollectLast, FlushCache
<1>7. CASE zexit
  BY <1>5, <1>7 DEF zexit, FlushCache
<1>8. CASE zinit
  BY <1>5, <1>8 DEF zinit, GenInv
<1>9. ASSUME NEW c \in Calls, Send(c) PROVE GenInv'
  BY <1>1, <1>9 DEF Send, CallMade, GenInv, LatestAddressFirst
<1>10. CASE Exit \/ Die \/ UNCHANGED vars
  <2>1. UNCHANGED <<cache, cache_last_index, gen>> /\ (main' = "start" => main = "start")
    BY <1>10 DEF Exit, Die, vars, libVars
  <2> QED BY <2>1 DEF GenInv, LatestAddressFirst, Live
<1> QED BY <1>3, <1>4, <1>6, <1>7, <1>8, <1>9, <1>10 DEF Next

(***************************************************************************)
(* The scan of zbouncer_collect_entry and its update in place agree on the *)
(* entry of a definition, whatever an incomplete memset left behind it.    *)
(***************************************************************************)
THEOREM LatestAddress == Spec => []LatestAddressFirst
<1>1. Init => GenInv
  <2> SUFFICES ASSUME Init PROVE GenInv
    OBVIOUS
  <2>1. gen = << >>
    BY DEF Init
  <2> QED BY <2>1 DEF GenInv, LatestAddressFirst
<1>2. GenInv => LatestAddressFirst
  BY DEF GenInv
<1> QED BY <1>1, <1>2, GenStep, Invariant, PTL DEF Spec

-----------------------------------------------------------------------------
(***************************************************************************)
(* What the first call of a generation makes of an empty entry, and a      *)
(* later definition of that entry, is what the flush reports of the call.  *)
(***************************************************************************)
LEMMA FirstUpdate ==
  ASSUME NEW c \in Call
  PROVE  /\ EntryEvent(UpdateEntry(ZeroEntry, c)) = CallEvent(c)
         /\ ZeroEntry \in CacheT
         /\ UpdateEntry(ZeroEntry, c) \in CacheT
         /\ c.type \in DefTypes <=> UpdateEntry(ZeroEntry, c).def.id # None
         /\ c.type \in DefTypes => UpdateEntry(ZeroEntry, c).def.id = c.id
<1>1. ZeroEntry \in CacheT
  BY DEF ZeroEntry, CacheT, UseT, None, Static
<1>2. c.id # None /\ c.type \in ENTRY_TYPE /\ c.def_size \in Nat
  BY DEF Call
<1>3. /\ c.type \in DefTypes <=> UpdateEntry(ZeroEntry, c).def.id # None
      /\ c.type \in DefTypes => UpdateEntry(ZeroEntry, c).def.id = c.id
  BY <1>2, UpdateEntryDef DEF ZeroEntry
<1>4. EntryEvent(UpdateEntry(ZeroEntry, c)) = CallEvent(c)
  <2>1. CASE c.type \in DefTypes
    BY <1>2, <2>1 DEF UpdateEntry, SetDef, EntryEvent, EntryKind, CallEvent, MakeEvent, ZeroEntry,
       DefTypes, UseTypes, IUseTypes, None
  <2>2. CASE c.type \in UseTypes
    BY <1>2, <2>2 DEF UpdateEntry, SetUse, EntryEvent, EntryKind, CallEvent, MakeEvent, ZeroEntry,
       DefTypes, UseTypes, IUseTypes, None
  <2>3. CASE c.type \in IUseTypes
    BY <1>2, <2>3 DEF UpdateEntry, SetIUse, EntryEvent, EntryKind, CallEvent, MakeEvent, ZeroEntry,
       DefTypes, UseTypes, IUseTypes, None
  <2> QED BY <1>2, <2>1, <2>2, <2>3 DEF ENTRY_TYPE, DefTypes, UseTypes, IUseTypes
<1> QED BY <1>1, <1>3, <1>4, UpdateEntryType

LEMMA NextUpdate ==
  ASSUME IdsByKind, Calls \subseteq Call, NEW c \in Calls, NEW d \in Calls,
         c.type \in DefTypes, d.type \in DefTypes, c.id = d.id
  PROVE  UpdateEntry(UpdateEntry(ZeroEntry, d), c) = UpdateEntry(ZeroEntry, c)
<1>1. c.type = "def" /\ d.type = "dalloca" => d.def_size = 0
  BY DEF IdsByKind
<1>2. c.type \in {"def", "dalloca"} /\ d.type \in {"def", "dalloca"}
  BY DEF DefTypes
<1>3. UpdateEntry(ZeroEntry, d).def.size = IF d.type = "dalloca" THEN d.def_size ELSE 0
  BY DEF UpdateEntry, SetDef, ZeroEntry
<1>4. UpdateEntry(ZeroEntry, d).use = ZeroEntry.use /\ UpdateEntry(ZeroEntry, d).iuse = ZeroEntry.iuse
  BY DEF UpdateEntry, SetDef
<1>5. ZeroEntry.def.size = 0
  BY DEF ZeroEntry
<1> HIDE DEF ZeroEntry
<1> DEFINE one == UpdateEntry(ZeroEntry, d)
<1>6. UpdateEntry(one, c) =
        [def |-> [id |-> c.id, addr |-> c.addr,
                  size |-> IF c.type = "dalloca" THEN c.def_size ELSE one.def.size],
         use |-> one.use, iuse |-> one.iuse]
  BY DEF UpdateEntry, SetDef
<1>7. UpdateEntry(ZeroEntry, c) =
        [def |-> [id |-> c.id, addr |-> c.addr,
                  size |-> IF c.type = "dalloca" THEN c.def_size ELSE 0],
         use |-> ZeroEntry.use, iuse |-> ZeroEntry.iuse]
  BY <1>5 DEF UpdateEntry, SetDef
<1>8. c.type # "dalloca" => one.def.size = 0
  BY <1>1, <1>2, <1>3
<1> HIDE DEF one
<1> QED BY <1>4, <1>6, <1>7, <1>8 DEF one

(***************************************************************************)
(* In a short generation the places of a definition in the history are the *)
(* entries that the scan finds.                                            *)
(***************************************************************************)
LEMMA PlaceOfEntry ==
  ASSUME TypeOK, IdsByKind, PrefixInv, CacheEnabled, cache_last_index + 1 < Cleared,
         NEW c \in Calls
  PROVE  /\ Matches(c) # {} => c.type \in DefTypes
         /\ c.type \in DefTypes => \A k \in 1 .. Len(gen) : k \in GenPlace(c) <=> k - 1 \in Matches(c)
<1>1. Calls \subseteq Call /\ c \in Call /\ c.id # None
  BY CacheAssumption DEF Call
<1>2. /\ Len(gen) = cache_last_index + 1 /\ cache_last_index \in Int
      /\ \A i \in Live : \E d \in Calls :
           cache[i] = UpdateEntry(ZeroEntry, d) /\ gen[i + 1] = CallEvent(d)
  BY CacheAssumption DEF PrefixInv, TypeOK
<1>3. ASSUME NEW i \in Live
      PROVE  \E d \in Calls : /\ cache[i] = UpdateEntry(ZeroEntry, d)
                              /\ cache[i].def.id = c.id => d.type \in DefTypes /\ d.id = c.id
                              /\ d.type \in DefTypes => cache[i].def.id = d.id
                              /\ gen[i + 1].id = d.id
                              /\ gen[i + 1].kind \in DefKinds <=> d.type \in DefTypes
  <2>1. PICK d \in Calls : cache[i] = UpdateEntry(ZeroEntry, d) /\ gen[i + 1] = CallEvent(d)
    BY <1>2
  <2>2. d \in Call
    BY <1>1
  <2> QED BY <1>1, <2>1, <2>2, FirstUpdate, CallEventParts
<1>4. ASSUME NEW i \in Matches(c) PROVE c.type \in DefTypes
  <2>1. i \in Live /\ cache[i].def.id = c.id
    BY DEF Matches
  <2>2. PICK d \in Calls : d.type \in DefTypes /\ d.id = c.id
    BY <1>3, <2>1
  <2> QED BY <2>2 DEF IdsByKind
<1>5. ASSUME c.type \in DefTypes, NEW k \in 1 .. Len(gen)
      PROVE  k \in GenPlace(c) <=> k - 1 \in Matches(c)
  <2>1. k - 1 \in Live /\ (k - 1) + 1 = k
    BY <1>2 DEF Live
  <2>2. k - 1 \in Matches(c) <=> cache[k - 1].def.id = c.id
    BY <1>5, <2>1 DEF Matches, DefTypes, IUseTypes
  <2>3. k \in GenPlace(c) <=> gen[k].kind \in DefKinds /\ gen[k].id = c.id
    BY DEF GenPlace
  <2> QED BY <1>3, <2>1, <2>2, <2>3
<1> QED BY <1>4, <1>5

LEMMA PrefixStep ==
  ASSUME IdsByKind
  PROVE  IInv /\ GenInv /\ PrefixInv /\ [Next]_vars => PrefixInv'
<1> SUFFICES ASSUME IInv, GenInv, PrefixInv, [Next]_vars, CacheEnabled,
                    (cache_last_index + 1 < Cleared)'
             PROVE  /\ Len(gen') = cache_last_index' + 1
                    /\ \A i \in Live' : \E c \in Calls :
                         cache'[i] = UpdateEntry(ZeroEntry, c) /\ gen'[i + 1] = CallEvent(c)
                    /\ \A i \in Entries : cache_last_index' < i /\ i < Cleared => cache'[i] = ZeroEntry
  BY DEF PrefixInv
<1>1. /\ TypeOK /\ cache \in [Entries -> CacheT] /\ Calls \subseteq Call
      /\ Cleared \in Nat /\ Cleared <= CacheSize /\ CacheSize \in Nat
      /\ Live \subseteq Entries /\ Live \subseteq Nat
      /\ gen \in Seq(Event) /\ cache_last_index \in Int /\ cache_last_index >= -1
  BY CacheAssumption DEF IInv, TypeOK, Live, Entries
<1>2. ASSUME cache_last_index + 1 < Cleared
      PROVE  /\ Len(gen) = cache_last_index + 1
             /\ \A i \in Live : \E c \in Calls :
                  cache[i] = UpdateEntry(ZeroEntry, c) /\ gen[i + 1] = CallEvent(c)
             /\ \A i \in Entries : cache_last_index < i /\ i < Cleared => cache[i] = ZeroEntry
  BY <1>2 DEF PrefixInv
<1>3. ASSUME NEW c \in Calls, CollectAgain(c)
      PROVE  /\ Len(gen') = cache_last_index' + 1
             /\ \A i \in Live' : \E d \in Calls :
                  cache'[i] = UpdateEntry(ZeroEntry, d) /\ gen'[i + 1] = CallEvent(d)
             /\ \A i \in Entries : cache_last_index' < i /\ i < Cleared => cache'[i] = ZeroEntry
  <2> DEFINE i == Min(Matches(c))
  <2>1. /\ cache' = [cache EXCEPT ![i] = UpdateEntry(cache[i], c)]
        /\ gen' = Remember(c) /\ cache_last_index' = cache_last_index
        /\ Matches(c) # {}
    BY <1>3 DEF CollectAgain
  <2>2. /\ Len(gen) = cache_last_index + 1
        /\ \A j \in Live : \E d \in Calls :
             cache[j] = UpdateEntry(ZeroEntry, d) /\ gen[j + 1] = CallEvent(d)
        /\ \A j \in Entries : cache_last_index < j /\ j < Cleared => cache[j] = ZeroEntry
    BY <1>2, <2>1
  <2>3. Matches(c) \in SUBSET Nat /\ Matches(c) \subseteq Live
    BY <1>1 DEF Matches
  <2>4. i \in Matches(c) /\ \A j \in Matches(c) : i <= j
    BY <2>1, <2>3, MinIn
  <2>5. /\ c.type \in DefTypes
        /\ \A k \in 1 .. Len(gen) : k \in GenPlace(c) <=> k - 1 \in Matches(c)
    BY <1>1, <2>1, PlaceOfEntry
  <2> HIDE DEF i
  <2>6. i \in Live /\ i \in Nat /\ i + 1 \in 1 .. Len(gen)
    BY <1>1, <2>2, <2>3, <2>4 DEF Live
  <2>7. i + 1 \in GenPlace(c) /\ \A k \in GenPlace(c) : i + 1 <= k
    <3>1. GenPlace(c) \subseteq 1 .. Len(gen)
      BY DEF GenPlace
    <3>2. i + 1 \in GenPlace(c)
      BY <2>4, <2>5, <2>6
    <3>3. ASSUME NEW k \in GenPlace(c) PROVE i + 1 <= k
      <4>1. k \in 1 .. Len(gen) /\ k - 1 \in Matches(c)
        BY <2>5, <3>1
      <4>2. i <= k - 1
        BY <2>4, <4>1
      <4> QED BY <2>6, <4>1, <4>2
    <3> QED BY <3>2, <3>3
  <2>8. Min(GenPlace(c)) = i + 1
    <3>1. GenPlace(c) \in SUBSET Nat
      BY <1>1 DEF GenPlace
    <3>2. Min(GenPlace(c)) \in GenPlace(c) /\ Min(GenPlace(c)) <= i + 1
      BY <2>7, <3>1, MinIn
    <3>3. i + 1 <= Min(GenPlace(c)) /\ Min(GenPlace(c)) \in Nat
      BY <2>7, <3>1, <3>2
    <3> QED BY <2>6, <3>2, <3>3
  <2>9. gen' = [gen EXCEPT ![i + 1] = CallEvent(c)]
    BY <2>1, <2>5, <2>7, <2>8 DEF Remember
  <2>10. /\ Len(gen') = Len(gen) /\ gen'[i + 1] = CallEvent(c)
         /\ \A k \in 1 .. Len(gen) : k # i + 1 => gen'[k] = gen[k]
    BY <1>1, <2>6, <2>9
  <2>11. cache'[i] = UpdateEntry(ZeroEntry, c)
    <3>1. PICK d \in Calls : cache[i] = UpdateEntry(ZeroEntry, d)
      BY <2>2, <2>6
    <3>2. d \in Call /\ c \in Call /\ c.id # None /\ cache[i].def.id = c.id
      BY <1>1, <2>4 DEF Matches, Call
    <3>3. d.type \in DefTypes /\ d.id = c.id
      BY <3>1, <3>2, FirstUpdate
    <3>4. UpdateEntry(cache[i], c) = UpdateEntry(ZeroEntry, c)
      BY <1>1, <2>5, <3>1, <3>3, NextUpdate
    <3> QED BY <1>1, <2>1, <2>6, <3>4
  <2>12. \A j \in Entries : j # i => cache'[j] = cache[j]
    BY <1>1, <2>1
  <2>13. ASSUME NEW j \in Live'
         PROVE  \E d \in Calls : cache'[j] = UpdateEntry(ZeroEntry, d) /\ gen'[j + 1] = CallEvent(d)
    <3>1. CASE j = i
      BY <2>10, <2>11, <3>1
    <3>2. CASE j # i
      <4>1. j \in Live /\ j \in Entries /\ j + 1 \in 1 .. Len(gen) /\ j + 1 # i + 1
        BY <1>1, <2>1, <2>2, <2>6, <3>2 DEF Live
      <4> QED BY <2>2, <2>10, <2>12, <3>2, <4>1
    <3> QED BY <3>1, <3>2
  <2>14. \A j \in Entries : cache_last_index' < j /\ j < Cleared => cache'[j] = ZeroEntry
    <3>1. i <= cache_last_index
      BY <2>6 DEF Live
    <3> QED BY <1>1, <2>1, <2>2, <2>6, <2>12, <3>1 DEF Entries
  <2> QED BY <2>1, <2>2, <2>10, <2>13, <2>14
<1>4. ASSUME NEW c \in Calls, CollectNew(c)
      PROVE  /\ Len(gen') = cache_last_index' + 1
             /\ \A i \in Live' : \E d \in Calls :
                  cache'[i] = UpdateEntry(ZeroEntry, d) /\ gen'[i + 1] = CallEvent(d)
             /\ \A i \in Entries : cache_last_index' < i /\ i < Cleared => cache'[i] = ZeroEntry
  <2> DEFINE i == cache_last_index + 1
  <2>1. /\ cache' = [cache EXCEPT ![i] = UpdateEntry(cache[i], c)]
        /\ gen' = Remember(c) /\ cache_last_index' = i /\ Matches(c) = {}
    BY <1>4 DEF CollectNew, CacheWith
  <2>2. i \in Nat /\ i + 1 < Cleared /\ cache_last_index + 1 < Cleared /\ cache_last_index < i
        /\ i < Cleared /\ i \in Entries
    BY <1>1, <2>1 DEF Entries
  <2>3. /\ Len(gen) = i
        /\ \A j \in Live : \E d \in Calls :
             cache[j] = UpdateEntry(ZeroEntry, d) /\ gen[j + 1] = CallEvent(d)
        /\ \A j \in Entries : cache_last_index < j /\ j < Cleared => cache[j] = ZeroEntry
    BY <1>2, <2>2
  <2>4. Remember(c) = Append(gen, CallEvent(c))
    <3>1. c.type \in DefTypes => GenPlace(c) = {}
      <4>1. GenPlace(c) \subseteq 1 .. Len(gen)
        BY DEF GenPlace
      <4> QED BY <1>1, <2>1, <2>2, <4>1, PlaceOfEntry
    <3> QED BY <3>1 DEF Remember
  <2>5. /\ Len(gen') = i + 1 /\ gen'[i + 1] = CallEvent(c)
        /\ \A k \in 1 .. i : gen'[k] = gen[k]
    BY <1>1, <2>1, <2>3, <2>4
  <2>6. cache[i] = ZeroEntry
    BY <2>2, <2>3
  <2>7. /\ cache'[i] = UpdateEntry(ZeroEntry, c)
        /\ \A j \in Entries : j # i => cache'[j] = cache[j]
    BY <1>1, <2>1, <2>2, <2>6
  <2>8. ASSUME NEW j \in Live'
        PROVE  \E d \in Calls : cache'[j] = UpdateEntry(ZeroEntry, d) /\ gen'[j + 1] = CallEvent(d)
    <3>1. CASE j = i
      BY <2>5, <2>7, <3>1
    <3>2. CASE j # i
      <4>1. j \in Live /\ j \in Entries /\ j + 1 \in 1 .. i
        BY <1>1, <2>1, <2>2, <3>2 DEF Live, Entries
      <4> QED BY <2>3, <2>5, <2>7, <3>2, <4>1
    <3> QED BY <3>1, <3>2
  <2>9. \A j \in Entries : cache_last_index' < j /\ j < Cleared => cache'[j] = ZeroEntry
    <3> SUFFICES ASSUME NEW j \in Entries, i < j, j < Cleared PROVE cache'[j] = ZeroEntry
      BY <2>1
    <3>1. j # i /\ cache_last_index < j
      BY <1>1, <2>2 DEF Entries
    <3> QED BY <2>3, <2>7, <3>1
  <2> QED BY <2>1, <2>5, <2>8, <2>9
<1>5. ASSUME cache_last_index' = -1, gen' = << >>,
             \A i \in Entries : i < Cleared => cache'[i] = ZeroEntry
      PROVE  /\ Len(gen') = cache_last_index' + 1
             /\ \A i \in Live' : \E d \in Calls :
                  cache'[i] = UpdateEntry(ZeroEntry, d) /\ gen'[i + 1] = CallEvent(d)
             /\ \A i \in Entries : cache_last_index' < i /\ i < Cleared => cache'[i] = ZeroEntry
  <2>1. Live' = {}
    BY <1>5 DEF Live
  <2> QED BY <1>5, <2>1
<1>6. ASSUME NEW buf, FlushCache(buf)
      PROVE  /\ Len(gen') = cache_last_index' + 1
             /\ \A i \in Live' : \E d \in Calls :
                  cache'[i] = UpdateEntry(ZeroEntry, d) /\ gen'[i + 1] = CallEvent(d)
             /\ \A i \in Entries : cache_last_index' < i /\ i < Cleared => cache'[i] = ZeroEntry
  BY <1>5, <1>6 DEF FlushCache, ClearPrefix
<1>7. ASSUME NEW c \in Calls, CollectLast(c) PROVE FlushCache(CacheWith(c))
  BY <1>7 DEF CollectLast
<1>8. CASE zexit
  BY <1>6, <1>8 DEF zexit
<1>9. CASE zinit
  <2>1. cache_last_index' = -1 /\ gen' = << >> /\ cache' = ZeroCache
    BY <1>9 DEF zinit, IInv, GenInv
  <2> QED BY <1>5, <2>1 DEF ZeroCache
<1>10. \A c \in Calls : ~Send(c)
  BY DEF Send
<1>11. CASE Exit \/ Die \/ UNCHANGED vars
  <2>1. UNCHANGED <<cache, cache_last_index, gen>>
    BY <1>11 DEF Exit, Die, vars, libVars
  <2> QED BY <1>2, <2>1 DEF Live
<1> QED BY <1>3, <1>4, <1>6, <1>7, <1>8, <1>9, <1>10, <1>11 DEF Next

(***************************************************************************)
(* A short last generation reaches the trace as it was reported: all of    *)
(* it, in order and nothing else, provided that identifiers are given out  *)
(* the way svf-ex and Zbouncer give them out.                              *)
(***************************************************************************)
THEOREM ShortGeneration ==
  ASSUME IdsByKind
  PROVE  Spec => ShortGenerationExact
<1>1. Init => PrefixInv
  <2> SUFFICES ASSUME Init PROVE PrefixInv
    OBVIOUS
  <2>1. gen = << >> /\ cache_last_index = -1 /\ cache = ZeroCache /\ Live = {}
    BY DEF Init, Live
  <2> QED BY <2>1 DEF PrefixInv, ZeroCache
<1>2. Init => GenInv
  <2> SUFFICES ASSUME Init PROVE GenInv
    OBVIOUS
  <2>1. gen = << >>
    BY DEF Init
  <2> QED BY <2>1 DEF GenInv, LatestAddressFirst
<1>3. ASSUME IInv, PrefixInv, [Next]_vars, main = "run", main' = "returned", log' # log,
             cache_last_index + 1 < Cleared
      PROVE  log' = log \o gen
  <2>1. zexit
    BY <1>3 DEF Next, zinit, CollectAgain, CollectNew, CollectLast, Send, CallMade, Exit, Die, vars,
       libVars
  <2>2. CacheEnabled /\ TA!FlushCache(cache)
    BY <1>3, <2>1 DEF zexit, FlushCache, Invoke, taVars
  <2>3. /\ Len(gen) = cache_last_index + 1 /\ gen \in Seq(Event) /\ Calls \subseteq Call
        /\ cache_last_index \in Int /\ cache_last_index >= -1 /\ Cleared <= CacheSize
        /\ Cleared \in Nat /\ CacheSize \in Nat
        /\ \A i \in Live : \E c \in Calls :
             cache[i] = UpdateEntry(ZeroEntry, c) /\ gen[i + 1] = CallEvent(c)
        /\ \A i \in Entries : cache_last_index < i /\ i < Cleared => cache[i] = ZeroEntry
    BY <1>3, <2>2, CacheAssumption DEF PrefixInv, IInv, TypeOK
  <2> DEFINE n == TA!FlushCount(cache)
  <2>4. /\ n \in 0 .. CacheSize
        /\ \A i \in 0 .. n - 1 : TA!Emits(cache[i])
        /\ n = CacheSize \/ ~TA!Emits(cache[n])
    BY FlushCountIsPrefix
  <2> HIDE DEF n
  <2>5. n = cache_last_index + 1
    <3>1. cache_last_index + 1 \in Entries
      BY <1>3, <2>3 DEF Entries
    <3>2. cache[cache_last_index + 1] = ZeroEntry
      BY <1>3, <2>3, <3>1
    <3>3. ~TA!Emits(ZeroEntry)
      BY SameEvents DEF EntryKind, ZeroEntry, None
    <3>4. ~(cache_last_index + 1 \in 0 .. n - 1)
      BY <2>4, <3>2, <3>3
    <3>5. n \notin Live
      <4> SUFFICES ASSUME n \in Live PROVE FALSE
        OBVIOUS
      <4>1. n # CacheSize
        BY <1>3, <2>3, <2>4 DEF Live
      <4>2. TA!Emits(cache[n])
        BY <1>3, <2>2 DEF IInv, LiveEntriesEmit
      <4> QED BY <2>4, <4>1, <4>2
    <3> QED BY <1>3, <2>3, <2>4, <3>4, <3>5 DEF Live
  <2>6. \A k \in 1 .. n : TA!EntryEvent(cache[k - 1]) = gen[k]
    <3> SUFFICES ASSUME NEW k \in 1 .. n PROVE EntryEvent(cache[k - 1]) = gen[k]
      BY SameEvents
    <3>1. k - 1 \in Live /\ (k - 1) + 1 = k
      BY <2>3, <2>5 DEF Live
    <3>2. PICK c \in Calls : cache[k - 1] = UpdateEntry(ZeroEntry, c) /\ gen[k] = CallEvent(c)
      BY <2>3, <3>1
    <3> QED BY <2>3, <3>2, FirstUpdate
  <2>7. gen = [k \in 1 .. n |-> gen[k]]
    BY <2>3, <2>5
  <2>8. log' = log \o [k \in 1 .. n |-> TA!EntryEvent(cache[k - 1])]
    BY <2>2 DEF TA!FlushCache, n
  <2>9. [k \in 1 .. n |-> TA!EntryEvent(cache[k - 1])] = [k \in 1 .. n |-> gen[k]]
    BY <2>6
  <2> QED BY <2>7, <2>8, <2>9
<1>4. IInv /\ PrefixInv /\ [Next]_vars =>
        [(main = "run" /\ main' = "returned" /\ log' # log
            /\ cache_last_index + 1 < Cleared) => log' = log \o gen]_vars
  BY <1>3
<1>5. IInv /\ GenInv /\ PrefixInv /\ [Next]_vars => PrefixInv'
  BY PrefixStep
<1> QED BY <1>1, <1>2, <1>4, <1>5, GenStep, Invariant, PTL DEF Spec, ShortGenerationExact
=============================================================================
