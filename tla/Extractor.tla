------------------------------ MODULE Extractor -----------------------------
(***************************************************************************)
(* The protected process, the child that zinit forks to carry the trace    *)
(* out of the trusted application, the connections it opens, and the       *)
(* receiving half of the verifier: the thread that turns each connection   *)
(* into one item of data_queue and the loop that takes the items out.      *)
(*                                                                         *)
(* Parent and child are scheduled independently; they meet only in the     *)
(* trusted application and in the child's getppid.                         *)
(***************************************************************************)
EXTENDS TraceEntry, SequencesExt

CONSTANTS TraceSize, CopySize, CacheSize, FlushIndex, Cleared,
          CacheEnabled, TeeFaults, Calls, MaxCalls,
          FileFaults,   \* may fopen fail?
          NetFaults,    \* may a connection be refused or reset?
          MaxRounds     \* bound on the periodic extractions of a run

\* The sizes are those of Libzbouncer, with what it assumes of them.
ASSUME ExtractorAssumption ==
  /\ TraceSize \in Nat /\ CopySize \in Nat
  /\ 0 < CopySize /\ CopySize <= TraceSize /\ CacheSize <= TraceSize
  /\ CacheSize \in Nat /\ FlushIndex \in Nat /\ Cleared \in Nat
  /\ FlushIndex + 1 < CacheSize - 1
  /\ Cleared <= CacheSize
  /\ CacheEnabled \in BOOLEAN /\ TeeFaults \in BOOLEAN
  /\ Calls \subseteq Call
  /\ MaxCalls \in Nat
  /\ FileFaults \in BOOLEAN /\ NetFaults \in BOOLEAN
  /\ MaxRounds \in Nat

VARIABLES
  dynamic_trace, trace_id, func_ctr, log,
  cache, cache_last_index, main, total, calls, recorded, gen,
  pc,          \* where the child is in its loop
  final,       \* did getppid return another parent in this round?
  rounds,      \* extractions started (bounds a run)
  failed,      \* history: what failed in this round, "copy" or "transport"
  shared,      \* the buffer sharedExtractor
  file,        \* the lines of trace.txt
  line,        \* the getline buffer: "null" or, once freed, "freed"
  sent,        \* lines of trace.txt already sent on this connection
  wire,        \* connections the receiver has not finished, in order
  receiver,    \* the receiver thread: "up" or "down"
  data_queue,  \* traces received and not yet verified
  verified,    \* the trace the verifier took last
  proof        \* history: the trace of a completed final extraction

Lib == INSTANCE Libzbouncer
TA  == INSTANCE ZbouncerTA

taVars    == <<dynamic_trace, trace_id, func_ctr, log>>
libVars   == <<taVars, cache, cache_last_index, main, total, calls, recorded, gen>>
roundVars == <<final, rounds, failed>>
dataVars  == <<shared, file, line, sent>>
rxVars    == <<receiver, data_queue, verified>>
vars == <<libVars, pc, roundVars, dataVars, wire, rxVars, proof>>

ChildPC == {"unborn", "sleep", "copy", "write", "connect", "open",
            "send", "close", "dead"}

\* What a connection carries; "INFO" is sent after the last line.
Trace      == [lines : Seq(Event), info : BOOLEAN]
Connection == [trace : Trace, state : {"open", "closed", "reset"}]
NoTrace    == [lines |-> << >>, info |-> FALSE]

TypeOK ==
  /\ Lib!TypeOK
  /\ pc \in ChildPC
  /\ final \in BOOLEAN
  /\ rounds \in 0 .. MaxRounds + 1
  /\ failed \subseteq {"copy", "transport"}
  /\ shared \in [TA!Slots -> UseT]
  /\ file \in Seq(Event)
  /\ line \in {"null", "freed"}
  /\ sent \in 0 .. Len(file)
  /\ wire \in Seq(Connection)
  /\ receiver \in {"up", "down"}
  /\ data_queue \in Seq(Trace)
  /\ verified \in Trace
  /\ proof \in Trace

Init ==
  /\ Lib!Init
  /\ pc = "unborn"
  /\ final = FALSE
  /\ rounds = 0
  /\ failed = {}
  /\ shared = [s \in TA!Slots |-> ZeroEntry]
  /\ file = << >>
  /\ line = "null"
  /\ sent = 0
  /\ wire = << >>
  /\ receiver = "up"
  /\ data_queue = << >>
  /\ verified = NoTrace
  /\ proof = NoTrace

-----------------------------------------------------------------------------
\* The parent: zinit also forks the child, the rest is the library's.
Fork ==
  /\ Lib!zinit
  /\ pc' = "sleep"
  /\ UNCHANGED <<roundVars, dataVars, wire, rxVars, proof>>

Parent ==
  /\ \/ \E c \in Calls : Lib!Collect(c)
     \/ Lib!zexit
     \/ Lib!Exit
     \/ Lib!Die
  /\ UNCHANGED <<pc, roundVars, dataVars, wire, rxVars, proof>>

Orphan == main \in {"exited", "dead"}

-----------------------------------------------------------------------------
\* Mutant: the child never notices that its parent is gone.
WakeNoParentTest ==
  /\ pc = "sleep"
  /\ rounds < MaxRounds \/ (Orphan /\ rounds = MaxRounds)
  /\ final' = FALSE
  /\ rounds' = rounds + 1
  /\ failed' = {}
  /\ pc' = "copy"
  /\ UNCHANGED <<libVars, dataVars, wire, rxVars, proof>>

\* sleep(5) is over and getppid is compared with the pid noted by zinit.
Wake ==
  /\ pc = "sleep"
  /\ rounds < MaxRounds \/ (Orphan /\ rounds = MaxRounds)
  /\ final' = Orphan
  /\ rounds' = rounds + 1
  /\ failed' = {}
  /\ pc' = "copy"
  /\ UNCHANGED <<libVars, dataVars, wire, rxVars, proof>>

Fails(what) == failed' = failed \cup {what}

\* GOTVALUE; when it fails the buffer keeps the previous extraction.
GotValue ==
  /\ pc = "copy"
  /\ \/ shared' = TA!CopyTrace(shared) /\ UNCHANGED failed
     \/ TeeFaults /\ Fails("copy") /\ UNCHANGED shared
  /\ pc' = "write"
  /\ UNCHANGED <<libVars, final, rounds, file, line, sent, wire, rxVars, proof>>

\* The end of a round: the last one closes the session and exits.
AfterRound == IF final THEN "dead" ELSE "sleep"

\* The lines of slots 0 .. TRACE_SIZE - 1, in the order of the slots.
TraceLines(slots) ==
  FlattenSeq([k \in 1 .. TraceSize |-> PrintedLines(slots[k - 1])])

\* Mutant: getppid is asked after the trace has been copied.
WriteTraceLateTest ==
  /\ pc = "write"
  /\ final' = Orphan
  /\ \/ /\ file' = TraceLines(shared)
        /\ sent' = 0
        /\ pc' = "connect"
        /\ UNCHANGED failed
     \/ /\ FileFaults
        /\ Fails("transport")
        /\ pc' = IF final' THEN "dead" ELSE "sleep"
        /\ UNCHANGED <<file, sent>>
  /\ UNCHANGED <<libVars, rounds, shared, line, wire, rxVars, proof>>

WriteTrace ==
  /\ pc = "write"
  /\ \/ /\ file' = TraceLines(shared)
        /\ sent' = 0
        /\ pc' = "connect"
        /\ UNCHANGED failed
     \/ /\ FileFaults
        /\ Fails("transport")
        /\ pc' = AfterRound
        /\ UNCHANGED <<file, sent>>
  /\ UNCHANGED <<libVars, final, rounds, shared, line, wire, rxVars, proof>>

\* open_socket; without a connection the child exits.
Connect ==
  /\ pc = "connect"
  /\ \/ /\ receiver = "up"
        /\ wire' = Append(wire, [trace |-> NoTrace, state |-> "open"])
        /\ pc' = "open"
        /\ UNCHANGED failed
     \/ /\ NetFaults \/ receiver = "down"
        /\ Fails("transport")
        /\ pc' = "dead"
        /\ UNCHANGED wire
  /\ UNCHANGED <<libVars, final, rounds, dataVars, rxVars, proof>>

OpenTrace ==
  /\ pc = "open"
  /\ \/ pc' = "send" /\ UNCHANGED failed
     \/ FileFaults /\ Fails("transport") /\ pc' = "close"
  /\ UNCHANGED <<libVars, final, rounds, dataVars, wire, rxVars, proof>>

\* The connection of this round, unless it was reset and forgotten.
Connected == wire # << >> /\ Last(wire).state = "open"

(***************************************************************************)
(* send on a connection that is gone reports an error nobody reads, or     *)
(* raises SIGPIPE.                                                         *)
(***************************************************************************)
Put(trace) ==
  IF Connected
  THEN wire' = [wire EXCEPT ![Len(wire)].trace = trace]
  ELSE UNCHANGED wire

(***************************************************************************)
(* Each getline after the first extraction is handed the pointer that the  *)
(* previous extraction freed: the line arrives, or the process is aborted. *)
(***************************************************************************)
SendLine ==
  /\ pc = "send"
  /\ sent < Len(file)
  /\ Put([lines |-> SubSeq(file, 1, sent + 1), info |-> FALSE])
  /\ sent' = sent + 1
  /\ UNCHANGED <<libVars, pc, roundVars, shared, file, line, rxVars, proof>>

\* End of file: free(line), then the INFO line.
SendInfo ==
  /\ pc = "send"
  /\ sent = Len(file)
  /\ line' = "freed"
  /\ Put([lines |-> file, info |-> TRUE])
  /\ proof' = IF final /\ Connected
              THEN [lines |-> file, info |-> TRUE] ELSE proof
  /\ pc' = "close"
  /\ UNCHANGED <<libVars, roundVars, shared, file, sent, rxVars>>

\* The kernel closes the connection for close and for any end of the child.
Hangup(w) ==
  IF w # << >> /\ Last(w).state = "open"
  THEN [w EXCEPT ![Len(w)].state = "closed"] ELSE w

Close ==
  /\ pc = "close"
  /\ wire' = Hangup(wire)
  /\ pc' = AfterRound
  /\ UNCHANGED <<libVars, roundVars, dataVars, rxVars, proof>>

\* Mutant: a failed send gives up the round, not the child.
AbortRound ==
  /\ \/ line = "freed" /\ pc \in {"write", "open", "send"}
     \/ pc = "send" /\ ~Connected
  /\ pc' = AfterRound
  /\ wire' = Hangup(wire)
  /\ UNCHANGED <<libVars, roundVars, dataVars, rxVars, proof>>

\* SIGPIPE, or the heap noticing that line was used and freed after free.
Abort ==
  /\ \/ line = "freed" /\ pc \in {"write", "open", "send"}
     \/ pc = "send" /\ ~Connected
  /\ pc' = "dead"
  /\ wire' = Hangup(wire)
  /\ UNCHANGED <<libVars, roundVars, dataVars, rxVars, proof>>

-----------------------------------------------------------------------------
\* The first connection of the backlog has reached its end of file.
Receive ==
  /\ receiver = "up"
  /\ wire # << >>
  /\ Head(wire).state = "closed"
  /\ data_queue' = Append(data_queue, Head(wire).trace)
  /\ wire' = Tail(wire)
  /\ UNCHANGED <<libVars, pc, roundVars, dataVars, receiver, verified, proof>>

\* The network resets the connection the receiver is reading.
Reset ==
  /\ NetFaults
  /\ receiver = "up"
  /\ wire # << >>
  /\ Head(wire).state # "reset"
  /\ wire' = [wire EXCEPT ![1].state = "reset"]
  /\ Fails("transport")
  /\ UNCHANGED <<libVars, pc, final, rounds, dataVars, rxVars, proof>>

\* recv raises: the handler is outside the loop, the thread is over.
ReceiverFails ==
  /\ receiver = "up"
  /\ wire # << >>
  /\ Head(wire).state = "reset"
  /\ receiver' = "down"
  /\ wire' = << >>
  /\ UNCHANGED <<libVars, pc, roundVars, dataVars, data_queue, verified, proof>>

\* Mutant: the newest trace first.
VerifyNewest ==
  /\ data_queue # << >>
  /\ verified' = Last(data_queue)
  /\ data_queue' = Front(data_queue)
  /\ UNCHANGED <<libVars, pc, roundVars, dataVars, wire, receiver, proof>>

\* The main loop of the verifier takes the oldest trace.
Verify ==
  /\ data_queue # << >>
  /\ verified' = Head(data_queue)
  /\ data_queue' = Tail(data_queue)
  /\ UNCHANGED <<libVars, pc, roundVars, dataVars, wire, receiver, proof>>

Next ==
  \/ Fork \/ Parent
  \/ Wake \/ GotValue \/ WriteTrace \/ Connect \/ OpenTrace
  \/ SendLine \/ SendInfo \/ Close \/ Abort
  \/ Receive \/ Reset \/ ReceiverFails \/ Verify

Spec == Init /\ [][Next]_vars

(***************************************************************************)
(* The schedulers of both machines run every process that can run.  The    *)
(* parent owes nothing: the program need not call the library or end.      *)
(***************************************************************************)
Fairness ==
  /\ WF_vars(Wake \/ GotValue \/ WriteTrace \/ Connect \/ OpenTrace
             \/ SendLine \/ SendInfo \/ Close)
  /\ WF_vars(Receive \/ ReceiverFails)
  /\ WF_vars(Verify)

FairSpec == Spec /\ Fairness

-----------------------------------------------------------------------------
\* What GOTVALUE can still hand out, in an array that was empty.
Exported == TA!CopyTrace([s \in TA!Slots |-> ZeroEntry])

(***************************************************************************)
(* A completed final extraction carries everything the application still   *)
(* exports, unless GOTVALUE failed: the child tests for the death of its   *)
(* parent before it copies, so no flush can slip in between the copy and   *)
(* the decision to stop.                                                   *)
(***************************************************************************)
FinalTraceComplete ==
  proof.info /\ "copy" \notin failed => proof.lines = TraceLines(Exported)

\* The traces in flight, oldest first, and the file behind them.
Pipeline ==
  << verified >> \o data_queue \o [k \in 1 .. Len(wire) |-> wire[k].trace]
    \o << [lines |-> file, info |-> TRUE] >>

(***************************************************************************)
(* Until the ring wraps, every complete trace extends the ones before it:  *)
(* the retransmissions of the growing trace pass file, socket and queue    *)
(* in order, however the processes are scheduled.                          *)
(***************************************************************************)
SnapshotsGrow ==
  trace_id <= TraceSize =>
    \A i, j \in 1 .. Len(Pipeline) :
      i < j /\ Pipeline[i].info /\ Pipeline[j].info =>
        IsPrefix(Pipeline[i].lines, Pipeline[j].lines)

(***************************************************************************)
(* A connection that delivers lines but not the closing INFO belongs to a  *)
(* child that died while sending: the verifier takes no trace after it.    *)
(***************************************************************************)
Received == << verified >> \o data_queue

CutTraceIsLast ==
  \A i \in 1 .. Len(Received) :
    (Received[i].lines # << >> /\ ~Received[i].info) =>
      i = Len(Received) /\ pc = "dead" /\ wire = << >>

(***************************************************************************)
(* What CutTraceIsLast rests on: a connection is open only to the child    *)
(* that is between connect and close, so one that was closed in the middle *)
(* of a trace was closed by the end of the child.                          *)
(***************************************************************************)
Cut(trace) == trace.lines # << >> /\ ~trace.info

LastSign == pc = "dead" /\ wire = << >>

WireInv ==
  \A k \in 1 .. Len(wire) :
    /\ wire[k].state = "open" => k = Len(wire) /\ pc \in {"open", "send", "close"}
    /\ wire[k].state = "open" /\ Cut(wire[k].trace) => pc = "send"
    /\ wire[k].state = "closed" /\ Cut(wire[k].trace) => k = Len(wire) /\ pc = "dead"

CutInv ==
  /\ WireInv
  /\ Cut(verified) => data_queue = << >> /\ LastSign
  /\ \A i \in 1 .. Len(data_queue) :
       Cut(data_queue[i]) => i = Len(data_queue) /\ LastSign

(***************************************************************************)
(* What FinalTraceComplete rests on: a round that is final began after the *)
(* end of the parent, so that what it copies is what the application still *)
(* exports, and after it there is no other round.                          *)
(***************************************************************************)
FinalInv ==
  /\ main = "start" => pc = "unborn"
  /\ final => Orphan
  /\ \A s \in TA!Slots : s >= CopySize => shared[s] = ZeroEntry
  /\ final /\ "copy" \notin failed =>
       /\ pc = "write" => shared = Exported
       /\ pc \in {"connect", "open", "send", "close"} => file = TraceLines(Exported)
  /\ proof.info => final /\ pc \in {"close", "dead"}
  /\ FinalTraceComplete

(***************************************************************************)
(* The system implements Evidence: facts are reported by the program, held *)
(* once they are in the history of the application, and accepted when the  *)
(* verifier takes a trace that mentions them.                              *)
(***************************************************************************)
FactsOf(events) == {EventFact(e) : e \in Range(events)}

Abstract == INSTANCE Evidence WITH
  Facts    <- {CallFact(c) : c \in Calls},
  reported <- recorded,
  held     <- FactsOf(log),
  accepted <- FactsOf(verified.lines)

ImplementsEvidence == Abstract!Spec

(***************************************************************************)
(* What ImplementsEvidence rests on: every line on its way, in the buffer, *)
(* the file, a connection or the queue, is an event of the application.    *)
(***************************************************************************)
UnbornInv ==
  /\ main = "start" => pc = "unborn" /\ log = << >> /\ trace_id = 0
  /\ pc = "unborn" =>
       /\ shared = [s \in TA!Slots |-> ZeroEntry]
       /\ file = << >> /\ wire = << >> /\ data_queue = << >>
       /\ verified.lines = << >>

Known(lines) == Range(lines) \subseteq Range(log)

CarriedInv ==
  /\ \A s \in TA!Slots : Known(PrintedLines(shared[s]))
  /\ Known(file)
  /\ \A k \in 1 .. Len(wire) : Known(wire[k].trace.lines)
  /\ \A i \in 1 .. Len(data_queue) : Known(data_queue[i].lines)
  /\ Known(verified.lines)

(***************************************************************************)
(* What SnapshotsGrow rests on: within the first turn of the ring the      *)
(* buffer of the child is an earlier state of what is exported, the slots  *)
(* written since are empty in it, and the file is not ahead of it.         *)
(***************************************************************************)
Earlier(old, new) ==
  \E m \in 0 .. TraceSize :
    \A s \in TA!Slots : IF s < m THEN old[s] = new[s] ELSE old[s] = ZeroEntry

GrowInv ==
  /\ trace_id <= TraceSize =>
       /\ \A s \in TA!Slots : s >= trace_id => dynamic_trace[s] = ZeroEntry
       /\ Earlier(shared, Exported)
       /\ IsPrefix(file, TraceLines(shared))
  /\ SnapshotsGrow

(***************************************************************************)
(* No child outlives its purpose: once the protected process is gone, the  *)
(* child ends, whatever fails on the way.                                  *)
(***************************************************************************)
ChildEnds == (Orphan /\ pc # "unborn") ~> pc = "dead"

(***************************************************************************)
(* A program that ends before the first extraction has its trace verified, *)
(* unless a file, the network or the trusted application fails: the buffer *)
(* of getline is still null, so nothing else can stop the only round.      *)
(***************************************************************************)
ShortRunVerified ==
  (Orphan /\ pc = "sleep" /\ rounds = 0) ~> (failed # {} \/ (proof.info /\ verified = proof))

=============================================================================
