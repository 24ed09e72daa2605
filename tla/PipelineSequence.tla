-------------------------- MODULE PipelineSequence --------------------------
(***************************************************************************)
(* A CompiledExecutablePipelineStage whose root operator is a              *)
(* SequencePhysicalOperator, driven by a pool of worker threads.           *)
(*                                                                         *)
(* start() runs the root's setup (which starts the SequenceOperatorHandler *)
(* and sets up the child scan) and then compiles the pipeline.  Each       *)
(* worker's execute() counts the input buffer in pipe_<id>_in_total and    *)
(* calls the compiled function, i.e. SequencePhysicalOperator::open: it    *)
(* offers its buffer to the handler with getNextBuffer, and as long as the *)
(* handler hands it a buffer, it runs the child scan over that buffer and  *)
(* reports it with markBufferAsDone, which may hand it the next buffer in  *)
(* sequence that another worker left behind.  stop() runs terminate:       *)
(* scan.terminate, then the handler's stop(Graceful), which drains the     *)
(* buffers still held.                                                     *)
(*                                                                         *)
(* The handler's code is not part of this repository; its sequence table   *)
(* follows spec.md (4.1).  Whether the expected-next number advances when  *)
(* a buffer is handed out or when it is marked done is left open there;    *)
(* AdvanceOnDone selects which.                                            *)
(***************************************************************************)
EXTENDS Naturals, Sequences, SequencesExt, FiniteSets

CONSTANTS
  Workers,        \* worker threads executing the stage
  N,              \* buffers of the source partition, sequence numbers 1..N
  AdvanceOnDone,  \* handler advances expected-next in markBufferAsDone
  CompileFails    \* compilePipeline() may throw

ASSUME N \in Nat \ {0} /\ {AdvanceOnDone, CompileFails} \subseteq BOOLEAN

SeqNrs == 1..N
NoBuf == 0

VARIABLES
  stage,      \* "created", "started", "failed" (start threw), "stopped"
  handler,    \* SequenceOperatorHandler: "idle", "running", "stopped"
  scan,       \* child scan operator: "new", "setup", "terminated"
  pending,    \* buffers the engine has not yet passed to execute()
  pipeIn,     \* MetricsRegistry counter pipe_<id>_in_total
  nextSeq,    \* sequence table: expected-next sequence number
  held,       \* sequence table: buffers withheld pending in-order delivery
  wpc,        \* [Workers -> {"idle", "scan", "done"}]
  wbuf,       \* [Workers -> SeqNrs \cup {NoBuf}]: buffer in the open() loop
  emitted     \* history: buffers passed downstream, in order

vars == <<stage, handler, scan, pending, pipeIn, nextSeq, held, wpc, wbuf,
          emitted>>

-----------------------------------------------------------------------------
(* Fault-injection variants of the definitions below, each a plausible     *)
(* slip in the handler or the operator.                                    *)

\* markBufferAsDone hands back the smallest held buffer, gap or no gap.
MarkBufferAsDoneSmallestHeld(w, b) ==
  IF held # {}
    THEN LET next == CHOOSE h \in held : \A g \in held : h <= g
         IN  /\ held' = held \ {next}
             /\ wbuf' = [wbuf EXCEPT ![w] = next]
             /\ wpc' = [wpc EXCEPT ![w] = "scan"]
             /\ nextSeq' = next + 1
    ELSE /\ wbuf' = [wbuf EXCEPT ![w] = NoBuf]
         /\ wpc' = [wpc EXCEPT ![w] = "idle"]
         /\ nextSeq' = b + 1
         /\ UNCHANGED held

\* markBufferAsDone hands back the following sequence number without
\* looking it up in the table.
MarkBufferAsDoneUnchecked(w, b) ==
  LET next == IF AdvanceOnDone THEN b + 1 ELSE nextSeq
  IN  /\ held' = held \ {next}
      /\ wbuf' = [wbuf EXCEPT ![w] = next]
      /\ wpc' = [wpc EXCEPT ![w] = "scan"]
      /\ nextSeq' = next + (IF AdvanceOnDone THEN 0 ELSE 1)

\* open() processes only the first buffer: the buffer markBufferAsDone
\* returns is dropped (an "if" where the code has "while").
MarkDoneIgnoringNext(w) ==
  /\ wpc[w] = "done"
  /\ LET next == IF AdvanceOnDone THEN wbuf[w] + 1 ELSE nextSeq
     IN  /\ held' = held \ {next}
         /\ nextSeq' = IF next \in held /\ ~AdvanceOnDone THEN next + 1 ELSE next
  /\ wbuf' = [wbuf EXCEPT ![w] = NoBuf]
  /\ wpc' = [wpc EXCEPT ![w] = "idle"]
  /\ UNCHANGED <<stage, handler, scan, pending, pipeIn, emitted>>

\* terminate stops the handler with HardStop: held buffers are discarded.
SequenceTerminateHard ==
  /\ scan' = "terminated"
  /\ handler' = "stopped"
  /\ held' = {}
  /\ UNCHANGED emitted

-----------------------------------------------------------------------------
(* SequenceOperatorHandler (spec.md 4.1), called under its own lock.       *)

\* getNextBuffer(b): b is handed back if it is the expected-next buffer,
\* otherwise it is stored in the sequence table and nothing is handed back.
GetNextBuffer(w, b) ==
  IF b = nextSeq
    THEN /\ wbuf' = [wbuf EXCEPT ![w] = b]
         /\ wpc' = [wpc EXCEPT ![w] = "scan"]
         /\ nextSeq' = IF AdvanceOnDone THEN nextSeq ELSE nextSeq + 1
         /\ UNCHANGED held
    ELSE /\ held' = held \cup {b}
         /\ UNCHANGED <<wbuf, wpc, nextSeq>>

\* markBufferAsDone(b): b has been processed; the next buffer in sequence is
\* handed back if the table holds it.
MarkBufferAsDone(w, b) ==
  LET next == IF AdvanceOnDone THEN b + 1 ELSE nextSeq
  IN  IF next \in held
        THEN /\ held' = held \ {next}
             /\ wbuf' = [wbuf EXCEPT ![w] = next]
             /\ wpc' = [wpc EXCEPT ![w] = "scan"]
             /\ nextSeq' = next + (IF AdvanceOnDone THEN 0 ELSE 1)
        ELSE /\ wbuf' = [wbuf EXCEPT ![w] = NoBuf]
             /\ wpc' = [wpc EXCEPT ![w] = "idle"]
             /\ nextSeq' = next
             /\ UNCHANGED held

\* stop(Graceful): drain the held buffers in ascending order.
HandlerStop ==
  /\ handler' = "stopped"
  /\ emitted' = emitted \o SetToSortSeq(held, <)
  /\ held' = {}

\* start(ctx, 0).
HandlerStart == handler' = "running"

-----------------------------------------------------------------------------
(* SequencePhysicalOperator and the pipeline stage.                        *)

\* SequencePhysicalOperator::setup: start the handler, then set up the scan.
SequenceSetup ==
  /\ HandlerStart
  /\ scan' = "setup"

\* compilePipeline(): registers the compiled function, or throws the
\* wrapped "Could not query compile pipeline" error.
CompilePipeline ==
  \/ stage' = "started"
  \/ CompileFails /\ stage' = "failed"

\* CompiledExecutablePipelineStage::start: root setup, then compile.
Start ==
  /\ stage = "created"
  /\ SequenceSetup
  /\ CompilePipeline
  /\ UNCHANGED <<pending, pipeIn, nextSeq, held, wpc, wbuf, emitted>>

\* execute(b) by worker w: count the buffer, then the compiled function
\* enters SequencePhysicalOperator::open, which calls getNextBuffer.
Execute(w, b) ==
  /\ stage = "started" /\ wpc[w] = "idle" /\ b \in pending
  /\ pending' = pending \ {b}
  /\ pipeIn' = pipeIn + 1
  /\ GetNextBuffer(w, b)
  /\ UNCHANGED <<stage, handler, scan, emitted>>

\* One pass of the open() loop body: scan.open and scan.close over the
\* buffer the handler handed out, which emits it downstream.
ScanBuffer(w) ==
  /\ wpc[w] = "scan"
  /\ emitted' = Append(emitted, wbuf[w])
  /\ wpc' = [wpc EXCEPT ![w] = "done"]
  /\ UNCHANGED <<stage, handler, scan, pending, pipeIn, nextSeq, held, wbuf>>

\* End of the loop body: markBufferAsDone; the loop goes on with the buffer
\* it returns, or open() (and execute) returns.
MarkDone(w) ==
  /\ wpc[w] = "done"
  /\ MarkBufferAsDone(w, wbuf[w])
  /\ UNCHANGED <<stage, handler, scan, pending, pipeIn, emitted>>

\* SequencePhysicalOperator::terminate: scan.terminate, then the handler's
\* stop(Graceful).
SequenceTerminate ==
  /\ scan' = "terminated"
  /\ HandlerStop

\* CompiledExecutablePipelineStage::stop, called by the engine once no
\* execute() of this stage is in flight.
Stop ==
  /\ stage = "started" /\ \A w \in Workers : wpc[w] = "idle"
  /\ stage' = "stopped"
  /\ SequenceTerminate
  /\ UNCHANGED <<pending, pipeIn, nextSeq, wpc, wbuf>>

-----------------------------------------------------------------------------
Init ==
  /\ stage = "created"
  /\ handler = "idle"
  /\ scan = "new"
  /\ pending = SeqNrs
  /\ pipeIn = 0
  /\ nextSeq = 1
  /\ held = {}
  /\ wpc = [w \in Workers |-> "idle"]
  /\ wbuf = [w \in Workers |-> NoBuf]
  /\ emitted = <<>>

WorkerStep(w) ==
  \/ \E b \in SeqNrs : Execute(w, b)
  \/ ScanBuffer(w)
  \/ MarkDone(w)

Next ==
  \/ Start
  \/ \E w \in Workers : WorkerStep(w)
  \/ Stop

\* Worker threads run every execute() to completion and the engine hands
\* every pending buffer to some worker; start() is called.  stop() is up to
\* the engine and is not forced.
Fairness ==
  /\ WF_vars(Start)
  /\ \A w \in Workers : WF_vars(WorkerStep(w))

Spec == Init /\ [][Next]_vars /\ Fairness

-----------------------------------------------------------------------------
(* Properties                                                              *)

TypeOK ==
  /\ stage \in {"created", "started", "failed", "stopped"}
  /\ handler \in {"idle", "running", "stopped"}
  /\ scan \in {"new", "setup", "terminated"}
  /\ pending \subseteq SeqNrs
  /\ pipeIn \in 0..N
  /\ nextSeq \in 1..N+1
  /\ held \subseteq SeqNrs
  /\ wpc \in [Workers -> {"idle", "scan", "done"}]
  /\ wbuf \in [Workers -> SeqNrs \cup {NoBuf}]
  /\ emitted \in Seq(SeqNrs)

\* Downstream operators see the buffers of the partition in strictly
\* ascending sequence order, whichever workers execute them and in
\* whatever order the buffers reach execute().
EmittedInOrder ==
  \A i, j \in 1..Len(emitted) : i < j => emitted[i] < emitted[j]

\* Every buffer passed to execute() is eventually passed downstream, by the
\* worker that executed it or by another one, even when the buffers reach
\* the workers out of order.
EveryExecutedBufferEmitted ==
  \A b \in SeqNrs : (b \notin pending) ~> (b \in ToSet(emitted))

\* A start() that throws leaves no handler running: a stage whose start
\* failed is never stopped, so anything it started would be left running.
NoHandlerLeftRunning ==
  stage = "failed" => handler # "running"

\* The stage with its sequence operator implements the abstract in-order
\* release: buffers that entered execute() have arrived, emitted buffers
\* are released, and the stopped handler is drained.
Abstract == INSTANCE InOrderRelease
              WITH arrived <- SeqNrs \ pending,
                   released <- emitted,
                   open <- handler # "stopped"

RefinesInOrderRelease == Abstract!Spec

=============================================================================
