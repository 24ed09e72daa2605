--------------------------- MODULE StatisticPrinter ---------------------------
(***************************************************************************)
(* The printing statistic listener (StatisticPrinter.cpp): the engine's    *)
(* threads hand events to onEvent, which puts them on a bounded            *)
(* folly::MPMCQueue with writeIfNotFull, dropping them when it is full.   *)
(* The printer thread loops until its stop_token is set: it waits up to   *)
(* 100 ms for an event and handles it.  A Submit event captures a baseline *)
(* snapshot of the metrics for its query; a Stop event takes a snapshot    *)
(* and writes the query's metrics CSV and JSON, with derived deltas when a *)
(* baseline exists and the raw snapshot in any case.                       *)
(*                                                                         *)
(* The metrics are reduced to sink_out_total, the counter PrintSink        *)
(* increments; source_in_total and pipe_<id>_out_total, the other inputs   *)
(* of the derived values, are incremented nowhere in this repository and   *)
(* stay absent (0).  Start and task events only produce log lines and are  *)
(* handled alike.  The periodic METRICS dump reads a snapshot and writes   *)
(* the log; it changes no state of this model and is left out.  The CSV   *)
(* and JSON files carry the same values and are one report here.          *)
(*                                                                         *)
(* PrintSink::execute ends by formatting the buffer with its output format *)
(* (JSONFormat here) and writing the text to std::cout under the stream's  *)
(* lock; each task's buffer holds one tuple whose VARSIZED fields carry    *)
(* one of the payloads, and the last line written is kept.                 *)
(***************************************************************************)
EXTENDS Integers, Sequences, FiniteSets

CONSTANTS
  Queries,      \* query ids
  Capacity,     \* capacity of the event queue
  MaxTasks,     \* tasks each query runs, at most
  Schema,       \* the sink's schema: a sequence of [name, type]
  Payloads      \* byte strings a VARSIZED field may hold

ASSUME Capacity \in Nat \ {0} /\ MaxTasks \in Nat
\* JSONFormat's constructor: PRECONDITION(schema.getNumberOfFields() != 0)
ASSUME Len(Schema) > 0

JSON == INSTANCE JSONFormat

Kinds == {"submit", "start", "task", "stop"}
Event == [kind : Kinds, query : Queries]

NoBaseline == -1
NoReport == [written |-> FALSE]
NoPrint == [payload |-> <<>>, out |-> <<>>]

VARIABLES
  qstate,       \* [Queries -> {"new", "submitted", "running", "stopped"}]
  tasks,        \* [Queries -> 0..MaxTasks]: tasks run so far
  sinkOut,      \* the sink_out_total counter
  events,       \* the MPMCQueue, oldest first
  dropped,      \* history: events writeIfNotFull dropped
  produced,     \* history: [Queries -> Nat], sink_out_total increments per query
  ppc,          \* printer thread: "top" (loop head), "read" (tryReadUntil), "exited"
  stopToken,    \* the printer thread's stop was requested
  baselines,    \* [Queries -> Nat \cup {NoBaseline}]: baseline sink_out_total
  report,       \* [Queries -> report written on Stop, or NoReport]
  printed       \* history: the last buffer PrintSink wrote, with its payload

vars == <<qstate, tasks, sinkOut, events, dropped, produced, ppc, stopToken,
          baselines, report, printed>>

Ev(k, q) == [kind |-> k, query |-> q]

-----------------------------------------------------------------------------
(* Fault-injection variants.                                               *)

\* The event is written whether or not the queue has room.
WriteIgnoringCapacity(e) ==
  /\ events' = Append(events, e)
  /\ UNCHANGED dropped

\* The Stop handler writes its files only when it finds a baseline.
HandleStopOnlyWithBaseline(q) ==
  /\ IF baselines[q] # NoBaseline
       THEN report' = [report EXCEPT ![q] =
                         [written |-> TRUE, derived |-> TRUE,
                          dSnk |-> IF sinkOut > baselines[q] THEN sinkOut - baselines[q] ELSE 0]]
       ELSE UNCHANGED report
  /\ UNCHANGED baselines

\* The Submit handler stores a baseline only when the snapshot has
\* sink_out_total, as the periodic dump skips an empty snapshot.
HandleSubmitIfCounted(q) ==
  /\ baselines' = IF sinkOut > 0 THEN [baselines EXCEPT ![q] = sinkOut] ELSE baselines
  /\ UNCHANGED report

-----------------------------------------------------------------------------
(* PrintingStatisticListener::onEvent                                      *)

\* writeIfNotFull: the event is queued, or dropped when the queue is full.
WriteIfNotFull(e) ==
  IF Len(events) < Capacity
    THEN /\ events' = Append(events, e)
         /\ UNCHANGED dropped
    ELSE /\ dropped' = dropped \cup {e}
         /\ UNCHANGED events

-----------------------------------------------------------------------------
(* The engine: the system events of each query, and its tasks, whose sink  *)
(* is a PrintSink.                                                         *)

SubmitQuery(q) ==
  /\ qstate[q] = "new"
  /\ qstate' = [qstate EXCEPT ![q] = "submitted"]
  /\ WriteIfNotFull(Ev("submit", q))
  /\ UNCHANGED <<tasks, sinkOut, produced, ppc, stopToken, baselines, report, printed>>

StartQuery(q) ==
  /\ qstate[q] = "submitted"
  /\ qstate' = [qstate EXCEPT ![q] = "running"]
  /\ WriteIfNotFull(Ev("start", q))
  /\ UNCHANGED <<tasks, sinkOut, produced, ppc, stopToken, baselines, report, printed>>

\* The end of PrintSink::execute: outputParser->getFormattedBuffer, written
\* to the output stream; the buffer's one tuple carries payload p.
\* (The text of each payload's buffer is a constant: TLC computes it once.)
FormattedPayload ==
  [p \in Payloads |->
     JSON!TupleBufferToFormattedJSONString(
       Schema, <<[f \in {Schema[i].name : i \in 1..Len(Schema)} |-> p]>>)]

PrintBuffer(p) == printed' = [payload |-> p, out |-> FormattedPayload[p]]

\* A task of a running query: PrintSink::execute adds its tuples (one
\* here) to sink_out_total and prints the buffer, and the task's event is
\* passed to onEvent.
RunTask(q) ==
  /\ qstate[q] = "running" /\ tasks[q] < MaxTasks
  /\ tasks' = [tasks EXCEPT ![q] = @ + 1]
  /\ sinkOut' = sinkOut + 1
  /\ produced' = [produced EXCEPT ![q] = @ + 1]
  /\ \E p \in Payloads : PrintBuffer(p)
  /\ WriteIfNotFull(Ev("task", q))
  /\ UNCHANGED <<qstate, ppc, stopToken, baselines, report>>

StopQuery(q) ==
  /\ qstate[q] = "running"
  /\ qstate' = [qstate EXCEPT ![q] = "stopped"]
  /\ WriteIfNotFull(Ev("stop", q))
  /\ UNCHANGED <<tasks, sinkOut, produced, ppc, stopToken, baselines, report, printed>>

\* The listener is destroyed: the jthread requests the printer's stop.
RequestStop ==
  /\ ~stopToken
  /\ stopToken' = TRUE
  /\ UNCHANGED <<qstate, tasks, sinkOut, events, dropped, produced, ppc,
                 baselines, report, printed>>

-----------------------------------------------------------------------------
(* threadRoutine                                                           *)

\* Submit: baselines[queryId] = {snapshot(), now}.
HandleSubmit(q) ==
  /\ baselines' = [baselines EXCEPT ![q] = sinkOut]
  /\ UNCHANGED report

\* Stop: snapshot(), then the CSV and JSON.  With a baseline they start
\* with the derived values (dSnk = snk1 > snk0 ? snk1 - snk0 : 0); the raw
\* snapshot follows in any case.
HandleStop(q) ==
  /\ report' = [report EXCEPT ![q] =
                  IF baselines[q] # NoBaseline
                    THEN [written |-> TRUE, derived |-> TRUE,
                          dSnk |-> IF sinkOut > baselines[q] THEN sinkOut - baselines[q] ELSE 0]
                    ELSE [written |-> TRUE, derived |-> FALSE, dSnk |-> 0]]
  /\ UNCHANGED baselines

\* The loop head: while (!token.stop_requested()).
LoopTop ==
  /\ ppc = "top"
  /\ ppc' = IF stopToken THEN "exited" ELSE "read"
  /\ UNCHANGED <<qstate, tasks, sinkOut, events, dropped, produced, stopToken,
                 baselines, report, printed>>

\* tryReadUntil(now + 100 ms): times out on an empty queue, or takes the
\* oldest event and visits it.
TryReadUntil ==
  /\ ppc = "read"
  /\ ppc' = "top"
  /\ IF events = <<>>
       THEN UNCHANGED <<events, baselines, report>>
       ELSE LET e == Head(events)
            IN  /\ events' = Tail(events)
                /\ CASE e.kind = "submit" -> HandleSubmit(e.query)
                     [] e.kind = "stop"   -> HandleStop(e.query)
                     [] OTHER             -> UNCHANGED <<baselines, report>>
  /\ UNCHANGED <<qstate, tasks, sinkOut, dropped, produced, stopToken, printed>>

-----------------------------------------------------------------------------
Init ==
  /\ qstate = [q \in Queries |-> "new"]
  /\ tasks = [q \in Queries |-> 0]
  /\ sinkOut = 0
  /\ events = <<>>
  /\ dropped = {}
  /\ produced = [q \in Queries |-> 0]
  /\ ppc = "top"
  /\ stopToken = FALSE
  /\ baselines = [q \in Queries |-> NoBaseline]
  /\ report = [q \in Queries |-> NoReport]
  /\ printed = NoPrint

EngineStep ==
  \E q \in Queries : SubmitQuery(q) \/ StartQuery(q) \/ RunTask(q) \/ StopQuery(q)

PrinterStep == LoopTop \/ TryReadUntil

Next == EngineStep \/ RequestStop \/ PrinterStep

\* The printer is a dedicated thread that never blocks for longer than the
\* read timeout; the engine and the shutdown need not act.
Spec == Init /\ [][Next]_vars /\ WF_vars(PrinterStep)

-----------------------------------------------------------------------------
(* Properties                                                              *)

TypeOK ==
  /\ qstate \in [Queries -> {"new", "submitted", "running", "stopped"}]
  /\ tasks \in [Queries -> 0..MaxTasks]
  /\ events \in Seq(Event) /\ Len(events) <= Capacity
  /\ dropped \subseteq Event
  /\ ppc \in {"top", "read", "exited"} /\ stopToken \in BOOLEAN
  /\ baselines \in [Queries -> Nat \cup {NoBaseline}]
  /\ \A q \in Queries :
       report[q] = NoReport \/ (report[q].written /\ report[q].derived \in BOOLEAN)
  /\ printed.payload \in Payloads \cup {<<>>}

\* A query whose Stop event was not dropped gets its metrics files, unless
\* the printer thread is stopped first: neither a full queue that dropped
\* the query's Submit (and with it the baseline) nor other queries' events
\* keep the Stop handler from writing them.
StopReported ==
  \A q \in Queries :
    (qstate[q] = "stopped" /\ Ev("stop", q) \notin dropped)
      ~> (report[q] # NoReport \/ ppc = "exited")

\* A report has the derived values exactly when the query's Submit event
\* was not dropped: onEvent's queue keeps the order in which the engine's
\* events happened, so a queued Submit is handled before its Stop.
DerivedIffSubmitKept ==
  \A q \in Queries :
    report[q] # NoReport => (report[q].derived <=> Ev("submit", q) \notin dropped)

Base64OfPayload == [p \in Payloads |-> JSON!Base64Ref(p)]

\* What PrintSink prints for a VARSIZED field is the base64 text of the
\* field's bytes as RFC 4648 defines it, at every length of the payload:
\* encodeBase64's loop over whole three-byte blocks and its one- and
\* two-byte tails with their "=" padding.
PrintedIsBase64 ==
  \A l \in 1..Len(printed.out), i \in 1..Len(Schema) :
    Schema[i].type = "VARSIZED" =>
      printed.out[l][i] = <<Schema[i].name, Base64OfPayload[printed.payload]>>

\* The derived sink delta of a query counts exactly the tuples its sinks
\* emitted between Submit and Stop ("Track baseline metrics per query to
\* compute deltas", "Capture baseline for this query at submit time").
StopDeltaCountsQueryOutput ==
  \A q \in Queries :
    report[q] # NoReport /\ report[q].derived => report[q].dSnk = produced[q]

=============================================================================
