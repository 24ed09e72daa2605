--------------------- MODULE TemporalSequenceAggregation ---------------------
(***************************************************************************)
(* The TEMPORAL_SEQUENCE aggregation function                              *)
(* (TemporalSequenceAggregationPhysicalFunction.cpp) driven by a windowed  *)
(* aggregation over slices.                                                *)
(*                                                                         *)
(* Each worker thread keeps a partial aggregation state per slice; a state *)
(* is a PagedVector of (lon, lat, timestamp) records, abstracted here to   *)
(* record identities.  The window operator (not part of this repository;   *)
(* spec.md 4.3 and the Aggregation State row of section 3) resets a state  *)
(* when a slice is first touched by a thread, lifts every record into it,  *)
(* and when the watermark has passed a window, resets a final state,      *)
(* combines every partial state of the window's slices into it, lowers it *)
(* and cleans it up.  A slice shared by two sliding windows is combined    *)
(* into both.  Partial states are cleaned up once every window that needs  *)
(* them has been lowered.                                                  *)
(*                                                                         *)
(* lower() emits BINARY(n) for a state holding n records and BINARY(0)     *)
(* for an empty one; the output is modelled as n.                          *)
(***************************************************************************)
EXTENDS Naturals, Sequences, SequencesExt, FiniteSets

CONSTANTS
  Threads,        \* worker threads, each with its own partial states
  S,              \* slices 1..S, closed in order by the watermark
  Windows,        \* the windows of the query
  WindowSlices,   \* [Windows -> SUBSET 1..S]: the slices a window spans
  K,              \* records that arrive, at most
  CombineEmptiesSource  \* combine leaves its source state empty (spec.md 4.3)

ASSUME S \in Nat \ {0} /\ K \in Nat /\ CombineEmptiesSource \in BOOLEAN
ASSUME WindowSlices \in [Windows -> SUBSET (1..S)]

Slices == 1..S
Recs == 1..K
Part == Threads \X Slices       \* keys of the partial states
NoOut == -1

VARIABLES
  plife,      \* [Part -> {"none", "live", "freed"}]
  pv,         \* [Part -> Seq(Recs)]: content of a partial state's PagedVector
  flife,      \* [Windows -> {"none", "live", "lowered", "freed"}]
  fv,         \* [Windows -> Seq(Recs)]: content of a window's final state
  merged,     \* [Windows -> SUBSET Part]: partial states combined into it
  out,        \* [Windows -> Nat \cup {NoOut}]: n of the BINARY(n) emitted
  watermark,  \* slices 1..watermark are closed
  nextRec,    \* identity of the next record to arrive
  sliceOf     \* history: [Recs -> Slices \cup {0}], slice a record went to

vars == <<plife, pv, flife, fv, merged, out, watermark, nextRec, sliceOf>>

\* The last slice of a window: the window can fire once it is closed.
LastSlice(w) == CHOOSE s \in WindowSlices[w] : \A x \in WindowSlices[w] : x <= s

-----------------------------------------------------------------------------
(* Fault-injection variants of the aggregation function.                   *)

LowerCountingFromOne(state) == Len(state) + 1

-----------------------------------------------------------------------------
(* The aggregation function.                                               *)

\* reset(): placement-new of an empty PagedVector in the state region.
Reset == <<>>

\* lift(): writeRecord appends the (lon, lat, timestamp) record.
Lift(state, r) == Append(state, r)

\* combine(): vector1->copyFrom(*vector2) appends the second vector's
\* records to the first; the second is passed as const and keeps them.
Combine(target, source) == target \o source

\* What combine leaves in its source state.
CombineSource(source) == IF CombineEmptiesSource THEN <<>> ELSE source

\* lower(): BINARY(0) for an empty vector, otherwise the records are
\* counted and BINARY(count) is formatted.
Lower(state) == Len(state)

\* cleanup(): the PagedVector's destructor.
Cleanup(life, key) == [life EXCEPT ![key] = "freed"]

-----------------------------------------------------------------------------
(* The window operator around it (spec.md 4.3).                            *)

\* A record arrives at thread t for an open slice s; the thread's state for
\* the slice is reset on first touch, then the record is lifted into it.
Ingest(t, s) ==
  /\ nextRec <= K /\ s > watermark
  /\ plife[<<t, s>>] # "freed"
  /\ plife' = [plife EXCEPT ![<<t, s>>] = "live"]
  /\ pv' = [pv EXCEPT ![<<t, s>>] =
              Lift(IF plife[<<t, s>>] = "none" THEN Reset ELSE @, nextRec)]
  /\ sliceOf' = [sliceOf EXCEPT ![nextRec] = s]
  /\ nextRec' = nextRec + 1
  /\ UNCHANGED <<flife, fv, merged, out, watermark>>

\* The watermark (the minimum over all threads) passes the next slice.
AdvanceWatermark ==
  /\ watermark < S
  /\ watermark' = watermark + 1
  /\ UNCHANGED <<plife, pv, flife, fv, merged, out, nextRec, sliceOf>>

\* The window fires: a final state is reset for it.
Trigger(w) ==
  /\ flife[w] = "none" /\ LastSlice(w) <= watermark
  /\ flife' = [flife EXCEPT ![w] = "live"]
  /\ fv' = [fv EXCEPT ![w] = Reset]
  /\ UNCHANGED <<plife, pv, merged, out, watermark, nextRec, sliceOf>>

\* One partial state of the window's slices is combined into its final one.
CombinePartial(w, p) ==
  /\ flife[w] = "live" /\ p[2] \in WindowSlices[w]
  /\ plife[p] = "live" /\ p \notin merged[w]
  /\ fv' = [fv EXCEPT ![w] = Combine(@, pv[p])]
  /\ pv' = [pv EXCEPT ![p] = CombineSource(@)]
  /\ merged' = [merged EXCEPT ![w] = @ \cup {p}]
  /\ UNCHANGED <<plife, flife, out, watermark, nextRec, sliceOf>>

\* All partial states of the window are combined: lower the final state.
LowerWindow(w) ==
  /\ flife[w] = "live"
  /\ \A p \in Part : p[2] \in WindowSlices[w] /\ plife[p] = "live" => p \in merged[w]
  /\ out' = [out EXCEPT ![w] = Lower(fv[w])]
  /\ flife' = [flife EXCEPT ![w] = "lowered"]
  /\ UNCHANGED <<plife, pv, fv, merged, watermark, nextRec, sliceOf>>

\* The lowered final state is cleaned up.
CleanupWindow(w) ==
  /\ flife[w] = "lowered"
  /\ flife' = Cleanup(flife, w)
  /\ UNCHANGED <<plife, pv, fv, merged, out, watermark, nextRec, sliceOf>>

\* A partial state no window needs any more is cleaned up.
CleanupPartial(p) ==
  /\ plife[p] = "live" /\ p[2] <= watermark
  /\ \A w \in Windows : p[2] \in WindowSlices[w] => flife[w] \in {"lowered", "freed"}
  /\ plife' = Cleanup(plife, p)
  /\ UNCHANGED <<pv, flife, fv, merged, out, watermark, nextRec, sliceOf>>

-----------------------------------------------------------------------------
Init ==
  /\ plife = [p \in Part |-> "none"]
  /\ pv = [p \in Part |-> <<>>]
  /\ flife = [w \in Windows |-> "none"]
  /\ fv = [w \in Windows |-> <<>>]
  /\ merged = [w \in Windows |-> {}]
  /\ out = [w \in Windows |-> NoOut]
  /\ watermark = 0
  /\ nextRec = 1
  /\ sliceOf = [r \in Recs |-> 0]

OperatorStep ==
  \/ AdvanceWatermark
  \/ \E w \in Windows : \/ Trigger(w) \/ LowerWindow(w) \/ CleanupWindow(w)
                        \/ \E p \in Part : CombinePartial(w, p)
  \/ \E p \in Part : CleanupPartial(p)

Next ==
  \/ \E t \in Threads, s \in Slices : Ingest(t, s)
  \/ OperatorStep

\* The watermark keeps advancing and the operator finishes every window it
\* has started; records need not keep arriving.
Spec == Init /\ [][Next]_vars /\ WF_vars(OperatorStep)

-----------------------------------------------------------------------------
(* Properties                                                              *)

TypeOK ==
  /\ plife \in [Part -> {"none", "live", "freed"}]
  /\ pv \in [Part -> Seq(Recs)]
  /\ flife \in [Windows -> {"none", "live", "lowered", "freed"}]
  /\ fv \in [Windows -> Seq(Recs)]
  /\ merged \in [Windows -> SUBSET Part]
  /\ out \in [Windows -> 0..K \cup {NoOut}]
  /\ watermark \in 0..S
  /\ nextRec \in 1..K+1
  /\ sliceOf \in [Recs -> Slices \cup {0}]

=============================================================================
