------------------- MODULE MC_TemporalSequenceAggregation -------------------
(* Two sliding windows of two slices each that share the middle slice.     *)
EXTENDS TemporalSequenceAggregation

CONSTANTS t1, t2, wa, wb

MCThreads == {t1, t2}
MCWindows == {wa, wb}
MCWindowSlices == (wa :> {1, 2}) @@ (wb :> {2, 3})
=============================================================================
