------------------------- MODULE MC_PipelineSequence -------------------------
(* Model values for the worker threads of PipelineSequence.                *)
EXTENDS PipelineSequence

CONSTANTS w1, w2, w3

TwoWorkers == {w1, w2}
ThreeWorkers == {w1, w2, w3}

=============================================================================
