\* compilePipeline() may throw inside start().
CONSTANTS
  w1 = w1
  w2 = w2
  w3 = w3
  Workers <- ThreeWorkers
  N = 4
  AdvanceOnDone = TRUE
  CompileFails = TRUE
SPECIFICATION Spec
INVARIANT NoHandlerLeftRunning
\* After stop(), or once every buffer has been emitted, nothing is left to do.
CHECK_DEADLOCK FALSE
