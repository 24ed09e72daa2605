\* Three workers, four buffers of one partition arriving in any order; the
\* handler advances its expected-next number when a buffer is marked done.
CONSTANTS
  w1 = w1
  w2 = w2
  w3 = w3
  Workers <- ThreeWorkers
  N = 4
  AdvanceOnDone = TRUE
  CompileFails = FALSE
SPECIFICATION Spec
INVARIANT TypeOK EmittedInOrder
PROPERTY EveryExecutedBufferEmitted RefinesInOrderRelease
\* After stop(), or once every buffer has been emitted, nothing is left to do.
CHECK_DEADLOCK FALSE
