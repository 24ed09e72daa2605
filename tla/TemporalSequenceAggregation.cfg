\* Two threads, three slices, sliding windows {1,2} and {2,3}, three records.
CONSTANTS
  t1 = t1
  t2 = t2
  wa = wa
  wb = wb
  Threads <- MCThreads
  Windows <- MCWindows
  WindowSlices <- MCWindowSlices
  S = 3
  K = 3
  CombineEmptiesSource = FALSE
SPECIFICATION Spec
INVARIANT TypeOK
 
CHECK_DEADLOCK FALSE
