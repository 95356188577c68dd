SPECIFICATION Spec
CONSTANTS
  Threads = {w1, w2}
  Jobs = {j1, j2}
  NoJob = nojob
  RingSize = 4
  Lives = 3
  MaxBusy = 1
INVARIANTS
  QueueNeverFull
  CountIsExact
PROPERTIES
  QueueSpec
  AllDestroyed
CHECK_DEADLOCK FALSE
