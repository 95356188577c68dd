SPECIFICATION Spec
CONSTANTS
  Jobs = {j1, j2}
  Waiters = {main, w1}
  Free = free
INVARIANTS
  WaitReturnsCompleted
  IndicatorOutlivesUse
PROPERTY WaitersReturn
CHECK_DEADLOCK FALSE
