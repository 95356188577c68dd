SPECIFICATION Spec
CONSTANTS
  s1 = s1
  a = a
  b = b
  c = c
  Slots = {s1}
  Fds = {a, b, c}
  NoFd = nofd
  EventsOf <- OneWay
  Loads <- WaitOrQuit
  MaxAccess = 3
  MaxCount = 2
INVARIANTS
  WaitCountsRequests
  ResumesWhenAnswered
PROPERTIES
  JobsComplete
  DeinitReturns
CHECK_DEADLOCK FALSE
