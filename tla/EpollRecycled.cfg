SPECIFICATION Spec
CONSTANTS
  s1 = s1
  a = a
  b = b
  c = c
  Slots = {s1}
  Fds = {a}
  NoFd = nofd
  EventsOf <- Reading
  Loads <- TwoLives
  MaxAccess = 3
  MaxCount = 2
PROPERTY JobsComplete
CHECK_DEADLOCK FALSE
