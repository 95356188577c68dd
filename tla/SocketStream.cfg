SPECIFICATION Spec
CONSTANTS
  BufferSize = 2
  Loads <- BothFlows
  FirstCond = 2
  Sizes = {1, 2}
  SendRoom = 1
  Faults = {"eof", "reset"}
INVARIANTS
  CountsAreExact
PROPERTIES
  StreamSpec
  AllSent
  AllReceived
  FlagsAreCurrent
  DeathNoticed
CHECK_DEADLOCK FALSE
