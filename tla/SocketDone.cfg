SPECIFICATION Spec
CONSTANTS
  Programs <- DoneEarly
  MaxAccess = 3
  MaxCount = 2
  BufferSize = 4
  ReadCond = 2
  MaxEvents = 2
  MaxExpiries = 2
INVARIANT WaitsForEpoll
CHECK_DEADLOCK FALSE
