SPECIFICATION Spec
CONSTANTS
  Programs <- Good
  MaxAccess = 3
  MaxCount = 2
  BufferSize = 4
  ReadCond = 2
  MaxEvents = 2
  MaxExpiries = 2
INVARIANTS
  AvailableCountsReady
  ReadGuaranteed
  FallCountsHolders
PROPERTIES
  SocketReleased
  BytesRead
CHECK_DEADLOCK FALSE
