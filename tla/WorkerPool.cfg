SPECIFICATION Spec
CONSTANTS
  Workers = {w1, w2}
  Main = main
  Null = null
  Threads <- AllThreads
  Jobs = {j1, j2}
  CacheSize = 3
  CacheCheck = 3
  CountMod = 16
  Runs = 2
  MaxSpurious = 1
  Setups <- AllSetups
INVARIANTS
  NoJobStranded
  CacheNeverFull
PROPERTIES
  PoolStops
  BagSpec
CHECK_DEADLOCK FALSE
