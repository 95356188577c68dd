SPECIFICATION Spec
CONSTANTS
  Workers = {w1, w2}
  Main = main
  Null = null
  Threads <- AllThreads
  Jobs = {j1, j2, j3}
  CacheSize = 3
  CacheCheck = 2
  CountMod = 16
  Runs = 1
  MaxSpurious = 0
  Setups <- Waiting
SYMMETRY Symmetry
INVARIANTS
  NoJobStranded
CHECK_DEADLOCK FALSE
