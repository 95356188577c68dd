SPECIFICATION Spec
CONSTANTS
  Workers = {w1, w2}
  Main = main
  Slots = {s1, s2, s3}
  NoJob = nojob
  MainScripts <- Family
  Leaves = 2
  Required = 2
  RequireFirst = FALSE
  LeafPhases = 1
  MaxAccess = 3
  MaxCount = 3
INVARIANT ParentWaits
