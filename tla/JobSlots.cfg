SPECIFICATION Spec
CONSTANTS
  MaxJobs = 6
  MaxSections = 3
INVARIANTS
  TypeOK
  NoSlotOfferedTwice
  NoSlotForgotten
PROPERTY PoolSpec
CHECK_DEADLOCK FALSE
