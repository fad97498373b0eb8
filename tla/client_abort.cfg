SPECIFICATION ClientSpec
CONSTANTS
  t1 = t1
  t2 = t2
  t3 = t3
  cpu = cpu
  python = python
  Tasks <- ThreeTasks
  Lanes <- BothLanes
  LaneLimit <- OneEach
  Shapes <- MixedShapes
  HardDeadlines <- NoHardDeadline
  MaxAttempts = 1
  InitialBackoff = 1
  MaxBackoff = 1
  MaxClock = 1
  BaselineCapacity = 2
  MaxCapacity = 2
  QueueLimit = 2
  MaxLag = 1
  Impatient <- ThreeTasks
  Interruptible <- ThreeTasks
  Steady = FALSE
CHECK_DEADLOCK FALSE
SYMMETRY TaskSymmetry
INVARIANTS
  ClientHoldsExactly
