SPECIFICATION Spec
CONSTANTS
  t1 = t1
  t2 = t2
  t3 = t3
  cpu = cpu
  python = python
  Tasks <- ThreeTasks
  Lanes <- BothLanes
  LaneLimit <- OneEach
  Shapes <- QueueShapes
  HardDeadlines <- NoHardDeadline
  MaxAttempts = 2
  InitialBackoff = 1
  MaxBackoff = 2
  MaxClock = 1
  BaselineCapacity = 2
  MaxCapacity = 2
  QueueLimit = 2
  MaxLag = 0
SYMMETRY TaskSymmetry
INVARIANTS
  NoLeaseLost
  RetainedTokenIsLive
