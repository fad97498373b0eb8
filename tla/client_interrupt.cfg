SPECIFICATION FairClientSpec
CONSTANTS
  t1 = t1
  t2 = t2
  t3 = t3
  cpu = cpu
  python = python
  Tasks <- ThreeTasks
  Lanes <- BothLanes
  LaneLimit <- OneEach
  Shapes <- ShortShapes
  HardDeadlines <- NoHardDeadline
  MaxAttempts = 1
  InitialBackoff = 1
  MaxBackoff = 1
  MaxClock = 1
  BaselineCapacity = 2
  MaxCapacity = 2
  QueueLimit = 2
  MaxLag = 0
  Impatient = {}
  Interruptible <- OneTask
  Steady = TRUE
CHECK_DEADLOCK FALSE
PROPERTIES
  ExpiredLeaseReclaimed
