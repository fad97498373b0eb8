SPECIFICATION Spec
CONSTANTS
  t1 = t1
  t2 = t2
  t3 = t3
  cpu = cpu
  python = python
  Tasks <- TwoTasks
  Lanes <- BothLanes
  LaneLimit <- OneEach
  Shapes <- RetryShapes
  HardDeadlines <- RetryHardDeadlines
  MaxAttempts = 3
  InitialBackoff = 1
  MaxBackoff = 2
  MaxClock = 4
  BaselineCapacity = 2
  MaxCapacity = 2
  QueueLimit = 1
  MaxLag = 1
SYMMETRY TaskSymmetry
INVARIANTS
  TypeOK
  LeasesAreCounted
  UsedMatchesLeases
PROPERTIES
  AttemptDiscipline
  NoLateSuccess
