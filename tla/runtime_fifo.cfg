SPECIFICATION FifoSpec
CONSTANTS
  t1 = t1
  t2 = t2
  t3 = t3
  cpu = cpu
  Tasks <- ThreeTasks
  Lanes <- OneLane
  LaneLimit <- OneSlot
  Shapes <- OneShape
  HardDeadlines <- NoHardDeadline
  MaxAttempts = 1
  InitialBackoff = 1
  MaxBackoff = 1
  MaxClock = 0
  BaselineCapacity = 2
  MaxCapacity = 2
  QueueLimit = 2
  MaxLag = 0
  Impatient = {}
  Interruptible = {}
  Steady = TRUE
CHECK_DEADLOCK FALSE
PROPERTIES
  FifoAdmission
