SPECIFICATION NativeSpec
CONSTANTS
  a = a
  b = b
  c = c
  d = d
  la = la
  lb = lb
  p = p
  q = q
  NoWaiter = NoWaiter
  Acquisitions <- FourAcquisitions
  Loops <- TwoLoops
  LoopOf <- TwoEach
  CloseWhenReady = TRUE
  Turns = {t1, t2}
  Executions = {e1, e2}
  Calls = {k1}
  Clients = {u1, u2}
  Roles = {"assistant", "tool"}
  Models = {m1}
  MaxRevision = 6
  MaxParts = 2
  Attempts = {n1, n2, n3}
  Plans = {h1, h2}
  Reservations <- ThreeReservations
  Inventories <- ThreeInventories
  Times = {1, 2}
  MaxHandle = 4
  MaxLease = 4
  Workers = {"w1", "w2"}
  Keys = {"k1", "k2"}
  Artifacts = {"x1"}
  Deadlines = {2, 3}
  PausedKeys = {"k1"}
  Ttls = {1, 2}
  MaxTime = 3
  Payloads = {p, q}
  Size <- Sizes
  MaxLiveBytes = 2
  MaxGeneration = 2
  QueueDepth = 2
  SealBatchBytes = 2
  MaxQueued = 2
  Callers = {x1, x2, x3}
  MaxReadOnly = 2
  MaxId = 3
SYMMETRY CallerSymmetry
CHECK_DEADLOCK FALSE
INVARIANTS
  MutualExclusion
  HandoverIsSafe
  NoLostUpdate
  OneExecutionPerTurn
  CooperativeIsExact
  WorkIsExclusive
  EvidenceIsKept
  SlotsAreSound
  NothingLeftPending
PROPERTIES
  SettledIsFinal
