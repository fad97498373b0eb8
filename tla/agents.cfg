SPECIFICATION Spec
CONSTANTS
  Keys = {"k1", "k2"}
  Hashes = {"h1"}
  Workers = {"w1", "w2"}
  Consumers = {"c1"}
  MaxMessages = 2
  MaxAttempts = 2
  LeaseTime = 2
  RetryAfter = 1
  Retention = 2
  MaxLag = 1
  MaxDeliveries = 2
  Peers = {"t1", "t2", "t3"}
  MaxExchanges = 2
  MaxQuestions = 3
  Tasks = {1, 2, 3}
  Resources = {1}
  MaxConcurrency = 2
  MaxDynamic = 1
  MayInterrupt = TRUE
  Messages = {1, 2}
  MaxRounds = 1
  MaxCalls = 1
  Runs = {"r1", "r2", "r3"}
  Conversations = {"c1"}
  Turns = {"t1"}
  MaxRuns = 2
  MaxWorkspace = 1
  Tools = {"a", "b"}
  ReadOnly = {"a"}
  Attempts = 2
  MaxRecords = 3
  MaxChanges = 2
  MaxFailures = 1
  Readers = {"r1", "r2"}
  MaxVersion = 3
  MaxCache = 2
  MaxRevision = 5
CHECK_DEADLOCK FALSE
INVARIANTS
  DeliveryIsSound
  SchedulingIsSound
  TurnsAreSerial
  EffectsAreTrue
  RunsAreTracked
  ServerIsConsistent
  NoStalePage
PROPERTIES
  LastDecisionCounts
