SPECIFICATION LabSpec
CONSTANTS
  Explicit = TRUE
  Budget = 2
  Execs = {"memory", "experiment"}
  Prepared = 2
  MaxEvents = 8
  MaxFail = 2
  Calls = {"record", "transition", "pause", "abort", "admit", "settle", "verify", "dossier",
           "reconcile", "reconcile_tools", "archive"}
  Configured = {"tool", "research", "plan", "experiment"}
  External = {"tool", "retry", "plan11", "replan11", "plan21", "replan21"}
  Required = TRUE
  MaxAttempts = 2
  Iterations = 2
  Actions = 2
  Rejections = 1
  Pauses = 1
CHECK_DEADLOCK FALSE
INVARIANTS
  LedgerIsSound
  ReconcileCloses
  SnapshotIsFaithful
  VerifiedEvidenceIsFrozen
  NothingLeftOpen
PROPERTIES
  NoActAfterUncertain
