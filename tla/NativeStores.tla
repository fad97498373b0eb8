---------------------------- MODULE NativeStores ----------------------------
(***************************************************************************)
(* The native stores and boundaries, the lock between event loops and the   *)
(* client of a local MCP server side by side.  They share no state, so one  *)
(* component moves in each behaviour while the others rest in their initial *)
(* states: a model checker visits the sum of their state spaces.            *)
(***************************************************************************)
EXTENDS CrossLoopAsyncLock, ConversationRepository, CooperativeAdmission

CONSTANTS
  Workers, Keys, Artifacts, Deadlines, PausedKeys, Ttls, MaxTime,    \* WorkLeases
  Payloads, Size, MaxLiveBytes, MaxGeneration, QueueDepth, SealBatchBytes, MaxQueued,
                                                                     \* HotEngine
  Callers, MaxReadOnly, MaxId                                        \* McpStdioProvider

VARIABLES
  which,
  now, leases, issued, partitioned, committed, ledger,
  slots, free, liveBytes, live, channel, current, pending, pendingBytes, files,
  queued, answered, sealer,
  process, reader, closed, lifecycle, step, kind, id, answer, readOnly, exclusive, wanting,
  registered, limit, nextId, wire, abandoned

workVars == <<now, leases, issued, partitioned, committed, ledger>>
hotVars ==
  <<slots, free, liveBytes, live, channel, current, pending, pendingBytes, files,
    queued, answered, sealer>>
stdioVars ==
  <<process, reader, closed, lifecycle, step, kind, id, answer, readOnly, exclusive, wanting,
    registered, limit, nextId, wire, abandoned>>

Work == INSTANCE WorkLeases

Hot == INSTANCE HotEngine

Stdio == INSTANCE McpStdioProvider WITH
  future <- answer, waiters <- wanting, pending <- registered

ASSUME NativeAssumption ==
  Work!WorkLeaseAssumption /\ Hot!HotEngineAssumption /\ Stdio!StdioAssumption

nativeVars ==
  <<which, vars, repositoryVars, cooperativeVars, workVars, hotVars, stdioVars>>

NativeInit ==
  /\ which \in {"lock", "repository", "cooperative", "work", "hot", "stdio"}
  /\ Init /\ RepositoryInit /\ Work!WorkInit /\ Hot!HotInit /\ Stdio!StdioInit
  /\ CooperativeInit
  /\ which # "cooperative" => inventory = CHOOSE i \in Inventories : TRUE

NativeNext ==
  /\ UNCHANGED which
  /\ IF which = "lock" THEN Next ELSE UNCHANGED vars
  /\ IF which = "repository" THEN RepositoryNext ELSE UNCHANGED repositoryVars
  /\ IF which = "cooperative" THEN CooperativeNext ELSE UNCHANGED cooperativeVars
  /\ IF which = "work" THEN Work!WorkNext ELSE UNCHANGED workVars
  /\ IF which = "hot" THEN Hot!HotNext ELSE UNCHANGED hotVars
  /\ IF which = "stdio" THEN Stdio!StdioNext ELSE UNCHANGED stdioVars

NativeSpec == NativeInit /\ [][NativeNext]_nativeVars

-----------------------------------------------------------------------------
(* Properties.                                                             *)

\* A lease on distributed work has one holder at a time, and the single writer
\* accepts results from it alone, once each (WorkLeaseTable, SingleWriterRunLog).
WorkIsExclusive == Work!WorkIsExclusive

\* Evidence in the arena is readable until it is released, a receipt of the
\* sealer is true, and every queued seal is answered (hot_engine.rs).
EvidenceIsKept == Hot!EvidenceIsKept

\* The request slots of McpStdioProvider match the requests under way, and the
\* reader accepts a large answer while one is expected.
SlotsAreSound == Stdio!SlotsAreSound

\* McpStdioProvider keeps no future that nobody waits for and, closed and at rest,
\* no server that a cancelled start or close did not leave behind.
NothingLeftPending == Stdio!NothingLeftPending
=============================================================================
