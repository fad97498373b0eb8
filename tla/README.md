# TLA+ verification of the AEGIS-COGNITION runtime

AEGIS-COGNITION is a Python and Rust system for running agents under bounded
resources. This directory models what decides *what may run* (the native runtime
authority, its resource admission, the clients that wait for it), what runs
*agents* (mailboxes, peer channels, the supervisor, the desktop service with its
conversations, MCP servers and skills, the Lab), and what *keeps* their work (the
conversation store, leases on distributed work, the evidence engine). TLC checks
the models on small instances; TLAPS proves the central invariants for every
value of the constants. `PROJECT.json` maps each definition to the lines it
models, and lists the runs, the mutants that show each property can fail, the
hazards the properties are for, and the theorems.

Paths below are relative to the repository root.

## 1. Inventory

### The runtime authority and what surrounds it

| Part | State it keeps | Operations | Correct when |
|---|---|---|---|
| Task ledger (`core/rust/src/task_ledger.rs`) | a card per task: status, attempt, earliest retry, hard deadline, dependencies, priority | insert, transition, retry-wait, retry-start | only legal transitions; terminal is final; attempts counted one by one and within the policy |
| Resource admission (`resource.rs`) | capacity, use, active leases, bounded queue and its index, lane counters, memory pressure state | admit, enqueue, pop, remove, release, fenced release, host feedback | no overcommitment; counters equal what leases hold; queue and index agree; pressure relaxes slowly and does recover |
| Authoritative runtime (`runtime.rs`) | the two above, results kept for owners that have not polled | submit, retry, finish, poll (which drains the queue), cancel, reap, observe a sample | ledger, leases and lanes change together; no lease is lost; deadlines and backoff are respected |
| Native boundary (`ffi/runtime.rs`) | one process-wide mutex | the calls above, each preceded by a host sample for submit, retry and poll | calls are serialised; a token crosses, a grant never does |
| Python client (`aegis_cognition/runtime.py`) | where one acquisition is, the lease it holds | acquire (submit, then poll every 50 ms), abort, finish, context managers | whoever leaves, leaves nothing behind; who stays is served |
| Cross-loop lock (`aegis_cognition/_async_primitives.py`) | locked flag, deque of waiters, a state and a future per waiter | acquire, release, cancel, deliver, abandon | one owner; the lock is neither leaked nor granted twice; waiters are served |

How they interact. Python threads and event loops call the runtime through the
boundary; the mutex makes each call atomic with respect to the others, so the
interleavings that matter are *between* the calls of one client: submit and
poll, cancel and the poll that follows it. Queued work is not pushed to its
owner: any client's poll drains the shared queue, admits whoever fits, and
keeps the others' results (`pending_admissions`) until they poll. A lease is
named by a token of identifier, generation and attempt, and every finish is
checked against it. The lock is independent of the runtime: its waiters live
on different event loops, in different threads, and are woken with
`call_soon_threadsafe`.

What is hard. A poll that runs for one client and changes the state of all of
them; abort against admission; late, duplicate and stale finishes against
retry and reaper; a clock read before the mutex is acquired; a queue at its
limit; samples of the host moving the capacity under active leases; grant
against cancellation across threads; loops that close with a grant in flight.

### Agents

| Part | State it keeps | Operations | Correct when |
|---|---|---|---|
| Mailbox and worker (`subagents.py:879-1360`) | a row per message: status, attempt, lease | send, claim (which recovers expired leases), ack, nack, renew, purge | only the current attempt ends a message; every message ends; dead only after all attempts |
| Peer channel (`subagents.py:1815-2022`) | inboxes, pending questions, who is in an exchange | ask, receive, reply, finish, deadline | a question in an inbox can be answered; an asker is released |
| Supervisor (`subagents.py:2932-3227`) | executions, results, resource locks, spawned tasks | run, dependencies, semaphore, locks in order, admission, deadline, cancel event | handlers run after their dependencies and alone on their resources; the run ends |
| Desktop conversations (`desktop_service.py`) | two threads over the durable conversation, a paused approval, run states | send, provider rounds, tool calls, approve or decline, cancel, restart, recovery | one turn at a time; an action runs at most once and the record is true |
| Desktop subagent runs (`desktop_service.py:6780-7130`) | a bounded table of runs, their workers, executions they own | start, settle, cancel, poll, switch workspace | every execution has a worker that settles it |
| Desktop MCP servers (`desktop_service.py:1680-2010, 5150-5940`, `extensions.py`) | the record, the runtime's and the host's registries with grants, the watcher | test, approve, activate, disable, refresh, call | what is offered is what will be honoured; a grant is the user's last word |
| Remote skills (`desktop_service.py:9880-10200`) | approval of one version, cache of pages | approve, disable, read a page | no page outlives the approval |
| MCP stdio client (`extensions.py:3709-4528`) | process, reader, request slots, futures by id | start, request, retry rounds, timeout, cancel, close | slots equal their holders; no late answer reaches a later request |
| Lab (`lab.py`) | an event ledger, its projection, admissions of every lane | the reducer's methods; the application's lanes; pause, cancel, archive, recovery | settled once, within budget, replayable; nothing left open when a mission ends |

### Stores and native services

| Part | State it keeps | Operations | Correct when |
|---|---|---|---|
| Conversation store (`conversations.rs`) | rows of turns, parts, executions, checkpoints, calls; a revision | every transaction compares the revision; open recovers what was under way | no lost update; one execution per turn; outcomes final |
| Cooperative admission (`resource.rs:822-1130, 1151-1452`, `ffi/runtime.rs:31-495`) | aggregate reservations, leases, opaque handles | configure, submit (idempotent), finish, cancel | the aggregate is the sum of the reservations and within capacity; a handle releases its own |
| Distributed work (`distributed.rs`) | a table of leases, a log with one writer | acquire, commit a candidate | one live lease per item, though the log sees only copies |
| Hot engine (`hot_engine.rs`) | an arena of slots and generations, a sealer's channel and files | commit, release, submit, flush, drop | a handle reads its payload; a receipt is true; every seal is answered |

How these interact. The supervisor takes the runtime's admission as a guard that
admits or refuses; the desktop service runs the supervisor in a worker thread and
keeps its executions in the conversation store; MCP servers and skills offer
tools to the turns of a conversation. The Lab's application calls only the
methods of its reducer, each of which appends through the native controller.

What is hard here: workers that crash between claim and acknowledgement; an asker
and its peer ending in the same loop iteration; a service thread and a run thread
that both checked the same conversation; a process that ends around an approval; a
watcher that refreshes a catalogue while a request hides it; a reader that keeps a
page while its skill is disabled; the second append of a call rejected after the
first changed the projection; a settlement that fails; a lease that expires under
its worker; a slot of the arena used again before its seal is written; a request
that is abandoned while its answer is on the way.

### Everything else

`PROJECT.json` lists every component, modelled or not, with the reason; section 7
says what is not modelled.

## 2. Modules

```
TaskLedger <- AdmissionController <- AuthoritativeRuntime <- RuntimeClient <- RuntimeFifo
                                      |                        |               |
                                      MCAuthoritativeRuntime   MCRuntimeClient MCRuntimeFifo
                                      AuthoritativeRuntimeProofs <- RuntimeClientProofs
CapacityEnvelope  (abstract)  <~ implemented by HostFeedback and AuthoritativeRuntime
HostFeedback      <- MCHostFeedback, HostFeedbackProofs

AgentMailbox, PeerChannel, AgentSupervisor,
DesktopConversation, DesktopSubagents, DesktopMcp, RemoteSkills   <~ Agents <- AgentsProofs
LabReducer <- LabRun, LabApplication <- MCLab
LabRun <- LabProofs;  LabProofs, LabApplication <- MissionProofs
CrossLoopAsyncLock, ConversationRepository, CooperativeAdmission  <- NativeStores
WorkLeases, HotEngine, McpStdioProvider                           <~ NativeStores
NativeStores <- MCNative
NativeStores <- NativeProofs
MCLiveness  <~ the lock, mailbox, channel, supervisor, conversation, MCP server and mission
Totals      sums over sets, counted in units;  DataLemmas  facts about sequences and sums
```

(`<-` is EXTENDS, `<~` INSTANCE.)

**TaskLedger** holds the cards (`status`, `attempt`, `notBefore`,
`hardDeadline`) as functions over `Tasks`, the table of legal transitions and
the retry policy. Time is a small natural; `None` is the instant `Never`,
later than any other.

**AdmissionController** holds `capacity`, `used`, the queue and its index, the
leases and the lane counters. The seven additive quantities of
`GrantedResources` are one quantity, "units": admission treats them alike,
componentwise, and no property tells them apart. Static capability checks
(accelerator kind, backend) are one field, `supported`. A host sample moves
the capacity anywhere in its *envelope*, between what is in use and the
maximum; that the exact arithmetic stays in it is the business of HostFeedback.

**AuthoritativeRuntime** has one action per call. `submit`, `retry`, `finish`
and `cancel_queued` are single steps. `poll_queued` and `reap_expired` loop, so
they are one step per iteration with the variable `call` recording that the
mutex is held; no other call can start meanwhile. `DrainDrop`, `DrainBlocked`
and `DrainAdmit` are the three things an iteration of `drain_queued` does with
the head of the queue; `PollReturn` hands the caller its own result. A caller's
`now_ms` is read before the mutex is acquired and may lag by `MaxLag`; `finish`
reads the clock itself. `delivered` is a history variable: every token a caller
has been handed, so that a finish may come late, twice, or with a token of an
earlier attempt. The sample that submit, retry and poll observe first is the
action `ObserveResourceSample`, which may precede any call; the boundary builds
cards without a hard deadline, so clients use `Never`, while the runtime runs
cover deadlines as its own API allows them.

**RuntimeClient** composes the runtime with one client per task:
`new → waiting → holding → done`, or through `aborting`, `reclaiming` and
`returning` to `failed`. Only clients act here: the free choice of calls in
`AuthoritativeRuntime!Next` is replaced by what `runtime.py` really calls, which
does not include the reaper. **RuntimeFifo** adds the order of arrival.

**HostFeedback** is the arithmetic of `capacity_feedback` and
`update_memory_pressure_state` exactly: percentages, the 75% headroom, steps of
a quarter of the baseline, the three-sample hysteresis. All producers of
samples in the program report no CPU activity, so the CPU branch is dead and
left out; saturation of 64-bit quantities is out of a host's reach. `steady`,
`since`, `streak` and `reduced` are history.

**CapacityEnvelope** says what admission promises of one resource: take from
what is left, give back, adapt between what is in use and the most.

**CrossLoopAsyncLock** makes one step of what a thread does under `_guard` and a
separate step of what follows it (`_dispatch`). The event loop, task
cancellation and garbage collection are external: a pending future of a
cancelled task is cancelled at once, a task whose future is done has the
cancellation thrown in on resuming, closing a loop drops its callbacks, and a
coroutine of a closed loop may be collected, which raises into it.

**AgentMailbox** keeps instants as the time left until them, so that time is unbounded
and the state space still finite; a call's clock may lag. A crash loses the worker's
step, never the row. **PeerChannel** makes one step of each body under `_condition`,
which has no await in it; a coroutine whose future is done resumes in a later step, and
others may run in between. Message numbers grow, so an inbox is a set of questions and
`popleft` takes the earliest of them. **AgentSupervisor** chooses the graph, the needs
and the spawned tasks freely among the valid ones; the runtime guard admits or refuses.

**DesktopConversation** has two threads, `service` and `run`, whose steps are the
writes to the store, the provider's rounds and the tool calls. `fresh` is the set
of threads whose revision is current, which stands for the comparison of revisions;
ConversationRepository models the comparison itself. A restart forgets the threads
and the continuation of an approval and runs the store's recovery.
**DesktopSubagents** is the table of runs around the supervisor; a switch goes to
any other workspace, one that was open before included, whose store is then as it was
left. **DesktopMcp** has the serialised requests, the watcher and an agent's calls as
three actors over two registries; a request's wait for the runtime may time out, in an
activation, in the stop of a server and in an undo. Its variables `overdue` and
`strayed` are history: they record which step led to a state the properties except.
**RemoteSkills** has the user and two readers.

**LabReducer** is not a state machine: every method of `LabRun` in `lab.py` is an
operator from a run to the run it leaves, `ok` saying whether it raised, and `fail`
counting down to the append the native controller rejects, rollback included.
**LabRun** lets adapters, operator, archive and recovery call these in any order;
**LabApplication** is the order `LabApplication.run` calls them in, lane by lane
(`at`), with cancellation and pause arriving at awaits; its run (`missionRun`) and its
archive (`missionDisk`) are variables of its own. A controller step asks for up to two
actions, one after the other; every call, the configured one or an action's, has its
identity, so that `External` is the set of those with an effect outside. A step of the
application may have any one of its first four appends rejected; that two appends of the
same step are rejected is left out, as are second attempts of an experiment and a batch
of more than one call.

**ConversationRepository** has one action per transaction. A client's `expected` is
the revision it last read or wrote; `fresh` is history, whether anybody else changed
the content since. Opening the store may happen at any time, by another process.
**CooperativeAdmission** has one action per call of the boundary, which holds the
mutex throughout; a reservation has an ordinary amount and two that share one
capacity. **WorkLeases** lets any worker present any lease it was ever given; the
idempotency key covers all of an envelope but its deadline. **HotEngine** wraps the
generation of a slot at `MaxGeneration` instead of 2^32 - 1; creating and writing a
file are two steps and both may fail. **McpStdioProvider** makes a step of what happens
between two awaits, with restarts, timeouts and cancellation at every await. `close` is
such a caller too: it refuses all requests, takes the server (`TakeProcess`), stops it
(`Stopped`) and ends the reader (`Drained`), beside a start that may have begun, and it
may be cancelled in each of its waits. `abandoned` is history: the servers that a
cancelled start or close left, still named by the provider or lost to it.

**Agents, MCLab, MCLiveness, NativeStores** hold several components each. The
components share no state, and the variable `which`, chosen initially, says which
of them moves: TLC visits the sum of the state spaces and not their product, and a
behaviour of one of these modules is a behaviour of one component. (MCLab extends
LabRun and LabApplication and moves one of four: LabRun, the mission that `lab.cfg`
configures, and two more missions, instances of LabApplication with other constants on
the same variables.) A property of a component holds
trivially while another moves. Agents and NativeStores take the constants of their
components as constants, so that theorems can be stated of them; `agents.cfg` and
MCNative give the values.

## 3. Runs

| Run | Question | Properties | Instance |
|---|---|---|---|
| `runtime_retry` | Do ledger, leases, lanes and counters stay together through retries, deadlines and the reaper? | `TypeOK`, `LeasesAreCounted`, `UsedMatchesLeases`, `AttemptDiscipline`, `NoLateSuccess` | 2 tasks, 3 attempts, clock 0–4, queue of 1; 1.45 M states |
| `runtime_queue` | Does the shared drain lose or misreport anything? | `NoLeaseLost`, `RetainedTokenIsLive` | 3 tasks, 2 lanes, queue of 2, 2 attempts; 334 k states |
| `host_feedback` | Does the arithmetic keep the envelope and the hysteresis, and does admission recover when the host does? | `MemoryEnvelope`, `RelaxesSlowly`, `HostRecovers` | a host of 20 units, samples in every band, requests come and go |
| `client_abort` | What do clients that leave at any point leave behind? | `ClientHoldsExactly` | 3 clients, 2 lanes, moving capacity; 144 k states |
| `client_liveness` | Is a client that waits served? | `PatientIsServed` | 3 clients, one may give up, steady host |
| `agents` | Do subagents and the desktop service keep their promises through crashes, races and failures? | `DeliveryIsSound`, `SchedulingIsSound`, `TurnsAreSerial`, `EffectsAreTrue`, `RunsAreTracked`, `ServerIsConsistent`, `NoStalePage`, `LastDecisionCounts` | 2 mailbox workers, 3 peers, all graphs of 3 tasks, 2 messages, 3 runs in a table of 2 and 2 workspaces, 2 tools, 2 readers; 4.0 M states |
| `lab` | Is a Lab run's ledger sound and is nothing left open? | `LedgerIsSound`, `ReconcileCloses`, `SnapshotIsFaithful`, `VerifiedEvidenceIsFrozen`, `NothingLeftOpen`, `NoActAfterUncertain` | an explicit goal, two lanes and a budget of 2, calls on ledgers of up to 8 events with 2 rejected appends; missions with 4, 7 and 8 stages: two iterations and an explicit goal it cannot afford; two actions, retries and two rejected appends; a pause and a rejection; 2.3 M states |
| `native` | Are the lock, the stores, the leases, the evidence and the stdio client sound? | `MutualExclusion`, `HandoverIsSafe`, `NoLostUpdate`, `OneExecutionPerTurn`, `SettledIsFinal`, `CooperativeIsExact`, `WorkIsExclusive`, `EvidenceIsKept`, `SlotsAreSound`, `NothingLeftPending` | 4 acquisitions on 2 loops; 2 clients, 6 revisions; 3 attempts, 3 inventories, 4 handles; 2 workers and a clock; 2 payloads; 3 callers, 3 requests; 1.45 M states |
| `liveness` | Does what must happen, happen? | `WaiterIsServed`, `SubagentsFinish`, `DesktopSettles`, `CancelEnds` | the seven components with something to wait for; 396 k states |
| `runtime_fifo` (violation) | Is the queue FIFO? | `FifoAdmission` | 3 equal requests, 1 lane |
| `client_interrupt` (violation) | Is an expired lease reclaimed? | `ExpiredLeaseReclaimed` | 3 clients, one interrupted |
| `peer_overlap` (violation) | Has a task one exchange pending at a time? | `OneExchangePending` | 4 tasks |

A name that ends a row may be a conjunction of named parts of one subject, which its
definition lists: `LeasesAreCounted` is `RunningIffLeased` and `LaneAccounting`,
`HandoverIsSafe` is `NoFreeLockWithWaiters` and `NoHandoffError`,
`ClientHoldsExactly` is `NothingLeftBehind` and `HolderHasLease`, `EvidenceIsKept` is
`ArenaIsSound`, `ReceiptIsTrue` and `SealsAreAnswered`, and so on.
`UsedWithinCapacity`, `QueueConsistent`, `PendingMatchesQueue`, `TerminalIsFinal`,
`LockedIffOwned`, `CriticalHoldsReduced`, `ProcessEnvelope` and HostFeedback's type
invariant are proved and were model-checked before; no run repeats them.

Why the bounds are enough for what they check. Two tasks let one hold what the
other needs; three are needed for a drain by one client to touch two others,
or to rotate a queue. Three attempts use both lengths of backoff (one tick,
then the cap) and meet the limit. The clock runs past each deadline in the
instance (2 and 3) by at least one tick, and a lag of one tick puts a caller on
the wrong side of any deadline. A queue of one overflows, a queue of two has a
head and a tail. A capacity of two units is exhausted by two small
requests or by one large one, so small and large ones contend. Four acquisitions on
two loops give a grant that stays on its loop, one that crosses, and a third waiter
to inherit an abandoned one. The 20-unit host has a sample on each side of each
threshold (10, 15, 25, 35%), no free memory, plenty, and each part unknown.

Two mailbox workers and two attempts let a late acknowledgement meet the second worker's
claim. Three peers are the fewest with which an asker that fails can be asked again
before it resumes, and a fourth makes the overlap of `peer_overlap`. Three tasks of a
supervisor form a chain, a fork, a join and independent tasks, on one resource in
`agents`; `liveness` has two tasks and two resources, the fewest that could be locked in
two orders. Two messages let the second be sent while the first is paused. A table of
two is full with three runs; two workspaces are one to leave and come back to. Two
versions of a catalogue and one failure put a failed request between two refreshes; in
`liveness` refreshes fail as often as the watcher tries, so that it gives up, and three
questions with three exchanges each reach the overwritten record that `AskerIsReleased`
excepts. A ledger of eight events, three of them the prepared evidence, lets a Lab run
be completed after its receipt with an admission still open, and lets both lanes be
admitted, settled and reconciled beside a crash; two rejections reach the append and its
compensation. The other lanes, and goals without explicit acceptance, are in the
missions. Two actions, the second of a safe class, are the fewest with which something
could follow a call whose outcome is unknown; with two rejections the settlement of a
call and, in another step, a blocker are lost. Two clients and six revisions are a race
of two writers, an execution, a recovery and a retry after it. Three cooperative
attempts meet inventories with room for several, for one and for none, which come and go
and come back; four handles run out. Three callers of the stdio client are an exclusive
one, a reader and one that starts the process; three requests suffice for a handshake, a
request and one after it.

Symmetry over tasks is used in the runtime's safety runs, whose constants treat tasks
alike, and over the callers of the stdio client in `native`; it is not used with
liveness. `CHECK_DEADLOCK FALSE` appears where the system may come to rest: all clients
done, all acquisitions over, nothing left to send.

### Fairness

`HostFeedback!FairSpec`: samples keep coming, because every waiting client
polls every 50 ms and each poll takes one. "Steady" is a hypothesis of the two
recovery properties, not of the program. The band from 10 to 14% is excluded
from `HeadroomRecovers` because there the code deliberately keeps a critical
state critical.

`RuntimeClient!ClientFairness`: a call that holds the mutex continues (weak); a
client that asks for the mutex again and again gets it (strong: `parking_lot`
mutexes are eventually fair); operations end, and their leases are finished.
`PatientIsServed` is checked on a steady host: under samples that keep taking
capacity away there is no such promise.

`CrossLoopAsyncLock!Fairness`: a loop runs the callbacks it has accepted and
resumes coroutines whose future is done, a thread in the middle of a call
continues, holders release. Nothing forces a cancellation, a close, or garbage
collection. The hypothesis of the liveness run is that a loop is closed only
when it has nothing left to run; an abrupt close (`_async_primitives.py:88`) may
strand a grant until the coroutine is collected, which Python does not promise.

In `liveness` every component has the fairness of its own module, for the component
that moves. Mailbox: time passes and a worker that lives goes on polling; nothing
makes a worker crash only finitely often except the limit on attempts. Peer channel
and supervisor: the event loop resumes a coroutine that can run (weak fairness per
task); no handler is assumed to end other than by answering, its deadline or its own
return. Conversation: both threads continue, and the user decides about a call that
waits (the code has no timeout for it, so a turn that waits for the user counts as
settled). MCP server: requests and the watcher's loop continue; its timed retry is a
step of the watcher. Lab mission: the application's task goes on; the disjunction in
`Fairness` is weak fairness of its step, written out because the step is a large
formula. Leads-to properties of the form `P ~> ~P` are written `[]<>~P`, which is
equivalent.

Four of these properties state an exception, a state from which the code does not
recover, and the instance reaches each: an asker whose pending question was overwritten in
`_pending_by_recipient` waits for its deadline (`AskerIsReleased`); a change whose refresh
failed at every attempt is missed until the next one, and a server that outlived a
deactivation that timed out is not followed (`CatalogConverges`); a cancellation is
replaced by the error of a rejected settlement in a controller step (`CancelEnds`).
`TurnSettles` speaks of turns: the run after an approval may stay WAITING_PERMISSION.

## 4. Findings

Three runs show where the code and its documents disagree.

* **FIFO** (`runtime_fifo`). `drain_queued` says it re-attempts "in FIFO order", and
  the contract inventory calls the queue FIFO. The drain pops the head before it knows
  that it can run; if it has to wait it is enqueued again, at the tail. A poll that
  admits nothing thus rotates the queue, and a younger equal request can be
  granted first. `PatientIsServed` shows that in the instance checked rotation
  starves no one.
* **Deadline reaper** (`client_interrupt`). The inventory says that expired leases
  become `TimedOut` and release their counters. `reap_expired` does that, but only a
  unit test calls it. A synchronous client interrupted in `time.sleep` leaves its queue
  entry behind; another client's poll admits it, and the lease stays in force
  past its deadline with its lane slot.
* **One exchange at a time** (`peer_overlap`). `docs/api/agent.md:93` promises one
  pending exchange per task. When the peer of an asker finishes without replying, both
  leave the exchange at once; a third task may ask the asker before it resumes, and
  its error branch then clears its flag, so that a fourth may ask it as well.

### Met while modelling

The models contain the following behaviour as the code has it; no run is kept for
each. Paths are in `aegis_cognition/` unless they say otherwise.

Subagents and desktop service:

* `subagents.py:1976`: a reply between the deadline of the asker and its resumption
  calls `set_result` on a cancelled future, which raises in the task that answered.
* `subagents.py:3194`: with a cancel event the group runs in a task of its own; if
  `run()` itself is cancelled the group goes on.
* `desktop_service.py:6173`: if the provider fails after an approval, the run stays
  WAITING_PERMISSION and the conversation refuses messages until a restart; `:9080`: a
  batch of calls that raises leaves those recorded before it REQUESTED; `:2865`:
  reopening the open workspace drops the continuations of paused approvals.
* `subagents.py:1990`: after the overlap of `peer_overlap` the recipient's record names
  the later question only; when the recipient finishes, the earlier asker is not told.
* `desktop_service.py:7017`: the table of subagent runs drops a run that is CANCELLING
  although its worker is still at work. A switch (`:2879`) then does not wait for it; its
  worker ends in another workspace, and the execution is still RUNNING, without a worker,
  when the first workspace is opened again.
* `desktop_service.py:5195`: a refresh that holds the catalogue lock registers the
  tools of a server again after a stop removed them; `:5866`: the undo of a failed
  activation leaves the tools registered if deactivation raises; `:1612`: a deactivation
  cancelled after 60 seconds, while a refresh holds the lock, has stopped nothing, and the
  server runs on for a record that is disabled.
* `desktop_service.py:1796`: after its attempts the watcher gives up on a change and
  waits for the next notification; until then the runtime has the catalogue of before.
* `desktop_service.py:5041`: a skill disabled by its identifier keeps its pages in the
  cache, since only the other paths call `_invalidate_mcp_skill_resource_cache`. No reader
  is served one: a read looks at the record first.

Lab (`lab.py`):

* `:5280`: after verify, pause and resume a run can no longer be serialised; `:6063`:
  a second pause is an error, the plan calls it idempotent; `:6117`: a rejected source
  takes back an event that listeners have seen; `:7450`: the reconciliation of tools
  leaves the managed memory admission open.
* `:14062`: the archive is written before the final dossier's events; `:10871`: a pause
  during a skill makes its receipt and its rejection fail; `:12122`: a rejected
  settlement of a cancellation replaces the cancellation by an error the controller loop
  swallows; `:11204`: so does a rejected blocker of an unknown outcome, and the
  experiment after the loop, which looks for that blocker (`:13773`), is admitted. Runs
  with an explicit goal cannot complete through `LabApplication`; a pause does not stop
  admissions under way; evidence that arrives while paused is rejected and leaves a
  blocker. Research is not suppressed after an uncertain tool outcome, as
  `test_lab_runtime.py:8379` intends.

Stores and native services:

* `conversations.rs:1243`: a turn that becomes CANCELLED has no time of completion.
  Recovery (`:1521`) skips conversations that are not ACTIVE and one whose only open
  turn waits for approval.
* `resource.rs:1101`: a comment says a stale token cannot release a later reservation;
  if the inventory changes and changes back the numbers start again, and a token of the
  first period equals one of the third. The handles of the boundary do not repeat, so no
  caller of the boundary can do it.
* `distributed.rs`: the deadline is not part of the idempotency key, so a candidate may
  be committed past the deadline of an older envelope with the same key, and two
  artifacts for one item may both be accepted.
* `hot_engine.rs:583`: sealing a handle a second time truncates its file before writing
  it again; `:554`: a full batch is dropped from the next flush, whose receipt may then
  be empty, and `is_valid` refuses an empty one.
* `extensions.py:3881`: a start that is cancelled leaves its process behind, since
  `CancelledError` is no `Exception`; `:3903`: a close that is cancelled while it waits for
  the server to end does not kill it, and no later close knows of it; `:3777`: a start that
  stops an exited server first does not look again whether the provider was closed
  meanwhile; a request that passed `start()` and waits for a
  slot registers after the reader has failed and waits for its timeout; a large answer
  that comes after its request gave up exceeds the limit and ends the reader.

Runtime: a first attempt refused by a full queue (`runtime.rs:363`), or expiring in
the queue (`:539`), leaves a task `Ready` for ever; a lane with limit zero queues what
it can never run (`:362`).

## 5. Proofs

All theorems hold for any sets of tasks, lanes, shapes, loops, messages, tools,
payloads, samples and sizes, and any natural limits, under the named assumptions of
the modules. These give constants their types and order (a baseline below its
maximum), and say that a name that stands for nobody is nobody's: `NoWaiter`,
`NoCaller`, `NoPayload`, `Free`, and the number 0 among tasks and messages. The clients'
assumption also says that a card may carry no hard deadline, as the boundary's cards
do. TLC evaluates all of them in the runs of their modules.

Every invariant was checked by TLC on the instance of its run before it was proved.
Every safety property of the passing runs, invariant or action property, is proved.

**Runtime** (`AuthoritativeRuntimeProofs`). `TypeCorrect` is inductive by itself. The
others rest on one inductive invariant, `RuntimeInv`:

* `RunningIffLeased` needs `LeaseIdsFresh` (identifiers in use are below the
  next one; otherwise a grant might collide with a lease in force) and
  `QueueConsistent` (what the drain admits is `Ready` or waiting for a retry, so
  has no lease yet);
* `QueueConsistent` needs `RunningIffLeased` (a finish touches no queued task);
* `LaneAccounting` counts leases by lane and needs the leases' distinctness,
  to know that one grant adds one and one release removes one;
* `NoLeaseLost` needs `CallConsistent` (what a poll in progress is about to
  return), `AbsentIsFresh` (nothing is kept for a task that was never submitted)
  and `PendingMatchesQueue` (an admission for an attempt never overwrites
  another that was kept for it).

From it follow the invariants as theorems (`LeaseBookkeeping` is the two that
`runtime_retry` checks together), the action properties `TerminalStays`,
`LateFinishIsTimeout` and `RetriesAreDisciplined`, and the refinement
`RuntimeKeepsEnvelope`: the runtime's `capacity` and `used` implement
`CapacityEnvelope`. Two theorems need more:

* `UsedIsTheSumOfLeases`: the counter is the sum over the leases. `Totals` defines a
  sum as the number of *units*, pairs of an element and a number up to its amount,
  so that the theorems on finite sets replace an induction: `DataLemmas` derives that
  one element more adds its amount and one less takes it away.
* `RetainedTokensStayGood` needs `UndeliveredInv`: a token that is kept, or that a
  poll has in hand, names a lease of which no caller has a token, and it is in one
  place only. Only its owner can therefore end its lease, or the reaper.

**Clients** (`RuntimeClientProofs`). `ClientsUseTheRuntime` is a refinement: every step
of the clients is a step of `AuthoritativeRuntime`, so all theorems above hold under the
clients too. The step that is not obvious is the finish, for a caller may only present a
token that was delivered. `ClientsLeaveNothingBehind` needs `ClientInv`, beside
`RuntimeInv`: clients never retry, every lease is with a client that is on its way to a
decision (holding, waiting with the token kept, or in a poll that is about to return
it), what a client holds or is kept for it names its lease, and only a client that is
undecided is queued. A client that ends has been through the poll after its cancel, and
by the invariant nothing can have been granted since.

**Host feedback** (`HostFeedbackProofs`). The invariant adds to the types that
neither resource is overcommitted and `Hysteresis`, which relates the pressure
state to the samples since the last critical one: critical needs at least as
many as it has counted, guarded three more than that, normal all six. The
envelope theorems then need only that `MoveTowards` stays between its
arguments and that both targets lie between use and maximum.

**Lock** (`NativeProofs`). `LockInv` says what each combination of
coroutine, waiter state and future means: who is in the deque, that a granted
waiter is being dispatched, has a callback, or has its result, and that the lock
belongs to at most one. Exclusion, `LockNeverLeaks`,
`WaitersImplyLocked`, `NoLostHandoff` and their conjunction `HandoverSafe` follow.

**Stores** (`NativeProofs`). `UpdatesAreSeen` needs, beside what it says, that no
client expects a revision the store has not reached: a commit then leaves all others
behind. `TurnsRunOnce` needs the types of the rows, for a turn
that is neither pending nor settled would be left alone by recovery; the step that
matters is `StartExecution`, where an earlier execution of the turn that has ended
would make the turn settled, which the guard on its status excludes. `OutcomesAreFinal`
follows step by step. `WorkHasOneHolder` is inductive once the table, the copies
of leases and the log have their types.
`CooperativeBooksBalance` says of each of the three amounts that it is the sum over
the leases; its invariant adds that identifiers of leases and handles in use are below
the next ones, without which a grant could replace a reservation that is still held.

**Hot engine and stdio client** (`NativeProofs`). `HotEvidenceIsKept` rests on
`ArenaHeld` (a free slot is not in use, is free once, and the live bytes are the sum
over the slots in use), `SealsHeld` (the seals on their way carry exactly the numbers
not answered yet, in order, and a shutdown is the last command) and `ReceiptsHeld`.
`StdioSlotsAreSound` and `StdioNothingLeftPending` rest on `StdioInv`, which gives each
place of a caller its slot, its future and its share of the counters; the counters are
cardinalities of sets of callers. That a closed provider has let go of its server is
proved with its exceptions: a provider closed for good has a server only while a start
or a close is on its way to it, and whoever was cancelled on that way is recorded in
`abandoned`. `NativeStoresAreSound` collects these with the lock:
the specification the run `native` checks implies each component's, and so has all its
properties.

**Agents** (`AgentsProofs`). Each component has its own inductive invariant:

* `MailboxInv`: a worker that will acknowledge has completed the attempt it was
  given, and a row's status and attempts agree with what succeeded. An
  acknowledgement of an earlier attempt then finds another attempt in the row.
* `ChannelInv`: a question in an inbox is pending, its recipient's, and numbered below
  the next; one that a handler took is out of the inbox.
* `SupervisorInv`: a task that waits for a slot, locks or runs has the successes it
  depends on, a lock belongs to a task inside the semaphore, and a task is over when
  it has a result.
* `SerialInv`: a thread that works on a durable turn is the only one with the current
  revision. Refusing a thread whose revision is old is then enough to keep turns serial.
  `EffectsInv` relates each recorded call, its decision and the number of times it ran
  to the place of the thread that handles it, so that no order of approval,
  cancellation, restart and recovery runs a call again or denies one that ran.
* `TableInv`: a running run is in the bounded table, because only ended ones and those
  being cancelled are dropped; a switch finds in the table whatever else is at work, so
  that only a run evicted while it was being cancelled can lose its worker to it.
* `ServerInv`: the runtime's registry is the accepted catalogue, or one that the watcher
  is about to have accepted, which grants nothing new; and where a request is tells
  what runs, for each place at which it may fail or time out.
* `SkillsInv`: while an approval is withdrawn other than by identifier, and nobody is
  about to empty the cache, it is empty and no reader is about to store a page. A reader
  that is about to withdraw an approval has seen the one in force unless the state was
  written since.

`AgentsAreSound` shows of the specification that the run `agents` checks that each of
its behaviours is one of every component, and so has all properties together.

**Lab** (`LabProofs`). The four properties of `LabRun`, for every budget, prepared run,
number of events and rejections, rest on `LabInv`: the run in memory and the one on
disk are `Good`, which has three parts that need each other.

* `LedgerHolds`: every identity is admitted once and settled once and after that, the
  counter of attempts is the number of admissions, and the tool lane of the projection is
  what the ledger says. Without the last, a guard on the projection (is this execution
  open?) would say nothing about the ledger. The cancellations have the numbers up to
  the last, or an abort could settle one that was never admitted.
* `EvidenceHolds`: there is at most one receipt, after all evidence, and a completed run
  was completed after it.
* `Projects`: the projection is the replay of the ledger. A rejected append restores
  a projection, so the snapshot it goes back to must be the one that belongs to the ledger.

The argument has two levels. Every method is a series of `Commit`s, and one `Commit`
keeps `Good` if the ledger permits its event and the new projection reflects it
(`Permitted`, `Reflects`); each method is then shown to commit only such events, in every
outcome: refused, rejected half-way, or accepted. Replay and the loops of the dossier
and the reconciliations are recursive functions; what they compute is proved from a least
counterexample, with the trace of the iterations as a function (`Replays`, `Trace`), so
that no induction theorem is needed. `LabReconcileCloses` follows iteration by
iteration: each closes its identity and leaves the others alone.

**Missions** (`MissionProofs`). `MissionLeavesNothingOpen` and `MissionDoesNotRepeat`
hold for any configured stages and budget, any set of external calls and any number of
rejected appends and pauses; the model itself has at most two iterations, two actions in
each and two attempts of a call, `ApplicationAssumption`, since it names each identity.
Neither property is inductive: a run that completes is settled only because of what
every earlier stage left behind. `MissionInv` says beside `Good`

* where the application can be (`Legal`): only a stage that asks an adapter awaits it, and
  the loop of the controller is at one of two actions of one of two iterations. The identity
  that a stage admits is a function of that place;
* `Held`: what is open is the one identity the mission awaits, or there is a blocker that
  no resume takes away (any but the operator's). Completion needs a run without blockers,
  so that an admission whose settlement was rejected cannot be completed over; the
  exception for the operator's blocker is needed, for `resume` removes that one;
* `Calm`: with the outcome of a tool unknown the mission is at no stage that could admit
  what repeats it. It is not enough that the guards of these stages look at the
  blocker: a retry under way, an awaited controller step and the second iteration
  have passed theirs, and the invariant excludes that the outcome becomes unknown there;
* `Sure`: an external call whose success is not settled is the one awaited, or its blocker
  is recorded, or the mission is behind the controller loop. The guards of the code look at
  the blocker and `MissionDoesNotRepeat` speaks of the outcome; where the append of the
  blocker is rejected they part, and `Sure` shows that this happens only on the way out of
  the loop, after which the experiment alone is admitted. That is the exception the
  property states;
* that the run is not over until the mission is.

The argument goes through the methods as `LabProofs` does. `Evolves(r, q, X)` says of a
series of calls that `q` is a continuation of `r`: `Good`, with nothing admitted but
what is in `X`, no settlement, success or blocker lost but the operator's, no outcome
become unknown, and not ended. Each stage is shown to end with a run that `Fits` its next
place, whether its calls were accepted, rejected or raised; where a stage settles what
it awaited, the run is `Clear` or has raised. Exceptions go to `failing`, where `Held`
need not hold any more: from there the reconciliation either closes every lane
(`LanesClose`, `ReconcileTells`) or leaves the blocker by which the open admission is
told. `MissionLedgerIsSound` carries the soundness of `LabRun`, for calls in any order,
over to the calls of the application.

`LabReconcileCloses` and the run speak of a reconciliation whose appends are accepted;
what a rejected one leaves open is the business of `FailedIsClosed`, in missions.

**Only model-checked.** Liveness (`PatientIsServed`, `HostRecovers` and the properties
of the run `liveness`) is outside the prover. The three violations are counterexamples of
TLC.

## 6. Plan

Done: the modules, runs and theorems above. Next, in order:

1. **Refinement**: DesktopConversation's use of `fresh` as an abstraction of
   ConversationRepository's revisions; the supervisor's guard as one of RuntimeClient.
2. **Execution lanes** (`execution.rs:55-330`) and **connections** (`connections.rs`).
3. **Pure algorithms**: topological order and priority of the ledger, the validation
   of the subagents' task graph, against reference definitions.

## 7. Not modelled

The map covers about a tenth of the implementation's lines. The rest is of three
kinds, and a model of it would say little or would be a transcription. First,
validation, normalisation, encoding and formatting of data, which make up most of
`lab.py`, `desktop_service.py`, `extensions.py`, `aese.py` and `goal_contract.py`: the
models keep what these accept or refuse as a choice. Second, scripts, audits and test
harnesses (`scripts/`), which are no part of the running system. Third, I/O,
hardware measurement, archives and hashing, language-model clients and ranking
heuristics, whose contract is a file format, a protocol of others or a number.

Within modelled components: the placement path of the boundary
(`ffi/runtime.rs:555-705`) and placement reservations; the branches of
`capacity_feedback` that no sample of this program reaches (a pressure flag without the
percentage to go with it, CPU activity); subscriptions and the HTTP client of MCP; the
Lab's callback search path, provider attempts (the gateway's fence rejection at
`lab.py:12203` among them), repeated attempts of experiments and simulations, an
experiment recorded without an admission (`:4246`), two rejected appends within one step
of the application, and the controller's search and browser actions; the desktop
service's other requests. Components without a module are listed in `PROJECT.json` with
the reason.
