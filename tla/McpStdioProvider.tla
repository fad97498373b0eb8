-------------------------- MODULE McpStdioProvider --------------------------
(***************************************************************************)
(* The client of a local MCP server over stdin and stdout                   *)
(* (aegis_cognition/extensions.py, McpStdioProvider): it starts the server  *)
(* on demand and again after an exit, and runs requests in slots, one that  *)
(* is exclusive or a few read-only tool calls.  One reader task takes the   *)
(* answers, in any order, and hands each to the future of its request.      *)
(* All runs on one event loop: an action is what happens between two        *)
(* awaits.  Every section under the request condition is free of awaits, so *)
(* taking and giving back a slot never waits for the condition's lock.      *)
(* Subscriptions, the list of supported features and the decoding of        *)
(* results are left out.                                                    *)
(***************************************************************************)
EXTENDS Naturals, FiniteSets

CONSTANTS Callers,      \* tasks that use the provider
          MaxReadOnly,  \* _MAX_MCP_STDIO_READ_ONLY_IN_FLIGHT
          MaxId         \* bound: request ids used in a behaviour


VARIABLES
    process,    \* "none", "running", or "exited" (its return code is set)
    reader,     \* "off", "running", "failed" (_reader_error), "ended" (saw _closed)
    closed,
    lifecycle,  \* holder of the lifecycle lock, NoCaller if free
    step,       \* where each caller is
    kind,       \* of its request: "read_only", "exclusive" or "large"
    id,         \* of the request it has sent, else 0
    future,     \* of that request: "none", "answer", "again" or "error"
    readOnly, exclusive, waiters,  \* the request slots
    pending,    \* _pending_requests: id -> caller
    limit,      \* _active_response_limit: "small" or "large"
    nextId,
    wire,       \* ids the server has not answered yet, with the answer's size
    abandoned   \* history: "named" when a cancelled start or close left _process set,
                \* "lost" when a close was cancelled while it stopped the server

slotVars == <<readOnly, exclusive, waiters>>
serverVars == <<process, reader, closed, lifecycle, abandoned>>
stdioVars == <<serverVars, slotVars, step, kind, id, future, pending, limit, nextId, wire>>

NoCaller == "nobody"

\* The name for nobody is nobody's.
StdioAssumption ==
    /\ MaxReadOnly \in Nat \ {0} /\ MaxId \in Nat
    /\ NoCaller \notin Callers

Kinds == {"read_only", "exclusive", "large"}

\* Steps: "idle"; "starting" awaits start(); "reaping" awaits the end of an exited
\* process and "spawning" the new one, under the lifecycle lock; "slot" and "sent"
\* are in _request, for the handshake when the caller holds the lifecycle lock;
\* "closing", "stopping" and "draining" are the awaits of close.

StdioInit ==
    /\ process = "none" /\ reader = "off" /\ closed = FALSE /\ lifecycle = NoCaller
    /\ step = [c \in Callers |-> "idle"] /\ kind = [c \in Callers |-> "exclusive"]
    /\ id = [c \in Callers |-> 0] /\ future = [c \in Callers |-> "none"]
    /\ readOnly = 0 /\ exclusive = FALSE /\ waiters = 0
    /\ pending = << >> /\ limit = "small" /\ nextId = 1 /\ wire = {}
    /\ abandoned = {}

Handshake(c) == lifecycle = c
\* The handshake is an exclusive request with a small answer.
KindOf(c) == IF Handshake(c) THEN "exclusive" ELSE kind[c]

\* The call returns or raises.
Done(c) ==
    step' = [step EXCEPT ![c] = "idle"] /\ kind' = [kind EXCEPT ![c] = "exclusive"]

Call(c, k) ==
    /\ step[c] = "idle"
    /\ step' = [step EXCEPT ![c] = "starting"] /\ kind' = [kind EXCEPT ![c] = k]
    /\ UNCHANGED <<serverVars, slotVars, id, future, pending, limit, nextId, wire>>

-----------------------------------------------------------------------------
(* start.                                                                  *)

\* _request_slot counts an exclusive request before it waits.
Queue(c, k) ==
    /\ step' = [step EXCEPT ![c] = "slot"]
    /\ waiters' = IF k = "read_only" THEN waiters ELSE waiters + 1

AlreadyStarted(c) ==
    /\ step[c] = "starting" /\ lifecycle = NoCaller
    /\ ~closed /\ process = "running" /\ reader # "failed"
    /\ Queue(c, kind[c])
    /\ UNCHANGED <<serverVars, readOnly, exclusive, kind, id, future, pending, limit,
                   nextId, wire>>

\* A closed provider, or one whose reader failed while the process runs.
StartRefused(c) ==
    /\ step[c] = "starting" /\ lifecycle = NoCaller
    /\ closed \/ (process = "running" /\ reader = "failed")
    /\ Done(c)
    /\ UNCHANGED <<serverVars, slotVars, id, future, pending, limit, nextId, wire>>

\* What is left of an exited process is stopped first.
Reap(c) ==
    /\ step[c] = "starting" /\ lifecycle = NoCaller
    /\ ~closed /\ process = "exited"
    /\ lifecycle' = c /\ step' = [step EXCEPT ![c] = "reaping"]
    /\ UNCHANGED <<process, reader, closed, abandoned, slotVars, kind, id, future, pending,
                   limit, nextId, wire>>

\* Then its reader is cancelled, and the requests it had not answered are left to
\* their timeouts.  Nobody looks again whether the provider is closed.
Reaped(c) ==
    /\ step[c] = "reaping"
    /\ step' = [step EXCEPT ![c] = "spawning"]
    /\ process' = "none" /\ reader' = "off" /\ wire' = {}
    /\ UNCHANGED <<closed, lifecycle, abandoned, slotVars, kind, id, future, pending, limit,
                   nextId>>

Spawn(c) ==
    /\ step[c] = "starting" /\ lifecycle = NoCaller
    /\ ~closed /\ process = "none"
    /\ lifecycle' = c /\ step' = [step EXCEPT ![c] = "spawning"]
    /\ UNCHANGED <<process, reader, closed, abandoned, slotVars, kind, id, future, pending,
                   limit, nextId, wire>>

SpawnFails(c) ==
    /\ step[c] = "spawning"
    /\ lifecycle' = NoCaller /\ Done(c)
    /\ UNCHANGED <<process, reader, closed, abandoned, slotVars, id, future, pending,
                   limit, nextId, wire>>

\* A provider closed meanwhile gets a process whose reader ends at once.
Spawned(c) ==
    /\ step[c] = "spawning"
    /\ process' = "running"
    /\ reader' = IF closed THEN "ended" ELSE "running"
    /\ Queue(c, "exclusive")
    /\ UNCHANGED <<closed, lifecycle, abandoned, readOnly, exclusive, kind, id, future,
                   pending, limit, nextId, wire>>

-----------------------------------------------------------------------------
(* close: it does not take the lifecycle lock, and may be cancelled where   *)
(* it waits.                                                               *)

Registered == {pending[i] : i \in DOMAIN pending}

\* Those that wait are told of an error.
Told(c) == IF c \in Registered /\ future[c] = "none" THEN "error" ELSE future[c]

\* Up to the first await, by caller c, whose own request is over.
Closes(c) ==
    /\ closed' = TRUE
    /\ step' = [step EXCEPT ![c] = "closing"]
    /\ pending' = << >>
    /\ future' = [d \in Callers |-> IF d = c THEN "none" ELSE Told(d)]

Close(c) ==
    /\ step[c] = "idle" /\ Closes(c)
    /\ UNCHANGED <<process, reader, lifecycle, abandoned, slotVars, kind, id, limit, nextId,
                   wire>>

\* The subscriptions are closed; the server is taken, to be stopped.
TakeProcess(c) ==
    /\ step[c] = "closing"
    /\ step' = [step EXCEPT ![c] = IF process = "none" THEN "draining" ELSE "stopping"]
    /\ process' = "none" /\ abandoned' = abandoned \ {"named"}
    /\ UNCHANGED <<reader, closed, lifecycle, slotVars, kind, id, future, pending, limit,
                   nextId, wire>>

Stopped(c) ==
    /\ step[c] = "stopping" /\ step' = [step EXCEPT ![c] = "draining"]
    /\ UNCHANGED <<serverVars, slotVars, kind, id, future, pending, limit, nextId, wire>>

\* The reader is over, and nobody reads what the server still sends.
Drained(c) ==
    /\ step[c] = "draining" /\ Done(c)
    /\ reader' = "off" /\ wire' = {}
    /\ lifecycle' = IF Handshake(c) THEN NoCaller ELSE lifecycle
    /\ UNCHANGED <<process, closed, abandoned, slotVars, id, future, pending, limit, nextId>>

\* A close cancelled before it took the server leaves it to another close.
CloseCancelled(c) ==
    /\ step[c] = "closing" /\ Done(c)
    /\ lifecycle' = IF Handshake(c) THEN NoCaller ELSE lifecycle
    /\ abandoned' = IF process = "none" THEN abandoned ELSE abandoned \cup {"named"}
    /\ UNCHANGED <<process, reader, closed, slotVars, id, future, pending, limit, nextId, wire>>

\* One cancelled while it stops the server may leave it running, and the provider
\* no longer names it.  A cancellation of "draining" is suppressed.
StopCancelled(c) ==
    /\ step[c] = "stopping" /\ step' = [step EXCEPT ![c] = "draining"]
    /\ abandoned' \in {abandoned, abandoned \cup {"lost"}}
    /\ UNCHANGED <<process, reader, closed, lifecycle, slotVars, kind, id, future, pending,
                   limit, nextId, wire>>

-----------------------------------------------------------------------------
(* _request.                                                               *)

\* Mutant: a read-only call does not wait for an exclusive one to leave.
MutSlotFree(c) ==
    IF KindOf(c) = "read_only" THEN waiters = 0 /\ readOnly < MaxReadOnly
    ELSE ~exclusive /\ readOnly = 0

\* The conditions of _request_slot: exclusive requests go first.
SlotFree(c) ==
    IF KindOf(c) = "read_only" THEN ~exclusive /\ waiters = 0 /\ readOnly < MaxReadOnly
    ELSE ~exclusive /\ readOnly = 0

\* The slot is taken, the future registered and the request written; without
\* a running process the write fails and the future never gets an answer.
Send(c) ==
    /\ step[c] = "slot" /\ SlotFree(c) /\ nextId <= MaxId
    /\ step' = [step EXCEPT ![c] = "sent"]
    /\ IF KindOf(c) = "read_only"
       THEN readOnly' = readOnly + 1 /\ UNCHANGED <<exclusive, waiters>>
       ELSE exclusive' = TRUE /\ waiters' = waiters - 1 /\ UNCHANGED readOnly
    /\ id' = [id EXCEPT ![c] = nextId] /\ nextId' = nextId + 1
    /\ pending' = [i \in DOMAIN pending \cup {nextId} |->
                      IF i = nextId THEN c ELSE pending[i]]
    /\ limit' = IF KindOf(c) = "large" THEN "large" ELSE "small"
    /\ future' = [future EXCEPT ![c] = IF process = "running" THEN "none" ELSE "error"]
    /\ wire' = IF process = "running"
               THEN wire \cup {<<nextId, IF KindOf(c) = "large" THEN "large" ELSE "small">>}
               ELSE wire
    /\ UNCHANGED <<serverVars, kind>>

\* Mutant: an abandoned request stays registered.
MutForget(c) ==
    /\ pending' = pending /\ limit' = "small"
    /\ id' = [id EXCEPT ![c] = 0] /\ future' = [future EXCEPT ![c] = "none"]

\* The finally clauses around the wait for the answer.
Forget(c) ==
    /\ pending' = [i \in DOMAIN pending \ {id[c]} |-> pending[i]]
    /\ limit' = "small"
    /\ id' = [id EXCEPT ![c] = 0] /\ future' = [future EXCEPT ![c] = "none"]

ForgetIfSent(c) ==
    IF step[c] = "sent" THEN Forget(c) ELSE UNCHANGED <<pending, limit, id, future>>

GiveBack(c) ==
    IF KindOf(c) = "read_only" THEN readOnly' = readOnly - 1 /\ UNCHANGED <<exclusive, waiters>>
    ELSE exclusive' = FALSE /\ UNCHANGED <<readOnly, waiters>>

\* An answer: of the handshake, after which the caller's own request starts;
\* or the result.
Resume(c) ==
    /\ step[c] = "sent" /\ future[c] = "answer"
    /\ Forget(c) /\ GiveBack(c)
    /\ IF Handshake(c)
       THEN /\ step' = [step EXCEPT ![c] = "starting"] /\ lifecycle' = NoCaller
            /\ UNCHANGED kind
       ELSE Done(c) /\ UNCHANGED lifecycle
    /\ UNCHANGED <<process, reader, closed, abandoned, nextId, wire>>

\* Another round: the server needs the input repeated, or the handshake falls
\* back to another protocol.  The slot is given back and queued for again.
Again(c) ==
    /\ step[c] = "sent" /\ future[c] = "again"
    /\ Forget(c)
    /\ step' = [step EXCEPT ![c] = "slot"]
    /\ IF KindOf(c) = "read_only" THEN readOnly' = readOnly - 1 /\ UNCHANGED <<exclusive, waiters>>
       ELSE exclusive' = FALSE /\ waiters' = waiters + 1 /\ UNCHANGED readOnly
    /\ UNCHANGED <<serverVars, kind, nextId, wire>>

\* The request leaves its slot, or the queue for one, without an answer.
Leave(c) ==
    IF step[c] = "sent" THEN GiveBack(c)
    ELSE /\ waiters' = IF KindOf(c) = "read_only" THEN waiters ELSE waiters - 1
         /\ UNCHANGED <<readOnly, exclusive>>

\* An error or the timeout of a request; a failed handshake closes the
\* provider, its own future forgotten before, and keeps the lifecycle lock.
RequestFails(c) ==
    /\ step[c] \in {"slot", "sent"} /\ ~Handshake(c)
    /\ Done(c) /\ Leave(c) /\ ForgetIfSent(c)
    /\ UNCHANGED <<serverVars, nextId, wire>>

HandshakeFails(c) ==
    /\ step[c] \in {"slot", "sent"} /\ Handshake(c)
    /\ Leave(c) /\ Closes(c)
    /\ id' = [id EXCEPT ![c] = 0]
    /\ limit' = IF step[c] = "sent" THEN "small" ELSE limit
    /\ UNCHANGED <<process, reader, lifecycle, abandoned, kind, nextId, wire>>

\* The caller of a request is cancelled.  A cancelled start leaves its process
\* behind: only an Exception makes it close.
Cancelled(c) ==
    /\ step[c] \in {"starting", "reaping", "spawning", "slot", "sent"}
    /\ Done(c)
    /\ IF step[c] \in {"slot", "sent"} THEN Leave(c) ELSE UNCHANGED slotVars
    /\ ForgetIfSent(c)
    /\ lifecycle' = IF Handshake(c) THEN NoCaller ELSE lifecycle
    /\ abandoned' = IF Handshake(c) /\ step[c] \in {"slot", "sent"} /\ process # "none"
                    THEN abandoned \cup {"named"} ELSE abandoned
    /\ UNCHANGED <<process, reader, closed, nextId, wire>>

-----------------------------------------------------------------------------
(* The server and _read_responses.                                         *)

ProcessExits ==
    /\ process = "running" /\ process' = "exited"
    /\ UNCHANGED <<reader, closed, lifecycle, abandoned, slotVars, step, kind, id, future,
                   pending, limit, nextId, wire>>

\* An answer within the limit: an unknown id is ignored.  The reader of a closed
\* provider takes one message more.
Deliver(i, answer) ==
    /\ reader = "running"
    /\ <<i, "small">> \in wire \/ (<<i, "large">> \in wire /\ limit = "large")
    /\ wire' = {a \in wire : a[1] # i}
    /\ future' = IF i \in DOMAIN pending /\ future[pending[i]] = "none"
                 THEN [future EXCEPT ![pending[i]] = answer] ELSE future
    /\ reader' = IF closed THEN "ended" ELSE reader
    /\ UNCHANGED <<process, closed, lifecycle, abandoned, slotVars, step, kind, id, pending,
                   limit, nextId>>

\* Anything else the reader cannot take, an answer beyond the limit and the end
\* of the output: all that wait are told, and the provider stays refused until
\* the process exits.
ReaderFails ==
    /\ reader = "running"
    /\ reader' = "failed"
    /\ pending' = << >>
    /\ future' = [c \in Callers |-> Told(c)]
    /\ UNCHANGED <<process, closed, lifecycle, abandoned, slotVars, step, kind, id, limit,
                   nextId, wire>>

StdioNext ==
    \/ \E c \in Callers :
          \/ \E k \in Kinds : Call(c, k)
          \/ AlreadyStarted(c) \/ StartRefused(c)
          \/ Reap(c) \/ Reaped(c) \/ Spawn(c) \/ SpawnFails(c) \/ Spawned(c)
          \/ Send(c) \/ Resume(c) \/ Again(c)
          \/ RequestFails(c) \/ HandshakeFails(c) \/ Cancelled(c)
          \/ Close(c) \/ TakeProcess(c) \/ Stopped(c) \/ Drained(c)
          \/ CloseCancelled(c) \/ StopCancelled(c)
    \/ \E i \in 1 .. MaxId, answer \in {"answer", "again"} : Deliver(i, answer)
    \/ ProcessExits \/ ReaderFails

StdioSpec == StdioInit /\ [][StdioNext]_stdioVars

-----------------------------------------------------------------------------
(* Properties.                                                             *)

InSlot(k) == {c \in Callers : step[c] = "sent" /\ KindOf(c) \in k}
Wanting == {c \in Callers : step[c] = "slot" /\ KindOf(c) # "read_only"}

\* The slots are what their holders make them, through timeouts,
\* cancellations, restarts and repeated rounds: an exclusive request is alone,
\* read-only ones are few, the count of those who wait keeps nobody out for
\* good, and while a request for a large answer is under way the reader takes
\* a large answer.
SlotsAreSound ==
    /\ readOnly = Cardinality(InSlot({"read_only"})) /\ readOnly <= MaxReadOnly
    /\ Cardinality(InSlot({"exclusive", "large"})) = IF exclusive THEN 1 ELSE 0
    /\ exclusive => readOnly = 0
    /\ waiters = Cardinality(Wanting)
    /\ InSlot({"large"}) # {} => limit = "large"

\* Nothing is left behind: a registered future is that of a request under way,
\* so that no late answer reaches a later request; one that still waits is
\* registered while there is a reader to answer it; and a closed provider with
\* no start and no close under way has let go of its server, unless a start
\* was cancelled after it made the process, or a close before it was through
\* with it (no close cleans up after those: start only closes on an Exception,
\* and _process is None before the server is stopped).
NothingLeftPending ==
    /\ \A i \in DOMAIN pending : step[pending[i]] = "sent" /\ id[pending[i]] = i
    /\ \A c \in Callers :
          step[c] = "sent" /\ future[c] = "none" /\ reader = "running"
             => id[c] \in DOMAIN pending
    /\ /\ closed /\ lifecycle = NoCaller /\ abandoned = {}
       /\ \A c \in Callers : step[c] \notin {"closing", "stopping"}
       => process = "none"
=============================================================================
