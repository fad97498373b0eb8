---------------------------- MODULE AgentMailbox ----------------------------
(***************************************************************************)
(* The durable at-least-once mailbox of aegis_cognition/subagents.py and   *)
(* the worker that consumes it.  Each mailbox call is one SQLite           *)
(* transaction (BEGIN IMMEDIATE), so one step.  Instants are kept as the   *)
(* time left until them (they become negative when past), so that time is  *)
(* unbounded; a call reads its clock before the transaction starts and may *)
(* lag by MaxLag.  A message is its idempotency key and its hash.          *)
(***************************************************************************)
EXTENDS Integers, FiniteSets

CONSTANTS Keys, Hashes,     \* idempotency keys and message hashes
          Workers,          \* worker coroutines, in any process
          Consumers,        \* consumer ids; nothing keeps two workers apart
          MaxMessages,      \* max_messages (bytes are bounded alike)
          MaxAttempts,      \* max_attempts
          LeaseTime,        \* lease_ms
          RetryAfter,       \* retry_after_ms of the worker
          Retention,        \* _TERMINAL_RETENTION_MS
          MaxLag,           \* bound: how old a caller's clock may be
          MaxDeliveries     \* bound: rows ever inserted

MailboxAssumption ==
    /\ MaxMessages \in Nat \ {0} /\ MaxAttempts \in Nat \ {0}
    /\ LeaseTime \in Nat \ {0} /\ RetryAfter \in Nat /\ Retention \in Nat \ {0}
    /\ MaxLag \in 0 .. LeaseTime /\ MaxDeliveries \in Nat

VARIABLES rows,      \* delivery id -> row, for the rows in the table
          nextId,    \* AUTOINCREMENT: identifiers are never used again
          worker,    \* what each worker is handling, or Idle
          succeeded  \* history: <<id, attempt>> whose handler returned

vars == <<rows, nextId, worker, succeeded>>

Ids == 1 .. MaxDeliveries
Longest == LeaseTime + RetryAfter + Retention
Left == -MaxLag .. Longest

Row == [key : Keys, hash : Hashes, state : {"READY", "LEASED", "ACKED", "DEAD"},
        attempts : 0 .. MaxAttempts, owner : Consumers \cup {"none"},
        left : Left]  \* until available_at, lease_until or terminal_at + retention

Idle == [id |-> 0, consumer |-> "none", attempts |-> 0, outcome |-> "none"]

Past(left, lag) == left + lag <= 0

Terminal(r) == r.state \in {"ACKED", "DEAD"}

Live(table) == {i \in DOMAIN table : ~ Terminal(table[i])}

Init ==
    /\ rows = << >>
    /\ nextId = 1
    /\ worker = [w \in Workers |-> Idle]
    /\ succeeded = {}

-----------------------------------------------------------------------------
(* The mailbox.                                                            *)

\* DELETE the terminal rows whose retention is over.
PruneTerminal(lag) ==
    [i \in {j \in DOMAIN rows : ~ (Terminal(rows[j]) /\ Past(rows[j].left, lag))}
        |-> rows[i]]

NewRow(k, h, lag) ==
    [key |-> k, hash |-> h, state |-> "READY", attempts |-> 0, owner |-> "none",
     left |-> -lag]

\* A retained key keeps its row: a second enqueue, with the same bytes or with
\* others (refused), changes nothing, and a refused one rolls the pruning back.
Enqueue(k, h, lag) ==
    LET kept == PruneTerminal(lag)
        same == {i \in DOMAIN kept : kept[i].key = k}
    IN  /\ \/ /\ \E i \in same : kept[i].hash = h
              /\ rows' = kept /\ UNCHANGED nextId
           \/ /\ same = {} /\ Cardinality(Live(kept)) < MaxMessages
              /\ nextId <= MaxDeliveries
              /\ rows' = [i \in DOMAIN kept \cup {nextId} |->
                             IF i = nextId THEN NewRow(k, h, lag) ELSE kept[i]]
              /\ nextId' = nextId + 1
        /\ UNCHANGED <<worker, succeeded>>

\* Reopening the mailbox (a restart of its host) prunes as well.
Open(lag) ==
    /\ rows' = PruneTerminal(lag)
    /\ UNCHANGED <<nextId, worker, succeeded>>

Expired(r, lag) == r.state = "LEASED" /\ Past(r.left, lag)

\* Expired leases go back to READY, or to DEAD when the attempts are used up.
\* available_at_ms is as it was, in the past.
Recovered(table, lag) ==
    [i \in DOMAIN table |->
        IF ~ Expired(table[i], lag) THEN table[i]
        ELSE IF table[i].attempts >= MaxAttempts
        THEN [table[i] EXCEPT !.state = "DEAD", !.owner = "none",
                              !.left = Retention - lag]
        ELSE [table[i] EXCEPT !.state = "READY", !.owner = "none",
                              !.left = -MaxLag]]

RecoverExpired(lag) ==
    /\ rows' = Recovered(rows, lag)
    /\ UNCHANGED <<nextId, worker, succeeded>>

Claimable(table, lag) ==
    {i \in DOMAIN table : table[i].state = "READY" /\ Past(table[i].left, lag)}

Oldest(s) == CHOOSE i \in s : \A j \in s : i <= j

MutOwnedIgnoresAttempt(d, lag) ==
    {i \in DOMAIN rows : /\ i = d.id /\ rows[i].state = "LEASED"
                         /\ rows[i].owner = d.consumer
                         /\ ~ Past(rows[i].left, lag)}

\* The row a delivery still owns: leased to this consumer, for this attempt,
\* with time left.
OwnedBy(d, lag) ==
    {i \in DOMAIN rows : /\ i = d.id /\ rows[i].state = "LEASED"
                         /\ rows[i].owner = d.consumer
                         /\ rows[i].attempts = d.attempts
                         /\ ~ Past(rows[i].left, lag)}

-----------------------------------------------------------------------------
(* The worker: claim, run the handler, acknowledge or give back.           *)

\* run_once claims the oldest available message; if there is none, the
\* recovery is committed all the same.
Claim(w, c, lag) ==
    LET table == Recovered(rows, lag)
        ready == Claimable(table, lag)
        i == Oldest(ready)
    IN  /\ worker[w] = Idle
        /\ \/ /\ ready = {} /\ rows' = table /\ UNCHANGED worker
           \/ /\ ready # {}
              /\ rows' = [table EXCEPT ![i].state = "LEASED",
                             ![i].attempts = @ + 1, ![i].owner = c,
                             ![i].left = LeaseTime - lag]
              /\ worker' = [worker EXCEPT ![w] =
                     [id |-> i, consumer |-> c, attempts |-> table[i].attempts + 1,
                      outcome |-> "running"]]
        /\ UNCHANGED <<nextId, succeeded>>

\* The handler returns or raises, after any time.
HandlerEnds(w, outcome) ==
    /\ worker[w].outcome = "running"
    /\ worker' = [worker EXCEPT ![w].outcome = outcome]
    /\ succeeded' = IF outcome = "ok"
                    THEN succeeded \cup {<<worker[w].id, worker[w].attempts>>}
                    ELSE succeeded
    /\ UNCHANGED <<rows, nextId>>

\* Cancellation, or a crash of the process, at any point: nothing is undone.
Abandon(w) ==
    /\ worker[w] # Idle
    /\ worker' = [worker EXCEPT ![w] = Idle]
    /\ UNCHANGED <<rows, nextId, succeeded>>

\* ack: zero rows updated means that the lease was lost.
Ack(w, lag) ==
    LET own == OwnedBy(worker[w], lag)
    IN  /\ worker[w].outcome = "ok"
        /\ rows' = [i \in DOMAIN rows |->
                       IF i \in own
                       THEN [rows[i] EXCEPT !.state = "ACKED", !.owner = "none",
                                            !.left = Retention - lag]
                       ELSE rows[i]]
        /\ worker' = [worker EXCEPT ![w] = Idle]
        /\ UNCHANGED <<nextId, succeeded>>

\* nack: back to READY after a delay, or DEAD after the last attempt.
Nacked(r, lag) ==
    IF r.attempts >= MaxAttempts
    THEN [r EXCEPT !.state = "DEAD", !.owner = "none", !.left = Retention - lag]
    ELSE [r EXCEPT !.state = "READY", !.owner = "none", !.left = RetryAfter - lag]

Nack(w, lag) ==
    LET own == OwnedBy(worker[w], lag)
    IN  /\ worker[w].outcome = "error"
        /\ rows' = [i \in DOMAIN rows |->
                       IF i \in own THEN Nacked(rows[i], lag) ELSE rows[i]]
        /\ worker' = [worker EXCEPT ![w] = Idle]
        /\ UNCHANGED <<nextId, succeeded>>

\* Time passes.
Tick ==
    /\ \E i \in DOMAIN rows : rows[i].left > -MaxLag
    /\ rows' = [i \in DOMAIN rows |->
                   [rows[i] EXCEPT !.left = IF @ > -MaxLag THEN @ - 1 ELSE @]]
    /\ UNCHANGED <<nextId, worker, succeeded>>

Works(w) ==
    \/ \E lag \in 0 .. MaxLag : \/ \E c \in Consumers : Claim(w, c, lag)
                                \/ Ack(w, lag) \/ Nack(w, lag)
    \/ \E o \in {"ok", "error"} : HandlerEnds(w, o)

Next ==
    \/ \E lag \in 0 .. MaxLag :
          \/ \E k \in Keys, h \in Hashes : Enqueue(k, h, lag)
          \/ Open(lag) \/ RecoverExpired(lag)
    \/ \E w \in Workers : Works(w) \/ Abandon(w)
    \/ Tick

Spec == Init /\ [][Next]_vars

\* Workers keep running their loop, a handler ends, and time passes; whether a
\* worker is cancelled or the handler fails is open.
FairSpec == Spec /\ WF_vars(Tick) /\ \A w \in Workers : WF_vars(Works(w))

-----------------------------------------------------------------------------
(* Properties.                                                             *)

\* The table, the workers and the history keep their shape: one row per key.
TypeOK ==
    /\ DOMAIN rows \subseteq 1 .. nextId - 1 /\ nextId \in 1 .. MaxDeliveries + 1
    /\ \A i \in DOMAIN rows : rows[i] \in Row
    /\ \A i, j \in DOMAIN rows : rows[i].key = rows[j].key => i = j
    /\ \A w \in Workers : worker[w] \in
          [id : Ids, consumer : Consumers, attempts : 1 .. MaxAttempts,
           outcome : {"running", "ok", "error"}] \cup {Idle}
    /\ succeeded \subseteq Ids \X (1 .. MaxAttempts)

\* A message is acknowledged only by a worker whose handler completed the
\* attempt the table records last: a worker that lost its lease to another one
\* cannot acknowledge the other's unfinished attempt (ack's expected_attempt).
AckedAttemptSucceeded ==
    \A i \in DOMAIN rows :
        rows[i].state = "ACKED" => <<i, rows[i].attempts>> \in succeeded

\* A message is given up only after all its attempts, whichever of nack and the
\* recovery of expired leases ended them.
DeadAfterAllAttempts ==
    \A i \in DOMAIN rows : rows[i].state = "DEAD" => rows[i].attempts = MaxAttempts

\* Every accepted message is in the end acknowledged or declared dead, though
\* workers crash and lag, since an expired lease is recovered by any claim.
EveryMessageSettles ==
    \A i \in Ids : []<>(i \in DOMAIN rows => Terminal(rows[i]))
=============================================================================
