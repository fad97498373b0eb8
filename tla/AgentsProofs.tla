---------------------------- MODULE AgentsProofs ----------------------------
(***************************************************************************)
(* The components of subagents.py and desktop_service.py keep what they    *)
(* promise for any number of agents, tasks, messages, runs, tools and      *)
(* readers.  Each part has an inductive invariant of its own; the last one *)
(* carries the results over to the components side by side.                *)
(***************************************************************************)
EXTENDS Agents, DataLemmas

-----------------------------------------------------------------------------
(* The durable mailbox.                                                    *)

MailRow ==
    [key : Keys, hash : Hashes, state : {"READY", "LEASED", "ACKED", "DEAD"},
     attempts : 0 .. MaxAttempts, owner : Consumers \cup {"none"}, left : Int]

\* What a row owes to its attempts: one is left while it is READY, none when it is
\* DEAD, and the last one succeeded when it is ACKED.
RowIsSound(i, r, done) ==
    /\ r \in MailRow
    /\ r.state = "READY" => r.attempts < MaxAttempts
    /\ r.state = "DEAD" => r.attempts = MaxAttempts
    /\ r.state = "ACKED" => <<i, r.attempts>> \in done

TableIsSound(mail, done) == \A i \in DOMAIN mail : RowIsSound(i, mail[i], done)

\* The rows are sound, and a worker that will acknowledge has completed its attempt.
MailboxInv ==
    /\ TableIsSound(rows, succeeded)
    /\ mailWorker \in [Workers -> [id : Nat, consumer : Consumers \cup {"none"}, attempts : Nat,
                                   outcome : {"none", "running", "ok", "error"}]]
    /\ \A w \in Workers : mailWorker[w].outcome = "ok" =>
          <<mailWorker[w].id, mailWorker[w].attempts>> \in succeeded
    /\ DOMAIN rows \subseteq Nat /\ nextDelivery \in Nat

LEMMA MailboxConstants ==
    /\ MaxAttempts \in Nat \ {0} /\ MaxLag \in Nat /\ 0 .. MaxLag \subseteq Nat
    /\ LeaseTime \in Nat /\ RetryAfter \in Nat /\ Retention \in Nat
  BY AgentsAssumption DEF Mailbox!MailboxAssumption

LEMMA PruneKeepsRows ==
    ASSUME MailboxInv, NEW lag \in 0 .. MaxLag
    PROVE  /\ TableIsSound(Mailbox!PruneTerminal(lag), succeeded)
           /\ DOMAIN Mailbox!PruneTerminal(lag) \subseteq Nat
  BY DEF MailboxInv, TableIsSound, Mailbox!PruneTerminal

\* A row whose state changes and whose attempts do not.
LEMMA RowChanges ==
    ASSUME NEW i, NEW done, NEW r, RowIsSound(i, r, done), NEW q \in MailRow,
           q.attempts = r.attempts, q.state # "LEASED",
           q.state = "READY" => ~(r.attempts >= MaxAttempts),
           q.state = "DEAD" => r.attempts >= MaxAttempts,
           q.state = "ACKED" => <<i, r.attempts>> \in done
    PROVE  RowIsSound(i, q, done)
  <1>1. q.attempts \in 0 .. MaxAttempts
    BY DEF MailRow
  <1>2. /\ q.attempts >= MaxAttempts => q.attempts = MaxAttempts
        /\ ~(q.attempts >= MaxAttempts) => q.attempts < MaxAttempts
    BY <1>1, MailboxConstants
  <1> QED BY <1>2 DEF RowIsSound

LEMMA RecoveredKeepsRows ==
    ASSUME MailboxInv, NEW lag \in 0 .. MaxLag
    PROVE  /\ TableIsSound(Mailbox!Recovered(rows, lag), succeeded)
           /\ DOMAIN Mailbox!Recovered(rows, lag) = DOMAIN rows
  <1> DEFINE mail == Mailbox!Recovered(rows, lag)
  <1>1. DOMAIN mail = DOMAIN rows
    BY DEF Mailbox!Recovered
  <1>2. ASSUME NEW i \in DOMAIN rows PROVE RowIsSound(i, mail[i], succeeded)
    <2>1. RowIsSound(i, rows[i], succeeded) /\ rows[i] \in MailRow
      BY DEF MailboxInv, TableIsSound, RowIsSound
    <2>2. Retention - lag \in Int /\ -MaxLag \in Int /\ rows[i].attempts \in Nat
      BY <2>1, MailboxConstants DEF RowIsSound, MailRow
    <2>3. CASE ~ Mailbox!Expired(rows[i], lag)
      BY <2>1, <2>3 DEF Mailbox!Recovered
    <2>4. CASE Mailbox!Expired(rows[i], lag) /\ rows[i].attempts >= MaxAttempts
      <3>1. mail[i] = [rows[i] EXCEPT !.state = "DEAD", !.owner = "none", !.left = Retention - lag]
        BY <2>4 DEF Mailbox!Recovered
      <3> HIDE DEF mail
      <3>2. mail[i] \in MailRow /\ mail[i].state = "DEAD" /\ mail[i].attempts = rows[i].attempts
        BY <2>1, <2>2, <3>1 DEF MailRow
      <3> QED BY <2>1, <2>4, <3>2, RowChanges
    <2>5. CASE Mailbox!Expired(rows[i], lag) /\ ~(rows[i].attempts >= MaxAttempts)
      <3>1. mail[i] = [rows[i] EXCEPT !.state = "READY", !.owner = "none", !.left = -MaxLag]
        BY <2>5 DEF Mailbox!Recovered
      <3> HIDE DEF mail
      <3>2. mail[i] \in MailRow /\ mail[i].state = "READY" /\ mail[i].attempts = rows[i].attempts
        BY <2>1, <2>2, <3>1 DEF MailRow
      <3> QED BY <2>1, <2>5, <3>2, RowChanges
    <2> QED BY <2>3, <2>4, <2>5
  <1> QED BY <1>1, <1>2 DEF TableIsSound

LEMMA MailboxInvInit == Mailbox!Init => MailboxInv
  BY DEF Mailbox!Init, Mailbox!Idle, MailboxInv, TableIsSound

\* A step that leaves the workers alone.
LEMMA TableStepKeepsMailbox ==
    ASSUME MailboxInv, TableIsSound(rows', succeeded), DOMAIN rows' \subseteq Nat,
           nextDelivery' \in Nat, UNCHANGED <<mailWorker, succeeded>>
    PROVE  MailboxInv'
  BY DEF MailboxInv, TableIsSound, RowIsSound

\* A step after which one worker rests.
LEMMA RestKeepsMailbox ==
    ASSUME MailboxInv, TableIsSound(rows', succeeded), DOMAIN rows' \subseteq Nat,
           NEW w \in Workers, mailWorker' = [mailWorker EXCEPT ![w] = Mailbox!Idle],
           UNCHANGED <<nextDelivery, succeeded>>
    PROVE  MailboxInv'
  <1>1. Mailbox!Idle \in [id : Nat, consumer : Consumers \cup {"none"}, attempts : Nat,
                          outcome : {"none", "running", "ok", "error"}]
        /\ Mailbox!Idle.outcome = "none"
    BY DEF Mailbox!Idle
  <1>2. mailWorker'[w] = Mailbox!Idle /\ \A v \in Workers \ {w} : mailWorker'[v] = mailWorker[v]
    BY DEF MailboxInv
  <1>3. mailWorker' \in [Workers -> [id : Nat, consumer : Consumers \cup {"none"}, attempts : Nat,
                                     outcome : {"none", "running", "ok", "error"}]]
    BY <1>1 DEF MailboxInv
  <1>4. \A v \in Workers : mailWorker'[v].outcome = "ok" =>
           <<mailWorker'[v].id, mailWorker'[v].attempts>> \in succeeded
    BY <1>1, <1>2 DEF MailboxInv
  <1> QED BY <1>3, <1>4 DEF MailboxInv, TableIsSound, RowIsSound

LEMMA MailboxInvStep ==
    ASSUME MailboxInv, [Mailbox!Next]_(Mailbox!vars) PROVE MailboxInv'
  <1> USE MailboxConstants
  <1>1. ASSUME NEW lag \in 0 .. MaxLag, NEW k \in Keys, NEW h \in Hashes,
               Mailbox!Enqueue(k, h, lag)
        PROVE  MailboxInv'
    <2> DEFINE kept == Mailbox!PruneTerminal(lag)
    <2>1. TableIsSound(kept, succeeded) /\ DOMAIN kept \subseteq Nat
      BY PruneKeepsRows
    <2>2. UNCHANGED <<mailWorker, succeeded>>
      BY <1>1 DEF Mailbox!Enqueue
    <2>3. CASE rows' = kept /\ UNCHANGED nextDelivery
      BY <2>1, <2>2, <2>3, TableStepKeepsMailbox DEF MailboxInv
    <2>4. CASE /\ rows' = [i \in DOMAIN kept \cup {nextDelivery} |->
                             IF i = nextDelivery THEN Mailbox!NewRow(k, h, lag) ELSE kept[i]]
               /\ nextDelivery' = nextDelivery + 1
      <3>1. RowIsSound(nextDelivery, Mailbox!NewRow(k, h, lag), succeeded)
        BY DEF RowIsSound, MailRow, Mailbox!NewRow
      <3> HIDE DEF kept
      <3>2. TableIsSound(rows', succeeded)
        BY <2>1, <2>4, <3>1 DEF TableIsSound
      <3>3. DOMAIN rows' \subseteq Nat /\ nextDelivery' \in Nat
        BY <2>1, <2>4 DEF MailboxInv
      <3> QED BY <2>2, <3>2, <3>3, TableStepKeepsMailbox
    <2> QED BY <1>1, <2>3, <2>4 DEF Mailbox!Enqueue
  <1>2. ASSUME NEW lag \in 0 .. MaxLag, Mailbox!Open(lag) PROVE MailboxInv'
    BY <1>2, PruneKeepsRows, TableStepKeepsMailbox DEF Mailbox!Open, MailboxInv
  <1>3. ASSUME NEW lag \in 0 .. MaxLag, Mailbox!RecoverExpired(lag) PROVE MailboxInv'
    BY <1>3, RecoveredKeepsRows, TableStepKeepsMailbox DEF Mailbox!RecoverExpired, MailboxInv
  <1>4. ASSUME NEW w \in Workers, NEW c \in Consumers, NEW lag \in 0 .. MaxLag,
               Mailbox!Claim(w, c, lag)
        PROVE  MailboxInv'
    <2>1. PICK mail : mail = Mailbox!Recovered(rows, lag)
      OBVIOUS
    <2>2. TableIsSound(mail, succeeded) /\ DOMAIN mail = DOMAIN rows
      BY <2>1, RecoveredKeepsRows
    <2>3. PICK ready : ready = Mailbox!Claimable(mail, lag)
      OBVIOUS
    <2>4. PICK i : i = Mailbox!Oldest(ready)
      OBVIOUS
    <2>5. UNCHANGED <<nextDelivery, succeeded>>
      BY <1>4 DEF Mailbox!Claim
    <2>6. CASE rows' = mail /\ UNCHANGED mailWorker
      BY <2>2, <2>5, <2>6, TableStepKeepsMailbox DEF MailboxInv
    <2>7. CASE /\ ready # {}
               /\ rows' = [mail EXCEPT ![i].state = "LEASED", ![i].attempts = @ + 1,
                              ![i].owner = c, ![i].left = LeaseTime - lag]
               /\ mailWorker' = [mailWorker EXCEPT ![w] =
                     [id |-> i, consumer |-> c, attempts |-> mail[i].attempts + 1,
                      outcome |-> "running"]]
      <3>1. i \in ready
        <4>1. ready \subseteq Nat
          BY <2>2, <2>3 DEF Mailbox!Claimable, MailboxInv
        <4>2. \E j \in ready : \A k \in ready : j <= k
          BY <2>7, <4>1, HasLeast
        <4> QED BY <2>4, <4>2 DEF Mailbox!Oldest
      <3>2. i \in DOMAIN mail /\ mail[i].state = "READY" /\ i \in Nat
        BY <2>2, <2>3, <3>1 DEF Mailbox!Claimable, MailboxInv
      <3>3. mail[i] \in MailRow /\ mail[i].attempts < MaxAttempts
        BY <2>2, <3>2 DEF TableIsSound, RowIsSound
      <3>4. mail[i].attempts + 1 \in 0 .. MaxAttempts /\ LeaseTime - lag \in Int
        BY <3>3 DEF MailRow
      <3>5. PICK r : r = [mail[i] EXCEPT !.state = "LEASED", !.attempts = mail[i].attempts + 1,
                             !.owner = c, !.left = LeaseTime - lag]
        OBVIOUS
      <3>6. RowIsSound(i, r, succeeded)
        BY <3>3, <3>4, <3>5 DEF RowIsSound, MailRow
      <3>7. DOMAIN rows' = DOMAIN mail /\ rows'[i] = r
            /\ \A j \in DOMAIN mail \ {i} : rows'[j] = mail[j]
        BY <2>7, <3>2, <3>3, <3>5 DEF MailRow
      <3>8. TableIsSound(rows', succeeded)
        BY <2>2, <3>6, <3>7 DEF TableIsSound
      <3>9. PICK d : d = [id |-> i, consumer |-> c, attempts |-> mail[i].attempts + 1,
                          outcome |-> "running"]
        OBVIOUS
      <3>10. d \in [id : Nat, consumer : Consumers \cup {"none"}, attempts : Nat,
                    outcome : {"none", "running", "ok", "error"}] /\ d.outcome = "running"
        BY <3>2, <3>4, <3>9
      <3>11. mailWorker' = [mailWorker EXCEPT ![w] = d]
        BY <2>7, <3>9
      <3>12. \A v \in Workers : mailWorker'[v].outcome = "ok" =>
                <<mailWorker'[v].id, mailWorker'[v].attempts>> \in succeeded
        BY <3>10, <3>11 DEF MailboxInv
      <3>13. mailWorker' \in [Workers -> [id : Nat, consumer : Consumers \cup {"none"}, attempts : Nat,
                                     outcome : {"none", "running", "ok", "error"}]]
        BY <3>10, <3>11 DEF MailboxInv
      <3> QED BY <2>2, <2>5, <3>7, <3>8, <3>12, <3>13 DEF MailboxInv
    <2> QED BY <1>4, <2>1, <2>3, <2>4, <2>6, <2>7 DEF Mailbox!Claim
  <1>5. ASSUME NEW w \in Workers, NEW o \in {"ok", "error"}, Mailbox!HandlerEnds(w, o)
        PROVE  MailboxInv'
    <2>1. /\ mailWorker' = [mailWorker EXCEPT ![w].outcome = o]
          /\ succeeded' = IF o = "ok"
                          THEN succeeded \cup {<<mailWorker[w].id, mailWorker[w].attempts>>}
                          ELSE succeeded
          /\ UNCHANGED <<rows, nextDelivery>>
      BY <1>5 DEF Mailbox!HandlerEnds
    <2>2. /\ mailWorker' \in [Workers -> [id : Nat, consumer : Consumers \cup {"none"},
                               attempts : Nat, outcome : {"none", "running", "ok", "error"}]]
          /\ mailWorker'[w].outcome = o /\ mailWorker'[w].id = mailWorker[w].id
          /\ mailWorker'[w].attempts = mailWorker[w].attempts
          /\ \A v \in Workers \ {w} : mailWorker'[v] = mailWorker[v]
      BY <2>1 DEF MailboxInv
    <2>3. succeeded \subseteq succeeded'
      BY <2>1
    <2>4. \A v \in Workers : mailWorker'[v].outcome = "ok" =>
             <<mailWorker'[v].id, mailWorker'[v].attempts>> \in succeeded'
      BY <2>1, <2>2 DEF MailboxInv
    <2>5. TableIsSound(rows', succeeded')
      BY <2>1, <2>3 DEF MailboxInv, TableIsSound, RowIsSound
    <2> QED BY <2>1, <2>2, <2>4, <2>5 DEF MailboxInv
  <1>6. ASSUME NEW w \in Workers, Mailbox!Abandon(w) PROVE MailboxInv'
    BY <1>6, RestKeepsMailbox DEF Mailbox!Abandon, MailboxInv
  <1>7. ASSUME NEW w \in Workers, NEW lag \in 0 .. MaxLag, Mailbox!Ack(w, lag) PROVE MailboxInv'
    <2>1. PICK own : own = Mailbox!OwnedBy(mailWorker[w], lag)
      OBVIOUS
    <2>2. /\ mailWorker[w].outcome = "ok"
          /\ rows' = [i \in DOMAIN rows |->
                       IF i \in own
                       THEN [rows[i] EXCEPT !.state = "ACKED", !.owner = "none",
                                            !.left = Retention - lag]
                       ELSE rows[i]]
          /\ mailWorker' = [mailWorker EXCEPT ![w] = Mailbox!Idle]
          /\ UNCHANGED <<nextDelivery, succeeded>>
      BY <1>7, <2>1 DEF Mailbox!Ack
    <2>3. \A i \in own : <<i, rows[i].attempts>> \in succeeded
      BY <2>1, <2>2 DEF MailboxInv, Mailbox!OwnedBy
    <2>4. ASSUME NEW i \in DOMAIN rows PROVE RowIsSound(i, rows'[i], succeeded)
      <3>1. RowIsSound(i, rows[i], succeeded) /\ rows[i] \in MailRow
        BY DEF MailboxInv, TableIsSound, RowIsSound
      <3>2. CASE i \notin own
        BY <2>2, <3>1, <3>2
      <3>3. CASE i \in own
        <4>1. rows'[i] = [rows[i] EXCEPT !.state = "ACKED", !.owner = "none", !.left = Retention - lag]
          BY <2>2, <3>3
        <4>2. Retention - lag \in Int
          OBVIOUS
        <4>3. /\ rows'[i] \in MailRow /\ rows'[i].state = "ACKED"
              /\ rows'[i].attempts = rows[i].attempts
          BY <3>1, <4>1, <4>2 DEF MailRow
        <4> QED BY <2>3, <3>1, <3>3, <4>3, RowChanges
      <3> QED BY <3>2, <3>3
    <2>5. DOMAIN rows' = DOMAIN rows
      BY <2>2
    <2> QED BY <2>2, <2>4, <2>5, RestKeepsMailbox DEF MailboxInv, TableIsSound
  <1>8. ASSUME NEW w \in Workers, NEW lag \in 0 .. MaxLag, Mailbox!Nack(w, lag) PROVE MailboxInv'
    <2>1. PICK own : own = Mailbox!OwnedBy(mailWorker[w], lag)
      OBVIOUS
    <2>2. /\ rows' = [i \in DOMAIN rows |->
                       IF i \in own THEN Mailbox!Nacked(rows[i], lag) ELSE rows[i]]
          /\ mailWorker' = [mailWorker EXCEPT ![w] = Mailbox!Idle]
          /\ UNCHANGED <<nextDelivery, succeeded>>
      BY <1>8, <2>1 DEF Mailbox!Nack
    <2>3. ASSUME NEW i \in DOMAIN rows PROVE RowIsSound(i, Mailbox!Nacked(rows[i], lag), succeeded)
      <3>1. RowIsSound(i, rows[i], succeeded) /\ rows[i] \in MailRow /\ rows[i].attempts \in Nat
        BY DEF MailboxInv, TableIsSound, RowIsSound, MailRow
      <3>2. Retention - lag \in Int /\ RetryAfter - lag \in Int
        OBVIOUS
      <3>3. PICK q : q = Mailbox!Nacked(rows[i], lag)
        OBVIOUS
      <3>4. /\ q \in MailRow /\ q.attempts = rows[i].attempts
            /\ q.state = IF rows[i].attempts >= MaxAttempts THEN "DEAD" ELSE "READY"
        BY <3>1, <3>2, <3>3 DEF Mailbox!Nacked, MailRow
      <3> QED BY <3>1, <3>3, <3>4, RowChanges
    <2>4. TableIsSound(rows', succeeded) /\ DOMAIN rows' = DOMAIN rows
      BY <2>2, <2>3 DEF MailboxInv, TableIsSound
    <2> QED BY <2>2, <2>4, RestKeepsMailbox DEF MailboxInv
  <1>9. ASSUME Mailbox!Tick PROVE MailboxInv'
    <2>1. /\ rows' = [i \in DOMAIN rows |->
                   [rows[i] EXCEPT !.left = IF @ > -MaxLag THEN @ - 1 ELSE @]]
          /\ UNCHANGED <<nextDelivery, mailWorker, succeeded>>
      BY <1>9 DEF Mailbox!Tick
    <2>2. ASSUME NEW i \in DOMAIN rows PROVE RowIsSound(i, rows'[i], succeeded)
      <3>1. RowIsSound(i, rows[i], succeeded) /\ rows[i] \in MailRow /\ rows[i].left \in Int
        BY DEF MailboxInv, TableIsSound, RowIsSound, MailRow
      <3>2. PICK n \in Int : n = IF rows[i].left > -MaxLag THEN rows[i].left - 1 ELSE rows[i].left
        BY <3>1
      <3>3. rows'[i] = [rows[i] EXCEPT !.left = n]
        BY <2>1, <3>1, <3>2 DEF MailRow
      <3>4. rows'[i] \in MailRow /\ rows'[i].state = rows[i].state
            /\ rows'[i].attempts = rows[i].attempts
        BY <3>1, <3>3 DEF MailRow
      <3> QED BY <3>1, <3>4 DEF RowIsSound
    <2>3. DOMAIN rows' = DOMAIN rows
      BY <2>1
    <2> QED BY <2>1, <2>2, <2>3, TableStepKeepsMailbox DEF MailboxInv, TableIsSound
  <1>10. CASE UNCHANGED Mailbox!vars
    BY <1>10, TableStepKeepsMailbox DEF Mailbox!vars, MailboxInv
  <1> QED BY <1>1, <1>2, <1>3, <1>4, <1>5, <1>6, <1>7, <1>8, <1>9, <1>10, Zenon
          DEF Mailbox!Next, Mailbox!Works

-----------------------------------------------------------------------------
(* The channel between peers.                                              *)

Stages == {"queued", "running", "asking", "late", "closing", "crashed", "done"}

\* A question in an inbox is pending, addressed to its owner and one of those asked
\* so far; a handler that has taken a question has taken it out of its inbox; and the
\* question that a handler waits on is its own.
ChannelInv ==
    /\ asking \subseteq Channel!Question /\ nextId \in Nat \ {0}
    /\ inboxes \in [Peers -> SUBSET asking]
    /\ held \in [Peers -> Channel!Question \cup {Channel!NoQuestion}]
    /\ handler \in [Peers -> Stages]
    /\ \A q \in asking : q.id < nextId
    /\ \A t \in Peers : \A q \in inboxes[t] : q.recipient = t
    /\ \A t \in Peers : held[t] # Channel!NoQuestion /\ handler[t] # "asking" =>
          held[t] \notin inboxes[t] /\ held[t].recipient = t /\ held[t].id < nextId
    /\ \A t \in Peers : handler[t] = "asking" => held[t] \in Channel!Question

LEMMA ChannelInvInit == Channel!Init => ChannelInv
  BY DEF Channel!Init, ChannelInv, Channel!NoQuestion, Stages

\* What most steps do: questions leave the inboxes, and a handler keeps what it holds
\* or lets go of it.
LEMMA ShrinkKeepsChannel ==
    ASSUME ChannelInv, asking' \subseteq asking, UNCHANGED nextId,
           inboxes' \in [Peers -> SUBSET asking'], \A u \in Peers : inboxes'[u] \subseteq inboxes[u],
           handler' \in [Peers -> Stages],
           held' \in [Peers -> Channel!Question \cup {Channel!NoQuestion}],
           \A u \in Peers :
              \/ held'[u] = held[u] /\ (handler'[u] = "asking" <=> handler[u] = "asking")
              \/ held'[u] = Channel!NoQuestion /\ handler'[u] # "asking"
    PROVE  ChannelInv'
  <1>1. /\ asking' \subseteq Channel!Question /\ nextId' \in Nat \ {0}
        /\ \A q \in asking' : q.id < nextId'
        /\ \A t \in Peers : \A q \in inboxes'[t] : q.recipient = t
    BY DEF ChannelInv
  <1>2. \A t \in Peers : held'[t] # Channel!NoQuestion /\ handler'[t] # "asking" =>
           held'[t] \notin inboxes'[t] /\ held'[t].recipient = t /\ held'[t].id < nextId'
    BY DEF ChannelInv
  <1>3. \A t \in Peers : handler'[t] = "asking" => held'[t] \in Channel!Question
    BY DEF ChannelInv
  <1> QED BY <1>1, <1>2, <1>3, Zenon DEF ChannelInv, Channel!Question, Channel!Ids

\* A handler moves on, and the channel stays as it is.
LEMMA MoveKeepsChannel ==
    ASSUME ChannelInv, UNCHANGED <<asking, nextId, inboxes>>, NEW t \in Peers,
           NEW place \in Stages, place # "asking", handler' = [handler EXCEPT ![t] = place],
           \/ held' = [held EXCEPT ![t] = Channel!NoQuestion]
           \/ held' = held /\ handler[t] # "asking"
    PROVE  ChannelInv'
  <1>1. /\ held \in [Peers -> Channel!Question \cup {Channel!NoQuestion}]
        /\ handler \in [Peers -> Stages] /\ inboxes \in [Peers -> SUBSET asking]
    BY DEF ChannelInv
  <1>2. /\ handler' \in [Peers -> Stages] /\ handler'[t] = place
        /\ \A u \in Peers \ {t} : handler'[u] = handler[u]
    BY <1>1
  <1>3. held' \in [Peers -> Channel!Question \cup {Channel!NoQuestion}]
    BY <1>1
  <1>4. \A u \in Peers :
              \/ held'[u] = held[u] /\ (handler'[u] = "asking" <=> handler[u] = "asking")
              \/ held'[u] = Channel!NoQuestion /\ handler'[u] # "asking"
    BY <1>1, <1>2
  <1> QED BY <1>1, <1>2, <1>3, <1>4, ShrinkKeepsChannel

LEMMA CloseKeepsChannel ==
    ASSUME ChannelInv, NEW t \in Peers, Channel!CloseLocked(t), NEW place \in Stages,
           place # "asking", handler[t] # "asking", handler' = [handler EXCEPT ![t] = place],
           UNCHANGED held
    PROVE  ChannelInv'
  <1>1. PICK dead : /\ asking' = asking \ dead /\ UNCHANGED nextId
                    /\ inboxes' = [u \in Peers |-> IF u = t THEN {} ELSE inboxes[u] \ dead]
    BY DEF Channel!CloseLocked
  <1>2. /\ held \in [Peers -> Channel!Question \cup {Channel!NoQuestion}]
        /\ handler \in [Peers -> Stages] /\ inboxes \in [Peers -> SUBSET asking]
    BY DEF ChannelInv
  <1>3. inboxes' \in [Peers -> SUBSET asking'] /\ \A u \in Peers : inboxes'[u] \subseteq inboxes[u]
    BY <1>1, <1>2
  <1>4. handler' \in [Peers -> Stages]
        /\ \A u \in Peers : handler'[u] = "asking" <=> handler[u] = "asking"
    BY <1>2
  <1> QED BY <1>1, <1>2, <1>3, <1>4, ShrinkKeepsChannel

LEMMA AskKeepsChannel ==
    ASSUME ChannelInv, NEW t \in Peers, NEW u \in Peers, Channel!Ask(t, u) PROVE ChannelInv'
  <1>1. PICK q : q = [id |-> nextId, sender |-> t, recipient |-> u]
    OBVIOUS
  <1>2. /\ nextId \in Channel!Ids /\ asking' = asking \cup {q} /\ nextId' = nextId + 1
        /\ inboxes' = [inboxes EXCEPT ![u] = @ \cup {q}]
        /\ handler' = [handler EXCEPT ![t] = "asking"] /\ held' = [held EXCEPT ![t] = q]
    BY <1>1 DEF Channel!Ask, Channel!Goto
  <1>3. q \in Channel!Question /\ q.recipient = u /\ q.id = nextId
    BY <1>1, <1>2 DEF Channel!Question
  <1>4. /\ held \in [Peers -> Channel!Question \cup {Channel!NoQuestion}] /\ nextId \in Nat \ {0}
        /\ handler \in [Peers -> Stages] /\ inboxes \in [Peers -> SUBSET asking]
        /\ asking \subseteq Channel!Question
    BY DEF ChannelInv
  <1>5. /\ handler' \in [Peers -> Stages] /\ handler'[t] = "asking"
        /\ held' \in [Peers -> Channel!Question \cup {Channel!NoQuestion}] /\ held'[t] = q
        /\ inboxes' \in [Peers -> SUBSET asking'] /\ inboxes'[u] = inboxes[u] \cup {q}
        /\ \A v \in Peers \ {t} : handler'[v] = handler[v] /\ held'[v] = held[v]
        /\ \A v \in Peers \ {u} : inboxes'[v] = inboxes[v]
        /\ asking' \subseteq Channel!Question /\ nextId' \in Nat \ {0}
    BY <1>2, <1>3, <1>4 DEF Stages
  <1>6. \A p \in Channel!Question : p.id \in Nat
    BY DEF Channel!Question, Channel!Ids
  <1>7. \A p \in asking' : p.id < nextId'
    BY <1>2, <1>3, <1>4, <1>6 DEF ChannelInv
  <1>8. \A v \in Peers : \A p \in inboxes'[v] : p.recipient = v
    BY <1>3, <1>5 DEF ChannelInv
  <1>9. \A v \in Peers : held'[v] # Channel!NoQuestion /\ handler'[v] # "asking" =>
          held'[v] \notin inboxes'[v] /\ held'[v].recipient = v /\ held'[v].id < nextId'
    <2> SUFFICES ASSUME NEW v \in Peers, held'[v] # Channel!NoQuestion, handler'[v] # "asking"
                 PROVE  held'[v] \notin inboxes'[v] /\ held'[v].recipient = v /\ held'[v].id < nextId'
      OBVIOUS
    <2>1. v # t /\ held'[v] = held[v] /\ handler'[v] = handler[v]
      BY <1>5
    <2>2. held[v] \notin inboxes[v] /\ held[v].recipient = v /\ held[v].id < nextId
          /\ held[v] \in Channel!Question
      BY <1>4, <2>1 DEF ChannelInv
    <2>3. held[v] # q /\ held[v].id < nextId'
      BY <1>2, <1>3, <1>4, <1>6, <2>2
    <2> QED BY <1>5, <2>1, <2>2, <2>3
  <1>10. \A v \in Peers : handler'[v] = "asking" => held'[v] \in Channel!Question
    BY <1>3, <1>5 DEF ChannelInv
  <1> QED BY <1>5, <1>7, <1>8, <1>9, <1>10, Zenon DEF ChannelInv, Channel!Question, Channel!Ids

LEMMA TakeKeepsChannel ==
    ASSUME ChannelInv, NEW t \in Peers, NEW last \in BOOLEAN, Channel!Take(t, last)
    PROVE  ChannelInv'
  <1>1. PICK q : q = Channel!Earliest(inboxes[t])
    OBVIOUS
  <1>2. PICK place \in {"late", "running"} : handler' = [handler EXCEPT ![t] = place]
    BY DEF Channel!Take, Channel!Goto
  <1>3. /\ inboxes[t] # {} /\ held' = [held EXCEPT ![t] = q]
        /\ inboxes' = [inboxes EXCEPT ![t] = @ \ {q}] /\ UNCHANGED <<asking, nextId>>
    BY <1>1 DEF Channel!Take
  <1>4. /\ held \in [Peers -> Channel!Question \cup {Channel!NoQuestion}] /\ nextId \in Nat \ {0}
        /\ handler \in [Peers -> Stages] /\ inboxes \in [Peers -> SUBSET asking]
        /\ asking \subseteq Channel!Question
    BY DEF ChannelInv
  <1>5. q \in inboxes[t]
    <2>1. PICK ids : ids = {p.id : p \in inboxes[t]}
      OBVIOUS
    <2>2. ids \subseteq Nat /\ ids # {}
      BY <1>3, <1>4, <2>1 DEF Channel!Question, Channel!Ids
    <2>3. PICK m \in ids : \A n \in ids : m <= n
      BY <2>2, HasLeast
    <2>4. \E p \in inboxes[t] : \A r \in inboxes[t] : p.id <= r.id
      BY <2>1, <2>3
    <2> QED BY <1>1, <2>4 DEF Channel!Earliest
  <1>6. q \in Channel!Question /\ q.recipient = t /\ q.id < nextId
    BY <1>4, <1>5 DEF ChannelInv
  <1>7. /\ handler' \in [Peers -> Stages] /\ handler'[t] # "asking"
        /\ held' \in [Peers -> Channel!Question \cup {Channel!NoQuestion}] /\ held'[t] = q
        /\ inboxes' \in [Peers -> SUBSET asking'] /\ inboxes'[t] = inboxes[t] \ {q}
        /\ \A v \in Peers \ {t} :
              handler'[v] = handler[v] /\ held'[v] = held[v] /\ inboxes'[v] = inboxes[v]
    BY <1>2, <1>3, <1>4, <1>6 DEF Stages
  <1>8. \A v \in Peers : held'[v] # Channel!NoQuestion /\ handler'[v] # "asking" =>
          held'[v] \notin inboxes'[v] /\ held'[v].recipient = v /\ held'[v].id < nextId'
    BY <1>3, <1>6, <1>7 DEF ChannelInv
  <1>9. /\ \A v \in Peers : handler'[v] = "asking" => held'[v] \in Channel!Question
        /\ \A v \in Peers : \A p \in inboxes'[v] : p.recipient = v
        /\ \A p \in asking' : p.id < nextId'
    BY <1>3, <1>6, <1>7 DEF ChannelInv
  <1> QED BY <1>3, <1>4, <1>7, <1>8, <1>9, Zenon DEF ChannelInv, Channel!Question, Channel!Ids

\* AskFails and Reply end an exchange: its question is in no inbox afterwards.
LEMMA EndKeepsChannel ==
    ASSUME ChannelInv, NEW t \in Peers, Channel!AskFails(t) \/ Channel!Reply(t) PROVE ChannelInv'
  <1>1. PICK q : q = held[t]
    OBVIOUS
  <1>2. PICK place \in {"closing", "running"} : handler' = [handler EXCEPT ![t] = place]
    BY DEF Channel!AskFails, Channel!Reply, Channel!Goto, Channel!AfterReply
  <1>3. /\ asking' = asking \ {q} /\ held' = [held EXCEPT ![t] = Channel!NoQuestion]
        /\ UNCHANGED nextId
    BY <1>1 DEF Channel!AskFails, Channel!Reply
  <1>4. /\ held \in [Peers -> Channel!Question \cup {Channel!NoQuestion}]
        /\ handler \in [Peers -> Stages] /\ inboxes \in [Peers -> SUBSET asking]
        /\ asking \subseteq Channel!Question
    BY DEF ChannelInv
  <1>5. /\ inboxes' \in [Peers -> SUBSET asking] /\ \A u \in Peers : inboxes'[u] \subseteq inboxes[u]
        /\ \A u \in Peers : q \notin inboxes'[u]
    <2>1. CASE Channel!AskFails(t)
      <3>1. inboxes' = IF q \in asking THEN [inboxes EXCEPT ![q.recipient] = @ \ {q}] ELSE inboxes
        BY <1>1, <2>1 DEF Channel!AskFails, Channel!DroppedFrom
      <3>2. CASE q \notin asking
        BY <1>4, <3>1, <3>2
      <3>3. CASE q \in asking
        <4>1. q.recipient \in Peers
          BY <1>4, <3>3 DEF Channel!Question
        <4>2. \A u \in Peers : inboxes'[u] = IF u = q.recipient THEN inboxes[u] \ {q} ELSE inboxes[u]
          BY <1>4, <3>1, <3>3, <4>1
        <4>3. inboxes' \in [Peers -> SUBSET asking]
          BY <1>4, <3>1, <3>3, <4>1
        <4>4. \A u \in Peers : q \in inboxes[u] => u = q.recipient
          BY DEF ChannelInv
        <4> QED BY <4>2, <4>3, <4>4
      <3> QED BY <3>2, <3>3
    <2>2. CASE Channel!Reply(t)
      <3>1. inboxes' = inboxes /\ handler[t] # "asking" /\ q # Channel!NoQuestion
        BY <1>1, <2>2 DEF Channel!Reply
      <3>2. q \notin inboxes[t] /\ q.recipient = t
        BY <1>1, <3>1 DEF ChannelInv
      <3>3. \A u \in Peers : q \in inboxes[u] => u = t
        BY <3>2 DEF ChannelInv
      <3> QED BY <1>4, <3>1, <3>2, <3>3
    <2> QED BY <2>1, <2>2
  <1>6. inboxes' \in [Peers -> SUBSET asking'] /\ asking' \subseteq asking
    BY <1>3, <1>5
  <1>7. /\ handler' \in [Peers -> Stages] /\ handler'[t] # "asking"
        /\ held' \in [Peers -> Channel!Question \cup {Channel!NoQuestion}]
        /\ held'[t] = Channel!NoQuestion
        /\ \A v \in Peers \ {t} : handler'[v] = handler[v] /\ held'[v] = held[v]
    BY <1>2, <1>3, <1>4 DEF Stages
  <1> QED BY <1>3, <1>5, <1>6, <1>7, ShrinkKeepsChannel

LEMMA ChannelInvStep ==
    ASSUME ChannelInv, [Channel!Next]_(Channel!vars) PROVE ChannelInv'
  <1>1. ASSUME NEW t \in Peers, Channel!Activate(t) PROVE ChannelInv'
    BY <1>1, MoveKeepsChannel DEF Channel!Activate, Channel!Goto, Stages
  <1>2. ASSUME NEW t \in Peers, Channel!Answered(t) PROVE ChannelInv'
    BY <1>2, MoveKeepsChannel DEF Channel!Answered, Channel!Goto, Channel!channel, Stages
  <1>3. ASSUME NEW t \in Peers, Channel!ReplyStale(t) \/ Channel!ReplyRaises(t) PROVE ChannelInv'
    <2>1. PICK place \in {"closing", "running", "crashed"} : handler' = [handler EXCEPT ![t] = place]
      BY <1>3 DEF Channel!ReplyStale, Channel!ReplyRaises, Channel!Goto, Channel!AfterReply
    <2>2. /\ held' = [held EXCEPT ![t] = Channel!NoQuestion]
          /\ UNCHANGED <<asking, nextId, inboxes>>
      BY <1>3 DEF Channel!ReplyStale, Channel!ReplyRaises, Channel!channel
    <2> QED BY <2>1, <2>2, MoveKeepsChannel DEF Stages
  <1>4. ASSUME NEW t \in Peers, Channel!FinishOrReceive(t) \/ Channel!Finish(t) PROVE ChannelInv'
    BY <1>4, CloseKeepsChannel DEF Channel!FinishOrReceive, Channel!Finish, Channel!Goto, Stages
  <1>5. ASSUME NEW t \in Peers, Channel!Cancel(t) PROVE ChannelInv'
    <2>1. CASE Channel!Goto(t, "closing") /\ held' = [held EXCEPT ![t] = Channel!NoQuestion]
               /\ UNCHANGED <<Channel!channel, thrown>>
      BY <2>1, MoveKeepsChannel DEF Channel!Goto, Channel!channel, Stages
    <2>2. CASE UNCHANGED <<asking, nextId, inboxes, handler, held>>
      BY <2>2 DEF ChannelInv, Channel!Question, Channel!Ids
    <2> QED BY <1>5, <2>1, <2>2 DEF Channel!Cancel
  <1>6. CASE UNCHANGED Channel!vars
    BY <1>6 DEF Channel!vars, Channel!channel, ChannelInv, Channel!Question, Channel!Ids
  <1> QED BY <1>1, <1>2, <1>3, <1>4, <1>5, <1>6, AskKeepsChannel, TakeKeepsChannel,
             EndKeepsChannel, Zenon DEF Channel!Next, Channel!RunsHandler

-----------------------------------------------------------------------------
(* Delivery.                                                               *)

\* A message is acknowledged only after its last attempt succeeded and dead only
\* after all of them, and a question that waits in an inbox can still be answered,
\* for any number of workers, messages and agents.
THEOREM MessagesAreDelivered == Mailbox!Spec /\ Channel!Spec => []DeliveryIsSound
  <1>1. MailboxInv => Mailbox!AckedAttemptSucceeded /\ Mailbox!DeadAfterAllAttempts
    BY DEF MailboxInv, TableIsSound, RowIsSound, Mailbox!AckedAttemptSucceeded,
           Mailbox!DeadAfterAllAttempts
  <1>2. ChannelInv => Channel!InboxIsPending
    BY DEF ChannelInv, Channel!InboxIsPending
  <1>3. MailboxInv /\ ChannelInv => DeliveryIsSound
    BY <1>1, <1>2 DEF DeliveryIsSound
  <1>4. Mailbox!Spec => []MailboxInv
    BY MailboxInvInit, MailboxInvStep, PTL DEF Mailbox!Spec
  <1>5. Channel!Spec => []ChannelInv
    BY ChannelInvInit, ChannelInvStep, PTL DEF Channel!Spec
  <1> QED BY <1>3, <1>4, <1>5, PTL

-----------------------------------------------------------------------------
(* The supervisor of child tasks.                                          *)

Places == {"absent", "created", "gather", "queued", "locking", "handling", "done"}

\* A task that waits for a slot or runs has what it depends on, a task has a
\* result when it is over, a lock belongs to a task inside the semaphore, and a
\* cancelled result tells of the host's event.
SupervisorInv ==
    /\ deps \in [Tasks -> SUBSET Tasks] /\ needs \in [Tasks -> SUBSET Resources]
    /\ execution \in [Tasks -> Places]
    /\ result \in [Tasks -> Supervisor!Statuses \cup {"none", "raised"}]
    /\ locks \in [Resources -> Tasks \cup {0}]
    /\ \A t \in Tasks : (execution[t] = "done") <=> (result[t] # "none")
    /\ \A t \in Tasks : execution[t] \in {"queued", "locking", "handling"} =>
          \A u \in deps[t] : result[u] = "SUCCEEDED"
    /\ \A r \in Resources : locks[r] # 0 => execution[locks[r]] \in {"locking", "handling"}
    /\ \A t \in Tasks : execution[t] = "handling" => needs[t] \subseteq Supervisor!Held(t)
    /\ \A t \in Tasks : result[t] = "CANCELLED" => cancelEvent
    /\ supervisor \in {"synthesis", "COMPLETED", "PARTIAL"} =>
          \A t \in Tasks : execution[t] # "absent" =>
             execution[t] = "done" /\ result[t] \in Supervisor!Statuses \ {"CANCELLED"}

LEMMA SupervisorConstants == Tasks \subseteq Nat \ {0}
  BY AgentsAssumption DEF Supervisor!SupervisorAssumption

LEMMA SupervisorInvInit == Supervisor!Init => SupervisorInv
  <1> SUFFICES ASSUME Supervisor!Init PROVE SupervisorInv
    OBVIOUS
  <1>1. /\ deps \in [Tasks -> SUBSET Tasks] /\ needs \in [Tasks -> SUBSET Resources]
        /\ result = [t \in Tasks |-> "none"] /\ locks = [r \in Resources |-> 0]
        /\ supervisor = "children"
    BY DEF Supervisor!Init
  <1>2. execution \in [Tasks -> {"created", "absent"}]
    BY DEF Supervisor!Init
  <1> QED BY <1>1, <1>2 DEF SupervisorInv, Places, Supervisor!Held

\* A task ends, by itself or cancelled by its group.
LEMMA EndsKeepsSupervisor ==
    ASSUME SupervisorInv, NEW t \in Tasks, execution[t] \notin {"absent", "done"},
           execution' = [execution EXCEPT ![t] = "done"], locks' = Supervisor!Released(t),
           NEW s \in Supervisor!Statuses \cup {"raised"}, result' = [result EXCEPT ![t] = s],
           s = "CANCELLED" => cancelEvent, UNCHANGED <<deps, needs, cancelEvent, supervisor>>
    PROVE  SupervisorInv'
  <1>1. s # "none" /\ s \in Supervisor!Statuses \cup {"none", "raised"}
    BY DEF Supervisor!Statuses
  <1>2. supervisor \notin {"synthesis", "COMPLETED", "PARTIAL"}
    BY DEF SupervisorInv
  <1>3. /\ execution' \in [Tasks -> Places] /\ execution'[t] = "done"
        /\ \A u \in Tasks \ {t} : execution'[u] = execution[u]
        /\ result' \in [Tasks -> Supervisor!Statuses \cup {"none", "raised"}] /\ result'[t] = s
        /\ \A u \in Tasks \ {t} : result'[u] = result[u]
    BY <1>1 DEF SupervisorInv, Places
  <1>4. /\ locks' \in [Resources -> Tasks \cup {0}]
        /\ \A r \in Resources : locks'[r] = IF locks[r] = t THEN 0 ELSE locks[r]
    BY DEF SupervisorInv, Supervisor!Released
  <1>5. \A u \in Tasks \ {t} : Supervisor!Held(u)' = Supervisor!Held(u)
    BY <1>4, SupervisorConstants DEF Supervisor!Held
  <1>6. \A u \in Tasks : result[u] = "SUCCEEDED" => result'[u] = "SUCCEEDED"
    <2>1. result[t] # "SUCCEEDED"
      BY DEF SupervisorInv
    <2> QED BY <1>3, <2>1
  <1>7. \A u \in Tasks : execution'[u] \in {"queued", "locking", "handling"} =>
           \A v \in deps'[u] : result'[v] = "SUCCEEDED"
    BY <1>3, <1>6 DEF SupervisorInv
  <1>8. \A r \in Resources : locks'[r] # 0 => execution'[locks'[r]] \in {"locking", "handling"}
    BY <1>3, <1>4 DEF SupervisorInv
  <1>9. \A u \in Tasks : execution'[u] = "handling" => needs'[u] \subseteq Supervisor!Held(u)'
    BY <1>3, <1>5 DEF SupervisorInv
  <1>10. /\ \A u \in Tasks : (execution'[u] = "done") <=> (result'[u] # "none")
         /\ \A u \in Tasks : result'[u] = "CANCELLED" => cancelEvent'
    BY <1>1, <1>3 DEF SupervisorInv
  <1> QED BY <1>2, <1>3, <1>4, <1>7, <1>8, <1>9, <1>10 DEF SupervisorInv

\* A task moves on without a result, and its locks stay.
LEMMA MoveKeepsSupervisor ==
    ASSUME SupervisorInv, NEW t \in Tasks, execution[t] \notin {"absent", "done"},
           NEW place \in {"gather", "queued", "locking", "handling"},
           execution' = [execution EXCEPT ![t] = place],
           place = "gather" => execution[t] = "created",
           place # "gather" => \A u \in deps[t] : result[u] = "SUCCEEDED",
           place = "queued" => execution[t] = "gather",
           place = "locking" => execution[t] = "queued",
           place = "handling" => needs[t] \subseteq Supervisor!Held(t),
           UNCHANGED <<deps, needs, result, locks, cancelEvent, supervisor>>
    PROVE  SupervisorInv'
  <1>1. supervisor \notin {"synthesis", "COMPLETED", "PARTIAL"}
    BY DEF SupervisorInv
  <1>2. \A u \in Tasks : Supervisor!Held(u)' = Supervisor!Held(u)
    BY DEF Supervisor!Held
  <1>3. /\ execution' \in [Tasks -> Places] /\ execution'[t] = place
        /\ \A u \in Tasks \ {t} : execution'[u] = execution[u]
    BY DEF SupervisorInv, Places
  <1>4. \A r \in Resources : locks[r] # 0 => execution'[locks[r]] \in {"locking", "handling"}
    BY <1>3 DEF SupervisorInv
  <1> QED BY <1>1, <1>2, <1>3, <1>4 DEF SupervisorInv

LEMMA SupervisorInvStep ==
    ASSUME SupervisorInv, [Supervisor!Next]_(Supervisor!vars) PROVE SupervisorInv'
  <1>1. ASSUME UNCHANGED <<deps, needs, execution, result, locks>>, cancelEvent => cancelEvent',
               \/ supervisor' = supervisor
               \/ supervisor' = "raised"
               \/ /\ Supervisor!AllDone /\ supervisor' = "synthesis"
                  /\ ~cancelEvent /\ ~\E t \in Supervisor!Present : result[t] = "raised"
               \/ supervisor = "synthesis"
        PROVE  SupervisorInv'
    <2>1. \A t \in Tasks : Supervisor!Held(t)' = Supervisor!Held(t)
      BY <1>1 DEF Supervisor!Held
    <2>2. supervisor' \in {"synthesis", "COMPLETED", "PARTIAL"} =>
             \A t \in Tasks : execution[t] # "absent" =>
                execution[t] = "done" /\ result[t] \in Supervisor!Statuses \ {"CANCELLED"}
      BY <1>1 DEF SupervisorInv, Supervisor!AllDone, Supervisor!Present
    <2> QED BY <1>1, <2>1, <2>2 DEF SupervisorInv
  <1>2. ASSUME NEW t \in Tasks, NEW s \in Supervisor!Statuses, Supervisor!Ends(t, s),
               execution[t] \notin {"absent", "done"}, s = "CANCELLED" => cancelEvent
        PROVE  SupervisorInv'
    BY <1>2, EndsKeepsSupervisor DEF Supervisor!Ends, Supervisor!Goto
  <1>3. ASSUME NEW t \in Tasks, Supervisor!Start(t) PROVE SupervisorInv'
    BY <1>2, <1>3, MoveKeepsSupervisor DEF Supervisor!Start, Supervisor!Goto, Supervisor!Statuses
  <1>4. ASSUME NEW t \in Tasks, Supervisor!Gathered(t) PROVE SupervisorInv'
    <2>1. execution[t] = "gather"
      BY <1>4 DEF Supervisor!Gathered
    <2>2. CASE Supervisor!Ends(t, "CANCELLED") /\ cancelEvent
      BY <1>2, <2>1, <2>2 DEF Supervisor!Statuses
    <2>3. CASE Supervisor!Ends(t, "BLOCKED")
      BY <1>2, <2>1, <2>3 DEF Supervisor!Statuses
    <2>4. CASE /\ Supervisor!Succeeded(t) /\ Supervisor!Goto(t, "queued")
               /\ UNCHANGED <<deps, needs, result, locks, cancelEvent, supervisor>>
      BY <2>1, <2>4, MoveKeepsSupervisor DEF Supervisor!Succeeded, Supervisor!Goto
    <2>5. CASE /\ Supervisor!Goto(t, "done") /\ result' = [result EXCEPT ![t] = "raised"]
               /\ UNCHANGED <<deps, needs, locks, cancelEvent, supervisor>>
      <3>1. \A r \in Resources : locks[r] # t
        BY <2>1, SupervisorConstants DEF SupervisorInv
      <3>2. locks' = Supervisor!Released(t)
        BY <2>5, <3>1 DEF SupervisorInv, Supervisor!Released
      <3> QED BY <2>1, <2>5, <3>2, EndsKeepsSupervisor DEF Supervisor!Goto
    <2> QED BY <1>4, <2>2, <2>3, <2>4, <2>5 DEF Supervisor!Gathered
  <1>5. ASSUME NEW t \in Tasks, Supervisor!TakeSlot(t) PROVE SupervisorInv'
    <2>1. \A u \in deps[t] : result[u] = "SUCCEEDED"
      BY <1>5 DEF SupervisorInv, Supervisor!TakeSlot
    <2> QED BY <1>5, <2>1, MoveKeepsSupervisor DEF Supervisor!TakeSlot, Supervisor!Goto
  <1>6. ASSUME NEW t \in Tasks, Supervisor!TakeLock(t) PROVE SupervisorInv'
    <2>1. PICK r \in Resources : locks[r] = 0 /\ locks' = [locks EXCEPT ![r] = t]
      BY <1>6 DEF Supervisor!TakeLock, Supervisor!NextLock, SupervisorInv
    <2>2. /\ execution[t] = "locking"
          /\ UNCHANGED <<deps, needs, execution, result, cancelEvent, supervisor>>
      BY <1>6 DEF Supervisor!TakeLock
    <2>3. locks' \in [Resources -> Tasks \cup {0}] /\ locks'[r] = t
          /\ \A q \in Resources \ {r} : locks'[q] = locks[q]
      BY <2>1 DEF SupervisorInv
    <2>4. \A u \in Tasks : Supervisor!Held(u) \subseteq Supervisor!Held(u)'
      BY <2>1, <2>3, SupervisorConstants DEF Supervisor!Held
    <2> QED BY <2>2, <2>3, <2>4 DEF SupervisorInv
  <1>7. ASSUME NEW t \in Tasks, Supervisor!Enter(t) PROVE SupervisorInv'
    <2>1. execution[t] = "locking" /\ \A u \in deps[t] : result[u] = "SUCCEEDED"
      BY <1>7 DEF SupervisorInv, Supervisor!Enter
    <2>2. CASE Supervisor!Ends(t, "FAILED")
      BY <1>2, <2>1, <2>2 DEF Supervisor!Statuses
    <2>3. CASE ~Supervisor!Ends(t, "FAILED")
      BY <1>7, <2>1, <2>3, MoveKeepsSupervisor DEF Supervisor!Enter, Supervisor!Goto
    <2> QED BY <2>2, <2>3
  <1>8. ASSUME NEW t \in Tasks, Supervisor!HandlerEnds(t) PROVE SupervisorInv'
    BY <1>2, <1>8 DEF Supervisor!HandlerEnds, Supervisor!Statuses
  <1>9. ASSUME NEW t \in Tasks, Supervisor!TimesOut(t) PROVE SupervisorInv'
    BY <1>2, <1>9 DEF Supervisor!TimesOut, Supervisor!Admitted, Supervisor!Statuses
  <1>10. ASSUME NEW t \in Tasks, Supervisor!Interrupted(t) PROVE SupervisorInv'
    <2>1. PICK s \in {"CANCELLED", "raised"} :
             result' = [result EXCEPT ![t] = s] /\ (s = "CANCELLED" => cancelEvent)
      BY <1>10 DEF Supervisor!Interrupted
    <2> QED BY <1>10, <2>1, EndsKeepsSupervisor
            DEF Supervisor!Interrupted, Supervisor!Goto, Supervisor!Statuses
  <1>11. ASSUME NEW t \in Tasks, NEW new \in SUBSET Tasks, Supervisor!Spawn(t, new)
         PROVE  SupervisorInv'
    <2>1. /\ execution[t] = "handling"
          /\ execution' = [u \in Tasks |-> IF u \in new THEN "created" ELSE execution[u]]
          /\ \A u \in new : execution[u] = "absent"
          /\ UNCHANGED <<deps, needs, result, locks, cancelEvent, supervisor>>
      BY <1>11 DEF Supervisor!Spawn, Supervisor!Present
    <2>2. supervisor \notin {"synthesis", "COMPLETED", "PARTIAL"}
      BY <2>1 DEF SupervisorInv
    <2>3. \A u \in Tasks : Supervisor!Held(u)' = Supervisor!Held(u)
      BY <2>1 DEF Supervisor!Held
    <2>4. /\ execution' \in [Tasks -> Places]
          /\ \A u \in Tasks : IF u \in new THEN execution'[u] = "created" /\ execution[u] = "absent"
                              ELSE execution'[u] = execution[u]
      BY <2>1 DEF SupervisorInv, Places
    <2>5. \A r \in Resources : locks[r] # 0 => execution'[locks[r]] \in {"locking", "handling"}
      BY <2>4 DEF SupervisorInv
    <2> QED BY <2>1, <2>2, <2>3, <2>4, <2>5 DEF SupervisorInv
  <1>12. CASE Supervisor!Cancel
    BY <1>1, <1>12 DEF Supervisor!Cancel
  <1>13. CASE Supervisor!WatchCancels
    BY <1>1, <1>13 DEF Supervisor!WatchCancels
  <1>14. CASE Supervisor!GroupEnds
    BY <1>1, <1>14 DEF Supervisor!GroupEnds
  <1>15. CASE Supervisor!Synthesised
    BY <1>1, <1>15 DEF Supervisor!Synthesised
  <1>16. CASE Supervisor!Interrupt
    BY <1>1, <1>16 DEF Supervisor!Interrupt
  <1>17. CASE UNCHANGED Supervisor!vars
    BY <1>1, <1>17 DEF Supervisor!vars
  <1> QED BY <1>3, <1>4, <1>5, <1>6, <1>7, <1>8, <1>9, <1>10, <1>11, <1>12, <1>13, <1>14, <1>15,
             <1>16, <1>17, Zenon DEF Supervisor!Next, Supervisor!Executes

\* A handler of AgentSupervisor runs after what its task depends on and with its
\* resources to itself, and the root synthesises over every result, for any
\* graph of tasks, resources and limits.
THEOREM SupervisorSchedulingIsSound == Supervisor!Spec => []SchedulingIsSound
  <1>1. ASSUME SupervisorInv PROVE SchedulingIsSound
    <2>1. Supervisor!RunsAfterDependencies
      BY <1>1 DEF SupervisorInv, Supervisor!RunsAfterDependencies
    <2>2. \A t \in Tasks : execution[t] = "done" => Supervisor!Held(t) = {}
      BY <1>1, SupervisorConstants DEF SupervisorInv, Supervisor!Held
    <2>3. Supervisor!ResourcesExclusive
      BY <1>1, <2>2 DEF SupervisorInv, Supervisor!ResourcesExclusive
    <2>4. Supervisor!SynthesisIsComplete
      BY <1>1 DEF SupervisorInv, Supervisor!SynthesisIsComplete, Supervisor!Present
    <2> QED BY <2>1, <2>3, <2>4 DEF SchedulingIsSound
  <1> QED BY <1>1, SupervisorInvInit, SupervisorInvStep, PTL DEF Supervisor!Spec

-----------------------------------------------------------------------------
(* Conversations.                                                          *)

BeforeTurn == {"read", "user", "assistant"}
RoundPlaces == {"start", "round", "provider", "record", "batch", "settle", "pause"}
ApprovalPlaces == {"approved", "denied", "result", "unknown"}
TurnPlaces == RoundPlaces \cup ApprovalPlaces \cup {"answer", "cancelled", "failed"}
ThreadPlaces == {"idle", "return"} \cup BeforeTurn \cup TurnPlaces

\* A thread that works on a durable turn is the only one with the current revision,
\* its turn is under way, and no other is; a thread that is about to make a turn
\* durable holds the revision of an idle conversation, or it will be refused.
SerialInv ==
    /\ turn \in [Messages -> Conversation!Active \cup Conversation!Terminal \cup {"absent"}]
    /\ thread \in [Conversation!Threads -> ThreadPlaces]
    /\ job \in [Conversation!Threads -> Messages \cup {0}]
    /\ \A a \in Conversation!Threads : thread[a] # "idle" => job[a] \in Messages
    /\ \A a \in Conversation!Threads : thread[a] \in TurnPlaces =>
          fresh = {a} /\ turn[job[a]] \in {"QUEUED", "RUNNING"}
    /\ \A a \in Conversation!Threads : thread[a] \in {"user", "assistant"} /\ a \in fresh =>
          \A m \in Messages : turn[m] \notin Conversation!Active
    /\ \A m, n \in Messages :
          turn[m] \in Conversation!Active /\ turn[n] \in Conversation!Active => m = n

CallRecord ==
    [kind : Conversation!Kinds,
     status : {"REQUESTED", "COMPLETED", "FAILED", "CANCELLED", "AMBIGUOUS"},
     said : {"nothing", "not run", "result", "unknown", "asserted"}, ran : {0, 1}]

CallIsSound(c) ==
    /\ c.ran = 1 => c.kind = "write"
    /\ c.said = "not run" => c.ran = 0
    /\ c.status = "REQUESTED" => c.said = "nothing"

\* The call that the service has executed and not yet recorded.
JustExecuted(m, i) == thread["service"] \in {"result", "unknown"} /\ resolving = m /\ i = approval[m]

CallsTyped ==
    /\ calls \in [Messages -> Seq(CallRecord)] /\ base \in [Messages -> Nat]
    /\ asked \in [Messages -> Seq(Conversation!Kinds)] /\ approval \in [Messages -> Nat]
    /\ resolving \in Messages \cup {0}

\* The calls are sound; a call has run and awaits its result only while the service
\* holds it; and a message has no calls before its turn is durable.
CallsAreSound ==
    /\ \A m \in Messages : \A i \in DOMAIN calls[m] : CallIsSound(calls[m][i])
    /\ \A m \in Messages : \A i \in DOMAIN calls[m] :
          calls[m][i].status = "REQUESTED" /\ calls[m][i].ran = 1 => JustExecuted(m, i)
    /\ \A m \in Messages : turn[m] = "absent" => calls[m] = <<>>
    /\ \A m \in Messages : approval[m] # 0 =>
          approval[m] \in DOMAIN calls[m] /\ calls[m][approval[m]].kind = "write"

\* What a thread knows where it is: a message that it begins is its own, nothing of
\* the present round has run, and the service resolves a call that waits for it.
ThreadsAreSound ==
    /\ \A a \in Conversation!Threads : thread[a] \in BeforeTurn =>
          turn[job[a]] = "absent" /\ \A b \in Conversation!Threads \ {a} : job[b] # job[a]
    /\ \A a \in Conversation!Threads : thread[a] \in RoundPlaces =>
          \A i \in DOMAIN calls[job[a]] : i > base[job[a]] => calls[job[a]][i].ran = 0
    /\ \A a \in Conversation!Threads : thread[a] = "record" => asked[job[a]] # <<>>
    /\ thread["service"] \in ApprovalPlaces =>
          resolving = job["service"] /\ resolving # 0 /\ approval[resolving] # 0
    /\ thread["service"] \in {"approved", "denied"} =>
          calls[resolving][approval[resolving]].status = "REQUESTED"

EffectsInv == CallsTyped /\ CallsAreSound /\ ThreadsAreSound

LEMMA ConversationConstants ==
    Messages \subseteq Nat \ {0} /\ MaxRounds \in Nat /\ MaxCalls \in Nat
  BY AgentsAssumption DEF Conversation!DesktopAssumption

LEMMA SerialInvInit == Conversation!Init => SerialInv
  BY ConversationConstants
     DEF Conversation!Init, SerialInv, ThreadPlaces, TurnPlaces, RoundPlaces, ApprovalPlaces,
         BeforeTurn, Conversation!Active, Conversation!Terminal, Conversation!Threads

\* A thread goes on with its turn, or ends it or leaves it to the user.
LEMMA TurnGoesOn ==
    ASSUME SerialInv, NEW a \in Conversation!Threads, thread[a] \in TurnPlaces,
           NEW p \in TurnPlaces \cup {"return"}, thread' = [thread EXCEPT ![a] = p],
           NEW s \in Conversation!Active \cup Conversation!Terminal,
           turn' = [turn EXCEPT ![job[a]] = s],
           p # "return" => s \in {"QUEUED", "RUNNING"}, fresh' = {a}, UNCHANGED job
    PROVE  SerialInv'
  <1>1. job[a] \in Messages /\ fresh = {a} /\ turn[job[a]] \in Conversation!Active
    BY DEF SerialInv, ThreadPlaces, TurnPlaces, RoundPlaces, ApprovalPlaces, BeforeTurn,
           Conversation!Active
  <1>2. \A m \in Messages : turn[m] \in Conversation!Active => m = job[a]
    BY <1>1 DEF SerialInv
  <1>3. /\ turn' \in [Messages -> Conversation!Active \cup Conversation!Terminal \cup {"absent"}]
        /\ turn'[job[a]] = s /\ \A m \in Messages \ {job[a]} : turn'[m] \notin Conversation!Active
    BY <1>1, <1>2 DEF SerialInv
  <1>4. thread' \in [Conversation!Threads -> ThreadPlaces] /\ thread'[a] = p
        /\ \A b \in Conversation!Threads \ {a} : thread'[b] = thread[b] /\ thread[b] \notin TurnPlaces
    <2>1. p \in ThreadPlaces
      BY DEF ThreadPlaces
    <2> QED BY <1>1, <2>1 DEF SerialInv
  <1>5. /\ job' = job /\ job \in [Conversation!Threads -> Messages \cup {0}]
        /\ \A b \in Conversation!Threads : thread'[b] # "idle" => job[b] \in Messages
    BY <1>1, <1>4 DEF SerialInv
  <1>6. \A b \in Conversation!Threads : thread'[b] \in TurnPlaces =>
           fresh' = {b} /\ turn'[job[b]] \in {"QUEUED", "RUNNING"}
    <2>1. "return" \notin TurnPlaces
      BY DEF TurnPlaces, RoundPlaces, ApprovalPlaces
    <2> QED BY <1>3, <1>4, <2>1
  <1>7. \A b \in Conversation!Threads : thread'[b] \in {"user", "assistant"} => b \notin fresh'
    <2>1. p \notin {"user", "assistant"}
      BY DEF TurnPlaces, RoundPlaces, ApprovalPlaces
    <2> QED BY <1>4, <2>1
  <1>8. \A m, n \in Messages :
           turn'[m] \in Conversation!Active /\ turn'[n] \in Conversation!Active => m = n
    BY <1>3
  <1> QED BY <1>3, <1>4, <1>5, <1>6, <1>7, <1>8 DEF SerialInv, Conversation!Active,
             Conversation!Threads, Conversation!Terminal

\* A thread that works on no durable turn moves, and writes nothing.
LEMMA OutsideTurnMoves ==
    ASSUME SerialInv, NEW a \in Conversation!Threads, thread[a] \notin TurnPlaces,
           NEW p \in {"idle", "return", "read"}, thread' = [thread EXCEPT ![a] = p],
           NEW j \in Messages \cup {0}, job' = [job EXCEPT ![a] = j], p # "idle" => j \in Messages,
           fresh' \in {fresh, fresh \ {a}}, UNCHANGED turn
    PROVE  SerialInv'
  <1>1. /\ thread' \in [Conversation!Threads -> ThreadPlaces] /\ thread'[a] = p
        /\ job' \in [Conversation!Threads -> Messages \cup {0}] /\ job'[a] = j
        /\ \A b \in Conversation!Threads \ {a} : thread'[b] = thread[b] /\ job'[b] = job[b]
    <2>1. p \in ThreadPlaces
      BY DEF ThreadPlaces, BeforeTurn
    <2> QED BY <2>1 DEF SerialInv
  <1>2. p \notin TurnPlaces /\ p \notin {"user", "assistant"}
    BY DEF TurnPlaces, RoundPlaces, ApprovalPlaces
  <1>3. \A b \in Conversation!Threads : thread'[b] # "idle" => job'[b] \in Messages
    BY <1>1 DEF SerialInv
  <1>4. \A b \in Conversation!Threads : thread'[b] \in TurnPlaces =>
           fresh' = {b} /\ turn[job'[b]] \in {"QUEUED", "RUNNING"}
    <2> SUFFICES ASSUME NEW b \in Conversation!Threads, thread'[b] \in TurnPlaces
                 PROVE  fresh' = {b} /\ turn[job'[b]] \in {"QUEUED", "RUNNING"}
      OBVIOUS
    <2>1. b # a /\ thread[b] \in TurnPlaces /\ job'[b] = job[b]
      BY <1>1, <1>2
    <2>2. fresh = {b} /\ turn[job[b]] \in {"QUEUED", "RUNNING"}
      BY <2>1 DEF SerialInv
    <2> QED BY <2>1, <2>2
  <1>5. \A b \in Conversation!Threads : thread'[b] \in {"user", "assistant"} /\ b \in fresh' =>
           \A m \in Messages : turn[m] \notin Conversation!Active
    BY <1>1, <1>2 DEF SerialInv
  <1> QED BY <1>1, <1>3, <1>4, <1>5 DEF SerialInv, Conversation!Active, Conversation!Threads,
             Conversation!Terminal

\* What a thread that reads, appends or starts does to the turns.
LEMMA WorksKeepsSerial ==
    ASSUME SerialInv, NEW a \in Conversation!Threads, Conversation!Works(a) PROVE SerialInv'
  <1> USE DEF Conversation!Goto, Conversation!Ends, Conversation!Commits, Conversation!store,
              Conversation!memory, Conversation!loop
  <1>0. /\ "return" \notin TurnPlaces /\ "read" \notin TurnPlaces /\ "idle" \notin TurnPlaces
        /\ "user" \notin TurnPlaces /\ "assistant" \notin TurnPlaces
    BY DEF TurnPlaces, RoundPlaces, ApprovalPlaces
  <1>a. /\ job \in [Conversation!Threads -> Messages \cup {0}]
        /\ turn \in [Messages -> Conversation!Active \cup Conversation!Terminal \cup {"absent"}]
        /\ thread[a] # "idle" => job[a] \in Messages
        /\ thread[a] \in TurnPlaces => fresh = {a} /\ turn[job[a]] \in {"QUEUED", "RUNNING"}
    BY DEF SerialInv
  \* The conversation was idle when the thread read it, or nothing has been written.
  <1>1. CASE Conversation!Read(a)
    <2>1. thread[a] = "read" /\ UNCHANGED <<turn, job>>
      BY <1>1 DEF Conversation!Read
    <2>2. CASE thread' = [thread EXCEPT ![a] = "return"] /\ UNCHANGED fresh
      <3>1. job' = [job EXCEPT ![a] = job[a]] /\ job[a] \in Messages
        BY <1>a, <2>1
      <3> QED BY <1>0, <2>1, <2>2, <3>1, OutsideTurnMoves
    <2>3. CASE Conversation!Idle /\ fresh' = fresh \cup {a} /\ thread' = [thread EXCEPT ![a] = "user"]
      <3>1. \A m \in Messages : turn[m] \notin Conversation!Active
        BY <2>3 DEF Conversation!Idle
      <3>2. \A b \in Conversation!Threads : thread[b] \notin TurnPlaces
        <4>1. \A b \in Conversation!Threads : thread[b] \in TurnPlaces =>
                 job[b] \in Messages /\ turn[job[b]] \in {"QUEUED", "RUNNING"}
          BY <1>0 DEF SerialInv
        <4> QED BY <3>1, <4>1 DEF Conversation!Active
      <3>3. thread' \in [Conversation!Threads -> ThreadPlaces] /\ thread'[a] = "user"
            /\ \A b \in Conversation!Threads \ {a} : thread'[b] = thread[b]
        <4>1. "user" \in ThreadPlaces
          BY DEF ThreadPlaces, BeforeTurn
        <4> QED BY <2>3, <4>1 DEF SerialInv
      <3>4. \A b \in Conversation!Threads : thread'[b] # "idle" => job[b] \in Messages
        BY <1>a, <2>1, <3>3 DEF SerialInv
      <3>5. \A b \in Conversation!Threads : thread'[b] \notin TurnPlaces
        BY <1>0, <3>2, <3>3
      <3> QED BY <2>1, <3>1, <3>3, <3>4, <3>5 DEF SerialInv, Conversation!Active,
                 Conversation!Threads, Conversation!Terminal
    <2> QED BY <1>1, <2>2, <2>3 DEF Conversation!Read
  <1>2. CASE Conversation!AppendUser(a)
    <2>1. /\ thread[a] = "user" /\ a \in fresh /\ fresh' = {a} /\ UNCHANGED <<turn, job>>
          /\ thread' = [thread EXCEPT ![a] = "assistant"]
      BY <1>2 DEF Conversation!AppendUser
    <2>2. \A m \in Messages : turn[m] \notin Conversation!Active
      BY <2>1 DEF SerialInv
    <2>3. \A b \in Conversation!Threads : thread[b] \notin TurnPlaces
      <3>1. \A b \in Conversation!Threads : thread[b] \in TurnPlaces =>
               job[b] \in Messages /\ turn[job[b]] \in {"QUEUED", "RUNNING"}
        BY <1>0 DEF SerialInv
      <3> QED BY <2>2, <3>1 DEF Conversation!Active
    <2>4. thread' \in [Conversation!Threads -> ThreadPlaces] /\ thread'[a] = "assistant"
          /\ \A b \in Conversation!Threads \ {a} : thread'[b] = thread[b]
      <3>1. "assistant" \in ThreadPlaces
        BY DEF ThreadPlaces, BeforeTurn
      <3> QED BY <2>1, <3>1 DEF SerialInv
    <2>5. \A b \in Conversation!Threads : thread'[b] # "idle" => job[b] \in Messages
      BY <1>a, <2>1, <2>4 DEF SerialInv
    <2>6. \A b \in Conversation!Threads : thread'[b] \notin TurnPlaces
      BY <1>0, <2>3, <2>4
    <2> QED BY <2>1, <2>2, <2>4, <2>5, <2>6 DEF SerialInv, Conversation!Active,
               Conversation!Threads, Conversation!Terminal
  \* The write is accepted, so no other turn is under way.
  <1>3. CASE Conversation!AppendAssistant(a)
    <2>1. /\ thread[a] = "assistant" /\ a \in fresh /\ fresh' = {a} /\ UNCHANGED job
          /\ thread' = [thread EXCEPT ![a] = "start"] /\ turn' = [turn EXCEPT ![job[a]] = "QUEUED"]
      BY <1>3 DEF Conversation!AppendAssistant
    <2>2. \A m \in Messages : turn[m] \notin Conversation!Active
      BY <2>1 DEF SerialInv
    <2>3. \A b \in Conversation!Threads : thread[b] \notin TurnPlaces
      <3>1. \A b \in Conversation!Threads : thread[b] \in TurnPlaces =>
               job[b] \in Messages /\ turn[job[b]] \in {"QUEUED", "RUNNING"}
        BY <1>0 DEF SerialInv
      <3> QED BY <2>2, <3>1 DEF Conversation!Active
    <2>4. thread' \in [Conversation!Threads -> ThreadPlaces] /\ thread'[a] = "start"
          /\ \A b \in Conversation!Threads \ {a} : thread'[b] = thread[b] /\ thread'[b] \notin TurnPlaces
      <3>1. "start" \in ThreadPlaces
        BY DEF ThreadPlaces, TurnPlaces, RoundPlaces
      <3> QED BY <2>1, <2>3, <3>1 DEF SerialInv
    <2>5. \A b \in Conversation!Threads : thread'[b] # "idle" => job[b] \in Messages
      BY <1>a, <2>1, <2>4 DEF SerialInv
    <2>6. /\ turn' \in [Messages -> Conversation!Active \cup Conversation!Terminal \cup {"absent"}]
          /\ turn'[job[a]] = "QUEUED"
          /\ \A m \in Messages \ {job[a]} : turn'[m] \notin Conversation!Active
      <3>1. "QUEUED" \in Conversation!Active
        BY DEF Conversation!Active
      <3> QED BY <1>a, <2>1, <2>2, <3>1
    <2>7. \A b \in Conversation!Threads : thread'[b] \in TurnPlaces =>
             fresh' = {b} /\ turn'[job[b]] \in {"QUEUED", "RUNNING"}
      BY <2>1, <2>4, <2>6
    <2>8. \A b \in Conversation!Threads : thread'[b] \in {"user", "assistant"} => b \notin fresh'
      BY <2>1, <2>4
    <2>9. \A m, n \in Messages :
             turn'[m] \in Conversation!Active /\ turn'[n] \in Conversation!Active => m = n
      BY <2>6
    <2>10. job' \in [Conversation!Threads -> Messages \cup {0}] /\ job' = job
      BY <1>a, <2>1
    <2> QED BY <2>4, <2>5, <2>6, <2>7, <2>8, <2>9, <2>10
            DEF SerialInv, Conversation!Active, Conversation!Threads, Conversation!Terminal
  <1>4. CASE Conversation!Conflict(a)
    <2>1. /\ thread[a] \in {"user", "assistant"} /\ thread' = [thread EXCEPT ![a] = "return"]
          /\ UNCHANGED <<turn, job, fresh>>
      BY <1>4 DEF Conversation!Conflict
    <2>2. job' = [job EXCEPT ![a] = job[a]] /\ job[a] \in Messages /\ thread[a] \notin TurnPlaces
      BY <1>0, <1>a, <2>1
    <2> QED BY <2>1, <2>2, OutsideTurnMoves
  <1>5. CASE Conversation!Return(a)
    <2>1. /\ thread[a] = "return" /\ thread' = [thread EXCEPT ![a] = "idle"]
          /\ job' = [job EXCEPT ![a] = 0] /\ fresh' = fresh \ {a} /\ UNCHANGED turn
      BY <1>5 DEF Conversation!Return
    <2> QED BY <1>0, <2>1, OutsideTurnMoves
  <1>6. ASSUME thread[a] \in TurnPlaces, fresh' \in {fresh, {a}}, UNCHANGED job,
               NEW p \in TurnPlaces \cup {"return"}, thread' = [thread EXCEPT ![a] = p],
               NEW s, s = turn[job[a]] \/ s \in Conversation!Active \cup Conversation!Terminal,
               turn' = [turn EXCEPT ![job[a]] = s],
               p # "return" => s = turn[job[a]] \/ s \in {"QUEUED", "RUNNING"}
        PROVE  SerialInv'
    <2>1. /\ fresh' = {a} /\ s \in Conversation!Active \cup Conversation!Terminal
          /\ p # "return" => s \in {"QUEUED", "RUNNING"}
      BY <1>a, <1>6 DEF Conversation!Active
    <2> QED BY <1>6, <2>1, TurnGoesOn
  <1>7. thread[a] \in TurnPlaces => turn = [turn EXCEPT ![job[a]] = turn[job[a]]]
    BY <1>a, <1>0
  <1>8. CASE Conversation!StartExecution(a) \/ Conversation!RoundBegins(a)
             \/ Conversation!ProviderReplies(a) \/ Conversation!RecordCall(a)
             \/ Conversation!RunBatch(a) \/ Conversation!SettleRound(a)
    <2>1. /\ thread[a] \in TurnPlaces /\ fresh' \in {fresh, {a}} /\ UNCHANGED job
          /\ \E p \in TurnPlaces : thread' = [thread EXCEPT ![a] = p]
          /\ turn' \in {turn, [turn EXCEPT ![job[a]] = "RUNNING"]}
      BY <1>8 DEF Conversation!StartExecution, Conversation!RoundBegins, Conversation!ProviderReplies,
                  Conversation!RecordCall, Conversation!RunBatch, Conversation!SettleRound,
                  TurnPlaces, RoundPlaces
    <2>2. PICK p \in TurnPlaces : thread' = [thread EXCEPT ![a] = p]
      BY <2>1
    <2>3. CASE UNCHANGED turn
      BY <1>6, <1>7, <2>1, <2>2, <2>3
    <2>4. CASE turn' = [turn EXCEPT ![job[a]] = "RUNNING"]
      BY <1>6, <2>1, <2>2, <2>4 DEF Conversation!Active
    <2> QED BY <2>1, <2>3, <2>4
  <1>9. CASE Conversation!Pause(a)
    <2>1. thread[a] \in TurnPlaces /\ fresh' = {a} /\ UNCHANGED job
      BY <1>9 DEF Conversation!Pause, TurnPlaces, RoundPlaces
    <2>2. \/ turn' = [turn EXCEPT ![job[a]] = "WAITING_APPROVAL"] /\ thread' = [thread EXCEPT ![a] = "return"]
          \/ UNCHANGED turn /\ thread' = [thread EXCEPT ![a] = "answer"]
      BY <1>9 DEF Conversation!Pause
    <2>3. CASE turn' = [turn EXCEPT ![job[a]] = "WAITING_APPROVAL"] /\ thread' = [thread EXCEPT ![a] = "return"]
      BY <1>6, <2>1, <2>3 DEF Conversation!Active
    <2>4. CASE UNCHANGED turn /\ thread' = [thread EXCEPT ![a] = "answer"]
      BY <1>6, <1>7, <2>1, <2>4 DEF TurnPlaces
    <2> QED BY <2>2, <2>3, <2>4
  <1>10. CASE Conversation!Answer(a) \/ Conversation!Abandon(a)
    <2>1. /\ thread[a] \in TurnPlaces /\ fresh' = {a} /\ UNCHANGED job
          /\ thread' = [thread EXCEPT ![a] = "return"]
          /\ \E s \in Conversation!Terminal : turn' = [turn EXCEPT ![job[a]] = s]
      BY <1>10 DEF Conversation!Answer, Conversation!Abandon, Conversation!Finishes, TurnPlaces,
                   Conversation!Terminal
    <2>2. PICK s \in Conversation!Terminal : turn' = [turn EXCEPT ![job[a]] = s]
      BY <2>1
    <2> QED BY <1>6, <2>1, <2>2
  <1> QED BY <1>1, <1>2, <1>3, <1>4, <1>5, <1>8, <1>9, <1>10, Zenon DEF Conversation!Works

\* Nothing but the set of current revisions changes, and only when no turn is under way.
LEMMA RevisionMoves ==
    ASSUME SerialInv, UNCHANGED <<turn, thread, job>>,
           fresh' = fresh \/ (fresh' = {} /\ \A m \in Messages : turn[m] \notin Conversation!Active)
    PROVE  SerialInv'
  <1>1. CASE fresh' = fresh
    BY <1>1 DEF SerialInv, Conversation!Active, Conversation!Threads, Conversation!Terminal
  <1>2. CASE fresh' = {} /\ \A m \in Messages : turn[m] \notin Conversation!Active
    <2>1. \A b \in Conversation!Threads : thread[b] \notin TurnPlaces
      <3>1. "idle" \notin TurnPlaces
        BY DEF TurnPlaces, RoundPlaces, ApprovalPlaces
      <3>2. \A b \in Conversation!Threads : thread[b] \in TurnPlaces =>
               job[b] \in Messages /\ turn[job[b]] \in {"QUEUED", "RUNNING"}
        BY <3>1 DEF SerialInv
      <3> QED BY <1>2, <3>2 DEF Conversation!Active
    <2> QED BY <1>2, <2>1 DEF SerialInv, Conversation!Active, Conversation!Threads,
               Conversation!Terminal
  <1> QED BY <1>1, <1>2

\* The turn that waits is the only one under way, so no thread works on another.
LEMMA DecideKeepsSerial ==
    ASSUME SerialInv, NEW m \in Messages, Conversation!Decide(m) PROVE SerialInv'
  <1>1. /\ thread["service"] = "idle" /\ turn[m] = "WAITING_APPROVAL"
        /\ turn' = [turn EXCEPT ![m] = "RUNNING"] /\ fresh' = {"service"}
        /\ job' = [job EXCEPT !["service"] = m]
        /\ \E p \in {"approved", "denied"} : thread' = [thread EXCEPT !["service"] = p]
    BY DEF Conversation!Decide, Conversation!Goto
  <1>2. PICK p \in {"approved", "denied"} : thread' = [thread EXCEPT !["service"] = p]
    BY <1>1
  <1>3. \A n \in Messages \ {m} : turn[n] \notin Conversation!Active
    BY <1>1 DEF SerialInv, Conversation!Active
  <1>4. \A b \in Conversation!Threads : thread[b] \notin TurnPlaces
    <2>1. "idle" \notin TurnPlaces
      BY DEF TurnPlaces, RoundPlaces, ApprovalPlaces
    <2>2. \A b \in Conversation!Threads : thread[b] \in TurnPlaces =>
             job[b] \in Messages /\ turn[job[b]] \in {"QUEUED", "RUNNING"}
      BY <2>1 DEF SerialInv
    <2> QED BY <1>1, <1>3, <2>2 DEF Conversation!Active
  <1>5. /\ turn' \in [Messages -> Conversation!Active \cup Conversation!Terminal \cup {"absent"}]
        /\ turn'[m] = "RUNNING" /\ \A n \in Messages \ {m} : turn'[n] \notin Conversation!Active
    BY <1>1, <1>3 DEF SerialInv, Conversation!Active
  <1>6. /\ thread' \in [Conversation!Threads -> ThreadPlaces] /\ thread'["service"] = p
        /\ job' \in [Conversation!Threads -> Messages \cup {0}] /\ job'["service"] = m
        /\ \A b \in Conversation!Threads \ {"service"} : thread'[b] = thread[b] /\ job'[b] = job[b]
    <2>1. p \in ThreadPlaces /\ "service" \in Conversation!Threads
      BY DEF ThreadPlaces, TurnPlaces, ApprovalPlaces, Conversation!Threads
    <2> QED BY <1>1, <1>2, <2>1 DEF SerialInv
  <1>7. \A b \in Conversation!Threads : thread'[b] # "idle" => job'[b] \in Messages
    BY <1>6 DEF SerialInv
  <1>8. \A b \in Conversation!Threads : thread'[b] \in TurnPlaces =>
           fresh' = {b} /\ turn'[job'[b]] \in {"QUEUED", "RUNNING"}
    BY <1>1, <1>4, <1>5, <1>6
  <1>9. \A b \in Conversation!Threads : thread'[b] \in {"user", "assistant"} => b \notin fresh'
    BY <1>1, <1>2, <1>6
  <1>10. \A i, j \in Messages :
            turn'[i] \in Conversation!Active /\ turn'[j] \in Conversation!Active => i = j
    BY <1>5
  <1> QED BY <1>5, <1>6, <1>7, <1>8, <1>9, <1>10
          DEF SerialInv, Conversation!Active, Conversation!Threads, Conversation!Terminal

LEMMA SerialInvStep ==
    ASSUME SerialInv, [Conversation!Next]_(Conversation!vars) PROVE SerialInv'
  <1> USE DEF Conversation!Goto, Conversation!Commits, Conversation!store, Conversation!threads,
              Conversation!memory, Conversation!loop
  <1>0. "service" \in Conversation!Threads /\ "run" \in Conversation!Threads
    BY DEF Conversation!Threads
  <1>1. ASSUME NEW m \in Messages, Conversation!Execute(m) \/ Conversation!Persist(m) PROVE SerialInv'
    <2>1. /\ thread["service"] \in {"approved", "result", "unknown", "denied"} /\ UNCHANGED <<turn, job>>
          /\ \E p \in {"denied", "result", "unknown", "round"} : thread' = [thread EXCEPT !["service"] = p]
          /\ fresh' \in {fresh, {"service"}}
      BY <1>1, Zenon DEF Conversation!Execute, Conversation!Persist
    <2>2. PICK p \in TurnPlaces : thread' = [thread EXCEPT !["service"] = p]
      BY <2>1 DEF TurnPlaces, RoundPlaces, ApprovalPlaces
    <2>a. thread["service"] \in TurnPlaces
      BY <2>1 DEF TurnPlaces, ApprovalPlaces
    <2>3. /\ fresh = {"service"} /\ turn[job["service"]] \in {"QUEUED", "RUNNING"}
          /\ turn = [turn EXCEPT ![job["service"]] = turn[job["service"]]]
      BY <1>0, <2>a DEF SerialInv
    <2>4. turn[job["service"]] \in Conversation!Active \cup Conversation!Terminal
      BY <2>3 DEF Conversation!Active
    <2> QED BY <1>0, <2>a, <2>1, <2>2, <2>3, <2>4, TurnGoesOn
  <1>2. ASSUME NEW m \in Messages, Conversation!StartRun(m) \/ Conversation!Send(m) PROVE SerialInv'
    <2>1. PICK a \in Conversation!Threads :
             /\ thread[a] = "idle" /\ thread' = [thread EXCEPT ![a] = "read"]
             /\ job' = [job EXCEPT ![a] = m] /\ UNCHANGED <<turn, fresh>>
      BY <1>0, <1>2 DEF Conversation!StartRun, Conversation!Send
    <2>2. "idle" \notin TurnPlaces
      BY DEF TurnPlaces, RoundPlaces, ApprovalPlaces
    <2> QED BY <2>1, <2>2, OutsideTurnMoves
  <1>3. ASSUME NEW m \in Messages, Conversation!CancelRun(m) PROVE SerialInv'
    <2>1. UNCHANGED <<turn, thread, job, fresh>>
      BY <1>3 DEF Conversation!CancelRun
    <2> QED BY <2>1, RevisionMoves
  <1>4. ASSUME NEW m \in Messages, NEW i, Conversation!Reconcile(m, i) PROVE SerialInv'
    <2>1. UNCHANGED <<turn, thread, job>> /\ fresh' = {} /\ \A n \in Messages : turn[n] \notin Conversation!Active
      BY <1>4 DEF Conversation!Reconcile
    <2> QED BY <2>1, RevisionMoves
  <1>5. ASSUME Conversation!SwitchModel PROVE SerialInv'
    <2>1. UNCHANGED <<turn, thread, job>> /\ fresh' = {} /\ \A n \in Messages : turn[n] \notin Conversation!Active
      BY <1>5 DEF Conversation!SwitchModel, Conversation!Idle
    <2> QED BY <2>1, RevisionMoves
  <1>6. ASSUME Conversation!CatalogChanges \/ Conversation!Rebind \/ UNCHANGED Conversation!vars
        PROVE  SerialInv'
    <2>1. UNCHANGED <<turn, thread, job, fresh>>
      BY <1>6 DEF Conversation!CatalogChanges, Conversation!Rebind, Conversation!vars
    <2> QED BY <2>1, RevisionMoves
  <1>7. ASSUME Conversation!Restart PROVE SerialInv'
    <2>1. /\ turn' = [m \in Messages |-> IF turn[m] \in Conversation!Active THEN "INTERRUPTED" ELSE turn[m]]
          /\ fresh' = {} /\ thread' = [a \in Conversation!Threads |-> "idle"]
          /\ job' = [a \in Conversation!Threads |-> 0]
      BY <1>7 DEF Conversation!Restart
    <2>2. /\ turn' \in [Messages -> Conversation!Active \cup Conversation!Terminal \cup {"absent"}]
          /\ \A m \in Messages : turn'[m] \notin Conversation!Active
      BY <2>1 DEF SerialInv, Conversation!Active, Conversation!Terminal
    <2>3. "idle" \in ThreadPlaces /\ "idle" \notin TurnPlaces
      BY DEF ThreadPlaces, TurnPlaces, RoundPlaces, ApprovalPlaces
    <2> QED BY <2>1, <2>2, <2>3 DEF SerialInv, Conversation!Active, Conversation!Threads,
               Conversation!Terminal
  <1> QED BY <1>1, <1>2, <1>3, <1>4, <1>5, <1>6, <1>7, WorksKeepsSerial, DecideKeepsSerial, Zenon
          DEF Conversation!Next, Conversation!Resolves

\* A conversation has at most one turn under way, and a thread that works on a
\* durable turn is never refused, for any number of messages.
THEOREM ConversationTurnsAreSerial == Conversation!Spec => []TurnsAreSerial
  <1>1. SerialInv => TurnsAreSerial
    <2> SUFFICES ASSUME SerialInv PROVE TurnsAreSerial
      OBVIOUS
    <2>1. Conversation!NoLateConflict
      BY DEF Conversation!NoLateConflict, SerialInv, ThreadPlaces, BeforeTurn
    <2>2. Conversation!OneActiveTurn
      <3>1. PICK S : S = {m \in Messages : turn[m] \in Conversation!Active}
        OBVIOUS
      <3>2. S = {} \/ \E x : S = {x}
        BY <3>1 DEF SerialInv
      <3>3. Cardinality(S) <= 1
        <4>1. CASE S = {}
          <5>1. Cardinality(S) = 0
            BY <4>1, FS_EmptySet
          <5> QED BY <5>1
        <4>2. ASSUME NEW x, S = {x} PROVE Cardinality(S) <= 1
          <5>1. Cardinality({x}) = 1
            BY FS_Singleton
          <5> QED BY <4>2, <5>1
        <4> QED BY <3>2, <4>1, <4>2
      <3>4. Conversation!Cardinality(S) = Cardinality(S)
        BY Zenon DEF Conversation!Cardinality, Cardinality
      <3> QED BY <3>1, <3>3, <3>4 DEF Conversation!OneActiveTurn
    <2> QED BY <2>1, <2>2 DEF TurnsAreSerial
  <1> QED BY <1>1, SerialInvInit, SerialInvStep, PTL DEF Conversation!Spec

\* Only one thread works on a durable turn.
LEMMA OneWorker ==
    ASSUME SerialInv, NEW a \in Conversation!Threads, NEW b \in Conversation!Threads,
           thread[a] \in TurnPlaces, thread[b] \in TurnPlaces
    PROVE  a = b
  BY DEF SerialInv

LEMMA EffectsInvInit == Conversation!Init => EffectsInv
  <1> SUFFICES ASSUME Conversation!Init PROVE EffectsInv
    OBVIOUS
  <1>1. /\ calls = [m \in Messages |-> <<>>] /\ base = [m \in Messages |-> 0]
        /\ asked = [m \in Messages |-> <<>>] /\ approval = [m \in Messages |-> 0]
        /\ resolving = 0 /\ thread = [a \in Conversation!Threads |-> "idle"]
    BY DEF Conversation!Init
  <1>2. <<>> \in Seq(CallRecord) /\ <<>> \in Seq(Conversation!Kinds) /\ DOMAIN <<>> = {}
    OBVIOUS
  <1>3. CallsTyped
    BY <1>1, <1>2 DEF CallsTyped
  <1>4. CallsAreSound
    BY <1>1, <1>2 DEF CallsAreSound
  <1>5. ThreadsAreSound
    BY <1>1 DEF ThreadsAreSound, BeforeTurn, RoundPlaces, ApprovalPlaces, Conversation!Threads
  <1> QED BY <1>3, <1>4, <1>5 DEF EffectsInv

\* A thread moves, not to or from a call to approve, and leaves the calls alone.
LEMMA EffectsMoves ==
    ASSUME SerialInv, EffectsInv, NEW a \in Conversation!Threads,
           thread[a] # "idle", thread[a] \notin ApprovalPlaces,
           NEW p, p \notin ApprovalPlaces, thread' = [thread EXCEPT ![a] = p],
           UNCHANGED <<calls, base, approval, resolving, job>>,
           UNCHANGED turn \/ \E s \in Conversation!Active \cup Conversation!Terminal :
                                turn' = [turn EXCEPT ![job[a]] = s],
           p \in BeforeTurn => thread[a] \in BeforeTurn /\ UNCHANGED turn,
           p \in RoundPlaces => \A i \in DOMAIN calls[job[a]] :
                                   i > base[job[a]] => calls[job[a]][i].ran = 0,
           NEW q \in Seq(Conversation!Kinds), asked' = [asked EXCEPT ![job[a]] = q],
           asked' = asked \/ thread[a] \in TurnPlaces, p = "record" => q # <<>>
    PROVE  EffectsInv'
  <1>1. /\ job[a] \in Messages /\ thread'[a] = p
        /\ \A b \in Conversation!Threads \ {a} : thread'[b] = thread[b]
    BY DEF SerialInv
  <1>2. \A m \in Messages : turn'[m] = turn[m] \/ (m = job[a] /\ turn'[m] # "absent")
    BY <1>1 DEF SerialInv, Conversation!Active, Conversation!Terminal
  <1>3. CallsTyped'
    BY <1>1 DEF EffectsInv, CallsTyped, CallRecord, Conversation!Kinds
  <1>4. CallsAreSound'
    <2>1. \A m, i : JustExecuted(m, i) => JustExecuted(m, i)'
      <3>1. thread["service"] \in {"result", "unknown"} => thread'["service"] = thread["service"]
        BY <1>1 DEF ApprovalPlaces, Conversation!Threads
      <3> QED BY <3>1 DEF JustExecuted
    <2>2. \A m \in Messages : turn'[m] = "absent" => calls'[m] = <<>>
      BY <1>2 DEF EffectsInv, CallsAreSound
    <2>3. \A m \in Messages : \A i \in DOMAIN calls[m] :
             calls[m][i].status = "REQUESTED" /\ calls[m][i].ran = 1 => JustExecuted(m, i)'
      BY <2>1 DEF EffectsInv, CallsAreSound
    <2> QED BY <2>2, <2>3 DEF EffectsInv, CallsAreSound, CallIsSound
  <1>5. ThreadsAreSound'
    <2>1. ASSUME NEW b \in Conversation!Threads, thread'[b] \in BeforeTurn
          PROVE  turn'[job[b]] = "absent" /\ \A c \in Conversation!Threads \ {b} : job[c] # job[b]
      <3>1. thread[b] \in BeforeTurn
        BY <1>1, <2>1
      <3>2. turn[job[b]] = "absent" /\ \A c \in Conversation!Threads \ {b} : job[c] # job[b]
        BY <3>1 DEF EffectsInv, ThreadsAreSound
      <3>3. job[b] \in Messages
        BY <3>1 DEF SerialInv, BeforeTurn
      <3> QED BY <1>1, <1>2, <2>1, <3>2, <3>3
    <2>2. ASSUME NEW b \in Conversation!Threads, thread'[b] \in RoundPlaces
          PROVE  \A i \in DOMAIN calls[job[b]] : i > base[job[b]] => calls[job[b]][i].ran = 0
      <3>1. CASE b = a
        BY <1>1, <2>2, <3>1
      <3>2. CASE b # a
        <4>1. thread[b] \in RoundPlaces
          BY <1>1, <2>2, <3>2
        <4> QED BY <4>1 DEF EffectsInv, ThreadsAreSound
      <3> QED BY <3>1, <3>2
    <2>3. ASSUME NEW b \in Conversation!Threads, thread'[b] = "record" PROVE asked'[job[b]] # <<>>
      <3>1. CASE b = a
        BY <1>1, <2>3, <3>1 DEF EffectsInv, CallsTyped
      <3>2. CASE b # a
        <4>1. thread[b] = "record" /\ thread[b] \in TurnPlaces
          BY <1>1, <2>3, <3>2 DEF TurnPlaces, RoundPlaces
        <4>2. asked' = asked
          BY <3>2, <4>1, OneWorker
        <4> QED BY <4>1, <4>2 DEF EffectsInv, ThreadsAreSound
      <3> QED BY <3>1, <3>2
    <2>4. /\ thread'["service"] \in ApprovalPlaces => thread'["service"] = thread["service"]
          /\ thread'["service"] \in {"approved", "denied"} => thread'["service"] = thread["service"]
      BY <1>1 DEF ApprovalPlaces, Conversation!Threads
    <2>5. thread'["service"] \in ApprovalPlaces =>
             resolving = job["service"] /\ resolving # 0 /\ approval[resolving] # 0
      BY <2>4 DEF EffectsInv, ThreadsAreSound
    <2>6. thread'["service"] \in {"approved", "denied"} =>
             calls[resolving][approval[resolving]].status = "REQUESTED"
      BY <2>4 DEF EffectsInv, ThreadsAreSound
    <2> QED BY <2>1, <2>2, <2>3, <2>5, <2>6
            DEF ThreadsAreSound, BeforeTurn, RoundPlaces, ApprovalPlaces, Conversation!Threads
  <1> QED BY <1>3, <1>4, <1>5 DEF EffectsInv

\* The steps of a thread that record and settle no call.
LEMMA QuietWorkKeepsEffects ==
    ASSUME SerialInv, EffectsInv, NEW a \in Conversation!Threads,
           \/ Conversation!Read(a) \/ Conversation!AppendUser(a) \/ Conversation!AppendAssistant(a)
           \/ Conversation!Conflict(a) \/ Conversation!StartExecution(a)
           \/ Conversation!RoundBegins(a) \/ Conversation!ProviderReplies(a)
           \/ Conversation!RunBatch(a) \/ Conversation!Answer(a) \/ Conversation!Abandon(a)
    PROVE  EffectsInv'
  <1> USE DEF Conversation!Goto, Conversation!Ends, Conversation!Commits, Conversation!store,
              Conversation!memory, Conversation!loop
  <1>0. thread[a] # "idle" => job[a] \in Messages
    BY DEF SerialInv
  <1>a. job[a] \in Messages => asked = [asked EXCEPT ![job[a]] = asked[job[a]]]
                              /\ asked[job[a]] \in Seq(Conversation!Kinds)
    BY DEF EffectsInv, CallsTyped
  \* With what has been asked unchanged.
  <1>1. ASSUME thread[a] \in BeforeTurn \cup TurnPlaces, thread[a] \notin ApprovalPlaces,
               UNCHANGED <<calls, base, approval, resolving, job, asked>>,
               NEW p, p \notin ApprovalPlaces, p # "record", thread' = [thread EXCEPT ![a] = p],
               UNCHANGED turn \/ \E s \in Conversation!Active \cup Conversation!Terminal :
                                    turn' = [turn EXCEPT ![job[a]] = s],
               p \in BeforeTurn => thread[a] \in BeforeTurn /\ UNCHANGED turn,
               p \in RoundPlaces => thread[a] \in RoundPlaces \/ calls[job[a]] = <<>>
        PROVE  EffectsInv'
    <2>1. thread[a] # "idle"
      BY <1>1 DEF BeforeTurn, TurnPlaces, RoundPlaces, ApprovalPlaces
    <2>2. p \in RoundPlaces => \A i \in DOMAIN calls[job[a]] :
                                  i > base[job[a]] => calls[job[a]][i].ran = 0
      <3>1. CASE thread[a] \in RoundPlaces
        BY <3>1 DEF EffectsInv, ThreadsAreSound
      <3>2. CASE calls[job[a]] = <<>>
        BY <3>2
      <3> QED BY <1>1, <3>1, <3>2
    <2> QED BY <1>0, <1>a, <1>1, <2>1, <2>2, EffectsMoves
  <1>2. CASE Conversation!Read(a)
    <2>1. /\ thread[a] = "read" /\ UNCHANGED <<calls, base, approval, resolving, job, asked, turn>>
          /\ \E p \in {"return", "user"} : thread' = [thread EXCEPT ![a] = p]
      BY <1>2 DEF Conversation!Read
    <2> QED BY <1>1, <2>1 DEF BeforeTurn, ApprovalPlaces, RoundPlaces
  <1>3. CASE Conversation!AppendUser(a) \/ Conversation!Conflict(a)
    <2>1. /\ thread[a] \in {"user", "assistant"}
          /\ UNCHANGED <<calls, base, approval, resolving, job, asked, turn>>
          /\ \E p \in {"return", "assistant"} : thread' = [thread EXCEPT ![a] = p]
      BY <1>3 DEF Conversation!AppendUser, Conversation!Conflict
    <2> QED BY <1>1, <2>1 DEF BeforeTurn, ApprovalPlaces, RoundPlaces
  <1>4. CASE Conversation!AppendAssistant(a)
    <2>1. /\ thread[a] = "assistant" /\ UNCHANGED <<calls, base, approval, resolving, job, asked>>
          /\ thread' = [thread EXCEPT ![a] = "start"] /\ turn' = [turn EXCEPT ![job[a]] = "QUEUED"]
      BY <1>4 DEF Conversation!AppendAssistant
    <2>2. job[a] \in Messages /\ turn[job[a]] = "absent"
      BY <1>0, <2>1 DEF EffectsInv, ThreadsAreSound, BeforeTurn
    <2>3. calls[job[a]] = <<>>
      BY <2>2 DEF EffectsInv, CallsAreSound
    <2>4. "QUEUED" \in Conversation!Active
      BY DEF Conversation!Active
    <2> QED BY <1>1, <2>1, <2>3, <2>4 DEF BeforeTurn, ApprovalPlaces
  <1>5. CASE Conversation!StartExecution(a) \/ Conversation!RoundBegins(a) \/ Conversation!RunBatch(a)
    <2>1. /\ thread[a] \in {"start", "round", "batch"}
          /\ UNCHANGED <<calls, base, approval, resolving, job, asked>>
          /\ \E p \in {"round", "cancelled", "answer", "provider", "settle", "failed"} :
                thread' = [thread EXCEPT ![a] = p]
          /\ turn' \in {turn, [turn EXCEPT ![job[a]] = "RUNNING"]}
      BY <1>5 DEF Conversation!StartExecution, Conversation!RoundBegins, Conversation!RunBatch
    <2>2. "RUNNING" \in Conversation!Active
      BY DEF Conversation!Active
    <2>3. /\ thread[a] \in RoundPlaces /\ thread[a] \in TurnPlaces /\ thread[a] \notin ApprovalPlaces
          /\ \A p \in {"round", "cancelled", "answer", "provider", "settle", "failed"} :
                p \notin ApprovalPlaces /\ p \notin BeforeTurn /\ p # "record"
      BY <2>1 DEF BeforeTurn, ApprovalPlaces, RoundPlaces, TurnPlaces
    <2> QED BY <1>1, <2>1, <2>2, <2>3
  <1>6. CASE Conversation!Answer(a) \/ Conversation!Abandon(a)
    <2>1. /\ thread[a] \in {"answer", "cancelled", "failed"}
          /\ UNCHANGED <<calls, base, approval, resolving, job, asked>>
          /\ thread' = [thread EXCEPT ![a] = "return"]
          /\ \E s \in Conversation!Terminal : turn' = [turn EXCEPT ![job[a]] = s]
      BY <1>6 DEF Conversation!Answer, Conversation!Abandon, Conversation!Finishes, Conversation!Terminal
    <2> QED BY <1>1, <2>1 DEF BeforeTurn, ApprovalPlaces, RoundPlaces, TurnPlaces
  <1>7. CASE Conversation!ProviderReplies(a)
    <2>1. thread[a] = "provider" /\ UNCHANGED <<calls, base, approval, resolving, job, turn>>
      BY <1>7 DEF Conversation!ProviderReplies
    <2>2. /\ thread[a] \in RoundPlaces /\ thread[a] \in TurnPlaces /\ thread[a] \notin ApprovalPlaces
          /\ \A p \in {"cancelled", "answer", "failed", "record"} :
                p \notin ApprovalPlaces /\ p \notin BeforeTurn
      BY <2>1 DEF BeforeTurn, ApprovalPlaces, RoundPlaces, TurnPlaces
    <2>3. CASE UNCHANGED asked /\ \E p \in {"cancelled", "answer", "failed"} : thread' = [thread EXCEPT ![a] = p]
      BY <1>1, <2>1, <2>2, <2>3
    <2>4. ASSUME NEW ks \in Conversation!Kinds \X Conversation!Kinds, NEW n \in 1 .. 2,
                 asked' = [asked EXCEPT ![job[a]] = SubSeq(ks, 1, n)],
                 thread' = [thread EXCEPT ![a] = "record"]
          PROVE  EffectsInv'
      <3>1. PICK q : q = SubSeq(ks, 1, n)
        OBVIOUS
      <3>2. q \in Seq(Conversation!Kinds) /\ q # <<>>
        <4>1. ks \in Seq(Conversation!Kinds) /\ Len(ks) = 2
          <5>0. ks = <<ks[1], ks[2]>> /\ ks[1] \in Conversation!Kinds /\ ks[2] \in Conversation!Kinds
            OBVIOUS
          <5>1. PICK x \in Conversation!Kinds, y \in Conversation!Kinds : ks = <<x, y>>
            BY <5>0
          <5>2. <<x, y>> \in Seq(Conversation!Kinds) /\ Len(<<x, y>>) = 2
            OBVIOUS
          <5> QED BY <5>1, <5>2
        <4>2. q \in Seq(Conversation!Kinds) /\ Len(q) = n
          BY <2>4, <3>1, <4>1
        <4> QED BY <2>4, <4>2
      <3>3. thread[a] # "idle" /\ "record" \in RoundPlaces
        BY <2>1 DEF RoundPlaces
      <3>4. \A i \in DOMAIN calls[job[a]] : i > base[job[a]] => calls[job[a]][i].ran = 0
        BY <2>2 DEF EffectsInv, ThreadsAreSound
      <3> QED BY <2>1, <2>2, <2>4, <3>1, <3>2, <3>3, <3>4, EffectsMoves
    <2>5. \/ UNCHANGED asked /\ \E p \in {"cancelled", "answer", "failed"} : thread' = [thread EXCEPT ![a] = p]
          \/ \E ks \in Conversation!Kinds \X Conversation!Kinds, n \in 1 .. 2 :
                /\ asked' = [asked EXCEPT ![job[a]] = SubSeq(ks, 1, n)]
                /\ thread' = [thread EXCEPT ![a] = "record"]
      BY <1>7 DEF Conversation!ProviderReplies
    <2> QED BY <2>3, <2>4, <2>5
  <1> QED BY <1>2, <1>3, <1>4, <1>5, <1>6, <1>7

\* What may become of a recorded call: it stays, or it is settled, and as not run only
\* if it has not run.
SettlesTo(c, d) ==
    \/ d = c
    \/ \E state \in {"COMPLETED", "FAILED", "CANCELLED", "AMBIGUOUS"},
          said \in {"not run", "result", "unknown", "asserted"} :
          d = Conversation!Settled(c, state, said) /\ (said = "not run" => c.ran = 0)

LEMMA SettledCall ==
    ASSUME NEW c \in CallRecord, CallIsSound(c), NEW d, SettlesTo(c, d)
    PROVE  /\ d \in CallRecord /\ CallIsSound(d) /\ d.ran = c.ran /\ d.kind = c.kind
           /\ d.status = "REQUESTED" => d = c
  <1>1. ASSUME NEW state \in {"COMPLETED", "FAILED", "CANCELLED", "AMBIGUOUS"},
               NEW said \in {"not run", "result", "unknown", "asserted"},
               d = Conversation!Settled(c, state, said), said = "not run" => c.ran = 0
        PROVE  /\ d \in CallRecord /\ d.ran = c.ran /\ d.kind = c.kind
               /\ d.status = state /\ d.said = said
    BY <1>1 DEF Conversation!Settled, CallRecord
  <1>2. ASSUME NEW state \in {"COMPLETED", "FAILED", "CANCELLED", "AMBIGUOUS"},
               NEW said \in {"not run", "result", "unknown", "asserted"},
               d = Conversation!Settled(c, state, said), said = "not run" => c.ran = 0
        PROVE  CallIsSound(d) /\ d.status # "REQUESTED"
    BY <1>1, <1>2 DEF CallIsSound
  <1> QED BY <1>1, <1>2 DEF SettlesTo

LEMMA SettledSequence ==
    ASSUME NEW s \in Seq(CallRecord), \A i \in DOMAIN s : CallIsSound(s[i]),
           NEW t, DOMAIN t = DOMAIN s, t = [i \in DOMAIN s |-> t[i]],
           \A i \in DOMAIN s : SettlesTo(s[i], t[i])
    PROVE  t \in Seq(CallRecord)
  <1>1. \A i \in DOMAIN s : s[i] \in CallRecord
    OBVIOUS
  <1>2. \A i \in DOMAIN s : t[i] \in CallRecord
    BY <1>1, SettledCall
  <1>3. DOMAIN s = 1 .. Len(s) /\ Len(s) \in Nat
    OBVIOUS
  <1>4. t \in [1 .. Len(s) -> CallRecord]
    BY <1>2, <1>3
  <1> QED BY <1>3, <1>4

\* If all that happens to the calls is that some are settled, they stay sound.
LEMMA CallsSettle ==
    ASSUME EffectsInv, DOMAIN calls' = Messages,
           calls' = [m \in Messages |-> calls'[m]],
           \A m \in Messages : /\ DOMAIN calls'[m] = DOMAIN calls[m]
                               /\ calls'[m] = [i \in DOMAIN calls[m] |-> calls'[m][i]]
                               /\ \A i \in DOMAIN calls[m] : SettlesTo(calls[m][i], calls'[m][i])
    PROVE  /\ calls' \in [Messages -> Seq(CallRecord)]
           /\ \A m \in Messages : \A i \in DOMAIN calls[m] :
                 /\ CallIsSound(calls'[m][i])
                 /\ calls'[m][i].ran = calls[m][i].ran /\ calls'[m][i].kind = calls[m][i].kind
                 /\ calls'[m][i].status = "REQUESTED" => calls[m][i].status = "REQUESTED"
           /\ \A m \in Messages : calls[m] = <<>> => calls'[m] = <<>>
  <1>1. \A m \in Messages : /\ calls[m] \in Seq(CallRecord)
                            /\ \A i \in DOMAIN calls[m] : CallIsSound(calls[m][i])
    BY DEF EffectsInv, CallsTyped, CallsAreSound
  <1>2. \A m \in Messages : calls'[m] \in Seq(CallRecord)
    BY <1>1, SettledSequence
  <1>3. \A m \in Messages : \A i \in DOMAIN calls[m] : calls[m][i] \in CallRecord
    BY <1>1
  <1>4. \A m \in Messages : \A i \in DOMAIN calls[m] :
           /\ CallIsSound(calls'[m][i])
           /\ calls'[m][i].ran = calls[m][i].ran /\ calls'[m][i].kind = calls[m][i].kind
           /\ calls'[m][i].status = "REQUESTED" => calls[m][i].status = "REQUESTED"
    BY <1>1, <1>3, SettledCall
  <1>5. ASSUME NEW m \in Messages, calls[m] = <<>> PROVE calls'[m] = <<>>
    <2>1. DOMAIN calls'[m] = {} /\ calls'[m] \in Seq(CallRecord)
      BY <1>2, <1>5
    <2> QED BY <2>1
  <1>6. calls' \in [Messages -> Seq(CallRecord)]
    BY <1>2
  <1> QED BY <1>4, <1>5, <1>6

\* The same for the calls of one message.
LEMMA MessageSettles ==
    ASSUME EffectsInv, NEW m \in Messages, NEW t, DOMAIN t = DOMAIN calls[m],
           t = [i \in DOMAIN calls[m] |-> t[i]],
           \A i \in DOMAIN calls[m] : SettlesTo(calls[m][i], t[i]),
           calls' = [calls EXCEPT ![m] = t]
    PROVE  /\ calls' \in [Messages -> Seq(CallRecord)]
           /\ \A n \in Messages : DOMAIN calls'[n] = DOMAIN calls[n]
           /\ \A n \in Messages : \A i \in DOMAIN calls[n] :
                 /\ CallIsSound(calls'[n][i])
                 /\ calls'[n][i].ran = calls[n][i].ran /\ calls'[n][i].kind = calls[n][i].kind
                 /\ calls'[n][i].status = "REQUESTED" => calls[n][i].status = "REQUESTED"
           /\ \A n \in Messages : calls[n] = <<>> => calls'[n] = <<>>
           /\ calls'[m] = t /\ \A n \in Messages \ {m} : calls'[n] = calls[n]
  <1>1. calls \in [Messages -> Seq(CallRecord)]
    BY DEF EffectsInv, CallsTyped
  <1>2. /\ DOMAIN calls' = Messages /\ calls' = [n \in Messages |-> calls'[n]]
        /\ calls'[m] = t /\ \A n \in Messages \ {m} : calls'[n] = calls[n]
    BY <1>1
  <1>3. ASSUME NEW n \in Messages
        PROVE  /\ DOMAIN calls'[n] = DOMAIN calls[n]
               /\ calls'[n] = [i \in DOMAIN calls[n] |-> calls'[n][i]]
               /\ \A i \in DOMAIN calls[n] : SettlesTo(calls[n][i], calls'[n][i])
    <2>1. CASE n = m
      BY <1>2, <2>1
    <2>2. CASE n # m
      <3>1. calls'[n] = calls[n] /\ calls[n] \in Seq(CallRecord)
        BY <1>1, <1>2, <2>2
      <3>2. calls[n] = [i \in DOMAIN calls[n] |-> calls[n][i]]
        BY <3>1
      <3> QED BY <3>1, <3>2 DEF SettlesTo
    <2> QED BY <2>1, <2>2
  <1>4. /\ calls' \in [Messages -> Seq(CallRecord)]
        /\ \A n \in Messages : \A i \in DOMAIN calls[n] :
              /\ CallIsSound(calls'[n][i])
              /\ calls'[n][i].ran = calls[n][i].ran /\ calls'[n][i].kind = calls[n][i].kind
              /\ calls'[n][i].status = "REQUESTED" => calls[n][i].status = "REQUESTED"
        /\ \A n \in Messages : calls[n] = <<>> => calls'[n] = <<>>
    BY <1>2, <1>3, CallsSettle
  <1> QED BY <1>2, <1>3, <1>4

\* One call of a message is settled.
LEMMA OneSettles ==
    ASSUME EffectsInv, NEW m \in Messages, NEW i \in DOMAIN calls[m], NEW d,
           SettlesTo(calls[m][i], d), calls' = [calls EXCEPT ![m] = [@ EXCEPT ![i] = d]]
    PROVE  /\ calls' \in [Messages -> Seq(CallRecord)]
           /\ \A n \in Messages : DOMAIN calls'[n] = DOMAIN calls[n]
           /\ \A n \in Messages : \A j \in DOMAIN calls[n] :
                 /\ CallIsSound(calls'[n][j])
                 /\ calls'[n][j].ran = calls[n][j].ran /\ calls'[n][j].kind = calls[n][j].kind
                 /\ calls'[n][j].status = "REQUESTED" => calls[n][j].status = "REQUESTED"
           /\ \A n \in Messages : calls[n] = <<>> => calls'[n] = <<>>
           /\ calls'[m][i] = d
  <1>1. PICK t : t = [calls[m] EXCEPT ![i] = d]
    OBVIOUS
  <1>2. calls \in [Messages -> Seq(CallRecord)] /\ calls[m] \in Seq(CallRecord)
    BY DEF EffectsInv, CallsTyped
  <1>3. /\ DOMAIN t = DOMAIN calls[m] /\ t = [j \in DOMAIN calls[m] |-> t[j]] /\ t[i] = d
        /\ \A j \in DOMAIN calls[m] \ {i} : t[j] = calls[m][j]
    BY <1>1, <1>2
  <1>4. \A j \in DOMAIN calls[m] : SettlesTo(calls[m][j], t[j])
    BY <1>3 DEF SettlesTo
  <1>5. calls' = [calls EXCEPT ![m] = t]
    BY <1>1
  <1>6. /\ calls' \in [Messages -> Seq(CallRecord)]
        /\ \A n \in Messages : DOMAIN calls'[n] = DOMAIN calls[n]
        /\ \A n \in Messages : \A j \in DOMAIN calls[n] :
              /\ CallIsSound(calls'[n][j])
              /\ calls'[n][j].ran = calls[n][j].ran /\ calls'[n][j].kind = calls[n][j].kind
              /\ calls'[n][j].status = "REQUESTED" => calls[n][j].status = "REQUESTED"
        /\ \A n \in Messages : calls[n] = <<>> => calls'[n] = <<>>
        /\ calls'[m] = t /\ \A n \in Messages \ {m} : calls'[n] = calls[n]
    BY <1>3, <1>4, <1>5, MessageSettles
  <1> QED BY <1>3, <1>6

\* A thread in its turn moves, and calls are added or settled.
LEMMA RoundKeepsEffects ==
    ASSUME SerialInv, EffectsInv, NEW a \in Conversation!Threads, thread[a] \in RoundPlaces,
           NEW p \in RoundPlaces \cup {"answer", "failed", "return"}, thread' = [thread EXCEPT ![a] = p],
           UNCHANGED <<job, resolving>>,
           \A n \in Messages : turn'[n] = turn[n] \/ (n = job[a] /\ turn'[n] # "absent"),
           NEW k \in Nat, base' = [base EXCEPT ![job[a]] = k],
           NEW q \in Seq(Conversation!Kinds), asked' = [asked EXCEPT ![job[a]] = q],
           p = "record" => q # <<>>,
           approval' \in [Messages -> Nat],
           \A n \in Messages : approval'[n] # 0 =>
              approval'[n] = approval[n] \/ (n = job[a] /\ approval'[n] \in DOMAIN calls[n]
                                             /\ calls[n][approval'[n]].kind = "write"),
           calls' \in [Messages -> Seq(CallRecord)],
           \A n \in Messages : /\ DOMAIN calls[n] \subseteq DOMAIN calls'[n]
                               /\ n # job[a] /\ calls[n] = <<>> => calls'[n] = <<>>,
           \A n \in Messages : \A i \in DOMAIN calls[n] :
              /\ CallIsSound(calls'[n][i])
              /\ calls'[n][i].ran = calls[n][i].ran /\ calls'[n][i].kind = calls[n][i].kind
              /\ calls'[n][i].status = "REQUESTED" => calls[n][i].status = "REQUESTED",
           \A n \in Messages : \A i \in DOMAIN calls'[n] \ DOMAIN calls[n] :
              CallIsSound(calls'[n][i]) /\ calls'[n][i].ran = 0,
           p \in RoundPlaces => \A i \in DOMAIN calls'[job[a]] :
              i > k => i > base[job[a]] \/ i \notin DOMAIN calls[job[a]]
    PROVE  EffectsInv'
  <1>1. /\ job[a] \in Messages /\ thread'[a] = p /\ thread[a] \in TurnPlaces
        /\ \A b \in Conversation!Threads \ {a} : thread'[b] = thread[b]
        /\ turn[job[a]] # "absent"
    BY DEF SerialInv, RoundPlaces, TurnPlaces
  <1>2. \A b \in Conversation!Threads \ {a} : thread'[b] \notin TurnPlaces
    BY <1>1, OneWorker
  <1>3. p \notin ApprovalPlaces /\ p \notin BeforeTurn
    BY DEF ApprovalPlaces, RoundPlaces, BeforeTurn
  <1>4. thread["service"] \notin ApprovalPlaces /\ thread'["service"] \notin ApprovalPlaces
    <2>1. \A b \in Conversation!Threads : thread[b] \in ApprovalPlaces => b = a
      <3>1. ApprovalPlaces \subseteq TurnPlaces
        BY DEF TurnPlaces
      <3> QED BY <1>1, <3>1, OneWorker
    <2>2. thread[a] \notin ApprovalPlaces
      BY DEF RoundPlaces, ApprovalPlaces
    <2> QED BY <1>1, <1>3, <2>1, <2>2 DEF Conversation!Threads
  <1>5. CallsTyped'
    <2>1. base' \in [Messages -> Nat] /\ asked' \in [Messages -> Seq(Conversation!Kinds)]
          /\ resolving' \in Messages \cup {0}
      BY <1>1 DEF EffectsInv, CallsTyped
    <2> QED BY <2>1 DEF CallsTyped, CallRecord, Conversation!Kinds
  <1>6. \A n \in Messages : \A i \in DOMAIN calls[n] : calls[n][i].status = "REQUESTED" => calls[n][i].ran # 1
    <2>1. \A n, i : ~ JustExecuted(n, i)
      BY <1>4 DEF JustExecuted, ApprovalPlaces
    <2> QED BY <2>1 DEF EffectsInv, CallsAreSound
  <1>7. CallsAreSound'
    <2>1. \A n \in Messages : \A i \in DOMAIN calls'[n] : CallIsSound(calls'[n][i])
      OBVIOUS
    <2>2. \A n \in Messages : \A i \in DOMAIN calls'[n] :
             ~ (calls'[n][i].status = "REQUESTED" /\ calls'[n][i].ran = 1)
      <3> SUFFICES ASSUME NEW n \in Messages, NEW i \in DOMAIN calls'[n],
                          calls'[n][i].status = "REQUESTED", calls'[n][i].ran = 1
                   PROVE  FALSE
        OBVIOUS
      <3>1. CASE i \in DOMAIN calls[n]
        <4>1. calls[n][i].status = "REQUESTED" /\ calls[n][i].ran = 1
          BY <3>1
        <4> QED BY <1>6, <3>1, <4>1
      <3>2. CASE i \notin DOMAIN calls[n]
        <4>1. calls'[n][i].ran = 0
          BY <3>2
        <4> QED BY <4>1
      <3> QED BY <3>1, <3>2
    <2>3. \A n \in Messages : turn'[n] = "absent" => calls'[n] = <<>>
      BY <1>1 DEF EffectsInv, CallsAreSound
    <2>4. \A n \in Messages : approval'[n] # 0 =>
             approval'[n] \in DOMAIN calls[n] /\ calls[n][approval'[n]].kind = "write"
      <3>1. \A n \in Messages : approval[n] # 0 =>
               approval[n] \in DOMAIN calls[n] /\ calls[n][approval[n]].kind = "write"
        BY DEF EffectsInv, CallsAreSound
      <3> QED BY <3>1
    <2>5. \A n \in Messages : approval'[n] # 0 =>
             approval'[n] \in DOMAIN calls'[n] /\ calls'[n][approval'[n]].kind = "write"
      <3>1. \A n \in Messages : \A i \in DOMAIN calls[n] :
               i \in DOMAIN calls'[n] /\ calls'[n][i].kind = calls[n][i].kind
        BY Zenon
      <3>2. ASSUME NEW n \in Messages, NEW i, i \in DOMAIN calls[n] /\ calls[n][i].kind = "write"
            PROVE  i \in DOMAIN calls'[n] /\ calls'[n][i].kind = "write"
        <4>1. i \in DOMAIN calls'[n] /\ calls'[n][i].kind = calls[n][i].kind
          BY <3>1, <3>2, Zenon
        <4> QED BY <3>2, <4>1
      <3>3. ASSUME NEW n \in Messages, approval'[n] # 0
            PROVE  approval'[n] \in DOMAIN calls'[n] /\ calls'[n][approval'[n]].kind = "write"
        <4> DEFINE i == approval'[n]
        <4>1. i \in DOMAIN calls[n] /\ calls[n][i].kind = "write"
          BY <2>4, <3>3, Zenon
        <4> HIDE DEF i
        <4>2. i \in DOMAIN calls'[n] /\ calls'[n][i].kind = "write"
          BY <3>2, <4>1
        <4> QED BY <4>2 DEF i
      <3> QED BY <3>3
    <2> QED BY <2>1, <2>2, <2>3, <2>5 DEF CallsAreSound, CallIsSound
  <1>8. ThreadsAreSound'
    <2>1. ASSUME NEW b \in Conversation!Threads, thread'[b] \in BeforeTurn
          PROVE  turn'[job[b]] = "absent" /\ \A c \in Conversation!Threads \ {b} : job[c] # job[b]
      <3>1. b # a /\ thread[b] \in BeforeTurn
        BY <1>1, <1>3, <2>1
      <3>2. turn[job[b]] = "absent" /\ \A c \in Conversation!Threads \ {b} : job[c] # job[b]
        BY <3>1 DEF EffectsInv, ThreadsAreSound
      <3>3. job[b] \in Messages
        BY <3>1 DEF SerialInv, BeforeTurn
      <3> QED BY <3>1, <3>2, <3>3
    <2>2. ASSUME NEW b \in Conversation!Threads, thread'[b] \in RoundPlaces
          PROVE  \A i \in DOMAIN calls'[job[b]] : i > base'[job[b]] => calls'[job[b]][i].ran = 0
      <3>1. b = a /\ p \in RoundPlaces
        BY <1>1, <1>2, <2>2 DEF TurnPlaces
      <3>2. base'[job[a]] = k
        BY <1>1 DEF EffectsInv, CallsTyped
      <3>3. \A i \in DOMAIN calls[job[a]] : i > base[job[a]] => calls[job[a]][i].ran = 0
        BY DEF EffectsInv, ThreadsAreSound
      <3>4. ASSUME NEW i \in DOMAIN calls'[job[a]], i > k PROVE calls'[job[a]][i].ran = 0
        <4>1. i > base[job[a]] \/ i \notin DOMAIN calls[job[a]]
          BY <3>1, <3>4
        <4>2. CASE i \in DOMAIN calls[job[a]]
          <5>1. calls[job[a]][i].ran = 0
            BY <3>3, <4>1, <4>2
          <5>2. calls'[job[a]][i].ran = calls[job[a]][i].ran
            BY <1>1, <4>2
          <5> QED BY <5>1, <5>2
        <4>3. CASE i \notin DOMAIN calls[job[a]]
          BY <1>1, <4>3
        <4> QED BY <4>2, <4>3
      <3> QED BY <3>1, <3>2, <3>4
    <2>3. ASSUME NEW b \in Conversation!Threads, thread'[b] = "record" PROVE asked'[job[b]] # <<>>
      <3>1. b = a
        BY <1>2, <2>3 DEF TurnPlaces, RoundPlaces
      <3> QED BY <1>1, <2>3, <3>1 DEF EffectsInv, CallsTyped
    <2>4. thread'["service"] \notin {"approved", "denied"}
      BY <1>4 DEF ApprovalPlaces
    <2> QED BY <1>4, <2>1, <2>2, <2>3, <2>4
            DEF ThreadsAreSound, BeforeTurn, RoundPlaces, ApprovalPlaces, Conversation!Threads
  <1> QED BY <1>5, <1>7, <1>8 DEF EffectsInv

\* A call is recorded as requested, and nothing has run.
LEMMA RecordCallKeepsEffects ==
    ASSUME SerialInv, EffectsInv, NEW a \in Conversation!Threads, Conversation!RecordCall(a)
    PROVE  EffectsInv'
  <1> USE DEF Conversation!Goto, Conversation!Commits, Conversation!memory
  <1>1. /\ thread[a] = "record" /\ UNCHANGED <<turn, job, base, approval, resolving>>
        /\ \/ /\ calls' = [calls EXCEPT ![job[a]] = Append(@, Conversation!Call(Head(asked[job[a]])))]
              /\ asked' = [asked EXCEPT ![job[a]] = Tail(@)]
              /\ thread' = [thread EXCEPT ![a] = IF Len(asked[job[a]]) = 1 THEN "batch" ELSE "record"]
           \/ thread' = [thread EXCEPT ![a] = "failed"] /\ UNCHANGED <<calls, asked>>
    BY DEF Conversation!RecordCall
  <1>2. /\ job[a] \in Messages /\ asked[job[a]] \in Seq(Conversation!Kinds) /\ asked[job[a]] # <<>>
        /\ thread[a] \in RoundPlaces /\ base[job[a]] \in Nat /\ base = [base EXCEPT ![job[a]] = base[job[a]]]
        /\ approval \in [Messages -> Nat] /\ calls \in [Messages -> Seq(CallRecord)]
        /\ asked \in [Messages -> Seq(Conversation!Kinds)]
    BY <1>1 DEF SerialInv, EffectsInv, CallsTyped, ThreadsAreSound, RoundPlaces
  <1>3. \A n \in Messages : \A i \in DOMAIN calls[n] : CallIsSound(calls[n][i])
    BY DEF EffectsInv, CallsAreSound
  <1>4. CASE thread' = [thread EXCEPT ![a] = "failed"] /\ UNCHANGED <<calls, asked>>
    <2>1. asked' = [asked EXCEPT ![job[a]] = asked[job[a]]]
      BY <1>2, <1>4
    <2>2. thread[a] # "idle" /\ thread[a] \notin ApprovalPlaces
      BY <1>1 DEF ApprovalPlaces
    <2>3. "failed" \notin ApprovalPlaces /\ "failed" \notin BeforeTurn /\ "failed" \notin RoundPlaces
      BY DEF ApprovalPlaces, BeforeTurn, RoundPlaces
    <2> QED BY <1>1, <1>2, <1>4, <2>1, <2>2, <2>3, EffectsMoves
  <1>5. CASE /\ calls' = [calls EXCEPT ![job[a]] = Append(@, Conversation!Call(Head(asked[job[a]])))]
             /\ asked' = [asked EXCEPT ![job[a]] = Tail(@)]
             /\ thread' = [thread EXCEPT ![a] = IF Len(asked[job[a]]) = 1 THEN "batch" ELSE "record"]
    <2>1. PICK c : c = Conversation!Call(Head(asked[job[a]]))
      OBVIOUS
    <2>2. c \in CallRecord /\ CallIsSound(c) /\ c.ran = 0
      <3>1. Head(asked[job[a]]) \in Conversation!Kinds
        BY <1>2
      <3> QED BY <2>1, <3>1 DEF Conversation!Call, CallRecord, CallIsSound
    <2>3. PICK s : s = Append(calls[job[a]], c)
      OBVIOUS
    <2>4. /\ s \in Seq(CallRecord) /\ DOMAIN calls[job[a]] \subseteq DOMAIN s
          /\ \A i \in DOMAIN calls[job[a]] : s[i] = calls[job[a]][i]
          /\ \A i \in DOMAIN s \ DOMAIN calls[job[a]] : s[i] = c
      <3>1. calls[job[a]] \in Seq(CallRecord)
        BY <1>2
      <3>2. /\ s \in Seq(CallRecord) /\ Len(s) = Len(calls[job[a]]) + 1 /\ Len(calls[job[a]]) \in Nat
            /\ \A i \in 1 .. Len(calls[job[a]]) : s[i] = calls[job[a]][i]
            /\ s[Len(calls[job[a]]) + 1] = c
        BY <2>2, <2>3, <3>1
      <3>3. DOMAIN s = 1 .. (Len(calls[job[a]]) + 1) /\ DOMAIN calls[job[a]] = 1 .. Len(calls[job[a]])
        BY <3>1, <3>2
      <3> QED BY <3>2, <3>3
    <2>5. calls' = [calls EXCEPT ![job[a]] = s]
      BY <1>5, <2>1, <2>3
    <2>6. /\ calls' \in [Messages -> Seq(CallRecord)] /\ calls'[job[a]] = s
          /\ \A n \in Messages \ {job[a]} : calls'[n] = calls[n]
      BY <1>2, <2>4, <2>5
    <2>7. PICK q : q = Tail(asked[job[a]])
      OBVIOUS
    <2>8. q \in Seq(Conversation!Kinds) /\ asked' = [asked EXCEPT ![job[a]] = q]
          /\ (Len(asked[job[a]]) # 1 => q # <<>>)
      <3>1. q \in Seq(Conversation!Kinds) /\ Len(q) = Len(asked[job[a]]) - 1
        BY <1>2, <2>7
      <3>2. Len(asked[job[a]]) # 1 => q # <<>>
        <4>1. Len(asked[job[a]]) \in Nat
          BY <1>2
        <4>2. q = <<>> => Len(q) = 0
          OBVIOUS
        <4>3. Len(asked[job[a]]) # 1 => Len(q) # 0
          BY <3>1, <4>1
        <4> QED BY <4>2, <4>3, Zenon
      <3>3. asked' = [asked EXCEPT ![job[a]] = q]
        BY <1>5, <2>7
      <3> QED BY <3>1, <3>2, <3>3
    <2>9. PICK p \in {"batch", "record"} :
             thread' = [thread EXCEPT ![a] = p] /\ (p = "record" => q # <<>>)
      BY <1>5, <2>8
    <2>10. p \in RoundPlaces
      BY DEF RoundPlaces
    <2>11. \A n \in Messages : /\ DOMAIN calls[n] \subseteq DOMAIN calls'[n]
                               /\ n # job[a] /\ calls[n] = <<>> => calls'[n] = <<>>
      BY <2>4, <2>6
    <2>12. \A n \in Messages : \A i \in DOMAIN calls[n] : calls'[n][i] = calls[n][i]
      BY <2>4, <2>6
    <2>13. \A n \in Messages : \A i \in DOMAIN calls[n] :
              /\ CallIsSound(calls'[n][i])
              /\ calls'[n][i].ran = calls[n][i].ran /\ calls'[n][i].kind = calls[n][i].kind
              /\ calls'[n][i].status = "REQUESTED" => calls[n][i].status = "REQUESTED"
      BY <1>3, <2>12
    <2>14. \A n \in Messages : \A i \in DOMAIN calls'[n] \ DOMAIN calls[n] :
              CallIsSound(calls'[n][i]) /\ calls'[n][i].ran = 0
      BY <2>2, <2>4, <2>6
    <2>15. base' = [base EXCEPT ![job[a]] = base[job[a]]]
      BY <1>1, <1>2
    <2>16. /\ UNCHANGED <<job, resolving>> /\ p \in RoundPlaces \cup {"answer", "failed", "return"}
           /\ \A n \in Messages : turn'[n] = turn[n] \/ (n = job[a] /\ turn'[n] # "absent")
           /\ approval' \in [Messages -> Nat]
           /\ \A n \in Messages : approval'[n] # 0 =>
                 approval'[n] = approval[n] \/ (n = job[a] /\ approval'[n] \in DOMAIN calls[n]
                                                /\ calls[n][approval'[n]].kind = "write")
           /\ \A i \in DOMAIN calls'[job[a]] :
                 i > base[job[a]] => i > base[job[a]] \/ i \notin DOMAIN calls[job[a]]
      BY <1>1, <1>2, <2>10
    <2> QED BY <1>2, <2>6, <2>8, <2>9, <2>11, <2>13, <2>14, <2>15, <2>16, RoundKeepsEffects, ZenonT(60)
  <1> QED BY <1>1, <1>4, <1>5

\* The calls of the round are settled, none of which has run.
LEMMA SettleRoundKeepsEffects ==
    ASSUME SerialInv, EffectsInv, NEW a \in Conversation!Threads, Conversation!SettleRound(a)
    PROVE  EffectsInv'
  <1> USE DEF Conversation!Goto, Conversation!Commits, Conversation!memory
  <1>1. thread[a] = "settle" /\ UNCHANGED <<turn, job, asked, approval, resolving>>
    BY DEF Conversation!SettleRound
  <1>2. /\ job[a] \in Messages /\ thread[a] \in RoundPlaces
        /\ base \in [Messages -> Nat] /\ approval \in [Messages -> Nat]
        /\ calls[job[a]] \in Seq(CallRecord) /\ asked[job[a]] \in Seq(Conversation!Kinds)
        /\ asked = [asked EXCEPT ![job[a]] = asked[job[a]]]
    BY <1>1 DEF SerialInv, EffectsInv, CallsTyped, RoundPlaces
  <1>3. \A i \in Conversation!ThisRound(job[a]) : calls[job[a]][i].ran = 0
    BY <1>2 DEF EffectsInv, ThreadsAreSound, Conversation!ThisRound
  <1>4. PICK state \in {"COMPLETED", "FAILED"} :
           calls' = [calls EXCEPT ![job[a]] = [i \in DOMAIN @ |->
              IF i \notin Conversation!ThisRound(job[a]) \ Conversation!ApprovalCalls(job[a]) THEN @[i]
              ELSE IF \E b \in Conversation!Blockers(job[a]) : b <= i
                   THEN Conversation!Settled(@[i], "FAILED", "not run")
              ELSE Conversation!Settled(@[i], state, "result")]]
    BY DEF Conversation!SettleRound
  <1>5. PICK t : t = [i \in DOMAIN calls[job[a]] |->
              IF i \notin Conversation!ThisRound(job[a]) \ Conversation!ApprovalCalls(job[a])
              THEN calls[job[a]][i]
              ELSE IF \E b \in Conversation!Blockers(job[a]) : b <= i
                   THEN Conversation!Settled(calls[job[a]][i], "FAILED", "not run")
              ELSE Conversation!Settled(calls[job[a]][i], state, "result")]
    OBVIOUS
  <1>6. calls' = [calls EXCEPT ![job[a]] = t]
    BY <1>4, <1>5
  <1>7. DOMAIN t = DOMAIN calls[job[a]] /\ t = [i \in DOMAIN calls[job[a]] |-> t[i]]
    BY <1>5
  <1>8. ASSUME NEW i \in DOMAIN calls[job[a]] PROVE SettlesTo(calls[job[a]][i], t[i])
    <2>1. CASE i \notin Conversation!ThisRound(job[a]) \ Conversation!ApprovalCalls(job[a])
      <3>1. t[i] = calls[job[a]][i]
        BY <1>5, <2>1, Zenon
      <3> QED BY <3>1 DEF SettlesTo
    <2>2. CASE i \in Conversation!ThisRound(job[a])
      <3>1. calls[job[a]][i].ran = 0
        BY <1>3, <2>2
      <3>2. t[i] \in {calls[job[a]][i], Conversation!Settled(calls[job[a]][i], "FAILED", "not run"),
                      Conversation!Settled(calls[job[a]][i], state, "result")}
        BY <1>5, Zenon
      <3> QED BY <3>1, <3>2, Zenon DEF SettlesTo
    <2> QED BY <2>1, <2>2
  <1> HIDE <1>4, <1>5
  <1>9. /\ calls' \in [Messages -> Seq(CallRecord)]
        /\ \A n \in Messages : DOMAIN calls'[n] = DOMAIN calls[n]
        /\ \A n \in Messages : \A i \in DOMAIN calls[n] :
              /\ CallIsSound(calls'[n][i])
              /\ calls'[n][i].ran = calls[n][i].ran /\ calls'[n][i].kind = calls[n][i].kind
              /\ calls'[n][i].status = "REQUESTED" => calls[n][i].status = "REQUESTED"
        /\ \A n \in Messages : calls[n] = <<>> => calls'[n] = <<>>
    BY <1>2, <1>6, <1>7, <1>8, MessageSettles, Zenon
  <1>10. /\ \A n \in Messages : /\ DOMAIN calls[n] \subseteq DOMAIN calls'[n]
                                /\ n # job[a] /\ calls[n] = <<>> => calls'[n] = <<>>
         /\ \A n \in Messages : \A i \in DOMAIN calls'[n] \ DOMAIN calls[n] :
               CallIsSound(calls'[n][i]) /\ calls'[n][i].ran = 0
         /\ \A n \in Messages : turn'[n] = turn[n] \/ (n = job[a] /\ turn'[n] # "absent")
         /\ approval' \in [Messages -> Nat]
         /\ \A n \in Messages : approval'[n] # 0 =>
               approval'[n] = approval[n] \/ (n = job[a] /\ approval'[n] \in DOMAIN calls[n]
                                              /\ calls[n][approval'[n]].kind = "write")
         /\ UNCHANGED <<job, resolving>> /\ asked' = [asked EXCEPT ![job[a]] = asked[job[a]]]
    BY <1>1, <1>2, <1>9
  <1>11. PICK p \in {"pause", "round"}, k \in {base[job[a]], Len(calls[job[a]])} :
            thread' = [thread EXCEPT ![a] = p] /\ base' = [base EXCEPT ![job[a]] = k]
    <2>1. \/ thread' = [thread EXCEPT ![a] = "pause"] /\ base' = base
          \/ /\ thread' = [thread EXCEPT ![a] = "round"]
             /\ base' = [base EXCEPT ![job[a]] = Len(calls[job[a]])]
      BY DEF Conversation!SettleRound
    <2>2. base = [base EXCEPT ![job[a]] = base[job[a]]]
      BY <1>2
    <2> QED BY <2>1, <2>2, Zenon
  <1>12. /\ k \in Nat /\ p \in RoundPlaces \cup {"answer", "failed", "return"} /\ p # "record"
         /\ \A i \in DOMAIN calls'[job[a]] :
               i > k => i > base[job[a]] \/ i \notin DOMAIN calls[job[a]]
    <2>1. Len(calls[job[a]]) \in Nat /\ DOMAIN calls[job[a]] = 1 .. Len(calls[job[a]])
      BY <1>2
    <2> QED BY <1>2, <1>11, <2>1 DEF RoundPlaces
  <1> QED BY <1>2, <1>9, <1>10, <1>11, <1>12, RoundKeepsEffects, Zenon

\* The call to approve is retained for the user, or rejected before it has run.
LEMMA PauseKeepsEffects ==
    ASSUME SerialInv, EffectsInv, NEW a \in Conversation!Threads, Conversation!Pause(a)
    PROVE  EffectsInv'
  <1> USE DEF Conversation!Goto, Conversation!Ends, Conversation!Commits, Conversation!loop
  <1>1. thread[a] = "pause" /\ UNCHANGED <<job, base, asked, resolving>>
    BY DEF Conversation!Pause
  <1>2. /\ job[a] \in Messages /\ thread[a] \in RoundPlaces
        /\ turn \in [Messages -> Conversation!Active \cup Conversation!Terminal \cup {"absent"}]
        /\ base \in [Messages -> Nat] /\ approval \in [Messages -> Nat]
        /\ calls \in [Messages -> Seq(CallRecord)]
        /\ calls[job[a]] \in Seq(CallRecord) /\ asked[job[a]] \in Seq(Conversation!Kinds)
        /\ asked = [asked EXCEPT ![job[a]] = asked[job[a]]] /\ base = [base EXCEPT ![job[a]] = base[job[a]]]
    BY <1>1 DEF SerialInv, EffectsInv, CallsTyped, RoundPlaces
  <1>3. PICK i \in Conversation!ApprovalCalls(job[a]) :
          \/ /\ turn' = [turn EXCEPT ![job[a]] = "WAITING_APPROVAL"]
             /\ approval' = [approval EXCEPT ![job[a]] = i]
             /\ thread' = [thread EXCEPT ![a] = "return"] /\ UNCHANGED calls
          \/ /\ calls' = [calls EXCEPT ![job[a]][i] = Conversation!Settled(@, "FAILED", "not run")]
             /\ thread' = [thread EXCEPT ![a] = "answer"] /\ UNCHANGED <<turn, approval>>
    BY DEF Conversation!Pause
  <1>4. /\ i \in DOMAIN calls[job[a]] /\ i > base[job[a]] /\ calls[job[a]][i].kind = "write"
    BY <1>3 DEF Conversation!ApprovalCalls, Conversation!Blockers, Conversation!ThisRound
  <1>5. calls[job[a]][i].ran = 0
    BY <1>2, <1>4 DEF EffectsInv, ThreadsAreSound
  <1>6. \A n \in Messages : \A j \in DOMAIN calls[n] : CallIsSound(calls[n][j])
    BY DEF EffectsInv, CallsAreSound
  <1>7. /\ UNCHANGED <<job, resolving>> /\ asked' = [asked EXCEPT ![job[a]] = asked[job[a]]]
        /\ base' = [base EXCEPT ![job[a]] = base[job[a]]] /\ base[job[a]] \in Nat
    BY <1>1, <1>2
  <1>8. CASE /\ turn' = [turn EXCEPT ![job[a]] = "WAITING_APPROVAL"]
             /\ approval' = [approval EXCEPT ![job[a]] = i]
             /\ thread' = [thread EXCEPT ![a] = "return"] /\ UNCHANGED calls
    <2>1. "return" \in RoundPlaces \cup {"answer", "failed", "return"} /\ "return" # "record"
          /\ "return" \notin RoundPlaces
      BY DEF RoundPlaces
    <2>2. \A n \in Messages : turn'[n] = turn[n] \/ (n = job[a] /\ turn'[n] # "absent")
      BY <1>2, <1>8
    <2>3. i \in Nat
      BY <1>2, <1>4
    <2>4. /\ approval' \in [Messages -> Nat]
          /\ \A n \in Messages : approval'[n] # 0 =>
                approval'[n] = approval[n] \/ (n = job[a] /\ approval'[n] \in DOMAIN calls[n]
                                               /\ calls[n][approval'[n]].kind = "write")
      BY <1>2, <1>4, <1>8, <2>3
    <2>5. /\ calls' \in [Messages -> Seq(CallRecord)]
          /\ \A n \in Messages : /\ DOMAIN calls[n] \subseteq DOMAIN calls'[n]
                                 /\ n # job[a] /\ calls[n] = <<>> => calls'[n] = <<>>
          /\ \A n \in Messages : \A j \in DOMAIN calls[n] :
                /\ CallIsSound(calls'[n][j])
                /\ calls'[n][j].ran = calls[n][j].ran /\ calls'[n][j].kind = calls[n][j].kind
                /\ calls'[n][j].status = "REQUESTED" => calls[n][j].status = "REQUESTED"
          /\ \A n \in Messages : \A j \in DOMAIN calls'[n] \ DOMAIN calls[n] :
                CallIsSound(calls'[n][j]) /\ calls'[n][j].ran = 0
      BY <1>2, <1>6, <1>8
    <2>6. PICK p \in RoundPlaces \cup {"answer", "failed", "return"} :
             thread' = [thread EXCEPT ![a] = p] /\ p # "record" /\ p \notin RoundPlaces
      BY <1>8, <2>1
    <2>7. PICK k \in Nat : base' = [base EXCEPT ![job[a]] = k]
      BY <1>7
    <2>8. PICK q \in Seq(Conversation!Kinds) : asked' = [asked EXCEPT ![job[a]] = q]
      BY <1>2, <1>7
    <2>9. thread[a] \in RoundPlaces /\ UNCHANGED <<job, resolving>>
      BY <1>2, <1>7
    <2> QED BY <2>2, <2>4, <2>5, <2>6, <2>7, <2>8, <2>9, RoundKeepsEffects, Zenon
  <1>9. CASE /\ calls' = [calls EXCEPT ![job[a]][i] = Conversation!Settled(@, "FAILED", "not run")]
             /\ thread' = [thread EXCEPT ![a] = "answer"] /\ UNCHANGED <<turn, approval>>
    <2>1. "answer" \in RoundPlaces \cup {"answer", "failed", "return"} /\ "answer" # "record"
          /\ "answer" \notin RoundPlaces
      BY DEF RoundPlaces
    <2>2. PICK d : d = Conversation!Settled(calls[job[a]][i], "FAILED", "not run")
      OBVIOUS
    <2>3. SettlesTo(calls[job[a]][i], d)
      BY <1>5, <2>2 DEF SettlesTo
    <2>4. calls' = [calls EXCEPT ![job[a]] = [@ EXCEPT ![i] = d]]
      BY <1>9, <2>2, Zenon
    <2>5. /\ calls' \in [Messages -> Seq(CallRecord)]
          /\ \A n \in Messages : DOMAIN calls'[n] = DOMAIN calls[n]
          /\ \A n \in Messages : \A j \in DOMAIN calls[n] :
                /\ CallIsSound(calls'[n][j])
                /\ calls'[n][j].ran = calls[n][j].ran /\ calls'[n][j].kind = calls[n][j].kind
                /\ calls'[n][j].status = "REQUESTED" => calls[n][j].status = "REQUESTED"
          /\ \A n \in Messages : calls[n] = <<>> => calls'[n] = <<>>
          /\ calls'[job[a]][i] = d
      BY <1>2, <1>4, <2>3, <2>4, OneSettles, Zenon
    <2>6. /\ \A n \in Messages : /\ DOMAIN calls[n] \subseteq DOMAIN calls'[n]
                                 /\ n # job[a] /\ calls[n] = <<>> => calls'[n] = <<>>
          /\ \A n \in Messages : \A j \in DOMAIN calls'[n] \ DOMAIN calls[n] :
                CallIsSound(calls'[n][j]) /\ calls'[n][j].ran = 0
      BY <2>5
    <2>7. /\ \A n \in Messages : turn'[n] = turn[n] \/ (n = job[a] /\ turn'[n] # "absent")
          /\ approval' \in [Messages -> Nat]
          /\ \A n \in Messages : approval'[n] # 0 =>
                approval'[n] = approval[n] \/ (n = job[a] /\ approval'[n] \in DOMAIN calls[n]
                                               /\ calls[n][approval'[n]].kind = "write")
      BY <1>2, <1>9
    <2>8. PICK p \in RoundPlaces \cup {"answer", "failed", "return"} :
             thread' = [thread EXCEPT ![a] = p] /\ p # "record" /\ p \notin RoundPlaces
      BY <1>9, <2>1
    <2>9. PICK k \in Nat : base' = [base EXCEPT ![job[a]] = k]
      BY <1>7
    <2>10. PICK q \in Seq(Conversation!Kinds) : asked' = [asked EXCEPT ![job[a]] = q]
      BY <1>2, <1>7
    <2>11. thread[a] \in RoundPlaces /\ UNCHANGED <<job, resolving>>
      BY <1>2, <1>7
    <2> QED BY <2>5, <2>6, <2>7, <2>8, <2>9, <2>10, <2>11, RoundKeepsEffects, Zenon
  <1> QED BY <1>3, <1>8, <1>9

LEMMA NoCalls == ASSUME NEW s \in Seq(CallRecord), DOMAIN s = {} PROVE s = <<>>
  OBVIOUS

\* What the service knows while it resolves a call.
LEMMA Resolving ==
    ASSUME SerialInv, EffectsInv, thread["service"] \in ApprovalPlaces
    PROVE  /\ resolving \in Messages /\ resolving = job["service"]
           /\ approval[resolving] \in DOMAIN calls[resolving]
           /\ calls[resolving][approval[resolving]] \in CallRecord
           /\ calls[resolving][approval[resolving]].kind = "write"
           /\ CallIsSound(calls[resolving][approval[resolving]])
           /\ thread["service"] \in {"approved", "denied"} =>
                 /\ calls[resolving][approval[resolving]].status = "REQUESTED"
                 /\ calls[resolving][approval[resolving]].ran = 0
           /\ thread["run"] \notin TurnPlaces
  <1>1. "service" \in Conversation!Threads /\ "run" \in Conversation!Threads /\ "run" # "service"
    BY DEF Conversation!Threads
  <1>2. resolving = job["service"] /\ resolving # 0 /\ approval[resolving] # 0
    BY DEF EffectsInv, ThreadsAreSound
  <1>3. resolving \in Messages
    BY <1>2 DEF EffectsInv, CallsTyped
  <1>4. /\ approval[resolving] \in DOMAIN calls[resolving]
        /\ calls[resolving][approval[resolving]].kind = "write"
    BY <1>2, <1>3 DEF EffectsInv, CallsAreSound
  <1>5. calls[resolving][approval[resolving]] \in CallRecord
    <2>1. calls[resolving] \in Seq(CallRecord)
      BY <1>3 DEF EffectsInv, CallsTyped
    <2> QED BY <1>4, <2>1
  <1>6. CallIsSound(calls[resolving][approval[resolving]])
    BY <1>3, <1>4 DEF EffectsInv, CallsAreSound
  <1>7. ASSUME thread["service"] \in {"approved", "denied"}
        PROVE  /\ calls[resolving][approval[resolving]].status = "REQUESTED"
               /\ calls[resolving][approval[resolving]].ran = 0
    <2>1. calls[resolving][approval[resolving]].status = "REQUESTED"
      BY <1>7 DEF EffectsInv, ThreadsAreSound
    <2>2. ~ JustExecuted(resolving, approval[resolving])
      BY <1>7 DEF JustExecuted
    <2>3. calls[resolving][approval[resolving]].ran # 1
      BY <1>3, <1>4, <2>1, <2>2 DEF EffectsInv, CallsAreSound
    <2>4. calls[resolving][approval[resolving]].ran \in {0, 1}
      BY <1>5 DEF CallRecord
    <2> QED BY <2>1, <2>3, <2>4
  <1>8. thread["run"] \notin TurnPlaces
    <2>1. thread["service"] \in TurnPlaces
      BY DEF TurnPlaces
    <2> QED BY <1>1, <2>1, OneWorker
  <1> QED BY <1>2, <1>3, <1>4, <1>5, <1>6, <1>7, <1>8

\* The action runs for the first time: the call is requested still, and has not run.
LEMMA ExecuteKeepsEffects ==
    ASSUME SerialInv, EffectsInv, NEW m \in Messages, Conversation!Execute(m)
    PROVE  EffectsInv'
  <1> USE DEF Conversation!Goto, Conversation!loop, Conversation!memory
  <1>1. /\ thread["service"] = "approved" /\ resolving = m
        /\ UNCHANGED <<turn, job, base, asked, approval, resolving>>
    BY DEF Conversation!Execute
  <1>2. /\ m \in Messages /\ resolving = job["service"] /\ approval[m] \in DOMAIN calls[m]
        /\ calls[m][approval[m]] \in CallRecord /\ calls[m][approval[m]].kind = "write"
        /\ CallIsSound(calls[m][approval[m]])
        /\ calls[m][approval[m]].status = "REQUESTED" /\ calls[m][approval[m]].ran = 0
        /\ thread["run"] \notin TurnPlaces
    BY <1>1, Resolving DEF ApprovalPlaces
  <1>3. PICK p \in {"denied", "result", "unknown"}, effect \in {0, 1} :
           /\ thread' = [thread EXCEPT !["service"] = p]
           /\ p = "denied" => UNCHANGED calls
           /\ p # "denied" => calls' = [calls EXCEPT ![m][approval[m]].ran = @ + effect]
    BY Zenon DEF Conversation!Execute
  <1>4. PICK c : c = calls[m][approval[m]]
    OBVIOUS
  <1>5. PICK d \in CallRecord :
           /\ calls' = [calls EXCEPT ![m] = [@ EXCEPT ![approval[m]] = d]]
           /\ d.kind = "write" /\ d.status = "REQUESTED" /\ d.said = "nothing"
           /\ p = "denied" => d.ran = 0
    <2>0. calls \in [Messages -> Seq(CallRecord)] /\ calls[m] \in Seq(CallRecord)
      BY DEF EffectsInv, CallsTyped
    <2>1. CASE p = "denied"
      <3>1. calls[m] = [calls[m] EXCEPT ![approval[m]] = c]
        BY <1>2, <1>4, <2>0
      <3>2. calls = [calls EXCEPT ![m] = [calls[m] EXCEPT ![approval[m]] = c]]
        BY <2>0, <3>1
      <3>3. c \in CallRecord /\ c.kind = "write" /\ c.status = "REQUESTED" /\ c.said = "nothing" /\ c.ran = 0
        BY <1>2, <1>4 DEF CallIsSound
      <3> QED BY <1>3, <2>1, <3>2, <3>3
    <2>2. CASE p # "denied"
      <3>1. PICK d : d = [c EXCEPT !.ran = c.ran + effect]
        OBVIOUS
      <3>2. c \in CallRecord /\ c.kind = "write" /\ c.status = "REQUESTED" /\ c.said = "nothing" /\ c.ran = 0
        BY <1>2, <1>4 DEF CallIsSound
      <3>3. d \in CallRecord /\ d.kind = c.kind /\ d.status = c.status /\ d.said = c.said
        <4>1. d = [c EXCEPT !.ran = effect]
          BY <3>1, <3>2
        <4> HIDE <1>3
        <4> QED BY <3>2, <4>1 DEF CallRecord
      <3>4. calls' = [calls EXCEPT ![m] = [@ EXCEPT ![approval[m]] = d]]
        BY <1>3, <1>4, <2>2, <3>1, Zenon
      <3> QED BY <2>2, <3>2, <3>3, <3>4
    <2> QED BY <2>1, <2>2
  <1>6. CallIsSound(d)
    BY <1>5 DEF CallIsSound
  <1>7. /\ calls' \in [Messages -> Seq(CallRecord)] /\ calls'[m][approval[m]] = d
        /\ \A n \in Messages : DOMAIN calls'[n] = DOMAIN calls[n]
        /\ \A n \in Messages : \A i \in DOMAIN calls[n] :
              n # m \/ i # approval[m] => calls'[n][i] = calls[n][i]
    <2>1. calls \in [Messages -> Seq(CallRecord)] /\ calls[m] \in Seq(CallRecord)
      BY DEF EffectsInv, CallsTyped
    <2>2. PICK t : t = [calls[m] EXCEPT ![approval[m]] = d]
      OBVIOUS
    <2>3. /\ t \in Seq(CallRecord) /\ DOMAIN t = DOMAIN calls[m] /\ t[approval[m]] = d
          /\ \A i \in DOMAIN calls[m] \ {approval[m]} : t[i] = calls[m][i]
      BY <1>2, <2>1, <2>2
    <2>4. calls' = [calls EXCEPT ![m] = t]
      BY <1>5, <2>2
    <2>5. /\ calls' \in [Messages -> Seq(CallRecord)] /\ calls'[m] = t
          /\ \A n \in Messages \ {m} : calls'[n] = calls[n]
      BY <2>1, <2>3, <2>4
    <2> QED BY <2>3, <2>5
  <1>8. thread'["service"] = p /\ thread'["run"] = thread["run"]
    BY <1>3 DEF SerialInv, Conversation!Threads
  <1>9. CallsTyped'
    BY <1>1, <1>7 DEF EffectsInv, CallsTyped, CallRecord, Conversation!Kinds
  <1>10. CallsAreSound'
    <2>1. \A n \in Messages : \A i \in DOMAIN calls'[n] : CallIsSound(calls'[n][i])
      <3>1. \A n \in Messages : \A i \in DOMAIN calls[n] : CallIsSound(calls[n][i])
        BY DEF EffectsInv, CallsAreSound
      <3> QED BY <1>6, <1>7, <3>1
    <2>2. ASSUME NEW n \in Messages, NEW i \in DOMAIN calls'[n],
                 calls'[n][i].status = "REQUESTED", calls'[n][i].ran = 1
          PROVE  JustExecuted(n, i)'
      <3>1. CASE n = m /\ i = approval[m]
        <4>1. p \in {"result", "unknown"}
          BY <1>5, <1>7, <2>2, <3>1
        <4>2. thread'["service"] \in {"result", "unknown"} /\ resolving' = n /\ i = approval'[n]
          BY <1>1, <1>8, <3>1, <4>1
        <4> QED BY <4>2 DEF JustExecuted
      <3>2. CASE n # m \/ i # approval[m]
        <4>1. calls[n][i].status = "REQUESTED" /\ calls[n][i].ran = 1 /\ i \in DOMAIN calls[n]
          BY <1>7, <2>2, <3>2
        <4>2. JustExecuted(n, i)
          BY <4>1 DEF EffectsInv, CallsAreSound
        <4> QED BY <1>1, <4>2 DEF JustExecuted
      <3> QED BY <3>1, <3>2
    <2>3. \A n \in Messages : turn'[n] = "absent" => calls'[n] = <<>>
      <3>1. ASSUME NEW n \in Messages, turn[n] = "absent" PROVE calls'[n] = <<>>
        <4>1. calls[n] = <<>>
          BY <3>1 DEF EffectsInv, CallsAreSound
        <4>2. DOMAIN calls'[n] = {} /\ calls'[n] \in Seq(CallRecord)
          BY <1>7, <4>1
        <4> QED BY <4>2, NoCalls, Zenon
      <3> QED BY <1>1, <3>1
    <2>4. \A n \in Messages : approval'[n] # 0 =>
             approval'[n] \in DOMAIN calls'[n] /\ calls'[n][approval'[n]].kind = "write"
      <3>1. \A n \in Messages : approval[n] # 0 =>
               approval[n] \in DOMAIN calls[n] /\ calls[n][approval[n]].kind = "write"
        BY DEF EffectsInv, CallsAreSound
      <3> QED BY <1>1, <1>5, <1>7, <3>1
    <2> QED BY <2>1, <2>2, <2>3, <2>4 DEF CallsAreSound, CallIsSound
  <1>11. ThreadsAreSound'
    <2>1. ASSUME NEW b \in Conversation!Threads, thread'[b] \in BeforeTurn
          PROVE  turn'[job'[b]] = "absent" /\ \A c_1 \in Conversation!Threads \ {b} : job'[c_1] # job'[b]
      <3>1. thread[b] \in BeforeTurn
        BY <1>3, <1>8, <2>1 DEF BeforeTurn, Conversation!Threads
      <3> QED BY <1>1, <3>1 DEF EffectsInv, ThreadsAreSound
    <2>2. \A b \in Conversation!Threads : thread'[b] \notin RoundPlaces /\ thread'[b] # "record"
      <3>1. thread["run"] \notin RoundPlaces /\ p \notin RoundPlaces
        BY <1>2, <1>3 DEF TurnPlaces, RoundPlaces
      <3>2. \A b \in Conversation!Threads : thread'[b] \notin RoundPlaces
        BY <1>8, <3>1 DEF Conversation!Threads
      <3> QED BY <3>2 DEF RoundPlaces
    <2>3. resolving' = job'["service"] /\ resolving' # 0 /\ approval'[resolving'] # 0
      BY <1>1 DEF EffectsInv, ThreadsAreSound, ApprovalPlaces
    <2>4. calls'[resolving'][approval'[resolving']].status = "REQUESTED"
      BY <1>1, <1>5, <1>7
    <2> QED BY <2>1, <2>2, <2>3, <2>4
            DEF ThreadsAreSound, BeforeTurn, RoundPlaces, ApprovalPlaces, Conversation!Threads
  <1> QED BY <1>9, <1>10, <1>11 DEF EffectsInv

\* The call is settled as what became of it, and the round counts from after it.
LEMMA PersistKeepsEffects ==
    ASSUME SerialInv, EffectsInv, NEW m \in Messages, Conversation!Persist(m)
    PROVE  EffectsInv'
  <1> USE DEF Conversation!Goto, Conversation!Commits
  <1>1. /\ thread["service"] \in {"result", "unknown", "denied"} /\ resolving = m
        /\ UNCHANGED <<turn, job, asked, resolving>>
        /\ approval' = [approval EXCEPT ![m] = 0] /\ base' = [base EXCEPT ![m] = Len(calls[m])]
        /\ thread' = [thread EXCEPT !["service"] = "round"]
    BY DEF Conversation!Persist
  <1>2. /\ resolving = job["service"] /\ approval[m] \in DOMAIN calls[m]
        /\ calls[m][approval[m]] \in CallRecord
        /\ thread["service"] = "denied" => calls[m][approval[m]].ran = 0
        /\ thread["run"] \notin TurnPlaces
    <2>1. thread["service"] \in ApprovalPlaces
      BY <1>1 DEF ApprovalPlaces
    <2> QED BY <1>1, <2>1, Resolving
  <1>3. PICK d : d = Conversation!Settled(calls[m][approval[m]],
                       IF thread["service"] = "result" THEN "COMPLETED" ELSE "FAILED",
                       IF thread["service"] = "denied" THEN "not run" ELSE thread["service"])
    OBVIOUS
  <1>4. calls' = [calls EXCEPT ![m] = [@ EXCEPT ![approval[m]] = d]]
    BY <1>3, Zenon DEF Conversation!Persist
  <1>5. SettlesTo(calls[m][approval[m]], d) /\ d.status # "REQUESTED"
    <2>1. PICK state \in {"COMPLETED", "FAILED", "CANCELLED", "AMBIGUOUS"},
               said \in {"not run", "result", "unknown", "asserted"} :
             /\ d = Conversation!Settled(calls[m][approval[m]], state, said)
             /\ said = "not run" => calls[m][approval[m]].ran = 0
      <3>1. CASE thread["service"] = "result"
        <4>1. d = Conversation!Settled(calls[m][approval[m]], "COMPLETED", "result")
          BY <1>3, <3>1, Zenon
        <4> QED BY <4>1
      <3>2. CASE thread["service"] = "unknown"
        <4>1. d = Conversation!Settled(calls[m][approval[m]], "FAILED", "unknown")
          BY <1>3, <3>2, Zenon
        <4> QED BY <4>1
      <3>3. CASE thread["service"] = "denied"
        <4>1. d = Conversation!Settled(calls[m][approval[m]], "FAILED", "not run")
          BY <1>3, <3>3, Zenon
        <4> QED BY <1>2, <3>3, <4>1
      <3> QED BY <1>1, <3>1, <3>2, <3>3
    <2>2. SettlesTo(calls[m][approval[m]], d)
      BY <2>1 DEF SettlesTo
    <2>3. d.status = state
      <3>1. PICK c : c = calls[m][approval[m]]
        OBVIOUS
      <3>2. c \in CallRecord
        BY <1>2, <3>1
      <3>3. d = Conversation!Settled(c, state, said)
        BY <2>1, <3>1
      <3> QED BY <3>2, <3>3 DEF Conversation!Settled, CallRecord
    <2> QED BY <2>2, <2>3
  <1>6. /\ calls' \in [Messages -> Seq(CallRecord)]
        /\ \A n \in Messages : DOMAIN calls'[n] = DOMAIN calls[n]
        /\ \A n \in Messages : \A i \in DOMAIN calls[n] :
              /\ CallIsSound(calls'[n][i])
              /\ calls'[n][i].ran = calls[n][i].ran /\ calls'[n][i].kind = calls[n][i].kind
              /\ calls'[n][i].status = "REQUESTED" => calls[n][i].status = "REQUESTED"
        /\ \A n \in Messages : calls[n] = <<>> => calls'[n] = <<>>
        /\ calls'[m][approval[m]] = d
    BY <1>2, <1>4, <1>5, OneSettles, Zenon
  <1> HIDE <1>3
  <1>7. thread'["service"] = "round" /\ thread'["run"] = thread["run"]
    BY <1>1 DEF SerialInv, Conversation!Threads
  <1>8. Len(calls[m]) \in Nat /\ DOMAIN calls[m] = 1 .. Len(calls[m])
    BY DEF EffectsInv, CallsTyped
  <1>9. /\ base' \in [Messages -> Nat] /\ base'[m] = Len(calls[m])
        /\ approval' \in [Messages -> Nat] /\ approval'[m] = 0
        /\ \A n \in Messages \ {m} : approval'[n] = approval[n]
    BY <1>1, <1>8 DEF EffectsInv, CallsTyped
  <1>10. CallsTyped'
    BY <1>1, <1>6, <1>9 DEF EffectsInv, CallsTyped, CallRecord, Conversation!Kinds
  <1>11. CallsAreSound'
    <2>1. ASSUME NEW n \in Messages, NEW i \in DOMAIN calls'[n],
                 calls'[n][i].status = "REQUESTED", calls'[n][i].ran = 1
          PROVE  FALSE
      <3>1. i \in DOMAIN calls[n] /\ calls[n][i].status = "REQUESTED" /\ calls[n][i].ran = 1
        BY <1>6, <2>1
      <3>2. JustExecuted(n, i)
        BY <3>1 DEF EffectsInv, CallsAreSound
      <3>3. n = m /\ i = approval[m]
        BY <1>1, <3>2 DEF JustExecuted
      <3> QED BY <1>5, <1>6, <2>1, <3>3
    <2>2. \A n \in Messages : turn'[n] = "absent" => calls'[n] = <<>>
      BY <1>1, <1>6 DEF EffectsInv, CallsAreSound
    <2>3. \A n \in Messages : approval'[n] # 0 =>
             approval'[n] \in DOMAIN calls'[n] /\ calls'[n][approval'[n]].kind = "write"
      <3>1. \A n \in Messages : approval[n] # 0 =>
               approval[n] \in DOMAIN calls[n] /\ calls[n][approval[n]].kind = "write"
        BY DEF EffectsInv, CallsAreSound
      <3>2. ASSUME NEW n \in Messages, approval'[n] # 0
            PROVE  approval'[n] \in DOMAIN calls'[n] /\ calls'[n][approval'[n]].kind = "write"
        <4>1. approval'[n] = approval[n]
          BY <1>9, <3>2
        <4>2. approval[n] \in DOMAIN calls[n] /\ calls[n][approval[n]].kind = "write"
          BY <3>1, <3>2, <4>1
        <4>3. approval[n] \in DOMAIN calls'[n] /\ calls'[n][approval[n]].kind = "write"
          BY <1>6, <4>2
        <4> QED BY <4>1, <4>3
      <3> QED BY <3>2
    <2>4. \A n \in Messages : \A i \in DOMAIN calls'[n] : CallIsSound(calls'[n][i])
      BY <1>6
    <2> QED BY <2>1, <2>2, <2>3, <2>4 DEF CallsAreSound, CallIsSound
  <1>12. ThreadsAreSound'
    <2>1. ASSUME NEW b \in Conversation!Threads, thread'[b] \in BeforeTurn
          PROVE  turn'[job'[b]] = "absent" /\ \A c \in Conversation!Threads \ {b} : job'[c] # job'[b]
      <3>1. thread[b] \in BeforeTurn
        BY <1>7, <2>1 DEF BeforeTurn, Conversation!Threads
      <3> QED BY <1>1, <3>1 DEF EffectsInv, ThreadsAreSound
    <2>2. ASSUME NEW b \in Conversation!Threads, thread'[b] \in RoundPlaces
          PROVE  /\ thread'[b] # "record"
                 /\ \A i \in DOMAIN calls'[job'[b]] : i > base'[job'[b]] => calls'[job'[b]][i].ran = 0
      <3>1. b = "service" /\ thread'[b] = "round"
        BY <1>2, <1>7, <2>2 DEF TurnPlaces, Conversation!Threads
      <3>2. job'[b] = m
        BY <1>1, <1>2, <3>1
      <3>3. \A i \in DOMAIN calls'[m] : ~ (i > base'[m])
        BY <1>6, <1>8, <1>9
      <3>4. \A i \in DOMAIN calls'[job'[b]] : ~ (i > base'[job'[b]])
        BY <3>2, <3>3, Zenon
      <3> QED BY <3>1, <3>4, Zenon
    <2>3. "record" \in RoundPlaces /\ "round" \notin ApprovalPlaces
      BY DEF RoundPlaces, ApprovalPlaces
    <2> QED BY <1>7, <2>1, <2>2, <2>3
            DEF ThreadsAreSound, BeforeTurn, RoundPlaces, ApprovalPlaces, Conversation!Threads
  <1> QED BY <1>10, <1>11, <1>12 DEF EffectsInv

\* The service takes up a call that is still requested.
LEMMA DecideKeepsEffects ==
    ASSUME SerialInv, SerialInv', EffectsInv, NEW m \in Messages, Conversation!Decide(m)
    PROVE  EffectsInv'
  <1> USE DEF Conversation!Goto, Conversation!loop
  <1>1. /\ thread["service"] = "idle" /\ turn[m] = "WAITING_APPROVAL" /\ approval[m] # 0
        /\ calls[m][approval[m]].status = "REQUESTED"
        /\ turn' = [turn EXCEPT ![m] = "RUNNING"] /\ resolving' = m
        /\ job' = [job EXCEPT !["service"] = m] /\ UNCHANGED <<calls, base, asked, approval>>
        /\ \E p \in {"approved", "denied"} : thread' = [thread EXCEPT !["service"] = p]
    BY DEF Conversation!Decide
  <1>2. PICK p \in {"approved", "denied"} : thread' = [thread EXCEPT !["service"] = p]
    BY <1>1
  <1>3. /\ thread'["service"] = p /\ thread'["run"] = thread["run"]
        /\ job'["service"] = m /\ job'["run"] = job["run"]
        /\ \A n \in Messages : turn'[n] = IF n = m THEN "RUNNING" ELSE turn[n]
    BY <1>1, <1>2 DEF SerialInv, Conversation!Threads
  <1>4. CallsTyped'
    BY <1>1 DEF EffectsInv, CallsTyped, CallRecord, Conversation!Kinds
  <1>5. CallsAreSound'
    <2>1. \A n, i : ~ JustExecuted(n, i)
      BY <1>1 DEF JustExecuted
    <2>2. \A n \in Messages : \A i \in DOMAIN calls'[n] :
             ~ (calls'[n][i].status = "REQUESTED" /\ calls'[n][i].ran = 1)
      BY <1>1, <2>1 DEF EffectsInv, CallsAreSound
    <2>3. \A n \in Messages : turn'[n] = "absent" => calls'[n] = <<>>
      BY <1>1, <1>3 DEF EffectsInv, CallsAreSound
    <2> QED BY <1>1, <2>2, <2>3, ZenonT(60) DEF EffectsInv, CallsAreSound, CallIsSound
  <1>6. ThreadsAreSound'
    <2>1. thread'["service"] \in TurnPlaces /\ p \notin BeforeTurn /\ p \notin RoundPlaces
      BY <1>3 DEF TurnPlaces, ApprovalPlaces, BeforeTurn, RoundPlaces
    <2>2. thread["run"] \notin TurnPlaces
      <3>1. fresh' = {"service"}
        BY DEF Conversation!Decide
      <3> QED BY <1>3, <3>1 DEF SerialInv, Conversation!Threads
    <2>3. ASSUME NEW b \in Conversation!Threads, thread'[b] \in BeforeTurn
          PROVE  turn'[job'[b]] = "absent" /\ \A c \in Conversation!Threads \ {b} : job'[c] # job'[b]
      <3>1. b = "run" /\ thread["run"] \in BeforeTurn
        BY <1>3, <2>1, <2>3 DEF Conversation!Threads
      <3>2. job["run"] \in Messages /\ turn[job["run"]] = "absent"
        BY <3>1 DEF SerialInv, EffectsInv, ThreadsAreSound, BeforeTurn
      <3> QED BY <1>1, <1>3, <3>1, <3>2 DEF Conversation!Threads
    <2>4. \A b \in Conversation!Threads : thread'[b] \notin RoundPlaces
      BY <1>3, <2>1, <2>2 DEF TurnPlaces, Conversation!Threads
    <2>5. "record" \in RoundPlaces
      BY DEF RoundPlaces
    <2>6. 0 \notin Messages
      BY ConversationConstants
    <2> QED BY <1>1, <1>3, <2>3, <2>4, <2>5, <2>6
            DEF ThreadsAreSound, BeforeTurn, RoundPlaces, ApprovalPlaces, Conversation!Threads
  <1> QED BY <1>4, <1>5, <1>6 DEF EffectsInv

\* A thread that ends resets what its message's loop knew, unless another has it.
LEMMA ReturnKeepsEffects ==
    ASSUME SerialInv, EffectsInv, NEW a \in Conversation!Threads, Conversation!Return(a)
    PROVE  EffectsInv'
  <1> USE DEF Conversation!Goto, Conversation!store
  <1>1. /\ thread[a] = "return" /\ thread' = [thread EXCEPT ![a] = "idle"]
        /\ job' = [job EXCEPT ![a] = 0] /\ UNCHANGED <<turn, calls, approval>>
        /\ resolving' = IF a = "service" THEN 0 ELSE resolving
    BY DEF Conversation!Return
  <1>2. job[a] \in Messages
    BY <1>1 DEF SerialInv
  <1>3. PICK kept \in BOOLEAN :
           /\ (\E b \in Conversation!Threads \ {a} : job[b] = job[a]) => kept
           /\ base' = [base EXCEPT ![job[a]] = IF kept THEN @ ELSE 0]
           /\ asked' = [asked EXCEPT ![job[a]] = IF kept THEN @ ELSE <<>>]
    <2>1. PICK kept : kept = (approval[job[a]] # 0 \/ \E b \in Conversation!Threads \ {a} : job[b] = job[a])
      OBVIOUS
    <2>2. /\ base' = [base EXCEPT ![job[a]] = IF kept THEN @ ELSE 0]
          /\ asked' = [asked EXCEPT ![job[a]] = IF kept THEN @ ELSE <<>>]
      BY <2>1, Zenon DEF Conversation!Return, Conversation!Forgets
    <2>3. kept \in BOOLEAN /\ ((\E b \in Conversation!Threads \ {a} : job[b] = job[a]) => kept)
      BY <2>1, Zenon
    <2> QED BY <2>2, <2>3
  <1>4. /\ base' \in [Messages -> Nat] /\ asked' \in [Messages -> Seq(Conversation!Kinds)]
        /\ \A n \in Messages : n # job[a] \/ kept => base'[n] = base[n] /\ asked'[n] = asked[n]
    <2>1. /\ base \in [Messages -> Nat] /\ asked \in [Messages -> Seq(Conversation!Kinds)]
          /\ <<>> \in Seq(Conversation!Kinds)
      BY DEF EffectsInv, CallsTyped
    <2>2. CASE kept
      BY <1>2, <1>3, <2>1, <2>2
    <2>3. CASE ~ kept
      BY <1>2, <1>3, <2>1, <2>3
    <2> QED BY <2>2, <2>3
  <1>5. /\ thread'[a] = "idle" /\ job'[a] = 0
        /\ \A b \in Conversation!Threads \ {a} : thread'[b] = thread[b] /\ job'[b] = job[b]
    BY <1>1 DEF SerialInv
  <1>6. \A b \in Conversation!Threads \ {a} : thread[b] # "idle" =>
           job[b] \in Messages /\ base'[job[b]] = base[job[b]] /\ asked'[job[b]] = asked[job[b]]
    <2> SUFFICES ASSUME NEW b \in Conversation!Threads \ {a}, thread[b] # "idle"
                 PROVE  job[b] \in Messages /\ base'[job[b]] = base[job[b]] /\ asked'[job[b]] = asked[job[b]]
      OBVIOUS
    <2>1. job[b] \in Messages
      BY DEF SerialInv
    <2>2. job[b] # job[a] \/ kept
      BY <1>3
    <2> QED BY <1>4, <2>1, <2>2
  <1>7. CallsTyped'
    <2>1. resolving' \in Messages \cup {0}
      BY <1>1 DEF EffectsInv, CallsTyped
    <2> QED BY <1>1, <1>4, <2>1 DEF EffectsInv, CallsTyped, CallRecord, Conversation!Kinds
  <1>8. CallsAreSound'
    <2>1. \A n, i : JustExecuted(n, i) => JustExecuted(n, i)'
      BY <1>1, <1>5 DEF JustExecuted, Conversation!Threads
    <2>2. \A n \in Messages : \A i \in DOMAIN calls[n] :
             calls[n][i].status = "REQUESTED" /\ calls[n][i].ran = 1 => JustExecuted(n, i)'
      BY <2>1 DEF EffectsInv, CallsAreSound
    <2> QED BY <1>1, <2>2 DEF EffectsInv, CallsAreSound, CallIsSound
  <1>9. ThreadsAreSound'
    <2>1. /\ "idle" \notin BeforeTurn /\ "idle" \notin RoundPlaces /\ "idle" \notin ApprovalPlaces
          /\ "idle" # "record"
      BY DEF BeforeTurn, RoundPlaces, ApprovalPlaces
    <2>2. ASSUME NEW b \in Conversation!Threads, thread'[b] \in BeforeTurn
          PROVE  turn'[job'[b]] = "absent" /\ \A c \in Conversation!Threads \ {b} : job'[c] # job'[b]
      <3>1. b # a /\ thread[b] \in BeforeTurn /\ job'[b] = job[b]
        BY <1>5, <2>1, <2>2
      <3>2. turn[job[b]] = "absent" /\ \A c \in Conversation!Threads \ {b} : job[c] # job[b]
        BY <3>1 DEF EffectsInv, ThreadsAreSound
      <3>3. job[b] \in Messages /\ job[b] # 0
        BY <1>6, <2>1, <3>1, ConversationConstants
      <3> QED BY <1>1, <1>5, <3>1, <3>2, <3>3
    <2>3. ASSUME NEW b \in Conversation!Threads, thread'[b] \in RoundPlaces
          PROVE  \A i \in DOMAIN calls'[job'[b]] : i > base'[job'[b]] => calls'[job'[b]][i].ran = 0
      <3>1. b # a /\ thread[b] \in RoundPlaces /\ job'[b] = job[b]
        BY <1>5, <2>1, <2>3
      <3>2. base'[job[b]] = base[job[b]] /\ calls' = calls
        BY <1>1, <1>6, <2>1, <3>1
      <3>3. \A i \in DOMAIN calls[job[b]] : i > base[job[b]] => calls[job[b]][i].ran = 0
        BY <3>1 DEF EffectsInv, ThreadsAreSound
      <3> QED BY <3>1, <3>2, <3>3
    <2>4. ASSUME NEW b \in Conversation!Threads, thread'[b] = "record" PROVE asked'[job'[b]] # <<>>
      <3>1. b # a /\ thread[b] = "record" /\ job'[b] = job[b]
        BY <1>5, <2>1, <2>4
      <3>2. asked[job[b]] # <<>> /\ asked'[job[b]] = asked[job[b]]
        BY <1>6, <3>1 DEF EffectsInv, ThreadsAreSound
      <3> QED BY <3>1, <3>2
    <2>5. ASSUME thread'["service"] \in ApprovalPlaces
          PROVE  /\ thread'["service"] = thread["service"] /\ job'["service"] = job["service"]
                 /\ resolving' = resolving
      BY <1>1, <1>5, <2>1, <2>5 DEF Conversation!Threads
    <2>6. thread'["service"] \in ApprovalPlaces =>
             resolving' = job'["service"] /\ resolving' # 0 /\ approval'[resolving'] # 0
      BY <1>1, <2>5 DEF EffectsInv, ThreadsAreSound
    <2>7. thread'["service"] \in {"approved", "denied"} =>
             calls'[resolving'][approval'[resolving']].status = "REQUESTED"
      <3>1. thread'["service"] \in {"approved", "denied"} => thread'["service"] \in ApprovalPlaces
        BY DEF ApprovalPlaces
      <3> QED BY <1>1, <2>5, <3>1 DEF EffectsInv, ThreadsAreSound
    <2> QED BY <2>2, <2>3, <2>4, <2>6, <2>7
            DEF ThreadsAreSound, BeforeTurn, RoundPlaces, ApprovalPlaces, Conversation!Threads
  <1> QED BY <1>7, <1>8, <1>9 DEF EffectsInv

\* A message begins: nobody else works on it, and its turn does not exist yet.
LEMMA BeginKeepsEffects ==
    ASSUME SerialInv, EffectsInv, NEW m \in Messages, Conversation!StartRun(m) \/ Conversation!Send(m)
    PROVE  EffectsInv'
  <1> USE DEF Conversation!Goto, Conversation!store, Conversation!loop, Conversation!memory
  <1>1. PICK a \in Conversation!Threads :
           /\ thread[a] = "idle" /\ thread' = [thread EXCEPT ![a] = "read"]
           /\ job' = [job EXCEPT ![a] = m]
           /\ turn[m] = "absent" /\ \A b \in Conversation!Threads : job[b] # m
           /\ UNCHANGED <<turn, calls, base, asked, approval, resolving>>
    BY DEF Conversation!StartRun, Conversation!Send, Conversation!Unused, Conversation!Threads
  <1>2. /\ thread'[a] = "read" /\ job'[a] = m
        /\ \A b \in Conversation!Threads \ {a} : thread'[b] = thread[b] /\ job'[b] = job[b]
    BY <1>1 DEF SerialInv
  <1>3. CallsTyped'
    BY <1>1 DEF EffectsInv, CallsTyped, CallRecord, Conversation!Kinds
  <1>4. CallsAreSound'
    <2>1. \A n, i : JustExecuted(n, i) => JustExecuted(n, i)'
      BY <1>1, <1>2 DEF JustExecuted, Conversation!Threads
    <2>2. \A n \in Messages : \A i \in DOMAIN calls[n] :
             calls[n][i].status = "REQUESTED" /\ calls[n][i].ran = 1 => JustExecuted(n, i)'
      BY <2>1 DEF EffectsInv, CallsAreSound
    <2> QED BY <1>1, <2>2 DEF EffectsInv, CallsAreSound, CallIsSound
  <1>5. ThreadsAreSound'
    <2>1. /\ "read" \notin RoundPlaces /\ "read" \notin ApprovalPlaces /\ "read" # "record"
      BY DEF RoundPlaces, ApprovalPlaces
    <2>2. ASSUME NEW b \in Conversation!Threads, thread'[b] \in BeforeTurn
          PROVE  turn'[job'[b]] = "absent" /\ \A c \in Conversation!Threads \ {b} : job'[c] # job'[b]
      <3>1. CASE b = a
        BY <1>1, <1>2, <3>1
      <3>2. CASE b # a
        <4>1. thread[b] \in BeforeTurn /\ job'[b] = job[b]
          BY <1>2, <2>2, <3>2
        <4>2. turn[job[b]] = "absent" /\ \A c \in Conversation!Threads \ {b} : job[c] # job[b]
          BY <4>1 DEF EffectsInv, ThreadsAreSound
        <4> QED BY <1>1, <1>2, <3>2, <4>1, <4>2
      <3> QED BY <3>1, <3>2
    <2>3. \A b \in Conversation!Threads : thread'[b] \in RoundPlaces =>
             \A i \in DOMAIN calls'[job'[b]] : i > base'[job'[b]] => calls'[job'[b]][i].ran = 0
      BY <1>1, <1>2, <2>1 DEF EffectsInv, ThreadsAreSound
    <2>4. \A b \in Conversation!Threads : thread'[b] = "record" => asked'[job'[b]] # <<>>
      BY <1>1, <1>2, <2>1 DEF EffectsInv, ThreadsAreSound
    <2>5. ASSUME thread'["service"] \in ApprovalPlaces
          PROVE  thread'["service"] = thread["service"] /\ job'["service"] = job["service"]
      BY <1>2, <2>1, <2>5 DEF Conversation!Threads
    <2>6. thread'["service"] \in ApprovalPlaces =>
             resolving' = job'["service"] /\ resolving' # 0 /\ approval'[resolving'] # 0
      BY <1>1, <2>5 DEF EffectsInv, ThreadsAreSound
    <2>7. thread'["service"] \in {"approved", "denied"} =>
             calls'[resolving'][approval'[resolving']].status = "REQUESTED"
      <3>1. thread'["service"] \in {"approved", "denied"} => thread'["service"] \in ApprovalPlaces
        BY DEF ApprovalPlaces
      <3> QED BY <1>1, <2>5, <3>1 DEF EffectsInv, ThreadsAreSound
    <2> QED BY <2>2, <2>3, <2>4, <2>6, <2>7
            DEF ThreadsAreSound, BeforeTurn, RoundPlaces, ApprovalPlaces, Conversation!Threads
  <1> QED BY <1>3, <1>4, <1>5 DEF EffectsInv

\* The user settles a call of which nothing is known, when nothing is under way.
LEMMA ReconcileKeepsEffects ==
    ASSUME SerialInv, EffectsInv, NEW m \in Messages, NEW i \in DOMAIN calls[m],
           Conversation!Reconcile(m, i)
    PROVE  EffectsInv'
  <1> USE DEF Conversation!threads, Conversation!loop, Conversation!memory
  <1>1. /\ thread["service"] = "idle" /\ \A n \in Messages : turn[n] \notin Conversation!Active
        /\ UNCHANGED <<turn, thread, job, base, asked, approval, resolving>>
    BY DEF Conversation!Reconcile
  <1>2. PICK d : d = Conversation!Settled(calls[m][i], "CANCELLED", "asserted")
    OBVIOUS
  <1>3. calls' = [calls EXCEPT ![m] = [@ EXCEPT ![i] = d]]
    BY <1>2, Zenon DEF Conversation!Reconcile
  <1>4. SettlesTo(calls[m][i], d)
    BY <1>2, Zenon DEF SettlesTo
  <1>5. /\ calls' \in [Messages -> Seq(CallRecord)]
        /\ \A n \in Messages : DOMAIN calls'[n] = DOMAIN calls[n]
        /\ \A n \in Messages : \A j \in DOMAIN calls[n] :
              /\ CallIsSound(calls'[n][j])
              /\ calls'[n][j].ran = calls[n][j].ran /\ calls'[n][j].kind = calls[n][j].kind
              /\ calls'[n][j].status = "REQUESTED" => calls[n][j].status = "REQUESTED"
        /\ \A n \in Messages : calls[n] = <<>> => calls'[n] = <<>>
        /\ calls'[m][i] = d
    BY <1>3, <1>4, OneSettles, Zenon
  <1> HIDE <1>2
  <1>6. CallsTyped'
    BY <1>1, <1>5 DEF EffectsInv, CallsTyped, CallRecord, Conversation!Kinds
  <1>7. CallsAreSound'
    <2>1. \A n, j : ~ JustExecuted(n, j)
      BY <1>1 DEF JustExecuted
    <2>2. \A n \in Messages : \A j \in DOMAIN calls[n] : ~ (calls[n][j].status = "REQUESTED" /\ calls[n][j].ran = 1)
      BY <2>1 DEF EffectsInv, CallsAreSound
    <2>3. \A n \in Messages : \A j \in DOMAIN calls'[n] :
             CallIsSound(calls'[n][j]) /\ ~ (calls'[n][j].status = "REQUESTED" /\ calls'[n][j].ran = 1)
      BY <1>5, <2>2
    <2>4. \A n \in Messages : turn'[n] = "absent" => calls'[n] = <<>>
      BY <1>1, <1>5 DEF EffectsInv, CallsAreSound
    <2>5. ASSUME NEW n \in Messages, approval'[n] # 0
          PROVE  approval'[n] \in DOMAIN calls'[n] /\ calls'[n][approval'[n]].kind = "write"
      <3>1. approval[n] \in DOMAIN calls[n] /\ calls[n][approval[n]].kind = "write"
        BY <1>1, <2>5 DEF EffectsInv, CallsAreSound
      <3>2. approval[n] \in DOMAIN calls'[n] /\ calls'[n][approval[n]].kind = "write"
        BY <1>5, <3>1
      <3> QED BY <1>1, <3>2
    <2> QED BY <2>3, <2>4, <2>5 DEF CallsAreSound, CallIsSound
  <1>8. ThreadsAreSound'
    <2>1. \A b \in Conversation!Threads : thread[b] \notin TurnPlaces
      <3>1. "idle" \notin TurnPlaces
        BY DEF TurnPlaces, RoundPlaces, ApprovalPlaces
      <3>2. \A b \in Conversation!Threads : thread[b] \in TurnPlaces =>
               job[b] \in Messages /\ turn[job[b]] \in {"QUEUED", "RUNNING"}
        BY <3>1 DEF SerialInv
      <3> QED BY <1>1, <3>2 DEF Conversation!Active
    <2>2. \A b \in Conversation!Threads : thread[b] \notin RoundPlaces /\ thread[b] # "record"
      BY <2>1 DEF TurnPlaces, RoundPlaces
    <2> QED BY <1>1, <2>2 DEF EffectsInv, ThreadsAreSound, BeforeTurn, RoundPlaces, ApprovalPlaces,
               Conversation!Threads
  <1> QED BY <1>6, <1>7, <1>8 DEF EffectsInv

\* Recovery settles every call that was requested; one that waited for the user has
\* not run, for the service would have taken its turn up again first.
LEMMA RestartKeepsEffects ==
    ASSUME SerialInv, EffectsInv, Conversation!Restart PROVE EffectsInv'
  <1>1. /\ calls' = [m \in Messages |-> [i \in DOMAIN calls[m] |-> Conversation!Recovered(calls[m][i], m)]]
        /\ turn' = [m \in Messages |-> IF turn[m] \in Conversation!Active THEN "INTERRUPTED" ELSE turn[m]]
        /\ resolving' = 0 /\ thread' = [a \in Conversation!Threads |-> "idle"]
        /\ job' = [a \in Conversation!Threads |-> 0]
        /\ base' = [m \in Messages |-> 0] /\ approval' = [m \in Messages |-> 0]
        /\ asked' = [m \in Messages |-> <<>>]
    BY DEF Conversation!Restart
  <1>2. \A m \in Messages : /\ DOMAIN calls'[m] = DOMAIN calls[m]
                            /\ calls'[m] = [i \in DOMAIN calls[m] |-> calls'[m][i]]
                            /\ \A i \in DOMAIN calls[m] : calls'[m][i] = Conversation!Recovered(calls[m][i], m)
    BY <1>1
  <1>3. ASSUME NEW m \in Messages, NEW i \in DOMAIN calls[m]
        PROVE  SettlesTo(calls[m][i], calls'[m][i]) /\ calls'[m][i].status # "REQUESTED"
    <2>1. PICK c : c = calls[m][i]
      OBVIOUS
    <2>2. calls'[m][i] = Conversation!Recovered(c, m)
      BY <1>2, <2>1
    <2>3. c \in CallRecord
      <3>1. calls[m] \in Seq(CallRecord)
        BY DEF EffectsInv, CallsTyped
      <3> QED BY <2>1, <3>1
    <2>4. CASE c.status # "REQUESTED"
      <3>1. calls'[m][i] = c
        BY <2>2, <2>4 DEF Conversation!Recovered
      <3> QED BY <2>1, <2>4, <3>1 DEF SettlesTo
    <2>5. CASE c.status = "REQUESTED" /\ turn[m] = "WAITING_APPROVAL"
      <3>1. calls'[m][i] = Conversation!Settled(c, "CANCELLED", "not run")
        BY <2>2, <2>5 DEF Conversation!Recovered
      <3>2. c.ran = 0
        <4>1. ~ JustExecuted(m, i)
          <5> SUFFICES ASSUME JustExecuted(m, i) PROVE FALSE
            OBVIOUS
          <5>1. thread["service"] \in ApprovalPlaces /\ resolving = m
            BY DEF JustExecuted, ApprovalPlaces
          <5>2. job["service"] = m
            BY <5>1, Resolving
          <5>3. turn[m] \in {"QUEUED", "RUNNING"}
            BY <5>1, <5>2 DEF SerialInv, TurnPlaces, Conversation!Threads
          <5> QED BY <2>5, <5>3
        <4>2. c.ran # 1
          BY <2>1, <2>5, <4>1 DEF EffectsInv, CallsAreSound
        <4>3. c.ran \in {0, 1}
          BY <2>3 DEF CallRecord
        <4> QED BY <4>2, <4>3
      <3>3. SettlesTo(c, calls'[m][i])
        BY <3>1, <3>2 DEF SettlesTo
      <3>4. calls'[m][i].status = "CANCELLED"
        BY <2>3, <3>1 DEF Conversation!Settled, CallRecord
      <3> QED BY <2>1, <3>3, <3>4
    <2>6. CASE c.status = "REQUESTED" /\ turn[m] # "WAITING_APPROVAL"
      <3>1. calls'[m][i] = Conversation!Settled(c, "AMBIGUOUS", "unknown")
        BY <2>2, <2>6 DEF Conversation!Recovered
      <3>2. SettlesTo(c, calls'[m][i])
        BY <3>1 DEF SettlesTo
      <3>3. calls'[m][i].status = "AMBIGUOUS"
        BY <2>3, <3>1 DEF Conversation!Settled, CallRecord
      <3> QED BY <2>1, <3>2, <3>3
    <2> QED BY <2>4, <2>5, <2>6
  <1>4. /\ calls' \in [Messages -> Seq(CallRecord)]
        /\ \A m \in Messages : \A i \in DOMAIN calls[m] :
              /\ CallIsSound(calls'[m][i])
              /\ calls'[m][i].ran = calls[m][i].ran /\ calls'[m][i].kind = calls[m][i].kind
              /\ calls'[m][i].status = "REQUESTED" => calls[m][i].status = "REQUESTED"
        /\ \A m \in Messages : calls[m] = <<>> => calls'[m] = <<>>
    <2>1. DOMAIN calls' = Messages /\ calls' = [m \in Messages |-> calls'[m]]
      BY <1>1
    <2>2. \A m \in Messages : /\ DOMAIN calls'[m] = DOMAIN calls[m]
                              /\ calls'[m] = [i \in DOMAIN calls[m] |-> calls'[m][i]]
                              /\ \A i \in DOMAIN calls[m] : SettlesTo(calls[m][i], calls'[m][i])
      BY <1>2, <1>3, Zenon
    <2> QED BY <2>1, <2>2, CallsSettle, Zenon
  <1>5. CallsTyped'
    <2>1. <<>> \in Seq(Conversation!Kinds)
      OBVIOUS
    <2>2. base' \in [Messages -> Nat] /\ approval' \in [Messages -> Nat]
          /\ asked' \in [Messages -> Seq(Conversation!Kinds)] /\ resolving' \in Messages \cup {0}
      BY <1>1, <2>1
    <2> QED BY <1>4, <2>2 DEF CallsTyped, CallRecord, Conversation!Kinds
  <1>6. CallsAreSound'
    <2>1. \A m \in Messages : \A i \in DOMAIN calls'[m] :
             CallIsSound(calls'[m][i]) /\ calls'[m][i].status # "REQUESTED"
      BY <1>2, <1>3, <1>4
    <2>2. \A m \in Messages : turn'[m] = "absent" => calls'[m] = <<>>
      <3>1. \A m \in Messages : turn'[m] = "absent" => turn[m] = "absent"
        BY <1>1
      <3>2. \A m \in Messages : turn[m] = "absent" => calls[m] = <<>>
        BY DEF EffectsInv, CallsAreSound
      <3> QED BY <1>4, <3>1, <3>2
    <2>3. \A m \in Messages : approval'[m] = 0
      BY <1>1
    <2> QED BY <2>1, <2>2, <2>3 DEF CallsAreSound, CallIsSound
  <1>7. ThreadsAreSound'
    <2>1. \A b \in Conversation!Threads : thread'[b] = "idle"
      BY <1>1
    <2> QED BY <2>1 DEF ThreadsAreSound, BeforeTurn, RoundPlaces, ApprovalPlaces, Conversation!Threads
  <1> QED BY <1>5, <1>6, <1>7 DEF EffectsInv

\* The steps that touch neither calls nor threads; a new binding forgets the calls
\* that wait, while the service resolves none.
LEMMA RestKeepsEffects ==
    ASSUME EffectsInv, UNCHANGED <<turn, calls, thread, job, base, asked, resolving>>,
           \/ UNCHANGED approval
           \/ approval' = [m \in Messages |-> 0] /\ thread["service"] = "idle"
    PROVE  EffectsInv'
  <1>1. CASE UNCHANGED approval
    BY <1>1, ZenonT(60) DEF EffectsInv, CallsTyped, CallsAreSound, ThreadsAreSound, CallRecord, CallIsSound,
                JustExecuted, BeforeTurn, RoundPlaces, ApprovalPlaces, Conversation!Threads,
                Conversation!Kinds
  <1>2. CASE approval' = [m \in Messages |-> 0] /\ thread["service"] = "idle"
    <2>1. CallsTyped'
      BY <1>2 DEF EffectsInv, CallsTyped, CallRecord, Conversation!Kinds
    <2>2. CallsAreSound'
      <3>1. \A n, j : ~ JustExecuted(n, j)
        BY <1>2 DEF JustExecuted
      <3>2. \A n \in Messages : \A j \in DOMAIN calls[n] : ~ (calls[n][j].status = "REQUESTED" /\ calls[n][j].ran = 1)
        BY <3>1 DEF EffectsInv, CallsAreSound
      <3>3. \A n \in Messages : approval'[n] = 0
        BY <1>2
      <3> QED BY <3>2, <3>3 DEF EffectsInv, CallsAreSound, CallIsSound
    <2>3. ThreadsAreSound'
      BY <1>2 DEF EffectsInv, ThreadsAreSound, BeforeTurn, RoundPlaces, ApprovalPlaces, Conversation!Threads
    <2> QED BY <2>1, <2>2, <2>3 DEF EffectsInv
  <1> QED BY <1>1, <1>2

LEMMA EffectsInvStep ==
    ASSUME SerialInv, SerialInv', EffectsInv, [Conversation!Next]_(Conversation!vars)
    PROVE  EffectsInv'
  <1>1. ASSUME NEW a \in Conversation!Threads, Conversation!Works(a) PROVE EffectsInv'
    BY <1>1, QuietWorkKeepsEffects, RecordCallKeepsEffects, SettleRoundKeepsEffects,
       PauseKeepsEffects, ReturnKeepsEffects, Zenon DEF Conversation!Works
  <1>2. ASSUME \/ \E m \in Messages : Conversation!CancelRun(m)
               \/ Conversation!SwitchModel \/ Conversation!CatalogChanges
               \/ Conversation!Rebind \/ UNCHANGED Conversation!vars
        PROVE  EffectsInv'
    <2>1. /\ UNCHANGED <<turn, calls, thread, job, base, asked, resolving>>
          /\ \/ UNCHANGED approval
             \/ approval' = [m \in Messages |-> 0] /\ thread["service"] = "idle"
      BY <1>2 DEF Conversation!CancelRun, Conversation!SwitchModel, Conversation!CatalogChanges,
                  Conversation!Rebind, Conversation!vars, Conversation!store, Conversation!threads,
                  Conversation!loop, Conversation!memory
    <2> QED BY <2>1, RestKeepsEffects
  <1> QED BY <1>1, <1>2, ExecuteKeepsEffects, PersistKeepsEffects, DecideKeepsEffects,
             BeginKeepsEffects, ReconcileKeepsEffects, RestartKeepsEffects, Zenon
          DEF Conversation!Next, Conversation!Resolves

\* An action that changes data runs at most once, and never if the conversation says
\* that it was not run, for any number of messages, rounds and restarts.
THEOREM ConversationEffectsAreTrue == Conversation!Spec => []EffectsAreTrue
  <1>1. EffectsInv => EffectsAreTrue
    <2> SUFFICES ASSUME EffectsInv, NEW m \in Messages, NEW i \in DOMAIN calls[m]
                 PROVE  /\ calls[m][i].ran <= 1
                        /\ calls[m][i].ran = 1 => calls[m][i].kind = "write"
                        /\ calls[m][i].said = "not run" => calls[m][i].ran = 0
      BY Zenon DEF EffectsAreTrue, Conversation!EffectsAreTrue
    <2>1. CallIsSound(calls[m][i])
      BY DEF EffectsInv, CallsAreSound
    <2>2. calls[m][i].ran \in {0, 1}
      <3>1. calls[m] \in Seq(CallRecord)
        BY DEF EffectsInv, CallsTyped
      <3>2. calls[m][i] \in CallRecord
        BY <3>1
      <3> QED BY <3>2 DEF CallRecord
    <2>3. calls[m][i].ran <= 1
      BY <2>2
    <2> QED BY <2>1, <2>3, Zenon DEF CallIsSound
  <1>2. Conversation!Init => SerialInv /\ EffectsInv
    BY SerialInvInit, EffectsInvInit
  <1>3. SerialInv /\ EffectsInv /\ [Conversation!Next]_(Conversation!vars) => SerialInv' /\ EffectsInv'
    BY SerialInvStep, EffectsInvStep
  <1> QED BY <1>1, <1>2, <1>3, PTL DEF Conversation!Spec

-----------------------------------------------------------------------------
(* The table of subagent runs.                                             *)

Listed(r) == \E i \in 1 .. Len(table) : table[i] = r

\* A running run is in the table, a run that has not started has no execution, a
\* worker at work has an active run, and an execution whose worker is gone, or is
\* not in its workspace, belongs to a cancelled run that is no longer in the table.
TableInv ==
    /\ table \in Seq(Runs)
    /\ status \in [Runs -> Table!Ended \cup {"none", "RUNNING", "CANCELLING"}]
    /\ runWorker \in [Runs -> Table!Ended \cup {"none", "running", "done"}]
    /\ runExec \in [Runs -> Table!Ended \cup {"none", "RUNNING"}]
    /\ home \in [Runs -> Nat] /\ workspace \in Nat
    /\ \A r \in Runs : runWorker[r] = "none" => runExec[r] = "none"
    /\ \A r \in Runs : runWorker[r] = "running" => status[r] \in {"RUNNING", "CANCELLING"}
    /\ \A r \in Runs : status[r] = "CANCELLING" => r \in cancel
    /\ \A r \in Runs : status[r] = "RUNNING" => Listed(r)
    /\ \A r \in Runs : runExec[r] = "RUNNING" /\ (runWorker[r] # "running" \/ home[r] # workspace)
                          => r \in cancel /\ ~Listed(r)

LEMMA TableConstants == MaxRuns \in Nat \ {0}
  BY AgentsAssumption DEF Table!SubagentsAssumption

\* The instance's operators on sequences are the library's.
LEMMA TableOperators ==
    /\ \A s, i : Table!RemoveAt(s, i) = RemoveAt(s, i)
    /\ \A s : Table!ToSet(s) = {s[i] : i \in DOMAIN s}
  BY Zenon DEF Table!RemoveAt, RemoveAt, Table!ToSet

\* Remembering a run drops none that is RUNNING.
LEMMA RememberedKeepsRunning ==
    ASSUME TableInv, Table!HasRoom, NEW r \in Runs
    PROVE  /\ Table!Remembered(r) \in Seq(Runs)
           /\ \E i \in 1 .. Len(Table!Remembered(r)) : Table!Remembered(r)[i] = r
           /\ \A q \in Runs : status[q] = "RUNNING" =>
                 \E i \in 1 .. Len(Table!Remembered(r)) : Table!Remembered(r)[i] = q
           /\ \A i \in 1 .. Len(Table!Remembered(r)) :
                 Table!Remembered(r)[i] = r \/ Listed(Table!Remembered(r)[i])
  <1>1. table \in Seq(Runs) /\ Len(table) \in Nat /\ DOMAIN table = 1 .. Len(table)
    BY DEF TableInv
  <1>2. PICK rest \in Seq(Runs) :
           /\ Table!Remembered(r) = Append(rest, r)
           /\ \A q \in Runs : status[q] = "RUNNING" => \E i \in 1 .. Len(rest) : rest[i] = q
           /\ \A i \in 1 .. Len(rest) : Listed(rest[i])
    <2>1. CASE Len(table) < MaxRuns
      <3>1. Table!Remembered(r) = Append(table, r)
        BY <2>1 DEF Table!Remembered
      <3> QED BY <1>1, <3>1 DEF TableInv, Listed
    <2>2. CASE ~(Len(table) < MaxRuns)
      <3>1. PICK old : old = Table!Evictable(table)
        OBVIOUS
      <3>2. old # {} /\ old = {i \in 1 .. Len(table) : status[table[i]] \notin {"none", "RUNNING"}}
        <4>1. old # {}
          BY <2>2, <3>1 DEF Table!HasRoom
        <4>2. old = {i \in DOMAIN table : status[table[i]] \notin {"none", "RUNNING"}}
          BY <3>1, Zenon DEF Table!Evictable, Table!None
        <4> QED BY <1>1, <4>1, <4>2
      <3>3. \E i \in old : \A j \in old : i <= j
        <4>1. old \subseteq Nat
          BY <1>1, <3>2
        <4> QED BY <3>2, <4>1, HasLeast
      <3>4. PICK k : k = CHOOSE i \in old : \A j \in old : i <= j
        OBVIOUS
      <3>5. k \in old
        BY <3>3, <3>4
      <3>6. k \in 1 .. Len(table) /\ status[table[k]] # "RUNNING"
        BY <3>2, <3>5
      <3>7. PICK rest : rest = RemoveAt(table, k)
        OBVIOUS
      <3>8. /\ rest \in Seq(Runs) /\ Len(rest) = Len(table) - 1
            /\ \A j \in 1 .. Len(table) - 1 : rest[j] = IF j < k THEN table[j] ELSE table[j + 1]
        BY <1>1, <3>6, <3>7, RemoveAtProperties
      <3>9. Table!Remembered(r) = Append(rest, r)
        BY <2>2, <3>1, <3>4, <3>7, TableOperators, Zenon DEF Table!Remembered
      <3>10. ASSUME NEW q \in Runs, status[q] = "RUNNING" PROVE \E i \in 1 .. Len(rest) : rest[i] = q
        <4>1. PICK j \in 1 .. Len(table) : table[j] = q
          BY <3>10 DEF TableInv, Listed
        <4>2. j # k
          BY <3>6, <3>10, <4>1
        <4>3. CASE j < k
          <5>1. j \in 1 .. Len(rest) /\ rest[j] = table[j]
            BY <1>1, <3>6, <3>8, <4>3
          <5> QED BY <4>1, <5>1
        <4>4. CASE j > k
          <5>1. j - 1 \in 1 .. Len(rest) /\ ~(j - 1 < k) /\ (j - 1) + 1 = j
            BY <1>1, <3>6, <3>8, <4>4
          <5>2. rest[j - 1] = table[j]
            BY <3>8, <5>1
          <5> QED BY <4>1, <5>1, <5>2
        <4> QED BY <3>6, <4>2, <4>3, <4>4
      <3>11. ASSUME NEW i \in 1 .. Len(rest) PROVE Listed(rest[i])
        <4>1. i \in 1 .. Len(table) /\ i + 1 \in 1 .. Len(table)
          BY <1>1, <3>8
        <4>2. rest[i] = table[i] \/ rest[i] = table[i + 1]
          BY <3>8
        <4> QED BY <4>1, <4>2 DEF Listed
      <3> QED BY <3>8, <3>9, <3>10, <3>11
    <2> QED BY <2>1, <2>2
  <1>3. PICK s : s = Append(rest, r)
    OBVIOUS
  <1>4. /\ s \in Seq(Runs) /\ Len(s) = Len(rest) + 1 /\ Len(rest) \in Nat
        /\ s[Len(rest) + 1] = r /\ \A i \in 1 .. Len(rest) : s[i] = rest[i]
    BY <1>3
  <1>5. \E i \in 1 .. Len(s) : s[i] = r
    BY <1>4
  <1>6. \A q \in Runs : status[q] = "RUNNING" => \E i \in 1 .. Len(s) : s[i] = q
    BY <1>2, <1>4
  <1>7. \A i \in 1 .. Len(s) : s[i] = r \/ Listed(s[i])
    <2>1. ASSUME NEW i \in 1 .. Len(s) PROVE s[i] = r \/ Listed(s[i])
      <3>1. i = Len(rest) + 1 \/ i \in 1 .. Len(rest)
        BY <1>4
      <3> QED BY <1>2, <1>4, <3>1
    <2> QED BY <2>1
  <1> QED BY <1>2, <1>3, <1>4, <1>5, <1>6, <1>7

LEMMA TableInvInit == Table!Init => TableInv
  BY DEF Table!Init, Table!None, TableInv

LEMMA StartKeepsTable ==
    ASSUME TableInv, NEW r \in Runs, NEW c, Table!Start(r, c) PROVE TableInv'
  <1>1. PICK x \in {"RUNNING", "none"} : runExec' = [runExec EXCEPT ![r] = x]
    <2>1. runExec[r] = "none"
      BY DEF Table!Start, Table!None, TableInv
    <2>2. runExec' = [runExec EXCEPT ![r] = IF c \in Conversations THEN "RUNNING" ELSE runExec[r]]
      BY DEF Table!Start
    <2> QED BY <2>1, <2>2
  <1>2. /\ Table!HasRoom /\ status' = [status EXCEPT ![r] = "RUNNING"]
        /\ runWorker' = [runWorker EXCEPT ![r] = "running"] /\ table' = Table!Remembered(r)
        /\ home' = [home EXCEPT ![r] = workspace] /\ UNCHANGED <<workspace, cancel>>
    BY DEF Table!Start
  <1>3. /\ table' \in Seq(Runs) /\ \E i \in 1 .. Len(table') : table'[i] = r
        /\ \A q \in Runs : status[q] = "RUNNING" => \E i \in 1 .. Len(table') : table'[i] = q
        /\ \A i \in 1 .. Len(table') : table'[i] = r \/ Listed(table'[i])
    <2>1. /\ Table!Remembered(r) \in Seq(Runs)
          /\ \E i \in 1 .. Len(Table!Remembered(r)) : Table!Remembered(r)[i] = r
          /\ \A q \in Runs : status[q] = "RUNNING" =>
                \E i \in 1 .. Len(Table!Remembered(r)) : Table!Remembered(r)[i] = q
          /\ \A i \in 1 .. Len(Table!Remembered(r)) :
                Table!Remembered(r)[i] = r \/ Listed(Table!Remembered(r)[i])
      BY <1>2, RememberedKeepsRunning
    <2> QED BY <1>2, <2>1, Zenon
  <1>4. /\ status' \in [Runs -> Table!Ended \cup {"none", "RUNNING", "CANCELLING"}]
        /\ runWorker' \in [Runs -> Table!Ended \cup {"none", "running", "done"}]
        /\ runExec' \in [Runs -> Table!Ended \cup {"none", "RUNNING"}]
        /\ home' \in [Runs -> Nat] /\ runWorker'[r] = "running" /\ home'[r] = workspace
        /\ status'[r] = "RUNNING"
        /\ \A q \in Runs \ {r} : /\ status'[q] = status[q] /\ runWorker'[q] = runWorker[q]
                                 /\ runExec'[q] = runExec[q] /\ home'[q] = home[q]
    BY <1>1, <1>2 DEF TableInv
  <1>5. \A q \in Runs : status'[q] = "RUNNING" => Listed(q)'
    BY <1>3, <1>4 DEF Listed
  <1>6. \A q \in Runs \ {r} : Listed(q)' => Listed(q)
    BY <1>3 DEF Listed
  <1>7. /\ \A q \in Runs : runWorker'[q] = "none" => runExec'[q] = "none"
        /\ \A q \in Runs : runWorker'[q] = "running" => status'[q] \in {"RUNNING", "CANCELLING"}
        /\ \A q \in Runs : status'[q] = "CANCELLING" => q \in cancel'
    BY <1>2, <1>4 DEF TableInv
  <1>8. \A q \in Runs : runExec'[q] = "RUNNING" /\ (runWorker'[q] # "running" \/ home'[q] # workspace')
                            => q \in cancel' /\ ~Listed(q)'
    BY <1>2, <1>4, <1>6 DEF TableInv
  <1> QED BY <1>2, <1>3, <1>4, <1>5, <1>7, <1>8 DEF TableInv, Table!Ended

\* The table, the open workspace and the runs to cancel are as before.
LEMMA QuietTable ==
    ASSUME TableInv, NEW r \in Runs, UNCHANGED <<table, workspace, cancel>>,
           status' \in [Runs -> Table!Ended \cup {"none", "RUNNING", "CANCELLING"}],
           runWorker' \in [Runs -> Table!Ended \cup {"none", "running", "done"}],
           runExec' \in [Runs -> Table!Ended \cup {"none", "RUNNING"}], home' \in [Runs -> Nat],
           \A q \in Runs \ {r} : /\ status'[q] = status[q] /\ runWorker'[q] = runWorker[q]
                                /\ runExec'[q] = runExec[q] /\ home'[q] = home[q],
           runWorker'[r] \notin {"none", "running"},
           status'[r] \in {"RUNNING", "CANCELLING"} => status'[r] = status[r],
           runExec'[r] = "RUNNING" => r \in cancel /\ ~Listed(r)
    PROVE  TableInv'
  <1>1. \A q \in Runs : Listed(q)' <=> Listed(q)
    BY DEF Listed
  <1>2. \A q \in Runs : /\ runWorker'[q] = "none" => runExec'[q] = "none"
                        /\ runWorker'[q] = "running" => status'[q] \in {"RUNNING", "CANCELLING"}
                        /\ status'[q] = "CANCELLING" => q \in cancel'
    BY DEF TableInv
  <1>3. \A q \in Runs : status'[q] = "RUNNING" => Listed(q)'
    BY <1>1 DEF TableInv
  <1>4. \A q \in Runs : runExec'[q] = "RUNNING" /\ (runWorker'[q] # "running" \/ home'[q] # workspace')
                            => q \in cancel' /\ ~Listed(q)'
    BY <1>1 DEF TableInv
  <1>5. table' \in Seq(Runs) /\ workspace' \in Nat
    BY DEF TableInv
  <1> QED BY <1>2, <1>3, <1>4, <1>5 DEF TableInv, Table!Ended

LEMMA RefusedKeepsTable ==
    ASSUME TableInv, NEW r \in Runs, NEW c, Table!Refused(r, c) PROVE TableInv'
  <1>1. PICK x \in {"FAILED", "none"} : runExec' = [runExec EXCEPT ![r] = x]
    <2>1. runExec[r] = "none"
      BY DEF Table!Refused, Table!None, TableInv
    <2>2. runExec' = [runExec EXCEPT ![r] = IF c \in Conversations THEN "FAILED" ELSE runExec[r]]
      BY DEF Table!Refused
    <2> QED BY <2>1, <2>2
  <1>2. /\ runWorker' = [runWorker EXCEPT ![r] = "done"]
        /\ home' = [home EXCEPT ![r] = workspace] /\ UNCHANGED <<workspace, status, table, cancel>>
    BY DEF Table!Refused
  <1>3. /\ runWorker' \in [Runs -> Table!Ended \cup {"none", "running", "done"}]
        /\ runExec' \in [Runs -> Table!Ended \cup {"none", "RUNNING"}]
        /\ home' \in [Runs -> Nat] /\ runWorker'[r] = "done" /\ runExec'[r] # "RUNNING"
        /\ \A q \in Runs \ {r} : /\ runWorker'[q] = runWorker[q]
                                 /\ runExec'[q] = runExec[q] /\ home'[q] = home[q]
    BY <1>1, <1>2 DEF TableInv, Table!Ended
  <1>4. status \in [Runs -> Table!Ended \cup {"none", "RUNNING", "CANCELLING"}]
    BY DEF TableInv
  <1> QED BY <1>2, <1>3, <1>4, QuietTable

LEMMA WorkerEndsKeepsTable ==
    ASSUME TableInv, NEW r \in Runs, NEW s \in Table!Ended, Table!WorkerEnds(r, s) PROVE TableInv'
  <1>1. PICK x \in Table!Ended \cup {"none", "RUNNING"}, y \in Table!Ended :
           /\ runExec' = [runExec EXCEPT ![r] = x] /\ runWorker' = [runWorker EXCEPT ![r] = y]
           /\ x = "RUNNING" => home[r] # workspace /\ runExec[r] = "RUNNING"
    <2>1. PICK e : e = Table!Ends(r, s)
      OBVIOUS
    <2>2. CASE runExec[r] = "RUNNING" /\ home[r] = workspace
      <3>1. e = <<IF s = "PARTIAL" THEN "COMPLETED" ELSE s, s>>
        BY <2>1, <2>2 DEF Table!Ends
      <3>2. e[1] \in Table!Ended /\ e[2] \in Table!Ended /\ e[1] # "RUNNING"
        BY <3>1 DEF Table!Ended
      <3> QED BY <2>1, <3>2 DEF Table!WorkerEnds
    <2>3. CASE runExec[r] = "RUNNING" /\ home[r] # workspace
      <3>1. e = <<"RUNNING", "FAILED">>
        BY <2>1, <2>3 DEF Table!Ends
      <3>2. e[1] = "RUNNING" /\ e[2] \in Table!Ended
        BY <3>1 DEF Table!Ended
      <3> QED BY <2>1, <2>3, <3>2 DEF Table!WorkerEnds
    <2>4. CASE runExec[r] # "RUNNING"
      <3>1. e = <<runExec[r], s>>
        BY <2>1, <2>4 DEF Table!Ends
      <3>2. e[1] = runExec[r] /\ e[2] = s
        BY <3>1
      <3> QED BY <2>1, <2>4, <3>2 DEF Table!WorkerEnds, TableInv
    <2> QED BY <2>2, <2>3, <2>4
  <1>2. UNCHANGED <<workspace, status, table, home, cancel>>
    BY DEF Table!WorkerEnds
  <1>3. /\ runWorker' \in [Runs -> Table!Ended \cup {"none", "running", "done"}]
        /\ runExec' \in [Runs -> Table!Ended \cup {"none", "RUNNING"}]
        /\ runWorker'[r] = y /\ y \notin {"none", "running"} /\ runExec'[r] = x
        /\ \A q \in Runs \ {r} : runWorker'[q] = runWorker[q] /\ runExec'[q] = runExec[q]
    BY <1>1 DEF TableInv, Table!Ended
  <1>4. x = "RUNNING" => r \in cancel /\ ~Listed(r)
    BY <1>1 DEF TableInv
  <1>5. /\ status \in [Runs -> Table!Ended \cup {"none", "RUNNING", "CANCELLING"}]
        /\ home \in [Runs -> Nat]
    BY DEF TableInv
  <1> QED BY <1>2, <1>3, <1>4, <1>5, QuietTable

LEMMA FinishStateKeepsTable ==
    ASSUME TableInv, NEW r \in Runs, Table!FinishState(r) PROVE TableInv'
  <1>1. PICK y \in Table!Ended :
           /\ status' = [status EXCEPT ![r] = y] /\ runWorker' = [runWorker EXCEPT ![r] = "done"]
           /\ runWorker[r] = y
    BY DEF Table!FinishState
  <1>2. UNCHANGED <<table, runExec, workspace, home, cancel>>
    BY DEF Table!FinishState
  <1>3. /\ status' \in [Runs -> Table!Ended \cup {"none", "RUNNING", "CANCELLING"}]
        /\ runWorker' \in [Runs -> Table!Ended \cup {"none", "running", "done"}]
        /\ status'[r] \notin {"RUNNING", "CANCELLING"} /\ runWorker'[r] = "done"
        /\ runWorker[r] # "running"
        /\ \A q \in Runs \ {r} : status'[q] = status[q] /\ runWorker'[q] = runWorker[q]
    BY <1>1 DEF TableInv, Table!Ended
  <1>4. runExec'[r] = "RUNNING" => r \in cancel /\ ~Listed(r)
    BY <1>2, <1>3 DEF TableInv
  <1>5. runExec' \in [Runs -> Table!Ended \cup {"none", "RUNNING"}] /\ home' \in [Runs -> Nat]
    BY <1>2 DEF TableInv
  <1> QED BY <1>2, <1>3, <1>4, <1>5, QuietTable

LEMMA CancelKeepsTable ==
    ASSUME TableInv, NEW r \in Runs, Table!Cancel(r) PROVE TableInv'
  <1>1. /\ status' = [status EXCEPT ![r] = "CANCELLING"] /\ cancel' = cancel \cup {r}
        /\ UNCHANGED <<table, runWorker, runExec, workspace, home>> /\ status[r] = "RUNNING"
    BY DEF Table!Cancel
  <1>2. /\ status' \in [Runs -> Table!Ended \cup {"none", "RUNNING", "CANCELLING"}]
        /\ \A q \in Runs : status'[q] = IF q = r THEN "CANCELLING" ELSE status[q]
    BY <1>1 DEF TableInv
  <1>3. \A q \in Runs : Listed(q)' <=> Listed(q)
    BY <1>1 DEF Listed
  <1> QED BY <1>1, <1>2, <1>3 DEF TableInv, Table!Ended

\* Whoever is at work when another workspace is opened is not in the table, and so
\* was cancelled.
LEMMA SwitchKeepsTable ==
    ASSUME TableInv, NEW w \in Nat, Table!SwitchWorkspace(w) PROVE TableInv'
  <1>1. workspace' = w /\ UNCHANGED <<status, table, runWorker, runExec, home, cancel>>
    BY DEF Table!SwitchWorkspace
  <1>2. \A r \in Runs : Listed(r) => status[r] \notin {"RUNNING", "CANCELLING"}
    <2>1. Table!ToSet(table) = {table[i] : i \in 1 .. Len(table)}
      BY TableOperators DEF TableInv
    <2> QED BY <2>1 DEF Table!SwitchWorkspace, Listed
  <1>3. \A r \in Runs : Listed(r)' <=> Listed(r)
    BY <1>1 DEF Listed
  <1>4. \A r \in Runs : runWorker[r] = "running" => r \in cancel /\ ~Listed(r)
    BY <1>2 DEF TableInv
  <1>5. \A r \in Runs : runExec[r] = "RUNNING" => r \in cancel /\ ~Listed(r)
    BY <1>4 DEF TableInv
  <1> QED BY <1>1, <1>3, <1>5 DEF TableInv, Table!Ended

LEMMA TableInvStep ==
    ASSUME TableInv, [Table!Next]_(Table!vars) PROVE TableInv'
  <1>1. ASSUME NEW w \in 0 .. MaxWorkspace, Table!SwitchWorkspace(w) PROVE TableInv'
    BY <1>1, SwitchKeepsTable
  <1>2. CASE UNCHANGED Table!vars
    <2>1. UNCHANGED <<status, table, runWorker, runExec, workspace, home, cancel>>
      BY <1>2 DEF Table!vars
    <2>2. \A r \in Runs : Listed(r)' <=> Listed(r)
      BY <2>1 DEF Listed
    <2> QED BY <2>1, <2>2 DEF TableInv, Table!Ended
  <1> QED BY <1>1, <1>2, StartKeepsTable, RefusedKeepsTable, WorkerEndsKeepsTable,
             FinishStateKeepsTable, CancelKeepsTable, Zenon DEF Table!Next

\* No execution of subagents is left without a worker, except that of a cancelled
\* run that was evicted from the table, and a running run stays in the bounded
\* table, for any number of runs and workspaces, opened in any order.
THEOREM SubagentRunsAreTracked == Table!Spec => []RunsAreTracked
  <1>1. TableInv => RunsAreTracked
    <2> SUFFICES ASSUME TableInv PROVE RunsAreTracked
      OBVIOUS
    <2>1. Table!ToSet(table) = {table[i] : i \in 1 .. Len(table)}
      BY TableOperators DEF TableInv
    <2>2. Table!RunningRunIsKnown
      BY <2>1 DEF Table!RunningRunIsKnown, TableInv, Listed
    <2>3. Table!NoOrphanExecution
      BY <2>1 DEF Table!NoOrphanExecution, TableInv, Listed
    <2> QED BY <2>2, <2>3 DEF RunsAreTracked
  <1> QED BY <1>1, TableInvInit, TableInvStep, PTL DEF Table!Spec

-----------------------------------------------------------------------------
(* MCP servers.                                                            *)

RequestPlaces == {"idle", "stop", "activate", "registered", "synced", "saving", "undo", "abandon"}
WatcherPlaces == {"off", "subscribe", "refresh", "callback", "listen"}
CatalogType == [tools : SUBSET Tools, grants : SUBSET Tools, there : BOOLEAN]
CitedRequest == [at : RequestPlaces, revision : Nat, tools : SUBSET Tools, grants : SUBSET Tools]

\* An activation carries the catalogue it was tested with.
RequestIsSound ==
    /\ request.at \in RequestPlaces
    /\ request.at = "idle" => request = Server!Idle
    /\ request.at \in {"activate", "registered", "synced", "saving"} =>
          request \in CitedRequest /\ request.grants \subseteq request.tools

ServerTyped ==
    /\ advertised \in SUBSET Tools
    /\ server \in [approved : BOOLEAN, enabled : BOOLEAN]
    /\ revision \in Nat /\ snapshots \subseteq [revision : Nat, tools : SUBSET Tools]
    /\ known \in CatalogType /\ runtimeReg \in CatalogType
    /\ watcher \in [at : WatcherPlaces, first : BOOLEAN, tries : Nat]
    /\ provider \in BOOLEAN /\ overdue \in BOOLEAN /\ strayed \in BOOLEAN

\* The registry of the runtime is the accepted catalogue, or one that the watcher is
\* about to have accepted, which grants nothing new and nothing that was lost.
GrantsAreSound ==
    /\ Server!LockFree => runtimeReg = known
    /\ runtimeReg.grants \subseteq known.grants /\ runtimeReg.grants \subseteq runtimeReg.tools
    /\ known.grants \subseteq known.tools /\ known.grants \cap lost = {}

\* Where a request is tells what runs: the watcher of a server starts after the host
\* has its tools, and a test that is still good tells of a server that does not run,
\* or that should not.
ActivationIsOrdered ==
    /\ request.at \in {"registered", "synced", "saving", "undo"} => provider /\ ~ overdue
    /\ request.at = "activate" => ~ provider \/ overdue
    /\ request.at \in {"registered", "synced"} => watcher.at = "off"
    /\ request.at = "registered" => known = Server!Catalog(request.tools, request.grants)
    /\ ~ provider => watcher.at = "off" /\ known = Server!Nothing
    /\ request.at \in {"synced", "saving"} => hostReg = known
    /\ request.at = "idle" /\ provider /\ ~ overdue =>
          hostReg = known /\ snapshots = {} /\ server.approved /\ server.enabled

\* Tools in the host's registry while no server should run were left there by a stop
\* or by an undo.
StraysAreKnown ==
    /\ request.at \in {"stop", "activate", "registered", "abandon"} =>
          hostReg = Server!Nothing \/ strayed
    /\ request.at = "idle" /\ ~ provider => hostReg = Server!Nothing \/ strayed
    /\ overdue /\ request.at # "stop" => strayed

ServerInv ==
    RequestIsSound /\ ServerTyped /\ GrantsAreSound /\ ActivationIsOrdered /\ StraysAreKnown

LEMMA ServerConstants == ReadOnly \subseteq Tools /\ Attempts \in Nat \ {0}
  BY AgentsAssumption DEF Server!McpAssumption

LEMMA ServerRecords ==
    /\ Server!Nothing \in CatalogType /\ Server!Nothing.grants = {} /\ Server!Nothing.tools = {}
    /\ \A t, g \in SUBSET Tools : /\ Server!Catalog(t, g) \in CatalogType
                                  /\ Server!Catalog(t, g).tools = t /\ Server!Catalog(t, g).grants = g
    /\ Server!Off \in [at : WatcherPlaces, first : BOOLEAN, tries : Nat] /\ Server!Off.at = "off"
    /\ \A p \in WatcherPlaces : /\ Server!At(p) \in [at : WatcherPlaces, first : BOOLEAN, tries : Nat]
                                /\ Server!At(p).at = p
    /\ Server!Idle.at = "idle"
  <1>1. /\ Server!Nothing \in CatalogType /\ Server!Nothing.grants = {} /\ Server!Nothing.tools = {}
        /\ Server!Idle.at = "idle"
    BY DEF Server!Nothing, Server!Idle, CatalogType
  <1>2. \A t, g \in SUBSET Tools : /\ Server!Catalog(t, g) \in CatalogType
                                   /\ Server!Catalog(t, g).tools = t /\ Server!Catalog(t, g).grants = g
    BY DEF Server!Catalog, CatalogType
  <1>3. Server!Off \in [at : WatcherPlaces, first : BOOLEAN, tries : Nat] /\ Server!Off.at = "off"
    BY DEF Server!Off, WatcherPlaces
  <1>4. \A p \in WatcherPlaces : /\ Server!At(p) \in [at : WatcherPlaces, first : BOOLEAN, tries : Nat]
                                 /\ Server!At(p).at = p
    BY DEF Server!At, Server!Off
  <1> QED BY <1>1, <1>2, <1>3, <1>4

LEMMA ServerInvInit == Server!Init => ServerInv
  <1> SUFFICES ASSUME Server!Init PROVE ServerInv
    OBVIOUS
  <1>1. /\ advertised \in SUBSET Tools /\ revision = 0 /\ snapshots = {} /\ request = Server!Idle
        /\ provider = FALSE /\ known = Server!Nothing /\ runtimeReg = Server!Nothing
        /\ watcher = Server!Off /\ lost = {}
        /\ server = [approved |-> FALSE, enabled |-> FALSE]
        /\ hostReg = Server!Nothing /\ overdue = FALSE /\ strayed = FALSE
    BY DEF Server!Init
  <1>2. request.at = "idle" /\ watcher.at = "off" /\ known.grants = {} /\ known.tools = {}
    BY <1>1, ServerRecords
  <1>3. RequestIsSound
    BY <1>1, <1>2 DEF RequestIsSound, RequestPlaces
  <1>4. ServerTyped
    BY <1>1, ServerRecords DEF ServerTyped
  <1>5. GrantsAreSound
    BY <1>1, <1>2 DEF GrantsAreSound
  <1>6. ActivationIsOrdered /\ StraysAreKnown
    BY <1>1, <1>2 DEF ActivationIsOrdered, StraysAreKnown
  <1> QED BY <1>3, <1>4, <1>5, <1>6 DEF ServerInv

\* Tool calls, other records and changes of the catalogue.
LEMMA QuietKeepsServer ==
    ASSUME ServerInv, advertised' \in SUBSET Tools, revision' \in Nat,
           UNCHANGED <<request, server, snapshots, provider, known, runtimeReg, hostReg, watcher, lost,
                       overdue, strayed>>
    PROVE  ServerInv'
  <1>1. RequestIsSound'
    BY DEF ServerInv, RequestIsSound, RequestPlaces, CitedRequest, Server!Idle
  <1>2. ServerTyped'
    BY DEF ServerInv, ServerTyped, CatalogType, WatcherPlaces
  <1>3. GrantsAreSound'
    BY DEF ServerInv, GrantsAreSound, Server!LockFree
  <1>4. ActivationIsOrdered' /\ StraysAreKnown'
    BY DEF ServerInv, ActivationIsOrdered, StraysAreKnown, Server!Catalog, Server!Nothing
  <1> QED BY <1>1, <1>2, <1>3, <1>4 DEF ServerInv

\* The server and its watcher are stopped.
LEMMA StoppedKeepsServer ==
    ASSUME ServerInv, provider' = FALSE, known' = Server!Nothing, runtimeReg' = Server!Nothing,
           watcher' = Server!Off, lost' = {}, overdue' = FALSE, strayed' \in BOOLEAN,
           UNCHANGED <<advertised, server, revision>>,
           snapshots' \subseteq snapshots, hostReg' = Server!Nothing \/ strayed',
           request'.at \in {"idle", "abandon"}, request'.at = "idle" => request' = Server!Idle
    PROVE  ServerInv'
  <1>1. watcher'.at = "off" /\ known'.grants = {} /\ runtimeReg'.grants = {}
    BY ServerRecords
  <1>2. RequestIsSound'
    BY DEF RequestIsSound, RequestPlaces, Server!Idle
  <1>3. ServerTyped'
    BY ServerRecords, Zenon DEF ServerInv, ServerTyped, CatalogType, WatcherPlaces
  <1>4. GrantsAreSound'
    BY <1>1 DEF GrantsAreSound
  <1>5. ActivationIsOrdered'
    BY <1>1 DEF ActivationIsOrdered, Server!Nothing
  <1>6. StraysAreKnown'
    BY DEF StraysAreKnown, Server!Nothing
  <1> QED BY <1>2, <1>3, <1>4, <1>5, <1>6 DEF ServerInv

\* The watcher moves on, and no registry changes.
LEMMA WatcherKeepsServer ==
    ASSUME ServerInv, watcher.at \notin {"off", "callback"},
           watcher' \in [at : WatcherPlaces, first : BOOLEAN, tries : Nat],
           watcher'.at \notin {"off", "callback"},
           UNCHANGED <<request, advertised, server, revision, snapshots, provider, known, runtimeReg,
                       hostReg, lost, overdue, strayed>>
    PROVE  ServerInv'
  <1>1. RequestIsSound'
    BY DEF ServerInv, RequestIsSound, RequestPlaces, CitedRequest, Server!Idle
  <1>2. ServerTyped'
    BY DEF ServerInv, ServerTyped, CatalogType, WatcherPlaces
  <1>3. GrantsAreSound'
    BY DEF ServerInv, GrantsAreSound, Server!LockFree
  <1>4. ActivationIsOrdered' /\ StraysAreKnown'
    BY DEF ServerInv, ActivationIsOrdered, StraysAreKnown, Server!Catalog, Server!Nothing
  <1> QED BY <1>1, <1>2, <1>3, <1>4 DEF ServerInv

\* The steps of an activation.
LEMMA ActivationKeepsServer ==
    ASSUME ServerInv,
           \/ \E s \in snapshots, g \in SUBSET ReadOnly : Server!Activate(s, g)
           \/ Server!RuntimeActivate \/ Server!SyncHost \/ Server!StartNotifications \/ Server!Save
    PROVE  ServerInv'
  <1>1. RequestIsSound /\ ServerTyped /\ GrantsAreSound /\ ActivationIsOrdered /\ StraysAreKnown
    BY DEF ServerInv
  <1>2. ASSUME NEW s \in snapshots, NEW g \in SUBSET ReadOnly, Server!Activate(s, g) PROVE ServerInv'
    <2>1. /\ request = Server!Idle /\ g \subseteq s.tools \cap ReadOnly
          /\ snapshots' = snapshots \ {s}
          /\ request' = [at |-> "activate", revision |-> revision, tools |-> s.tools, grants |-> g]
      BY <1>2 DEF Server!Activate
    <2>2. UNCHANGED <<advertised, server, revision, provider, known, runtimeReg, hostReg, watcher, lost,
                      overdue, strayed>>
      BY <1>2 DEF Server!Activate, Server!server, Server!runtime, Server!history
    <2>3. (~ provider \/ overdue) /\ (hostReg = Server!Nothing \/ strayed)
      <3>1. request.at = "idle" /\ snapshots # {}
        BY <2>1, ServerRecords
      <3>2. ~ provider \/ overdue
        BY <1>1, <3>1 DEF ActivationIsOrdered
      <3> QED BY <1>1, <3>1, <3>2 DEF StraysAreKnown
    <2>4. s.tools \in SUBSET Tools /\ revision \in Nat /\ g \in SUBSET Tools
      BY <1>1, <2>1, ServerConstants DEF ServerTyped
    <2>5. /\ request' \in CitedRequest /\ request'.at = "activate"
          /\ request'.grants \subseteq request'.tools
      BY <2>1, <2>4 DEF CitedRequest, RequestPlaces
    <2>6. RequestIsSound'
      BY <2>5 DEF RequestIsSound, RequestPlaces, CitedRequest
    <2>7. ServerTyped'
      BY <1>1, <2>1, <2>2 DEF ServerTyped, CatalogType, WatcherPlaces
    <2>8. GrantsAreSound'
      BY <1>1, <2>2 DEF GrantsAreSound, Server!LockFree
    <2>9. ActivationIsOrdered'
      BY <1>1, <2>2, <2>3, <2>5 DEF ActivationIsOrdered, Server!Nothing
    <2>10. StraysAreKnown'
      <3>1. overdue => strayed
        BY <1>1, <2>1, ServerRecords DEF StraysAreKnown
      <3> QED BY <2>2, <2>3, <2>5, <3>1 DEF StraysAreKnown, Server!Nothing
    <2> QED BY <2>6, <2>7, <2>8, <2>9, <2>10 DEF ServerInv
  <1>3. ASSUME NEW p \in RequestPlaces \ {"idle"}, request' = [request EXCEPT !.at = p],
               request.at \in {"activate", "registered", "synced", "saving"}
        PROVE  /\ RequestIsSound' /\ request'.at = p
               /\ request'.tools = request.tools /\ request'.grants = request.grants
               /\ request.tools \in SUBSET Tools /\ request.grants \in SUBSET Tools
               /\ request.grants \subseteq request.tools
    <2>1. request \in CitedRequest /\ request.grants \subseteq request.tools
      BY <1>1, <1>3 DEF RequestIsSound
    <2>2. /\ request' \in CitedRequest /\ request'.at = p
          /\ request'.tools = request.tools /\ request'.grants = request.grants
          /\ request.tools \in SUBSET Tools /\ request.grants \in SUBSET Tools
      BY <1>3, <2>1 DEF CitedRequest
    <2>3. RequestIsSound'
      BY <2>1, <2>2 DEF RequestIsSound, RequestPlaces, CitedRequest
    <2> QED BY <2>1, <2>2, <2>3
  <1>4. ASSUME Server!RuntimeActivate PROVE ServerInv'
    <2>1. /\ request.at = "activate" /\ Server!LockFree /\ provider' = TRUE
          /\ known' = Server!Catalog(request.tools, request.grants) /\ runtimeReg' = known'
          /\ lost' = {} /\ request' = [request EXCEPT !.at = "registered"]
          /\ watcher' = Server!Off /\ overdue' = FALSE
      BY <1>4 DEF Server!RuntimeActivate
    <2>2. UNCHANGED <<advertised, server, revision, snapshots, hostReg, strayed>>
      BY <1>4 DEF Server!RuntimeActivate, Server!server, Server!state
    <2>3. /\ RequestIsSound' /\ request'.at = "registered"
          /\ request'.tools = request.tools /\ request'.grants = request.grants
          /\ request.tools \in SUBSET Tools /\ request.grants \in SUBSET Tools
          /\ request.grants \subseteq request.tools
      BY <1>3, <2>1 DEF RequestPlaces
    <2>4. /\ known' \in CatalogType /\ known'.tools = request.tools /\ known'.grants = request.grants
      BY <2>1, <2>3, ServerRecords
    <2>5. watcher'.at = "off" /\ watcher' \in [at : WatcherPlaces, first : BOOLEAN, tries : Nat]
      BY <2>1, ServerRecords
    <2>6. ServerTyped'
      BY <1>1, <2>1, <2>2, <2>4, <2>5, Zenon DEF ServerTyped, CatalogType, WatcherPlaces
    <2>7. GrantsAreSound'
      BY <2>1, <2>3, <2>4 DEF GrantsAreSound
    <2>8. Server!Catalog(request'.tools, request'.grants) = known'
      BY <2>1, <2>3
    <2>9. ActivationIsOrdered'
      BY <2>1, <2>2, <2>3, <2>5, <2>8 DEF ActivationIsOrdered, Server!Catalog
    <2>10. StraysAreKnown'
      BY <1>1, <2>1, <2>2, <2>3 DEF StraysAreKnown, Server!Nothing
    <2> QED BY <2>3, <2>6, <2>7, <2>9, <2>10 DEF ServerInv
  <1>5. ASSUME Server!SyncHost PROVE ServerInv'
    <2>1. /\ request.at = "registered" /\ request' = [request EXCEPT !.at = "synced"]
          /\ hostReg' = Server!Catalog(request.tools, request.grants) /\ strayed' = FALSE
      BY <1>5 DEF Server!SyncHost
    <2>2. UNCHANGED <<advertised, server, revision, snapshots, provider, known, runtimeReg, watcher, lost,
                      overdue>>
      BY <1>5 DEF Server!SyncHost, Server!server, Server!state
    <2>3. RequestIsSound' /\ request'.at = "synced"
      BY <1>3, <2>1 DEF RequestPlaces
    <2>4. ServerTyped'
      BY <1>1, <2>1, <2>2 DEF ServerTyped, CatalogType, WatcherPlaces
    <2>5. GrantsAreSound'
      BY <1>1, <2>2 DEF GrantsAreSound, Server!LockFree
    <2>6. ActivationIsOrdered' /\ ~ overdue'
      BY <1>1, <2>1, <2>2, <2>3 DEF ActivationIsOrdered, Server!Nothing
    <2>7. StraysAreKnown'
      BY <2>3, <2>6 DEF StraysAreKnown
    <2> QED BY <2>3, <2>4, <2>5, <2>6, <2>7 DEF ServerInv
  <1>6. ASSUME Server!StartNotifications PROVE ServerInv'
    <2>1. /\ request.at = "synced" /\ request' = [request EXCEPT !.at = "saving"]
          /\ watcher' = Server!At("subscribe") \/ watcher' = Server!Off
      BY <1>6 DEF Server!StartNotifications
    <2>2. UNCHANGED <<advertised, server, revision, snapshots, provider, known, runtimeReg, hostReg, lost,
                      overdue, strayed>>
      BY <1>6 DEF Server!StartNotifications, Server!server, Server!state, Server!history
    <2>3. RequestIsSound' /\ request'.at = "saving"
      BY <1>3, <2>1 DEF RequestPlaces
    <2>4. /\ watcher' \in [at : WatcherPlaces, first : BOOLEAN, tries : Nat]
          /\ watcher'.at # "callback"
      <3>1. "subscribe" \in WatcherPlaces
        BY DEF WatcherPlaces
      <3> QED BY <2>1, <3>1, ServerRecords
    <2>5. ServerTyped'
      BY <1>1, <2>2, <2>4 DEF ServerTyped, CatalogType, WatcherPlaces
    <2>6. runtimeReg = known
      BY <1>1, <2>1 DEF ActivationIsOrdered, GrantsAreSound, Server!LockFree
    <2>7. GrantsAreSound'
      BY <1>1, <2>2, <2>6 DEF GrantsAreSound
    <2>8. ActivationIsOrdered' /\ ~ overdue'
      BY <1>1, <2>1, <2>2, <2>3 DEF ActivationIsOrdered
    <2>9. StraysAreKnown'
      BY <2>3, <2>8 DEF StraysAreKnown
    <2> QED BY <2>3, <2>5, <2>7, <2>8, <2>9 DEF ServerInv
  <1>7. ASSUME Server!Save PROVE ServerInv'
    <2>1. /\ request.at = "saving" /\ server' = [approved |-> TRUE, enabled |-> TRUE]
          /\ revision' = revision + 1 /\ snapshots' = {} /\ request' = Server!Idle
      BY <1>7 DEF Server!Save
    <2>2. UNCHANGED <<advertised, provider, known, runtimeReg, hostReg, watcher, lost, overdue, strayed>>
      BY <1>7 DEF Server!Save, Server!server, Server!runtime, Server!history
    <2>3. request'.at = "idle"
      BY <2>1, ServerRecords
    <2>4. RequestIsSound'
      BY <2>1, <2>3 DEF RequestIsSound, RequestPlaces, Server!Idle
    <2>5. server' \in [approved : BOOLEAN, enabled : BOOLEAN] /\ server'.approved /\ server'.enabled
      BY <2>1
    <2>6. ServerTyped'
      BY <1>1, <2>1, <2>2, <2>5 DEF ServerTyped, CatalogType, WatcherPlaces
    <2>7. GrantsAreSound'
      BY <1>1, <2>2 DEF GrantsAreSound, Server!LockFree
    <2>8. ActivationIsOrdered' /\ ~ overdue' /\ provider'
      BY <1>1, <2>1, <2>2, <2>3, <2>5 DEF ActivationIsOrdered
    <2>9. StraysAreKnown'
      BY <2>3, <2>8 DEF StraysAreKnown
    <2> QED BY <2>4, <2>6, <2>7, <2>8, <2>9 DEF ServerInv
  <1> QED BY <1>2, <1>4, <1>5, <1>6, <1>7

\* The steps of the watcher that change a registry.
LEMMA RefreshKeepsServer ==
    ASSUME ServerInv, Server!Refresh \/ Server!Callback \/ Server!RefreshFails PROVE ServerInv'
  <1>1. RequestIsSound /\ ServerTyped /\ GrantsAreSound /\ ActivationIsOrdered /\ StraysAreKnown
    BY DEF ServerInv
  <1>2. /\ watcher.at \in {"refresh", "callback"}
        /\ UNCHANGED <<request, advertised, server, revision, snapshots, provider, overdue>>
        /\ UNCHANGED <<hostReg, strayed>> \/ strayed' = (strayed \/ request.at \in {"stop", "abandon"})
    BY DEF Server!Refresh, Server!Callback, Server!RefreshFails, Server!server, Server!state,
           Server!history
  <1>3. provider /\ request.at \notin {"registered", "synced"}
    BY <1>1, <1>2 DEF ActivationIsOrdered
  <1>4. RequestIsSound'
    BY <1>1, <1>2 DEF RequestIsSound, RequestPlaces, CitedRequest, Server!Idle
  <1>5. /\ known \in CatalogType /\ runtimeReg \in CatalogType
        /\ watcher \in [at : WatcherPlaces, first : BOOLEAN, tries : Nat]
    BY <1>1 DEF ServerTyped
  <1>6. ASSUME known' \in CatalogType, runtimeReg' \in CatalogType,
               watcher' \in [at : WatcherPlaces, first : BOOLEAN, tries : Nat], watcher'.at # "off",
               request.at \in {"idle", "saving"} /\ ~ overdue => hostReg' = known', GrantsAreSound'
        PROVE  ServerInv'
    <2>0. strayed' \in BOOLEAN /\ (strayed => strayed')
      <3>1. CASE UNCHANGED <<hostReg, strayed>>
        BY <1>1, <3>1 DEF ServerTyped
      <3>2. CASE strayed' = (strayed \/ request.at \in {"stop", "abandon"})
        BY <3>2, Zenon
      <3> QED BY <1>2, <3>1, <3>2, Zenon
    <2>1. ServerTyped'
      BY <1>1, <1>2, <1>6, <2>0 DEF ServerTyped, CatalogType, WatcherPlaces
    <2>2. ActivationIsOrdered'
      BY <1>1, <1>2, <1>3, <1>6 DEF ActivationIsOrdered
    <2>3. request.at \in {"stop", "activate", "abandon"} => hostReg' = Server!Nothing \/ strayed'
      <3>1. CASE /\ request.at \in {"stop", "abandon"}
                 /\ strayed' = (strayed \/ request.at \in {"stop", "abandon"})
        BY <3>1, Zenon
      <3>2. CASE request.at \in {"stop", "abandon"} /\ UNCHANGED <<hostReg, strayed>>
        BY <1>1, <3>2 DEF StraysAreKnown
      <3>3. CASE request.at = "activate"
        BY <1>1, <1>3, <2>0, <3>3 DEF ActivationIsOrdered, StraysAreKnown
      <3> QED BY <1>2, <3>1, <3>2, <3>3
    <2>4. StraysAreKnown'
      BY <1>1, <1>2, <1>3, <2>0, <2>3 DEF StraysAreKnown, Server!Nothing
    <2> QED BY <1>4, <1>6, <2>1, <2>2, <2>4 DEF ServerInv
  <1>7. \A p \in WatcherPlaces : /\ Server!At(p) \in [at : WatcherPlaces, first : BOOLEAN, tries : Nat]
                                 /\ Server!At(p).at = p
    BY ServerRecords
  <1>8. request.at \in {"idle", "saving"} /\ ~ overdue => hostReg = known
    BY <1>1, <1>3 DEF ActivationIsOrdered
  <1>9. CASE Server!Refresh
    <2>1. watcher.at = "refresh" /\ UNCHANGED <<known, hostReg, lost>>
      BY <1>9 DEF Server!Refresh
    <2>2. runtimeReg = known
      BY <1>1, <2>1 DEF GrantsAreSound, Server!LockFree
    <2>3. CASE watcher' = Server!At("listen") /\ UNCHANGED runtimeReg
      <3>1. /\ watcher' \in [at : WatcherPlaces, first : BOOLEAN, tries : Nat] /\ watcher'.at = "listen"
        BY <1>7, <2>3 DEF WatcherPlaces
      <3>2. GrantsAreSound'
        BY <1>1, <2>1, <2>2, <2>3 DEF GrantsAreSound
      <3> QED BY <1>5, <1>6, <1>8, <2>1, <2>3, <3>1, <3>2
    <2>4. CASE watcher' = [watcher EXCEPT !.at = "callback"] /\ runtimeReg' = Server!Retained
      <3>1. watcher' \in [at : WatcherPlaces, first : BOOLEAN, tries : Nat] /\ watcher'.at = "callback"
        BY <1>5, <2>4 DEF WatcherPlaces
      <3>2. PICK g : g = known.grants \cap advertised \cap ReadOnly
        OBVIOUS
      <3>3. g \in SUBSET Tools /\ advertised \in SUBSET Tools /\ g \subseteq known.grants /\ g \subseteq advertised
        BY <1>1, <3>2, ServerConstants DEF ServerTyped
      <3>4. runtimeReg' = Server!Catalog(advertised, g)
        BY <2>4, <3>2 DEF Server!Retained
      <3>5. runtimeReg' \in CatalogType /\ runtimeReg'.tools = advertised /\ runtimeReg'.grants = g
        BY <3>3, <3>4, ServerRecords
      <3>6. GrantsAreSound'
        BY <1>1, <2>1, <3>1, <3>3, <3>5 DEF GrantsAreSound, Server!LockFree
      <3> QED BY <1>5, <1>6, <1>8, <2>1, <3>1, <3>5, <3>6
    <2> QED BY <1>9, <2>3, <2>4 DEF Server!Refresh
  <1>10. CASE Server!Callback
    <2>1. /\ hostReg' = runtimeReg /\ known' = runtimeReg /\ UNCHANGED runtimeReg
          /\ lost' = lost \cup (known.tools \ runtimeReg.tools) /\ watcher' = Server!At("listen")
      BY <1>10 DEF Server!Callback
    <2>2. watcher' \in [at : WatcherPlaces, first : BOOLEAN, tries : Nat] /\ watcher'.at = "listen"
      BY <1>7, <2>1 DEF WatcherPlaces
    <2>3. GrantsAreSound'
      <3>1. runtimeReg.grants \subseteq known.grants /\ runtimeReg.grants \subseteq runtimeReg.tools
            /\ known.grants \cap lost = {}
        BY <1>1 DEF GrantsAreSound
      <3>2. runtimeReg.grants \cap (lost \cup (known.tools \ runtimeReg.tools)) = {}
        BY <3>1
      <3> QED BY <2>1, <3>1, <3>2 DEF GrantsAreSound
    <2> QED BY <1>5, <1>6, <2>1, <2>2, <2>3
  <1>11. CASE Server!RefreshFails
    <2>1. runtimeReg' = known /\ UNCHANGED <<known, hostReg, lost>>
      BY <1>11 DEF Server!RefreshFails
    <2>2. /\ watcher' \in [at : WatcherPlaces, first : BOOLEAN, tries : Nat]
          /\ watcher'.at \notin {"off", "callback"}
      <3>1. {"subscribe", "listen", "refresh"} \subseteq WatcherPlaces
        BY DEF WatcherPlaces
      <3>2. CASE watcher' = Server!At("subscribe")
        BY <1>7, <3>1, <3>2
      <3>3. CASE watcher' = [Server!At("refresh") EXCEPT !.tries = watcher.tries + 1]
        <4>1. watcher.tries + 1 \in Nat
          BY <1>5
        <4> QED BY <1>7, <3>1, <3>3, <4>1
      <3>4. CASE watcher' = [Server!At("listen") EXCEPT !.tries = Attempts]
        <4>1. Attempts \in Nat
          BY ServerConstants
        <4> QED BY <1>7, <3>1, <3>4, <4>1
      <3> QED BY <1>11, <3>2, <3>3, <3>4, Zenon DEF Server!RefreshFails
    <2>3. known.grants \subseteq known.tools
      BY <1>1 DEF GrantsAreSound
    <2>4. GrantsAreSound'
      BY <1>1, <2>1, <2>3 DEF GrantsAreSound
    <2> QED BY <1>5, <1>6, <1>8, <2>1, <2>2, <2>4
  <1> QED BY <1>9, <1>10, <1>11

LEMMA ServerInvStep ==
    ASSUME ServerInv, [Server!Next]_(Server!vars) PROVE ServerInv'
  <1>1. RequestIsSound /\ ServerTyped /\ GrantsAreSound /\ ActivationIsOrdered /\ StraysAreKnown
    BY DEF ServerInv
  <1>2. advertised \in SUBSET Tools /\ revision \in Nat
    BY <1>1 DEF ServerTyped
  <1>3. ASSUME Server!Test PROVE ServerInv'
    <2>1. /\ ~ provider /\ snapshots' = snapshots \cup {[revision |-> revision, tools |-> advertised]}
          /\ UNCHANGED <<request, advertised, server, revision, provider, known, runtimeReg, hostReg, watcher,
                         lost, overdue, strayed>>
      BY <1>3 DEF Server!Test, Server!server, Server!runtime, Server!history
    <2>2. snapshots' \subseteq [revision : Nat, tools : SUBSET Tools]
      BY <1>1, <1>2, <2>1 DEF ServerTyped
    <2>3. RequestIsSound'
      BY <1>1, <2>1 DEF RequestIsSound, RequestPlaces, CitedRequest, Server!Idle
    <2>4. ServerTyped'
      BY <1>1, <2>1, <2>2 DEF ServerTyped, CatalogType, WatcherPlaces
    <2>5. GrantsAreSound'
      BY <1>1, <2>1 DEF GrantsAreSound, Server!LockFree
    <2>6. ActivationIsOrdered' /\ StraysAreKnown'
      BY <1>1, <2>1 DEF ActivationIsOrdered, StraysAreKnown, Server!Catalog, Server!Nothing
    <2> QED BY <2>3, <2>4, <2>5, <2>6 DEF ServerInv
  <1>4. ASSUME NEW a \in BOOLEAN, Server!SetState(a) PROVE ServerInv'
    <2>1. /\ server' = [approved |-> a, enabled |-> FALSE] /\ revision' = revision + 1 /\ snapshots' = {}
          /\ request' = [at |-> "stop"] /\ hostReg' = Server!Nothing /\ strayed' = FALSE
          /\ UNCHANGED <<advertised, provider, known, runtimeReg, watcher, lost, overdue>>
      BY <1>4 DEF Server!SetState, Server!server
    <2>2. request'.at = "stop"
      BY <2>1
    <2>3. RequestIsSound'
      BY <2>2 DEF RequestIsSound, RequestPlaces
    <2>4. server' \in [approved : BOOLEAN, enabled : BOOLEAN] /\ strayed' \in BOOLEAN
      BY <2>1
    <2>5. ServerTyped'
      BY <1>1, <2>1, <2>4 DEF ServerTyped, CatalogType, WatcherPlaces
    <2>6. GrantsAreSound'
      BY <1>1, <2>1 DEF GrantsAreSound, Server!LockFree
    <2>7. ActivationIsOrdered' /\ StraysAreKnown'
      BY <1>1, <2>1, <2>2 DEF ActivationIsOrdered, StraysAreKnown, Server!Nothing
    <2> QED BY <2>3, <2>5, <2>6, <2>7 DEF ServerInv
  <1>5. ASSUME UNCHANGED <<advertised, server, revision, snapshots, provider, known, runtimeReg, hostReg,
                           watcher, lost>>,
               request'.at \in {"abandon", "undo", "idle"}, request'.at = "idle" => request' = Server!Idle,
               overdue' \in BOOLEAN, strayed' \in BOOLEAN, ActivationIsOrdered', StraysAreKnown'
        PROVE  ServerInv'
    <2>1. RequestIsSound'
      BY <1>5 DEF RequestIsSound, RequestPlaces
    <2>2. ServerTyped'
      BY <1>1, <1>5 DEF ServerTyped, CatalogType, WatcherPlaces
    <2>3. GrantsAreSound'
      BY <1>1, <1>5 DEF GrantsAreSound, Server!LockFree
    <2> QED BY <1>5, <2>1, <2>2, <2>3 DEF ServerInv
  <1>6. ASSUME NEW c \in BOOLEAN, Server!Deactivate(c) PROVE ServerInv'
    <2>1. request' = [at |-> "abandon"] \/ request' = Server!Idle
      BY <1>6, Zenon DEF Server!Deactivate
    <2>2. request'.at \in {"idle", "abandon"} /\ (request'.at = "idle" => request' = Server!Idle)
      BY <2>1 DEF Server!Idle
    <2>3. /\ provider' = FALSE /\ known' = Server!Nothing /\ runtimeReg' = Server!Nothing
          /\ watcher' = Server!Off /\ lost' = {} /\ UNCHANGED <<advertised, server, revision, snapshots>>
          /\ overdue' = FALSE
      BY <1>6 DEF Server!Deactivate, Server!server, Server!state
    <2>4. strayed' \in BOOLEAN /\ (hostReg' = Server!Nothing \/ strayed')
      <3>1. /\ request.at \in {"stop", "undo", "abandon"}
            /\ hostReg' = IF request.at = "undo" /\ c THEN Server!Nothing ELSE hostReg
            /\ strayed' = IF request.at = "undo" THEN ~ c ELSE strayed
        BY <1>6 DEF Server!Deactivate
      <3>2. CASE request.at = "undo"
        BY <3>1, <3>2, Zenon
      <3>3. CASE request.at # "undo"
        <4>1. UNCHANGED <<hostReg, strayed>>
          BY <3>1, <3>3, Zenon
        <4> QED BY <1>1, <3>1, <3>3, <4>1 DEF StraysAreKnown, ServerTyped
      <3> QED BY <3>2, <3>3
    <2> QED BY <2>2, <2>3, <2>4, StoppedKeepsServer
  <1>7. ASSUME Server!Restart PROVE ServerInv'
    <2>1. /\ provider' = FALSE /\ known' = Server!Nothing /\ runtimeReg' = Server!Nothing
          /\ watcher' = Server!Off /\ lost' = {} /\ UNCHANGED <<advertised, server, revision>>
          /\ snapshots' = {} /\ request = Server!Idle /\ request' = request
          /\ hostReg' = Server!Nothing /\ overdue' = FALSE /\ strayed' = FALSE
      BY <1>7 DEF Server!Restart, Server!server
    <2>2. request'.at = "idle" /\ request' = Server!Idle
      BY <2>1, ServerRecords
    <2> QED BY <2>1, <2>2, StoppedKeepsServer
  <1>8. ASSUME Server!OtherWrite PROVE ServerInv'
    BY <1>2, <1>8, QuietKeepsServer DEF Server!OtherWrite, Server!server, Server!runtime, Server!history
  <1>9. ASSUME NEW t \in SUBSET Tools, Server!ServerChange(t) PROVE ServerInv'
    BY <1>2, <1>9, QuietKeepsServer DEF Server!ServerChange, Server!state, Server!history
  <1>10. ASSUME NEW t \in Tools, Server!Authorize(t) PROVE ServerInv'
    BY <1>2, <1>10, QuietKeepsServer DEF Server!Authorize, Server!server, Server!state, Server!runtime, Server!history
  <1>11. ASSUME Server!Dispatch \/ Server!CallEnds PROVE ServerInv'
    BY <1>2, <1>11, QuietKeepsServer
       DEF Server!Dispatch, Server!CallEnds, Server!server, Server!state, Server!runtime, Server!history
  <1>12. ASSUME Server!Subscribe \/ Server!Notified \/ Server!StreamFails PROVE ServerInv'
    <2>1. /\ watcher.at \in {"subscribe", "listen"}
          /\ UNCHANGED <<request, advertised, server, revision, snapshots, provider, known, runtimeReg, hostReg, lost,
                         overdue, strayed>>
      BY <1>12 DEF Server!Subscribe, Server!Notified, Server!StreamFails, Server!server, Server!state, Server!history
    <2>2. /\ watcher' \in [at : WatcherPlaces, first : BOOLEAN, tries : Nat]
          /\ watcher'.at \notin {"off", "callback"}
      <3>1. {"subscribe", "refresh"} \subseteq WatcherPlaces
        BY DEF WatcherPlaces
      <3>2. CASE watcher' = Server!At("refresh") \/ watcher' = Server!At("subscribe")
        BY <3>1, <3>2, ServerRecords
      <3>3. CASE watcher' = [Server!At("refresh") EXCEPT !.first = TRUE]
        <4>1. Server!At("refresh") \in [at : WatcherPlaces, first : BOOLEAN, tries : Nat]
              /\ Server!At("refresh").at = "refresh"
          BY <3>1, ServerRecords
        <4> QED BY <3>3, <4>1
      <3> QED BY <1>12, <3>2, <3>3, Zenon DEF Server!Subscribe, Server!Notified, Server!StreamFails
    <2> QED BY <2>1, <2>2, WatcherKeepsServer
  <1>13. CASE UNCHANGED Server!vars
    BY <1>2, <1>13, QuietKeepsServer DEF Server!vars, Server!server, Server!state, Server!runtime, Server!history
  <1>14. ASSUME Server!ActivateFails PROVE ServerInv'
    <2>1. /\ request.at \in {"activate", "registered", "synced"} /\ request' = [at |-> "abandon"]
          /\ strayed' = (strayed \/ request.at = "synced")
          /\ UNCHANGED <<advertised, server, revision, snapshots, provider, known, runtimeReg, hostReg,
                         watcher, lost, overdue>>
      BY <1>14 DEF Server!ActivateFails, Server!server, Server!state, Server!runtime
    <2>2. request'.at = "abandon" /\ strayed' \in BOOLEAN /\ overdue' \in BOOLEAN
      BY <1>1, <2>1, Zenon DEF ServerTyped
    <2>3. (strayed => strayed') /\ (request.at = "synced" => strayed')
      BY <2>1, Zenon
    <2>4. ActivationIsOrdered'
      BY <1>1, <2>1, <2>2 DEF ActivationIsOrdered, Server!Nothing
    <2>5. StraysAreKnown'
      BY <1>1, <2>1, <2>2, <2>3 DEF ActivationIsOrdered, StraysAreKnown, Server!Nothing
    <2> QED BY <1>5, <2>1, <2>2, <2>4, <2>5
  <1>15. ASSUME Server!SaveFails PROVE ServerInv'
    <2>1. /\ request.at = "saving" /\ request' = [at |-> "undo"]
          /\ UNCHANGED <<advertised, server, revision, snapshots, provider, known, runtimeReg, hostReg,
                         watcher, lost, overdue, strayed>>
      BY <1>15 DEF Server!SaveFails, Server!server, Server!state, Server!runtime, Server!history
    <2>2. request'.at = "undo" /\ strayed' \in BOOLEAN /\ overdue' \in BOOLEAN
      BY <1>1, <2>1 DEF ServerTyped
    <2>3. ActivationIsOrdered' /\ ~ overdue'
      BY <1>1, <2>1, <2>2 DEF ActivationIsOrdered, Server!Nothing
    <2>4. StraysAreKnown'
      BY <2>2, <2>3 DEF StraysAreKnown
    <2> QED BY <1>5, <2>1, <2>2, <2>3, <2>4
  <1>16. ASSUME Server!DeactivateTimesOut PROVE ServerInv'
    <2>1. /\ request.at \in {"stop", "undo", "abandon"}
          /\ request' = IF request.at = "undo" THEN [at |-> "abandon"] ELSE Server!Idle
          /\ overdue' = provider /\ strayed' = (strayed \/ provider)
          /\ UNCHANGED <<advertised, server, revision, snapshots, provider, known, runtimeReg, hostReg,
                         watcher, lost>>
      BY <1>16 DEF Server!DeactivateTimesOut, Server!server, Server!state, Server!runtime
    <2>2. /\ request.at = "undo" => request'.at = "abandon"
          /\ request.at # "undo" => request'.at = "idle" /\ request' = Server!Idle
      BY <2>1 DEF Server!Idle
    <2>3. /\ strayed' \in BOOLEAN /\ overdue' \in BOOLEAN
          /\ (strayed => strayed') /\ (provider => strayed') /\ (overdue' <=> provider)
      BY <1>1, <2>1, Zenon DEF ServerTyped
    <2>4. ActivationIsOrdered'
      BY <1>1, <2>1, <2>2, <2>3 DEF ActivationIsOrdered, Server!Nothing
    <2>5. request.at = "undo" => provider
      BY <1>1 DEF ActivationIsOrdered
    <2>6. StraysAreKnown'
      BY <1>1, <2>1, <2>2, <2>3, <2>5 DEF StraysAreKnown, Server!Nothing
    <2> QED BY <1>5, <2>1, <2>2, <2>3, <2>4, <2>6
  <1> QED BY <1>3, <1>4, <1>5, <1>6, <1>7, <1>8, <1>9, <1>10, <1>11, <1>12, <1>13, <1>14, <1>15, <1>16,
             ActivationKeepsServer, RefreshKeepsServer, Zenon
          DEF Server!Next, Server!Serve, Server!Watch

\* The host offers what the runtime honours and a server runs only for an enabled
\* record, but for the exceptions that HostMatchesRuntime and ActiveIsEnabled name, and
\* no grant outlives its tool, for any tools, catalogue changes and failures.
THEOREM McpServerIsConsistent == Server!Spec => []ServerIsConsistent
  <1>1. ServerInv => ServerIsConsistent
    <2> SUFFICES ASSUME ServerInv PROVE ServerIsConsistent
      OBVIOUS
    <2>1. request = Server!Idle => request.at = "idle"
      BY ServerRecords
    <2>2. Server!HostMatchesRuntime
      <3> SUFFICES ASSUME request.at = "idle", Server!LockFree, ~ overdue
                   PROVE  hostReg = runtimeReg \/ (~ provider /\ strayed)
        BY <2>1 DEF Server!HostMatchesRuntime
      <3>1. runtimeReg = known
        BY DEF ServerInv, GrantsAreSound
      <3>2. CASE provider
        BY <3>1, <3>2 DEF ServerInv, ActivationIsOrdered
      <3>3. CASE ~ provider
        BY <3>1, <3>3 DEF ServerInv, ActivationIsOrdered, StraysAreKnown
      <3> QED BY <3>2, <3>3
    <2>3. Server!ActiveIsEnabled
      BY <2>1 DEF Server!ActiveIsEnabled, ServerInv, ActivationIsOrdered
    <2>4. Server!NoRevivedGrant
      BY DEF Server!NoRevivedGrant, ServerInv, GrantsAreSound
    <2> QED BY <2>2, <2>3, <2>4 DEF ServerIsConsistent
  <1> QED BY <1>1, ServerInvInit, ServerInvStep, PTL DEF Server!Spec

\* A call starts only in Dispatch, with a grant of the runtime's registry.
LEMMA CallStep ==
    ASSUME ServerInv, Server!Next, call.at = "authorized", call'.at = "running", call.auto
    PROVE  call.tool \in known.grants
  <1>1. call' # call /\ call # Server!NoCall /\ call' # Server!NoCall
    BY DEF Server!NoCall
  <1>2. CASE Server!Dispatch
    <2>1. call.tool \in runtimeReg.grants
      BY <1>2, Zenon DEF Server!Dispatch
    <2> QED BY <2>1 DEF ServerInv, GrantsAreSound
  <1>3. ASSUME NEW t \in Tools, Server!Authorize(t) PROVE FALSE
    BY <1>1, <1>3 DEF Server!Authorize
  <1>4. ASSUME Server!CallEnds \/ Server!Restart PROVE FALSE
    BY <1>1, <1>4 DEF Server!CallEnds, Server!Restart
  <1>5. ASSUME NEW a \in BOOLEAN, Server!SetState(a) \/ Server!Deactivate(a) PROVE FALSE
    BY <1>1, <1>5, Zenon DEF Server!SetState, Server!Deactivate
  <1>6. ASSUME NEW s, NEW g, Server!Activate(s, g) PROVE FALSE
    BY <1>1, <1>6 DEF Server!Activate
  <1>7. ASSUME NEW t, Server!ServerChange(t) PROVE FALSE
    BY <1>1, <1>7 DEF Server!ServerChange
  <1>8. ASSUME \/ Server!Test \/ Server!RuntimeActivate \/ Server!ActivateFails \/ Server!SyncHost
               \/ Server!StartNotifications \/ Server!Save \/ Server!SaveFails \/ Server!OtherWrite
               \/ Server!DeactivateTimesOut
        PROVE  FALSE
    BY <1>1, <1>8, Zenon
       DEF Server!Test, Server!RuntimeActivate, Server!ActivateFails, Server!SyncHost,
           Server!StartNotifications, Server!Save, Server!SaveFails, Server!OtherWrite,
           Server!DeactivateTimesOut
  <1>9. ASSUME \/ Server!Subscribe \/ Server!Notified \/ Server!Refresh \/ Server!Callback
               \/ Server!RefreshFails \/ Server!StreamFails
        PROVE  FALSE
    BY <1>1, <1>9, Zenon
       DEF Server!Subscribe, Server!Notified, Server!Refresh, Server!Callback,
           Server!RefreshFails, Server!StreamFails
  <1> QED BY <1>2, <1>3, <1>4, <1>5, <1>6, <1>7, <1>8, <1>9, Zenon
          DEF Server!Next, Server!Serve, Server!Watch

LEMMA CallDecisions == Server!Spec => Server!AutoCallIsGranted
  <1>1. ASSUME ServerInv, [Server!Next]_(Server!vars)
        PROVE  [call.at = "authorized" /\ call'.at = "running" /\ call.auto
                   => call.tool \in known.grants]_(Server!vars)
    BY <1>1, CallStep
  <1> QED BY <1>1, ServerInvInit, ServerInvStep, PTL DEF Server!Spec, Server!AutoCallIsGranted

-----------------------------------------------------------------------------
(* Remote skills.                                                          *)

ReaderPlaces == {"none", "fetch", "changed", "revoke", "invalidate", "look", "download",
                 "keep", "store", "serve"}

Withdrawn == (skill.origin /\ ~ skill.enabled) \/ ~ serverOn

SkillsTyped ==
    /\ manifest \in Nat /\ skillRevision \in Nat /\ serverOn \in BOOLEAN
    /\ skill \in [version : Nat, enabled : BOOLEAN, origin : BOOLEAN]
    /\ reader \in [Readers -> [at : ReaderPlaces, version : Nat, seen : Nat, revision : Nat]]
    /\ user \in [at : {"none", "set", "invalidate"}, version : Nat, enabled : BOOLEAN,
                 revision : Nat]

\* While the approval is withdrawn and nobody is about to empty the cache, it is empty
\* and no reader is about to store a page; the one that is holds the lock; and a
\* reader that is about to withdraw an approval has seen the one in force, unless the
\* state has been written since.
SkillsInv ==
    /\ SkillsTyped
    /\ \A r \in Readers : reader[r].at = "store" => cacheLock = r
    /\ Withdrawn /\ ~ Skills!Invalidating =>
          cache = <<>> /\ \A r \in Readers : reader[r].at # "store"
    /\ \A r \in Readers : reader[r].at = "revoke" =>
          /\ reader[r].revision <= skillRevision
          /\ reader[r].revision = skillRevision => skill.version = reader[r].version

LEMMA SkillsConstants == Skills!Free \notin Readers
  BY AgentsAssumption DEF Skills!SkillsAssumption

LEMMA SkillsInvInit == Skills!Init => SkillsInv
  <1> SUFFICES ASSUME Skills!Init PROVE SkillsInv
    OBVIOUS
  <1>1. SkillsTyped
    BY DEF Skills!Init, Skills!Waiting, Skills!NoRequest, SkillsTyped, ReaderPlaces
  <1>2. cache = <<>> /\ \A r \in Readers : reader[r].at = "none"
    BY DEF Skills!Init, Skills!Waiting
  <1> QED BY <1>1, <1>2 DEF SkillsInv

\* A reader that takes a step which neither stores a page nor withdraws an approval.
LEMMA ReaderKeepsSkills ==
    ASSUME SkillsInv, NEW r \in Readers,
           UNCHANGED <<manifest, skillRevision, skill, serverOn, user, cacheLock>>,
           cache' = cache \/ ~ Withdrawn, 
           NEW d \in [at : ReaderPlaces, version : Nat, seen : Nat, revision : Nat],
           reader' = [reader EXCEPT ![r] = d],
           d.at \notin {"store", "revoke", "invalidate"},
           reader[r].at \notin {"store", "invalidate"}
    PROVE  SkillsInv'
  <1>1. reader \in [Readers -> [at : ReaderPlaces, version : Nat, seen : Nat, revision : Nat]]
    BY DEF SkillsInv, SkillsTyped
  <1>2. /\ reader' \in [Readers -> [at : ReaderPlaces, version : Nat, seen : Nat, revision : Nat]]
        /\ reader'[r] = d /\ \A q \in Readers \ {r} : reader'[q] = reader[q]
    BY <1>1
  <1>3. SkillsTyped'
    BY <1>2 DEF SkillsInv, SkillsTyped, ReaderPlaces
  <1>4. Withdrawn' = Withdrawn
    BY DEF Withdrawn
  <1>5. Skills!Invalidating' <=> Skills!Invalidating
    BY <1>2 DEF Skills!Invalidating
  <1>6. \A q \in Readers : reader'[q].at = "store" => cacheLock' = q
    BY <1>2 DEF SkillsInv
  <1>7. Withdrawn' /\ ~ Skills!Invalidating' =>
          cache' = <<>> /\ \A q \in Readers : reader'[q].at # "store"
    BY <1>2, <1>4, <1>5 DEF SkillsInv
  <1>8. \A q \in Readers : reader'[q].at = "revoke" =>
          /\ reader'[q].revision <= skillRevision'
          /\ reader'[q].revision = skillRevision' => skill'.version = reader'[q].version
    BY <1>2 DEF SkillsInv
  <1> QED BY <1>3, <1>6, <1>7, <1>8 DEF SkillsInv

\* What a step does to the reader r, as one record.
LEMMA ReaderSteps ==
    ASSUME SkillsInv, NEW r \in Readers
    PROVE  /\ Skills!Waiting \in [at : ReaderPlaces, version : Nat, seen : Nat, revision : Nat]
           /\ Skills!Waiting.at = "none"
           /\ \A p \in ReaderPlaces :
                 /\ [reader[r] EXCEPT !.at = p] \in [at : ReaderPlaces, version : Nat, seen : Nat, revision : Nat]
                 /\ [reader[r] EXCEPT !.at = p].at = p
                 /\ Skills!Step(r, p) => reader' = [reader EXCEPT ![r] = [reader[r] EXCEPT !.at = p]]
  <1>1. reader \in [Readers -> [at : ReaderPlaces, version : Nat, seen : Nat, revision : Nat]]
    BY DEF SkillsInv, SkillsTyped
  <1>2. \A p \in ReaderPlaces : Skills!Step(r, p) => reader' = [reader EXCEPT ![r] = [reader[r] EXCEPT !.at = p]]
    BY <1>1 DEF Skills!Step
  <1> QED BY <1>1, <1>2 DEF Skills!Waiting, ReaderPlaces

\* A write of the state by the user's requests; if it withdraws the approval, then the
\* cache will be emptied.
LEMMA WriteKeepsSkills ==
    ASSUME SkillsInv, SkillsTyped', UNCHANGED <<cache, cacheLock, reader>>,
           \/ UNCHANGED <<skill, skillRevision>>
           \/ skillRevision' = skillRevision + 1,
           (user'.at = "invalidate") \/ ((user.at # "invalidate") /\ (Withdrawn' => Withdrawn))
    PROVE  SkillsInv'
  <1>1. CASE user'.at = "invalidate"
    <2>1. Skills!Invalidating'
      BY <1>1 DEF Skills!Invalidating
    <2> QED BY <2>1 DEF SkillsInv, SkillsTyped
  <1>2. CASE (user.at # "invalidate") /\ (Withdrawn' => Withdrawn)
    <2>1. Skills!Invalidating => Skills!Invalidating'
      BY <1>2 DEF Skills!Invalidating
    <2> QED BY <1>2, <2>1 DEF SkillsInv, SkillsTyped
  <1> QED BY <1>1, <1>2

LEMMA SkillsInvStep ==
    ASSUME SkillsInv, [Skills!Next]_(Skills!vars) PROVE SkillsInv'
  <1> USE DEF Skills!quiet
  <1>1. SkillsTyped
    BY DEF SkillsInv
  <1>2. reader \in [Readers -> [at : ReaderPlaces, version : Nat, seen : Nat, revision : Nat]]
    BY <1>1 DEF SkillsTyped
  <1>3. ASSUME NEW r \in Readers, Skills!Ends(r), reader[r].at \notin {"store", "invalidate"},
               UNCHANGED <<manifest, skillRevision, skill, serverOn, user, cacheLock, cache>>
        PROVE  SkillsInv'
    BY <1>3, ReaderSteps, ReaderKeepsSkills DEF Skills!Ends
  <1>4. ASSUME NEW r \in Readers, NEW p \in ReaderPlaces \ {"store", "revoke", "invalidate"},
               Skills!Step(r, p), reader[r].at \notin {"store", "invalidate"},
               UNCHANGED <<manifest, skillRevision, skill, serverOn, user, cacheLock>>,
               cache' = cache \/ ~ Withdrawn
        PROVE  SkillsInv'
    <2>1. PICK d : d = [reader[r] EXCEPT !.at = p]
      OBVIOUS
    <2>2. /\ d \in [at : ReaderPlaces, version : Nat, seen : Nat, revision : Nat] /\ d.at = p
          /\ reader' = [reader EXCEPT ![r] = d]
      BY <1>4, <2>1, ReaderSteps
    <2> QED BY <1>4, <2>2, ReaderKeepsSkills
  <1>5. ASSUME NEW r \in Readers, Skills!Begin(r) PROVE SkillsInv'
    <2>1. PICK d : d = [Skills!Waiting EXCEPT !.at = "fetch", !.version = skill.version]
      OBVIOUS
    <2>2. d \in [at : ReaderPlaces, version : Nat, seen : Nat, revision : Nat] /\ d.at = "fetch"
      BY <1>1, <2>1 DEF SkillsTyped, Skills!Waiting, ReaderPlaces
    <2>3. reader' = [reader EXCEPT ![r] = d]
      BY <1>5, <2>1 DEF Skills!Begin
    <2> QED BY <1>5, <2>2, <2>3, ReaderKeepsSkills DEF Skills!Begin
  <1>6. ASSUME NEW r \in Readers, Skills!Fetch(r) PROVE SkillsInv'
    <2>1. CASE Skills!Step(r, "look")
      BY <1>4, <1>6, <2>1 DEF Skills!Fetch, ReaderPlaces
    <2>2. CASE reader' = [reader EXCEPT ![r].at = "changed", ![r].seen = manifest]
      <3>1. PICK d : d = [reader[r] EXCEPT !.at = "changed", !.seen = manifest]
        OBVIOUS
      <3>2. d \in [at : ReaderPlaces, version : Nat, seen : Nat, revision : Nat] /\ d.at = "changed"
        BY <1>1, <1>2, <3>1 DEF SkillsTyped, ReaderPlaces
      <3>3. reader' = [reader EXCEPT ![r] = d]
        BY <1>2, <2>2, <3>1
      <3> QED BY <1>6, <3>2, <3>3, ReaderKeepsSkills DEF Skills!Fetch
    <2> QED BY <1>6, <2>1, <2>2 DEF Skills!Fetch
  <1>7. ASSUME NEW r \in Readers, Skills!ReadState(r) PROVE SkillsInv'
    <2>1. CASE Skills!Ends(r)
      BY <1>3, <1>7, <2>1 DEF Skills!ReadState
    <2>2. CASE /\ skill.version = reader[r].version
               /\ reader' = [reader EXCEPT ![r].at = "revoke", ![r].revision = skillRevision]
      <3>1. PICK d : d = [reader[r] EXCEPT !.at = "revoke", !.revision = skillRevision]
        OBVIOUS
      <3>2. /\ d \in [at : ReaderPlaces, version : Nat, seen : Nat, revision : Nat] /\ d.at = "revoke"
            /\ d.revision = skillRevision /\ d.version = reader[r].version
        BY <1>1, <1>2, <3>1 DEF SkillsTyped, ReaderPlaces
      <3>3. reader' = [reader EXCEPT ![r] = d]
        BY <1>2, <2>2, <3>1
      <3>4. /\ reader' \in [Readers -> [at : ReaderPlaces, version : Nat, seen : Nat, revision : Nat]]
            /\ reader'[r] = d /\ \A q \in Readers \ {r} : reader'[q] = reader[q]
        BY <1>2, <3>2, <3>3
      <3>5. /\ reader[r].at = "changed"
            /\ UNCHANGED <<manifest, skillRevision, skill, serverOn, user, cacheLock, cache>>
        BY <1>7 DEF Skills!ReadState
      <3>6. SkillsTyped'
        BY <1>1, <3>4, <3>5 DEF SkillsTyped, ReaderPlaces
      <3>7. (Withdrawn' <=> Withdrawn) /\ (Skills!Invalidating' <=> Skills!Invalidating)
        BY <3>2, <3>4, <3>5 DEF Withdrawn, Skills!Invalidating
      <3>8. /\ \A q \in Readers : reader'[q].at = "store" => cacheLock' = q
            /\ Withdrawn' /\ ~ Skills!Invalidating' =>
                  cache' = <<>> /\ \A q \in Readers : reader'[q].at # "store"
        BY <3>2, <3>4, <3>5, <3>7 DEF SkillsInv
      <3>9. \A q \in Readers : reader'[q].at = "revoke" =>
               /\ reader'[q].revision <= skillRevision'
               /\ reader'[q].revision = skillRevision' => skill'.version = reader'[q].version
        BY <1>1, <2>2, <3>2, <3>4, <3>5 DEF SkillsInv, SkillsTyped
      <3> QED BY <3>6, <3>8, <3>9 DEF SkillsInv
    <2> QED BY <1>7, <2>1, <2>2 DEF Skills!ReadState
  <1>8. ASSUME NEW r \in Readers, Skills!Revoke(r) PROVE SkillsInv'
    <2>1. CASE Skills!Ends(r) /\ UNCHANGED <<skill, skillRevision>>
      BY <1>3, <1>8, <2>1 DEF Skills!Revoke
    <2>2. CASE /\ skill' = [version |-> IF reader[r].seen = 0 THEN skill.version ELSE reader[r].seen,
                            enabled |-> FALSE, origin |-> TRUE]
               /\ skillRevision' = skillRevision + 1 /\ Skills!Step(r, "invalidate")
      <3>1. PICK d : d = [reader[r] EXCEPT !.at = "invalidate"]
        OBVIOUS
      <3>2. "invalidate" \in ReaderPlaces
        BY DEF ReaderPlaces
      <3>3. /\ d \in [at : ReaderPlaces, version : Nat, seen : Nat, revision : Nat]
            /\ d.at = "invalidate" /\ reader' = [reader EXCEPT ![r] = d]
        BY <2>2, <3>1, <3>2, ReaderSteps
      <3>4. /\ reader' \in [Readers -> [at : ReaderPlaces, version : Nat, seen : Nat, revision : Nat]]
            /\ reader'[r] = d /\ \A q \in Readers \ {r} : reader'[q] = reader[q]
        BY <1>2, <3>3
      <3>5. Skills!Invalidating'
        BY <3>3, <3>4 DEF Skills!Invalidating
      <3>6. UNCHANGED <<manifest, serverOn, user, cacheLock>>
        BY <1>8 DEF Skills!Revoke
      <3>7. skill' \in [version : Nat, enabled : BOOLEAN, origin : BOOLEAN]
        BY <1>1, <1>2, <2>2 DEF SkillsTyped
      <3>8. SkillsTyped'
        BY <1>1, <2>2, <3>4, <3>6, <3>7 DEF SkillsTyped, ReaderPlaces
      <3>9. \A q \in Readers : reader'[q].at = "store" => cacheLock' = q
        BY <3>3, <3>4, <3>6 DEF SkillsInv
      <3>10. \A q \in Readers : reader'[q].at = "revoke" =>
               reader'[q].revision <= skillRevision' /\ reader'[q].revision # skillRevision'
        BY <1>1, <2>2, <3>3, <3>4 DEF SkillsInv, SkillsTyped
      <3> QED BY <3>5, <3>8, <3>9, <3>10 DEF SkillsInv
    <2> QED BY <1>8, <2>1, <2>2 DEF Skills!Revoke
  <1>9. \A q \in Readers : cacheLock = Skills!Free => reader[q].at # "store"
    BY SkillsConstants DEF SkillsInv
  <1>10. ASSUME NEW r \in Readers, Skills!ReaderInvalidates(r) PROVE SkillsInv'
    <2>1. /\ cache' = <<>> /\ reader' = [reader EXCEPT ![r] = Skills!Waiting]
          /\ cacheLock = Skills!Free
          /\ UNCHANGED <<manifest, skillRevision, skill, serverOn, user, cacheLock>>
      BY <1>10 DEF Skills!ReaderInvalidates, Skills!Ends
    <2>2. /\ reader' \in [Readers -> [at : ReaderPlaces, version : Nat, seen : Nat, revision : Nat]]
          /\ reader'[r].at = "none" /\ \A q \in Readers \ {r} : reader'[q] = reader[q]
      BY <1>2, <2>1, ReaderSteps
    <2>3. SkillsTyped'
      BY <1>1, <2>1, <2>2 DEF SkillsTyped, ReaderPlaces
    <2>4. \A q \in Readers : reader'[q].at # "store"
      BY <1>9, <2>1, <2>2
    <2>5. \A q \in Readers : reader'[q].at = "revoke" =>
               /\ reader'[q].revision <= skillRevision'
               /\ reader'[q].revision = skillRevision' => skill'.version = reader'[q].version
      BY <2>1, <2>2 DEF SkillsInv
    <2> QED BY <2>1, <2>3, <2>4, <2>5 DEF SkillsInv
  <1>11. ASSUME NEW r \in Readers, Skills!Look(r) PROVE SkillsInv'
    <2>1. CASE Skills!Ends(r) /\ UNCHANGED cache
      BY <1>3, <1>11, <2>1 DEF Skills!Look
    <2>2. CASE Skills!Enabled(reader[r].version) /\ Skills!Step(r, "serve")
      <3>1. ~ Withdrawn
        BY <2>2 DEF Skills!Enabled, Withdrawn
      <3> QED BY <1>4, <1>11, <2>2, <3>1 DEF Skills!Look, ReaderPlaces
    <2>3. CASE Skills!Step(r, "download") /\ UNCHANGED cache
      BY <1>4, <1>11, <2>3 DEF Skills!Look, ReaderPlaces
    <2> QED BY <1>11, <2>1, <2>2, <2>3 DEF Skills!Look
  <1>12. ASSUME NEW r \in Readers, Skills!Download(r) PROVE SkillsInv'
    BY <1>3, <1>4, <1>12 DEF Skills!Download, ReaderPlaces
  <1>13. ASSUME NEW r \in Readers, Skills!CheckToKeep(r) PROVE SkillsInv'
    <2>1. CASE Skills!Ends(r) /\ UNCHANGED cacheLock
      BY <1>3, <1>13, <2>1 DEF Skills!CheckToKeep
    <2>2. CASE /\ Skills!Enabled(reader[r].version) /\ Skills!Step(r, "store") /\ cacheLock' = r
      <3>1. PICK d : d = [reader[r] EXCEPT !.at = "store"]
        OBVIOUS
      <3>2. "store" \in ReaderPlaces
        BY DEF ReaderPlaces
      <3>3. /\ d \in [at : ReaderPlaces, version : Nat, seen : Nat, revision : Nat]
            /\ d.at = "store" /\ reader' = [reader EXCEPT ![r] = d]
        BY <2>2, <3>1, <3>2, ReaderSteps
      <3>4. /\ reader' \in [Readers -> [at : ReaderPlaces, version : Nat, seen : Nat, revision : Nat]]
            /\ reader'[r] = d /\ \A q \in Readers \ {r} : reader'[q] = reader[q]
        BY <1>2, <3>3
      <3>5. /\ UNCHANGED <<manifest, skillRevision, skill, serverOn, user, cache>>
            /\ cacheLock = Skills!Free
        BY <1>13 DEF Skills!CheckToKeep
      <3>6. SkillsTyped'
        BY <1>1, <3>4, <3>5 DEF SkillsTyped, ReaderPlaces
      <3>7. ~ Withdrawn'
        BY <2>2, <3>5 DEF Withdrawn, Skills!Enabled
      <3>8. \A q \in Readers : reader'[q].at = "store" => cacheLock' = q
        BY <1>9, <2>2, <3>4, <3>5
      <3>9. \A q \in Readers : reader'[q].at = "revoke" =>
               /\ reader'[q].revision <= skillRevision'
               /\ reader'[q].revision = skillRevision' => skill'.version = reader'[q].version
        BY <3>3, <3>4, <3>5 DEF SkillsInv
      <3> QED BY <3>6, <3>7, <3>8, <3>9 DEF SkillsInv
    <2> QED BY <1>13, <2>1, <2>2 DEF Skills!CheckToKeep
  <1>14. ASSUME NEW r \in Readers, Skills!Store(r) PROVE SkillsInv'
    <2>1. PICK d : d = [reader[r] EXCEPT !.at = "serve"]
      OBVIOUS
    <2>2. "serve" \in ReaderPlaces
      BY DEF ReaderPlaces
    <2>3. /\ reader[r].at = "store" /\ Skills!Step(r, "serve")
          /\ UNCHANGED <<manifest, skillRevision, skill, serverOn, user>>
      BY <1>14 DEF Skills!Store
    <2>4. /\ d \in [at : ReaderPlaces, version : Nat, seen : Nat, revision : Nat]
          /\ d.at = "serve" /\ reader' = [reader EXCEPT ![r] = d]
      BY <2>1, <2>2, <2>3, ReaderSteps
    <2>5. /\ reader' \in [Readers -> [at : ReaderPlaces, version : Nat, seen : Nat, revision : Nat]]
          /\ reader'[r] = d /\ \A q \in Readers \ {r} : reader'[q] = reader[q]
      BY <1>2, <2>4
    <2>6. SkillsTyped'
      BY <1>1, <2>3, <2>5 DEF SkillsTyped, ReaderPlaces
    <2>7. \A q \in Readers : reader'[q].at # "store"
      BY <2>3, <2>4, <2>5 DEF SkillsInv
    <2>8. (Withdrawn' <=> Withdrawn) /\ (Skills!Invalidating' <=> Skills!Invalidating)
      BY <2>3, <2>4, <2>5 DEF Withdrawn, Skills!Invalidating
    <2>9. ~(Withdrawn' /\ ~ Skills!Invalidating')
      BY <2>3, <2>8 DEF SkillsInv
    <2>10. \A q \in Readers : reader'[q].at = "revoke" =>
               /\ reader'[q].revision <= skillRevision'
               /\ reader'[q].revision = skillRevision' => skill'.version = reader'[q].version
      BY <2>3, <2>4, <2>5 DEF SkillsInv
    <2> QED BY <2>6, <2>7, <2>9, <2>10 DEF SkillsInv
  <1>15. ASSUME NEW r \in Readers, Skills!Serve(r) PROVE SkillsInv'
    BY <1>3, <1>15 DEF Skills!Serve
  <1>16. ASSUME NEW e \in BOOLEAN, Skills!AskSet(e) PROVE SkillsInv'
    <2>1. SkillsTyped'
      BY <1>1, <1>16 DEF SkillsTyped, Skills!AskSet, ReaderPlaces
    <2>2. user.at # "invalidate" /\ (Withdrawn' => Withdrawn)
      BY <1>16 DEF Skills!AskSet, Withdrawn
    <2> QED BY <1>16, <2>1, <2>2, WriteKeepsSkills DEF Skills!AskSet
  <1>17. ASSUME Skills!AskList PROVE SkillsInv'
    <2>1. SkillsTyped'
      BY <1>1, <1>17 DEF SkillsTyped, Skills!AskList, ReaderPlaces
    <2>2. user.at # "invalidate" /\ (Withdrawn' => Withdrawn)
      BY <1>17 DEF Skills!AskList, Withdrawn
    <2> QED BY <1>17, <2>1, <2>2, WriteKeepsSkills DEF Skills!AskList
  <1>18. ASSUME Skills!Write PROVE SkillsInv'
    <2>1. SkillsTyped'
      <3>1. /\ skill' = skill \/ skill' = [version |-> user.version, enabled |-> user.enabled, origin |-> TRUE]
            /\ skillRevision' = skillRevision \/ skillRevision' = skillRevision + 1
            /\ user' = Skills!NoRequest \/ user' = [user EXCEPT !.at = "invalidate"]
            /\ UNCHANGED <<manifest, serverOn, cache, cacheLock, reader>>
        BY <1>18 DEF Skills!Write
      <3>2. user' \in [at : {"none", "set", "invalidate"}, version : Nat, enabled : BOOLEAN, revision : Nat]
        <4>1. user \in [at : {"none", "set", "invalidate"}, version : Nat, enabled : BOOLEAN, revision : Nat]
          BY <1>1 DEF SkillsTyped
        <4>2. Skills!NoRequest \in [at : {"none", "set", "invalidate"}, version : Nat, enabled : BOOLEAN, revision : Nat]
          BY DEF Skills!NoRequest
        <4>3. [user EXCEPT !.at = "invalidate"] \in [at : {"none", "set", "invalidate"}, version : Nat, enabled : BOOLEAN, revision : Nat]
          BY <4>1
        <4> QED BY <3>1, <4>2, <4>3, Zenon
      <3>3. skill' \in [version : Nat, enabled : BOOLEAN, origin : BOOLEAN]
        <4>1. user.version \in Nat /\ user.enabled \in BOOLEAN
          BY <1>1 DEF SkillsTyped
        <4>2. [version |-> user.version, enabled |-> user.enabled, origin |-> TRUE]
                 \in [version : Nat, enabled : BOOLEAN, origin : BOOLEAN]
          BY <4>1
        <4>3. skill \in [version : Nat, enabled : BOOLEAN, origin : BOOLEAN]
          BY <1>1 DEF SkillsTyped
        <4> QED BY <3>1, <4>2, <4>3, Zenon
      <3> QED BY <1>1, <3>1, <3>2, <3>3 DEF SkillsTyped, ReaderPlaces
    <2>2. CASE user' = Skills!NoRequest /\ UNCHANGED <<skill, skillRevision>>
      <3>1. user.at # "invalidate" /\ (Withdrawn' => Withdrawn)
        BY <1>18, <2>2 DEF Skills!Write, Withdrawn
      <3> QED BY <1>18, <2>1, <2>2, <3>1, WriteKeepsSkills DEF Skills!Write
    <2>3. CASE /\ skill' = [version |-> user.version, enabled |-> user.enabled, origin |-> TRUE]
               /\ skillRevision' = skillRevision + 1
               /\ user' = IF user.enabled THEN Skills!NoRequest ELSE [user EXCEPT !.at = "invalidate"]
      <3>1. user.at = "set" /\ serverOn' = serverOn
        BY <1>18, Zenon DEF Skills!Write
      <3>2. CASE user.enabled
        <4>1. Withdrawn' => Withdrawn
          BY <2>3, <3>1, <3>2 DEF Withdrawn
        <4> QED BY <1>18, <2>1, <2>3, <3>1, <4>1, WriteKeepsSkills DEF Skills!Write
      <3>3. CASE ~ user.enabled
        <4>1. user'.at = "invalidate"
          BY <1>1, <2>3, <3>3 DEF SkillsTyped
        <4> QED BY <1>18, <2>1, <2>3, <4>1, WriteKeepsSkills DEF Skills!Write
      <3> QED BY <3>2, <3>3
    <2> QED BY <1>18, <2>2, <2>3 DEF Skills!Write
  <1>19. ASSUME Skills!DisableById PROVE SkillsInv'
    <2>1. SkillsTyped'
      <3>1. /\ skill' = [skill EXCEPT !.enabled = FALSE, !.origin = FALSE]
            /\ skillRevision' = skillRevision + 1 /\ UNCHANGED <<manifest, serverOn, reader, user>>
        BY <1>19 DEF Skills!DisableById
      <3>2. skill \in [version : Nat, enabled : BOOLEAN, origin : BOOLEAN]
        BY <1>1 DEF SkillsTyped
      <3>3. [skill EXCEPT !.enabled = FALSE, !.origin = FALSE]
               \in [version : Nat, enabled : BOOLEAN, origin : BOOLEAN]
        BY <3>2
      <3>4. skillRevision + 1 \in Nat
        BY <1>1 DEF SkillsTyped
      <3> QED BY <1>1, <3>1, <3>3, <3>4, Zenon DEF SkillsTyped, ReaderPlaces
    <2>2. ~ skill'.origin
      <3>1. skill' = [skill EXCEPT !.enabled = FALSE, !.origin = FALSE]
        BY <1>19 DEF Skills!DisableById
      <3>2. skill \in [version : Nat, enabled : BOOLEAN, origin : BOOLEAN]
        BY <1>1 DEF SkillsTyped
      <3>3. skill'.origin = FALSE
        BY <3>1, <3>2
      <3> QED BY <3>3
    <2>3. user.at # "invalidate" /\ (Withdrawn' => Withdrawn)
      BY <1>19, <2>2 DEF Skills!DisableById, Withdrawn
    <2> QED BY <1>19, <2>1, <2>3, WriteKeepsSkills DEF Skills!DisableById
  <1>20. ASSUME Skills!StopServer PROVE SkillsInv'
    <2>1. SkillsTyped' /\ user'.at = "invalidate"
      <3>1. /\ user' = [Skills!NoRequest EXCEPT !.at = "invalidate"] /\ serverOn' = FALSE
            /\ skillRevision' = skillRevision + 1 /\ UNCHANGED <<manifest, skill, reader>>
        BY <1>20 DEF Skills!StopServer
      <3>2. user' \in [at : {"none", "set", "invalidate"}, version : Nat, enabled : BOOLEAN, revision : Nat]
            /\ user'.at = "invalidate"
        BY <3>1 DEF Skills!NoRequest
      <3>3. skillRevision \in Nat /\ skillRevision + 1 \in Nat
        BY <1>1 DEF SkillsTyped
      <3>4. /\ manifest \in Nat /\ skill \in [version : Nat, enabled : BOOLEAN, origin : BOOLEAN]
            /\ reader \in [Readers -> [at : ReaderPlaces, version : Nat, seen : Nat, revision : Nat]]
        BY <1>1 DEF SkillsTyped
      <3> QED BY <3>1, <3>2, <3>3, <3>4, Zenon DEF SkillsTyped, ReaderPlaces
    <2> QED BY <1>20, <2>1, WriteKeepsSkills DEF Skills!StopServer
  <1>21. ASSUME Skills!StartServer PROVE SkillsInv'
    <2>1. SkillsTyped'
      BY <1>1, <1>21 DEF SkillsTyped, Skills!StartServer, ReaderPlaces
    <2>2. user.at # "invalidate" /\ (Withdrawn' => Withdrawn)
      BY <1>21 DEF Skills!StartServer, Withdrawn
    <2> QED BY <1>21, <2>1, <2>2, WriteKeepsSkills DEF Skills!StartServer
  <1>22. ASSUME Skills!UserInvalidates PROVE SkillsInv'
    <2>1. SkillsTyped'
      BY <1>1, <1>22 DEF SkillsTyped, Skills!UserInvalidates, Skills!NoRequest, ReaderPlaces
    <2>2. /\ cache' = <<>> /\ cacheLock = Skills!Free
          /\ UNCHANGED <<manifest, skill, skillRevision, serverOn, cacheLock, reader>>
      BY <1>22 DEF Skills!UserInvalidates
    <2> QED BY <1>9, <2>1, <2>2 DEF SkillsInv
  <1>23. ASSUME Skills!NewVersion PROVE SkillsInv'
    <2>1. manifest' \in Nat /\ UNCHANGED <<skill, skillRevision, serverOn, cache, cacheLock, reader, user>>
      BY <1>1, <1>23 DEF SkillsTyped, Skills!NewVersion
    <2>2. SkillsTyped'
      BY <1>1, <2>1 DEF SkillsTyped, ReaderPlaces
    <2>3. (Withdrawn' <=> Withdrawn) /\ (Skills!Invalidating' <=> Skills!Invalidating)
      BY <2>1 DEF Withdrawn, Skills!Invalidating
    <2> QED BY <2>1, <2>2, <2>3 DEF SkillsInv
  <1>24. CASE UNCHANGED Skills!vars
    BY <1>24 DEF Skills!vars, SkillsInv, SkillsTyped, ReaderPlaces, Withdrawn, Skills!Invalidating
  <1> QED BY <1>5, <1>6, <1>7, <1>8, <1>10, <1>11, <1>12, <1>13, <1>14, <1>15, <1>16, <1>17, <1>18,
             <1>19, <1>20, <1>21, <1>22, <1>23, <1>24, Zenon DEF Skills!Next

\* Once a remote skill is disabled by its own request, a listing or a reader, or its
\* server is, no page of it stays cached, for any number of readers and any sequence
\* of approvals.  A skill disabled by its identifier is the exception.
THEOREM SkillPagesAreCurrent == Skills!Spec => []NoStalePage
  <1>1. SkillsInv => NoStalePage
    BY DEF SkillsInv, NoStalePage, Skills!NoStalePage, Skills!DisabledById, Withdrawn
  <1> QED BY <1>1, SkillsInvInit, SkillsInvStep, PTL DEF Skills!Spec

\* Only Revoke withdraws an approval, and only the one its reader has seen.
LEMMA ApprovalStep ==
    ASSUME SkillsInv, Skills!Next, NEW r \in Readers, skill.enabled,
           reader[r].at = "revoke", reader'[r].at = "invalidate"
    PROVE  skill.version = reader[r].version
  <1>1. reader \in [Readers -> [at : ReaderPlaces, version : Nat, seen : Nat, revision : Nat]]
    BY DEF SkillsInv, SkillsTyped
  <1>2. reader' # reader
    OBVIOUS
  <1>3. ASSUME NEW q \in Readers, reader[q].at # "revoke", NEW d, reader' = [reader EXCEPT ![q] = d]
        PROVE  FALSE
    BY <1>1, <1>3
  <1>4. ASSUME NEW q \in Readers, reader[q].at # "revoke", NEW p, Skills!Step(q, p) PROVE FALSE
    <2>1. q # r /\ reader' = [reader EXCEPT ![q].at = p]
      BY <1>4 DEF Skills!Step
    <2> QED BY <1>1, <2>1
  <1>5. ASSUME NEW q \in Readers,
               Skills!Begin(q) \/ Skills!ReaderInvalidates(q) \/ Skills!Look(q) \/ Skills!Download(q)
               \/ Skills!CheckToKeep(q) \/ Skills!Store(q) \/ Skills!Serve(q)
        PROVE  FALSE
    BY <1>3, <1>4, <1>5, Zenon
       DEF Skills!Begin, Skills!ReaderInvalidates, Skills!Look, Skills!Download,
           Skills!CheckToKeep, Skills!Store, Skills!Serve, Skills!Ends
  <1>6. ASSUME NEW q \in Readers, Skills!Fetch(q) \/ Skills!ReadState(q) PROVE FALSE
    <2>1. q # r
      BY <1>6 DEF Skills!Fetch, Skills!ReadState
    <2>2. reader'[r] = reader[r]
      BY <1>1, <1>6, <2>1 DEF Skills!Fetch, Skills!ReadState, Skills!Step, Skills!Ends
    <2> QED BY <2>2
  <1>7. ASSUME NEW q \in Readers, Skills!Revoke(q) PROVE skill.version = reader[r].version
    <2>1. CASE skillRevision = reader[q].revision /\ Skills!Step(q, "invalidate")
      <3>1. q = r
        BY <1>1, <2>1 DEF Skills!Step
      <3> QED BY <2>1, <3>1 DEF SkillsInv
    <2>2. CASE Skills!Ends(q)
      <3>1. reader'[r].at # "invalidate"
        BY <1>1, <2>2 DEF Skills!Ends, Skills!Waiting
      <3> QED BY <3>1
    <2> QED BY <1>7, <2>1, <2>2 DEF Skills!Revoke
  <1>8. ASSUME NEW e \in BOOLEAN, Skills!AskSet(e) PROVE FALSE
    BY <1>2, <1>8 DEF Skills!AskSet
  <1>9. ASSUME Skills!AskList \/ Skills!Write \/ Skills!DisableById \/ Skills!StopServer
               \/ Skills!StartServer \/ Skills!UserInvalidates \/ Skills!NewVersion
        PROVE  FALSE
    BY <1>2, <1>9, Zenon
       DEF Skills!AskList, Skills!Write, Skills!DisableById, Skills!StopServer,
           Skills!StartServer, Skills!UserInvalidates, Skills!NewVersion
  <1> QED BY <1>5, <1>6, <1>7, <1>8, <1>9, Zenon DEF Skills!Next

LEMMA SkillDecisions == Skills!Spec => Skills!NewerApprovalKept
  <1>1. ASSUME SkillsInv, [Skills!Next]_(Skills!vars)
        PROVE  [\A r \in Readers : skill.enabled /\ reader[r].at = "revoke" /\ reader'[r].at = "invalidate"
                   => skill.version = reader[r].version]_(Skills!vars)
    BY <1>1, ApprovalStep
  <1> QED BY <1>1, SkillsInvInit, SkillsInvStep, PTL DEF Skills!Spec, Skills!NewerApprovalKept

-----------------------------------------------------------------------------
(* Decisions, and the components side by side.                             *)

\* What the user decided last is what counts, for any number of tools and readers.
THEOREM DecisionsCount == Server!Spec /\ Skills!Spec => LastDecisionCounts
  BY CallDecisions, SkillDecisions, PTL DEF LastDecisionCounts

\* A behaviour of the components side by side is one of each component.
LEMMA ComponentSpecs ==
    Spec => /\ Mailbox!Spec /\ Channel!Spec /\ Supervisor!Spec /\ Conversation!Spec
            /\ Table!Spec /\ Server!Spec /\ Skills!Spec
  <1>1. Init => /\ Mailbox!Init /\ Channel!Init /\ Supervisor!Init /\ Conversation!Init
                /\ Table!Init /\ Server!Init /\ Skills!Init
    BY Zenon DEF Init
  <1>2. [Next]_vars => /\ [Mailbox!Next]_(Mailbox!vars) /\ [Channel!Next]_(Channel!vars)
                       /\ [Supervisor!Next]_(Supervisor!vars)
                       /\ [Conversation!Next]_(Conversation!vars)
                       /\ [Table!Next]_(Table!vars) /\ [Server!Next]_(Server!vars)
                       /\ [Skills!Next]_(Skills!vars)
    <2>1. [Next]_vars => [Mailbox!Next]_(Mailbox!vars) /\ [Channel!Next]_(Channel!vars)
      BY DEF Next, vars, mailboxVars, channelVars, Mailbox!vars, Channel!vars, Channel!channel
    <2>2. [Next]_vars => [Supervisor!Next]_(Supervisor!vars)
      BY DEF Next, vars, supervisorVars, Supervisor!vars
    <2>3. [Next]_vars => [Conversation!Next]_(Conversation!vars)
      BY DEF Next, vars, conversationVars, Conversation!vars, Conversation!store,
             Conversation!threads, Conversation!loop, Conversation!memory
    <2>4. [Next]_vars => [Table!Next]_(Table!vars)
      BY DEF Next, vars, tableVars, Table!vars
    <2>5. [Next]_vars => [Server!Next]_(Server!vars)
      BY DEF Next, vars, serverVars, Server!vars, Server!server, Server!state, Server!runtime,
             Server!history
    <2>6. [Next]_vars => [Skills!Next]_(Skills!vars)
      BY DEF Next, vars, skillsVars, Skills!vars
    <2> QED BY <2>1, <2>2, <2>3, <2>4, <2>5, <2>6
  <1> QED BY <1>1, <1>2, PTL
          DEF Spec, Mailbox!Spec, Channel!Spec, Supervisor!Spec, Conversation!Spec, Table!Spec,
              Server!Spec, Skills!Spec

\* All of it holds of the specification that is model-checked.
THEOREM AgentsAreSound ==
    Spec => /\ [](DeliveryIsSound /\ SchedulingIsSound /\ TurnsAreSerial /\ EffectsAreTrue
                  /\ RunsAreTracked /\ ServerIsConsistent /\ NoStalePage)
            /\ LastDecisionCounts
  BY ComponentSpecs, MessagesAreDelivered, SupervisorSchedulingIsSound, ConversationTurnsAreSerial,
     ConversationEffectsAreTrue, SubagentRunsAreTracked, McpServerIsConsistent,
     SkillPagesAreCurrent, DecisionsCount, PTL
=============================================================================
