----------------------------- MODULE WorkLeases -----------------------------
(***************************************************************************)
(* Distributed work (core/rust/src/distributed.rs): the table of leases on  *)
(* work items and the run log that is the only writer of accepted results.  *)
(* A worker keeps a copy of its lease and the log checks that copy alone:   *)
(* it never looks at the table.  The table and the log read one clock.      *)
(* Hashes stand for what they are hashes of; the idempotency key of an      *)
(* envelope covers all its fields but the deadline, so that envelopes with  *)
(* different deadlines may share a key.                                     *)
(***************************************************************************)
EXTENDS Naturals, Sequences, FiniteSets

CONSTANTS Workers, Keys, Artifacts,
          Deadlines,     \* deadlines of the envelopes of every key
          PausedKeys,    \* keys whose side effects pause during a partition
          Ttls,          \* times to live that workers ask for
          MaxTime        \* bound: the clock

WorkLeaseAssumption ==
    /\ PausedKeys \subseteq Keys
    /\ Deadlines \subseteq Nat \ {0} /\ Ttls \subseteq Nat \ {0} /\ MaxTime \in Nat

VARIABLES
    now,          \* the clock
    leases,       \* WorkLeaseTable: key -> lease
    issued,       \* every lease a worker was given, and may still present
    partitioned,  \* ClusterPartitionState
    committed,    \* SingleWriterRunLog: <<key, artifact>> -> proof
    ledger        \* the accepted candidates in the order of the run's ledger

workVars == <<now, leases, issued, partitioned, committed, ledger>>

Envelopes == [key : Keys, deadline : Deadlines]

WorkInit ==
    /\ now = 0 /\ leases = << >> /\ issued = {} /\ partitioned = FALSE
    /\ committed = << >> /\ ledger = << >>

Tick ==
    /\ now < MaxTime /\ now' = now + 1
    /\ UNCHANGED <<leases, issued, partitioned, committed, ledger>>

SetPartition ==
    /\ partitioned' = ~partitioned
    /\ UNCHANGED <<now, leases, issued, committed, ledger>>

Earlier(x, y) == IF x < y THEN x ELSE y

\* There is no lease in the way, or one that has expired.
Free(key) == key \in DOMAIN leases => leases[key].expires <= now

Acquire(w, e, ttl) ==
    LET lease == [key |-> e.key, worker |-> w, acquired |-> now,
                  expires |-> Earlier(now + ttl, e.deadline)]
    IN  /\ now < e.deadline /\ Free(e.key)
        /\ leases' = [k \in DOMAIN leases \cup {e.key} |->
                         IF k = e.key THEN lease ELSE leases[k]]
        /\ issued' = issued \cup {lease}
        /\ UNCHANGED <<now, partitioned, committed, ledger>>

\* Mutant: the writer takes the word of a worker for its lease.
MutIsValidFor(lease, e) == lease.key = e.key

\* WorkLease::is_valid_for.
IsValidFor(lease, e) == lease.key = e.key /\ now < lease.expires

\* An accepted candidate is one event of the ledger, and of the log; the
\* holder is what the table says, which the log does not read.
CommitCandidate(e, lease, artifact) ==
    /\ ~(partitioned /\ e.key \in PausedKeys)
    /\ IsValidFor(lease, e)
    /\ <<e.key, artifact>> \notin DOMAIN committed
    /\ ledger' = Append(ledger, [key |-> e.key, artifact |-> artifact, lease |-> lease,
                                 holder |-> leases[e.key], partitioned |-> partitioned])
    /\ committed' = [k \in DOMAIN committed \cup {<<e.key, artifact>>} |->
                        IF k = <<e.key, artifact>> THEN Len(ledger') ELSE committed[k]]
    /\ UNCHANGED <<now, leases, issued, partitioned>>

WorkNext ==
    \/ Tick \/ SetPartition
    \/ \E w \in Workers, e \in Envelopes, ttl \in Ttls : Acquire(w, e, ttl)
    \/ \E lease \in issued, e \in Envelopes, a \in Artifacts : CommitCandidate(e, lease, a)

WorkSpec == WorkInit /\ [][WorkNext]_workVars

-----------------------------------------------------------------------------
(* Properties.                                                             *)

\* Of the leases ever issued for a key at most one has not expired, and it is
\* the one in the table: the log may trust the copy a worker presents.
OneLiveLease ==
    \A lease \in issued :
        lease.expires > now => lease.key \in DOMAIN leases /\ leases[lease.key] = lease

\* The writer accepts a candidate from the holder of the table's lease only,
\* once for each work item and artifact, never during a partition when the
\* side effect must pause, and the log and the ledger agree on what was
\* accepted.
AcceptedFromHolder ==
    /\ \A i \in DOMAIN ledger :
          /\ ledger[i].holder = ledger[i].lease
          /\ ledger[i].key \in PausedKeys => ~ledger[i].partitioned
          /\ <<ledger[i].key, ledger[i].artifact>> \in DOMAIN committed
          /\ committed[<<ledger[i].key, ledger[i].artifact>>] = i
    /\ Cardinality(DOMAIN committed) = Len(ledger)

\* Distributed work has one holder and one writer at a time, though the writer
\* checks only the copy of the lease that a worker presents.
WorkIsExclusive == OneLiveLease /\ AcceptedFromHolder
=============================================================================
