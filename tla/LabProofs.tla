------------------------------ MODULE LabProofs ------------------------------
(***************************************************************************)
(* Whatever adapters, operator, archive and recovery call, in any order    *)
(* and with any appends rejected: the ledger of a Lab run settles what it  *)
(* admitted once, its evidence is frozen once verified, its projection is  *)
(* the replay of its ledger, and a reconciliation closes every lane.       *)
(* Every method is a series of Commits; an event that the ledger permits   *)
(* and the new projection reflects keeps the invariant.                    *)
(***************************************************************************)
EXTENDS LabRun, DataLemmas

-----------------------------------------------------------------------------
(* What a recursive function computes, one step at a time.                 *)

\* f is the replay of the first m events.
Replays(es, m, f) ==
    f = [i \in 0 .. m |-> IF i = 0 THEN Created ELSE Apply(f[i - 1], es[i])]

LEMMA ReplaysExist ==
    ASSUME NEW es, NEW n \in Nat
    PROVE  \E f : Replays(es, n, f)
  <1> DEFINE Bad == {m \in Nat : ~ \E f : Replays(es, m, f)}
  <1> SUFFICES ASSUME Bad # {} PROVE FALSE
    OBVIOUS
  <1>1. PICK m \in Bad : \A k \in Bad : m <= k
    <2>1. Bad \subseteq Nat
      OBVIOUS
    <2> HIDE DEF Bad
    <2> QED BY <2>1, HasLeast
  <1>2. m # 0
    <2> DEFINE f == [i \in 0 .. 0 |-> Created]
    <2>1. Replays(es, 0, f)
      BY DEF Replays
    <2> QED BY <2>1
  <1>3. PICK f : Replays(es, m - 1, f)
    BY <1>1, <1>2
  <1> DEFINE g == [i \in 0 .. m |-> IF i < m THEN f[i] ELSE Apply(f[m - 1], es[m])]
  <1>4. Replays(es, m, g)
    BY <1>2, <1>3 DEF Replays
  <1> QED BY <1>4

LEMMA ReplayIs ==
    ASSUME NEW es, Len(es) \in Nat
    PROVE  \E f : Replays(es, Len(es), f) /\ Replay(es) = f[Len(es)]
  BY ReplaysExist DEF Replay, Replays

\* The replay of one event more.
LEMMA ReplayAppend ==
    ASSUME NEW S, NEW es \in Seq(S), NEW e \in S
    PROVE  Replay(Append(es, e)) = Apply(Replay(es), e)
  <1> DEFINE n == Len(es)
             es2 == Append(es, e)
  <1>1. /\ n \in Nat /\ Len(es2) = n + 1 /\ es2[n + 1] = e
        /\ \A i \in 1 .. n : es2[i] = es[i]
    OBVIOUS
  <1>2. PICK f : Replays(es, n, f) /\ Replay(es) = f[n]
    BY <1>1, ReplayIs
  <1> HIDE DEF es2
  <1>3. PICK g : Replays(es2, n + 1, g) /\ Replay(es2) = g[n + 1]
    <2>1. Len(es2) \in Nat
      BY <1>1
    <2> QED BY <1>1, <2>1, ReplayIs
  <1>4. f[n] = g[n]
    <2> DEFINE Bad == {m \in Nat : m <= n /\ f[m] # g[m]}
    <2> SUFFICES ASSUME Bad # {} PROVE FALSE
      BY <1>1
    <2>1. PICK m \in Bad : \A k \in Bad : m <= k
      <3>1. Bad \subseteq Nat
        OBVIOUS
      <3> HIDE DEF Bad
      <3> QED BY <3>1, HasLeast
    <2>2. f[0] = Created /\ g[0] = Created
      BY <1>1, <1>2, <1>3 DEF Replays
    <2>3. m \in 1 .. n /\ f[m - 1] = g[m - 1]
      BY <1>1, <2>1, <2>2
    <2>4. f[m] = Apply(f[m - 1], es[m]) /\ g[m] = Apply(g[m - 1], es2[m])
      BY <1>1, <1>2, <1>3, <2>3 DEF Replays
    <2> QED BY <1>1, <2>1, <2>3, <2>4
  <1>5. g[n + 1] = Apply(g[n], es2[n + 1])
    BY <1>1, <1>3 DEF Replays
  <1> QED BY <1>1, <1>2, <1>3, <1>4, <1>5 DEF es2

LEMMA ReplayNothing == Replay(<<>>) = Created
  <1>1. PICK f : Replays(<<>>, 0, f) /\ Replay(<<>>) = f[0]
    BY ReplayIs
  <1> QED BY <1>1 DEF Replays

\* f is what the loop leaves after each of the first m identities.
Iterates(loop, r, ids, m, f) ==
    f = [i \in 0 .. m |-> IF i = 0 THEN r ELSE Body(loop, f[i - 1], ids[i])]

LEMMA IteratesExist ==
    ASSUME NEW loop, NEW r, NEW ids, NEW n \in Nat
    PROVE  \E f : Iterates(loop, r, ids, n, f)
  <1> DEFINE Bad == {m \in Nat : ~ \E f : Iterates(loop, r, ids, m, f)}
  <1> SUFFICES ASSUME Bad # {} PROVE FALSE
    OBVIOUS
  <1>1. PICK m \in Bad : \A k \in Bad : m <= k
    <2>1. Bad \subseteq Nat
      OBVIOUS
    <2> HIDE DEF Bad
    <2> QED BY <2>1, HasLeast
  <1>2. m # 0
    <2> DEFINE f == [i \in 0 .. 0 |-> r]
    <2>1. Iterates(loop, r, ids, 0, f)
      BY DEF Iterates
    <2> QED BY <2>1
  <1>3. PICK f : Iterates(loop, r, ids, m - 1, f)
    BY <1>1, <1>2
  <1> DEFINE g == [i \in 0 .. m |-> IF i < m THEN f[i] ELSE Body(loop, f[m - 1], ids[m])]
  <1>4. Iterates(loop, r, ids, m, g)
    BY <1>2, <1>3 DEF Iterates
  <1> QED BY <1>4

\* The sequence of a finite set lists each of its elements.
LEMMA SequenceOfSet ==
    ASSUME NEW S, IsFiniteSet(S)
    PROVE  /\ SetToSeq(S) \in Seq(S)
           /\ \A x \in S : \E i \in 1 .. Len(SetToSeq(S)) : SetToSeq(S)[i] = x
           /\ \A i, j \in 1 .. Len(SetToSeq(S)) : SetToSeq(S)[i] = SetToSeq(S)[j] => i = j
  <1> DEFINE n == Cardinality(S)
             s == SetToSeq(S)
  <1>1. n \in Nat /\ ExistsBijection(1 .. n, S)
    BY FS_CardinalityType
  <1>2. PICK b : b \in Bijection(1 .. n, S)
    BY <1>1 DEF ExistsBijection
  <1>3. b \in [1 .. n -> S] /\ IsInjective(b)
    BY <1>2 DEF Bijection, Injection, IsInjective
  <1>4. s \in [1 .. n -> S] /\ IsInjective(s)
    BY <1>3 DEF SetToSeq
  <1>5. s \in Injection(1 .. n, S)
    BY <1>4 DEF Injection, IsInjective
  <1>6. s \in Seq(S) /\ Len(s) = n
    BY <1>1, <1>4
  <1>7. s \in Surjection(1 .. n, S)
    <2>1. IsFiniteSet(1 .. n) /\ Cardinality(1 .. n) = n
      BY <1>1, FS_Interval
    <2> QED BY <1>1, <1>5, <2>1, FS_Injection
  <1>8. \A i, j \in 1 .. Len(s) : s[i] = s[j] => i = j
    BY <1>4, <1>6 DEF IsInjective
  <1> QED BY <1>6, <1>7, <1>8 DEF Surjection

\* A loop over a finite set is a sequence f of runs, from the run it starts with to
\* the one it leaves, and handles each element once.
Trace(loop, r, S, ids, f) ==
    /\ ids \in Seq(S) /\ f[0] = r /\ ForEach(loop, r, S) = f[Len(ids)]
    /\ \A i \in 1 .. Len(ids) : f[i] = Body(loop, f[i - 1], ids[i])
    /\ \A x \in S : \E i \in 1 .. Len(ids) : ids[i] = x
    /\ \A i, j \in 1 .. Len(ids) : ids[i] = ids[j] => i = j

LEMMA LoopRuns ==
    ASSUME NEW loop, NEW r, NEW S, IsFiniteSet(S)
    PROVE  \E ids, f : Trace(loop, r, S, ids, f)
  <1> DEFINE ids == SetToSeq(S)
  <1>1. /\ ids \in Seq(S) /\ Len(ids) \in Nat
        /\ \A x \in S : \E i \in 1 .. Len(ids) : ids[i] = x
        /\ \A i, j \in 1 .. Len(ids) : ids[i] = ids[j] => i = j
    BY SequenceOfSet
  <1> HIDE DEF ids
  <1>2. \E f : Iterates(loop, r, ids, Len(ids), f) /\ AfterAll(loop, r, ids) = f[Len(ids)]
    <2>1. \E f : Iterates(loop, r, ids, Len(ids), f)
      BY <1>1, IteratesExist
    <2> DEFINE g == CHOOSE f : Iterates(loop, r, ids, Len(ids), f)
    <2>2. Iterates(loop, r, ids, Len(ids), g)
      BY <2>1
    <2>3. AfterAll(loop, r, ids) = g[Len(ids)]
      BY DEF AfterAll, Iterates
    <2> QED BY <2>2, <2>3
  <1>3. PICK f : Iterates(loop, r, ids, Len(ids), f) /\ AfterAll(loop, r, ids) = f[Len(ids)]
    BY <1>2
  <1>4. ForEach(loop, r, S) = f[Len(ids)]
    BY <1>3 DEF ForEach, ids
  <1>5. f[0] = r /\ \A i \in 1 .. Len(ids) : f[i] = Body(loop, f[i - 1], ids[i])
    <2>1. \A i \in 0 .. Len(ids) : f[i] = IF i = 0 THEN r ELSE Body(loop, f[i - 1], ids[i])
      BY <1>3, Zenon DEF Iterates
    <2>2. 0 \in 0 .. Len(ids) /\ \A i \in 1 .. Len(ids) : i \in 0 .. Len(ids) /\ i # 0
      BY <1>1
    <2> QED BY <2>1, <2>2, Zenon
  <1> QED BY <1>1, <1>4, <1>5 DEF Trace

-----------------------------------------------------------------------------
(* The inductive invariant: what every method keeps of a run.              *)

States == {"planned", "researching", "experimenting", "reviewing", "blocked", "completed", "aborted"}
Records == Gaps \cup {"claim"}
Lanes == ToolLane \cup {"skill", "experiment", "research", "browse", "observe"}
Blockers ==
    Gaps \cup
    {"paused_by_operator", "execution_reconciliation_failed", "reconciliation_failed", "abort_failed",
     "unsettled_execution_requires_reconciliation", "unsettled_tool_execution_requires_reconciliation",
     "settlement_failed", "admission_failed", "invalid_record", "stage_failed", "prompt_injection",
     "unknown_outcome", "tool_failed", "simulation_failed", "experiment_failed",
     "phase_transition_failed", "checkpoint_failed", "effect_failed", "search_missing",
     "exploration_failed", "controller_suppressed", "no_progress", "spec_invalid",
     "experiment_suppressed", "runner_missing", "benchmark_rejected", "benchmark_invalid",
     "effect_missing", "controller_step_failed", "archive_failed", "failure_archive_failed"}
EventKinds ==
    {"state", "blocker", "resolved", "record", "admit", "settle", "cancel", "cancelled",
     "finalization", "verified", "committed", "exploration"}
Values == States \cup Records \cup Lanes \cup Blockers \cup {"", "step"} \cup Nat
Events == [k : EventKinds, x : Values, s : Statuses \cup {""}]

Runs ==
    [events : Seq(Events), state : States, blockers : SUBSET Blockers, have : SUBSET Records,
     tools : SUBSET ToolLane, settled : SUBSET ToolLane, count : Nat, finalizing : BOOLEAN,
     verified : BOOLEAN, ok : BOOLEAN, fail : Nat]

\* The positions of the events of a kind.
Of(r, k) == {i \in 1 .. Len(r.events) : r.events[i].k = k}

\* The ledger is sound, the projection of the tool lane and the count of attempts are
\* what it says, and the cancellations have the numbers up to the last one.
LedgerHolds(r) ==
    /\ LedgerSound(r)
    /\ r.tools = Admitted(r) \cap ToolLane /\ r.settled = Settled(r) \cap ToolLane
    /\ Admitted(r) \subseteq Lanes
    /\ r.count = Cardinality(Of(r, "admit")) /\ r.count <= Budget
    /\ \A i \in Of(r, "cancel") \cup Of(r, "cancelled") : r.events[i].x \in 1 .. Cancels(r)

\* There is at most one receipt, for an explicit goal, after all evidence; a completed
\* run has its evidence, and was completed after its receipt.
EvidenceHolds(r) ==
    /\ r.verified = Verification(r)
    /\ Verification(r) => Explicit
    /\ \A v, w \in Of(r, "verified") : v = w
    /\ \A v \in Of(r, "verified"), i \in Of(r, "record") : i < v
    /\ r.state = "completed" =>
          /\ Gaps \subseteq r.have
          /\ Explicit => Verification(r)
          /\ \E c \in Of(r, "state") :
                r.events[c].x = "completed" /\ \A v \in Of(r, "verified") : v < c

\* The projection is what p has.
Projects(r, p) ==
    /\ p \in Runs
    /\ p.state = r.state /\ p.blockers = r.blockers /\ p.have = r.have /\ p.tools = r.tools
    /\ p.settled = r.settled /\ p.count = r.count /\ p.finalizing = r.finalizing
    /\ p.verified = r.verified

Good(r) == r \in Runs /\ LedgerHolds(r) /\ EvidenceHolds(r) /\ Projects(r, Replay(r.events))

LabInv ==
    /\ Good(run) /\ run.ok /\ run.fail = 0
    /\ disk = <<>> \/ /\ disk = <<disk[1]>> /\ Good(disk[1]) /\ disk[1].ok /\ disk[1].fail = 0
                      /\ ProgressProjects(disk[1])

-----------------------------------------------------------------------------
(* One event more.                                                         *)

\* Facts about the ledger es with the event e after it.
LEMMA LedgerAppended ==
    ASSUME NEW r \in Runs, NEW q \in Runs, NEW e \in Events, q.events = Append(r.events, e)
    PROVE  /\ Len(r.events) \in Nat /\ Len(q.events) = Len(r.events) + 1
           /\ q.events[Len(r.events) + 1] = e
           /\ \A i \in 1 .. Len(r.events) : q.events[i] = r.events[i]
           /\ \A i \in 1 .. Len(r.events) : r.events[i] \in Events
  <1>1. r.events \in Seq(Events)
    BY DEF Runs
  <1> HIDE DEF Events
  <1> QED BY <1>1

LEMMA OfAppended ==
    ASSUME NEW r \in Runs, NEW q \in Runs, NEW e \in Events, q.events = Append(r.events, e), NEW k
    PROVE  /\ Of(r, k) \subseteq 1 .. Len(r.events)
           /\ e.k = k => Of(q, k) = Of(r, k) \cup {Len(r.events) + 1}
           /\ e.k # k => Of(q, k) = Of(r, k)
  BY LedgerAppended DEF Of

LEMMA AdmittedIs ==
    ASSUME NEW r
    PROVE  /\ Admitted(r) = {r.events[i].x : i \in Of(r, "admit")}
           /\ Settled(r) = {r.events[i].x : i \in Of(r, "settle")}
           /\ Verification(r) <=> Of(r, "verified") # {}
           /\ Cancels(r) = Cardinality(Of(r, "cancel"))
  BY DEF Admitted, Settled, Verification, Cancels, Of

LEMMA SetsAppended ==
    ASSUME NEW r \in Runs, NEW q \in Runs, NEW e \in Events, q.events = Append(r.events, e)
    PROVE  /\ Admitted(q) = Admitted(r) \cup (IF e.k = "admit" THEN {e.x} ELSE {})
           /\ Settled(q) = Settled(r) \cup (IF e.k = "settle" THEN {e.x} ELSE {})
           /\ Verification(q) <=> Verification(r) \/ e.k = "verified"
  <1>1. /\ q.events[Len(r.events) + 1] = e
        /\ \A i \in 1 .. Len(r.events) : q.events[i] = r.events[i]
    BY LedgerAppended
  <1>2. ASSUME NEW k
        PROVE  {q.events[i].x : i \in Of(q, k)} =
                  {r.events[i].x : i \in Of(r, k)} \cup (IF e.k = k THEN {e.x} ELSE {})
    <2>1. /\ Of(r, k) \subseteq 1 .. Len(r.events)
          /\ e.k = k => Of(q, k) = Of(r, k) \cup {Len(r.events) + 1}
          /\ e.k # k => Of(q, k) = Of(r, k)
      BY OfAppended, SMTT(60)
    <2> QED BY <1>1, <2>1
  <1>3. ASSUME NEW k
        PROVE  Of(q, k) # {} <=> Of(r, k) # {} \/ e.k = k
    <2>1. /\ e.k = k => Of(q, k) = Of(r, k) \cup {Len(r.events) + 1}
          /\ e.k # k => Of(q, k) = Of(r, k)
      BY OfAppended
    <2> QED BY <2>1
  <1>4. /\ Admitted(q) = {q.events[i].x : i \in Of(q, "admit")}
        /\ Admitted(r) = {r.events[i].x : i \in Of(r, "admit")}
        /\ Settled(q) = {q.events[i].x : i \in Of(q, "settle")}
        /\ Settled(r) = {r.events[i].x : i \in Of(r, "settle")}
        /\ (Verification(q) <=> Of(q, "verified") # {}) /\ (Verification(r) <=> Of(r, "verified") # {})
    BY AdmittedIs, Zenon
  <1> QED BY <1>2, <1>3, <1>4, Zenon

LEMMA SucceededAppended ==
    ASSUME NEW r \in Runs, NEW q \in Runs, NEW e \in Events, q.events = Append(r.events, e)
    PROVE  /\ Succeeded(r) \subseteq Succeeded(q)
           /\ e.k = "settle" /\ e.s = "SUCCESS" => e.x \in Succeeded(q)
  <1>1. /\ Len(r.events) \in Nat /\ Len(q.events) = Len(r.events) + 1
        /\ q.events[Len(r.events) + 1] = e
        /\ \A i \in 1 .. Len(r.events) : q.events[i] = r.events[i]
    BY LedgerAppended
  <1> DEFINE yes(p, i) == i \in 1 .. Len(p.events) /\ p.events[i].k = "settle" /\ p.events[i].s = "SUCCESS"
  <1>2. ASSUME NEW x PROVE x \in Succeeded(q) <=> \E i : yes(q, i) /\ x = q.events[i].x
    BY Zenon DEF Succeeded
  <1>3. ASSUME NEW x PROVE x \in Succeeded(r) <=> \E i : yes(r, i) /\ x = r.events[i].x
    BY Zenon DEF Succeeded
  <1>4. \A i : yes(r, i) => yes(q, i) /\ q.events[i].x = r.events[i].x
    BY <1>1
  <1>5. e.k = "settle" /\ e.s = "SUCCESS" => yes(q, Len(r.events) + 1)
    BY <1>1
  <1> HIDE DEF yes
  <1> QED BY <1>1, <1>2, <1>3, <1>4, <1>5, ZenonT(30)

LEMMA CountAppended ==
    ASSUME NEW r \in Runs, NEW q \in Runs, NEW e \in Events, q.events = Append(r.events, e), NEW k
    PROVE  /\ Cardinality(Of(r, k)) \in Nat
           /\ e.k = k => Cardinality(Of(q, k)) = Cardinality(Of(r, k)) + 1
           /\ e.k # k => Cardinality(Of(q, k)) = Cardinality(Of(r, k))
  <1>1. Len(r.events) \in Nat
    BY LedgerAppended
  <1>2. IsFiniteSet(Of(r, k))
    <2>1. IsFiniteSet(1 .. Len(r.events))
      BY <1>1, FS_Interval
    <2> QED BY <2>1, OfAppended, FS_Subset
  <1>3. Len(r.events) + 1 \notin Of(r, k)
    BY <1>1, OfAppended
  <1>4. Cardinality(Of(r, k)) \in Nat
    BY <1>2, FS_CardinalityType
  <1>5. Cardinality(Of(r, k) \cup {Len(r.events) + 1}) = Cardinality(Of(r, k)) + 1
    BY <1>2, <1>3, FS_AddElement
  <1>6. /\ e.k = k => Of(q, k) = Of(r, k) \cup {Len(r.events) + 1}
        /\ e.k # k => Of(q, k) = Of(r, k)
    BY OfAppended
  <1> QED BY <1>4, <1>5, <1>6

\* What _require_open_admission and the admissions ask of the next event.
FitsLedger(r, e) ==
    /\ e.k = "admit" => e.x \notin Admitted(r)
    /\ e.k = "settle" => e.x \in Admitted(r) /\ e.x \notin Settled(r)
    /\ e.k = "cancel" => \A j \in Of(r, "cancel") : r.events[j].x # e.x
    /\ e.k = "cancelled" => /\ \E j \in Of(r, "cancel") : r.events[j].x = e.x
                            /\ \A j \in Of(r, "cancelled") : r.events[j].x # e.x

LEMMA SoundnessAppended ==
    ASSUME NEW r \in Runs, NEW q \in Runs, NEW e \in Events, q.events = Append(r.events, e),
           LedgerSound(r), FitsLedger(r, e)
    PROVE  LedgerSound(q)
  <1> DEFINE n == Len(r.events)
  <1>0. /\ n \in Nat /\ Len(q.events) = n + 1 /\ q.events[n + 1] = e
        /\ \A i \in 1 .. n : q.events[i] = r.events[i]
    BY LedgerAppended
  <1> HIDE DEF n
  <1>1. \A i \in 1 .. n : \A k : Before(q, i, k) = Before(r, i, k)
    BY <1>0 DEF Before
  <1>2. \A k : Before(q, n + 1, k) = {j \in Of(r, k) : r.events[j].x = e.x}
    BY <1>0 DEF Before, Of, n
  <1>3. ASSUME NEW i \in 1 .. n
        PROVE  /\ q.events[i].k \in {"admit", "cancel"} => Before(q, i, q.events[i].k) = {}
               /\ q.events[i].k = "settle" =>
                    Cardinality(Before(q, i, "admit")) = 1 /\ Before(q, i, "settle") = {}
               /\ q.events[i].k = "cancelled" =>
                    Cardinality(Before(q, i, "cancel")) = 1 /\ Before(q, i, "cancelled") = {}
    <2>1. q.events[i] = r.events[i]
      BY <1>0
    <2>2. i \in 1 .. Len(r.events)
      BY DEF n
    <2> QED BY <1>1, <2>1, <2>2, ZenonT(60) DEF LedgerSound
  \* An identity is admitted at one place, and so is a cancellation.
  <1>4. ASSUME NEW k \in {"admit", "cancel"}, NEW i \in Of(r, k), NEW j \in Of(r, k),
               r.events[i].x = r.events[j].x
        PROVE  i = j
    <2>1. i \in 1 .. n /\ j \in 1 .. n /\ r.events[i].k = k /\ r.events[j].k = k
      BY DEF Of, n
    <2>2. Before(r, i, k) = {} /\ Before(r, j, k) = {}
      BY <2>1 DEF LedgerSound, n
    <2>3. ~(i < j) /\ ~(j < i)
      BY <1>0, <1>4, <2>1, <2>2 DEF Before
    <2> QED BY <1>0, <2>1, <2>3
  <1>5. ASSUME NEW k \in {"admit", "cancel"}, NEW i \in Of(r, k), r.events[i].x = e.x
        PROVE  Cardinality(Before(q, n + 1, k)) = 1
    <2>1. Before(q, n + 1, k) = {i}
      BY <1>2, <1>4, <1>5
    <2> QED BY <2>1, FS_Singleton
  <1>6. /\ e.k \in {"admit", "cancel"} => Before(q, n + 1, e.k) = {}
        /\ e.k = "settle" =>
             Cardinality(Before(q, n + 1, "admit")) = 1 /\ Before(q, n + 1, "settle") = {}
        /\ e.k = "cancelled" =>
             Cardinality(Before(q, n + 1, "cancel")) = 1 /\ Before(q, n + 1, "cancelled") = {}
    BY <1>2, <1>5, AdmittedIs DEF FitsLedger
  <1>7. \A i \in 1 .. Len(q.events) : i \in 1 .. n \/ i = n + 1
    BY <1>0
  <1> QED BY <1>0, <1>3, <1>6, <1>7, Zenon DEF LedgerSound

\* new is r with what the event e says.
Reflects(r, new, e) ==
    /\ new \in Runs /\ e \in Events
    /\ new.events = r.events /\ new.count = r.count /\ new.verified = r.verified
    /\ new.ok = r.ok /\ new.fail = r.fail
    /\ new.state = IF e.k = "state" THEN e.x ELSE r.state
    /\ new.blockers = IF e.k = "blocker" THEN r.blockers \cup {e.x}
                      ELSE IF e.k = "resolved" THEN r.blockers \ {e.x} ELSE r.blockers
    /\ new.have = IF e.k = "record" THEN r.have \cup {e.x} ELSE r.have
    /\ new.tools = IF e.k = "admit" /\ e.x \in ToolLane THEN r.tools \cup {e.x} ELSE r.tools
    /\ new.settled = IF e.k = "settle" /\ e.x \in ToolLane THEN r.settled \cup {e.x} ELSE r.settled
    /\ new.finalizing = IF e.k = "finalization" THEN TRUE ELSE r.finalizing

\* What the methods ask of a run before they append the event e.
Permitted(r, e) ==
    /\ FitsLedger(r, e)
    /\ e.k = "admit" => e.x \in Lanes
    /\ e.k = "cancel" => e.x = Cancels(r) + 1
    /\ e.k = "cancelled" => e.x \in 1 .. Cancels(r)
    /\ e.k = "verified" => Explicit /\ ~Verification(r) /\ r.state # "completed"
    /\ e.k = "record" => ~Verification(r)
    /\ e.k = "state" /\ e.x = "completed" => Gaps \subseteq r.have /\ (Explicit => Verification(r))

LEMMA AppendedIs ==
    ASSUME NEW new \in Runs, NEW e \in Events
    PROVE  /\ Appended(new, e) \in Runs
           /\ Appended(new, e).events = Append(new.events, e)
           /\ Appended(new, e).count = IF e.k = "admit" THEN new.count + 1 ELSE new.count
           /\ Appended(new, e).verified = (new.verified \/ e.k = "verified")
           /\ Appended(new, e).state = new.state /\ Appended(new, e).blockers = new.blockers
           /\ Appended(new, e).have = new.have /\ Appended(new, e).tools = new.tools
           /\ Appended(new, e).settled = new.settled
           /\ Appended(new, e).finalizing = new.finalizing /\ Appended(new, e).ok = new.ok
           /\ Appended(new, e).fail = IF new.fail > 0 THEN new.fail - 1 ELSE 0
  <1> DEFINE es == Append(new.events, e)
             c == IF e.k = "admit" THEN new.count + 1 ELSE new.count
             v == (new.verified \/ e.k = "verified")
             f == IF new.fail > 0 THEN new.fail - 1 ELSE 0
  <1>1. es \in Seq(Events)
    <2>1. new.events \in Seq(Events)
      BY DEF Runs
    <2> HIDE DEF Events
    <2> QED BY <2>1
  <1>2. c \in Nat /\ f \in Nat
    BY DEF Runs
  <1>3. v \in BOOLEAN
    OBVIOUS
  <1>4. Appended(new, e) = [new EXCEPT !.events = es, !.count = c, !.verified = v, !.fail = f]
    BY Zenon DEF Appended, Runs
  <1> HIDE DEF es, c, v, f
  <1>5. /\ [new EXCEPT !.events = es, !.count = c, !.verified = v, !.fail = f] \in Runs
        /\ \A q : q = [new EXCEPT !.events = es, !.count = c, !.verified = v, !.fail = f] =>
              /\ q.events = es /\ q.count = c /\ q.verified = v /\ q.fail = f
              /\ q.state = new.state /\ q.blockers = new.blockers /\ q.have = new.have
              /\ q.tools = new.tools /\ q.settled = new.settled
              /\ q.finalizing = new.finalizing /\ q.ok = new.ok
    BY <1>1, <1>2, <1>3, ZenonT(60) DEF Runs
  <1> QED BY <1>4, <1>5, Zenon DEF es, c, v, f

LEMMA AppendKeepsLedger ==
    ASSUME NEW r \in Runs, NEW new, NEW e, Reflects(r, new, e), Permitted(r, e), LedgerHolds(r),
           e.k = "admit" => r.count < Budget, Budget \in Nat
    PROVE  LedgerHolds(Appended(new, e))
  <1> DEFINE q == Appended(new, e)
  <1>1. /\ q \in Runs /\ q.events = Append(r.events, e) /\ e \in Events
        /\ q.count = (IF e.k = "admit" THEN r.count + 1 ELSE r.count)
        /\ q.tools = new.tools /\ q.settled = new.settled
    BY AppendedIs DEF Reflects
  <1> HIDE DEF q
  <1>2. LedgerSound(q)
    BY <1>1, SoundnessAppended DEF Permitted, LedgerHolds
  <1>3. /\ Admitted(q) = Admitted(r) \cup (IF e.k = "admit" THEN {e.x} ELSE {})
        /\ Settled(q) = Settled(r) \cup (IF e.k = "settle" THEN {e.x} ELSE {})
    BY <1>1, SetsAppended
  <1>4. q.tools = Admitted(q) \cap ToolLane /\ q.settled = Settled(q) \cap ToolLane
    BY <1>1, <1>3 DEF Reflects, LedgerHolds
  <1>5. Admitted(q) \subseteq Lanes
    BY <1>3 DEF Permitted, LedgerHolds
  <1>6. q.count = Cardinality(Of(q, "admit")) /\ q.count <= Budget
    <2>1. /\ e.k = "admit" => Cardinality(Of(q, "admit")) = Cardinality(Of(r, "admit")) + 1
          /\ e.k # "admit" => Cardinality(Of(q, "admit")) = Cardinality(Of(r, "admit"))
      BY <1>1, CountAppended
    <2>2. r.count \in Nat
      BY DEF Runs
    <2> QED BY <1>1, <2>1, <2>2 DEF LedgerHolds
  <1>7. ASSUME NEW i \in Of(q, "cancel") \cup Of(q, "cancelled")
        PROVE  q.events[i].x \in 1 .. Cancels(q)
    <2>1. /\ Cancels(r) \in Nat
          /\ e.k = "cancel" => Cancels(q) = Cancels(r) + 1
          /\ e.k # "cancel" => Cancels(q) = Cancels(r)
      BY <1>1, CountAppended, AdmittedIs
    <2>2. \/ i = Len(r.events) + 1 /\ e.k \in {"cancel", "cancelled"}
          \/ i \in 1 .. Len(r.events) /\ i \in Of(r, "cancel") \cup Of(r, "cancelled")
      <3>1. \A k : /\ Of(r, k) \subseteq 1 .. Len(r.events)
                   /\ e.k = k => Of(q, k) = Of(r, k) \cup {Len(r.events) + 1}
                   /\ e.k # k => Of(q, k) = Of(r, k)
        BY <1>1, OfAppended, ZenonT(60)
      <3> QED BY <3>1
    <2>3. CASE i = Len(r.events) + 1 /\ e.k \in {"cancel", "cancelled"}
      <3>1. q.events[i] = e
        BY <1>1, <2>3, LedgerAppended
      <3> QED BY <2>1, <2>3, <3>1 DEF Permitted
    <2>4. CASE i \in 1 .. Len(r.events) /\ i \in Of(r, "cancel") \cup Of(r, "cancelled")
      <3>1. q.events[i] = r.events[i]
        BY <1>1, <2>4, LedgerAppended
      <3>2. r.events[i].x \in 1 .. Cancels(r)
        BY <2>4 DEF LedgerHolds
      <3> QED BY <2>1, <3>1, <3>2
    <2> QED BY <2>2, <2>3, <2>4
  <1> QED BY <1>2, <1>4, <1>5, <1>6, <1>7 DEF LedgerHolds, q

LEMMA AppendKeepsEvidence ==
    ASSUME NEW r \in Runs, NEW new, NEW e, Reflects(r, new, e), Permitted(r, e), EvidenceHolds(r)
    PROVE  EvidenceHolds(Appended(new, e))
  <1> DEFINE q == Appended(new, e)
             n == Len(r.events)
  <1>1. /\ q \in Runs /\ q.events = Append(r.events, e) /\ e \in Events
        /\ q.verified = (r.verified \/ e.k = "verified")
        /\ q.state = new.state /\ q.have = new.have
    BY AppendedIs, SMTT(60) DEF Reflects
  <1> HIDE DEF q
  <1>2. /\ n \in Nat /\ q.events[n + 1] = e /\ \A i \in 1 .. n : q.events[i] = r.events[i]
    BY <1>1, LedgerAppended
  <1> HIDE DEF n
  <1>3. Verification(q) <=> Verification(r) \/ e.k = "verified"
    BY <1>1, SetsAppended
  <1>4. \A k : /\ Of(r, k) \subseteq 1 .. n
               /\ e.k = k => Of(q, k) = Of(r, k) \cup {n + 1}
               /\ e.k # k => Of(q, k) = Of(r, k)
    BY <1>1, OfAppended, ZenonT(60) DEF n
  <1>5. q.verified = Verification(q)
    <2>1. Verification(r) \in BOOLEAN /\ Verification(q) \in BOOLEAN
      BY DEF Verification
    <2>2. r.verified = Verification(r)
      BY DEF EvidenceHolds
    <2> QED BY <1>1, <1>3, <2>1, <2>2, Zenon
  <1>6. Verification(q) => Explicit
    BY <1>3 DEF EvidenceHolds, Permitted
  <1>7. \A v, w \in Of(q, "verified") : v = w
    <2>1. e.k = "verified" => Of(r, "verified") = {}
      BY AdmittedIs DEF Permitted
    <2> QED BY <1>4, <2>1 DEF EvidenceHolds
  <1>8. \A v \in Of(q, "verified"), i \in Of(q, "record") : i < v
    <2>1. e.k = "record" => Of(r, "verified") = {}
      BY AdmittedIs DEF Permitted
    <2> QED BY <1>2, <1>4, <2>1 DEF EvidenceHolds
  <1>9. ASSUME q.state = "completed"
        PROVE  /\ Gaps \subseteq q.have
               /\ Explicit => Verification(q)
               /\ \E c \in Of(q, "state") :
                     q.events[c].x = "completed" /\ \A v \in Of(q, "verified") : v < c
    <2>1. CASE e.k = "state"
      <3>1. e.x = "completed" /\ e.k # "record"
        BY <1>1, <1>9, <2>1 DEF Reflects
      <3>2. Gaps \subseteq q.have /\ (Explicit => Verification(q))
        BY <1>1, <1>3, <2>1, <3>1 DEF Reflects, Permitted
      <3>3. n + 1 \in Of(q, "state") /\ \A v \in Of(q, "verified") : v < n + 1
        BY <1>2, <1>4, <2>1
      <3> QED BY <1>2, <3>1, <3>2, <3>3
    <2>2. CASE e.k # "state"
      <3>1. r.state = "completed"
        BY <1>1, <1>9, <2>2 DEF Reflects
      <3>2. e.k # "verified"
        BY <3>1 DEF Permitted
      <3>3. Gaps \subseteq q.have /\ (Explicit => Verification(q))
        BY <1>1, <1>3, <3>1 DEF Reflects, EvidenceHolds
      <3>4. PICK c \in Of(r, "state") :
               r.events[c].x = "completed" /\ \A v \in Of(r, "verified") : v < c
        BY <3>1 DEF EvidenceHolds
      <3>5. c \in Of(q, "state") /\ q.events[c].x = "completed" /\ \A v \in Of(q, "verified") : v < c
        BY <1>2, <1>4, <2>2, <3>2, <3>4
      <3> QED BY <3>3, <3>5
    <2> QED BY <2>1, <2>2
  <1> QED BY <1>5, <1>6, <1>7, <1>8, <1>9 DEF EvidenceHolds, q

LEMMA AppendKeepsProjection ==
    ASSUME NEW r \in Runs, NEW new, NEW e, Reflects(r, new, e), Projects(r, Replay(r.events))
    PROVE  Projects(Appended(new, e), Replay(Appended(new, e).events))
  <1> DEFINE q == Appended(new, e)
             p == Replay(r.events)
  <1>1. /\ q \in Runs /\ q.events = Append(r.events, e) /\ e \in Events
        /\ q.count = (IF e.k = "admit" THEN r.count + 1 ELSE r.count)
        /\ q.verified = (r.verified \/ e.k = "verified") /\ q.state = new.state /\ q.blockers = new.blockers /\ q.have = new.have
        /\ q.tools = new.tools /\ q.settled = new.settled /\ q.finalizing = new.finalizing
    <2>1. new \in Runs /\ e \in Events /\ new.events = r.events /\ new.count = r.count
          /\ new.verified = r.verified
      BY DEF Reflects
    <2>2. /\ q \in Runs /\ q.events = Append(new.events, e)
          /\ q.count = (IF e.k = "admit" THEN new.count + 1 ELSE new.count)
          /\ q.verified = (new.verified \/ e.k = "verified")
          /\ q.state = new.state /\ q.blockers = new.blockers /\ q.have = new.have
          /\ q.tools = new.tools /\ q.settled = new.settled /\ q.finalizing = new.finalizing
      BY <2>1, AppendedIs, Zenon
    <2> HIDE DEF q
    <2> QED BY <2>1, <2>2, Zenon
  <1>2. Replay(q.events) = Apply(p, e)
    <2>1. r.events \in Seq(Events)
      BY DEF Runs
    <2> HIDE DEF Events
    <2> QED BY <1>1, <2>1, ReplayAppend
  <1> HIDE DEF q, p
  <1>3. Projects(r, p)
    BY DEF p
  <1> SUFFICES Projects(q, Apply(p, e))
    BY <1>2 DEF q
  <1>4. e.k \in EventKinds
    BY <1>1 DEF Events
  <1>5. p \in Runs
    BY <1>3 DEF Projects
  <1>6. q.verified = (IF e.k = "verified" THEN TRUE ELSE r.verified)
    <2>1. r.verified \in BOOLEAN
      BY DEF Runs
    <2> QED BY <1>1, <2>1
  <1>10. CASE e.k = "state"
    BY <1>1, <1>3, <1>5, <1>6, <1>10, ZenonT(60) DEF Apply, Projects, Reflects, Runs
  <1>11. CASE e.k = "blocker"
    BY <1>1, <1>3, <1>5, <1>6, <1>11, ZenonT(60) DEF Apply, Projects, Reflects, Runs
  <1>12. CASE e.k = "resolved"
    BY <1>1, <1>3, <1>5, <1>6, <1>12, ZenonT(60) DEF Apply, Projects, Reflects, Runs
  <1>13. CASE e.k = "record"
    BY <1>1, <1>3, <1>5, <1>6, <1>13, ZenonT(60) DEF Apply, Projects, Reflects, Runs
  <1>14. CASE e.k = "admit"
    BY <1>1, <1>3, <1>5, <1>6, <1>14, ZenonT(60) DEF Apply, Projects, Reflects, Runs
  <1>15. CASE e.k = "settle"
    BY <1>1, <1>3, <1>5, <1>6, <1>15, ZenonT(60) DEF Apply, Projects, Reflects, Runs
  <1>16. CASE e.k = "finalization"
    BY <1>1, <1>3, <1>5, <1>6, <1>16, ZenonT(60) DEF Apply, Projects, Reflects, Runs
  <1>17. CASE e.k = "verified"
    BY <1>1, <1>3, <1>5, <1>6, <1>17, ZenonT(60) DEF Apply, Projects, Reflects, Runs
  <1>18. CASE e.k \in {"cancel", "cancelled", "committed", "exploration"}
    BY <1>1, <1>3, <1>5, <1>6, <1>18, ZenonT(60) DEF Apply, Projects, Reflects, Runs
  <1> QED BY <1>4, <1>10, <1>11, <1>12, <1>13, <1>14, <1>15, <1>16, <1>17, <1>18 DEF EventKinds

\* q is r but for ok and fail.
SameRun(r, q) ==
    /\ q \in Runs /\ q.events = r.events /\ q.state = r.state /\ q.blockers = r.blockers
    /\ q.have = r.have /\ q.tools = r.tools /\ q.settled = r.settled
    /\ q.count = r.count /\ q.finalizing = r.finalizing /\ q.verified = r.verified

LEMMA ExceptIs ==
    ASSUME NEW r \in Runs, NEW b \in BOOLEAN, NEW n \in Nat
    PROVE  /\ SameRun(r, [r EXCEPT !.ok = b, !.fail = n])
           /\ [r EXCEPT !.ok = b, !.fail = n].ok = b /\ [r EXCEPT !.ok = b, !.fail = n].fail = n
           /\ SameRun(r, [r EXCEPT !.ok = b])
           /\ [r EXCEPT !.ok = b].ok = b /\ [r EXCEPT !.ok = b].fail = r.fail
           /\ SameRun(r, [r EXCEPT !.fail = n])
           /\ [r EXCEPT !.fail = n].ok = r.ok /\ [r EXCEPT !.fail = n].fail = n
  <1>1. ASSUME NEW q \in {[r EXCEPT !.ok = b, !.fail = n], [r EXCEPT !.ok = b], [r EXCEPT !.fail = n]}
        PROVE  SameRun(r, q)
    BY ZenonT(60) DEF Runs, SameRun
  <1>2. ASSUME NEW q, q = [r EXCEPT !.ok = b, !.fail = n]
        PROVE  q.ok = b /\ q.fail = n
    BY <1>2 DEF Runs
  <1>3. ASSUME NEW q, q = [r EXCEPT !.ok = b]
        PROVE  q.ok = b /\ q.fail = r.fail
    BY <1>3 DEF Runs
  <1>4. ASSUME NEW q, q = [r EXCEPT !.fail = n]
        PROVE  q.ok = r.ok /\ q.fail = n
    BY <1>4 DEF Runs
  <1> QED BY <1>1, <1>2, <1>3, <1>4, Zenon

LEMMA SameRunHas ==
    ASSUME NEW r, NEW q, SameRun(r, q)
    PROVE  /\ Admitted(q) = Admitted(r) /\ Settled(q) = Settled(r) /\ Cancels(q) = Cancels(r)
           /\ Verification(q) = Verification(r) /\ Succeeded(q) = Succeeded(r)
           /\ \A k : Of(q, k) = Of(r, k)
  BY Zenon DEF SameRun, Admitted, Settled, Succeeded, Cancels, Verification, Of

\* Raising, and the count-down to a rejection, leave the ledger and the projection.
LEMMA GoodStays ==
    ASSUME NEW r, Good(r), NEW b \in BOOLEAN, NEW n \in Nat
    PROVE  /\ Good([r EXCEPT !.ok = b, !.fail = n]) /\ Good([r EXCEPT !.ok = b])
           /\ Good([r EXCEPT !.fail = n])
  <1>1. r \in Runs
    BY DEF Good
  <1>2. ASSUME NEW q, SameRun(r, q)
        PROVE  Good(q)
    <2>0. /\ q \in Runs /\ q.events = r.events /\ q.state = r.state /\ q.blockers = r.blockers
          /\ q.have = r.have /\ q.tools = r.tools /\ q.settled = r.settled
          /\ q.count = r.count /\ q.finalizing = r.finalizing /\ q.verified = r.verified
      BY <1>2 DEF SameRun
    <2>1. LedgerSound(q) <=> LedgerSound(r)
      BY <2>0 DEF LedgerSound, Before
    <2>2. /\ Admitted(q) = Admitted(r) /\ Settled(q) = Settled(r) /\ Cancels(q) = Cancels(r)
          /\ Verification(q) = Verification(r) /\ \A k : Of(q, k) = Of(r, k)
      BY <1>2, SameRunHas
    <2>4. LedgerHolds(q)
      BY <2>0, <2>1, <2>2 DEF Good, LedgerHolds
    <2>5. EvidenceHolds(q)
      BY <2>0, <2>2 DEF Good, EvidenceHolds
    <2>6. Projects(q, Replay(q.events))
      BY <2>0, Zenon DEF Good, Projects
    <2> QED BY <2>0, <2>4, <2>5, <2>6, Zenon DEF Good
  <1> QED BY <1>1, <1>2, ExceptIs, Zenon

LEMMA RestoreIs ==
    ASSUME NEW r \in Runs, NEW snap \in Runs, snap.verified = r.verified
    PROVE  Restore(r, snap) = [snap EXCEPT !.ok = FALSE, !.fail = 0]
  BY DEF Restore, Runs

LEMMA RestoreSelf ==
    ASSUME NEW r \in Runs
    PROVE  SameRun(r, Restore(r, r)) /\ Restore(r, r).ok = FALSE /\ Restore(r, r).fail = 0
  <1>1. Restore(r, r) = [r EXCEPT !.ok = FALSE, !.fail = 0]
    BY RestoreIs
  <1>2. ASSUME NEW q, q = [r EXCEPT !.ok = FALSE, !.fail = 0]
        PROVE  SameRun(r, q) /\ q.ok = FALSE /\ q.fail = 0
    BY <1>2 DEF SameRun, Runs
  <1> QED BY <1>1, <1>2

LEMMA CommitCases ==
    ASSUME NEW r \in Runs, NEW snap, NEW new, NEW e, Budget \in Nat
    PROVE  \/ ~r.ok /\ Commit(r, snap, new, e) = r
           \/ r.ok /\ e.k = "admit" /\ Commit(r, snap, new, e) = Raise(r)
           \/ r.ok /\ r.fail = 1 /\ Commit(r, snap, new, e) = Restore(r, snap)
           \/ /\ r.ok /\ r.fail # 1 /\ (e.k = "admit" => r.count < Budget)
              /\ Commit(r, snap, new, e) = Appended(new, e)
  <1>1. r.count \in Nat
    BY DEF Runs
  <1> DEFINE over == e.k = "admit" /\ r.count >= Budget
  <1>2. over \/ (e.k = "admit" => r.count < Budget)
    BY <1>1
  <1>3. CASE ~r.ok
    BY <1>3, Zenon DEF Commit
  <1>4. CASE r.ok /\ over
    BY <1>4, Zenon DEF Commit
  <1>5. CASE r.ok /\ ~over /\ r.fail = 1
    BY <1>5, Zenon DEF Commit
  <1>6. CASE r.ok /\ ~over /\ r.fail # 1
    BY <1>2, <1>6, Zenon DEF Commit
  <1> QED BY <1>3, <1>4, <1>5, <1>6

\* An append keeps a good run good, whether it is accepted or rejected.
LEMMA CommitGood ==
    ASSUME NEW r, Good(r), NEW snap, Good(snap), snap.verified = r.verified, Budget \in Nat,
           NEW new, NEW e, r.ok => Reflects(r, new, e) /\ Permitted(r, e)
    PROVE  Good(Commit(r, snap, new, e))
  <1> DEFINE c == Commit(r, snap, new, e)
  <1>1. r \in Runs /\ snap \in Runs
    BY DEF Good
  <1>2. CASE c = r
    BY <1>2
  <1>3. CASE c = Raise(r)
    BY <1>3, GoodStays DEF Raise
  <1>4. CASE c = Restore(r, snap)
    <2>1. c = [snap EXCEPT !.ok = FALSE, !.fail = 0]
      BY <1>1, <1>4, RestoreIs, Zenon
    <2>2. \A b \in BOOLEAN, n \in Nat : Good([snap EXCEPT !.ok = b, !.fail = n])
      BY GoodStays
    <2>3. FALSE \in BOOLEAN /\ 0 \in Nat
      OBVIOUS
    <2> QED BY <2>1, <2>2, <2>3, Zenon
  <1>5. CASE r.ok /\ (e.k = "admit" => r.count < Budget) /\ c = Appended(new, e)
    <2>1. Reflects(r, new, e) /\ Permitted(r, e)
      BY <1>5
    <2>2. LedgerHolds(r) /\ EvidenceHolds(r) /\ Projects(r, Replay(r.events))
      BY DEF Good
    <2>3. new \in Runs /\ e \in Events
      BY <2>1 DEF Reflects
    <2>4. Appended(new, e) \in Runs
      BY <2>3, AppendedIs
    <2>5. LedgerHolds(Appended(new, e))
      BY <1>1, <1>5, <2>1, <2>2, AppendKeepsLedger
    <2>6. EvidenceHolds(Appended(new, e))
      BY <1>1, <2>1, <2>2, AppendKeepsEvidence
    <2>7. Projects(Appended(new, e), Replay(Appended(new, e).events))
      BY <1>1, <2>1, <2>2, AppendKeepsProjection
    <2> QED BY <1>5, <2>4, <2>5, <2>6, <2>7 DEF Good
  <1> HIDE DEF c
  <1> QED BY <1>1, <1>2, <1>3, <1>4, <1>5, CommitCases DEF c

\* A rejected append leaves the run, one that succeeds makes it new with the event e.
Outcome(r, new, e, c) ==
    \/ /\ SameRun(r, c) /\ ~c.ok /\ (r.fail = 0 => c.fail = 0)
       /\ r.ok => e.k = "admit" \/ (r.fail = 1 /\ c.fail = 0)
    \/ /\ c \in Runs /\ c.ok /\ r.ok /\ c.events = Append(r.events, e)
       /\ c.state = new.state /\ c.blockers = new.blockers /\ c.have = new.have
       /\ c.tools = new.tools /\ c.settled = new.settled /\ c.finalizing = new.finalizing
       /\ r.fail = 0 => c.fail = 0

LEMMA CommitOutcome ==
    ASSUME NEW r \in Runs, NEW new, NEW e, Budget \in Nat, r.ok => Reflects(r, new, e)
    PROVE  Outcome(r, new, e, Commit(r, r, new, e))
  <1> SUFFICES ASSUME NEW c,
                      \/ ~r.ok /\ c = r
                      \/ r.ok /\ e.k = "admit" /\ c = Raise(r)
                      \/ r.ok /\ r.fail = 1 /\ c = Restore(r, r)
                      \/ r.ok /\ c = Appended(new, e)
               PROVE  Outcome(r, new, e, c)
    BY CommitCases
  <1>1. CASE ~r.ok /\ c = r
    BY <1>1 DEF SameRun, Outcome
  <1>2. CASE r.ok /\ e.k = "admit" /\ c = Raise(r)
    <2>1. FALSE \in BOOLEAN /\ 0 \in Nat
      OBVIOUS
    <2>2. SameRun(r, c) /\ c.ok = FALSE /\ c.fail = r.fail
      BY <1>2, <2>1, ExceptIs, Zenon DEF Raise
    <2> QED BY <1>2, <2>2 DEF Outcome
  <1>3. CASE r.ok /\ r.fail = 1 /\ c = Restore(r, r)
    <2>1. FALSE \in BOOLEAN /\ 0 \in Nat
      OBVIOUS
    <2>2. SameRun(r, c) /\ c.ok = FALSE /\ c.fail = 0
      BY <1>3, RestoreSelf
    <2> QED BY <1>3, <2>2 DEF Outcome
  <1>4. CASE r.ok /\ c = Appended(new, e)
    <2>1. /\ new \in Runs /\ e \in Events /\ new.events = r.events /\ new.ok = r.ok
          /\ new.fail = r.fail /\ r.fail \in Nat
      BY <1>4 DEF Reflects, Runs
    <2>2. /\ c \in Runs /\ c.events = Append(new.events, e) /\ c.state = new.state
          /\ c.blockers = new.blockers /\ c.have = new.have /\ c.tools = new.tools
          /\ c.settled = new.settled /\ c.finalizing = new.finalizing /\ c.ok = new.ok
      BY <1>4, <2>1, AppendedIs, ZenonT(60)
    <2>3. c.fail = IF new.fail > 0 THEN new.fail - 1 ELSE 0
      BY <1>4, <2>1, AppendedIs, Zenon
    <2>4. r.fail = 0 => c.fail = 0
      BY <2>1, <2>3
    <2> QED BY <1>4, <2>1, <2>2, <2>4, Zenon DEF Outcome
  <1> QED BY <1>1, <1>2, <1>3, <1>4

\* What a method that appends e leaves as it was, and when it does not raise.
Keeps(r, e, c) ==
    /\ e.k # "state" => c.state = r.state
    /\ e.k \notin {"blocker", "resolved"} => c.blockers = r.blockers
    /\ e.k = "blocker" => c.blockers \in {r.blockers, r.blockers \cup {e.x}}
    /\ e.k = "resolved" => c.blockers \in {r.blockers, r.blockers \ {e.x}}
    /\ e.k # "record" => c.have = r.have
    /\ e.k # "admit" => Admitted(c) = Admitted(r) /\ c.tools = r.tools
    /\ Admitted(c) \subseteq Admitted(r) \cup {e.x}
    /\ e.k # "settle" => Settled(c) = Settled(r) /\ c.settled = r.settled
    /\ Settled(r) \subseteq Settled(c) /\ Succeeded(r) \subseteq Succeeded(c)
    /\ e.k # "verified" => c.verified = r.verified /\ Verification(c) = Verification(r)
    /\ c.ok => r.ok
    /\ ~r.ok => c = r
    /\ r.fail = 0 => c.fail = 0

Accepted(r, e, c) ==
    /\ r.fail = 0 /\ (e.k = "admit" => r.count < Budget) => c.ok = r.ok
    /\ r.ok /\ ~c.ok /\ e.k # "admit" => c.fail = 0

LEMMA AppendKeeps ==
    ASSUME NEW r, Good(r), Budget \in Nat, NEW new, NEW e,
           r.ok => Reflects(r, new, e) /\ Permitted(r, e)
    PROVE  LET c == Commit(r, r, new, e)
           IN  Good(c) /\ Outcome(r, new, e, c) /\ Keeps(r, e, c) /\ Accepted(r, e, c)
  <1>1. r \in Runs /\ r.ok \in BOOLEAN
    BY DEF Good, Runs
  <1> DEFINE c == Commit(r, r, new, e)
  <1>2. Good(c) /\ c \in Runs /\ c.ok \in BOOLEAN
    <2>1. Good(c)
      BY CommitGood
    <2> HIDE DEF c
    <2> QED BY <2>1 DEF Good, Runs
  <1>3. Outcome(r, new, e, c)
    BY <1>1, CommitOutcome
  <1>4. ~r.ok => c = r
    BY DEF Commit
  <1>5. r.fail = 0 /\ (e.k = "admit" => r.count < Budget) => c.ok = r.ok
    <2>1. \/ ~r.ok /\ c = r
          \/ r.ok /\ e.k = "admit" /\ r.count >= Budget
          \/ r.ok /\ r.fail = 1
          \/ r.ok /\ c = Appended(new, e)
      BY DEF Commit
    <2>2. r.count \in Nat
      BY <1>1 DEF Runs
    <2>3. r.ok /\ c = Appended(new, e) => c.ok = r.ok
      <3> SUFFICES ASSUME r.ok PROVE Appended(new, e).ok = r.ok
        OBVIOUS
      <3> QED BY AppendedIs DEF Reflects
    <2> HIDE DEF c
    <2> QED BY <2>1, <2>2, <2>3
  <1> HIDE DEF c
  <1>8. r.ok /\ ~c.ok /\ e.k # "admit" => c.fail = 0
    BY <1>3, Zenon DEF Outcome
  <1>6. CASE SameRun(r, c) /\ ~c.ok /\ (r.fail = 0 => c.fail = 0)
    <2>1. /\ Admitted(c) = Admitted(r) /\ Settled(c) = Settled(r)
          /\ Verification(c) = Verification(r) /\ Succeeded(c) = Succeeded(r)
      BY <1>6, SameRunHas, Zenon
    <2>2. Keeps(r, e, c)
      BY <1>2, <1>4, <1>6, <2>1, ZenonT(60) DEF Keeps, SameRun
    <2>3. Accepted(r, e, c)
      BY <1>5, <1>8, Zenon DEF Accepted
    <2> QED BY <1>2, <1>3, <2>2, <2>3, Zenon DEF c
  <1>7. CASE /\ c \in Runs /\ c.ok /\ r.ok /\ c.events = Append(r.events, e)
             /\ c.state = new.state /\ c.blockers = new.blockers /\ c.have = new.have
             /\ c.tools = new.tools /\ c.settled = new.settled /\ c.finalizing = new.finalizing
             /\ r.fail = 0 => c.fail = 0
    <2>1. Reflects(r, new, e) /\ e \in Events
      BY <1>7 DEF Reflects
    <2>2. /\ Admitted(c) = Admitted(r) \cup (IF e.k = "admit" THEN {e.x} ELSE {})
          /\ Settled(c) = Settled(r) \cup (IF e.k = "settle" THEN {e.x} ELSE {})
          /\ Verification(c) <=> Verification(r) \/ e.k = "verified"
      BY <1>1, <1>7, <2>1, SetsAppended, ZenonT(60)
    <2>3. /\ e.k # "admit" => Admitted(c) = Admitted(r) /\ c.tools = r.tools
          /\ e.k # "settle" => Settled(c) = Settled(r) /\ c.settled = r.settled
          /\ e.k # "state" => c.state = r.state
          /\ e.k \notin {"blocker", "resolved"} => c.blockers = r.blockers
          /\ e.k # "record" => c.have = r.have
      BY <1>7, <2>1, <2>2 DEF Reflects
    <2>5. /\ e.k = "blocker" => c.blockers = r.blockers \cup {e.x}
          /\ e.k = "resolved" => c.blockers = r.blockers \ {e.x}
      BY <1>7, <2>1 DEF Reflects
    <2>6. Admitted(c) \subseteq Admitted(r) \cup {e.x} /\ Settled(r) \subseteq Settled(c)
      BY <2>2
    <2>4. e.k # "verified" => c.verified = r.verified /\ Verification(c) = Verification(r)
      <3>1. Verification(c) \in BOOLEAN /\ Verification(r) \in BOOLEAN
        BY DEF Verification
      <3>2. c.verified = Verification(c) /\ r.verified = Verification(r)
        BY <1>2 DEF Good, EvidenceHolds
      <3> QED BY <2>2, <3>1, <3>2, Zenon
    <2>9. Succeeded(r) \subseteq Succeeded(c)
      BY <1>1, <1>7, <2>1, SucceededAppended, Zenon
    <2>7. Keeps(r, e, c)
      BY <1>2, <1>4, <1>7, <2>3, <2>4, <2>5, <2>6, <2>9, ZenonT(60) DEF Keeps
    <2>8. Accepted(r, e, c)
      BY <1>5, <1>8, Zenon DEF Accepted
    <2> QED BY <1>2, <1>3, <2>7, <2>8, Zenon DEF c
  <1> QED BY <1>3, <1>6, <1>7, Zenon DEF Outcome

LEMMA EventIs ==
    ASSUME NEW k \in EventKinds, NEW x \in Values, NEW s \in Statuses \cup {""}
    PROVE  Event(k, x, s) \in Events /\ Event(k, x, s).k = k /\ Event(k, x, s).x = x
  BY DEF Event, Events

\* What a series of methods that admits nothing but X, resolves no blocker but that of a
\* pause, and neither ends the run nor finds the outcome of a tool unknown makes of it.
Evolves(r, q, X) ==
    /\ Good(q)
    /\ Admitted(q) \subseteq Admitted(r) \cup X
    /\ Settled(r) \subseteq Settled(q) /\ Succeeded(r) \subseteq Succeeded(q)
    /\ r.blockers \ {"paused_by_operator"} \subseteq q.blockers
    /\ "unknown_outcome" \in q.blockers => "unknown_outcome" \in r.blockers
    /\ q.state \in Terminal => r.state \in Terminal

\* q has the admissions, the settlements and the blockers of r.
SameLanes(r, q) ==
    Admitted(q) = Admitted(r) /\ Settled(q) = Settled(r) /\ q.blockers = r.blockers

LEMMA EvolvesOn ==
    ASSUME NEW X, NEW r, NEW q, Evolves(r, q, X), NEW p, Evolves(q, p, X)
    PROVE  Evolves(r, p, X)
  BY Zenon DEF Evolves

LEMMA EvolvesMore ==
    ASSUME NEW X, NEW r, NEW q, Evolves(r, q, {})
    PROVE  Evolves(r, q, X)
  BY Zenon DEF Evolves

LEMMA SameEvolves ==
    ASSUME NEW X, NEW r, NEW q, Good(q), SameRun(r, q)
    PROVE  Evolves(r, q, X)
  <1>1. Admitted(q) = Admitted(r) /\ Settled(q) = Settled(r) /\ Succeeded(q) = Succeeded(r)
    BY SameRunHas
  <1>2. q.blockers = r.blockers /\ q.state = r.state
    BY DEF SameRun
  <1> QED BY <1>1, <1>2, Zenon DEF Evolves

LEMMA KeepsEvolves ==
    ASSUME NEW X, NEW r, NEW q, Good(q), NEW e, Keeps(r, e, q),
           e.k = "admit" => e.x \in X,
           e.k = "blocker" => e.x # "unknown_outcome",
           e.k = "resolved" => e.x = "paused_by_operator",
           e.k = "state" /\ q.state \in Terminal => r.state \in Terminal
    PROVE  Evolves(r, q, X)
  <1>1. Admitted(q) \subseteq Admitted(r) \cup X
    BY DEF Keeps
  <1>2. Settled(r) \subseteq Settled(q) /\ Succeeded(r) \subseteq Succeeded(q)
    BY DEF Keeps
  <1>3. \/ q.blockers = r.blockers
        \/ e.k = "blocker" /\ q.blockers = r.blockers \cup {e.x}
        \/ e.k = "resolved" /\ q.blockers = r.blockers \ {e.x}
    BY DEF Keeps
  <1>4. r.blockers \ {"paused_by_operator"} \subseteq q.blockers
    BY <1>3
  <1>5. "unknown_outcome" \in q.blockers => "unknown_outcome" \in r.blockers
    BY <1>3
  <1>6. q.state \in Terminal => r.state \in Terminal
    BY DEF Keeps
  <1> QED BY <1>1, <1>2, <1>4, <1>5, <1>6 DEF Evolves

-----------------------------------------------------------------------------
(* The methods.                                                            *)

LEMMA RecordBlockerGood ==
    ASSUME NEW r, Good(r), NEW b \in Blockers, Budget \in Nat
    PROVE  LET q == RecordBlocker(r, b)
           IN  /\ Good(q) /\ Keeps(r, Event("blocker", b, ""), q)
               /\ r.fail = 0 => q.ok = r.ok
               /\ q.ok => q.blockers = r.blockers \cup {b}
               /\ r.ok /\ ~q.ok => q.fail = 0
  <1> DEFINE e == Event("blocker", b, "")
             new == [r EXCEPT !.blockers = @ \cup {b}]
  <1>1. r \in Runs
    BY DEF Good
  <1>2. e \in Events /\ e.k = "blocker" /\ e.x = b
    <2>1. "blocker" \in EventKinds /\ b \in Values /\ "" \in Statuses \cup {""}
      BY DEF EventKinds, Values
    <2> QED BY <2>1, EventIs, ZenonT(60)
  <1> HIDE DEF e
  <1>3. Reflects(r, new, e) /\ new.blockers = r.blockers \cup {b}
    BY <1>1, <1>2 DEF Reflects, Runs
  <1>4. Permitted(r, e)
    BY <1>2 DEF Permitted, FitsLedger
  <1> HIDE DEF new
  <1>5. CASE b \in r.blockers
    <2>1. RecordBlocker(r, b) = r
      BY <1>5 DEF RecordBlocker
    <2>2. Keeps(r, e, r)
      BY DEF Keeps
    <2>3. r.blockers = r.blockers \cup {b}
      BY <1>5
    <2> QED BY <2>1, <2>2, <2>3 DEF e
  <1>6. CASE b \notin r.blockers
    <2> DEFINE q == Commit(r, r, new, e)
    <2>1. RecordBlocker(r, b) = q
      BY <1>6 DEF RecordBlocker, e, new
    <2>2. Good(q) /\ Outcome(r, new, e, q) /\ Keeps(r, e, q) /\ Accepted(r, e, q)
      BY <1>3, <1>4, AppendKeeps
    <2> HIDE DEF q
    <2>3. /\ q.ok => q.blockers = r.blockers \cup {b}
          /\ r.fail = 0 => q.ok = r.ok
          /\ r.ok /\ ~q.ok => q.fail = 0
      BY <1>2, <1>3, <2>2 DEF Outcome, Accepted
    <2> QED BY <2>1, <2>2, <2>3 DEF e
  <1> QED BY <1>5, <1>6

LEMMA RaiseGood ==
    ASSUME NEW r, Good(r)
    PROVE  Good(Raise(r)) /\ (\A e : Keeps(r, e, Raise(r))) /\ SameRun(r, Raise(r)) /\ ~Raise(r).ok
  <1>1. r \in Runs
    BY DEF Good
  <1> DEFINE q == Raise(r)
  <1>2. Good(q)
    BY GoodStays DEF Raise
  <1>3. SameRun(r, q) /\ ~q.ok /\ q.fail = r.fail
    BY <1>1, ExceptIs, Zenon DEF Raise
  <1>4. ~r.ok => q = r
    BY <1>1 DEF Raise, Runs
  <1> HIDE DEF q
  <1>5. /\ Admitted(q) = Admitted(r) /\ Settled(q) = Settled(r)
        /\ Verification(q) = Verification(r) /\ Succeeded(q) = Succeeded(r)
    BY <1>3, SameRunHas, Zenon
  <1>6. ASSUME NEW e PROVE Keeps(r, e, q)
    BY <1>3, <1>4, <1>5, Zenon DEF Keeps, SameRun
  <1> QED BY <1>2, <1>3, <1>6 DEF q

LEMMA ResolveBlockerGood ==
    ASSUME NEW r, Good(r), NEW b \in Blockers, Budget \in Nat
    PROVE  Good(ResolveBlocker(r, b)) /\ Keeps(r, Event("resolved", b, ""), ResolveBlocker(r, b))
  <1> DEFINE e == Event("resolved", b, "")
             new == [r EXCEPT !.blockers = @ \ {b}]
  <1>1. r \in Runs
    BY DEF Good
  <1>2. e \in Events /\ e.k = "resolved" /\ e.x = b
    <2>1. "resolved" \in EventKinds /\ b \in Values /\ "" \in Statuses \cup {""}
      BY DEF EventKinds, Values
    <2> QED BY <2>1, EventIs, ZenonT(60)
  <1> HIDE DEF e
  <1>3. Reflects(r, new, e)
    BY <1>1, <1>2 DEF Reflects, Runs
  <1>4. Permitted(r, e)
    BY <1>2 DEF Permitted, FitsLedger
  <1> HIDE DEF new
  <1>5. CASE b \notin r.blockers
    <2>1. ResolveBlocker(r, b) = r
      BY <1>5 DEF ResolveBlocker
    <2>2. Keeps(r, e, r)
      BY DEF Keeps
    <2> QED BY <2>1, <2>2 DEF e
  <1>6. CASE b \in r.blockers
    <2>1. ResolveBlocker(r, b) = Commit(r, r, new, e)
      BY <1>6 DEF ResolveBlocker, e, new
    <2>2. Good(Commit(r, r, new, e)) /\ Keeps(r, e, Commit(r, r, new, e))
      BY <1>3, <1>4, AppendKeeps
    <2> QED BY <2>1, <2>2 DEF e
  <1> QED BY <1>5, <1>6

\* transition: a run is completed only with its evidence.
LEMMA TransitionGood ==
    ASSUME NEW r, Good(r), NEW s \in States, s = "completed" => Gaps \subseteq r.have, Budget \in Nat
    PROVE  LET q == Transition(r, s)
           IN  /\ Good(q) /\ Keeps(r, Event("state", s, ""), q)
               /\ q.state \in {r.state, s}
               /\ q.ok => q.state = s
               /\ r.ok /\ r.fail = 0 /\ s \in Allowed[r.state] \cup {r.state} /\ s # "completed" => q.ok
               /\ r.ok /\ ~q.ok /\ s \in Allowed[r.state] /\ s # "completed" => q.fail = 0
               /\ \A k : k # "state" => Of(q, k) = Of(r, k)
               /\ \A k : k # "state" => \A i \in Of(r, k) : q.events[i] = r.events[i]
  <1> DEFINE e == Event("state", s, "")
             new == [r EXCEPT !.state = s]
  <1>1. r \in Runs
    BY DEF Good
  <1>2. e \in Events /\ e.k = "state" /\ e.x = s
    <2>1. "state" \in EventKinds /\ s \in Values /\ "" \in Statuses \cup {""}
      BY DEF EventKinds, Values
    <2> QED BY <2>1, EventIs, ZenonT(60)
  <1> HIDE DEF e
  <1>3. Reflects(r, new, e) /\ new.state = s
    BY <1>1, <1>2 DEF Reflects, Runs
  <1> DEFINE bad == s \notin Allowed[r.state] \/ (s = "completed" /\ Explicit /\ ~Verification(r))
             q == Transition(r, s)
  <1>4. CASE ~r.ok \/ s = r.state
    <2>1. q = r
      BY <1>4 DEF Transition
    <2>2. Keeps(r, e, r)
      BY DEF Keeps
    <2> HIDE DEF q
    <2> QED BY <1>4, <2>1, <2>2, Zenon DEF e, q
  <1>5. CASE ~(~r.ok \/ s = r.state) /\ bad
    <2>1. q = Raise(r)
      BY <1>5, Zenon DEF Transition
    <2>2. Good(q) /\ Keeps(r, e, q) /\ SameRun(r, q) /\ ~q.ok
      BY <2>1, RaiseGood, Zenon
    <2> HIDE DEF q
    <2>3. (\A k : Of(q, k) = Of(r, k)) /\ q.events = r.events /\ q.state = r.state
      BY <2>2, SameRunHas, Zenon DEF SameRun
    <2> QED BY <1>5, <2>2, <2>3, Zenon DEF e, q
  <1>6. CASE ~(~r.ok \/ s = r.state) /\ ~bad
    <2>1. q = Commit(r, r, new, e)
      BY <1>6, Zenon DEF Transition, e, new
    <2>2. Permitted(r, e)
      BY <1>2, <1>6 DEF Permitted, FitsLedger
    <2>3. Good(q) /\ Outcome(r, new, e, q) /\ Keeps(r, e, q) /\ Accepted(r, e, q)
      BY <1>3, <2>1, <2>2, AppendKeeps
    <2> HIDE DEF q, new
    <2>4. q.state \in {r.state, s} /\ (q.ok => q.state = s)
      BY <1>3, <2>3 DEF Outcome, SameRun
    <2>5. (r.ok /\ r.fail = 0 => q.ok) /\ (r.ok /\ ~q.ok => q.fail = 0)
      BY <1>2, <2>3 DEF Accepted
    <2>6. ASSUME NEW k, k # "state"
          PROVE  Of(q, k) = Of(r, k) /\ \A i \in Of(r, k) : q.events[i] = r.events[i]
      <3>1. CASE SameRun(r, q)
        BY <3>1, SameRunHas DEF SameRun
      <3>2. CASE q \in Runs /\ q.events = Append(r.events, e)
        <4>1. Of(q, k) = Of(r, k) /\ Of(r, k) \subseteq 1 .. Len(r.events)
          BY <1>1, <1>2, <2>6, <3>2, OfAppended
        <4>2. \A i \in 1 .. Len(r.events) : q.events[i] = r.events[i]
          BY <1>1, <1>2, <3>2, LedgerAppended
        <4> QED BY <4>1, <4>2
      <3> QED BY <2>3, <3>1, <3>2 DEF Outcome
    <2> QED BY <2>3, <2>4, <2>5, <2>6, Zenon DEF e, q
  <1> QED BY <1>4, <1>5, <1>6

LEMMA PauseGood ==
    ASSUME NEW r, Good(r), Budget \in Nat
    PROVE  Good(Pause(r)) /\ Good(Resume(r))
  <1>1. Good(Raise(r))
    BY RaiseGood
  <1>2. /\ "blocked" \in States /\ "researching" \in States /\ "paused_by_operator" \in Blockers
        /\ "blocked" # "completed" /\ "researching" # "completed"
    BY DEF States, Blockers
  <1>3. Good(RecordBlocker(Transition(r, "blocked"), "paused_by_operator"))
    BY <1>2, TransitionGood, RecordBlockerGood
  <1>4. Good(Transition(ResolveBlocker(r, "paused_by_operator"), "researching"))
    BY <1>2, TransitionGood, ResolveBlockerGood
  <1> QED BY <1>1, <1>3, <1>4 DEF Pause, Resume

LEMMA CancelsNat ==
    ASSUME NEW r \in Runs
    PROVE  Cancels(r) \in Nat
  <1>1. Len(r.events) \in Nat
    BY DEF Runs
  <1>2. IsFiniteSet(Of(r, "cancel"))
    <2>1. IsFiniteSet(1 .. Len(r.events)) /\ Of(r, "cancel") \subseteq 1 .. Len(r.events)
      BY <1>1, FS_Interval, SMTT(60) DEF Of
    <2> QED BY <2>1, FS_Subset
  <1> QED BY <1>2, FS_CardinalityType, AdmittedIs

\* The last cancellation is not settled.
CancelOpen(r) ==
    /\ \E j \in Of(r, "cancel") : r.events[j].x = Cancels(r)
    /\ \A j \in Of(r, "cancelled") : r.events[j].x # Cancels(r)
    /\ Cancels(r) \in Nat \ {0}

LEMMA CancelSettledGood ==
    ASSUME NEW r, Good(r), CancelOpen(r), NEW s \in Statuses, Budget \in Nat
    PROVE  /\ Good(CancelSettled(r, s)) /\ SameLanes(r, CancelSettled(r, s))
           /\ CancelSettled(r, s).state = r.state
  <1> DEFINE e == Event("cancelled", Cancels(r), s)
  <1>1. r \in Runs
    BY DEF Good
  <1>2. e \in Events /\ e.k = "cancelled" /\ e.x = Cancels(r)
    <2>1. "cancelled" \in EventKinds /\ Cancels(r) \in Values /\ s \in Statuses \cup {""}
      BY DEF EventKinds, Values, CancelOpen
    <2> QED BY <2>1, EventIs, Zenon
  <1> HIDE DEF e
  <1>3. Reflects(r, r, e)
    BY <1>1, <1>2 DEF Reflects
  <1>4. Permitted(r, e)
    BY <1>2 DEF Permitted, FitsLedger, CancelOpen
  <1> DEFINE c == Commit(r, r, r, e)
  <1>5. Good(c) /\ Keeps(r, e, c)
    BY <1>3, <1>4, AppendKeeps
  <1> HIDE DEF c
  <1>6. SameLanes(r, c) /\ c.state = r.state
    BY <1>2, <1>5 DEF Keeps, SameLanes
  <1> QED BY <1>5, <1>6 DEF CancelSettled, e, c

LEMMA AbortGood ==
    ASSUME NEW r, Good(r), Budget \in Nat
    PROVE  Good(Abort(r)) /\ SameLanes(r, Abort(r)) /\ Abort(r).state \in {r.state, "aborted"}
  <1> DEFINE e == Event("cancel", Cancels(r) + 1, "")
             a == Commit(r, r, r, e)
  <1>1. r \in Runs /\ Cancels(r) \in Nat
    BY CancelsNat DEF Good
  <1>2. e \in Events /\ e.k = "cancel" /\ e.x = Cancels(r) + 1
    <2>1. "cancel" \in EventKinds /\ Cancels(r) + 1 \in Values /\ "" \in Statuses \cup {""}
      <3>1. Cancels(r) + 1 \in Nat
        BY <1>1
      <3>2. "cancel" \in EventKinds
        BY DEF EventKinds
      <3> QED BY <3>1, <3>2, Zenon DEF Values
    <2> QED BY <2>1, EventIs, ZenonT(60)
  <1> HIDE DEF e
  <1>3. Reflects(r, r, e)
    BY <1>1, <1>2 DEF Reflects
  <1>4. Permitted(r, e)
    BY <1>1, <1>2 DEF Permitted, FitsLedger, Good, LedgerHolds
  <1>5. Good(a) /\ Outcome(r, r, e, a) /\ Keeps(r, e, a)
    BY <1>3, <1>4, AppendKeeps
  <1> HIDE DEF a
  <1>9. SameLanes(r, a) /\ a.state = r.state
    BY <1>2, <1>5 DEF Keeps, SameLanes
  <1>6. ASSUME a.ok PROVE CancelOpen(a)
    <2>1. a \in Runs /\ a.events = Append(r.events, e)
      BY <1>5, <1>6 DEF Outcome
    <2>2. /\ Len(r.events) \in Nat /\ a.events[Len(r.events) + 1] = e
          /\ \A i \in 1 .. Len(r.events) : a.events[i] = r.events[i]
      BY <1>1, <1>2, <2>1, LedgerAppended
    <2>3. Cancels(a) = Cancels(r) + 1
      BY <1>1, <1>2, <2>1, CountAppended, AdmittedIs
    <2>4. Of(a, "cancel") = Of(r, "cancel") \cup {Len(r.events) + 1}
      <3>1. ASSUME NEW k
            PROVE  /\ e.k = k => Of(a, k) = Of(r, k) \cup {Len(r.events) + 1}
                   /\ e.k # k => Of(a, k) = Of(r, k)
        <4>1. r \in Runs /\ a \in Runs /\ e \in Events /\ a.events = Append(r.events, e)
          BY <1>1, <1>2, <2>1
        <4> QED BY <4>1, OfAppended
      <3> QED BY <1>2, <3>1
    <2>5. Of(a, "cancelled") = Of(r, "cancelled") /\ Of(r, "cancelled") \subseteq 1 .. Len(r.events)
      BY <1>1, <1>2, <2>1, OfAppended
    <2>6. \A j \in Of(r, "cancelled") : r.events[j].x \in 1 .. Cancels(r)
      BY DEF Good, LedgerHolds
    <2> QED BY <1>1, <1>2, <2>2, <2>3, <2>4, <2>5, <2>6 DEF CancelOpen
  <1>7. ASSUME a.ok
        PROVE  LET c == CancelTried(Transition(a, "aborted"))
               IN  Good(c) /\ SameLanes(a, c) /\ c.state \in {a.state, "aborted"}
    <2> DEFINE t == Transition(a, "aborted")
    <2>8. PICK d : d = Event("state", "aborted", "")
      OBVIOUS
    <2>9. d.k = "state"
      BY <2>8 DEF Event
    <2>1. /\ Good(t) /\ \A k : k # "state" => Of(t, k) = Of(a, k)
          /\ \A k : k # "state" => \A i \in Of(a, k) : t.events[i] = a.events[i]
          /\ Keeps(a, d, t) /\ t.state \in {a.state, "aborted"}
      <3>1. "aborted" \in States /\ "aborted" # "completed"
        BY DEF States
      <3> QED BY <1>5, <2>8, <3>1, TransitionGood, Zenon
    <2> HIDE DEF t
    <2>10. SameLanes(a, t)
      BY <2>1, <2>9 DEF Keeps, SameLanes
    <2>2. Cancels(t) = Cancels(a) /\ Of(t, "cancel") = Of(a, "cancel")
          /\ Of(t, "cancelled") = Of(a, "cancelled")
      BY <2>1, AdmittedIs
    <2>3. CancelOpen(t)
      BY <1>6, <1>7, <2>1, <2>2 DEF CancelOpen
    <2> "SUCCESS" \in Statuses /\ "REJECTED" \in Statuses
      BY DEF Statuses
    <2>4. /\ Good(CancelSettled(t, "SUCCESS")) /\ SameLanes(t, CancelSettled(t, "SUCCESS"))
          /\ CancelSettled(t, "SUCCESS").state = t.state
      BY <2>1, <2>3, CancelSettledGood, Zenon
    <2> DEFINE u == [t EXCEPT !.ok = TRUE]
    <2>5. Good(u) /\ SameRun(t, u)
      BY <2>1, GoodStays, ExceptIs DEF Good
    <2> HIDE DEF u
    <2>6. CancelOpen(u)
      <3>1. /\ Cancels(u) = Cancels(t) /\ u.events = t.events /\ Of(u, "cancel") = Of(t, "cancel")
            /\ Of(u, "cancelled") = Of(t, "cancelled")
        BY <2>5, SameRunHas DEF SameRun
      <3> QED BY <2>3, <3>1 DEF CancelOpen
    <2> DEFINE v == CancelSettled(u, "REJECTED")
    <2>7. Good(v) /\ SameLanes(u, v) /\ v.state = u.state
      BY <2>5, <2>6, CancelSettledGood, Zenon
    <2> HIDE DEF v
    <2>11. SameRun(v, Raise(v)) /\ Good(Raise(v))
      BY <2>7, RaiseGood
    <2>12. SameLanes(t, u) /\ SameLanes(v, Raise(v))
      BY <2>5, <2>11, SameRunHas, Zenon DEF SameLanes, SameRun
    <2>13. SameLanes(a, Raise(v)) /\ SameLanes(a, CancelSettled(t, "SUCCESS"))
      BY <2>4, <2>7, <2>10, <2>12, Zenon DEF SameLanes
    <2>16. Raise(v).state = t.state
      BY <2>5, <2>7, <2>11 DEF SameRun
    <2>14. CancelTried(t) = IF t.ok THEN CancelSettled(t, "SUCCESS") ELSE Raise(v)
      BY DEF CancelTried, u, v
    <2>15. Good(CancelTried(t)) /\ SameLanes(a, CancelTried(t)) /\ CancelTried(t).state = t.state
      BY <2>4, <2>11, <2>13, <2>14, <2>16, Zenon
    <2> QED BY <2>1, <2>15 DEF t
  <1> DEFINE c == CancelTried(Transition(a, "aborted"))
  <1>8. /\ Good(CancelAdmitted(a)) /\ SameLanes(r, CancelAdmitted(a))
        /\ CancelAdmitted(a).state \in {r.state, "aborted"}
    <2>1. CancelAdmitted(a) = IF a.ok THEN c ELSE a
      BY DEF CancelAdmitted
    <2> HIDE DEF c
    <2>2. a.ok => Good(c) /\ SameLanes(a, c) /\ c.state \in {a.state, "aborted"}
      BY <1>7, Zenon DEF c
    <2>3. SameLanes(a, c) => SameLanes(r, c)
      BY <1>9, Zenon DEF SameLanes
    <2> QED BY <1>5, <1>9, <2>1, <2>2, <2>3, Zenon
  <1>10. SameLanes(r, r)
    BY DEF SameLanes
  <1>11. Abort(r) = IF r.state \in Terminal THEN r ELSE CancelAdmitted(a)
    BY DEF Abort, a, e
  <1> QED BY <1>8, <1>10, <1>11, Zenon

LEMMA MovedGood ==
    ASSUME NEW r, Good(r), NEW k, Budget \in Nat
    PROVE  LET m == Moved(r, k)
           IN  /\ Good(m) /\ m.verified = r.verified /\ Verification(m) = Verification(r)
               /\ m.have = r.have /\ (r.fail = 0 => m.fail = 0)
               /\ r.ok /\ r.fail = 0 => m.ok
               /\ r.state = "researching" => m.state \in {"researching", "experimenting"}
               /\ r.ok /\ r.fail = 0 /\ k = "source" /\ r.state = "planned" => m.state = "researching"
               /\ k = "hypothesis" => m.state = r.state
               /\ Evolves(r, m, {}) /\ (m.ok => r.ok)
  <1> DEFINE m == Moved(r, k)
  <1>4. "researching" \notin Terminal /\ "experimenting" \notin Terminal
    BY DEF Terminal
  <1>1. CASE k = "source" /\ r.state = "planned"
    <2>1. m = Transition(r, "researching")
      BY <1>1, Zenon DEF Moved
    <2>2. "researching" \in Allowed[r.state] /\ "researching" \in States
          /\ "researching" # "completed"
      BY <1>1 DEF Allowed, States
    <2>3. Event("state", "researching", "").k = "state"
      BY DEF Event
    <2> DEFINE t == Transition(r, "researching")
    <2>5. /\ Good(t) /\ Keeps(r, Event("state", "researching", ""), t)
          /\ t.state \in {r.state, "researching"} /\ (t.ok => t.state = "researching")
          /\ r.ok /\ r.fail = 0 /\ "researching" \in Allowed[r.state] \cup {r.state}
                /\ "researching" # "completed" => t.ok
      BY <2>2, TransitionGood, Zenon
    <2> HIDE DEF m, t
    <2>4. /\ Good(m) /\ Keeps(r, Event("state", "researching", ""), m)
          /\ m.ok => m.state = "researching"
          /\ m.state \in {r.state, "researching"}
          /\ r.ok /\ r.fail = 0 => m.ok
      BY <2>1, <2>2, <2>5 DEF t
    <2>6. PICK e : e = Event("state", "researching", "")
      OBVIOUS
    <2>7. Evolves(r, m, {})
      <3>1. m.state \in Terminal => r.state \in Terminal
        BY <1>4, <2>4
      <3> QED BY <2>3, <2>4, <2>6, <3>1, KeepsEvolves
    <2> QED BY <1>1, <2>3, <2>4, <2>7 DEF Keeps, m
  <1>2. CASE k = "experiment" /\ r.state = "researching"
    <2>1. m = Transition(r, "experimenting")
      <3>1. k # "source"
        BY <1>2
      <3> QED BY <1>2, <3>1, Zenon DEF Moved
    <2>2. "experimenting" \in Allowed[r.state] /\ "experimenting" \in States
          /\ "experimenting" # "completed"
      BY <1>2 DEF Allowed, States
    <2>3. Event("state", "experimenting", "").k = "state"
      BY DEF Event
    <2> DEFINE t == Transition(r, "experimenting")
    <2>5. /\ Good(t) /\ Keeps(r, Event("state", "experimenting", ""), t)
          /\ t.state \in {r.state, "experimenting"} /\ (t.ok => t.state = "experimenting")
          /\ r.ok /\ r.fail = 0 /\ "experimenting" \in Allowed[r.state] \cup {r.state}
                /\ "experimenting" # "completed" => t.ok
      BY <2>2, TransitionGood, Zenon
    <2> HIDE DEF m, t
    <2>4. /\ Good(m) /\ Keeps(r, Event("state", "experimenting", ""), m)
          /\ m.state \in {r.state, "experimenting"}
          /\ r.ok /\ r.fail = 0 => m.ok
      BY <2>1, <2>2, <2>5 DEF t
    <2>6. PICK e : e = Event("state", "experimenting", "")
      OBVIOUS
    <2>7. Evolves(r, m, {})
      <3>1. m.state \in Terminal => r.state \in Terminal
        BY <1>4, <2>4
      <3> QED BY <2>3, <2>4, <2>6, <3>1, KeepsEvolves
    <2> QED BY <1>2, <2>3, <2>4, <2>7 DEF Keeps, m
  <1>3. CASE ~(k = "source" /\ r.state = "planned") /\ ~(k = "experiment" /\ r.state = "researching")
    <2>1. m = r
      BY <1>3, Zenon DEF Moved
    <2>2. SameRun(r, r)
      BY DEF SameRun, Good
    <2>3. Evolves(r, r, {})
      BY <2>2, SameEvolves
    <2> QED BY <1>3, <2>1, <2>3
  <1> QED BY <1>1, <1>2, <1>3

\* add_source and the others: no evidence after the receipt.
LEMMA AddRecordGood ==
    ASSUME NEW r, Good(r), NEW k \in Records, Budget \in Nat, Explicit \in BOOLEAN
    PROVE  LET q == AddRecord(r, k)
           IN  /\ Good(q) /\ Evolves(r, q, {}) /\ (q.ok => r.ok)
               /\ r.ok /\ r.fail = 0 /\ ~r.verified /\ r.state \in EvidenceStates(k)
                     /\ k \notin r.have /\ Cites(k) \subseteq r.have =>
                    /\ q.ok /\ q.fail = 0 /\ ~q.verified /\ q.have = r.have \cup {k}
                    /\ q.state = Moved(r, k).state
  <1> DEFINE e == Event("record", k, "")
             m == Moved(r, k)
             new == [m EXCEPT !.have = @ \cup {k}]
             bad == \/ r.state \notin EvidenceStates(k) \/ (Explicit /\ r.verified)
                    \/ k \in r.have \/ ~(Cites(k) \subseteq r.have)
             q == AddRecord(r, k)
  <1>1. CASE bad
    <2>1. q = Raise(r)
      BY <1>1, Zenon DEF AddRecord
    <2>2. Good(q) /\ SameRun(r, q) /\ ~q.ok
      BY <2>1, RaiseGood, Zenon
    <2>3. Evolves(r, q, {})
      BY <2>2, SameEvolves
    <2> QED BY <1>1, <2>2, <2>3
  <1>2. CASE ~bad
    <2>1. q = Commit(m, r, new, e)
      BY <1>2, Zenon DEF AddRecord, Recorded
    <2>2. e \in Events /\ e.k = "record" /\ e.x = k
      <3>1. "record" \in EventKinds /\ k \in Values /\ "" \in Statuses \cup {""}
        BY DEF EventKinds, Values
      <3> QED BY <3>1, EventIs, ZenonT(60)
    <2>3. /\ Good(m) /\ m \in Runs /\ m.verified = r.verified /\ Verification(m) = Verification(r)
          /\ m.have = r.have /\ (r.fail = 0 => m.fail = 0) /\ (r.ok /\ r.fail = 0 => m.ok)
          /\ Evolves(r, m, {}) /\ (m.ok => r.ok)
      BY MovedGood DEF Good
    <2> HIDE DEF m, e
    <2>4. Reflects(m, new, e) /\ new.have = m.have \cup {k}
      BY <2>2, <2>3 DEF Reflects, Runs
    <2>5. ~r.verified /\ ~Verification(r)
      <3>1. r.verified = Verification(r) /\ (Verification(r) => Explicit)
        BY DEF Good, EvidenceHolds
      <3> QED BY <1>2, <3>1
    <2>6. Permitted(m, e)
      BY <2>2, <2>3, <2>5 DEF Permitted, FitsLedger
    <2> HIDE DEF new
    <2>7. Good(q)
      BY <2>1, <2>3, <2>4, <2>6, CommitGood
    <2>8. ASSUME r.ok, r.fail = 0
          PROVE  q.ok /\ q.fail = 0 /\ ~q.verified /\ q.have = r.have \cup {k} /\ q.state = m.state
      <3>1. m.ok /\ m.fail = 0
        BY <2>3, <2>8
      <3>2. q = Appended(new, e)
        BY <2>1, <2>2, <2>3, <3>1, CommitCases
      <3>3. /\ new \in Runs /\ new.ok = m.ok /\ new.fail = m.fail /\ new.verified = m.verified
            /\ new.state = m.state
        BY <2>2, <2>4 DEF Reflects
      <3> HIDE DEF q
      <3>4. /\ q.ok = new.ok /\ q.have = new.have /\ q.state = new.state
            /\ q.verified = (new.verified \/ e.k = "verified")
        BY <2>2, <3>2, <3>3, AppendedIs, Zenon
      <3>7. q.fail = IF new.fail > 0 THEN new.fail - 1 ELSE 0
        BY <2>2, <3>2, <3>3, AppendedIs, Zenon
      <3>5. ~q.verified
        BY <2>2, <2>3, <2>5, <3>3, <3>4
      <3>6. q.fail = 0
        BY <3>1, <3>3, <3>7
      <3> QED BY <2>3, <2>4, <3>1, <3>3, <3>4, <3>5, <3>6
    \* A rejected record also takes back the transition that it brought.
    <2>9. Evolves(r, q, {}) /\ (q.ok => r.ok)
      <3>1. r \in Runs
        BY DEF Good
      <3>2. CASE ~m.ok /\ q = m
        BY <2>3, <3>2
      <3>3. CASE q = Restore(m, r)
        <4>1. q = [r EXCEPT !.ok = FALSE, !.fail = 0]
          BY <2>3, <3>1, <3>3, RestoreIs, Zenon
        <4>2. ASSUME NEW p, p = [r EXCEPT !.ok = FALSE, !.fail = 0]
              PROVE  SameRun(r, p) /\ ~p.ok
          BY <3>1, <4>2 DEF SameRun, Runs
        <4>3. SameRun(r, q) /\ ~q.ok
          BY <4>1, <4>2, Zenon
        <4> QED BY <2>7, <4>3, SameEvolves
      <3>4. CASE m.ok /\ q = Appended(new, e)
        <4> HIDE DEF q
        <4>1. new \in Runs /\ e \in Events /\ new.events = m.events /\ new.state = m.state
              /\ new.blockers = m.blockers
          BY <2>2, <2>4 DEF Reflects
        <4>2. /\ q \in Runs /\ q.events = Append(new.events, e) /\ q.state = new.state
              /\ q.blockers = new.blockers
          BY <3>4, <4>1, AppendedIs, Zenon
        <4>3. q.events = Append(m.events, e) /\ q.state = m.state /\ q.blockers = m.blockers
          BY <4>1, <4>2
        <4>4. /\ Admitted(q) = Admitted(m) \cup (IF e.k = "admit" THEN {e.x} ELSE {})
              /\ Settled(q) = Settled(m) \cup (IF e.k = "settle" THEN {e.x} ELSE {})
          BY <2>3, <4>1, <4>2, <4>3, SetsAppended, ZenonT(60)
        <4>5. Admitted(q) = Admitted(m) /\ Settled(q) = Settled(m)
          BY <2>2, <4>4
        <4>6. Succeeded(m) \subseteq Succeeded(q)
          BY <2>3, <4>1, <4>2, <4>3, SucceededAppended, Zenon
        <4> QED BY <2>3, <2>7, <3>4, <4>3, <4>5, <4>6 DEF Evolves
      <3> QED BY <2>1, <2>2, <2>3, <3>2, <3>3, <3>4, CommitCases
    <2> QED BY <2>7, <2>8, <2>9 DEF m
  <1> QED BY <1>1, <1>2

\* The admissions: an identity is admitted once.
LEMMA OpenAdmissionGood ==
    ASSUME NEW r, Good(r), NEW x \in Lanes, Budget \in Nat,
           NEW new, x \in ToolLane => new = [r EXCEPT !.tools = @ \cup {x}], x \notin ToolLane => new = r
    PROVE  LET q == OpenAdmission(r, x, new)
           IN  Good(q) /\ Evolves(r, q, {x}) /\ (q.ok => r.ok) /\ (~q.ok => Evolves(r, q, {}))
  <1> DEFINE e == Event("admit", x, "")
             q == OpenAdmission(r, x, new)
  <1>1. r \in Runs
    BY DEF Good
  <1>2. e \in Events /\ e.k = "admit" /\ e.x = x
    <2>1. "admit" \in EventKinds /\ x \in Values /\ "" \in Statuses \cup {""}
      BY DEF EventKinds, Values
    <2> QED BY <2>1, EventIs, ZenonT(60)
  <1> HIDE DEF e
  <1>3. Reflects(r, new, e)
    <2>1. CASE x \in ToolLane
      BY <1>1, <1>2, <2>1 DEF Reflects, Runs
    <2>2. CASE x \notin ToolLane
      BY <1>1, <1>2, <2>2 DEF Reflects
    <2> QED BY <2>1, <2>2
  <1>6. ASSUME Good(q), Keeps(r, e, q), ~q.ok => SameRun(r, q)
        PROVE  Good(q) /\ Evolves(r, q, {x}) /\ (q.ok => r.ok) /\ (~q.ok => Evolves(r, q, {}))
    <2> HIDE DEF q
    <2>1. q.ok => r.ok
      BY <1>6 DEF Keeps
    <2>2. e.x \in {x} /\ e.k # "blocker" /\ e.k # "resolved" /\ e.k # "state"
      BY <1>2
    <2>3. Evolves(r, q, {x})
      BY <1>6, <2>2, KeepsEvolves, Zenon
    <2>4. ~q.ok => Evolves(r, q, {})
      BY <1>6, SameEvolves, Zenon
    <2> QED BY <1>6, <2>1, <2>3, <2>4
  <1>4. CASE r.state \in Terminal \/ x \in Admitted(r)
    <2>1. q = Raise(r)
      BY <1>4 DEF OpenAdmission
    <2> QED BY <1>6, <2>1, RaiseGood
  <1>5. CASE ~(r.state \in Terminal \/ x \in Admitted(r))
    <2>1. Permitted(r, e)
      BY <1>2, <1>5 DEF Permitted, FitsLedger
    <2>2. q = Commit(r, r, new, e)
      BY <1>5 DEF OpenAdmission, e
    <2>3. Good(q) /\ Outcome(r, new, e, q) /\ Keeps(r, e, q)
      <3>1. LET c == Commit(r, r, new, e)
            IN  Good(c) /\ Outcome(r, new, e, c) /\ Keeps(r, e, c)
        BY <1>3, <2>1, AppendKeeps
      <3> HIDE DEF q
      <3> QED BY <2>2, <3>1, Zenon
    <2> HIDE DEF q
    <2>4. ~q.ok => SameRun(r, q)
      BY <2>3, Zenon DEF Outcome
    <2> QED BY <1>6, <2>3, <2>4, Zenon DEF q
  <1> QED BY <1>4, <1>5

LEMMA OutsideToolLane ==
    /\ {"skill", "experiment", "research", "browse", "observe"} \cap ToolLane = {}
    /\ {"skill", "experiment", "research", "browse", "observe"} \subseteq Lanes
    /\ ToolLane \subseteq Lanes
  BY DEF ToolLane, ToolCalls, Lanes

LEMMA AdmitGood ==
    ASSUME NEW r, Good(r), NEW x \in Lanes, Budget \in Nat
    PROVE  LET q == Admit(r, x)
           IN  Good(q) /\ Evolves(r, q, {x}) /\ (q.ok => r.ok) /\ (~q.ok => Evolves(r, q, {}))
  <1> DEFINE admits(q) == Good(q) /\ Evolves(r, q, {x}) /\ (q.ok => r.ok) /\ (~q.ok => Evolves(r, q, {}))
             others == {"skill", "experiment", "research", "browse", "observe"}
  <1> SUFFICES admits(Admit(r, x))
    OBVIOUS
  <1>1. CASE x \in ToolLane
    <2>1. Admit(r, x) = OpenAdmission(r, x, [r EXCEPT !.tools = @ \cup {x}])
      <3>1. x # "skill" /\ x # "experiment" /\ x # "research" /\ x # "browse" /\ x # "observe"
        BY <1>1, OutsideToolLane
      <3> QED BY <1>1, <3>1, Zenon DEF Admit, AdmitTool
    <2>2. admits(OpenAdmission(r, x, [r EXCEPT !.tools = @ \cup {x}]))
      BY <1>1, OpenAdmissionGood
    <2> HIDE DEF admits
    <2> QED BY <2>1, <2>2, Zenon
  <1>2. ASSUME NEW y \in others, y = x
        PROVE  admits(OpenAdmission(r, y, r))
    <2>1. y \in Lanes /\ y \notin ToolLane
      BY OutsideToolLane
    <2> QED BY <1>2, <2>1, OpenAdmissionGood, Zenon
  <1>8. admits(Raise(r))
    <2>1. Good(Raise(r)) /\ SameRun(r, Raise(r)) /\ ~Raise(r).ok
      BY RaiseGood
    <2> QED BY <2>1, SameEvolves, Zenon
  <1> HIDE DEF admits
  <1>3. CASE x = "skill"
    <2>1. x \notin ToolLane
      BY <1>3, OutsideToolLane
    <2> QED BY <1>2, <1>3, <2>1 DEF Admit, AdmitSkill
  <1>4. CASE x = "experiment"
    <2>1. x \notin ToolLane
      BY <1>4, OutsideToolLane
    <2>2. Admit(r, x) \in {Raise(r), OpenAdmission(r, "experiment", r)}
      BY <1>4, <2>1 DEF Admit, AdmitExperiment
    <2> QED BY <1>2, <1>4, <1>8, <2>2
  <1>5. CASE x = "research"
    <2>1. x \notin ToolLane
      BY <1>5, OutsideToolLane
    <2> QED BY <1>2, <1>5, <2>1 DEF Admit, AdmitResearch
  <1>6. CASE x = "browse"
    <2>1. x \notin ToolLane
      BY <1>6, OutsideToolLane
    <2> QED BY <1>2, <1>6, <2>1 DEF Admit, AdmitBrowse
  <1>7. CASE x = "observe"
    <2>1. x \notin ToolLane
      BY <1>7, OutsideToolLane
    <2> QED BY <1>2, <1>7, <2>1 DEF Admit, AdmitObserve
  <1> QED BY <1>1, <1>3, <1>4, <1>5, <1>6, <1>7 DEF Lanes

\* q is r with the admission of x settled, unless the one rejection met the settlement.
Closes(r, x, q) ==
    /\ q.state = r.state /\ Admitted(q) = Admitted(r)
    /\ Settled(q) = IF q.ok THEN Settled(r) \cup {x} ELSE Settled(r)
    /\ ~q.ok => q.fail = 0
    /\ r.fail = 0 => q.ok /\ q.fail = 0

\* A settlement of x, which may admit X itself.
Settles(r, x, q, X) ==
    /\ Good(q) /\ Evolves(r, q, X)
    /\ q.ok => r.ok /\ x \in Settled(q)
    /\ r.ok /\ r.state \notin Terminal /\ x \in Unsettled(r) => Closes(r, x, q)

LEMMA SettlesRaised ==
    ASSUME NEW r, Good(r), NEW x, NEW X, r.state \in Terminal \/ x \notin Unsettled(r)
    PROVE  Settles(r, x, Raise(r), X)
  <1>1. Good(Raise(r)) /\ SameRun(r, Raise(r)) /\ ~Raise(r).ok
    BY RaiseGood
  <1>2. Evolves(r, Raise(r), X)
    BY <1>1, SameEvolves
  <1> QED BY <1>1, <1>2, Zenon DEF Settles

LEMMA SettlementGood ==
    ASSUME NEW r, Good(r), NEW x \in Lanes, NEW s \in Statuses, Budget \in Nat,
           NEW new, x \in ToolLane => new = [r EXCEPT !.settled = @ \cup {x}], x \notin ToolLane => new = r,
           x \in Admitted(r), x \notin Settled(r)
    PROVE  \A X : Settles(r, x, Commit(r, r, new, Event("settle", x, s)), X)
  <1> DEFINE e == Event("settle", x, s)
             q == Commit(r, r, new, e)
  <1>1. r \in Runs
    BY DEF Good
  <1>2. e \in Events /\ e.k = "settle" /\ e.x = x
    <2>1. "settle" \in EventKinds /\ x \in Values /\ s \in Statuses \cup {""}
      BY DEF EventKinds, Values
    <2> QED BY <2>1, EventIs, ZenonT(60)
  <1> HIDE DEF e
  <1>3. Reflects(r, new, e)
    <2>1. CASE x \in ToolLane
      BY <1>1, <1>2, <2>1 DEF Reflects, Runs
    <2>2. CASE x \notin ToolLane
      BY <1>1, <1>2, <2>2 DEF Reflects
    <2> QED BY <2>1, <2>2
  <1>4. Permitted(r, e)
    BY <1>2 DEF Permitted, FitsLedger
  <1>5. Good(q) /\ Outcome(r, new, e, q) /\ Keeps(r, e, q) /\ Accepted(r, e, q)
    BY <1>3, <1>4, AppendKeeps
  <1> HIDE DEF q
  <1>6. q.ok => r.ok /\ Settled(q) = Settled(r) \cup {x}
    <2> SUFFICES ASSUME q.ok PROVE r.ok /\ Settled(q) = Settled(r) \cup {x}
      OBVIOUS
    <2>1. q \in Runs /\ q.events = Append(r.events, e) /\ r.ok
      BY <1>5 DEF Outcome
    <2>2. Settled(q) = Settled(r) \cup (IF e.k = "settle" THEN {e.x} ELSE {})
      BY <1>1, <1>2, <2>1, SetsAppended, Zenon
    <2> QED BY <1>2, <2>1, <2>2
  <1>7. ~q.ok => Settled(q) = Settled(r)
    <2>1. ~q.ok => SameRun(r, q)
      BY <1>5 DEF Outcome
    <2> QED BY <2>1, SameRunHas
  <1>8. q.state = r.state /\ Admitted(q) = Admitted(r) /\ (r.fail = 0 => q.fail = 0)
    BY <1>2, <1>5 DEF Keeps
  <1>9. ASSUME r.ok PROVE Closes(r, x, q)
    <2>1. (~q.ok => q.fail = 0) /\ (r.fail = 0 => q.ok)
      BY <1>2, <1>5, <1>9 DEF Accepted
    <2> QED BY <1>6, <1>7, <1>8, <2>1 DEF Closes
  <1>10. ASSUME NEW X PROVE Evolves(r, q, X)
    <2>1. e.k # "admit" /\ e.k # "blocker" /\ e.k # "resolved" /\ e.k # "state"
      BY <1>2
    <2> QED BY <1>5, <2>1, KeepsEvolves, Zenon
  <1>11. q.ok => r.ok /\ x \in Settled(q)
    BY <1>6
  <1> QED BY <1>5, <1>9, <1>10, <1>11, Zenon DEF Settles, q, e

LEMMA SettleToolGood ==
    ASSUME NEW r, Good(r), NEW x \in ToolLane, NEW s \in Statuses, NEW managed, Budget \in Nat
    PROVE  LET q == SettleTool(r, x, s, managed)
           IN  /\ Good(q) /\ Evolves(r, q, {})
               /\ q.ok => r.ok /\ x \in Settled(q)
               /\ managed = (x = "memory") => Settles(r, x, q, {})
  <1> DEFINE bad == \/ r.state = "completed"
                    \/ r.state = "aborted" /\ s # "CANCELLED"
                    \/ x \notin r.tools \/ x \in r.settled
                    \/ managed # (x = "memory")
             new == [r EXCEPT !.settled = @ \cup {x}]
             q == SettleTool(r, x, s, managed)
  <1>0. q = IF bad THEN Raise(r) ELSE Commit(r, r, new, Event("settle", x, s))
    BY DEF SettleTool
  <1>1. r.tools = Admitted(r) \cap ToolLane /\ r.settled = Settled(r) \cap ToolLane
    BY DEF Good, LedgerHolds
  <1>2. CASE bad
    <2>1. q = Raise(r)
      BY <1>2, Zenon DEF SettleTool
    <2>2. ~(r.state \notin Terminal /\ x \in Unsettled(r) /\ managed = (x = "memory"))
      BY <1>1, <1>2 DEF Unsettled, Terminal
    <2>3. Good(q) /\ SameRun(r, q) /\ ~q.ok
      BY <2>1, RaiseGood, Zenon
    <2>4. Evolves(r, q, {})
      BY <2>3, SameEvolves
    <2>5. managed = (x = "memory") => Settles(r, x, q, {})
      BY <2>1, <2>2, SettlesRaised, Zenon
    <2> QED BY <2>3, <2>4, <2>5, Zenon
  <1>3. CASE ~bad
    <2>1. q = Commit(r, r, new, Event("settle", x, s))
      BY <1>0, <1>3, Zenon
    <2>2. x \in Admitted(r) /\ x \notin Settled(r) /\ x \in Lanes
      <3>1. x \in r.tools /\ x \notin r.settled
        BY <1>3, Zenon
      <3> QED BY <1>1, <3>1, OutsideToolLane
    <2>3. Settles(r, x, q, {})
      BY <2>1, <2>2, SettlementGood, Zenon
    <2> QED BY <2>3, Zenon DEF Settles
  <1> QED BY <1>2, <1>3

LEMMA CloseAdmissionGood ==
    ASSUME NEW r, Good(r), NEW x \in Lanes \ ToolLane, NEW s \in Statuses, Budget \in Nat
    PROVE  \A X : Settles(r, x, CloseAdmission(r, x, s), X)
  <1> DEFINE q == CloseAdmission(r, x, s)
  <1>1. CASE x \notin Admitted(r) \/ x \in Settled(r)
    <2>1. q = Raise(r)
      BY <1>1, Zenon DEF CloseAdmission
    <2>2. x \notin Unsettled(r)
      BY <1>1 DEF Unsettled
    <2> QED BY <2>1, <2>2, SettlesRaised, Zenon
  <1>2. CASE ~(x \notin Admitted(r) \/ x \in Settled(r))
    <2>1. q = Commit(r, r, r, Event("settle", x, s))
      BY <1>2, Zenon DEF CloseAdmission
    <2> QED BY <1>2, <2>1, SettlementGood, Zenon
  <1> QED BY <1>1, <1>2

LEMMA SettleGood ==
    ASSUME NEW r, Good(r), NEW x \in Lanes, NEW s \in Statuses, Budget \in Nat
    PROVE  Settles(r, x, Settle(r, x, s), {x} \cap {"research", "observe"})
  <1> DEFINE q == Settle(r, x, s)
             X == {x} \cap {"research", "observe"}
             closed == Settles(r, x, q, X)
  <1> SUFFICES closed
    OBVIOUS
  <1> HIDE DEF X
  <1>1. CASE x \in ToolLane
    <2>1. x # "skill" /\ x # "experiment" /\ x # "research" /\ x # "browse" /\ x # "observe"
      BY <1>1, OutsideToolLane
    <2>2. q = SettleTool(r, x, s, x = "memory")
      BY <1>1, <2>1, Zenon DEF Settle
    <2>3. PICK m : m = (x = "memory")
      OBVIOUS
    <2>4. q = SettleTool(r, x, s, m)
      BY <2>2, <2>3, Zenon
    <2>5. m = (x = "memory") => Settles(r, x, SettleTool(r, x, s, m), {})
      BY <1>1, SettleToolGood, Zenon
    <2>6. Settles(r, x, q, {})
      BY <2>3, <2>4, <2>5, Zenon
    <2> HIDE DEF q
    <2> QED BY <2>6, EvolvesMore, Zenon DEF Settles
  <1>2. ASSUME x \notin ToolLane, q = CloseAdmission(r, x, s)
        PROVE  closed
    BY <1>2, CloseAdmissionGood, Zenon
  <1>3. ASSUME r.state \in Terminal, q = Raise(r)
        PROVE  closed
    BY <1>3, SettlesRaised, Zenon
  <1>4. CASE x = "skill"
    <2>1. x \notin ToolLane
      BY <1>4, OutsideToolLane
    <2>2. q = CloseAdmission(r, x, s)
      BY <1>4, <2>1 DEF Settle, RecordSkill
    <2> QED BY <1>2, <2>1, <2>2
  <1>5. CASE x = "experiment"
    <2>1. x \notin ToolLane
      BY <1>5, OutsideToolLane
    <2>2. q = IF r.state \in Terminal THEN Raise(r) ELSE CloseAdmission(r, x, s)
      BY <1>5, <2>1 DEF Settle, RecordExperiment
    <2>3. CASE r.state \in Terminal
      BY <1>3, <2>2, <2>3
    <2>4. CASE r.state \notin Terminal
      BY <1>2, <2>1, <2>2, <2>4
    <2> QED BY <2>3, <2>4
  <1>6. CASE x = "browse"
    <2>1. x \notin ToolLane
      BY <1>6, OutsideToolLane
    <2>2. q = IF r.state \in Terminal THEN Raise(r) ELSE CloseAdmission(r, x, s)
      BY <1>6, <2>1 DEF Settle, RecordBrowse
    <2>3. CASE r.state \in Terminal
      BY <1>3, <2>2, <2>3
    <2>4. CASE r.state \notin Terminal
      BY <1>2, <2>1, <2>2, <2>4
    <2> QED BY <2>3, <2>4
  \* The settlements that admit the execution themselves.
  <1>7. ASSUME x \in Lanes \ ToolLane, x \notin Admitted(r), q = CloseAdmission(Admit(r, x), x, s),
               x \in {"research", "observe"}
        PROVE  closed
    <2> DEFINE a == Admit(r, x)
    <2>1. Good(a) /\ Evolves(r, a, {x}) /\ (a.ok => r.ok)
      BY AdmitGood, Zenon
    <2> HIDE DEF a
    <2>2. X = {x}
      BY <1>7 DEF X
    <2>3. Settles(a, x, q, X)
      BY <1>7, <2>1, CloseAdmissionGood, Zenon DEF a
    <2>4. x \notin Unsettled(r)
      BY <1>7 DEF Unsettled
    <2> HIDE DEF q
    <2>5. Evolves(r, q, X)
      BY <2>1, <2>2, <2>3, EvolvesOn, Zenon DEF Settles
    <2> QED BY <2>1, <2>3, <2>4, <2>5, Zenon DEF Settles
  <1>8. CASE x = "research"
    <2>1. x \notin ToolLane
      BY <1>8, OutsideToolLane
    <2>2. Admit(r, x) = AdmitResearch(r)
      BY <1>8, <2>1 DEF Admit
    <2>3. q = IF r.state \in Terminal THEN Raise(r)
              ELSE CloseAdmission(IF x \in Admitted(r) THEN r ELSE Admit(r, x), x, s)
      BY <1>8, <2>1, <2>2 DEF Settle, RecordResearch
    <2>4. CASE r.state \in Terminal
      BY <1>3, <2>3, <2>4
    <2>5. CASE r.state \notin Terminal /\ x \in Admitted(r)
      BY <1>2, <2>1, <2>3, <2>5
    <2>6. CASE r.state \notin Terminal /\ x \notin Admitted(r)
      BY <1>7, <1>8, <2>1, <2>3, <2>6
    <2> QED BY <2>4, <2>5, <2>6
  <1>9. CASE x = "observe"
    <2>1. x \notin ToolLane
      BY <1>9, OutsideToolLane
    <2>2. Admit(r, x) = AdmitObserve(r)
      BY <1>9, <2>1 DEF Admit
    <2>3. q = IF r.state \in Terminal THEN Raise(r)
              ELSE CloseAdmission(IF x \in Admitted(r) THEN r ELSE Admit(r, x), x, s)
      BY <1>9, <2>1, <2>2 DEF Settle, RecordObserve
    <2>4. CASE r.state \in Terminal
      BY <1>3, <2>3, <2>4
    <2>5. CASE r.state \notin Terminal /\ x \in Admitted(r)
      BY <1>2, <2>1, <2>3, <2>5
    <2>6. CASE r.state \notin Terminal /\ x \notin Admitted(r)
      BY <1>7, <1>9, <2>1, <2>3, <2>6
    <2> QED BY <2>4, <2>5, <2>6
  <1> HIDE DEF q, closed
  <1> QED BY <1>1, <1>4, <1>5, <1>6, <1>8, <1>9 DEF Lanes

\* A tool call that is settled as a success has succeeded.
LEMMA SettleSucceeds ==
    ASSUME NEW r, Good(r), NEW x \in ToolLane, Budget \in Nat, Settle(r, x, "SUCCESS").ok
    PROVE  x \in Succeeded(Settle(r, x, "SUCCESS"))
  <1> DEFINE e == Event("settle", x, "SUCCESS")
             new == [r EXCEPT !.settled = @ \cup {x}]
             q == Settle(r, x, "SUCCESS")
  <1>1. r \in Runs
    BY DEF Good
  <1>2. e \in Events /\ e.k = "settle" /\ e.x = x /\ e.s = "SUCCESS"
    <2>1. "settle" \in EventKinds /\ x \in Values /\ "SUCCESS" \in Statuses \cup {""}
      BY OutsideToolLane DEF EventKinds, Values, Statuses
    <2>2. e.s = "SUCCESS"
      BY DEF Event
    <2> QED BY <2>1, <2>2, EventIs, ZenonT(30)
  <1>3. x # "skill" /\ x # "experiment" /\ x # "research" /\ x # "browse" /\ x # "observe"
    BY OutsideToolLane
  <1>4. q \in {Raise(r), Commit(r, r, new, e)}
    BY <1>3, Zenon DEF Settle, SettleTool
  <1>5. q = Commit(r, r, new, e)
    BY <1>4, RaiseGood, Zenon
  <1> HIDE DEF e
  <1>6. Reflects(r, new, e)
    BY <1>1, <1>2 DEF Reflects, Runs
  <1>7. Outcome(r, new, e, q)
    BY <1>1, <1>5, <1>6, CommitOutcome, Zenon
  <1> HIDE DEF q
  <1>8. q \in Runs /\ q.events = Append(r.events, e)
    BY <1>7, Zenon DEF Outcome, q
  <1> QED BY <1>1, <1>2, <1>8, SucceededAppended, Zenon DEF q

LEMMA BeginFinalizationGood ==
    ASSUME NEW r, Good(r), Budget \in Nat
    PROVE  LET q == BeginFinalization(r)
           IN  Good(q) /\ q.have = r.have /\ q.state = r.state /\ (q.ok => r.ok) /\ SameLanes(r, q)
  <1> DEFINE e == Event("finalization", "", "")
             new == [r EXCEPT !.finalizing = TRUE]
             q == BeginFinalization(r)
  <1>1. r \in Runs
    BY DEF Good
  <1>2. e \in Events /\ e.k = "finalization"
    <2>1. "finalization" \in EventKinds /\ "" \in Values /\ "" \in Statuses \cup {""}
      BY DEF EventKinds, Values
    <2> QED BY <2>1, Zenon DEF Event, Events
  <1> HIDE DEF e
  <1>3. Reflects(r, new, e)
    BY <1>1, <1>2 DEF Reflects, Runs
  <1>4. Permitted(r, e)
    BY <1>2 DEF Permitted, FitsLedger
  <1>5. CASE ~r.ok \/ r.finalizing
    BY <1>5 DEF BeginFinalization, SameLanes
  <1>6. CASE ~(~r.ok \/ r.finalizing) /\ r.state \in Terminal
    <2>1. q = Raise(r)
      BY <1>6, Zenon DEF BeginFinalization
    <2>2. Good(q) /\ Keeps(r, e, q)
      BY <2>1, RaiseGood, Zenon
    <2> QED BY <1>2, <2>2 DEF Keeps, SameLanes
  <1>7. CASE ~(~r.ok \/ r.finalizing) /\ r.state \notin Terminal
    <2>1. q = Commit(r, r, new, e)
      BY <1>7, Zenon DEF BeginFinalization, e
    <2>2. Good(q) /\ Keeps(r, e, q)
      BY <1>3, <1>4, <2>1, AppendKeeps
    <2> QED BY <1>2, <2>2 DEF Keeps, SameLanes
  <1> QED BY <1>5, <1>6, <1>7

\* record_goal_verification: one receipt.
LEMMA RecordVerificationGood ==
    ASSUME NEW r, Good(r), Budget \in Nat
    PROVE  Good(RecordVerification(r))
  <1> DEFINE e == Event("verified", "", "")
             bad == ~Explicit \/ r.state # "reviewing" \/ "source" \notin r.have \/ Verification(r)
  <1>1. r \in Runs
    BY DEF Good
  <1>2. e \in Events /\ e.k = "verified"
    <2>1. "verified" \in EventKinds /\ "" \in Values /\ "" \in Statuses \cup {""}
      BY DEF EventKinds, Values
    <2> QED BY <2>1, Zenon DEF Event, Events
  <1> HIDE DEF e
  <1>3. Reflects(r, r, e)
    BY <1>1, <1>2 DEF Reflects
  <1>4. CASE bad
    BY <1>4, RaiseGood DEF RecordVerification
  <1>5. CASE ~bad
    <2>1. Permitted(r, e)
      BY <1>2, <1>5 DEF Permitted, FitsLedger
    <2>2. RecordVerification(r) = Commit(r, r, r, e)
      BY <1>5, Zenon DEF RecordVerification, e
    <2> QED BY <1>3, <2>1, <2>2, AppendKeeps
  <1> QED BY <1>4, <1>5

-----------------------------------------------------------------------------
(* The loops.                                                              *)

\* What holds at the start and goes from each place to the next holds at the end.
LEMMA UpTo ==
    ASSUME NEW n \in Nat, NEW T, 0 \in T, \A i \in 1 .. n : i - 1 \in T => i \in T
    PROVE  n \in T
  <1> DEFINE Bad == {m \in Nat : m <= n /\ m \notin T}
  <1> SUFFICES ASSUME Bad # {} PROVE FALSE
    OBVIOUS
  <1>1. PICK m \in Bad : \A k \in Bad : m <= k
    <2>1. Bad \subseteq Nat
      OBVIOUS
    <2> HIDE DEF Bad
    <2> QED BY <2>1, HasLeast
  <1>2. m # 0 /\ m \in 1 .. n
    BY <1>1
  <1>3. m - 1 \notin Bad
    BY <1>1, <1>2
  <1> QED BY <1>1, <1>2, <1>3

LEMMA FiniteLanes ==
    ASSUME NEW r, Good(r)
    PROVE  /\ IsFiniteSet(Gaps \ r.have) /\ IsFiniteSet(Unsettled(r)) /\ IsFiniteSet(UnsettledTools(r))
           /\ Unsettled(r) \subseteq Lanes /\ UnsettledTools(r) \subseteq ToolLane
  <1>1. r \in Runs /\ Len(r.events) \in Nat
    BY DEF Good, Runs
  <1>2. IsFiniteSet(Of(r, "admit"))
    <2>1. IsFiniteSet(1 .. Len(r.events)) /\ Of(r, "admit") \subseteq 1 .. Len(r.events)
      BY <1>1, FS_Interval, SMTT(60) DEF Of
    <2> QED BY <2>1, FS_Subset
  <1>3. IsFiniteSet(Admitted(r))
    <2> DEFINE f == [i \in Of(r, "admit") |-> r.events[i].x]
    <2>1. Admitted(r) = {f[i] : i \in Of(r, "admit")}
      BY AdmittedIs
    <2>2. f \in Surjection(Of(r, "admit"), Admitted(r))
      BY <2>1 DEF Surjection
    <2> QED BY <1>2, <2>2, FS_Surjection
  <1>4. r.tools = Admitted(r) \cap ToolLane /\ Admitted(r) \subseteq Lanes
    BY DEF Good, LedgerHolds
  <1>5. Unsettled(r) \subseteq Admitted(r) /\ UnsettledTools(r) \subseteq Admitted(r)
    BY <1>4 DEF Unsettled, UnsettledTools
  <1>6. IsFiniteSet(Gaps)
    <2>1. IsFiniteSet({"source", "hypothesis"}) /\ IsFiniteSet({"experiment", "observation"})
      <3>1. IsFiniteSet({"source"}) /\ IsFiniteSet({"experiment"})
        BY FS_Singleton
      <3>2. IsFiniteSet({"source"} \cup {"hypothesis"}) /\ IsFiniteSet({"experiment"} \cup {"observation"})
        BY <3>1, FS_AddElement
      <3>3. {"source"} \cup {"hypothesis"} = {"source", "hypothesis"}
            /\ {"experiment"} \cup {"observation"} = {"experiment", "observation"}
        OBVIOUS
      <3> QED BY <3>2, <3>3
    <2>2. Gaps = {"source", "hypothesis"} \cup {"experiment", "observation"}
      BY DEF Gaps
    <2> QED BY <2>1, <2>2, FS_Union
  <1>7. IsFiniteSet(Gaps \ r.have)
    <2>1. Gaps \ r.have \subseteq Gaps
      OBVIOUS
    <2> QED BY <1>6, <2>1, FS_Subset
  <1> QED BY <1>3, <1>4, <1>5, <1>7, FS_Subset DEF UnsettledTools

LEMMA OrBlockGood ==
    ASSUME NEW r, NEW t, Good(t), Budget \in Nat
    PROVE  Good(OrBlock(r, t)) /\ (t.ok => OrBlock(r, t) = t)
  <1>1. "execution_reconciliation_failed" \in Blockers
    BY DEF Blockers
  <1>2. Good([t EXCEPT !.ok = TRUE])
    BY GoodStays
  <1>3. Good(RecordBlocker([t EXCEPT !.ok = TRUE], "execution_reconciliation_failed"))
    BY <1>1, <1>2, RecordBlockerGood, Zenon
  <1> QED BY <1>3, Zenon DEF OrBlock

LEMMA BodyGood ==
    ASSUME NEW r, Good(r), Budget \in Nat, NEW x, NEW loop,
           \/ loop = "gaps" /\ x \in Gaps
           \/ loop = "lanes" /\ x \in Lanes
           \/ loop = "tools" /\ x \in ToolLane
    PROVE  Good(Body(loop, r, x))
  <1>1. CASE loop = "gaps" /\ x \in Gaps
    <2>1. x \in Blockers /\ loop # "lanes" /\ loop # "tools"
      BY <1>1 DEF Blockers
    <2>2. Body(loop, r, x) = RecordBlocker(r, x)
      BY <1>1, <2>1, Zenon DEF Body
    <2> QED BY <2>1, <2>2, RecordBlockerGood, Zenon
  <1>2. CASE loop = "lanes" /\ x \in Lanes
    <2>1. loop # "gaps" /\ loop # "tools" /\ "REJECTED" \in Statuses
      BY <1>2 DEF Statuses
    <2>2. Body(loop, r, x) = OrBlock(r, Settle(r, x, "REJECTED"))
      BY <1>2, <2>1, Zenon DEF Body, SettleOrBlock
    <2>3. Good(Settle(r, x, "REJECTED"))
      BY <1>2, <2>1, SettleGood, Zenon DEF Settles
    <2> QED BY <2>2, <2>3, OrBlockGood, Zenon
  <1>3. CASE loop = "tools" /\ x \in ToolLane
    <2>1. loop # "gaps" /\ loop # "lanes"
      BY <1>3
    <2>2. Body(loop, r, x) = CloseTool(r, x)
      BY <1>3, <2>1, Zenon DEF Body
    <2>3. PICK s \in Statuses : s = IF r.state = "aborted" THEN "CANCELLED" ELSE "REJECTED"
      BY DEF Statuses
    <2>4. Good(SettleTool(r, x, s, FALSE))
      BY <1>3, SettleToolGood, Zenon
    <2>5. CloseTool(r, x) = IF ~r.ok THEN r ELSE SettleTool(r, x, s, FALSE)
      BY <2>3, Zenon DEF CloseTool
    <2> QED BY <2>2, <2>4, <2>5, Zenon
  <1> QED BY <1>1, <1>2, <1>3

LEMMA ForEachGood ==
    ASSUME NEW r, Good(r), Budget \in Nat, NEW loop, NEW S, IsFiniteSet(S),
           \/ loop = "gaps" /\ S \subseteq Gaps
           \/ loop = "lanes" /\ S \subseteq Lanes
           \/ loop = "tools" /\ S \subseteq ToolLane
    PROVE  Good(ForEach(loop, r, S))
  <1>0. PICK ids, f : Trace(loop, r, S, ids, f)
    BY LoopRuns
  <1> ids \in Seq(S)
    BY <1>0 DEF Trace
  <1>1. /\ f[0] = r /\ ForEach(loop, r, S) = f[Len(ids)]
        /\ \A i \in 1 .. Len(ids) : f[i] = Body(loop, f[i - 1], ids[i])
    BY <1>0 DEF Trace
  <1> DEFINE n == Len(ids)
             T == {i \in 0 .. n : Good(f[i])}
  <1>2. n \in Nat /\ 0 \in T
    BY <1>1
  <1>3. ASSUME NEW i \in 1 .. n, i - 1 \in T
        PROVE  i \in T
    <2>1. ids[i] \in S /\ f[i] = Body(loop, f[i - 1], ids[i]) /\ Good(f[i - 1])
      BY <1>1, <1>3
    <2>2. Good(f[i])
      BY <2>1, BodyGood
    <2> QED BY <1>2, <2>2
  <1>4. n \in T
    <2> HIDE DEF T, n
    <2> QED BY <1>2, <1>3, UpTo
  <1> QED BY <1>1, <1>4

\* The gaps become blockers.
LEMMA GapsBlock ==
    ASSUME NEW r, Good(r), Budget \in Nat
    PROVE  LET g == ForEach("gaps", r, Gaps \ r.have)
           IN  /\ Good(g) /\ g.have = r.have /\ (g.ok => Gaps \ r.have \subseteq g.blockers)
               /\ Evolves(r, g, {})
  <1> DEFINE S == Gaps \ r.have
             g == ForEach("gaps", r, S)
  <1>0. PICK ids, f : Trace("gaps", r, S, ids, f)
    <2>1. IsFiniteSet(S)
      BY FiniteLanes
    <2> HIDE DEF S
    <2> QED BY <2>1, LoopRuns
  <1> ids \in Seq(S)
    BY <1>0 DEF Trace
  <1>1. /\ f[0] = r /\ g = f[Len(ids)]
        /\ \A i \in 1 .. Len(ids) : f[i] = Body("gaps", f[i - 1], ids[i])
        /\ \A x \in S : \E i \in 1 .. Len(ids) : ids[i] = x
    BY <1>0 DEF Trace
  <1> DEFINE n == Len(ids)
             T == {i \in 0 .. n : /\ Good(f[i]) /\ f[i].have = r.have /\ Evolves(r, f[i], {})
                                  /\ f[i].ok => \A j \in 1 .. i : ids[j] \in f[i].blockers}
  <1>2. n \in Nat /\ 0 \in T
    <2>1. Evolves(r, r, {})
      BY SameEvolves DEF SameRun, Good
    <2> QED BY <1>1, <2>1
  <1>3. ASSUME NEW i \in 1 .. n, i - 1 \in T
        PROVE  i \in T
    <2>1. /\ ids[i] \in S /\ f[i] = Body("gaps", f[i - 1], ids[i]) /\ Good(f[i - 1])
          /\ f[i - 1].have = r.have /\ Evolves(r, f[i - 1], {})
          /\ f[i - 1].ok => \A j \in 1 .. i - 1 : ids[j] \in f[i - 1].blockers
      BY <1>1, <1>3
    <2>2. f[i] = RecordBlocker(f[i - 1], ids[i])
      BY <2>1 DEF Body
    <2>3. ids[i] \in Blockers /\ ids[i] # "unknown_outcome"
      BY <2>1 DEF Blockers, Gaps
    <2>4. PICK e : e = Event("blocker", ids[i], "")
      OBVIOUS
    <2>5. e.k = "blocker" /\ e.x = ids[i]
      BY <2>4 DEF Event
    <2>6. /\ Good(f[i]) /\ Keeps(f[i - 1], e, f[i])
          /\ f[i].ok => f[i].blockers = f[i - 1].blockers \cup {ids[i]}
      <3>1. PICK p, b : p = f[i - 1] /\ b = ids[i]
        OBVIOUS
      <3>2. /\ Good(RecordBlocker(p, b)) /\ Keeps(p, Event("blocker", b, ""), RecordBlocker(p, b))
            /\ RecordBlocker(p, b).ok => RecordBlocker(p, b).blockers = p.blockers \cup {b}
        BY <2>1, <2>3, <3>1, RecordBlockerGood, ZenonT(60)
      <3> QED BY <2>2, <2>4, <3>1, <3>2, Zenon
    <2>7. f[i].have = r.have /\ (f[i].ok => f[i - 1].ok)
      BY <2>1, <2>5, <2>6 DEF Keeps
    <2>8. ASSUME f[i].ok, NEW j \in 1 .. i
          PROVE  ids[j] \in f[i].blockers
      <3>1. j = i \/ j \in 1 .. i - 1
        OBVIOUS
      <3> QED BY <2>1, <2>6, <2>7, <2>8, <3>1
    <2>9. Evolves(r, f[i], {})
      <3>1. e.k # "admit" /\ e.k # "resolved" /\ e.k # "state" /\ e.x # "unknown_outcome"
        BY <2>3, <2>5
      <3>2. Evolves(f[i - 1], f[i], {})
        BY <2>6, <3>1, KeepsEvolves, Zenon
      <3> QED BY <2>1, <3>2, EvolvesOn, Zenon
    <2> QED BY <1>2, <2>6, <2>7, <2>8, <2>9
  <1>4. n \in T
    <2> HIDE DEF T, n
    <2> QED BY <1>2, <1>3, UpTo
  <1>5. /\ Good(f[n]) /\ f[n].have = r.have /\ Evolves(r, f[n], {})
        /\ f[n].ok => \A j \in 1 .. n : ids[j] \in f[n].blockers
    BY <1>4
  <1> QED BY <1>1, <1>5, ZenonT(60)

\* dossier: a run is completed only with its evidence, and without a blocker.
LEMMA ConcludedGood ==
    ASSUME NEW g, Good(g), g.ok => Gaps \ g.have \subseteq g.blockers, Budget \in Nat,
           NEW finalize \in BOOLEAN
    PROVE  LET c == Concluded(g, finalize)
           IN  /\ Good(c) /\ SameLanes(g, c)
               /\ ~finalize => c = g
               /\ g.state \notin Terminal /\ c.state \in Terminal =>
                     c.ok /\ c.state = "completed" /\ g.blockers = {}
  <1> DEFINE concludes(c) ==
               /\ Good(c) /\ SameLanes(g, c)
               /\ ~finalize => c = g
               /\ g.state \notin Terminal /\ c.state \in Terminal =>
                     c.ok /\ c.state = "completed" /\ g.blockers = {}
  <1> SUFFICES concludes(Concluded(g, finalize))
    OBVIOUS
  <1>1. /\ "blocked" \in States /\ "reviewing" \in States /\ "completed" \in States
        /\ "blocked" # "completed" /\ "reviewing" # "completed"
        /\ "blocked" \notin Terminal /\ "reviewing" \notin Terminal
    BY DEF States, Terminal
  <1>2. SameLanes(g, g)
    BY DEF SameLanes
  <1>3. ASSUME finalize PROVE concludes(Raise(g))
    <2>1. Good(Raise(g)) /\ SameRun(g, Raise(g))
      BY RaiseGood
    <2>2. SameLanes(g, Raise(g)) /\ Raise(g).state = g.state
      BY <2>1, SameRunHas DEF SameRun, SameLanes
    <2> QED BY <1>3, <2>1, <2>2
  \* A transition keeps the lanes.
  <1>4. ASSUME NEW p, Good(p), NEW s \in States, s = "completed" => Gaps \subseteq p.have
        PROVE  LET t == Transition(p, s)
               IN  /\ Good(t) /\ SameLanes(p, t) /\ t.have = p.have /\ t.state \in {p.state, s}
                   /\ t.ok => p.ok /\ t.state = s
                   /\ ~t.ok => t.state = p.state
    <2> DEFINE t == Transition(p, s)
    <2>1. PICK e : e = Event("state", s, "")
      OBVIOUS
    <2>2. e.k = "state"
      BY <2>1 DEF Event
    <2>3. /\ Good(t) /\ Keeps(p, e, t) /\ t.state \in {p.state, s} /\ (t.ok => t.state = s)
      BY <1>4, <2>1, TransitionGood, Zenon
    <2>4. ~t.ok => t.state = p.state
      <3>1. t \in {p, Raise(p), Commit(p, p, [p EXCEPT !.state = s], Event("state", s, ""))}
        BY DEF Transition
      <3>2. p \in Runs
        BY <1>4 DEF Good
      <3>3. Raise(p).state = p.state
        BY <3>2 DEF Raise, Runs
      <3>4. Commit(p, p, [p EXCEPT !.state = s], Event("state", s, "")).ok
            \/ Commit(p, p, [p EXCEPT !.state = s], Event("state", s, "")).state = p.state
        <4>1. PICK new : new = [p EXCEPT !.state = s]
          OBVIOUS
        <4>2. e \in Events
          <5>1. "state" \in EventKinds /\ s \in Values /\ "" \in Statuses \cup {""}
            BY DEF EventKinds, Values
          <5> QED BY <2>1, <5>1, EventIs, ZenonT(60)
        <4>3. Reflects(p, new, e)
          BY <2>1, <2>2, <3>2, <4>1, <4>2 DEF Reflects, Runs, Event
        <4>4. Outcome(p, new, e, Commit(p, p, new, e))
          BY <3>2, <4>3, CommitOutcome
        <4> QED BY <2>1, <4>1, <4>4 DEF Outcome, SameRun
      <3> QED BY <3>1, <3>3, <3>4
    <2> HIDE DEF t
    <2>5. SameLanes(p, t) /\ t.have = p.have /\ (t.ok => p.ok)
      BY <2>2, <2>3 DEF Keeps, SameLanes
    <2> QED BY <2>3, <2>4, <2>5 DEF t
  <1>5. ASSUME finalize PROVE concludes(Transition(g, "blocked"))
    <2> DEFINE t == Transition(g, "blocked")
    <2>1. Good(t) /\ SameLanes(g, t) /\ t.state \in {g.state, "blocked"}
      BY <1>1, <1>4, Zenon
    <2> HIDE DEF t
    <2>2. concludes(t)
      BY <1>1, <1>5, <2>1
    <2> QED BY <2>2 DEF t
  <1>6. ASSUME finalize, g.ok, g.blockers = {}
        PROVE  concludes(Transition(Transition(BeginFinalization(g), "reviewing"), "completed"))
    <2> DEFINE b == BeginFinalization(g)
               t == Transition(b, "reviewing")
               c == Transition(t, "completed")
    <2>1. Gaps \subseteq g.have
      BY <1>6
    <2>2. Good(b) /\ b.have = g.have /\ b.state = g.state /\ SameLanes(g, b)
      BY BeginFinalizationGood
    <2> HIDE DEF b
    <2>3. Good(t) /\ SameLanes(b, t) /\ t.have = b.have /\ t.state \in {b.state, "reviewing"}
      BY <1>1, <1>4, <2>2, Zenon
    <2> HIDE DEF t
    <2>4. Gaps \subseteq t.have
      BY <2>1, <2>2, <2>3
    <2>5. /\ Good(c) /\ SameLanes(t, c) /\ (c.ok => c.state = "completed")
          /\ ~c.ok => c.state = t.state
      BY <1>1, <1>4, <2>3, <2>4, ZenonT(60)
    <2> HIDE DEF c
    <2>6. SameLanes(g, c)
      BY <2>2, <2>3, <2>5, Zenon DEF SameLanes
    <2>7. concludes(c)
      BY <1>1, <1>6, <2>2, <2>3, <2>5, <2>6
    <2> QED BY <2>7 DEF c, t, b
  <1>7. concludes(g)
    BY <1>2
  <1> HIDE DEF concludes
  <1>9. CASE ~g.ok \/ ~finalize
    <2>1. Concluded(g, finalize) = g
      BY <1>9, Zenon DEF Concluded
    <2> QED BY <1>7, <2>1
  <1>10. CASE g.ok /\ finalize /\ g.blockers # {}
    BY <1>5, <1>7, <1>10, Zenon DEF Concluded
  <1>11. CASE g.ok /\ finalize /\ g.blockers = {}
    BY <1>3, <1>6, <1>7, <1>11, Zenon DEF Concluded
  <1> QED BY <1>9, <1>10, <1>11

LEMMA DossierGood ==
    ASSUME NEW r, Good(r), Budget \in Nat, NEW finalize \in BOOLEAN
    PROVE  LET d == Dossier(r, finalize)
           IN  /\ Good(d) /\ Admitted(d) \subseteq Admitted(r)
               /\ ~finalize => Evolves(r, d, {})
               /\ r.state \notin Terminal /\ d.state \in Terminal =>
                     /\ d.ok /\ d.state = "completed" /\ d.blockers = {}
                     /\ r.blockers \subseteq {"paused_by_operator"} /\ Unsettled(d) \subseteq Unsettled(r)
  <1> DEFINE g == ForEach("gaps", r, Gaps \ r.have)
             c == Concluded(g, finalize)
             d == Reported(c)
  <1>1. Good(g) /\ (g.ok => Gaps \ g.have \subseteq g.blockers) /\ Evolves(r, g, {})
    BY GapsBlock
  <1> HIDE DEF g
  <1>2. /\ Good(c) /\ SameLanes(g, c)
        /\ ~finalize => c = g
        /\ g.state \notin Terminal /\ c.state \in Terminal =>
              c.ok /\ c.state = "completed" /\ g.blockers = {}
    BY <1>1, ConcludedGood, Zenon
  <1> HIDE DEF c
  <1>3. c.state = "completed" => ProgressProjects(c)
    BY DEF ProgressProjects
  <1>4. d = c \/ (d = Raise(c) /\ ~ProgressProjects(c))
    BY DEF Reported
  <1>5. Good(Raise(c)) /\ SameRun(c, Raise(c))
    BY <1>2, RaiseGood
  <1>6. SameRun(c, c)
    BY <1>2 DEF SameRun, Good
  <1> HIDE DEF d
  <1>7. Good(d) /\ SameRun(c, d)
    BY <1>2, <1>4, <1>5, <1>6
  <1>8. ~finalize => Evolves(r, d, {})
    BY <1>1, <1>2, <1>7, SameEvolves, EvolvesOn, Zenon
  <1>9. ASSUME r.state \notin Terminal, d.state \in Terminal
        PROVE  /\ d.ok /\ d.state = "completed" /\ d.blockers = {}
               /\ r.blockers \subseteq {"paused_by_operator"} /\ Unsettled(d) \subseteq Unsettled(r)
    <2>1. g.state \notin Terminal
      BY <1>1, <1>9 DEF Evolves
    <2>2. d.state = c.state /\ d.blockers = c.blockers /\ Admitted(d) = Admitted(c) /\ Settled(d) = Settled(c)
      BY <1>7, SameRunHas DEF SameRun
    <2>3. c.ok /\ c.state = "completed" /\ g.blockers = {}
      BY <1>2, <1>9, <2>1, <2>2
    <2>4. d = c
      BY <1>3, <1>4, <2>3
    <2>5. r.blockers \subseteq {"paused_by_operator"} /\ Unsettled(g) \subseteq Unsettled(r)
      BY <1>1, <2>3 DEF Evolves, Unsettled
    <2> QED BY <1>2, <2>2, <2>3, <2>4, <2>5 DEF SameLanes, Unsettled
  <1>10. Admitted(d) \subseteq Admitted(r)
    <2>1. Admitted(d) = Admitted(c)
      BY <1>7, SameRunHas
    <2> QED BY <1>1, <1>2, <2>1 DEF SameLanes, Evolves
  <1> QED BY <1>7, <1>8, <1>9, <1>10 DEF Dossier, d, c, g

LEMMA HaltedGood ==
    ASSUME NEW r, Good(r), Budget \in Nat
    PROVE  /\ Good(Reopened(r)) /\ Good(Halted(r))
           /\ r.ok /\ r.fail = 0 /\ r.state # "aborted" =>
                /\ Reopened(r).ok /\ Reopened(r).fail = 0 /\ Reopened(r).state \notin Terminal
                /\ Halted(r).ok /\ Halted(r).fail = 0 /\ Halted(r).state = "blocked"
           /\ Admitted(Reopened(r)) = Admitted(r) /\ Settled(Reopened(r)) = Settled(r)
           /\ Admitted(Halted(r)) = Admitted(r) /\ Settled(Halted(r)) = Settled(r)
  <1> DEFINE t == Transition(r, "blocked")
  <1>1. "blocked" \in States /\ "blocked" # "completed" /\ "blocked" # "aborted"
        /\ "completed" # "aborted" /\ "blocked" \notin Terminal
    BY DEF States, Terminal
  <1>2. PICK e : e = Event("state", "blocked", "")
    OBVIOUS
  <1>3. e.k = "state"
    BY <1>2 DEF Event
  <1>4. /\ Good(t) /\ Keeps(r, e, t) /\ (t.ok => t.state = "blocked")
        /\ r.ok /\ r.fail = 0 /\ "blocked" \in Allowed[r.state] \cup {r.state}
              /\ "blocked" # "completed" => t.ok
    BY <1>1, <1>2, TransitionGood, Zenon
  <1>5. r.state # "aborted" => "blocked" \in Allowed[r.state] \cup {r.state}
    <2>1. r.state \in States
      BY DEF Good, Runs
    <2> QED BY <2>1 DEF States, Allowed
  <1> HIDE DEF t
  <1>6. Admitted(t) = Admitted(r) /\ Settled(t) = Settled(r) /\ (r.fail = 0 => t.fail = 0)
    BY <1>3, <1>4 DEF Keeps
  <1>7. Reopened(r) = (IF r.state = "completed" THEN t ELSE r)
        /\ Halted(r) = (IF r.state = "aborted" THEN r ELSE t)
    BY DEF Reopened, Halted, t
  <1>8. r.ok /\ r.fail = 0 /\ r.state # "aborted" => t.ok /\ t.fail = 0 /\ t.state = "blocked"
    BY <1>1, <1>4, <1>5, <1>6
  <1>9. r.state # "aborted" /\ r.state # "completed" => r.state \notin Terminal
    BY DEF Terminal
  <1>10. CASE r.state = "aborted"
    BY <1>1, <1>7, <1>10
  <1>11. CASE r.state = "completed"
    BY <1>1, <1>4, <1>6, <1>7, <1>8, <1>11
  <1>12. CASE r.state # "aborted" /\ r.state # "completed"
    BY <1>1, <1>4, <1>6, <1>7, <1>8, <1>9, <1>12
  <1> QED BY <1>10, <1>11, <1>12

\* The loop over the open lanes closes each of them, or records that it did not.
LEMMA LanesClose ==
    ASSUME NEW r, Good(r), r.ok, r.state \notin Terminal, Budget \in Nat
    PROVE  LET g == ForEach("lanes", r, Unsettled(r))
           IN  /\ g.ok /\ g.state = r.state /\ Evolves(r, g, {})
               /\ Unsettled(g) = {} \/ "execution_reconciliation_failed" \in g.blockers
               /\ r.fail = 0 => g.fail = 0 /\ Unsettled(g) = {}
  <1> DEFINE S == Unsettled(r)
             g == ForEach("lanes", r, S)
             told == "execution_reconciliation_failed"
  <1>0. IsFiniteSet(S) /\ S \subseteq Lanes
    BY FiniteLanes
  <1>1. PICK ids, f : Trace("lanes", r, S, ids, f)
    <2> HIDE DEF S
    <2> QED BY <1>0, LoopRuns
  <1> ids \in Seq(S)
    BY <1>1 DEF Trace
  <1>2. /\ f[0] = r /\ g = f[Len(ids)]
        /\ \A i \in 1 .. Len(ids) : f[i] = Body("lanes", f[i - 1], ids[i])
        /\ \A x \in S : \E i \in 1 .. Len(ids) : ids[i] = x
        /\ \A i, j \in 1 .. Len(ids) : ids[i] = ids[j] => i = j
    BY <1>1 DEF Trace
  <1> HIDE DEF g
  <1> DEFINE n == Len(ids)
             done(i) == {ids[j] : j \in 1 .. i}
             closed(p, D) == /\ Good(p) /\ p.ok /\ p.state = r.state /\ Evolves(r, p, {})
                             /\ Admitted(p) = Admitted(r) /\ Settled(p) \subseteq Settled(r) \cup D
                             /\ told \in p.blockers \/ D \subseteq Settled(p)
                             /\ r.fail = 0 => p.fail = 0 /\ D \subseteq Settled(p)
             T == {i \in 0 .. n : closed(f[i], done(i))}
  <1>3. n \in Nat /\ 0 \in T
    <2>1. done(0) = {}
      OBVIOUS
    <2>2. Evolves(r, r, {})
      BY SameEvolves DEF SameRun, Good
    <2> QED BY <1>2, <2>1, <2>2
  <1>4. ASSUME NEW i \in 1 .. n, i - 1 \in T
        PROVE  i \in T
    <2>1. PICK p, x, D : p = f[i - 1] /\ x = ids[i] /\ D = done(i - 1)
      OBVIOUS
    <2>2. x \in S /\ f[i] = Body("lanes", p, x) /\ closed(p, D)
      <3>1. ids[i] \in S
        <4> HIDE DEF S
        <4> QED OBVIOUS
      <3>2. f[i] = Body("lanes", f[i - 1], ids[i])
        BY <1>2, Zenon
      <3> HIDE DEF done, S, closed
      <3>3. closed(f[i - 1], done(i - 1))
        BY <1>4, Zenon
      <3> QED BY <2>1, <3>1, <3>2, <3>3, Zenon
    <2>3. x \notin D
      <3> SUFFICES ASSUME NEW j \in 1 .. i - 1, x = ids[j] PROVE FALSE
        BY <2>1
      <3>1. j \in 1 .. n /\ j # i
        BY <1>3
      <3> QED BY <1>2, <2>1, <3>1, ZenonT(60)
    <2>4. x \in Unsettled(p) /\ x \in Lanes /\ p.state \notin Terminal
      BY <1>0, <2>2, <2>3 DEF Unsettled
    <2> DEFINE q == Settle(p, x, "REJECTED")
    <2>5. "REJECTED" \in Statuses
      BY DEF Statuses
    <2>6. Good(q) /\ Closes(p, x, q) /\ Evolves(p, q, {x} \cap {"research", "observe"})
      BY <2>2, <2>4, <2>5, SettleGood, Zenon DEF Settles
    <2> HIDE DEF q
    <2>7. Evolves(p, q, {})
      BY <2>6 DEF Evolves, Closes
    <2>8. Evolves(r, q, {})
      BY <2>2, <2>7, EvolvesOn, Zenon
    <2>9. f[i] = OrBlock(p, q)
      BY <2>2 DEF Body, SettleOrBlock, q
    <2>10. done(i) = D \cup {x}
      BY <2>1
    <2>11. CASE q.ok
      <3>1. f[i] = q
        BY <2>6, <2>9, <2>11, OrBlockGood, Zenon
      <3>2. closed(q, D \cup {x})
        <4>1. /\ q.state = p.state /\ Admitted(q) = Admitted(p) /\ Settled(q) = Settled(p) \cup {x}
              /\ p.fail = 0 => q.fail = 0
          BY <2>6, <2>11 DEF Closes
        <4>2. told \in p.blockers => told \in q.blockers
          BY <2>7 DEF Evolves
        <4> HIDE DEF told
        <4> QED BY <2>2, <2>6, <2>8, <2>11, <4>1, <4>2
      <3> QED BY <1>3, <2>10, <3>1, <3>2
    \* The rejection is spent: the blocker is recorded.
    <2>12. CASE ~q.ok
      <3> DEFINE u == [q EXCEPT !.ok = TRUE]
                 b == RecordBlocker(u, told)
      <3>1. f[i] = b
        BY <2>2, <2>9, <2>12, Zenon DEF OrBlock
      <3>2. Good(u) /\ SameRun(q, u) /\ u.ok /\ u.fail = q.fail
        BY <2>6, GoodStays, ExceptIs DEF Good
      <3>3. q.fail = 0 /\ Settled(q) = Settled(p) /\ q.state = p.state /\ Admitted(q) = Admitted(p)
            /\ p.fail # 0
        BY <2>6, <2>12 DEF Closes
      <3> HIDE DEF u
      <3>4. told \in Blockers
        BY DEF Blockers
      <3>5. PICK e : e = Event("blocker", told, "")
        OBVIOUS
      <3>6. e.k = "blocker" /\ e.x = told
        BY <3>5 DEF Event
      <3> told # "unknown_outcome"
        OBVIOUS
      <3> HIDE DEF told
      <3>7. /\ Good(b) /\ Keeps(u, e, b) /\ (u.fail = 0 => b.ok = u.ok)
            /\ b.ok => b.blockers = u.blockers \cup {told}
        BY <3>2, <3>4, <3>5, RecordBlockerGood, Zenon
      <3> HIDE DEF b
      <3>8. Evolves(r, b, {})
        <4>1. Evolves(q, u, {})
          BY <3>2, SameEvolves
        <4>2. Evolves(u, b, {})
          <5>1. e.k # "admit" /\ e.k # "resolved" /\ e.k # "state"
            BY <3>6
          <5> QED BY <3>6, <3>7, <5>1, KeepsEvolves, Zenon
        <4> QED BY <2>8, <4>1, <4>2, EvolvesOn, Zenon
      <3>9. b.state = u.state /\ Admitted(b) = Admitted(u) /\ Settled(b) = Settled(u)
        BY <3>6, <3>7 DEF Keeps
      <3>10. Admitted(u) = Admitted(q) /\ Settled(u) = Settled(q) /\ u.state = q.state
        BY <3>2, SameRunHas DEF SameRun
      <3>11. closed(b, D \cup {x})
        BY <2>2, <3>2, <3>3, <3>7, <3>8, <3>9, <3>10
      <3> QED BY <1>3, <2>10, <3>1, <3>11
    <2> QED BY <2>11, <2>12
  <1>5. n \in T
    <2> HIDE DEF T, n
    <2> QED BY <1>3, <1>4, UpTo
  <1>6. closed(g, done(n))
    BY <1>2, <1>5
  <1>7. S \subseteq done(n)
    <2>1. \A x \in S : \E i \in 1 .. Len(ids) : ids[i] = x
      BY <1>2
    <2> HIDE DEF S
    <2> QED BY <2>1, Zenon
  <1> HIDE DEF done
  <1>8. /\ Unsettled(g) = {} \/ told \in g.blockers
        /\ r.fail = 0 => g.fail = 0 /\ Unsettled(g) = {}
    <2>1. done(n) \subseteq Settled(g) => Unsettled(g) = {}
      BY <1>6, <1>7 DEF Unsettled, Evolves
    <2> QED BY <1>6, <2>1
  <1> QED BY <1>6, <1>8 DEF g

LEMMA ReconcileGood ==
    ASSUME NEW r, Good(r), Budget \in Nat
    PROVE  Good(Reconcile(r)) /\ Good(ReconcileTools(r))
  <1>0. /\ "unsettled_execution_requires_reconciliation" \in Blockers
        /\ "unsettled_tool_execution_requires_reconciliation" \in Blockers
    BY DEF Blockers
  <1>1. Good(Raise(r)) /\ Good(Reopened(r))
    BY RaiseGood, HaltedGood
  <1> DEFINE g == ForEach("lanes", Reopened(r), Unsettled(r))
             h == ForEach("tools", Reopened(r), UnsettledTools(r))
  <1>2. Good(g) /\ Good(h)
    BY <1>1, FiniteLanes, ForEachGood
  <1> HIDE DEF g, h
  <1>3. Good(RecordBlocker(Halted(g), "unsettled_execution_requires_reconciliation"))
    BY <1>0, <1>2, HaltedGood, RecordBlockerGood
  <1>4. Good(RecordBlocker(Halted(h), "unsettled_tool_execution_requires_reconciliation"))
    BY <1>0, <1>2, HaltedGood, RecordBlockerGood
  <1>5. Good(ReconcileTools(r))
    BY <1>2, <1>4, Zenon DEF ReconcileTools, ToolsClosed, h
  <1>6. Good(Reconcile(r))
    BY <1>1, <1>3, Zenon DEF Reconcile, g
  <1> QED BY <1>5, <1>6

\* reconcile_unsettled_executions, when its appends are accepted.
LEMMA ReconcileClosesAll ==
    ASSUME NEW r, Good(r), r.ok, r.fail = 0, r.state # "aborted", Budget \in Nat
    PROVE  LET q == Reconcile(r)
           IN  /\ q.ok /\ Unsettled(q) = {}
               /\ Unsettled(r) # {} => q.state = "blocked" /\ q.blockers # {}
  <1>1. CASE Unsettled(r) = {}
    <2>1. Reconcile(r) = r
      BY <1>1, Zenon DEF Reconcile
    <2> QED BY <1>1, <2>1
  <1>2. CASE Unsettled(r) # {}
    <2> DEFINE o == Reopened(r)
               g == ForEach("lanes", o, Unsettled(r))
               h == Halted(g)
               b == "unsettled_execution_requires_reconciliation"
               q == RecordBlocker(h, b)
    <2>1. Reconcile(r) = q
      BY <1>2, Zenon DEF Reconcile
    <2>2. /\ Good(o) /\ o.ok /\ o.fail = 0 /\ o.state \notin Terminal
          /\ Admitted(o) = Admitted(r) /\ Settled(o) = Settled(r)
      BY HaltedGood
    <2> HIDE DEF o
    <2>3. Unsettled(o) = Unsettled(r)
      BY <2>2 DEF Unsettled
    <2>4. g.ok /\ g.fail = 0 /\ g.state = o.state /\ Unsettled(g) = {}
      <3>1. LET c == ForEach("lanes", o, Unsettled(o))
            IN  c.ok /\ c.fail = 0 /\ c.state = o.state /\ Unsettled(c) = {}
        BY <2>2, LanesClose, Zenon
      <3> QED BY <2>3, <3>1, Zenon
    <2>5. Good(g)
      BY <2>2, FiniteLanes, ForEachGood
    <2> HIDE DEF g
    <2>6. /\ Good(h) /\ h.ok /\ h.fail = 0 /\ h.state = "blocked"
          /\ Admitted(h) = Admitted(g) /\ Settled(h) = Settled(g)
      <3>1. g.state # "aborted"
        BY <2>2, <2>4 DEF Terminal
      <3> QED BY <2>4, <2>5, <3>1, HaltedGood
    <2> HIDE DEF h
    <2>7. b \in Blockers
      BY DEF Blockers
    <2>8. PICK e : e = Event("blocker", b, "")
      OBVIOUS
    <2>9. e.k = "blocker"
      BY <2>8 DEF Event
    <2> HIDE DEF b
    <2>10. /\ Keeps(h, e, q) /\ (h.fail = 0 => q.ok = h.ok)
           /\ q.ok => q.blockers = h.blockers \cup {b}
      BY <2>6, <2>7, <2>8, RecordBlockerGood, Zenon
    <2> HIDE DEF q
    <2>11. q.ok /\ q.state = "blocked" /\ q.blockers # {}
      BY <2>6, <2>9, <2>10 DEF Keeps
    <2>12. Unsettled(q) = {}
      BY <2>4, <2>6, <2>9, <2>10 DEF Keeps, Unsettled
    <2> QED BY <2>1, <2>11, <2>12
  <1> QED BY <1>1, <1>2

-----------------------------------------------------------------------------
(* The theorems.                                                           *)

LEMMA CreatedGood ==
    ASSUME Budget \in Nat, Explicit \in BOOLEAN
    PROVE  Good(Created) /\ Created.ok /\ Created.fail = 0
  <1>0. /\ Created.events = <<>> /\ Created.state = "planned" /\ Created.blockers = {}
        /\ Created.have = {} /\ Created.tools = {} /\ Created.settled = {} /\ Created.count = 0
        /\ Created.finalizing = FALSE /\ Created.verified = FALSE /\ Created.ok = TRUE
        /\ Created.fail = 0
    BY DEF Created
  <1>1. Created \in Runs
    <2>1. <<>> \in Seq(Events)
      OBVIOUS
    <2>2. "planned" \in States
      BY DEF States
    <2> QED BY <2>1, <2>2 DEF Created, Runs
  <1> HIDE DEF Created
  <1>2. Len(Created.events) = 0 /\ 1 .. Len(Created.events) = {}
    BY <1>0
  <1>3. \A k : Of(Created, k) = {}
    BY <1>2 DEF Of
  <1>4. Admitted(Created) = {} /\ Settled(Created) = {} /\ ~Verification(Created)
    BY <1>2 DEF Admitted, Settled, Verification
  <1>5. LedgerHolds(Created)
    <2>1. LedgerSound(Created)
      BY <1>2 DEF LedgerSound
    <2>2. Cardinality(Of(Created, "admit")) = 0
      BY <1>3, FS_EmptySet
    <2> QED BY <1>0, <1>3, <1>4, <2>1, <2>2 DEF LedgerHolds
  <1>6. EvidenceHolds(Created)
    <2>1. Created.verified = Verification(Created)
      <3>1. Verification(Created) \in BOOLEAN
        BY DEF Verification
      <3> QED BY <1>0, <1>4, <3>1, Zenon
    <2>2. Created.state # "completed"
      BY <1>0
    <2> QED BY <1>3, <1>4, <2>1, <2>2, Zenon DEF EvidenceHolds
  <1>7. Projects(Created, Replay(Created.events))
    BY <1>0, <1>1, ReplayNothing DEF Projects
  <1> QED BY <1>0, <1>1, <1>5, <1>6, <1>7 DEF Good

LEMMA EvidenceGood ==
    ASSUME Budget \in Nat, Explicit \in BOOLEAN, NEW n \in 0 .. 3
    PROVE  Good(Evidence[n]) /\ Evidence[n].ok /\ Evidence[n].fail = 0
  <1> DEFINE a == AddRecord(Created, "source")
             b == AddRecord(a, "hypothesis")
             c == AddRecord(b, "experiment")
  <1>0. "source" \in Records /\ "hypothesis" \in Records /\ "experiment" \in Records
    BY DEF Records, Gaps
  <1>1. Good(Created) /\ Created.ok /\ Created.fail = 0
    BY CreatedGood
  <1>2. /\ Good(a) /\ a.ok /\ a.fail = 0 /\ ~a.verified /\ a.have = {"source"}
        /\ a.state = "researching"
    <2>1. Created.state = "planned" /\ Created.have = {} /\ ~Created.verified
      BY DEF Created
    <2>2. Created.state \in EvidenceStates("source") /\ Cites("source") \subseteq Created.have
      BY <2>1 DEF EvidenceStates, Cites
    <2>3. Moved(Created, "source").state = "researching"
      BY <1>1, <2>1, MovedGood
    <2> HIDE DEF Created
    <2>4. /\ Good(a) /\ a.ok /\ a.fail = 0 /\ ~a.verified /\ a.have = Created.have \cup {"source"}
          /\ a.state = Moved(Created, "source").state
      BY <1>0, <1>1, <2>1, <2>2, AddRecordGood, ZenonT(60)
    <2> QED BY <2>1, <2>3, <2>4
  <1> HIDE DEF a
  <1>3. /\ Good(b) /\ b.ok /\ b.fail = 0 /\ ~b.verified /\ b.have = {"source", "hypothesis"}
        /\ b.state = "researching"
    <2>1. a.state \in EvidenceStates("hypothesis") /\ Cites("hypothesis") \subseteq a.have
          /\ "hypothesis" \notin a.have
      BY <1>2 DEF EvidenceStates, Cites
    <2>2. Moved(a, "hypothesis").state = "researching"
      BY <1>2, MovedGood
    <2>3. /\ Good(b) /\ b.ok /\ b.fail = 0 /\ ~b.verified /\ b.have = a.have \cup {"hypothesis"}
          /\ b.state = Moved(a, "hypothesis").state
      BY <1>0, <1>2, <2>1, AddRecordGood, ZenonT(60)
    <2> QED BY <1>2, <2>2, <2>3
  <1> HIDE DEF b
  <1>4. Good(c) /\ c.ok /\ c.fail = 0
    <2>1. b.state \in EvidenceStates("experiment") /\ Cites("experiment") \subseteq b.have
          /\ "experiment" \notin b.have
      BY <1>3 DEF EvidenceStates, Cites
    <2> QED BY <1>0, <1>3, <2>1, AddRecordGood, SMTT(60)
  <1> HIDE DEF c
  <1>5. Evidence[n] \in {Created, a, b, c}
    BY DEF Evidence, a, b, c
  <1> QED BY <1>1, <1>2, <1>3, <1>4, <1>5

\* What the code guarantees of a run between two calls, and of a snapshot.
LEMMA CallKeeps ==
    ASSUME NEW r, Good(r)
    PROVE  Good(Done(r)) /\ Done(r).ok /\ Done(r).fail = 0
  <1>1. r \in Runs
    BY DEF Good
  <1>2. PICK b \in BOOLEAN, n \in Nat : b = TRUE /\ n = 0
    OBVIOUS
  <1>3. Done(r) = [r EXCEPT !.ok = b, !.fail = n]
    BY <1>2 DEF Done
  <1>4. Good([r EXCEPT !.ok = b, !.fail = n])
    BY GoodStays, Zenon
  <1>5. Done(r).ok /\ Done(r).fail = 0
    BY <1>1 DEF Done, Runs
  <1> QED BY <1>3, <1>4, <1>5, Zenon

LEMMA LabInit ==
    ASSUME ReducerAssumption, LabAssumption, Init
    PROVE  LabInv
  BY EvidenceGood DEF ReducerAssumption, LabAssumption, Init, LabInv

LEMMA LabStep ==
    ASSUME ReducerAssumption, LabAssumption, LabInv, [Next]_vars
    PROVE  LabInv'
  <1>0. Budget \in Nat /\ Explicit \in BOOLEAN /\ MaxFail \in Nat
    BY DEF ReducerAssumption, LabAssumption
  <1>1. Execs \subseteq Lanes
    BY DEF LabAssumption, Lanes
  \* A call starts with a good run, and ends with what the method left of it.
  <1>2. ASSUME NEW f \in 0 .. MaxFail
        PROVE  Good([run EXCEPT !.fail = f])
    <2>1. f \in Nat
      BY <1>0
    <2>2. TRUE \in BOOLEAN
      OBVIOUS
    <2> QED BY <2>1, <2>2, GoodStays DEF LabInv
  <1>3. ASSUME NEW q, Good(q), run' = Done(q), UNCHANGED disk
        PROVE  LabInv'
    BY <1>3, CallKeeps DEF LabInv, ProgressProjects, Verification
  <1>4. CASE DoRecord
    <2>1. PICK k \in Records, f \in 0 .. MaxFail :
             run' = Done(AddRecord([run EXCEPT !.fail = f], k)) /\ UNCHANGED disk
      BY <1>4 DEF DoRecord, Call, Records
    <2> QED BY <1>0, <1>2, <1>3, <2>1, AddRecordGood
  <1>5. CASE DoTransition
    <2>1. PICK s \in {"researching", "reviewing"}, f \in 0 .. MaxFail :
             run' = Done(Transition([run EXCEPT !.fail = f], s)) /\ UNCHANGED disk
      BY <1>5 DEF DoTransition, Call
    <2>2. s \in States /\ s # "completed"
      BY <2>1 DEF States
    <2> QED BY <1>0, <1>2, <1>3, <2>1, <2>2, TransitionGood
  <1>6. CASE DoPause
    <2>1. PICK f \in 0 .. MaxFail : run' = Done(Pause([run EXCEPT !.fail = f])) /\ UNCHANGED disk
      BY <1>6 DEF DoPause, Call
    <2> QED BY <1>0, <1>2, <1>3, <2>1, PauseGood
  <1>7. CASE DoResume
    <2>1. PICK f \in 0 .. MaxFail : run' = Done(Resume([run EXCEPT !.fail = f])) /\ UNCHANGED disk
      BY <1>7 DEF DoResume, Call
    <2> QED BY <1>0, <1>2, <1>3, <2>1, PauseGood
  <1>8. CASE DoAbort
    <2>1. PICK f \in 0 .. MaxFail : run' = Done(Abort([run EXCEPT !.fail = f])) /\ UNCHANGED disk
      BY <1>8 DEF DoAbort, Call
    <2> QED BY <1>0, <1>2, <1>3, <2>1, AbortGood
  <1>9. CASE DoAdmit
    <2>1. PICK x \in Execs, f \in 0 .. MaxFail :
             run' = Done(Admit([run EXCEPT !.fail = f], x)) /\ UNCHANGED disk
      BY <1>9 DEF DoAdmit, Call
    <2> QED BY <1>0, <1>1, <1>2, <1>3, <2>1, AdmitGood
  <1>10. CASE DoSettle
    <2>1. PICK x \in Execs, s \in Statuses, f \in 0 .. MaxFail :
             run' = Done(Settle([run EXCEPT !.fail = f], x, s)) /\ UNCHANGED disk
      BY <1>10 DEF DoSettle, Call
    <2> QED BY <1>0, <1>1, <1>2, <1>3, <2>1, SettleGood DEF Settles
  <1>11. CASE DoVerify
    <2>1. PICK f \in 0 .. MaxFail :
             run' = Done(RecordVerification([run EXCEPT !.fail = f])) /\ UNCHANGED disk
      BY <1>11 DEF DoVerify, Call
    <2> QED BY <1>0, <1>2, <1>3, <2>1, RecordVerificationGood
  <1>12. CASE DoDossier
    <2>1. PICK b \in BOOLEAN, f \in 0 .. MaxFail :
             run' = Done(Dossier([run EXCEPT !.fail = f], b)) /\ UNCHANGED disk
      BY <1>12 DEF DoDossier, Call
    <2> QED BY <1>0, <1>2, <1>3, <2>1, DossierGood
  <1>13. CASE DoReconcile
    <2>1. PICK f \in 0 .. MaxFail : run' = Done(Reconcile([run EXCEPT !.fail = f])) /\ UNCHANGED disk
      BY <1>13 DEF DoReconcile, Call
    <2> QED BY <1>0, <1>2, <1>3, <2>1, ReconcileGood
  <1>14. CASE DoReconcileTools
    <2>1. PICK f \in 0 .. MaxFail :
             run' = Done(ReconcileTools([run EXCEPT !.fail = f])) /\ UNCHANGED disk
      BY <1>14 DEF DoReconcileTools, Call
    <2> QED BY <1>0, <1>2, <1>3, <2>1, ReconcileGood
  <1>15. CASE Archive
    <2>1. disk' = <<run>> /\ run' = run /\ ProgressProjects(run)
      BY <1>15 DEF Archive, Serializes
    <2>2. disk'[1] = run /\ disk' = <<disk'[1]>>
      BY <2>1
    <2> QED BY <2>1, <2>2 DEF LabInv
  <1>16. CASE CrashRecover
    <2>1. PICK d : d = disk[1]
      OBVIOUS
    <2>2. /\ Good(d) /\ d.ok /\ d.fail = 0 /\ run' = [d EXCEPT !.verified = Verification(d)]
          /\ disk' = disk
      BY <1>16, <2>1 DEF CrashRecover, LabInv
    <2>3. run' = d
      <3>1. d.verified = Verification(d) /\ d \in Runs
        BY <2>2 DEF Good, EvidenceHolds
      <3>2. [d EXCEPT !.verified = d.verified] = d
        BY <3>1 DEF Runs
      <3> QED BY <2>2, <3>1, <3>2, Zenon
    <2> QED BY <2>1, <2>2, <2>3 DEF LabInv
  <1>17. CASE UNCHANGED vars
    BY <1>17 DEF vars, LabInv
  <1> QED BY <1>4, <1>5, <1>6, <1>7, <1>8, <1>9, <1>10, <1>11, <1>12, <1>13, <1>14, <1>15, <1>16,
            <1>17, Zenon DEF Next

LEMMA LabHolds ==
    ASSUME ReducerAssumption, LabAssumption
    PROVE  Spec => []LabInv
  <1>1. Init => LabInv
    BY LabInit
  <1>2. LabInv /\ [Next]_vars => LabInv'
    BY LabStep
  <1> QED BY <1>1, <1>2, PTL DEF Spec

\* No order of calls, rejections, crashes and recoveries settles an admission twice,
\* settles one that was never admitted, admits an identity twice or admits more
\* than the budget (LabRun._require_open_admission, _append).
THEOREM LabLedgerIsSound ==
    ASSUME ReducerAssumption, LabAssumption
    PROVE  Spec => []LedgerIsSound
  <1>1. LabInv => LedgerIsSound
    <2> SUFFICES ASSUME LabInv PROVE LedgerIsSound
      OBVIOUS
    <2>1. /\ LedgerSound(run) /\ run.count = Cardinality(Of(run, "admit")) /\ run.count <= Budget
      BY DEF LabInv, Good, LedgerHolds
    <2> QED BY <2>1 DEF LedgerIsSound, SettledOnce, BudgetHolds, Of
  <1> QED BY <1>1, LabHolds, PTL

\* A completed explicit goal was verified before its completion, and no evidence was
\* added after the receipt (LabRun.transition, _ensure_goal_evidence_mutable).
THEOREM LabEvidenceIsFrozen ==
    ASSUME ReducerAssumption, LabAssumption
    PROVE  Spec => []VerifiedEvidenceIsFrozen
  <1>1. LabInv => VerifiedEvidenceIsFrozen
    <2> SUFFICES ASSUME LabInv PROVE VerifiedEvidenceIsFrozen
      OBVIOUS
    <2>1. /\ run.state = "completed" => (Explicit => Verification(run))
          /\ \A v \in Of(run, "verified"), i \in Of(run, "record") : i < v
      BY DEF LabInv, Good, EvidenceHolds
    <2>2. Verification(run) <=> Of(run, "verified") # {}
      BY AdmittedIs
    <2> QED BY <2>1, <2>2 DEF VerifiedEvidenceIsFrozen, Of
  <1> QED BY <1>1, LabHolds, PTL

\* A good run is what the replay of its ledger gives, and one that serializes restores.
LEMMA GoodIsReplay ==
    ASSUME NEW r, Good(r)
    PROVE  Projection(r) = Projection(Replay(r.events))
  <1>1. PICK p : p = Replay(r.events)
    OBVIOUS
  <1>2. Projects(r, p) /\ r \in Runs /\ p \in Runs
    BY <1>1 DEF Good, Projects
  <1>3. \A g \in {"state", "blockers", "have", "tools", "settled", "count", "finalizing", "verified"} :
           r[g] = p[g]
    BY <1>2 DEF Projects
  <1> QED BY <1>1, <1>3 DEF Projection

LEMMA GoodIsRestorable ==
    ASSUME NEW r, Good(r), ProgressProjects(r)
    PROVE  Restorable(r)
  <1> DEFINE V == {i \in 1 .. Len(r.events) : r.events[i].k = "verified"}
             C == {i \in 1 .. Len(r.events) : r.events[i].k = "state" /\ r.events[i].x = "completed"}
  <1>1. V = Of(r, "verified") /\ C = {i \in Of(r, "state") : r.events[i].x = "completed"}
    BY DEF Of
  <1>2. Verification(r) <=> V # {}
    BY <1>1, AdmittedIs
  <1>3. EvidenceHolds(r) /\ LedgerSound(r)
    BY DEF Good, LedgerHolds
  <1> HIDE DEF V, C
  <1>4. Cardinality(V) <= 1
    <2>1. CASE V = {}
      BY <2>1, FS_EmptySet
    <2>2. CASE V # {}
      <3>1. PICK v \in V : TRUE
        BY <2>2
      <3>2. V = {v}
        BY <1>1, <1>3, <3>1 DEF EvidenceHolds
      <3> QED BY <3>2, FS_Singleton
    <2> QED BY <2>1, <2>2
  <1>5. V # {} => Explicit /\ r.state \in {"reviewing", "completed", "blocked", "aborted"}
    BY <1>2, <1>3 DEF EvidenceHolds, ProgressProjects
  <1>6. ASSUME r.state = "completed"
        PROVE  /\ C # {} /\ Gaps \ {"source"} \subseteq r.have
               /\ Explicit => V # {} /\ \E c \in C : \A v \in V : v < c
    <2>1. /\ Gaps \subseteq r.have
          /\ Explicit => Verification(r)
          /\ \E c \in Of(r, "state") :
                r.events[c].x = "completed" /\ \A v \in Of(r, "verified") : v < c
      BY <1>3, <1>6 DEF EvidenceHolds
    <2> QED BY <1>1, <1>2, <2>1
  <1>7. Projection(r) = Projection(Replay(r.events))
    BY GoodIsReplay
  <1> QED BY <1>3, <1>4, <1>5, <1>6, <1>7, Zenon DEF Restorable, V, C

\* Whatever was rejected, and however the run was restored, its projection is what
\* the replay of its ledger gives, and a snapshot that was written is accepted by the
\* recovery (LabRun.archive_to_native, from_payload).
THEOREM LabSnapshotIsFaithful ==
    ASSUME ReducerAssumption, LabAssumption
    PROVE  Spec => []SnapshotIsFaithful
  <1>1. LabInv => SnapshotIsFaithful
    BY GoodIsReplay, GoodIsRestorable
       DEF LabInv, SnapshotIsFaithful, ProjectionIsReplay, ArchiveIsRestorable
  <1> QED BY <1>1, LabHolds, PTL

\* In every state, a reconciliation whose appends are accepted leaves no admission of
\* any lane open and, if it found one, leaves the run blocked
\* (LabRun.reconcile_unsettled_executions).
THEOREM LabReconcileCloses ==
    ASSUME ReducerAssumption, LabAssumption
    PROVE  Spec => []ReconcileCloses
  <1>1. LabInv => ReconcileCloses
    BY ReconcileClosesAll DEF LabInv, ReconcileCloses, ReducerAssumption
  <1> QED BY <1>1, LabHolds, PTL
=============================================================================
