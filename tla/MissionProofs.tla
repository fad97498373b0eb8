---------------------------- MODULE MissionProofs ----------------------------
(***************************************************************************)
(* However a laboratory mission goes - which stages are configured, which  *)
(* appends the native controller rejects, when the session pauses, resumes *)
(* or cancels it - it does not end with an admission open that no blocker  *)
(* tells of.  Nothing that could repeat an external effect is admitted     *)
(* once the outcome of a tool is unknown, but for the experiment after a   *)
(* controller loop that an exception ended.  Between two stages the run    *)
(* has every admission settled or a blocker, and an outcome is unknown     *)
(* only with its blocker or behind the loop; while an adapter is awaited   *)
(* only its admission is open.                                             *)
(***************************************************************************)
EXTENDS LabProofs, LabApplication

-----------------------------------------------------------------------------
(* The inductive invariant.                                                *)

\* The stages that await an adapter, and all of them.
Asking ==
    {"context", "skill", "tool", "research", "browse", "observe", "step", "plan", "trial",
     "checkpoint", "experiment", "synthesis", "memory"}
Ended == {"done", "failed"}
Ending == {"failing", "cancelled"}
Stages ==
    Asking \cup Ended \cup Ending \cup {"records", "act", "progress", "validator", "archive", "finish"}
Places ==
    [stage : Stages, wait : BOOLEAN, attempt : 1 .. 2, step : 1 .. 3, action : 1 .. 3, ran : BOOLEAN]

\* Only a stage that asks is awaited, and the loop has at most two iterations of at most
\* two actions.
Legal(a) ==
    /\ a \in Places
    /\ a.wait => a.stage \in Asking
    /\ a.stage \in {"act", "plan", "trial", "progress", "checkpoint"} => a.step <= 2
    /\ a.stage \in {"plan", "trial"} => a.action <= 2
    /\ a.stage = "step" /\ (a.wait \/ a.attempt = 2) => a.step <= 2

\* Id, for a place that need not be the present one.
IdOf(a) ==
    CASE a.stage = "tool" -> <<"tool", "retry">>[a.attempt]
      [] a.stage = "step" -> << <<"step1", "restep1">>, <<"step2", "restep2">> >>[a.step][a.attempt]
      [] a.stage = "plan" -> << << <<"plan11", "replan11">>, <<"plan12", "replan12">> >>,
                                << <<"plan21", "replan21">>, <<"plan22", "replan22">> >>
                             >>[a.step][a.action][a.attempt]
      [] a.stage = "trial" -> "experiment"
      [] a.stage = "checkpoint" -> <<"checkpoint1", "checkpoint2">>[a.step]
      [] a.stage = "synthesis" -> <<"synthesis", "resynthesis">>[a.attempt]
      [] OTHER -> a.stage

\* A blocker that no resume takes away.
Blocked(r) == ~(r.blockers \subseteq {"paused_by_operator"})
Clear(r) == Blocked(r) \/ Unsettled(r) = {}
Open(r) == r.state \notin Terminal

\* What is open is awaited, unless a blocker keeps the run from completing.
Held(r, a) == Blocked(r) \/ Unsettled(r) \subseteq (IF a.wait THEN {IdOf(a)} ELSE {})

\* Where an application may be that does not know the outcome of its tool: nowhere that
\* it admits something which could repeat the effect.
Calm(a) ==
    /\ a.stage \notin {"context", "skill", "tool", "act", "plan", "trial", "checkpoint"}
    /\ a.stage \in {"step", "experiment"} => ~a.wait
    /\ a.stage = "step" => a.attempt = 1

\* Behind the controller loop, where a mission may be with an unknown outcome that no
\* blocker tells of.  Elsewhere only the call that is awaited has one.
PastLoop == {"validator", "synthesis", "memory", "archive", "finish"} \cup Ended \cup Ending
Late(r, a) == a.stage \in PastLoop \/ (a.stage = "experiment" /\ LeftByError(r))
Sure(r, a) ==
    Uncertain(r) \/ Late(r, a) \/ Doubtful(r) \subseteq (IF a.wait THEN {IdOf(a)} ELSE {})

MissionInv ==
    /\ Good(missionRun) /\ missionRun.ok /\ missionRun.fail = 0
    /\ Legal(at)
    /\ at.stage \notin Ended => Open(missionRun)
    /\ at.stage \notin Ended \cup Ending => Held(missionRun, at)
    /\ Uncertain(missionRun) => Calm(at)
    /\ Sure(missionRun, at)
    /\ NothingLeftOpen

-----------------------------------------------------------------------------
(* How the methods continue a run that has evolved.                        *)

Names == Blockers \ {"unknown_outcome", "paused_by_operator"}

LEMMA NamesAre ==
    /\ "settlement_failed" \in Names /\ "admission_failed" \in Names /\ "invalid_record" \in Names
    /\ "stage_failed" \in Names /\ "prompt_injection" \in Names /\ "tool_failed" \in Names
    /\ "simulation_failed" \in Names /\ "experiment_failed" \in Names
    /\ "phase_transition_failed" \in Names /\ "checkpoint_failed" \in Names
    /\ "effect_failed" \in Names /\ "search_missing" \in Names /\ "exploration_failed" \in Names
    /\ "controller_suppressed" \in Names /\ "no_progress" \in Names /\ "spec_invalid" \in Names
    /\ "experiment_suppressed" \in Names /\ "runner_missing" \in Names
    /\ "benchmark_rejected" \in Names /\ "benchmark_invalid" \in Names /\ "effect_missing" \in Names
    /\ "controller_step_failed" \in Names /\ "archive_failed" \in Names
    /\ "failure_archive_failed" \in Names /\ "reconciliation_failed" \in Names
    /\ "abort_failed" \in Names
    /\ "unsettled_execution_requires_reconciliation" \in Names
    /\ "execution_reconciliation_failed" \in Names
  BY DEF Names, Blockers

LEMMA BlockerEvent == \A b : Event("blocker", b, "").k = "blocker" /\ "blocker" # "state"
  BY DEF Event

LEMMA EvolvesSelf ==
    ASSUME NEW r, Good(r), NEW X
    PROVE  Evolves(r, r, X)
  BY SameEvolves DEF SameRun, Good

LEMMA BlockedOn ==
    ASSUME NEW r, NEW q, NEW X, Evolves(r, q, X), Blocked(r)
    PROVE  Blocked(q)
  BY DEF Blocked, Evolves

LEMMA ClearOn ==
    ASSUME NEW r, NEW q, Evolves(r, q, {}), Clear(r)
    PROVE  Clear(q)
  <1>1. CASE Blocked(r)
    BY <1>1, BlockedOn DEF Clear
  <1>2. CASE Unsettled(r) = {}
    BY <1>2 DEF Clear, Unsettled, Evolves
  <1> QED BY <1>1, <1>2 DEF Clear

LEMMA OpenOn ==
    ASSUME NEW r, NEW q, NEW X, Evolves(r, q, X), Open(r)
    PROVE  Open(q) /\ Good(q)
  BY DEF Open, Evolves

\* The count-down to a rejection, and an exception that is raised or caught.
LEMMA MarkedEvolves ==
    ASSUME NEW X, NEW r, NEW t, Evolves(r, t, X), NEW n \in Nat
    PROVE  /\ Evolves(r, [t EXCEPT !.fail = n], X) /\ Evolves(r, [t EXCEPT !.ok = TRUE], X)
           /\ [t EXCEPT !.ok = TRUE].ok /\ [t EXCEPT !.ok = TRUE].fail = t.fail
           /\ Evolves(r, Raise(t), X) /\ ~Raise(t).ok
           /\ Evolves(r, Done(t), X) /\ Done(t).ok /\ Done(t).fail = 0
  <1>1. Good(t) /\ t \in Runs
    BY DEF Evolves, Good
  <1>2. ASSUME NEW q, Good(q), SameRun(t, q)
        PROVE  Evolves(r, q, X)
    BY <1>2, SameEvolves, EvolvesOn
  <1>3. ASSUME NEW q \in {[t EXCEPT !.fail = n], [t EXCEPT !.ok = TRUE], Done(t)}
        PROVE  SameRun(t, q)
    <2>1. CASE q = [t EXCEPT !.fail = n]
      BY <1>1, <2>1, ZenonT(60) DEF Runs, SameRun
    <2>2. CASE q = [t EXCEPT !.ok = TRUE]
      BY <1>1, <2>2 DEF Runs, SameRun
    <2>3. CASE q = Done(t)
      BY <1>1, <2>3 DEF Runs, SameRun, Done
    <2> QED BY <2>1, <2>2, <2>3
  <1>4. Good([t EXCEPT !.fail = n]) /\ Good([t EXCEPT !.ok = TRUE]) /\ Good(Done(t))
    BY <1>1, GoodStays, CallKeeps
  <1>5. Done(t).ok /\ Done(t).fail = 0
    BY <1>1, CallKeeps
  <1>6. Good(Raise(t)) /\ SameRun(t, Raise(t)) /\ ~Raise(t).ok
    BY <1>1, RaiseGood
  <1>7. [t EXCEPT !.ok = TRUE].ok /\ [t EXCEPT !.ok = TRUE].fail = t.fail
    BY <1>1 DEF Runs
  <1> QED BY <1>2, <1>3, <1>4, <1>5, <1>6, <1>7, Zenon

\* If q did not raise then it has a blocker.
Tells(r, q, X) == Evolves(r, q, X) /\ (q.ok => Blocked(q))

LEMMA BlockerTells ==
    ASSUME NEW X, NEW r, NEW t, Evolves(r, t, X), NEW b \in Names, Budget \in Nat
    PROVE  /\ Tells(r, RecordBlocker(t, b), X) /\ (RecordBlocker(t, b).ok => t.ok)
           /\ t.ok /\ ~RecordBlocker(t, b).ok => RecordBlocker(t, b).fail = 0
           /\ t.ok /\ t.fail = 0 => RecordBlocker(t, b).ok
           /\ RecordBlocker(t, b).ok => b \in RecordBlocker(t, b).blockers
           /\ ~t.ok => RecordBlocker(t, b) = t
  <1> DEFINE q == RecordBlocker(t, b)
  <1>1. Good(t) /\ b \in Blockers /\ b # "unknown_outcome" /\ b # "paused_by_operator"
    BY DEF Evolves, Names
  <1>2. PICK e : e = Event("blocker", b, "")
    OBVIOUS
  <1>3. e.k = "blocker" /\ e.x = b
    BY <1>2 DEF Event
  <1>4. /\ Good(q) /\ Keeps(t, e, q) /\ (t.fail = 0 => q.ok = t.ok)
        /\ q.ok => q.blockers = t.blockers \cup {b}
        /\ t.ok /\ ~q.ok => q.fail = 0
    BY <1>1, <1>2, RecordBlockerGood, Zenon
  <1> HIDE DEF q
  <1>5. Evolves(t, q, X)
    <2>1. e.k # "admit" /\ e.k # "resolved" /\ e.k # "state" /\ e.x # "unknown_outcome"
      BY <1>1, <1>3
    <2> QED BY <1>4, <2>1, KeepsEvolves, Zenon
  <1>6. Evolves(r, q, X)
    BY <1>5, EvolvesOn
  <1>7. q.ok => Blocked(q) /\ b \in q.blockers
    BY <1>1, <1>4 DEF Blocked
  <1>8. (q.ok => t.ok) /\ (~t.ok => q = t)
    BY <1>4 DEF Keeps
  <1> QED BY <1>4, <1>6, <1>7, <1>8 DEF Tells, q

LEMMA CatchTells ==
    ASSUME NEW X, NEW r, NEW t, Evolves(r, t, X), NEW b \in Names, Budget \in Nat
    PROVE  /\ Tells(r, Catch(t, b), X)
           /\ Catch(t, b).ok => b \in Catch(t, b).blockers
           /\ t.fail = 0 => Catch(t, b).ok /\ b \in Catch(t, b).blockers
           /\ Evolves(r, OrCatch(t, b), X)
           /\ OrCatch(t, b).ok => (t.ok /\ OrCatch(t, b) = t) \/ Blocked(OrCatch(t, b))
  <1> DEFINE u == [t EXCEPT !.ok = TRUE]
  <1>1. Evolves(r, u, X) /\ u.ok /\ u.fail = t.fail
    BY MarkedEvolves
  <1> HIDE DEF u
  <1>2. /\ Tells(r, RecordBlocker(u, b), X)
        /\ u.ok /\ u.fail = 0 => RecordBlocker(u, b).ok
        /\ RecordBlocker(u, b).ok => b \in RecordBlocker(u, b).blockers
    BY <1>1, BlockerTells
  <1>3. Catch(t, b) = RecordBlocker(u, b)
    BY DEF Catch, u
  <1>4. OrCatch(t, b) = IF t.ok THEN t ELSE Catch(t, b)
    BY DEF OrCatch
  <1> QED BY <1>1, <1>2, <1>3, <1>4, Zenon DEF Tells

LEMMA RecordEvolves ==
    ASSUME NEW X, NEW r, NEW t, Evolves(r, t, X), NEW k \in Records, Budget \in Nat,
           Explicit \in BOOLEAN
    PROVE  LET q == AddRecord(t, k)
           IN  Evolves(t, q, {}) /\ Evolves(r, q, X) /\ (q.ok => t.ok)
  <1>1. Good(t)
    BY DEF Evolves
  <1>2. LET q == AddRecord(t, k) IN Evolves(t, q, {}) /\ (q.ok => t.ok)
    BY <1>1, AddRecordGood
  <1> QED BY <1>2, EvolvesMore, EvolvesOn, Zenon

\* Evidence from an adapter: an invalid record leaves a blocker.
LEMMA IngestEvolves ==
    ASSUME NEW r, Good(r), NEW k \in Records, Budget \in Nat, Explicit \in BOOLEAN
    PROVE  Evolves(r, Ingest(r, k), {})
  <1> DEFINE a == AddRecord(r, k)
  <1>1. Evolves(r, a, {})
    BY AddRecordGood
  <1> HIDE DEF a
  <1>2. Evolves(r, Catch(a, "invalid_record"), {})
    BY <1>1, CatchTells, NamesAre, Zenon DEF Tells
  <1> QED BY <1>1, <1>2, Zenon DEF Ingest, Valid, a

LEMMA TransitionEvolves ==
    ASSUME NEW r, Good(r), NEW s \in States, s \notin Terminal, Budget \in Nat
    PROVE  LET q == Transition(r, s)
           IN  /\ Evolves(r, q, {}) /\ (q.ok => r.ok)
               /\ r.ok /\ ~q.ok /\ s \in Allowed[r.state] => q.fail = 0
  <1> DEFINE q == Transition(r, s)
  <1>1. s # "completed"
    BY DEF Terminal
  <1>2. PICK e : e = Event("state", s, "")
    OBVIOUS
  <1>3. e.k = "state"
    BY <1>2 DEF Event
  <1>4. /\ Good(q) /\ Keeps(r, e, q) /\ q.state \in {r.state, s}
        /\ r.ok /\ ~q.ok /\ s \in Allowed[r.state] /\ s # "completed" => q.fail = 0
    BY <1>1, <1>2, TransitionGood, Zenon
  <1> HIDE DEF q
  <1>5. q.state \in Terminal => r.state \in Terminal
    BY <1>4
  <1>6. Evolves(r, q, {})
    <2>1. e.k # "admit" /\ e.k # "resolved" /\ e.k # "blocker"
      BY <1>3
    <2> QED BY <1>4, <1>5, <2>1, KeepsEvolves, Zenon
  <1>7. q.ok => r.ok
    BY <1>4 DEF Keeps
  <1> QED BY <1>1, <1>4, <1>6, <1>7 DEF q

\* The events that only the application appends.
LEMMA NoteEvolves ==
    ASSUME NEW r, Good(r), NEW k \in {"committed", "exploration"}, NEW x \in Values, Budget \in Nat
    PROVE  LET q == Commit(r, r, r, Event(k, x, ""))
           IN  Evolves(r, q, {}) /\ (q.ok => r.ok)
  <1>1. PICK e : e = Event(k, x, "")
    OBVIOUS
  <1>2. e \in Events /\ e.k = k /\ r \in Runs
    <2>1. k \in EventKinds /\ "" \in Statuses \cup {""}
      BY DEF EventKinds
    <2> QED BY <1>1, <2>1, EventIs, ZenonT(60) DEF Good
  <1>3. Reflects(r, r, e)
    BY <1>2 DEF Reflects
  <1>4. Permitted(r, e)
    BY <1>2 DEF Permitted, FitsLedger
  <1> DEFINE q == Commit(r, r, r, e)
  <1>5. Good(q) /\ Keeps(r, e, q)
    BY <1>3, <1>4, AppendKeeps
  <1> HIDE DEF q
  <1>6. Evolves(r, q, {})
    <2>1. e.k # "admit" /\ e.k # "resolved" /\ e.k # "blocker" /\ e.k # "state"
      BY <1>2
    <2> QED BY <1>5, <2>1, KeepsEvolves, Zenon
  <1>7. q.ok => r.ok
    BY <1>5 DEF Keeps
  <1> QED BY <1>1, <1>6, <1>7, Zenon DEF q

\* The session: only the blocker of the pause comes and goes.
LEMMA PauseEvolves ==
    ASSUME NEW r, Good(r), Budget \in Nat
    PROVE  Evolves(r, Pause(r), {}) /\ Evolves(r, Resume(r), {})
  <1>1. Evolves(r, Raise(r), {})
    BY EvolvesSelf, MarkedEvolves
  <1>2. /\ "blocked" \in States /\ "researching" \in States /\ "paused_by_operator" \in Blockers
        /\ "blocked" \notin Terminal /\ "researching" \notin Terminal
    BY DEF States, Blockers, Terminal
  <1> DEFINE t == Transition(r, "blocked")
             q == RecordBlocker(t, "paused_by_operator")
  <1>3. Evolves(r, t, {}) /\ Good(t)
    BY <1>2, TransitionEvolves, Zenon DEF Evolves
  <1> HIDE DEF t
  <1>4. Evolves(r, q, {})
    <2>1. PICK b, e : b = "paused_by_operator" /\ e = Event("blocker", b, "")
      OBVIOUS
    <2>2. e.k = "blocker" /\ e.x # "unknown_outcome"
      BY <2>1 DEF Event
    <2>3. Good(q) /\ Keeps(t, e, q)
      BY <1>2, <1>3, <2>1, RecordBlockerGood, Zenon
    <2> HIDE DEF q
    <2>4. e.k # "admit" /\ e.k # "resolved" /\ e.k # "state"
      BY <2>2
    <2>5. Evolves(t, q, {})
      BY <2>2, <2>3, <2>4, KeepsEvolves, Zenon
    <2> QED BY <1>3, <2>5, EvolvesOn
  <1> DEFINE u == ResolveBlocker(r, "paused_by_operator")
  <1>5. Evolves(r, u, {}) /\ Good(u)
    <2>1. PICK b, e : b = "paused_by_operator" /\ e = Event("resolved", b, "")
      OBVIOUS
    <2>2. e.k = "resolved" /\ e.x = "paused_by_operator"
      BY <2>1 DEF Event
    <2>3. Good(u) /\ Keeps(r, e, u)
      BY <1>2, <2>1, ResolveBlockerGood, Zenon
    <2> HIDE DEF u
    <2>4. e.k # "admit" /\ e.k # "blocker" /\ e.k # "state"
      BY <2>2
    <2> QED BY <2>2, <2>3, <2>4, KeepsEvolves, Zenon
  <1> HIDE DEF u
  <1>6. Evolves(r, Transition(u, "researching"), {})
    <2>1. Evolves(u, Transition(u, "researching"), {})
      BY <1>2, <1>5, TransitionEvolves, Zenon
    <2> QED BY <1>5, <2>1, EvolvesOn
  <1> QED BY <1>1, <1>4, <1>6, Zenon DEF Pause, Resume, t, u

-----------------------------------------------------------------------------
(* The places.                                                             *)

\* a is the present place with this stage, wait, attempt, step and action.
PlacedAt(a, s, w, n, i, k) ==
    /\ a \in Places
    /\ a.stage = s /\ a.wait = w /\ a.attempt = n /\ a.step = i /\ a.action = k

LEMMA PlacesAre ==
    ASSUME Legal(at)
    PROVE  /\ \A s \in Stages : PlacedAt(To(s), s, FALSE, 1, at.step, 1)
           /\ PlacedAt(Await, at.stage, TRUE, at.attempt, at.step, at.action)
           /\ at.attempt = 1 => PlacedAt(Again, at.stage, FALSE, 2, at.step, at.action)
           /\ at.step <= 2 =>
                PlacedAt([To("step") EXCEPT !.step = @ + 1], "step", FALSE, 1, at.step + 1, 1)
           /\ at.action <= 2 => PlacedAt(NextAct, "act", FALSE, 1, at.step, at.action + 1)
           /\ \A s \in Stages :
                PlacedAt([To(s) EXCEPT !.action = at.action], s, FALSE, 1, at.step, at.action)
           /\ at.attempt \in 1 .. 2 /\ at.step \in 1 .. 3 /\ at.action \in 1 .. 3 /\ at.stage \in Stages
  <1>1. at \in Places
    BY DEF Legal
  <1>2. "step" \in Stages /\ "act" \in Stages
    BY DEF Stages, Asking
  <1>a. /\ at.stage \in Stages /\ at.attempt \in 1 .. 2 /\ at.step \in 1 .. 3 /\ at.action \in 1 .. 3
        /\ at.ran \in BOOLEAN
    BY <1>1 DEF Places
  <1>3. ASSUME NEW s \in Stages PROVE PlacedAt(To(s), s, FALSE, 1, at.step, 1)
    <2>1. PICK b, c, d : /\ b = [at EXCEPT !.stage = s] /\ c = [b EXCEPT !.wait = FALSE]
                         /\ d = [c EXCEPT !.attempt = 1]
      OBVIOUS
    <2>2. To(s) = [d EXCEPT !.action = 1]
      BY <2>1, Zenon DEF To
    <2>3. b \in Places /\ b.stage = s /\ b.step = at.step
      BY <1>1, <2>1 DEF Places
    <2>4. c \in Places /\ c.stage = s /\ c.step = at.step /\ c.wait = FALSE
      BY <2>1, <2>3 DEF Places
    <2>5. d \in Places /\ d.stage = s /\ d.step = at.step /\ d.wait = FALSE /\ d.attempt = 1
      <3>1. 1 \in 1 .. 2 /\ d = [c EXCEPT !.attempt = 1]
        BY <2>1
      <3>2. d \in Places
        BY <2>4, <3>1 DEF Places
      <3> QED BY <2>4, <3>1, <3>2 DEF Places
    <2> QED BY <2>2, <2>5 DEF Places, PlacedAt
  <1>4. PlacedAt(Await, at.stage, TRUE, at.attempt, at.step, at.action)
    BY <1>1 DEF Await, PlacedAt, Places
  <1>5. ASSUME at.attempt = 1 PROVE PlacedAt(Again, at.stage, FALSE, 2, at.step, at.action)
    <2>1. PICK b : b = [at EXCEPT !.wait = FALSE]
      OBVIOUS
    <2>2. Again = [b EXCEPT !.attempt = at.attempt + 1]
      BY <2>1, Zenon DEF Again
    <2>3. b \in Places /\ b.stage = at.stage /\ b.step = at.step /\ b.wait = FALSE /\ b.action = at.action
      BY <1>1, <2>1 DEF Places
    <2> QED BY <1>5, <2>2, <2>3 DEF Places, PlacedAt
  <1>6. ASSUME at.step <= 2
        PROVE  PlacedAt([To("step") EXCEPT !.step = @ + 1], "step", FALSE, 1, at.step + 1, 1)
    <2>1. PICK b, a : b = To("step") /\ a = [b EXCEPT !.step = b.step + 1]
      OBVIOUS
    <2>2. PlacedAt(b, "step", FALSE, 1, at.step, 1)
      BY <1>2, <1>3, <2>1
    <2>3. PlacedAt(a, "step", FALSE, 1, at.step + 1, 1)
      BY <1>6, <1>a, <2>1, <2>2 DEF PlacedAt, Places
    <2> QED BY <2>1, <2>3, Zenon
  <1>7. ASSUME NEW s \in Stages, NEW k \in 1 .. 3
        PROVE  PlacedAt([To(s) EXCEPT !.action = k], s, FALSE, 1, at.step, k)
    <2>1. PICK b : b = To(s)
      OBVIOUS
    <2>2. PlacedAt(b, s, FALSE, 1, at.step, 1)
      BY <1>3, <2>1
    <2>3. PlacedAt([b EXCEPT !.action = k], s, FALSE, 1, at.step, k)
      BY <2>2 DEF PlacedAt, Places
    <2> QED BY <2>1, <2>3, Zenon
  <1>8. at.action <= 2 => PlacedAt(NextAct, "act", FALSE, 1, at.step, at.action + 1)
    <2>1. PICK k : k = at.action + 1
      OBVIOUS
    <2>2. at.action <= 2 => k \in 1 .. 3
      BY <1>a, <2>1
    <2> QED BY <1>2, <1>7, <2>1, <2>2, Zenon DEF NextAct
  <1> QED BY <1>a, <1>3, <1>4, <1>5, <1>6, <1>7, <1>8, Zenon

\* A place the run may go on to, and the places with nothing to repeat an effect.
Onward(s) ==
    /\ s \in Stages \ Ended
    /\ s \in {"act", "progress", "checkpoint"} => at.step <= 2
    /\ s \notin {"plan", "trial"}
Quiet == Stages \ {"context", "skill", "tool", "act", "plan", "trial", "checkpoint"}

\* The adapters that an application awaits also when it does not know an outcome.
Harmless == {"research", "browse", "observe", "synthesis", "memory"}

LEMMA StagesAre ==
    /\ Asking \subseteq Stages /\ Ended \subseteq Stages /\ Ending \subseteq Stages
    /\ Ended \cap Asking = {} /\ Ended \cap Ending = {}
    /\ Ended \cup Ending \subseteq Quiet
    /\ {"skill", "tool", "research", "records", "browse", "observe", "step", "experiment", "validator",
        "synthesis", "memory", "archive", "finish", "failing", "cancelled"} \subseteq Stages \ Ended
    /\ {"research", "records", "browse", "observe", "step", "experiment", "validator", "synthesis",
        "memory", "archive", "finish", "failing", "cancelled", "progress"} \subseteq Quiet
    /\ {"act", "plan", "trial", "progress", "checkpoint"} \subseteq Stages \ Ended
  BY DEF Stages, Asking, Ended, Ending, Quiet

LEMMA ToIs ==
    ASSUME Legal(at), NEW s, Onward(s) \/ s \in Ended
    PROVE  /\ Legal(To(s)) /\ To(s).stage = s /\ ~To(s).wait
           /\ s \in Quiet => Calm(To(s))
  <1>1. s \in Stages
    BY StagesAre DEF Onward
  <1>2. PlacedAt(To(s), s, FALSE, 1, at.step, 1)
    BY <1>1, PlacesAre
  <1> DEFINE a == To(s)
  <1> HIDE DEF a
  <1>3. PlacedAt(a, s, FALSE, 1, at.step, 1)
    BY <1>2 DEF a
  <1>4. s \in {"act", "plan", "trial", "progress", "checkpoint"} => at.step <= 2
    BY DEF Onward, Ended
  <1>5. Legal(a)
    BY <1>3, <1>4 DEF Legal, PlacedAt
  <1>6. s \in Quiet => Calm(a)
    BY <1>3 DEF Calm, Quiet, PlacedAt
  <1> QED BY <1>3, <1>5, <1>6, Zenon DEF a, PlacedAt

LEMMA StepIs ==
    ASSUME Legal(at), at.step <= 2
    PROVE  LET a == [To("step") EXCEPT !.step = @ + 1]
           IN  Legal(a) /\ a.stage = "step" /\ ~a.wait /\ Calm(a)
  <1> DEFINE a == [To("step") EXCEPT !.step = @ + 1]
  <1>1. PlacedAt(a, "step", FALSE, 1, at.step + 1, 1)
    BY PlacesAre
  <1> HIDE DEF a
  <1>2. Legal(a) /\ a.stage = "step" /\ ~a.wait /\ Calm(a)
    BY <1>1 DEF Legal, Calm, PlacedAt
  <1> QED BY <1>2 DEF a

\* After an action, and where an action begins.
LEMMA NextActIs ==
    ASSUME Legal(at), at.stage \in {"plan", "trial"}
    PROVE  Legal(NextAct) /\ NextAct.stage = "act" /\ ~NextAct.wait
  <1> DEFINE a == NextAct
  <1>1. at.step <= 2 /\ at.action <= 2
    BY DEF Legal
  <1>2. PlacedAt(a, "act", FALSE, 1, at.step, at.action + 1)
    BY <1>1, PlacesAre
  <1> HIDE DEF a
  <1>3. Legal(a) /\ a.stage = "act" /\ ~a.wait
    BY <1>1, <1>2 DEF Legal, PlacedAt
  <1> QED BY <1>3 DEF a

LEMMA ActIs ==
    ASSUME Legal(at), at.stage = "act", NEW k \in {"progress", "plan", "trial"},
           k # "progress" => at.action <= 2
    PROVE  LET a == [To(k) EXCEPT !.action = at.action]
           IN  Legal(a) /\ a.stage = k /\ ~a.wait
  <1> DEFINE a == [To(k) EXCEPT !.action = at.action]
  <1>1. PlacedAt(a, k, FALSE, 1, at.step, at.action)
    BY PlacesAre, StagesAre
  <1> HIDE DEF a
  <1>2. Legal(a) /\ a.stage = k /\ ~a.wait
    BY <1>1 DEF Legal, PlacedAt
  <1> QED BY <1>2 DEF a

LEMMA AgainIs ==
    ASSUME Legal(at), at.wait, at.attempt = 1
    PROVE  /\ Legal(Again) /\ Again.stage = at.stage /\ ~Again.wait
           /\ at.stage \in Harmless => Calm(Again)
  <1> DEFINE a == Again
  <1>1. PlacedAt(a, at.stage, FALSE, 2, at.step, at.action)
    BY PlacesAre
  <1> HIDE DEF a
  <1>2. Legal(a)
    BY <1>1 DEF Legal, PlacedAt
  <1>3. at.stage \in Harmless => Calm(a)
    BY <1>1 DEF Calm, PlacedAt, Harmless
  <1> QED BY <1>1, <1>2, <1>3 DEF a, PlacedAt

LEMMA AwaitIs ==
    ASSUME Legal(at), at.stage \in Asking, at.stage = "step" => at.step <= 2
    PROVE  /\ Legal(Await) /\ Await.stage = at.stage /\ Await.wait
           /\ at.stage \in Harmless => Calm(Await)
           /\ IdOf(Await) = IdOf(at)
  <1> DEFINE a == Await
  <1>1. PlacedAt(a, at.stage, TRUE, at.attempt, at.step, at.action)
    BY PlacesAre
  <1> HIDE DEF a
  <1>2. Legal(a)
    BY <1>1 DEF Legal, PlacedAt
  <1>3. at.stage \in Harmless => Calm(a)
    BY <1>1 DEF Calm, PlacedAt, Harmless
  <1>4. IdOf(a) = IdOf(at)
    BY <1>1, Zenon DEF IdOf, PlacedAt
  <1> QED BY <1>1, <1>2, <1>3, <1>4 DEF a, PlacedAt

LEMMA IdIs ==
    ASSUME Legal(at), at.stage \in Asking, at.stage = "step" => at.step <= 2
    PROVE  /\ Id(at.stage) = IdOf(at) /\ IdOf(at) \in Lanes
           /\ at.stage \in Harmless => IdOf(at) \notin Repeating
           /\ IF at.stage \in {"tool", "plan"} THEN IdOf(at) \in ToolCalls ELSE IdOf(at) \notin ToolCalls
           /\ at.stage = "experiment" => IdOf(at) = "experiment"
  <1>1. at.attempt \in {1, 2} /\ at.step \in {1, 2, 3} /\ at.action \in {1, 2, 3} /\ at.stage \in Stages
    BY PlacesAre
  <1>2. /\ at.stage \in {"step", "plan", "checkpoint"} => at.step \in {1, 2}
        /\ at.stage = "plan" => at.action \in {1, 2}
    BY <1>1 DEF Legal
  <1>3. Id(at.stage) = IdOf(at)
    BY Zenon DEF Id, IdOf
  <1>4. CASE at.stage = "tool"
    <2>1. IdOf(at) \in {"tool", "retry"}
      BY <1>1, <1>4 DEF IdOf
    <2>3. IdOf(at) \in ToolLane /\ IdOf(at) \in ToolCalls
      BY <2>1 DEF ToolLane, ToolCalls
    <2>4. at.stage \notin Harmless /\ at.stage \in {"tool", "plan"} /\ at.stage # "experiment"
      BY <1>4 DEF Harmless
    <2> QED BY <1>3, <2>3, <2>4 DEF Lanes
  <1>5. CASE at.stage = "step"
    <2>1. IdOf(at) = << <<"step1", "restep1">>, <<"step2", "restep2">> >>[at.step][at.attempt]
      BY <1>5, Zenon DEF IdOf
    <2>2. IdOf(at) \in {"step1", "restep1", "step2", "restep2"}
      <3>1. ASSUME NEW n \in {1, 2}
            PROVE  /\ << <<"step1", "restep1">>, <<"step2", "restep2">> >>[1][n] \in {"step1", "restep1"}
                   /\ << <<"step1", "restep1">>, <<"step2", "restep2">> >>[2][n] \in {"step2", "restep2"}
        OBVIOUS
      <3> QED BY <1>1, <1>2, <1>5, <2>1, <3>1, Zenon
    <2>3. IdOf(at) \in ToolLane /\ IdOf(at) \notin ToolCalls
      BY <2>2 DEF ToolLane, ToolCalls
    <2>4. at.stage \notin Harmless /\ at.stage \notin {"tool", "plan"} /\ at.stage # "experiment"
      BY <1>5 DEF Harmless
    <2> QED BY <1>3, <2>3, <2>4 DEF Lanes
  <1>6. CASE at.stage = "plan"
    <2> DEFINE one == << <<"plan11", "replan11">>, <<"plan12", "replan12">> >>
               two == << <<"plan21", "replan21">>, <<"plan22", "replan22">> >>
    <2>1. IdOf(at) = << one, two >>[at.step][at.action][at.attempt]
      BY <1>6, Zenon DEF IdOf
    <2>2. IdOf(at) \in ToolCalls
      <3>1. ASSUME NEW n \in {1, 2}
            PROVE  /\ one[1][n] \in ToolCalls /\ one[2][n] \in ToolCalls
                   /\ two[1][n] \in ToolCalls /\ two[2][n] \in ToolCalls
        BY DEF ToolCalls
      <3>2. << one, two >>[1] = one /\ << one, two >>[2] = two
        OBVIOUS
      <3> HIDE DEF one, two
      <3> QED BY <1>1, <1>2, <1>6, <2>1, <3>1, <3>2, Zenon
    <2>3. IdOf(at) \in ToolLane
      BY <2>2 DEF ToolLane
    <2>4. at.stage \notin Harmless /\ at.stage \in {"tool", "plan"} /\ at.stage # "experiment"
      BY <1>6 DEF Harmless
    <2> QED BY <1>3, <2>2, <2>3, <2>4 DEF Lanes
  <1>7. CASE at.stage = "checkpoint"
    <2>1. IdOf(at) \in {"checkpoint1", "checkpoint2"}
      BY <1>2, <1>7 DEF IdOf
    <2>3. IdOf(at) \in ToolLane /\ IdOf(at) \notin ToolCalls
      BY <2>1 DEF ToolLane, ToolCalls
    <2>4. at.stage \notin Harmless /\ at.stage \notin {"tool", "plan"} /\ at.stage # "experiment"
      BY <1>7 DEF Harmless
    <2> QED BY <1>3, <2>3, <2>4 DEF Lanes
  <1>8. CASE at.stage = "synthesis"
    <2>1. IdOf(at) \in {"synthesis", "resynthesis"}
      BY <1>1, <1>8 DEF IdOf
    <2>2. IdOf(at) \in ToolLane
      BY <2>1 DEF ToolLane
    <2>3. IdOf(at) \notin Repeating /\ IdOf(at) \notin ToolCalls
      BY <2>1 DEF Repeating, ToolCalls
    <2>4. at.stage \notin {"tool", "plan"} /\ at.stage # "experiment"
      BY <1>8
    <2> QED BY <1>3, <2>2, <2>3, <2>4 DEF Lanes
  <1>9. CASE at.stage = "trial"
    <2>1. IdOf(at) = "experiment"
      BY <1>9 DEF IdOf
    <2>2. at.stage \notin Harmless /\ at.stage \notin {"tool", "plan"}
      BY <1>9 DEF Harmless
    <2>3. "experiment" \notin ToolCalls
      BY DEF ToolCalls
    <2> QED BY <1>3, <2>1, <2>2, <2>3 DEF Lanes
  <1>10. CASE at.stage \in {"context", "skill", "research", "browse", "observe", "experiment", "memory"}
    <2>4. /\ at.stage # "tool" /\ at.stage # "step" /\ at.stage # "plan" /\ at.stage # "trial"
          /\ at.stage # "checkpoint" /\ at.stage # "synthesis"
      BY <1>10
    <2>1. IdOf(at) = at.stage
      BY <2>4, Zenon DEF IdOf
    <2>2. at.stage \in Lanes
      BY <1>10 DEF Lanes, ToolLane
    <2>3. at.stage \in Harmless => at.stage \notin Repeating
      BY DEF Harmless, Repeating, ToolCalls
    <2>5. at.stage \notin ToolCalls /\ at.stage \notin {"tool", "plan"}
      BY <1>10 DEF ToolCalls
    <2> QED BY <1>3, <2>1, <2>2, <2>3, <2>5
  <1> QED BY <1>3, <1>4, <1>5, <1>6, <1>7, <1>8, <1>9, <1>10 DEF Asking

LEMMA FollowIs ==
    ASSUME Legal(at), NEW s \in DOMAIN Follow, at.stage = s
    PROVE  /\ Onward(Follow[s])
           /\ Calm(at) => Follow[s] \in Quiet
           /\ s \in {"tool", "plan"} => Follow[s] \in Quiet
  <1>1. s \in {"context", "skill", "tool", "research", "browse", "observe", "plan", "trial",
               "experiment", "synthesis", "memory"}
    BY DEF Follow
  <1>2. /\ Follow["context"] = "skill" /\ Follow["skill"] = "tool" /\ Follow["tool"] = "research"
        /\ Follow["research"] = "records" /\ Follow["browse"] = "observe" /\ Follow["observe"] = "step"
        /\ Follow["plan"] = "progress" /\ Follow["trial"] = "progress"
        /\ Follow["experiment"] = "validator" /\ Follow["synthesis"] = "memory"
        /\ Follow["memory"] = "archive"
    BY DEF Follow
  <1>3. Follow[s] \in Stages \ Ended
    BY <1>1, <1>2, StagesAre
  <1>4. /\ Follow[s] \in {"act", "progress", "checkpoint"} => s \in {"plan", "trial"}
        /\ Follow[s] \notin {"plan", "trial"}
    BY <1>1, <1>2
  <1>5. s \in {"plan", "trial"} => at.step <= 2
    BY DEF Legal
  <1>6. Calm(at) => Follow[s] \in Quiet
    <2>1. Calm(at) => s \notin {"context", "skill", "tool", "plan", "trial"}
      BY DEF Calm
    <2> QED BY <1>1, <1>2, <2>1, StagesAre
  <1>7. s \in {"tool", "plan"} => Follow[s] \in Quiet
    BY <1>2, StagesAre
  <1> QED BY <1>3, <1>4, <1>5, <1>6, <1>7 DEF Onward

-----------------------------------------------------------------------------
(* What a step may return.                                                 *)

\* An operation that began with r may return o: an exception, or a run for the next place.
NoRepeat(r, q) ==
    LET new == (Admitted(q) \ Admitted(r)) \cap Repeating
    IN  /\ Uncertain(r) => new = {}
        /\ Doubtful(r) # {} =>
             new \subseteq IF at.stage = "experiment" /\ LeftByError(r) THEN {"experiment"} ELSE {}
Suits(q, a) ==
    /\ Legal(a) /\ a.stage \notin Ended
    /\ a.stage \notin Ending => Held(q, a)
    /\ Uncertain(q) => Calm(a)
    /\ Sure(q, a)
Fits(r, o) == Good(o.r) /\ Open(o.r) /\ NoRepeat(r, o.r) /\ (o.r.ok => Suits(o.r, o.at))

LEMMA FitsIs ==
    ASSUME NEW r, NEW q, NEW a
    PROVE  /\ R(q, a).r = q /\ R(q, a).at = a
           /\ Good(q) /\ Open(q) /\ NoRepeat(r, q) /\ (q.ok => Suits(q, a)) => Fits(r, R(q, a))
  BY Zenon DEF R, Fits

\* A run that admits nothing which could repeat an effect.
LEMMA NothingRepeated ==
    ASSUME NEW r, NEW q, (Admitted(q) \ Admitted(r)) \cap Repeating = {}
    PROVE  NoRepeat(r, q)
  BY DEF NoRepeat

\* What stays unknown, and what is told, as a run evolves.
LEMMA DoubtOn ==
    ASSUME NEW X, NEW r, NEW q, Evolves(r, q, X)
    PROVE  /\ Doubtful(q) \subseteq Doubtful(r) \cup (X \cap External)
           /\ Uncertain(r) => Uncertain(q)
           /\ LeftByError(r) => LeftByError(q)
  <1>1. /\ Admitted(q) \subseteq Admitted(r) \cup X /\ Succeeded(r) \subseteq Succeeded(q)
        /\ r.blockers \ {"paused_by_operator"} \subseteq q.blockers
    BY DEF Evolves
  <1>2. Doubtful(q) \subseteq Doubtful(r) \cup (X \cap External)
    BY <1>1 DEF Doubtful
  <1>3. (Uncertain(r) => Uncertain(q)) /\ (LeftByError(r) => LeftByError(q))
    BY <1>1 DEF Uncertain, LeftByError
  <1> QED BY <1>2, <1>3

LEMMA LateIs == \A r, a : a.stage \in PastLoop => Sure(r, a)
  BY DEF Sure, Late

\* The application goes on, enters the experiment after the loop, or fails.
LEMMA EscapeSuits ==
    ASSUME Legal(at), NEW r, NEW o, Fits(r, o), Budget \in Nat
    PROVE  LET e == Escape(o) IN Good(e.r) /\ Open(e.r) /\ NoRepeat(r, e.r) /\ Suits(e.r, e.at)
  <1> DEFINE suits(e) == Good(e.r) /\ Open(e.r) /\ NoRepeat(r, e.r) /\ Suits(e.r, e.at)
             b == Catch(o.r, "controller_step_failed")
  <1> SUFFICES suits(Escape(o))
    OBVIOUS
  <1>1. Onward("experiment") /\ Onward("failing") /\ "experiment" \in Quiet /\ "failing" \in Quiet
    BY StagesAre DEF Onward
  <1>2. /\ Legal(To("experiment")) /\ To("experiment").stage = "experiment"
        /\ ~To("experiment").wait /\ Calm(To("experiment"))
    BY <1>1, ToIs, Zenon
  <1>3. Legal(To("failing")) /\ To("failing").stage = "failing" /\ Calm(To("failing"))
    BY <1>1, ToIs, Zenon
  <1>4. "failing" \in Ending /\ "failing" \notin Ended /\ "experiment" \notin Ended
    BY DEF Ending, Ended
  <1>5. ASSUME NEW q PROVE Suits(q, To("failing"))
    <2>1. "failing" \in PastLoop
      BY <1>4 DEF PastLoop
    <2> QED BY <1>3, <1>4, <2>1, LateIs, Zenon DEF Suits
  <1>6. ASSUME NEW q, Blocked(q), LeftByError(q) PROVE Suits(q, To("experiment"))
    <2>1. Sure(q, To("experiment"))
      BY <1>2, <1>6, Zenon DEF Sure, Late
    <2> QED BY <1>2, <1>4, <1>6, <2>1, Zenon DEF Suits, Held
  <1>7. Good(o.r) /\ Open(o.r) /\ NoRepeat(r, o.r)
    BY DEF Fits
  <1>8. Evolves(o.r, b, {}) /\ (b.ok => Blocked(b) /\ LeftByError(b))
    <2>1. Evolves(o.r, o.r, {})
      BY <1>7, EvolvesSelf
    <2> QED BY <2>1, CatchTells, NamesAre, Zenon DEF Tells, LeftByError
  <1> HIDE DEF b
  <1>9. Good(b) /\ Open(b) /\ NoRepeat(r, b)
    <2>1. Good(b) /\ Open(b)
      BY <1>7, <1>8, OpenOn
    <2>2. Admitted(b) \subseteq Admitted(o.r)
      BY <1>8 DEF Evolves
    <2> QED BY <1>7, <2>1, <2>2 DEF NoRepeat
  <1>10. CASE o.r.ok
    BY <1>7, <1>10, Zenon DEF Escape, Fits
  <1>11. CASE ~o.r.ok /\ at.stage \in Loop
    <2>1. Escape(o) = R(b, To(IF b.ok THEN "experiment" ELSE "failing"))
      BY <1>11, Zenon DEF Escape, LoopBlocked, b
    <2>2. Escape(o).r = b /\ Escape(o).at = To(IF b.ok THEN "experiment" ELSE "failing")
      BY <2>1 DEF R
    <2>3. CASE b.ok
      BY <1>6, <1>8, <1>9, <2>2, <2>3, Zenon
    <2>4. CASE ~b.ok
      BY <1>5, <1>9, <2>2, <2>4, Zenon
    <2> QED BY <2>3, <2>4
  <1>12. CASE ~o.r.ok /\ at.stage \notin Loop
    <2>1. Escape(o) = R(o.r, To("failing"))
      BY <1>12, Zenon DEF Escape
    <2>2. Escape(o).r = o.r /\ Escape(o).at = To("failing")
      BY <2>1 DEF R
    <2> QED BY <1>5, <1>7, <2>2, Zenon
  <1> HIDE DEF suits
  <1> QED BY <1>10, <1>11, <1>12

\* What the predicates say of a run they say of the run of the next call.
LEMMA SamePredicates ==
    ASSUME NEW r, NEW q, SameRun(r, q)
    PROVE  /\ Unsettled(q) = Unsettled(r) /\ Admitted(q) = Admitted(r)
           /\ Uncertain(q) = Uncertain(r) /\ Open(q) = Open(r) /\ Blocked(q) = Blocked(r)
           /\ Doubtful(q) = Doubtful(r) /\ LeftByError(q) = LeftByError(r)
           /\ \A a : Held(q, a) = Held(r, a) /\ Sure(q, a) = Sure(r, a)
  <1>1. /\ Admitted(q) = Admitted(r) /\ Settled(q) = Settled(r) /\ Succeeded(q) = Succeeded(r)
        /\ q.blockers = r.blockers /\ q.state = r.state
    BY SameRunHas, Zenon DEF SameRun
  <1>2. Doubtful(q) = Doubtful(r) /\ LeftByError(q) = LeftByError(r) /\ Uncertain(q) = Uncertain(r)
    BY <1>1, Zenon DEF Doubtful, LeftByError, Uncertain
  <1>3. ASSUME NEW a PROVE Sure(q, a) = Sure(r, a)
    BY <1>2, Zenon DEF Sure, Late
  <1>4. /\ Unsettled(q) = Unsettled(r) /\ Open(q) = Open(r) /\ Blocked(q) = Blocked(r)
        /\ \A a : Held(q, a) = Held(r, a)
    BY <1>1, Zenon DEF Unsettled, Open, Blocked, Held
  <1> QED BY <1>1, <1>2, <1>3, <1>4, Zenon

LEMMA DoneSame ==
    ASSUME NEW r, Good(r)
    PROVE  SameRun(r, Done(r)) /\ Good(Done(r)) /\ Done(r).ok /\ Done(r).fail = 0
  <1>1. r \in Runs
    BY DEF Good
  <1>2. SameRun(r, Done(r))
    BY <1>1 DEF Runs, SameRun, Done
  <1> QED BY <1>2, CallKeeps

\* A run at the beginning of a call.
LEMMA FailSame ==
    ASSUME NEW r, Good(r), NEW n \in Nat
    PROVE  LET q == [r EXCEPT !.fail = n] IN SameRun(r, q) /\ Good(q) /\ q.ok = r.ok
  <1> DEFINE q == [r EXCEPT !.fail = n]
  <1>1. r \in Runs /\ TRUE \in BOOLEAN
    BY DEF Good
  <1>2. SameRun(r, q) /\ q.ok = r.ok
    BY <1>1, ExceptIs, Zenon
  <1>3. Good(q)
    BY <1>1, GoodStays, Zenon
  <1> QED BY <1>2, <1>3

NoAct == NoRepeat(missionRun, missionRun')

LEMMA BecomesHolds ==
    ASSUME MissionInv, NEW n \in Nat, NEW o, Fits([missionRun EXCEPT !.fail = n], o),
           Becomes(Escape(o)), Budget \in Nat
    PROVE  MissionInv' /\ NoAct
  <1> DEFINE r == [missionRun EXCEPT !.fail = n]
             e == Escape(o)
             q == Done(e.r)
  <1>1. SameRun(missionRun, r)
    BY FailSame DEF MissionInv
  <1>2. Good(e.r) /\ Open(e.r) /\ NoRepeat(r, e.r) /\ Suits(e.r, e.at)
    BY EscapeSuits DEF MissionInv
  <1>3. missionRun' = q /\ at' = e.at
    BY DEF Becomes
  <1> HIDE DEF r, e
  <1>4. SameRun(e.r, q) /\ Good(q) /\ q.ok /\ q.fail = 0
    BY <1>2, DoneSame
  <1> HIDE DEF q
  <1>5. /\ Open(q) /\ Suits(q, e.at)
        /\ Admitted(q) = Admitted(e.r)
    BY <1>2, <1>4, SamePredicates, Zenon DEF Suits
  <1>6. NoRepeat(missionRun, q)
    <2>1. /\ Uncertain(r) = Uncertain(missionRun) /\ Admitted(r) = Admitted(missionRun)
          /\ Doubtful(r) = Doubtful(missionRun) /\ LeftByError(r) = LeftByError(missionRun)
      BY <1>1, SamePredicates
    <2> QED BY <1>2, <1>5, <2>1, Zenon DEF NoRepeat
  <1>7. /\ q.state # "completed"
        /\ e.at.stage # "failed"
    BY <1>5 DEF Open, Terminal, Suits, Ended
  <1>8. NothingLeftOpen'
    BY <1>3, <1>7 DEF NothingLeftOpen, CompletedIsSettled, FailedIsClosed
  <1>9. NoAct
    BY <1>3, <1>6 DEF NoAct
  <1>10. MissionInv'
    <2>1. Good(missionRun') /\ missionRun'.ok /\ missionRun'.fail = 0 /\ Open(missionRun')
      BY <1>3, <1>4, <1>5
    <2>2. /\ Legal(at') /\ at'.stage \notin Ended
          /\ at'.stage \notin Ending => Held(missionRun', at')
          /\ Uncertain(missionRun') => Calm(at')
          /\ Sure(missionRun', at')
      BY <1>3, <1>5 DEF Suits
    <2> QED BY <1>8, <2>1, <2>2 DEF MissionInv
  <1> QED BY <1>9, <1>10

-----------------------------------------------------------------------------
(* The stages.                                                             *)

\* A run that an operation begins with.
Ready(r) ==
    /\ Good(r) /\ r.ok /\ Open(r)
    /\ Legal(at) /\ at.stage \notin Ended \cup Ending
    /\ Held(r, at)
    /\ Uncertain(r) => Calm(at)
    /\ Sure(r, at) /\ External \subseteq ToolCalls

LEMMA ReadyIs ==
    ASSUME MissionInv, NEW n \in Nat, at.stage \notin Ended \cup Ending, External \subseteq ToolCalls
    PROVE  Ready([missionRun EXCEPT !.fail = n])
  <1> DEFINE r == [missionRun EXCEPT !.fail = n]
  <1>1. SameRun(missionRun, r) /\ Good(r) /\ r.ok
    BY FailSame DEF MissionInv
  <1> HIDE DEF r
  <1>2. /\ Uncertain(r) = Uncertain(missionRun) /\ Open(r) = Open(missionRun)
        /\ \A a : Held(r, a) = Held(missionRun, a) /\ Sure(r, a) = Sure(missionRun, a)
    BY <1>1, SamePredicates
  <1>3. Ready(r)
    BY <1>1, <1>2, Zenon DEF Ready, MissionInv
  <1> QED BY <1>3 DEF r

\* What a settlement or the benchmark may admit itself.
Extra == {"research", "observe", "validator"}

\* Either q has raised, or what is open has been told.
Safe(r, q) == Evolves(r, q, Extra) /\ (q.ok => Clear(q))

LEMMA SafeSelf ==
    ASSUME NEW r, Ready(r), ~at.wait
    PROVE  Safe(r, r) /\ Clear(r)
  <1>1. Good(r) /\ Held(r, at)
    BY DEF Ready
  <1>2. Evolves(r, r, Extra)
    BY <1>1, EvolvesSelf
  <1>3. Clear(r)
    BY <1>1 DEF Clear, Held
  <1> QED BY <1>2, <1>3 DEF Safe

LEMMA SafeOn ==
    ASSUME NEW r, NEW t, Safe(r, t), NEW q, Evolves(t, q, {}), q.ok => t.ok
    PROVE  Safe(r, q)
  <1>1. Evolves(r, q, Extra)
    BY EvolvesMore, EvolvesOn DEF Safe
  <1>2. q.ok => Clear(q)
    BY ClearOn DEF Safe
  <1> QED BY <1>1, <1>2 DEF Safe

LEMMA SafeBlocker ==
    ASSUME NEW r, NEW t, Evolves(r, t, Extra), NEW b \in Names, Budget \in Nat
    PROVE  Safe(r, RecordBlocker(t, b)) /\ Safe(r, Catch(t, b))
  BY BlockerTells, CatchTells DEF Safe, Tells, Clear

LEMMA SafeOrCatch ==
    ASSUME NEW r, NEW t, Safe(r, t), NEW b \in Names, Budget \in Nat
    PROVE  Safe(r, OrCatch(t, b))
  <1>1. Evolves(r, t, Extra)
    BY DEF Safe
  <1>2. /\ Evolves(r, OrCatch(t, b), Extra)
        /\ OrCatch(t, b).ok => (t.ok /\ OrCatch(t, b) = t) \/ Blocked(OrCatch(t, b))
    BY <1>1, CatchTells
  <1> QED BY <1>2, Zenon DEF Safe, Clear

LEMMA SafeRecord ==
    ASSUME NEW r, NEW t, Safe(r, t), NEW k \in Records, Budget \in Nat, Explicit \in BOOLEAN
    PROVE  Safe(r, AddRecord(t, k)) /\ Safe(r, Ingest(t, k))
  <1> DEFINE a == AddRecord(t, k)
  <1>1. Evolves(r, t, Extra)
    BY DEF Safe
  <1>2. Evolves(t, a, {}) /\ Evolves(r, a, Extra) /\ (a.ok => t.ok)
    BY <1>1, RecordEvolves
  <1> HIDE DEF a
  <1>3. Safe(r, a)
    BY <1>2, SafeOn
  <1>4. Safe(r, Catch(a, "invalid_record"))
    BY <1>2, SafeBlocker, NamesAre, Zenon
  <1> QED BY <1>3, <1>4, Zenon DEF Ingest, Valid, a

LEMMA SafeNote ==
    ASSUME NEW r, NEW t, Safe(r, t), NEW k \in {"committed", "exploration"}, NEW x \in Values,
           Budget \in Nat
    PROVE  Safe(r, Commit(t, t, t, Event(k, x, "")))
  <1>1. Good(t)
    BY DEF Safe, Evolves
  <1> DEFINE q == Commit(t, t, t, Event(k, x, ""))
  <1>2. Evolves(t, q, {}) /\ (q.ok => t.ok)
    BY <1>1, NoteEvolves, ZenonT(60)
  <1> HIDE DEF q
  <1>3. Safe(r, q)
    BY <1>2, SafeOn
  <1> QED BY <1>3, Zenon DEF q

LEMMA SafeTransition ==
    ASSUME NEW r, NEW t, Safe(r, t), NEW s \in States \ Terminal, Budget \in Nat
    PROVE  Safe(r, Transition(t, s))
  <1>1. Good(t)
    BY DEF Safe, Evolves
  <1> DEFINE q == Transition(t, s)
  <1>2. Evolves(t, q, {}) /\ (q.ok => t.ok)
    BY <1>1, TransitionEvolves, Zenon
  <1> HIDE DEF q
  <1>3. Safe(r, q)
    BY <1>2, SafeOn
  <1> QED BY <1>3 DEF q

\* The settlement of what is awaited.
LEMMA SettlesOwn ==
    ASSUME Legal(at), at.wait, NEW r, NEW t, Evolves(r, t, Extra), NEW status \in Statuses,
           Budget \in Nat
    PROVE  LET q == SettleAs(t, at.stage, status)
           IN  /\ Evolves(r, q, Extra) /\ Evolves(t, q, {IdOf(at)} \cap {"research", "observe"})
               /\ q.ok => IdOf(at) \in Settled(q)
  <1> DEFINE x == IdOf(at)
             X == {x} \cap {"research", "observe"}
             q == Settle(t, x, status)
  <1>1. at.stage \in Asking /\ (at.stage = "step" => at.step <= 2)
    BY DEF Legal
  <1>2. Id(at.stage) = x /\ x \in Lanes
    BY <1>1, IdIs
  <1>3. Good(t)
    BY DEF Evolves
  <1> HIDE DEF x
  <1>4. Evolves(t, q, X) /\ (q.ok => x \in Settled(q))
    BY <1>2, <1>3, SettleGood DEF Settles
  <1>5. Evolves(t, Raise(t), {}) /\ ~Raise(t).ok
    BY <1>3, EvolvesSelf, MarkedEvolves
  <1>6. Evolves(t, Raise(t), X)
    BY <1>5, EvolvesMore
  <1>7. SettleAs(t, at.stage, status) \in {q, Raise(t)}
    BY <1>2, Zenon DEF SettleAs
  <1> HIDE DEF q
  <1>8. ASSUME NEW p, Evolves(t, p, X) PROVE Evolves(r, p, Extra)
    <2>1. Evolves(t, p, Extra)
      BY <1>8 DEF Evolves, Extra
    <2> QED BY <2>1, EvolvesOn
  <1>9. CASE SettleAs(t, at.stage, status) = q
    BY <1>4, <1>8, <1>9, Zenon DEF x
  <1>10. CASE SettleAs(t, at.stage, status) = Raise(t)
    BY <1>5, <1>6, <1>8, <1>10, Zenon DEF x
  <1> QED BY <1>7, <1>9, <1>10

LEMMA SafeSettle ==
    ASSUME NEW r, Ready(r), at.wait, NEW status \in Statuses, Budget \in Nat
    PROVE  Safe(r, SettleAs(r, at.stage, status))
  <1> DEFINE q == SettleAs(r, at.stage, status)
             x == IdOf(at)
  <1>1. Good(r) /\ Legal(at) /\ Held(r, at)
    BY DEF Ready
  <1>2. Evolves(r, r, Extra)
    BY <1>1, EvolvesSelf
  <1>3. /\ Evolves(r, q, Extra) /\ Evolves(r, q, {x} \cap {"research", "observe"})
        /\ q.ok => x \in Settled(q)
    BY <1>1, <1>2, SettlesOwn
  <1> HIDE DEF q
  <1>4. Held(r, at) => Blocked(r) \/ Unsettled(r) \subseteq {x}
    BY DEF Held
  <1> HIDE DEF x
  <1>5. q.ok => Clear(q)
    <2>1. CASE Blocked(r)
      BY <1>3, <2>1, BlockedOn DEF Clear
    <2>2. CASE Unsettled(r) \subseteq {x}
      <3>1. q.ok => Unsettled(q) = {}
        BY <1>3, <2>2 DEF Unsettled, Evolves
      <3> QED BY <3>1 DEF Clear
    <2> QED BY <1>1, <1>4, <2>1, <2>2
  <1>6. Safe(r, q)
    BY <1>3, <1>5 DEF Safe
  <1> QED BY <1>6 DEF q

\* Where a run that has evolved may go on.
LEMMA EvolvesFits ==
    ASSUME NEW r, Ready(r), NEW q, Evolves(r, q, Extra)
    PROVE  Good(q) /\ Open(q) /\ NoRepeat(r, q) /\ (Uncertain(q) => Uncertain(r))
  <1>1. Good(q) /\ Open(q)
    BY OpenOn DEF Ready
  <1>2. Admitted(q) \ Admitted(r) \subseteq Extra /\ (Uncertain(q) => Uncertain(r))
    BY DEF Evolves, Uncertain
  <1>3. Extra \cap Repeating = {}
    BY DEF Extra, Repeating, ToolCalls
  <1>4. NoRepeat(r, q)
    BY <1>2, <1>3, NothingRepeated
  <1> QED BY <1>1, <1>2, <1>4

\* The loop is not entered again, and no tool was awaited.
Moves(s) ==
    /\ at.stage \in PastLoop \cup {"experiment"} => s \in PastLoop
    /\ at.wait => at.stage \notin {"tool", "plan"}

LEMMA SureOn ==
    ASSUME NEW r, Ready(r), NEW q, Evolves(r, q, Extra), NEW a, Moves(a.stage)
    PROVE  Sure(q, a)
  <1>1. Legal(at) /\ Sure(r, at) /\ External \subseteq ToolCalls
    BY DEF Ready
  <1>2. Extra \cap External = {}
    BY <1>1 DEF Extra, ToolCalls
  <1>3. Doubtful(q) \subseteq Doubtful(r) /\ (Uncertain(r) => Uncertain(q))
    BY <1>2, DoubtOn
  <1>4. CASE Uncertain(r)
    BY <1>3, <1>4 DEF Sure
  <1>5. CASE Late(r, at)
    <2>1. a.stage \in PastLoop
      BY <1>5 DEF Late, Moves
    <2> QED BY <2>1, LateIs
  <1>6. CASE Doubtful(r) \subseteq (IF at.wait THEN {IdOf(at)} ELSE {})
    <2>1. Doubtful(r) \subseteq ToolCalls
      BY <1>1 DEF Doubtful
    <2>2. at.wait => IdOf(at) \notin ToolCalls
      <3>1. at.wait => at.stage \in Asking /\ (at.stage = "step" => at.step <= 2)
        BY <1>1 DEF Legal
      <3> QED BY <1>1, <3>1, IdIs DEF Moves
    <2>3. Doubtful(q) = {}
      BY <1>3, <1>6, <2>1, <2>2
    <2> QED BY <2>3 DEF Sure
  <1> QED BY <1>1, <1>4, <1>5, <1>6 DEF Sure

LEMMA PlaceFits ==
    ASSUME NEW r, Ready(r), NEW q, Safe(r, q), NEW a, Legal(a), ~a.wait, a.stage \notin Ended,
           Uncertain(r) => Calm(a), q.ok => Sure(q, a)
    PROVE  Fits(r, R(q, a))
  <1>1. Good(q) /\ Open(q) /\ NoRepeat(r, q) /\ (Uncertain(q) => Uncertain(r))
    BY EvolvesFits DEF Safe
  <1>2. q.ok => Held(q, a)
    BY DEF Safe, Clear, Held
  <1>3. q.ok => Suits(q, a)
    BY <1>1, <1>2 DEF Suits
  <1> QED BY <1>1, <1>3, FitsIs

LEMMA SafeFits ==
    ASSUME NEW r, Ready(r), NEW q, Safe(r, q), NEW s, Onward(s), Uncertain(r) => s \in Quiet, Moves(s)
    PROVE  Fits(r, R(q, To(s)))
  <1>1. Legal(To(s)) /\ To(s).stage = s /\ ~To(s).wait /\ (s \in Quiet => Calm(To(s)))
    BY ToIs DEF Ready
  <1>2. s \notin Ended
    BY DEF Onward
  <1>3. Sure(q, To(s))
    BY <1>1, SureOn DEF Safe
  <1> QED BY <1>1, <1>2, <1>3, PlaceFits, Zenon

LEMMA ActFits ==
    ASSUME NEW r, Ready(r), NEW q, Safe(r, q), at.stage \in {"plan", "trial"}, q.ok => Sure(q, NextAct)
    PROVE  Fits(r, R(q, NextAct))
  <1>1. Legal(at) /\ ~Uncertain(r)
    BY DEF Ready, Calm
  <1>2. Legal(NextAct) /\ NextAct.stage = "act" /\ ~NextAct.wait
    BY <1>1, NextActIs
  <1>3. "act" \notin Ended
    BY DEF Ended
  <1> QED BY <1>1, <1>2, <1>3, PlaceFits

LEMMA RaisedFits ==
    ASSUME NEW r, Ready(r), NEW q, Evolves(r, q, Extra), ~q.ok, NEW a
    PROVE  Fits(r, R(q, a))
  BY EvolvesFits, FitsIs

LEMMA EndsFits ==
    ASSUME NEW r, Ready(r), NEW q, Evolves(r, q, Extra)
    PROVE  Fits(r, R(q, To("cancelled")))
  <1> DEFINE a == To("cancelled")
  <1>1. Onward("cancelled") /\ "cancelled" \in Quiet
    BY StagesAre DEF Onward
  <1>2. Legal(a) /\ a.stage = "cancelled" /\ Calm(a)
    BY <1>1, ToIs, Zenon DEF Ready
  <1> HIDE DEF a
  <1>3. Suits(q, a)
    <2>1. a.stage \in PastLoop
      BY <1>2 DEF PastLoop, Ending
    <2> QED BY <1>2, <2>1, LateIs DEF Suits, Ended, Ending
  <1>4. Fits(r, R(q, a))
    BY <1>3, EvolvesFits, FitsIs
  <1> QED BY <1>4 DEF a

\* Where any safe run may go on.
Goes(r, a) == \A c : Safe(r, c) => Fits(r, R(c, a))

\* The admission of a stage, and its await.
LEMMA AwaitFits ==
    ASSUME NEW r, Ready(r), ~at.wait, at.stage \in Asking, at.stage = "step" => at.step <= 2,
           Uncertain(r) => at.stage \in Harmless, NEW t, Evolves(r, t, {}), Budget \in Nat
    PROVE  /\ Fits(r, R(Admit(t, Id(at.stage)), Await))
           /\ \A a : Goes(r, a) => Fits(r, GuardedAdmit(t, at.stage, a))
  <1> DEFINE x == IdOf(at)
             q == Admit(t, x)
             c == Catch(q, "admission_failed")
  <1>1. Legal(at) /\ Good(r) /\ Open(r) /\ Good(t) /\ Sure(r, at)
    BY DEF Ready, Evolves
  <1>2. /\ Id(at.stage) = x /\ x \in Lanes /\ (at.stage \in Harmless => x \notin Repeating)
        /\ at.stage = "experiment" => x = "experiment"
    BY <1>1, IdIs
  <1>3. Legal(Await) /\ Await.stage = at.stage /\ Await.wait
        /\ (at.stage \in Harmless => Calm(Await)) /\ IdOf(Await) = x
    BY <1>1, AwaitIs
  <1> HIDE DEF x
  <1>4. Evolves(r, q, {x}) /\ (~q.ok => Evolves(r, q, {}))
    <2>1. Evolves(t, q, {x}) /\ (~q.ok => Evolves(t, q, {}))
      BY <1>1, <1>2, AdmitGood
    <2> QED BY <2>1, EvolvesMore, EvolvesOn, Zenon
  <1> HIDE DEF q
  <1>5. ~q.ok => Safe(r, c)
    <2>1. ~q.ok => Evolves(r, q, Extra)
      BY <1>4, EvolvesMore
    <2> QED BY <2>1, SafeBlocker, NamesAre, Zenon
  <1> HIDE DEF c
  <1>6. Good(q) /\ Open(q) /\ (Uncertain(q) => Uncertain(r))
    <2>1. Good(q) /\ Open(q)
      BY <1>1, <1>4, OpenOn
    <2> QED BY <1>4, <2>1 DEF Evolves, Uncertain
  <1>7. Held(q, Await)
    <2>1. Clear(r)
      BY SafeSelf
    <2>2. CASE Blocked(r)
      BY <1>4, <2>2, BlockedOn DEF Held
    <2>3. CASE Unsettled(r) = {}
      <3>1. Unsettled(q) \subseteq {x}
        BY <1>4, <2>3 DEF Unsettled, Evolves
      <3> QED BY <1>3, <3>1, Zenon DEF Held
    <2> QED BY <2>1, <2>2, <2>3 DEF Clear
  <1>8. Uncertain(r) \/ Late(r, at) \/ Doubtful(r) = {}
    BY <1>1 DEF Sure
  <1>9. Sure(q, Await)
    <2>1. /\ Doubtful(q) \subseteq Doubtful(r) \cup ({x} \cap External)
          /\ (Uncertain(r) => Uncertain(q)) /\ (LeftByError(r) => LeftByError(q))
      BY <1>4, DoubtOn
    <2>2. CASE Uncertain(r)
      BY <2>1, <2>2 DEF Sure
    <2>3. CASE Late(r, at)
      BY <1>3, <2>1, <2>3 DEF Sure, Late
    <2>4. CASE Doubtful(r) = {}
      <3>1. Doubtful(q) \subseteq {x}
        BY <2>1, <2>4
      <3> QED BY <1>3, <3>1, Zenon DEF Sure
    <2> QED BY <1>8, <2>2, <2>3, <2>4
  <1>10. NoRepeat(r, q)
    <2> DEFINE new == (Admitted(q) \ Admitted(r)) \cap Repeating
    <2>1. new \subseteq {x} \cap Repeating
      BY <1>4 DEF Evolves
    <2>2. at.stage \in Harmless => new = {}
      BY <1>2, <2>1
    <2>3. Doubtful(r) # {} =>
            new \subseteq IF at.stage = "experiment" /\ LeftByError(r) THEN {"experiment"} ELSE {}
      <3>1. CASE Uncertain(r)
        BY <2>2, <3>1
      <3>2. CASE at.stage \in PastLoop
        <4>1. at.stage \in Harmless
          BY <3>2 DEF PastLoop, Asking, Harmless, Ended, Ending
        <4> QED BY <2>2, <4>1
      <3>3. CASE at.stage = "experiment" /\ LeftByError(r)
        BY <1>2, <2>1, <3>3
      <3> QED BY <1>8, <3>1, <3>2, <3>3 DEF Late
    <2>4. Uncertain(r) => new = {}
      BY <2>2
    <2> QED BY <2>3, <2>4 DEF NoRepeat
  <1>11. Suits(q, Await)
    <2>1. at.stage \notin Ended
      BY StagesAre
    <2> QED BY <1>3, <1>6, <1>7, <1>9, <2>1, Zenon DEF Suits
  <1>12. Fits(r, R(q, Await))
    BY <1>6, <1>10, <1>11, FitsIs, Zenon
  <1>13. ASSUME NEW a, Goes(r, a)
         PROVE  Fits(r, GuardedAdmit(t, at.stage, a))
    <2>1. GuardedAdmit(t, at.stage, a) = IF q.ok THEN R(q, Await) ELSE R(c, a)
      BY <1>2, Zenon DEF GuardedAdmit, Awaiting, q, c
    <2>2. ~q.ok => Fits(r, R(c, a))
      BY <1>5, <1>13 DEF Goes
    <2> QED BY <1>12, <2>1, <2>2, Zenon
  <1>14. R(Admit(t, Id(at.stage)), Await) = R(q, Await)
    BY <1>2 DEF q
  <1> QED BY <1>12, <1>13, <1>14, Zenon

LEMMA GoesIs ==
    ASSUME NEW r, Ready(r), NEW s, Onward(s), Uncertain(r) => s \in Quiet, Moves(s)
    PROVE  Goes(r, To(s))
  BY SafeFits DEF Goes

LEMMA ActGoes ==
    ASSUME NEW r, Ready(r), at.stage \in {"plan", "trial"}, ~at.wait
    PROVE  Goes(r, NextAct)
  <1>1. NextAct.stage = "act"
    BY NextActIs DEF Ready
  <1>2. Moves("act")
    BY DEF Moves, PastLoop, Ended, Ending
  <1>3. ASSUME NEW c, Safe(r, c) PROVE Fits(r, R(c, NextAct))
    <2>1. Sure(c, NextAct)
      BY <1>1, <1>2, <1>3, SureOn DEF Safe
    <2> QED BY <1>3, <2>1, ActFits
  <1> QED BY <1>3 DEF Goes

LEMMA OnwardIs ==
    /\ \A s \in {"research", "records", "browse", "observe", "step", "experiment", "validator",
                 "synthesis", "memory", "archive", "finish"} : Onward(s) /\ s \in Quiet
    /\ \A s \in {"act", "progress", "checkpoint"} : at.step <= 2 => Onward(s)
    /\ "progress" \in Quiet
  BY StagesAre DEF Onward

\* What each stage does up to its await, or to the next stage.
LEMMA PlainBegins ==
    ASSUME NEW r, Ready(r), NEW s \in Plain, at.stage = s, ~at.wait, Budget \in Nat
    PROVE  Fits(r, StageBegin(r, s))
  <1>1. Legal(at) /\ Good(r) /\ (Uncertain(r) => Calm(at))
    BY DEF Ready
  <1>2. s \in DOMAIN Follow /\ s \in Asking
    BY DEF Plain, Follow, Asking
  <1>3. Onward(Follow[s]) /\ (Uncertain(r) => Follow[s] \in Quiet)
    BY <1>1, <1>2, FollowIs, Zenon
  <1>4. Uncertain(r) => s \in Harmless
    BY <1>1 DEF Plain, Calm, Harmless
  <1>5. at.stage # "step"
    BY DEF Plain
  <1>6. Evolves(r, r, {})
    BY <1>1, EvolvesSelf
  <1>a. Moves(Follow[s])
    BY DEF Plain, Moves, PastLoop, Ended, Ending
  <1>7. Fits(r, GuardedAdmit(r, s, To(Follow[s])))
    <2>1. Goes(r, To(Follow[s]))
      BY <1>3, <1>a, GoesIs
    <2> QED BY <1>2, <1>4, <1>5, <1>6, <2>1, AwaitFits
  <1>8. Safe(r, r) /\ Safe(r, RecordBlocker(r, "search_missing"))
    <2>1. Safe(r, r)
      BY SafeSelf
    <2> QED BY <2>1, SafeBlocker, NamesAre, Zenon DEF Safe
  <1> DEFINE q == IF s = "research" THEN RecordBlocker(r, "search_missing") ELSE r
  <1>9. Safe(r, q)
    BY <1>8, Zenon
  <1>10. StageBegin(r, s) \in {GuardedAdmit(r, s, To(Follow[s])), R(q, To(Follow[s]))}
    BY Zenon DEF StageBegin
  <1> HIDE DEF q
  <1>11. Fits(r, R(q, To(Follow[s])))
    BY <1>3, <1>9, <1>a, SafeFits
  <1> QED BY <1>7, <1>10, <1>11, Zenon

LEMMA RecordsBegins ==
    ASSUME NEW r, Ready(r), at.stage = "records", ~at.wait, Budget \in Nat, Explicit \in BOOLEAN
    PROVE  Fits(r, RecordsBegin(r))
  <1> DEFINE q == IF "records" \in Configured THEN Ingest(r, "hypothesis") ELSE r
  <1>1. Safe(r, r)
    BY SafeSelf
  <1>2. Safe(r, q)
    <2>1. "hypothesis" \in Records
      BY DEF Records, Gaps
    <2> QED BY <1>1, <2>1, SafeRecord, Zenon
  <1>3. RecordsBegin(r) = R(q, To("browse"))
    BY DEF RecordsBegin
  <1> HIDE DEF q
  <1>4. Moves("browse")
    BY DEF Moves, PastLoop, Ended, Ending
  <1> QED BY <1>2, <1>3, <1>4, SafeFits, OnwardIs, Zenon

LEMMA StepBegins ==
    ASSUME NEW r, Ready(r), at.stage = "step", ~at.wait, Iterations \in 1 .. 2, Budget \in Nat
    PROVE  Fits(r, StepBegin(r))
  <1>1. Legal(at) /\ Good(r) /\ (Uncertain(r) => Calm(at))
    BY DEF Ready
  <1>2. at.stage \in Asking /\ at.attempt \in 1 .. 2 /\ at.step \in 1 .. 3
    BY <1>1, PlacesAre DEF Asking
  <1>3. Safe(r, r) /\ Evolves(r, r, {}) /\ Evolves(r, r, Extra)
    BY <1>1, SafeSelf, EvolvesSelf
  <1>a. Moves("experiment")
    BY DEF Moves, PastLoop, Ended, Ending
  <1>4. CASE at.attempt = 2
    <2>1. at.step <= 2 /\ ~Uncertain(r)
      BY <1>1, <1>4 DEF Legal, Calm
    <2>0. at.attempt # 1
      BY <1>4
    <2>2. StepBegin(r) = R(Admit(r, Id(at.stage)), Await)
      BY <1>4, <2>0, Zenon DEF StepBegin
    <2> QED BY <1>2, <1>3, <2>1, <2>2, AwaitFits
  <1>5. CASE at.attempt = 1
    <2>0. at.attempt # 2
      BY <1>5
    <2>1. CASE at.step > Iterations
      <3>0. ~(at.step <= Iterations)
        BY <1>2, <2>1
      <3>1. StepBegin(r) = R(r, To("experiment"))
        BY <1>5, <2>0, <2>1, <3>0, Zenon DEF StepBegin
      <3> QED BY <1>3, <1>a, <3>1, SafeFits, OnwardIs, Zenon
    <2>2. CASE ~(at.step > Iterations) /\ Uncertain(r)
      <3>0. at.step <= Iterations
        BY <1>2, <2>2
      <3>1. StepBegin(r) = R(RecordBlocker(r, "controller_suppressed"), To("experiment"))
        BY <1>5, <2>0, <2>2, <3>0, Zenon DEF StepBegin
      <3>2. Safe(r, RecordBlocker(r, "controller_suppressed"))
        BY <1>3, SafeBlocker, NamesAre, Zenon
      <3> QED BY <1>a, <3>1, <3>2, SafeFits, OnwardIs, Zenon
    <2>3. CASE ~(at.step > Iterations) /\ ~Uncertain(r)
      <3>0. at.step <= Iterations /\ at.step <= 2
        BY <1>2, <2>3
      <3> DEFINE e == Commit(r, r, r, Event("exploration", at.step, ""))
                 c == Catch(e, "exploration_failed")
      <3>1. StepBegin(r) = R(r, To("experiment")) \/ StepBegin(r) = Explored(e)
        BY <1>5, <2>0, <2>3, <3>0, Zenon DEF StepBegin
      <3>2. Evolves(r, e, {})
        <4>1. PICK k, x : k = "exploration" /\ x = at.step
          OBVIOUS
        <4>2. k \in {"committed", "exploration"} /\ x \in Values
          <5>1. k \in {"committed", "exploration"}
            BY <4>1
          <5>2. x \in Nat
            BY <1>2, <4>1
          <5> QED BY <5>1, <5>2, Zenon DEF Values
        <4>3. Evolves(r, Commit(r, r, r, Event(k, x, "")), {})
          BY <1>1, <4>2, NoteEvolves, Zenon
        <4> QED BY <4>1, <4>3, Zenon
      <3>3. Explored(e) = IF e.ok THEN R(Admit(e, Id(at.stage)), Await) ELSE R(c, To("experiment"))
        BY Zenon DEF Explored
      <3> HIDE DEF e
      <3>4. Fits(r, R(Admit(e, Id(at.stage)), Await))
        BY <1>2, <2>3, <3>0, <3>2, AwaitFits
      <3>5. Safe(r, c)
        <4>1. Evolves(r, e, Extra)
          BY <3>2, EvolvesMore
        <4> QED BY <4>1, SafeBlocker, NamesAre, Zenon
      <3> HIDE DEF c
      <3>6. Fits(r, R(c, To("experiment"))) /\ Fits(r, R(r, To("experiment")))
        BY <1>3, <1>a, <3>5, SafeFits, OnwardIs, Zenon
      <3> QED BY <3>1, <3>3, <3>4, <3>6, Zenon
    <2> QED BY <2>1, <2>2, <2>3
  <1> QED BY <1>2, <1>4, <1>5

LEMMA RanFits ==
    ASSUME NEW r, NEW q, NEW a, Fits(r, R(q, a))
    PROVE  Fits(r, [R(q, a) EXCEPT !.at.ran = TRUE])
  <1> DEFINE b == [a EXCEPT !.ran = TRUE]
  <1>1. [R(q, a) EXCEPT !.at.ran = TRUE] = R(q, b)
    <2>1. PICK o : o = R(q, a)
      BY Zenon
    <2>2. o = [r |-> q, at |-> a] /\ o.at = a
      BY <2>1 DEF R
    <2>3. [o EXCEPT !.at.ran = TRUE] = [o EXCEPT !.at = [o.at EXCEPT !.ran = TRUE]]
      BY Zenon
    <2>4. [o EXCEPT !.at.ran = TRUE] = [o EXCEPT !.at = b]
      BY <2>2, <2>3, Zenon
    <2> HIDE DEF b
    <2>5. [o EXCEPT !.at = b] = [r |-> q, at |-> b]
      BY <2>2
    <2> QED BY <2>1, <2>4, <2>5, Zenon DEF R
  <1>2. Good(q) /\ Open(q) /\ NoRepeat(r, q) /\ (q.ok => Suits(q, a))
    <2>1. R(q, a).r = q /\ R(q, a).at = a
      BY FitsIs
    <2> QED BY <2>1, Zenon DEF Fits
  <1>3. ASSUME Suits(q, a) PROVE Suits(q, b)
    <2>1. Legal(a)
      BY <1>3 DEF Suits
    <2>2. /\ b \in Places /\ b.stage = a.stage /\ b.wait = a.wait
          /\ b.attempt = a.attempt /\ b.step = a.step /\ b.action = a.action
      BY <2>1 DEF Legal, Places
    <2> HIDE DEF b
    <2>3. Legal(b) /\ (Calm(a) => Calm(b)) /\ IdOf(b) = IdOf(a)
      <3>1. Legal(b)
        BY <2>1, <2>2 DEF Legal
      <3>2. Calm(a) => Calm(b)
        BY <2>2 DEF Calm
      <3>3. IdOf(b) = IdOf(a)
        BY <2>2, Zenon DEF IdOf
      <3> QED BY <3>1, <3>2, <3>3
    <2>4. (Held(q, a) => Held(q, b)) /\ (Sure(q, a) => Sure(q, b))
      BY <2>2, <2>3, Zenon DEF Held, Sure, Late
    <2> QED BY <1>3, <2>2, <2>3, <2>4, Zenon DEF Suits
  <1> HIDE DEF b
  <1>4. Fits(r, R(q, b))
    BY <1>2, <1>3, FitsIs
  <1> QED BY <1>1, <1>4

\* The controller's own actions.
LEMMA ActionBegins ==
    ASSUME NEW r, Ready(r), NEW s \in {"plan", "trial"}, at.stage = s, ~at.wait, Budget \in Nat
    PROVE  /\ Fits(r, GuardedAdmit(r, s, NextAct))
           /\ Fits(r, [GuardedAdmit(r, s, NextAct) EXCEPT !.at.ran = TRUE])
  <1>1. Legal(at) /\ Good(r) /\ (Uncertain(r) => Calm(at))
    BY DEF Ready
  <1>2. ~Uncertain(r) /\ s \in Asking /\ s # "step"
    BY <1>1 DEF Calm, Asking
  <1>3. Goes(r, NextAct)
    BY ActGoes
  <1>4. Evolves(r, r, {})
    BY <1>1, EvolvesSelf
  <1>5. Fits(r, GuardedAdmit(r, s, NextAct))
    BY <1>2, <1>3, <1>4, AwaitFits
  <1>6. PICK q, a : GuardedAdmit(r, s, NextAct) = R(q, a)
    BY Zenon DEF GuardedAdmit, Awaiting
  <1> QED BY <1>5, <1>6, RanFits

LEMMA ProgressBegins ==
    ASSUME NEW r, Ready(r), at.stage = "progress", ~at.wait, NEW b \in BOOLEAN, Budget \in Nat
    PROVE  Fits(r, ProgressBegin(r, b))
  <1>1. Safe(r, r) /\ Evolves(r, r, Extra)
    BY SafeSelf DEF Safe
  <1>2. /\ Safe(r, RecordBlocker(r, "controller_suppressed"))
        /\ Safe(r, RecordBlocker(r, "no_progress"))
    BY <1>1, SafeBlocker, NamesAre, Zenon
  <1>3. /\ Fits(r, R(RecordBlocker(r, "controller_suppressed"), To("experiment")))
        /\ Fits(r, R(RecordBlocker(r, "no_progress"), To("experiment")))
    <2>1. Moves("experiment")
      BY DEF Moves, PastLoop, Ended, Ending
    <2> QED BY <1>2, <2>1, SafeFits, OnwardIs, Zenon
  <1>4. ASSUME ~Uncertain(r) PROVE Fits(r, R(r, To("checkpoint")))
    <2>1. at.step <= 2 /\ Moves("checkpoint")
      BY DEF Ready, Legal, Moves, PastLoop, Ended, Ending
    <2> QED BY <1>1, <1>4, <2>1, SafeFits, OnwardIs, Zenon
  <1> QED BY <1>3, <1>4, Zenon DEF ProgressBegin

LEMMA CheckpointBegins ==
    ASSUME NEW r, Ready(r), at.stage = "checkpoint", ~at.wait, Budget \in Nat
    PROVE  Fits(r, CheckpointBegin(r))
  <1> DEFINE a == [To("step") EXCEPT !.step = @ + 1]
  <1>1. Legal(at) /\ Good(r) /\ (Uncertain(r) => Calm(at))
    BY DEF Ready
  <1>2. at.step <= 2 /\ ~Uncertain(r) /\ at.stage \in Asking /\ at.stage # "step"
    BY <1>1 DEF Legal, Calm, Asking
  <1>3. Legal(a) /\ a.stage = "step" /\ ~a.wait /\ Calm(a)
    BY <1>1, <1>2, StepIs
  <1>4. CheckpointBegin(r) \in {GuardedAdmit(r, at.stage, To("experiment")), R(r, a)}
    BY DEF CheckpointBegin
  <1> HIDE DEF a
  <1>5. "step" \notin Ended
    BY DEF Ended
  <1>a. Moves("step") /\ Moves("experiment")
    BY DEF Moves, PastLoop, Ended, Ending
  <1>6. Fits(r, R(r, a))
    <2>1. Safe(r, r)
      BY SafeSelf
    <2>2. Sure(r, a)
      BY <1>3, <1>a, <2>1, SureOn DEF Safe
    <2> QED BY <1>3, <1>5, <2>1, <2>2, PlaceFits
  <1>7. Evolves(r, r, {})
    BY <1>1, EvolvesSelf
  <1>8. Goes(r, To("experiment"))
    BY <1>2, <1>a, OnwardIs, GoesIs, Zenon
  <1>9. Fits(r, GuardedAdmit(r, at.stage, To("experiment")))
    BY <1>2, <1>7, <1>8, AwaitFits
  <1> QED BY <1>4, <1>6, <1>9, Zenon

LEMMA ExperimentBegins ==
    ASSUME NEW r, Ready(r), at.stage = "experiment", ~at.wait, Budget \in Nat, Explicit \in BOOLEAN
    PROVE  Fits(r, ExperimentBegin(r))
  <1>1. Legal(at) /\ Good(r)
    BY DEF Ready
  <1>2. Safe(r, r) /\ Evolves(r, r, Extra) /\ Evolves(r, r, {})
    BY <1>1, SafeSelf, EvolvesSelf
  <1>a. Moves("validator")
    BY DEF Moves, PastLoop, Ended, Ending
  <1>3. /\ Safe(r, RecordBlocker(r, "experiment_suppressed"))
        /\ Safe(r, RecordBlocker(r, "runner_missing"))
    BY <1>2, SafeBlocker, NamesAre, Zenon
  <1>4. /\ Fits(r, R(RecordBlocker(r, "experiment_suppressed"), To("validator")))
        /\ Fits(r, R(RecordBlocker(r, "runner_missing"), To("validator")))
        /\ Fits(r, R(r, To("validator")))
    BY <1>2, <1>3, <1>a, SafeFits, OnwardIs, Zenon
  <1> DEFINE x == IF "experiment" \in r.have THEN r ELSE AddRecord(r, "experiment")
             c == IF Native(r, x) THEN x ELSE Catch(x, "spec_invalid")
  <1>5. Evolves(r, x, {})
    <2>1. "experiment" \in Records
      BY DEF Records, Gaps
    <2>2. Evolves(r, AddRecord(r, "experiment"), {})
      BY <1>1, <2>1, AddRecordGood, Zenon
    <2> QED BY <1>2, <2>2, Zenon
  <1>6. Specified(x, r) = IF x.ok THEN GuardedAdmit(x, at.stage, To("validator"))
                          ELSE R(c, To("validator"))
    BY DEF Specified
  <1>7. ExperimentBegin(r) = Specified(x, r) \/ ExperimentBegin(r) = R(r, To("validator"))
        \/ ExperimentBegin(r) = R(RecordBlocker(r, "experiment_suppressed"), To("validator"))
        \/ ExperimentBegin(r) = R(RecordBlocker(r, "runner_missing"), To("validator"))
    BY Zenon DEF ExperimentBegin
  <1>8. ASSUME ~Uncertain(r), x.ok
        PROVE  Fits(r, GuardedAdmit(x, at.stage, To("validator")))
    <2>1. Goes(r, To("validator"))
      BY <1>8, <1>a, OnwardIs, GoesIs, Zenon
    <2>2. at.stage \in Asking /\ at.stage # "step"
      BY DEF Asking
    <2> HIDE DEF x
    <2> QED BY <1>5, <1>8, <2>1, <2>2, AwaitFits
  <1>9. ASSUME ~x.ok PROVE Fits(r, R(c, To("validator")))
    <2>1. Evolves(r, x, Extra)
      BY <1>5, EvolvesMore
    <2> HIDE DEF x
    <2>2. Safe(r, Catch(x, "spec_invalid")) /\ Safe(r, x)
      BY <1>9, <2>1, SafeBlocker, NamesAre, Zenon DEF Safe
    <2>3. Safe(r, c)
      BY <2>2, Zenon
    <2> HIDE DEF c
    <2> QED BY <1>a, <2>3, SafeFits, OnwardIs, Zenon
  <1>10. Uncertain(r) =>
           ExperimentBegin(r) = R(RecordBlocker(r, "experiment_suppressed"), To("validator"))
    BY Zenon DEF ExperimentBegin
  <1> HIDE DEF x, c
  <1> QED BY <1>4, <1>6, <1>7, <1>8, <1>9, <1>10, Zenon

\* The benchmark is admitted, evaluated and settled without an await.
LEMMA ValidatorBegins ==
    ASSUME NEW r, Ready(r), at.stage = "validator", ~at.wait, Budget \in Nat,
           NEW out \in {"SUCCESS", "REJECTED", "RAISED"}
    PROVE  Fits(r, ValidatorBegin(r, out))
  <1> DEFINE a == Admit(r, "validator")
             t(s) == Settle(a, "validator", s)
  <1>1. Good(r) /\ Clear(r) /\ Safe(r, r)
    BY SafeSelf DEF Ready
  <1>2. PICK x : x = "validator"
    OBVIOUS
  <1>3. x \in Lanes /\ x \in Extra /\ x \notin {"research", "observe"}
    BY <1>2 DEF Lanes, ToolLane, Extra
  <1>4. Evolves(r, a, {x})
    BY <1>1, <1>2, <1>3, AdmitGood, Zenon
  <1> HIDE DEF a
  <1>5. Evolves(r, a, Extra)
    BY <1>3, <1>4 DEF Evolves
  <1>6. ASSUME NEW s \in Statuses
        PROVE  Evolves(a, t(s), {}) /\ (t(s).ok => x \in Settled(t(s)))
    <2>1. Good(a)
      BY <1>4 DEF Evolves
    <2>2. Settles(a, x, Settle(a, x, s), {x} \cap {"research", "observe"})
      BY <1>3, <2>1, SettleGood
    <2>3. {x} \cap {"research", "observe"} = {}
      BY <1>3
    <2> QED BY <1>2, <2>2, <2>3, Zenon DEF Settles
  <1>7. ASSUME NEW s \in Statuses PROVE Safe(r, t(s))
    <2> DEFINE q == t(s)
    <2>1. Evolves(a, q, {}) /\ (q.ok => x \in Settled(q))
      BY <1>6
    <2> HIDE DEF q
    <2>2. Evolves(r, q, Extra) /\ Evolves(r, q, {x})
      BY <1>4, <1>5, <2>1, EvolvesMore, EvolvesOn, Zenon
    <2>3. q.ok => Clear(q)
      <3>1. CASE Blocked(r)
        BY <2>2, <3>1, BlockedOn DEF Clear
      <3>2. CASE Unsettled(r) = {}
        BY <2>1, <2>2, <3>2 DEF Unsettled, Evolves, Clear
      <3> QED BY <1>1, <3>1, <3>2 DEF Clear
    <2>4. Safe(r, q)
      BY <2>2, <2>3 DEF Safe
    <2> QED BY <2>4 DEF q
  <1>8. /\ "REJECTED" \in Statuses /\ (out # "RAISED" => out \in Statuses)
        /\ "benchmark_invalid" \in Names /\ "benchmark_rejected" \in Names
    BY NamesAre DEF Statuses
  <1>9. Safe(r, Catch(t("REJECTED"), "benchmark_invalid"))
    BY <1>7, <1>8, SafeBlocker, Zenon DEF Safe
  <1>10. ASSUME out \in Statuses PROVE Safe(r, Evaluated(t(out), out))
    <2>1. Safe(r, t(out))
      BY <1>7, <1>10
    <2> DEFINE e == Commit(t(out), t(out), t(out), Event("committed", "validator", ""))
    <2>2. Safe(r, e)
      <3>1. PICK k : k = "committed"
        OBVIOUS
      <3>2. k \in {"committed", "exploration"}
        BY <3>1
      <3>3. x \in Values
        BY <1>3, Zenon DEF Values
      <3>4. Safe(r, Commit(t(out), t(out), t(out), Event(k, x, "")))
        BY <2>1, <3>2, <3>3, SafeNote, Zenon
      <3> QED BY <1>2, <3>1, <3>4, Zenon
    <2>3. Evaluated(t(out), out) \in {e, RecordBlocker(e, "benchmark_rejected")}
      BY Zenon DEF Evaluated, Ranked
    <2> HIDE DEF e
    <2>4. Safe(r, RecordBlocker(e, "benchmark_rejected"))
      BY <1>8, <2>2, SafeBlocker, Zenon DEF Safe
    <2> QED BY <2>2, <2>3, <2>4, Zenon
  <1>11. Safe(r, ValidatorAdmitted(a, out))
    <2>1. ~a.ok => ValidatorAdmitted(a, out) = a
      BY Zenon DEF ValidatorAdmitted
    <2>2. a.ok /\ out = "RAISED" =>
            ValidatorAdmitted(a, out) = Catch(t("REJECTED"), "benchmark_invalid")
      BY Zenon DEF ValidatorAdmitted
    <2>3. a.ok /\ out # "RAISED" => ValidatorAdmitted(a, out) = Evaluated(t(out), out)
      BY Zenon DEF ValidatorAdmitted
    <2>4. ~a.ok => Safe(r, a)
      BY <1>5 DEF Safe
    <2> HIDE DEF t
    <2> QED BY <1>8, <1>9, <1>10, <2>1, <2>2, <2>3, <2>4, Zenon
  <1> DEFINE q == IF "validator" \in Configured THEN ValidatorAdmitted(a, out) ELSE r
  <1>12. ValidatorBegin(r, out) = R(q, To("synthesis"))
    BY DEF ValidatorBegin, a
  <1>13. Safe(r, q)
    BY <1>1, <1>11, Zenon
  <1> HIDE DEF q
  <1>14. Moves("synthesis")
    BY DEF Moves, PastLoop, Ended, Ending
  <1> QED BY <1>12, <1>13, <1>14, SafeFits, OnwardIs, Zenon

LEMMA SynthesisBegins ==
    ASSUME NEW r, Ready(r), at.stage = "synthesis", ~at.wait, Budget \in Nat
    PROVE  Fits(r, SynthesisBegin(r))
  <1> DEFINE d == IF at.attempt = 1 THEN Dossier(r, FALSE) ELSE r
  <1>1. Good(r)
    BY DEF Ready
  <1>2. Evolves(r, d, {})
    <2>1. Evolves(r, r, {})
      BY <1>1, EvolvesSelf
    <2>2. PICK b : b = FALSE
      OBVIOUS
    <2>3. Evolves(r, Dossier(r, b), {})
      <3>1. b \in BOOLEAN /\ ~b
        BY <2>2
      <3> QED BY <1>1, <3>1, DossierGood, Zenon
    <2> QED BY <2>1, <2>2, <2>3, Zenon
  <1>3. SynthesisBegin(r) = IF d.ok THEN R(Admit(d, Id(at.stage)), Await) ELSE R(d, at)
    BY DEF SynthesisBegin, Summarized
  <1> HIDE DEF d
  <1>4. at.stage \in Asking /\ at.stage \in Harmless /\ at.stage # "step"
    BY DEF Asking, Harmless
  <1>5. Fits(r, R(Admit(d, Id(at.stage)), Await))
    BY <1>2, <1>4, AwaitFits
  <1>6. ~d.ok => Fits(r, R(d, at))
    BY <1>2, EvolvesMore, RaisedFits, Zenon
  <1> QED BY <1>3, <1>5, <1>6, Zenon

LEMMA MemoryBegins ==
    ASSUME NEW r, Ready(r), at.stage = "memory", ~at.wait, Budget \in Nat
    PROVE  Fits(r, MemoryBegin(r))
  <1> DEFINE q == IF Required THEN RecordBlocker(r, "effect_missing") ELSE r
  <1>1. Safe(r, r) /\ Evolves(r, r, Extra) /\ Evolves(r, r, {})
    BY SafeSelf, EvolvesSelf DEF Ready
  <1>2. Safe(r, q)
    BY <1>1, SafeBlocker, NamesAre, Zenon
  <1>3. MemoryBegin(r) \in {GuardedAdmit(r, at.stage, To("archive")), R(q, To("archive"))}
    BY DEF MemoryBegin
  <1> HIDE DEF q
  <1>4. at.stage \in Asking /\ at.stage \in Harmless /\ at.stage # "step"
    BY DEF Asking, Harmless
  <1>5. Onward("archive") /\ "archive" \in Quiet /\ Moves("archive")
    BY OnwardIs DEF Moves, PastLoop, Ended, Ending
  <1>6. Fits(r, GuardedAdmit(r, at.stage, To("archive")))
    <2>1. Goes(r, To("archive"))
      BY <1>5, GoesIs
    <2> QED BY <1>1, <1>4, <2>1, AwaitFits
  <1>7. Fits(r, R(q, To("archive")))
    BY <1>2, <1>5, SafeFits
  <1> QED BY <1>3, <1>6, <1>7, Zenon

\* A replay archive that cannot be written leaves a blocker.
LEMMA ArchiveBegins ==
    ASSUME NEW r, Ready(r), at.stage = "archive", ~at.wait, Budget \in Nat
    PROVE  Fits(r, R(RecordBlocker(r, "archive_failed"), To("finish")))
  <1>1. Evolves(r, r, Extra)
    BY SafeSelf DEF Safe
  <1>2. Safe(r, RecordBlocker(r, "archive_failed"))
    BY <1>1, SafeBlocker, NamesAre, Zenon
  <1>3. Moves("finish")
    BY DEF Moves, PastLoop, Ended, Ending
  <1> QED BY <1>2, <1>3, SafeFits, OnwardIs, Zenon

\* What each stage does when its adapter has answered.
LEMMA RescueEvolves ==
    ASSUME NEW r, Ready(r), at.wait, NEW t, Evolves(r, t, Extra), NEW out, Budget \in Nat
    PROVE  Evolves(r, Rescue(t, at.stage, out), Extra)
  <1> DEFINE u == [t EXCEPT !.ok = TRUE]
             v == SettleAs(u, at.stage, "REJECTED")
  <1>1. Evolves(r, u, Extra)
    <2>1. 0 \in Nat
      OBVIOUS
    <2> QED BY <2>1, MarkedEvolves, Zenon
  <1>2. /\ Legal(at) /\ "REJECTED" \in Statuses
        /\ "settlement_failed" \in Names
    BY NamesAre DEF Statuses, Ready
  <1> HIDE DEF u
  <1>3. Evolves(r, v, Extra)
    BY <1>1, <1>2, SettlesOwn, Zenon
  <1> HIDE DEF v
  <1>4. Evolves(r, OrCatch(v, "settlement_failed"), Extra)
    BY <1>2, <1>3, CatchTells, Zenon
  <1>5. Evolves(r, Catch(t, "settlement_failed"), Extra)
    BY <1>2, CatchTells, Zenon DEF Tells
  <1> QED BY <1>4, <1>5, Zenon DEF Rescue, GuardedSettle, u, v

LEMMA PlainReturns ==
    ASSUME NEW r, Ready(r), NEW s \in Plain \ {"tool"}, at.stage = s, at.wait, NEW out \in Outcomes,
           Budget \in Nat, Explicit \in BOOLEAN
    PROVE  Fits(r, StageReturn(r, s, out))
  <1> DEFINE t == SettleAs(r, s, out)
             q == StageSettled(t, s, out)
  <1>1. out \in Statuses /\ "stage_failed" \in Names /\ "source" \in Records
    BY NamesAre DEF Outcomes, Statuses, Records, Gaps
  <1>2. Safe(r, t)
    BY <1>1, SafeSettle
  <1>3. StageReturn(r, s, out) = R(q, To(Follow[s]))
    BY DEF StageReturn
  <1> HIDE DEF t
  <1>4. Evolves(r, t, Extra)
    BY <1>2 DEF Safe
  <1>5. Safe(r, RecordBlocker(Rescue(t, s, out), "stage_failed"))
    BY <1>1, <1>4, RescueEvolves, SafeBlocker, Zenon
  <1>6. Safe(r, OrCatch(AddRecord(t, "source"), "stage_failed"))
    BY <1>1, <1>2, SafeRecord, SafeOrCatch, Zenon
  <1>7. Safe(r, RecordBlocker(t, "stage_failed"))
    BY <1>1, <1>4, SafeBlocker, Zenon
  <1>8. q \in {RecordBlocker(Rescue(t, s, out), "stage_failed"), t,
               OrCatch(AddRecord(t, "source"), "stage_failed"), RecordBlocker(t, "stage_failed")}
    BY Zenon DEF StageSettled
  <1> HIDE DEF q
  <1>9. Safe(r, q)
    BY <1>2, <1>5, <1>6, <1>7, <1>8, Zenon
  <1>10. Onward(Follow[s]) /\ (Uncertain(r) => Follow[s] \in Quiet)
    <2>1. s \in DOMAIN Follow
      BY DEF Plain, Follow
    <2> QED BY <2>1, FollowIs, Zenon DEF Ready
  <1>11. Moves(Follow[s])
    BY DEF Plain, Moves, PastLoop, Ended, Ending
  <1> QED BY <1>3, <1>9, <1>10, <1>11, SafeFits, Zenon

LEMMA InjectedReturns ==
    ASSUME NEW r, Ready(r), at.stage = "observe", at.wait, Budget \in Nat
    PROVE  Fits(r, ObserveInjected(r))
  <1> DEFINE b == RecordBlocker(r, "prompt_injection")
             t == SettleAs(b, "observe", "REJECTED")
             c == Catch(b, "stage_failed")
             v == RecordBlocker(Rescue(t, "observe", "REJECTED"), "stage_failed")
             q == InjectedBlocked(b)
  <1>1. Good(r) /\ Legal(at)
    BY DEF Ready
  <1>2. "stage_failed" \in Names /\ "prompt_injection" \in Names /\ "REJECTED" \in Statuses
    BY NamesAre DEF Statuses
  <1>3. Evolves(r, b, Extra) /\ (b.ok => Blocked(b))
    BY <1>1, <1>2, EvolvesSelf, BlockerTells, Zenon DEF Tells
  <1>4. q = IF b.ok THEN (IF t.ok THEN t ELSE v) ELSE c
    BY DEF InjectedBlocked, InjectedSettled
  <1> HIDE DEF b
  <1>5. Safe(r, c)
    BY <1>2, <1>3, SafeBlocker, Zenon
  <1>6. Evolves(r, t, Extra) /\ Evolves(b, t, {IdOf(at)} \cap {"research", "observe"})
    BY <1>1, <1>2, <1>3, SettlesOwn, Zenon
  <1> HIDE DEF t
  <1>7. b.ok => Safe(r, t)
    BY <1>3, <1>6, BlockedOn, Zenon DEF Safe, Clear
  <1>8. Safe(r, v)
    BY <1>2, <1>6, RescueEvolves, SafeBlocker, Zenon
  <1> HIDE DEF c, v
  <1>9. Safe(r, q)
    BY <1>4, <1>5, <1>7, <1>8, Zenon
  <1>10. ObserveInjected(r) = R(q, To("step"))
    BY DEF ObserveInjected, Follow, b
  <1> HIDE DEF q
  <1>11. Moves("step")
    BY DEF Moves, PastLoop, Ended, Ending
  <1> QED BY <1>9, <1>10, <1>11, SafeFits, OnwardIs, Zenon

LEMMA UnknownIs ==
    /\ "unknown_outcome" \in Blockers /\ "unknown_outcome" # "paused_by_operator"
  BY DEF Blockers

\* An external tool that did not answer is not tried again, and its outcome is unknown.
LEMMA UnknownOutcomeFits ==
    ASSUME NEW r, Ready(r), NEW t, Evolves(r, t, Extra), NEW s, Onward(s), s \in Quiet, Budget \in Nat
    PROVE  Fits(r, R(UnknownOutcome(t), To(s)))
  <1> DEFINE u == OrCatch(t, "settlement_failed")
             q == RecordBlocker(u, "unknown_outcome")
  <1>1. Evolves(r, u, Extra)
    BY CatchTells, NamesAre, Zenon
  <1>2. UnknownOutcome(t) = q
    BY Zenon DEF UnknownOutcome
  <1> HIDE DEF u
  <1>3. Good(u) /\ Open(u)
    BY <1>1, OpenOn DEF Ready
  <1>4. PICK b, e : b = "unknown_outcome" /\ e = Event("blocker", b, "")
    BY Zenon
  <1>5. b \in Blockers /\ b # "paused_by_operator" /\ e.k = "blocker"
    BY <1>4, UnknownIs, BlockerEvent, Zenon
  <1>6. /\ Good(q) /\ Keeps(u, e, q)
        /\ q.ok => q.blockers = u.blockers \cup {b}
    BY <1>3, <1>4, <1>5, RecordBlockerGood, Zenon
  <1> HIDE DEF q
  <1>7. Open(q) /\ Admitted(q) = Admitted(u)
    BY <1>3, <1>5, <1>6 DEF Keeps, Open
  <1>8. q.ok => Blocked(q) /\ Uncertain(q)
    BY <1>4, <1>5, <1>6 DEF Blocked, Uncertain
  <1>9. NoRepeat(r, q)
    <2>1. (Admitted(q) \ Admitted(r)) \subseteq Extra
      BY <1>1, <1>7 DEF Evolves
    <2>2. Extra \cap Repeating = {}
      BY DEF Extra, Repeating, ToolCalls
    <2> QED BY <2>1, <2>2, NothingRepeated
  <1>10. Legal(To(s)) /\ To(s).stage = s /\ ~To(s).wait /\ Calm(To(s))
    BY ToIs DEF Ready
  <1>11. q.ok => Suits(q, To(s))
    BY <1>8, <1>10, Zenon DEF Suits, Held, Onward, Sure
  <1>12. Fits(r, R(q, To(s)))
    BY <1>6, <1>7, <1>9, <1>11, FitsIs, Zenon
  <1> QED BY <1>2, <1>12

\* A tool call is tried again, or followed by the next action, only when it succeeded or has
\* no effect outside the safe classes.
LEMMA ToolReturns ==
    ASSUME NEW r, Ready(r), NEW s \in {"tool", "plan"}, at.stage = s, at.wait, NEW out \in Outcomes,
           MaxAttempts \in 1 .. 2, Budget \in Nat
    PROVE  Fits(r, ToolReturn(r, s, out))
  <1> DEFINE t == SettleAs(r, s, out)
             c == Catch(t, "settlement_failed")
             d == RecordBlocker(t, "tool_failed")
             x == IdOf(at)
  <1>1. /\ out \in Statuses /\ "settlement_failed" \in Names /\ "tool_failed" \in Names
    BY NamesAre DEF Outcomes, Statuses
  <1>2. Legal(at) /\ ~Uncertain(r) /\ Good(r) /\ Sure(r, at) /\ External \subseteq ToolCalls
    BY DEF Ready, Calm
  <1>3. Onward(Follow[s]) /\ Follow[s] \in Quiet
    <2>1. s \in DOMAIN Follow
      BY DEF Follow
    <2> QED BY <1>2, <2>1, FollowIs, Zenon
  <1>4. Safe(r, t)
    BY <1>1, SafeSettle
  <1>5. Id(s) = x /\ x \in ToolCalls
    <2>1. at.stage \in Asking /\ at.stage # "step"
      BY DEF Asking
    <2> QED BY <1>2, <2>1, IdIs
  <1>6. Doubtful(r) \subseteq {x}
    <2>1. ~Late(r, at)
      BY DEF Late, PastLoop, Ended, Ending
    <2> QED BY <1>2, <2>1, Zenon DEF Sure
  <1>7. out = "SUCCESS" /\ t.ok => x \in Succeeded(t)
    <2>1. x \in ToolLane /\ s # "skill"
      BY <1>5 DEF ToolLane
    <2>2. t = Settle(r, x, out)
      BY <1>5, <2>1, Zenon DEF SettleAs
    <2> QED BY <1>2, <2>1, <2>2, SettleSucceeds
  <1>8. /\ t.ok /\ out = "SUCCESS" => ToolReturn(r, s, out) = R(t, After(s))
        /\ x \in External /\ ~(t.ok /\ out = "SUCCESS") =>
             ToolReturn(r, s, out) = R(UnknownOutcome(t), To(Follow[s]))
        /\ x \notin External /\ ~(t.ok /\ out = "SUCCESS") =>
             \/ ToolReturn(r, s, out) \in {R(c, After(s)), R(d, After(s))}
             \/ at.attempt < MaxAttempts /\ ToolReturn(r, s, out) = R(t, Again)
    BY <1>5, Zenon DEF ToolReturn, ToolSettled
  <1> HIDE DEF t
  <1>9. Safe(r, c) /\ Safe(r, d)
    BY <1>1, <1>4, SafeBlocker, Zenon DEF Safe
  <1> HIDE DEF c, d, x
  <1>10. ASSUME NEW q, Safe(r, q), Doubtful(q) = {} PROVE Fits(r, R(q, After(s)))
    <2>1. ASSUME NEW a PROVE Sure(q, a)
      BY <1>10 DEF Sure
    <2>2. CASE s = "plan"
      <3>1. After(s) = NextAct
        BY <2>2 DEF After
      <3> QED BY <1>10, <2>1, <2>2, <3>1, ActFits
    <2>3. CASE s = "tool"
      <3>1. After(s) = To(Follow[s])
        BY <2>3 DEF After
      <3>2. Legal(To(Follow[s])) /\ To(Follow[s]).stage = Follow[s] /\ ~To(Follow[s]).wait
        BY <1>2, <1>3, ToIs
      <3>3. Follow[s] \notin Ended
        BY <1>3 DEF Onward
      <3>4. Fits(r, R(q, To(Follow[s])))
        BY <1>2, <1>10, <2>1, <3>2, <3>3, PlaceFits
      <3> QED BY <3>1, <3>4
    <2> QED BY <2>2, <2>3
  <1>11. ASSUME NEW q, Evolves(r, q, Extra), x \notin External PROVE Doubtful(q) = {}
    <2>1. Doubtful(q) \subseteq Doubtful(r) \cup (Extra \cap External)
      BY <1>11, DoubtOn
    <2>2. Extra \cap External = {}
      BY <1>2 DEF Extra, ToolCalls
    <2>3. Doubtful(r) \subseteq External
      BY DEF Doubtful
    <2> QED BY <1>6, <1>11, <2>1, <2>2, <2>3
  <1>12. CASE t.ok /\ out = "SUCCESS"
    <2>1. Doubtful(t) \subseteq Doubtful(r) \cup (Extra \cap External)
      BY <1>4, DoubtOn DEF Safe
    <2>2. Extra \cap External = {}
      BY <1>2 DEF Extra, ToolCalls
    <2>3. x \notin Doubtful(t)
      BY <1>7, <1>12 DEF Doubtful
    <2>4. Doubtful(t) = {}
      BY <1>6, <2>1, <2>2, <2>3
    <2> QED BY <1>4, <1>8, <1>10, <1>12, <2>4
  <1>13. CASE x \in External /\ ~(t.ok /\ out = "SUCCESS")
    <2>1. Fits(r, R(UnknownOutcome(t), To(Follow[s])))
      BY <1>3, <1>4, UnknownOutcomeFits DEF Safe
    <2> QED BY <1>8, <1>13, <2>1
  <1>14. CASE x \notin External /\ ~(t.ok /\ out = "SUCCESS")
    <2>1. Doubtful(c) = {} /\ Doubtful(d) = {} /\ Doubtful(t) = {}
      BY <1>4, <1>9, <1>11, <1>14 DEF Safe
    <2>2. Fits(r, R(c, After(s))) /\ Fits(r, R(d, After(s)))
      BY <1>9, <1>10, <2>1
    <2>3. ASSUME at.attempt < MaxAttempts PROVE Fits(r, R(t, Again))
      <3>1. at.attempt = 1
        BY <1>2, <2>3, PlacesAre
      <3>2. Legal(Again) /\ Again.stage = at.stage /\ ~Again.wait
        BY <1>2, <3>1, AgainIs
      <3>3. at.stage \notin Ended
        BY DEF Ended
      <3>4. Sure(t, Again)
        BY <2>1 DEF Sure
      <3> QED BY <1>2, <1>4, <3>2, <3>3, <3>4, PlaceFits, Zenon
    <2> QED BY <1>8, <1>14, <2>2, <2>3, Zenon
  <1> QED BY <1>12, <1>13, <1>14

LEMMA ExperimentReturns ==
    ASSUME NEW r, Ready(r), NEW s \in {"experiment", "trial"}, at.stage = s, at.wait,
           NEW out \in Outcomes, NEW simulated \in BOOLEAN, Budget \in Nat, Explicit \in BOOLEAN
    PROVE  Fits(r, ExperimentReturn(r, s, out, simulated))
  <1> DEFINE t == SettleAs(r, s, out)
             i == Ingest(t, "observation")
             q == ExperimentSettled(t, out, simulated)
  <1>1. /\ out \in Statuses /\ "settlement_failed" \in Names /\ "experiment_failed" \in Names
        /\ "simulation_failed" \in Names /\ "observation" \in Records
    BY NamesAre DEF Outcomes, Statuses, Records, Gaps
  <1>2. Onward(Follow[s]) /\ (Uncertain(r) => Follow[s] \in Quiet)
    <2>1. s \in DOMAIN Follow
      BY DEF Follow
    <2> QED BY <2>1, FollowIs, Zenon DEF Ready
  <1>3. Safe(r, t)
    BY <1>1, SafeSettle
  <1>4. ExperimentReturn(r, s, out, simulated) = R(q, After(s))
    BY DEF ExperimentReturn
  <1> HIDE DEF t
  <1>5. Safe(r, Catch(t, "settlement_failed")) /\ Safe(r, RecordBlocker(t, "experiment_failed"))
    BY <1>1, <1>3, SafeBlocker, Zenon DEF Safe
  <1>6. Safe(r, i) /\ Safe(r, OrCatch(i, "simulation_failed"))
    BY <1>1, <1>3, SafeRecord, SafeOrCatch, Zenon
  <1>7. q \in {Catch(t, "settlement_failed"), RecordBlocker(t, "experiment_failed"), i,
               OrCatch(i, "simulation_failed")}
    BY Zenon DEF ExperimentSettled, Observed
  <1> HIDE DEF q, i
  <1>8. Safe(r, q)
    BY <1>3, <1>5, <1>6, <1>7, Zenon
  <1>9. CASE s = "trial"
    <2>1. After(s) = NextAct
      BY <1>9 DEF After
    <2>2. NextAct.stage = "act"
      BY <1>9, NextActIs DEF Ready
    <2>3. Moves("act")
      BY <1>9 DEF Moves, PastLoop, Ended, Ending
    <2>4. Sure(q, NextAct)
      BY <1>8, <2>2, <2>3, SureOn DEF Safe
    <2> QED BY <1>4, <1>8, <1>9, <2>1, <2>4, ActFits
  <1>10. CASE s = "experiment"
    <2>1. After(s) = To(Follow[s])
      BY <1>10 DEF After
    <2>2. Moves(Follow[s])
      BY <1>10 DEF Follow, Moves, PastLoop, Ended, Ending
    <2> QED BY <1>2, <1>4, <1>8, <2>1, <2>2, SafeFits, Zenon
  <1> QED BY <1>9, <1>10

\* A model call is settled outside any handler, and may be tried again.
Gateway(r, s, out, next, g) ==
    \/ \E q, a : g = R(q, a) /\ Evolves(r, q, Extra) /\ ~q.ok
    \/ \E q : g = R(q, To(next)) /\ Safe(r, q) /\ out = "SUCCESS"
    \/ \E q : g = R(q, Again) /\ Safe(r, q) /\ at.attempt = 1 /\ out # "SUCCESS"

LEMMA GatewayReturns ==
    ASSUME NEW r, Ready(r), NEW s \in {"step", "synthesis"}, at.stage = s, at.wait,
           NEW out \in Outcomes, NEW next, MaxAttempts \in 1 .. 2, Budget \in Nat
    PROVE  Gateway(r, s, out, next, GatewayReturn(r, s, out, To(next)))
  <1> DEFINE t == SettleAs(r, s, out)
             e == Commit(t, t, t, Event("committed", s, ""))
             g == GatewayReturn(r, s, out, To(next))
  <1>1. out \in Statuses
    BY DEF Outcomes, Statuses
  <1>2. Safe(r, t)
    BY <1>1, SafeSettle
  <1>3. Legal(at)
    BY DEF Ready
  <1>4. /\ ~t.ok => g = R(t, at)
        /\ t.ok /\ out = "SUCCESS" => g = R(e, To(next))
        /\ t.ok /\ out # "SUCCESS" /\ at.attempt < MaxAttempts => g = R(t, Again)
        /\ t.ok /\ out # "SUCCESS" /\ ~(at.attempt < MaxAttempts) => g = R(Raise(t), at)
    BY Zenon DEF GatewayReturn, GatewaySettled
  <1> HIDE DEF t, g
  <1>5. Evolves(r, t, Extra) /\ Evolves(r, Raise(t), Extra) /\ ~Raise(t).ok
    <2>1. Evolves(r, t, Extra) /\ 0 \in Nat
      BY <1>2 DEF Safe
    <2> QED BY <2>1, MarkedEvolves, Zenon
  <1>6. Safe(r, e)
    <2>1. PICK k, x : k = "committed" /\ x = s
      OBVIOUS
    <2>2. k \in {"committed", "exploration"}
      BY <2>1
    <2>3. x \in Values
      <3>1. s \in Lanes \cup {"step"}
        BY DEF Lanes, ToolLane
      <3>2. Lanes \cup {"step"} \subseteq Values
        BY Zenon DEF Values
      <3> QED BY <2>1, <3>1, <3>2
    <2>4. Safe(r, Commit(t, t, t, Event(k, x, "")))
      BY <1>2, <2>2, <2>3, SafeNote, Zenon
    <2> QED BY <2>1, <2>4, Zenon
  <1> HIDE DEF e
  <1>7. at.attempt < MaxAttempts => at.attempt = 1
    BY <1>3, PlacesAre
  <1> DEFINE raised == \E q, a : g = R(q, a) /\ Evolves(r, q, Extra) /\ ~q.ok
             passed == \E q : g = R(q, To(next)) /\ Safe(r, q) /\ out = "SUCCESS"
             retried == \E q : g = R(q, Again) /\ Safe(r, q) /\ at.attempt = 1 /\ out # "SUCCESS"
  <1>8. ASSUME ~t.ok PROVE raised
    BY <1>4, <1>5, <1>8, Zenon
  <1>9. ASSUME t.ok, out = "SUCCESS" PROVE passed
    BY <1>4, <1>6, <1>9, Zenon
  <1>10. ASSUME t.ok, out # "SUCCESS" PROVE raised \/ retried
    <2>1. CASE at.attempt < MaxAttempts
      BY <1>2, <1>4, <1>7, <1>10, <2>1, Zenon
    <2>2. CASE ~(at.attempt < MaxAttempts)
      BY <1>4, <1>5, <1>10, <2>2, Zenon
    <2> QED BY <2>1, <2>2
  <1>11. Gateway(r, s, out, next, g)
    <2>1. raised \/ passed \/ retried
      <3> HIDE DEF raised, passed, retried
      <3> QED BY <1>8, <1>9, <1>10, Zenon
    <2> QED BY <2>1, Zenon DEF Gateway
  <1> QED BY <1>11, Zenon DEF g

LEMMA GatewayFits ==
    ASSUME NEW r, Ready(r), NEW s, at.stage = s, at.wait, s \notin Ended,
           Uncertain(r) => s \in Harmless, NEW out, NEW next, Onward(next),
           Uncertain(r) => next \in Quiet, Moves(next), Moves(s), NEW g, Gateway(r, s, out, next, g)
    PROVE  Fits(r, g)
  <1>1. ASSUME NEW q, NEW a, g = R(q, a), Evolves(r, q, Extra), ~q.ok
        PROVE  Fits(r, g)
    BY <1>1, RaisedFits
  <1>2. ASSUME NEW q, g = R(q, To(next)), Safe(r, q)
        PROVE  Fits(r, g)
    BY <1>2, SafeFits
  <1>3. ASSUME NEW q, g = R(q, Again), Safe(r, q), at.attempt = 1
        PROVE  Fits(r, g)
    <2>1. /\ Legal(Again) /\ Again.stage = s /\ ~Again.wait
          /\ s \in Harmless => Calm(Again)
      BY <1>3, AgainIs DEF Ready
    <2>2. Sure(q, Again)
      BY <1>3, <2>1, SureOn DEF Safe
    <2> QED BY <1>3, <2>1, <2>2, PlaceFits, Zenon
  <1> QED BY <1>1, <1>2, <1>3, Zenon DEF Gateway

LEMMA SynthesisReturns ==
    ASSUME NEW r, Ready(r), at.stage = "synthesis", at.wait, NEW out \in Outcomes,
           MaxAttempts \in 1 .. 2, Budget \in Nat
    PROVE  Fits(r, GatewayReturn(r, "synthesis", out, To("memory")))
  <1>1. "synthesis" \in Harmless /\ "synthesis" \notin Ended
    BY DEF Harmless, Ended
  <1>2. Onward("memory") /\ "memory" \in Quiet /\ Moves("memory") /\ Moves("synthesis")
    BY OnwardIs DEF Moves, PastLoop, Ended, Ending
  <1>3. PICK s : s = "synthesis"
    OBVIOUS
  <1>4. s \in {"step", "synthesis"}
    BY <1>3
  <1>5. Gateway(r, s, out, "memory", GatewayReturn(r, s, out, To("memory")))
    BY <1>3, <1>4, GatewayReturns, Zenon
  <1> QED BY <1>1, <1>2, <1>3, <1>5, GatewayFits, Zenon

\* _ingest_structured_step.
LEMMA StructuredSafe ==
    ASSUME NEW r, NEW t, Safe(r, t), Budget \in Nat, Explicit \in BOOLEAN
    PROVE  Safe(r, Structured(t)) /\ (~t.ok => Structured(t) = t)
  <1> DEFINE m == IF t.state = "planned" THEN Transition(t, "researching") ELSE t
             h == Ingest(m, "hypothesis")
             x == Ingest(h, "experiment")
  <1>1. /\ "hypothesis" \in Records /\ "experiment" \in Records /\ "phase_transition_failed" \in Names
        /\ "researching" \in States \ Terminal
    BY NamesAre DEF Records, Gaps, States, Terminal
  <1>2. Safe(r, m)
    BY <1>1, SafeTransition, Zenon
  <1>3. Structured(t) = IF ~t.ok THEN t
                        ELSE IF m.ok THEN (IF h.ok THEN x ELSE h)
                        ELSE Catch(m, "phase_transition_failed")
    BY DEF Structured, InResearch, WithHypothesis
  <1> HIDE DEF m
  <1>4. Safe(r, h)
    BY <1>1, <1>2, SafeRecord, Zenon
  <1> HIDE DEF h
  <1>5. Safe(r, x)
    BY <1>1, <1>4, SafeRecord, Zenon
  <1>6. Safe(r, Catch(m, "phase_transition_failed"))
    BY <1>1, <1>2, SafeBlocker, Zenon DEF Safe
  <1> HIDE DEF x
  <1> QED BY <1>3, <1>4, <1>5, <1>6, Zenon

LEMMA StepReturns ==
    ASSUME NEW r, Ready(r), at.stage = "step", at.wait, NEW out \in Outcomes,
           NEW structured \in BOOLEAN, MaxAttempts \in 1 .. 2, Budget \in Nat, Explicit \in BOOLEAN
    PROVE  Fits(r, StepTaken(GatewayReturn(r, "step", out, To("act")), out, structured))
  <1> DEFINE g == GatewayReturn(r, "step", out, To("act"))
             h == StepTaken(g, out, structured)
  <1>1. Legal(at) /\ ~Uncertain(r) /\ at.step <= 2 /\ "step" \notin Ended
    BY DEF Ready, Legal, Calm, Ended
  <1>2. Onward("act") /\ Moves("act") /\ Moves("step")
    BY <1>1, OnwardIs DEF Moves, PastLoop, Ended, Ending
  <1>3. PICK s : s = "step"
    OBVIOUS
  <1>4. Gateway(r, s, out, "act", g)
    <2>1. s \in {"step", "synthesis"}
      BY <1>3
    <2> QED BY <1>3, <2>1, GatewayReturns, Zenon
  <1> HIDE DEF g
  <1>5. ASSUME NEW q, NEW a, Evolves(r, q, Extra), ~q.ok
        PROVE  Fits(r, StepTaken(R(q, a), out, structured))
    <2>1. Structured(q) = q
      BY <1>5, Zenon DEF Structured
    <2>2. StepTaken(R(q, a), out, structured) = R(q, a)
      BY <2>1 DEF StepTaken, R
    <2> QED BY <1>5, <2>2, RaisedFits
  <1>6. ASSUME NEW q, Safe(r, q)
        PROVE  Fits(r, StepTaken(R(q, To("act")), out, structured))
    <2>1. Safe(r, Structured(q))
      BY <1>6, StructuredSafe
    <2>2. StepTaken(R(q, To("act")), out, structured) \in {R(q, To("act")), R(Structured(q), To("act"))}
      BY DEF StepTaken, R
    <2>3. Fits(r, R(q, To("act"))) /\ Fits(r, R(Structured(q), To("act")))
      BY <1>1, <1>2, <1>6, <2>1, SafeFits
    <2> QED BY <2>2, <2>3, Zenon
  <1>7. ASSUME NEW q, g = R(q, Again), Safe(r, q), at.attempt = 1, out # "SUCCESS"
        PROVE  Fits(r, h)
    <2>1. h = g
      BY <1>7, Zenon DEF StepTaken
    <2>2. Fits(r, g)
      BY <1>1, <1>2, <1>3, <1>4, GatewayFits, Zenon
    <2> QED BY <2>1, <2>2
  <1>8. Fits(r, h)
    <2>1. CASE \E q, a : g = R(q, a) /\ Evolves(r, q, Extra) /\ ~q.ok
      BY <1>5, <2>1, Zenon
    <2>2. CASE \E q : g = R(q, To("act")) /\ Safe(r, q) /\ out = "SUCCESS"
      BY <1>6, <2>2, Zenon
    <2>3. CASE \E q : g = R(q, Again) /\ Safe(r, q) /\ at.attempt = 1 /\ out # "SUCCESS"
      BY <1>7, <2>3, Zenon
    <2> QED BY <1>4, <2>1, <2>2, <2>3, Zenon DEF Gateway
  <1> QED BY <1>8 DEF g

LEMMA CheckpointReturns ==
    ASSUME NEW r, Ready(r), at.stage = "checkpoint", at.wait, NEW out \in Outcomes, Budget \in Nat
    PROVE  Fits(r, CheckpointReturn(r, out))
  <1> DEFINE t == SettleAs(r, "checkpoint", out)
             a == [To("step") EXCEPT !.step = @ + 1]
             c == Catch(t, "settlement_failed")
             d == Catch(t, "checkpoint_failed")
  <1>1. Legal(at) /\ ~Uncertain(r) /\ at.step <= 2 /\ "step" \notin Ended
    BY DEF Ready, Legal, Calm, Ended
  <1>2. out \in Statuses /\ "settlement_failed" \in Names /\ "checkpoint_failed" \in Names
    BY NamesAre DEF Outcomes, Statuses
  <1>3. Safe(r, t)
    BY <1>2, SafeSettle, Zenon
  <1>4. Legal(a) /\ a.stage = "step" /\ ~a.wait /\ Calm(a)
    BY <1>1, StepIs
  <1>5. CheckpointReturn(r, out) \in {R(t, a), R(c, To("experiment")), R(d, To("experiment"))}
    BY Zenon DEF CheckpointReturn, CheckpointSettled
  <1> HIDE DEF t, a
  <1>a. Moves("step") /\ Moves("experiment")
    BY DEF Moves, PastLoop, Ended, Ending
  <1>6. Fits(r, R(t, a))
    <2>1. Sure(t, a)
      BY <1>3, <1>4, <1>a, SureOn DEF Safe
    <2> QED BY <1>1, <1>3, <1>4, <2>1, PlaceFits
  <1>7. Safe(r, c) /\ Safe(r, d)
    BY <1>2, <1>3, SafeBlocker, Zenon DEF Safe
  <1> HIDE DEF c, d
  <1>8. Fits(r, R(c, To("experiment"))) /\ Fits(r, R(d, To("experiment")))
    BY <1>7, <1>a, SafeFits, OnwardIs, Zenon
  <1> QED BY <1>5, <1>6, <1>8, Zenon

LEMMA MemoryReturns ==
    ASSUME NEW r, Ready(r), at.stage = "memory", at.wait, NEW out \in Outcomes, Budget \in Nat
    PROVE  Fits(r, MemoryReturn(r, out))
  <1> DEFINE t == SettleAs(r, "memory", out)
             c == OrCatch(t, "settlement_failed")
             q == EffectBlocked(c, out)
  <1>1. out \in Statuses /\ "settlement_failed" \in Names /\ "effect_failed" \in Names
    BY NamesAre DEF Outcomes, Statuses
  <1>2. Safe(r, t)
    BY <1>1, SafeSettle, Zenon
  <1>3. MemoryReturn(r, out) = R(q, To("archive"))
    BY DEF MemoryReturn, GuardedSettle
  <1> HIDE DEF t
  <1>4. Safe(r, c)
    BY <1>1, <1>2, SafeOrCatch, Zenon
  <1> HIDE DEF c
  <1>5. Safe(r, RecordBlocker(c, "effect_failed"))
    BY <1>1, <1>4, SafeBlocker, Zenon DEF Safe
  <1>6. Safe(r, q)
    BY <1>4, <1>5, Zenon DEF EffectBlocked
  <1> HIDE DEF q
  <1>7. Moves("archive")
    BY DEF Moves, PastLoop, Ended, Ending
  <1> QED BY <1>3, <1>6, <1>7, SafeFits, OnwardIs, Zenon

\* The cancellation is delivered in the await.
LEMMA CancelledFits ==
    ASSUME NEW r, Ready(r), at.wait, Budget \in Nat
    PROVE  Fits(r, Cancelled(r, at.stage))
  <1> DEFINE t == SettleAs(r, at.stage, "CANCELLED")
  <1>1. "CANCELLED" \in Statuses /\ "settlement_failed" \in Names /\ 0 \in Nat
    BY NamesAre DEF Statuses
  <1>2. Evolves(r, t, Extra)
    BY <1>1, SafeSettle, Zenon DEF Safe
  <1>3. Cancelled(r, at.stage) \in {R(t, To("cancelled")), R([t EXCEPT !.ok = TRUE], To("cancelled")),
                                    R(OrCatch(t, "settlement_failed"), To("cancelled"))}
    BY Zenon DEF Cancelled, CancelSettledAs
  <1> HIDE DEF t
  <1>4. Evolves(r, [t EXCEPT !.ok = TRUE], Extra) /\ Evolves(r, OrCatch(t, "settlement_failed"), Extra)
    BY <1>1, <1>2, MarkedEvolves, CatchTells, Zenon
  <1> QED BY <1>2, <1>3, <1>4, EndsFits, Zenon

-----------------------------------------------------------------------------
(* The end of an application that failed or was cancelled.                 *)

\* What is left open is told.
Told(r) ==
    \/ Unsettled(r) = {}
    \/ {"execution_reconciliation_failed", "reconciliation_failed"} \cap r.blockers # {}

LEMMA ToldOn ==
    ASSUME NEW r, Told(r), NEW q, Evolves(r, q, {}) \/ SameLanes(r, q)
    PROVE  Told(q)
  <1>1. CASE Unsettled(r) = {}
    BY <1>1 DEF Told, Unsettled, Evolves, SameLanes
  <1>2. CASE {"execution_reconciliation_failed", "reconciliation_failed"} \cap r.blockers # {}
    BY <1>2 DEF Told, Evolves, SameLanes
  <1> QED BY <1>1, <1>2 DEF Told

\* A blocker does not change the state.
LEMMA BlockerState ==
    ASSUME NEW t, Good(t), NEW b \in Names, Budget \in Nat
    PROVE  /\ Evolves(t, RecordBlocker(t, b), {}) /\ RecordBlocker(t, b).state = t.state
           /\ Evolves(t, Swallow(t, b), {}) /\ Swallow(t, b).state = t.state /\ Swallow(t, b).ok
  <1>1. ASSUME NEW p, Good(p)
        PROVE  Evolves(p, RecordBlocker(p, b), {}) /\ RecordBlocker(p, b).state = p.state
    <2> DEFINE q == RecordBlocker(p, b)
    <2>1. Evolves(p, q, {})
      BY <1>1, EvolvesSelf, BlockerTells, Zenon DEF Tells
    <2>2. PICK e : e = Event("blocker", b, "")
      BY Zenon
    <2>3. e.k # "state"
      BY <2>2, BlockerEvent, Zenon
    <2>4. Keeps(p, e, q)
      BY <1>1, <2>2, RecordBlockerGood, Zenon DEF Names
    <2> QED BY <2>1, <2>3, <2>4, Zenon DEF Keeps
  <1>2. ASSUME NEW p, Good(p)
        PROVE  LET q == [p EXCEPT !.ok = TRUE]
               IN  Evolves(p, q, {}) /\ q.state = p.state /\ q.ok /\ Good(q)
    <2>1. Evolves(p, p, {}) /\ 0 \in Nat /\ p \in Runs
      BY <1>2, EvolvesSelf DEF Good
    <2>2. Evolves(p, [p EXCEPT !.ok = TRUE], {})
      BY <2>1, MarkedEvolves, Zenon
    <2>3. [p EXCEPT !.ok = TRUE].state = p.state /\ [p EXCEPT !.ok = TRUE].ok
      BY <2>1 DEF Runs
    <2> QED BY <2>2, <2>3, Zenon DEF Evolves
  <1> DEFINE u == [t EXCEPT !.ok = TRUE]
             c == RecordBlocker(u, b)
             o == IF t.ok THEN t ELSE c
  <1>3. Evolves(t, u, {}) /\ u.state = t.state /\ Good(u)
    BY <1>2
  <1>4. Swallow(t, b) = [o EXCEPT !.ok = TRUE]
    BY DEF Swallow, OrCatch, Catch
  <1> HIDE DEF u
  <1>5. Evolves(u, c, {}) /\ c.state = u.state
    BY <1>1, <1>3
  <1> HIDE DEF c
  <1>6. Evolves(t, c, {}) /\ Evolves(t, t, {})
    BY <1>3, <1>5, EvolvesOn, EvolvesSelf
  <1>7. Evolves(t, o, {}) /\ o.state = t.state /\ Good(o)
    BY <1>3, <1>5, <1>6 DEF Evolves
  <1> HIDE DEF o
  <1>8. LET q == [o EXCEPT !.ok = TRUE] IN Evolves(o, q, {}) /\ q.state = o.state /\ q.ok
    BY <1>2, <1>7
  <1>9. Evolves(t, [o EXCEPT !.ok = TRUE], {})
    BY <1>7, <1>8, EvolvesOn
  <1> QED BY <1>1, <1>4, <1>7, <1>8, <1>9, Zenon

\* reconcile_unsettled_executions, whichever append is rejected: it raises only after a
\* rejection, and then nothing more is rejected.
LEMMA ReconcileTells ==
    ASSUME NEW r, Good(r), r.ok, Open(r), Budget \in Nat
    PROVE  LET q == Reconcile(r)
           IN  Evolves(r, q, {}) /\ (q.ok => Told(q)) /\ (~q.ok => q.fail = 0)
  <1> DEFINE g == ForEach("lanes", r, Unsettled(r))
             h == Transition(g, "blocked")
             b == "unsettled_execution_requires_reconciliation"
             q == RecordBlocker(h, b)
  <1>1. r.state # "aborted" /\ r.state # "completed" /\ r.state \notin Terminal
    BY DEF Open, Terminal
  <1>2. CASE Unsettled(r) = {}
    <2>1. Reconcile(r) = r
      BY <1>1, <1>2, Zenon DEF Reconcile
    <2> QED BY <1>2, <2>1, EvolvesSelf DEF Told
  <1>3. CASE Unsettled(r) # {}
    <2>1. /\ g.ok /\ g.state = r.state /\ Evolves(r, g, {})
          /\ Unsettled(g) = {} \/ "execution_reconciliation_failed" \in g.blockers
      BY <1>1, LanesClose
    <2>2. Reconcile(r) = q
      <3>1. Reopened(r) = r
        BY <1>1 DEF Reopened
      <3>2. Halted(g) = h
        BY <1>1, <2>1, Zenon DEF Halted
      <3> QED BY <1>1, <1>3, <3>1, <3>2, Zenon DEF Reconcile
    <2> HIDE DEF g
    <2>3. Good(g) /\ Told(g)
      BY <2>1 DEF Evolves, Told
    <2>4. "blocked" \in States /\ "blocked" \notin Terminal /\ b \in Names
      BY NamesAre DEF States, Terminal
    <2>5. /\ Evolves(g, h, {})
          /\ g.ok /\ ~h.ok /\ "blocked" \in Allowed[g.state] => h.fail = 0
      BY <2>3, <2>4, TransitionEvolves, Zenon
    <2>6. ~h.ok => h.fail = 0
      <3>1. CASE g.state = "blocked"
        <4>1. h = g
          BY <3>1, Zenon DEF Transition
        <4> QED BY <2>1, <4>1
      <3>2. CASE g.state # "blocked"
        <4>1. g.state \in {"planned", "researching", "experimenting", "reviewing"}
          BY <1>1, <2>1, <2>3, <3>2 DEF Good, Runs, States
        <4>2. "blocked" \in Allowed[g.state]
          BY <4>1 DEF Allowed
        <4> QED BY <2>1, <2>5, <4>2
      <3> QED BY <3>1, <3>2
    <2> HIDE DEF h
    <2>7. Evolves(r, h, {})
      BY <2>1, <2>5, EvolvesOn
    <2>8. /\ Evolves(r, q, {}) /\ Evolves(h, q, {}) /\ (~h.ok => q = h)
          /\ h.ok /\ ~q.ok => q.fail = 0
      <3>1. Evolves(h, h, {})
        BY <2>7, EvolvesSelf DEF Evolves
      <3> QED BY <2>4, <2>7, <3>1, BlockerTells, Zenon DEF Tells
    <2> HIDE DEF q
    <2>9. Told(q)
      BY <2>3, <2>5, <2>8, ToldOn
    <2> QED BY <2>2, <2>6, <2>8, <2>9
  <1> QED BY <1>2, <1>3

\* The run with which a failed application ends.
Closed(r, q) ==
    Good(q) /\ Admitted(q) \subseteq Admitted(r) /\ q.state # "completed" /\ Told(q)

LEMMA ClosedOn ==
    ASSUME NEW r, NEW t, Closed(r, t), NEW q, Good(q),
           \/ Evolves(t, q, {}) /\ q.state = t.state
           \/ SameLanes(t, q) /\ q.state \in {t.state, "aborted"}
    PROVE  Closed(r, q)
  <1>1. Told(q)
    BY ToldOn DEF Closed
  <1>2. Admitted(q) \subseteq Admitted(r) /\ q.state # "completed"
    BY DEF Closed, Evolves, SameLanes
  <1> QED BY <1>1, <1>2 DEF Closed

LEMMA ClosedDone ==
    ASSUME NEW r, NEW t, Closed(r, t)
    PROVE  Closed(r, Done(t))
  <1>1. SameRun(t, Done(t)) /\ Good(Done(t))
    BY DoneSame DEF Closed
  <1>2. SameLanes(t, Done(t)) /\ Done(t).state = t.state
    BY <1>1, SameRunHas DEF SameRun, SameLanes
  <1> QED BY <1>1, <1>2, ClosedOn

LEMMA AbortAfterFailureCloses ==
    ASSUME NEW r, Good(r), r.ok, Open(r), Budget \in Nat
    PROVE  Closed(r, AbortAfterFailure(r))
  <1> DEFINE q == Reconcile(r)
             s == Swallow(q, "reconciliation_failed")
             a == Abort(s)
             z == Swallow(a, "abort_failed")
  <1>1. "reconciliation_failed" \in Names /\ "abort_failed" \in Names
    BY NamesAre
  <1>2. Evolves(r, q, {}) /\ (q.ok => Told(q)) /\ (~q.ok => q.fail = 0)
    BY ReconcileTells
  <1>3. AbortAfterFailure(r) = z
    BY Zenon DEF AbortAfterFailure, Open
  <1> HIDE DEF q
  <1>4. Good(q)
    BY <1>2 DEF Evolves
  <1>5. Evolves(q, s, {})
    BY <1>1, <1>4, BlockerState, Zenon
  <1>6. Told(s)
    <2>1. CASE q.ok
      BY <1>2, <1>5, <2>1, ToldOn
    <2>2. CASE ~q.ok
      <3> DEFINE c == Catch(q, "reconciliation_failed")
      <3>1. Evolves(q, q, {})
        BY <1>4, EvolvesSelf
      <3>2. Evolves(q, c, {}) /\ "reconciliation_failed" \in c.blockers
        BY <1>1, <1>2, <2>2, <3>1, CatchTells, Zenon DEF Tells
      <3>3. s = [c EXCEPT !.ok = TRUE]
        BY <2>2, Zenon DEF Swallow, OrCatch
      <3> HIDE DEF c
      <3>4. Evolves(c, c, {}) /\ 0 \in Nat
        BY <3>2, EvolvesSelf DEF Evolves
      <3>5. Evolves(c, s, {})
        <4>1. Evolves(c, [c EXCEPT !.ok = TRUE], {})
          BY <3>4, MarkedEvolves, Zenon
        <4> QED BY <3>3, <4>1
      <3>6. Told(c)
        BY <3>2 DEF Told
      <3> HIDE DEF s
      <3> QED BY <3>5, <3>6, ToldOn
    <2> QED BY <2>1, <2>2
  <1> HIDE DEF s
  <1>7. Evolves(r, s, {})
    BY <1>2, <1>5, EvolvesOn
  <1>8. Closed(r, s)
    <2>1. Good(s) /\ Open(s)
      BY <1>7, OpenOn
    <2> QED BY <1>6, <1>7, <2>1 DEF Closed, Evolves, Open, Terminal
  <1>9. Good(a) /\ SameLanes(s, a) /\ a.state \in {s.state, "aborted"}
    BY <1>8, AbortGood DEF Closed
  <1> HIDE DEF a
  <1>10. Closed(r, a)
    BY <1>8, <1>9, ClosedOn
  <1>11. Evolves(a, z, {}) /\ z.state = a.state
    BY <1>1, <1>9, BlockerState, Zenon
  <1> HIDE DEF z
  <1>12. Closed(r, z)
    BY <1>10, <1>11, ClosedOn DEF Evolves
  <1> QED BY <1>3, <1>12

-----------------------------------------------------------------------------
(* Every action.                                                           *)

LEMMA RejectingIs ==
    ASSUME NEW n \in Rejecting
    PROVE  n \in Nat
  BY DEF Rejecting

\* The run at the beginning of a call that the native controller may reject an append of.
Called(n) == [missionRun EXCEPT !.fail = n]

LEMMA StageReady ==
    ASSUME MissionInv, NEW n \in Rejecting, NEW s, at.stage = s,
           at.wait \/ s \in Stages \ (Ended \cup Ending), External \subseteq ToolCalls
    PROVE  Ready(Called(n))
  <1>1. n \in Nat
    BY RejectingIs
  <1>2. at.wait => s \in Asking
    BY DEF MissionInv, Legal
  <1>3. Asking \cap (Ended \cup Ending) = {}
    BY DEF Asking, Ended, Ending
  <1> QED BY <1>1, <1>2, <1>3, ReadyIs DEF Called

LEMMA FitsHolds ==
    ASSUME MissionInv, NEW n \in Rejecting, NEW o, Fits(Called(n), o),
           Becomes(Escape(o)), Budget \in Nat
    PROVE  MissionInv' /\ NoAct
  BY RejectingIs, BecomesHolds DEF Called

LEMMA BeginPlainHolds ==
    ASSUME MissionInv, BeginPlain, Budget \in Nat, External \subseteq ToolCalls
    PROVE  MissionInv' /\ NoAct
  <1>1. PICK s \in Plain : Begin(s) /\ Take(LAMBDA r : StageBegin(r, s))
    BY DEF BeginPlain
  <1>2. PICK n \in Rejecting : Becomes(Escape(StageBegin(Called(n), s)))
    BY <1>1 DEF Take, Meets, Called
  <1>3. at.stage = s /\ ~at.wait
    BY <1>1 DEF Begin
  <1>4. s \in Stages \ (Ended \cup Ending)
    BY DEF Plain, Stages, Asking, Ended, Ending
  <1>5. Ready(Called(n))
    BY <1>3, <1>4, StageReady
  <1>6. Fits(Called(n), StageBegin(Called(n), s))
    BY <1>3, <1>5, PlainBegins
  <1> QED BY <1>2, <1>6, FitsHolds

LEMMA BeginsHold ==
    ASSUME ReducerAssumption, ApplicationAssumption, MissionInv,
           \/ BeginRecords \/ BeginStep \/ BeginPlan \/ BeginTrial
           \/ BeginProgress \/ BeginCheckpoint \/ BeginExperiment \/ BeginValidator
           \/ BeginSynthesis \/ BeginMemory
    PROVE  MissionInv' /\ NoAct
  <1> /\ Budget \in Nat /\ Explicit \in BOOLEAN /\ MaxAttempts \in 1 .. 2 /\ Iterations \in 1 .. 2
      /\ External \subseteq ToolCalls
    BY DEF ReducerAssumption, ApplicationAssumption
  <1>1. CASE BeginRecords
    <2>1. Begin("records") /\ Take(RecordsBegin)
      BY <1>1 DEF BeginRecords
    <2>2. PICK n \in Rejecting : Becomes(Escape(RecordsBegin(Called(n))))
      BY <2>1 DEF Take, Meets, Called
    <2>3. at.stage = "records" /\ ~at.wait
      BY <2>1 DEF Begin
    <2>4. "records" \in Stages \ (Ended \cup Ending)
      BY <2>1 DEF Stages, Asking, Ended, Ending
    <2>5. Ready(Called(n))
      BY <2>2, <2>3, <2>4, StageReady
    <2>6. Fits(Called(n), RecordsBegin(Called(n)))
      BY <2>1, <2>3, <2>5, RecordsBegins
    <2> QED BY <2>2, <2>6, FitsHolds
  <1>2. CASE BeginStep
    <2>1. Begin("step") /\ Take(StepBegin)
      BY <1>2 DEF BeginStep
    <2>2. PICK n \in Rejecting : Becomes(Escape(StepBegin(Called(n))))
      BY <2>1 DEF Take, Meets, Called
    <2>3. at.stage = "step" /\ ~at.wait
      BY <2>1 DEF Begin
    <2>4. "step" \in Stages \ (Ended \cup Ending)
      BY <2>1 DEF Stages, Asking, Ended, Ending
    <2>5. Ready(Called(n))
      BY <2>2, <2>3, <2>4, StageReady
    <2>6. Fits(Called(n), StepBegin(Called(n)))
      BY <2>1, <2>3, <2>5, StepBegins
    <2> QED BY <2>2, <2>6, FitsHolds
  <1>3. CASE BeginPlan
    <2>1. PICK s \in {"plan"} :
            Begin(s) /\ Take(LAMBDA r : GuardedAdmit(r, s, NextAct))
      BY <1>3 DEF BeginPlan
    <2>2. PICK n \in Rejecting : Becomes(Escape(GuardedAdmit(Called(n), s, NextAct)))
      BY <2>1 DEF Take, Meets, Called
    <2>3. at.stage = s /\ ~at.wait
      BY <2>1 DEF Begin
    <2>4. s \in Stages \ (Ended \cup Ending)
      BY <2>1 DEF Stages, Asking, Ended, Ending
    <2>5. Ready(Called(n))
      BY <2>2, <2>3, <2>4, StageReady
    <2>6. Fits(Called(n), GuardedAdmit(Called(n), s, NextAct))
      BY <2>1, <2>3, <2>5, ActionBegins
    <2> QED BY <2>2, <2>6, FitsHolds
  <1>4. CASE BeginTrial
    <2>1. /\ Begin("trial")
          /\ Take(LAMBDA r : [GuardedAdmit(r, "trial", NextAct) EXCEPT !.at.ran = TRUE])
      BY <1>4 DEF BeginTrial
    <2>2. PICK n \in Rejecting : Becomes(Escape([GuardedAdmit(Called(n), "trial", NextAct) EXCEPT !.at.ran = TRUE]))
      BY <2>1 DEF Take, Meets, Called
    <2>3. at.stage = "trial" /\ ~at.wait
      BY <2>1 DEF Begin
    <2>4. "trial" \in Stages \ (Ended \cup Ending)
      BY <2>1 DEF Stages, Asking, Ended, Ending
    <2>5. Ready(Called(n))
      BY <2>2, <2>3, <2>4, StageReady
    <2>6. Fits(Called(n), [GuardedAdmit(Called(n), "trial", NextAct) EXCEPT !.at.ran = TRUE])
      BY <2>1, <2>3, <2>5, ActionBegins
    <2> QED BY <2>2, <2>6, FitsHolds
  <1>5. CASE BeginProgress
    <2>1. PICK b \in BOOLEAN :
            Begin("progress") /\ Take(LAMBDA r : ProgressBegin(r, b))
      BY <1>5 DEF BeginProgress
    <2>2. PICK n \in Rejecting : Becomes(Escape(ProgressBegin(Called(n), b)))
      BY <2>1 DEF Take, Meets, Called
    <2>3. at.stage = "progress" /\ ~at.wait
      BY <2>1 DEF Begin
    <2>4. "progress" \in Stages \ (Ended \cup Ending)
      BY <2>1 DEF Stages, Asking, Ended, Ending
    <2>5. Ready(Called(n))
      BY <2>2, <2>3, <2>4, StageReady
    <2>6. Fits(Called(n), ProgressBegin(Called(n), b))
      BY <2>1, <2>3, <2>5, ProgressBegins
    <2> QED BY <2>2, <2>6, FitsHolds
  <1>6. CASE BeginCheckpoint
    <2>1. Begin("checkpoint") /\ Take(CheckpointBegin)
      BY <1>6 DEF BeginCheckpoint
    <2>2. PICK n \in Rejecting : Becomes(Escape(CheckpointBegin(Called(n))))
      BY <2>1 DEF Take, Meets, Called
    <2>3. at.stage = "checkpoint" /\ ~at.wait
      BY <2>1 DEF Begin
    <2>4. "checkpoint" \in Stages \ (Ended \cup Ending)
      BY <2>1 DEF Stages, Asking, Ended, Ending
    <2>5. Ready(Called(n))
      BY <2>2, <2>3, <2>4, StageReady
    <2>6. Fits(Called(n), CheckpointBegin(Called(n)))
      BY <2>1, <2>3, <2>5, CheckpointBegins
    <2> QED BY <2>2, <2>6, FitsHolds
  <1>7. CASE BeginExperiment
    <2>1. Begin("experiment") /\ Take(ExperimentBegin)
      BY <1>7 DEF BeginExperiment
    <2>2. PICK n \in Rejecting : Becomes(Escape(ExperimentBegin(Called(n))))
      BY <2>1 DEF Take, Meets, Called
    <2>3. at.stage = "experiment" /\ ~at.wait
      BY <2>1 DEF Begin
    <2>4. "experiment" \in Stages \ (Ended \cup Ending)
      BY <2>1 DEF Stages, Asking, Ended, Ending
    <2>5. Ready(Called(n))
      BY <2>2, <2>3, <2>4, StageReady
    <2>6. Fits(Called(n), ExperimentBegin(Called(n)))
      BY <2>1, <2>3, <2>5, ExperimentBegins
    <2> QED BY <2>2, <2>6, FitsHolds
  <1>8. CASE BeginValidator
    <2>1. PICK out \in {"SUCCESS", "REJECTED", "RAISED"} :
            Begin("validator") /\ Take(LAMBDA r : ValidatorBegin(r, out))
      BY <1>8 DEF BeginValidator
    <2>2. PICK n \in Rejecting : Becomes(Escape(ValidatorBegin(Called(n), out)))
      BY <2>1 DEF Take, Meets, Called
    <2>3. at.stage = "validator" /\ ~at.wait
      BY <2>1 DEF Begin
    <2>4. "validator" \in Stages \ (Ended \cup Ending)
      BY <2>1 DEF Stages, Asking, Ended, Ending
    <2>5. Ready(Called(n))
      BY <2>2, <2>3, <2>4, StageReady
    <2>6. Fits(Called(n), ValidatorBegin(Called(n), out))
      BY <2>1, <2>3, <2>5, ValidatorBegins
    <2> QED BY <2>2, <2>6, FitsHolds
  <1>9. CASE BeginSynthesis
    <2>1. Begin("synthesis") /\ Take(SynthesisBegin)
      BY <1>9 DEF BeginSynthesis
    <2>2. PICK n \in Rejecting : Becomes(Escape(SynthesisBegin(Called(n))))
      BY <2>1 DEF Take, Meets, Called
    <2>3. at.stage = "synthesis" /\ ~at.wait
      BY <2>1 DEF Begin
    <2>4. "synthesis" \in Stages \ (Ended \cup Ending)
      BY <2>1 DEF Stages, Asking, Ended, Ending
    <2>5. Ready(Called(n))
      BY <2>2, <2>3, <2>4, StageReady
    <2>6. Fits(Called(n), SynthesisBegin(Called(n)))
      BY <2>1, <2>3, <2>5, SynthesisBegins
    <2> QED BY <2>2, <2>6, FitsHolds
  <1>10. CASE BeginMemory
    <2>1. Begin("memory") /\ Take(MemoryBegin)
      BY <1>10 DEF BeginMemory
    <2>2. PICK n \in Rejecting : Becomes(Escape(MemoryBegin(Called(n))))
      BY <2>1 DEF Take, Meets, Called
    <2>3. at.stage = "memory" /\ ~at.wait
      BY <2>1 DEF Begin
    <2>4. "memory" \in Stages \ (Ended \cup Ending)
      BY <2>1 DEF Stages, Asking, Ended, Ending
    <2>5. Ready(Called(n))
      BY <2>2, <2>3, <2>4, StageReady
    <2>6. Fits(Called(n), MemoryBegin(Called(n)))
      BY <2>1, <2>3, <2>5, MemoryBegins
    <2> QED BY <2>2, <2>6, FitsHolds
  <1> QED BY <1>1, <1>2, <1>3, <1>4, <1>5, <1>6, <1>7, <1>8, <1>9, <1>10

LEMMA ReturnsHold ==
    ASSUME ReducerAssumption, ApplicationAssumption, MissionInv,
           \/ ReturnPlain \/ ReturnInjected \/ ReturnTool \/ ReturnExperiment
           \/ ReturnCheckpoint \/ ReturnSynthesis \/ ReturnMemory
    PROVE  MissionInv' /\ NoAct
  <1> /\ Budget \in Nat /\ Explicit \in BOOLEAN /\ MaxAttempts \in 1 .. 2 /\ Iterations \in 1 .. 2
      /\ External \subseteq ToolCalls
    BY DEF ReducerAssumption, ApplicationAssumption
  <1>1. CASE ReturnPlain
    <2>1. PICK s \in Plain \ {"tool"}, out \in Outcomes :
            Returns(s) /\ Take(LAMBDA r : StageReturn(r, s, out))
      BY <1>1 DEF ReturnPlain
    <2>2. PICK n \in Rejecting : Becomes(Escape(StageReturn(Called(n), s, out)))
      BY <2>1 DEF Take, Meets, Called
    <2>3. at.stage = s /\ at.wait
      BY <2>1 DEF Returns
    <2>5. Ready(Called(n))
      BY <2>2, <2>3, StageReady
    <2>6. Fits(Called(n), StageReturn(Called(n), s, out))
      BY <2>1, <2>3, <2>5, PlainReturns
    <2> QED BY <2>2, <2>6, FitsHolds
  <1>2. CASE ReturnInjected
    <2>1. Returns("observe") /\ Take(ObserveInjected)
      BY <1>2 DEF ReturnInjected
    <2>2. PICK n \in Rejecting : Becomes(Escape(ObserveInjected(Called(n))))
      BY <2>1 DEF Take, Meets, Called
    <2>3. at.stage = "observe" /\ at.wait
      BY <2>1 DEF Returns
    <2>5. Ready(Called(n))
      BY <2>2, <2>3, StageReady
    <2>6. Fits(Called(n), ObserveInjected(Called(n)))
      BY <2>1, <2>3, <2>5, InjectedReturns
    <2> QED BY <2>2, <2>6, FitsHolds
  <1>3. CASE ReturnTool
    <2>1. PICK s \in {"tool", "plan"}, out \in Outcomes :
            Returns(s) /\ Take(LAMBDA r : ToolReturn(r, s, out))
      BY <1>3 DEF ReturnTool
    <2>2. PICK n \in Rejecting : Becomes(Escape(ToolReturn(Called(n), s, out)))
      BY <2>1 DEF Take, Meets, Called
    <2>3. at.stage = s /\ at.wait
      BY <2>1 DEF Returns
    <2>5. Ready(Called(n))
      BY <2>2, <2>3, StageReady
    <2>6. Fits(Called(n), ToolReturn(Called(n), s, out))
      BY <2>1, <2>3, <2>5, ToolReturns
    <2> QED BY <2>2, <2>6, FitsHolds
  <1>4. CASE ReturnExperiment
    <2>1. PICK s \in {"experiment", "trial"}, out \in Outcomes, simulated \in BOOLEAN :
            Returns(s) /\ Take(LAMBDA r : ExperimentReturn(r, s, out, simulated))
      BY <1>4 DEF ReturnExperiment
    <2>2. PICK n \in Rejecting : Becomes(Escape(ExperimentReturn(Called(n), s, out, simulated)))
      BY <2>1 DEF Take, Meets, Called
    <2>3. at.stage = s /\ at.wait
      BY <2>1 DEF Returns
    <2>5. Ready(Called(n))
      BY <2>2, <2>3, StageReady
    <2>6. Fits(Called(n), ExperimentReturn(Called(n), s, out, simulated))
      BY <2>1, <2>3, <2>5, ExperimentReturns
    <2> QED BY <2>2, <2>6, FitsHolds
  <1>5. CASE ReturnCheckpoint
    <2>1. PICK out \in Outcomes :
            Returns("checkpoint") /\ Take(LAMBDA r : CheckpointReturn(r, out))
      BY <1>5 DEF ReturnCheckpoint
    <2>2. PICK n \in Rejecting : Becomes(Escape(CheckpointReturn(Called(n), out)))
      BY <2>1 DEF Take, Meets, Called
    <2>3. at.stage = "checkpoint" /\ at.wait
      BY <2>1 DEF Returns
    <2>5. Ready(Called(n))
      BY <2>2, <2>3, StageReady
    <2>6. Fits(Called(n), CheckpointReturn(Called(n), out))
      BY <2>1, <2>3, <2>5, CheckpointReturns
    <2> QED BY <2>2, <2>6, FitsHolds
  <1>6. CASE ReturnSynthesis
    <2>1. PICK out \in Outcomes :
            Returns("synthesis") /\ Take(LAMBDA r : GatewayReturn(r, "synthesis", out, To("memory")))
      BY <1>6 DEF ReturnSynthesis
    <2>2. PICK n \in Rejecting : Becomes(Escape(GatewayReturn(Called(n), "synthesis", out, To("memory"))))
      BY <2>1 DEF Take, Meets, Called
    <2>3. at.stage = "synthesis" /\ at.wait
      BY <2>1 DEF Returns
    <2>5. Ready(Called(n))
      BY <2>2, <2>3, StageReady
    <2>6. Fits(Called(n), GatewayReturn(Called(n), "synthesis", out, To("memory")))
      BY <2>1, <2>3, <2>5, SynthesisReturns
    <2> QED BY <2>2, <2>6, FitsHolds
  <1>7. CASE ReturnMemory
    <2>1. PICK out \in Outcomes :
            Returns("memory") /\ Take(LAMBDA r : MemoryReturn(r, out))
      BY <1>7 DEF ReturnMemory
    <2>2. PICK n \in Rejecting : Becomes(Escape(MemoryReturn(Called(n), out)))
      BY <2>1 DEF Take, Meets, Called
    <2>3. at.stage = "memory" /\ at.wait
      BY <2>1 DEF Returns
    <2>5. Ready(Called(n))
      BY <2>2, <2>3, StageReady
    <2>6. Fits(Called(n), MemoryReturn(Called(n), out))
      BY <2>1, <2>3, <2>5, MemoryReturns
    <2> QED BY <2>2, <2>6, FitsHolds
  <1> QED BY <1>1, <1>2, <1>3, <1>4, <1>5, <1>6, <1>7

LEMMA ReturnStepHolds ==
    ASSUME ReducerAssumption, ApplicationAssumption, MissionInv, ReturnStep
    PROVE  MissionInv' /\ NoAct
  <1> /\ Budget \in Nat /\ Explicit \in BOOLEAN /\ MaxAttempts \in 1 .. 2
      /\ External \subseteq ToolCalls
    BY DEF ReducerAssumption, ApplicationAssumption
  <1> DEFINE op(r, out, structured) ==
               StepTaken(GatewayReturn(r, "step", out, To("act")), out, structured)
  <1>1. PICK out \in Outcomes, structured \in BOOLEAN : Take(LAMBDA r : op(r, out, structured))
    BY DEF ReturnStep
  <1>2. PICK n \in Rejecting : Becomes(Escape(op(Called(n), out, structured)))
    BY <1>1 DEF Take, Meets, Called
  <1>3. at.stage = "step" /\ at.wait
    BY DEF ReturnStep, Returns
  <1>4. Ready(Called(n))
    BY <1>3, StageReady
  <1>5. Fits(Called(n), op(Called(n), out, structured))
    BY <1>3, <1>4, StepReturns
  <1> HIDE DEF op
  <1> QED BY <1>2, <1>5, FitsHolds

LEMMA DeliverHolds ==
    ASSUME ReducerAssumption, ApplicationAssumption, MissionInv, Deliver
    PROVE  MissionInv' /\ NoAct
  <1> Budget \in Nat /\ External \subseteq ToolCalls
    BY DEF ReducerAssumption, ApplicationAssumption
  <1>1. at.wait /\ Take(LAMBDA r : Cancelled(r, at.stage))
    BY DEF Deliver
  <1>2. PICK n \in Rejecting : Becomes(Escape(Cancelled(Called(n), at.stage)))
    BY <1>1 DEF Take, Meets, Called
  <1>3. Ready(Called(n))
    BY <1>1, StageReady
  <1>4. Fits(Called(n), Cancelled(Called(n), at.stage))
    BY <1>1, <1>3, CancelledFits
  <1> QED BY <1>2, <1>4, FitsHolds

\* An action that goes on from a run which has evolved without an admission.
LEMMA EvolvesHolds ==
    ASSUME MissionInv, NEW q, Evolves(missionRun, q, {}), missionRun' = Done(q),
           \/ at' = at
           \/ /\ Clear(q) /\ Legal(at') /\ ~at'.wait /\ at'.stage \notin Ended
              /\ Uncertain(missionRun) => Calm(at')
              /\ Sure(q, at'),
           at.stage \notin Ended
    PROVE  MissionInv' /\ NoAct
  <1> DEFINE p == Done(q)
  <1>1. /\ Good(missionRun) /\ Legal(at) /\ Open(missionRun)
        /\ at.stage \notin Ending => Held(missionRun, at)
        /\ (Uncertain(missionRun) => Calm(at)) /\ Sure(missionRun, at)
    BY DEF MissionInv
  <1>2. Good(q) /\ Open(q)
    BY <1>1, OpenOn
  <1>3. SameRun(q, p) /\ Good(p) /\ p.ok /\ p.fail = 0
    BY <1>2, DoneSame
  <1> HIDE DEF p
  <1>4. /\ Open(p) /\ (Uncertain(p) => Uncertain(missionRun))
        /\ Admitted(p) \subseteq Admitted(missionRun)
        /\ \A a : Held(p, a) = Held(q, a) /\ Sure(p, a) = Sure(q, a)
    <2>1. /\ Uncertain(p) = Uncertain(q) /\ Open(p) = Open(q) /\ Admitted(p) = Admitted(q)
          /\ \A a : Held(p, a) = Held(q, a) /\ Sure(p, a) = Sure(q, a)
      BY <1>3, SamePredicates
    <2>2. (Uncertain(q) => Uncertain(missionRun)) /\ Admitted(q) \subseteq Admitted(missionRun)
      BY DEF Evolves, Uncertain
    <2> QED BY <1>2, <2>1, <2>2, Zenon
  <1>5. missionRun' = p
    BY DEF p
  <1>6. NoAct
    <2>1. (Admitted(p) \ Admitted(missionRun)) \cap Repeating = {}
      BY <1>4
    <2>2. NoRepeat(missionRun, p)
      BY <2>1, NothingRepeated
    <2> QED BY <1>5, <2>2 DEF NoAct
  <1>7. /\ Legal(at') /\ at'.stage \notin Ended
        /\ at'.stage \notin Ending => Held(p, at')
        /\ Uncertain(p) => Calm(at')
        /\ Sure(p, at')
    <2>1. CASE at' = at
      <3>1. Held(missionRun, at) => Held(q, at)
        <4>1. CASE Blocked(missionRun)
          BY <4>1, BlockedOn DEF Held
        <4>2. CASE ~Blocked(missionRun)
          BY <4>2 DEF Held, Evolves, Unsettled
        <4> QED BY <4>1, <4>2
      <3>2. Sure(q, at)
        <4>1. /\ Doubtful(q) \subseteq Doubtful(missionRun) \cup ({} \cap External)
              /\ (Uncertain(missionRun) => Uncertain(q)) /\ (LeftByError(missionRun) => LeftByError(q))
          BY DoubtOn
        <4>2. Doubtful(q) \subseteq Doubtful(missionRun)
          BY <4>1
        <4> QED BY <1>1, <4>1, <4>2, Zenon DEF Sure, Late
      <3> QED BY <1>1, <1>4, <2>1, <3>1, <3>2, Zenon
    <2>2. CASE /\ Clear(q) /\ Legal(at') /\ ~at'.wait /\ at'.stage \notin Ended
               /\ Uncertain(missionRun) => Calm(at')
               /\ Sure(q, at')
      <3>1. Held(q, at')
        BY <2>2 DEF Held, Clear
      <3> QED BY <1>4, <2>2, <3>1, Zenon
    <2> QED BY <2>1, <2>2
  <1>8. NothingLeftOpen'
    <2>1. p.state # "completed" /\ at'.stage # "failed"
      BY <1>4, <1>7 DEF Open, Terminal, Ended
    <2> QED BY <1>5, <2>1 DEF NothingLeftOpen, CompletedIsSettled, FailedIsClosed
  <1>9. MissionInv'
    <2>1. Good(missionRun') /\ missionRun'.ok /\ missionRun'.fail = 0 /\ Open(missionRun')
      BY <1>3, <1>4, <1>5
    <2>2. /\ at'.stage \notin Ending => Held(missionRun', at')
          /\ Uncertain(missionRun') => Calm(at')
          /\ Sure(missionRun', at')
      BY <1>5, <1>7
    <2> QED BY <1>7, <1>8, <2>1, <2>2 DEF MissionInv
  <1> QED BY <1>6, <1>9

LEMMA MissionRunIs ==
    ASSUME MissionInv
    PROVE  Evolves(missionRun, missionRun, {}) /\ Done(missionRun) = missionRun
  <1>1. Good(missionRun) /\ missionRun \in Runs /\ missionRun.ok = TRUE /\ missionRun.fail = 0
    <2>1. Good(missionRun) /\ missionRun.ok /\ missionRun.fail = 0
      BY DEF MissionInv
    <2>2. missionRun \in Runs
      BY <2>1 DEF Good
    <2>3. missionRun.ok \in BOOLEAN
      BY <2>2 DEF Runs
    <2> QED BY <2>1, <2>2, <2>3
  <1>2. Done(missionRun) = missionRun
    BY <1>1 DEF Done, Runs
  <1> QED BY <1>1, <1>2, EvolvesSelf

LEMMA SessionHolds ==
    ASSUME ReducerAssumption, MissionInv, Session
    PROVE  MissionInv' /\ NoAct
  <1> Budget \in Nat
    BY DEF ReducerAssumption
  <1>1. at.wait /\ at' = at
    BY DEF Session, SessionPause, SessionResume, SessionCancel
  <1>2. at.stage \notin Ended
    BY <1>1 DEF MissionInv, Legal, Asking, Ended
  <1>3. /\ Evolves(missionRun, Pause(missionRun), {}) /\ Evolves(missionRun, Resume(missionRun), {})
        /\ Evolves(missionRun, missionRun, {}) /\ Done(missionRun) = missionRun
    BY MissionRunIs, PauseEvolves DEF MissionInv
  <1>4. missionRun' \in {Done(Pause(missionRun)), Done(Resume(missionRun)), Done(missionRun)}
    BY <1>3, Zenon DEF Session, SessionPause, SessionResume, SessionCancel
  <1> QED BY <1>1, <1>2, <1>3, <1>4, EvolvesHolds, Zenon

\* The next action of the controller: nothing is unknown where it is chosen.
LEMMA BeginActHolds ==
    ASSUME ApplicationAssumption, MissionInv, BeginAct
    PROVE  MissionInv' /\ NoAct
  <1>1. at.stage = "act" /\ ~at.wait /\ missionRun' = missionRun
    BY DEF BeginAct, Begin
  <1>2. PICK k \in {"progress", "plan", "trial"} :
          (k # "progress" => at.action <= Actions) /\ at' = [To(k) EXCEPT !.action = at.action]
    BY DEF BeginAct
  <1>3. at.stage \notin Ended \cup Ending
    BY <1>1 DEF Ended, Ending
  <1>4. Legal(at) /\ Clear(missionRun) /\ ~Uncertain(missionRun) /\ Sure(missionRun, at)
    <2>1. /\ Legal(at) /\ Held(missionRun, at) /\ Sure(missionRun, at)
          /\ Uncertain(missionRun) => Calm(at)
      BY <1>3 DEF MissionInv
    <2>2. ~Calm(at)
      BY <1>1 DEF Calm
    <2> QED BY <1>1, <2>1, <2>2 DEF Held, Clear
  <1>5. Legal(at') /\ at'.stage = k /\ ~at'.wait
    <2>1. k # "progress" => at.action <= 2
      <3>1. Actions \in 1 .. 2 /\ at.action \in 1 .. 3
        BY <1>4, PlacesAre DEF ApplicationAssumption
      <3> QED BY <1>2, <3>1
    <2>2. LET a == [To(k) EXCEPT !.action = at.action] IN Legal(a) /\ a.stage = k /\ ~a.wait
      BY <1>1, <1>4, <2>1, ActIs
    <2> QED BY <1>2, <2>2
  <1>6. Sure(missionRun, at')
    <2>1. ~Late(missionRun, at)
      BY <1>1 DEF Late, PastLoop, Ended, Ending
    <2>2. Doubtful(missionRun) = {}
      BY <1>1, <1>4, <2>1 DEF Sure
    <2> QED BY <2>2 DEF Sure
  <1>7. k \notin Ended
    BY DEF Ended
  <1>8. Evolves(missionRun, missionRun, {}) /\ Done(missionRun) = missionRun
    BY MissionRunIs
  <1> QED BY <1>1, <1>3, <1>4, <1>5, <1>6, <1>7, <1>8, EvolvesHolds, Zenon

LEMMA BeginArchiveHolds ==
    ASSUME ReducerAssumption, ApplicationAssumption, MissionInv, BeginArchive
    PROVE  MissionInv' /\ NoAct
  <1> Budget \in Nat /\ External \subseteq ToolCalls
    BY DEF ReducerAssumption, ApplicationAssumption
  <1>1. at.stage = "archive" /\ ~at.wait
    BY DEF BeginArchive, Begin
  <1>2. CASE Archived
    <2>1. at' = To("finish") /\ missionRun' = missionRun
      BY <1>2 DEF Archived
    <2>2. at.stage \notin Ended \cup Ending
      BY <1>1 DEF Ended, Ending
    <2>3. Clear(missionRun) /\ Legal(at)
      <3>1. Held(missionRun, at) /\ Legal(at)
        BY <2>2 DEF MissionInv
      <3> QED BY <1>1, <3>1 DEF Held, Clear
    <2>4. Legal(at') /\ at'.stage = "finish" /\ ~at'.wait /\ Calm(at')
      BY <2>1, <2>3, OnwardIs, ToIs, Zenon
    <2>5. at'.stage \notin Ended /\ at'.stage \in PastLoop
      BY <2>4 DEF Ended, PastLoop
    <2>6. Sure(missionRun, at')
      BY <2>5, LateIs
    <2>7. Evolves(missionRun, missionRun, {}) /\ Done(missionRun) = missionRun
      BY MissionRunIs
    <2> QED BY <2>1, <2>2, <2>3, <2>4, <2>5, <2>6, <2>7, EvolvesHolds, Zenon
  <1>3. CASE Take(LAMBDA r : R(RecordBlocker(r, "archive_failed"), To("finish")))
    <2>1. PICK n \in Rejecting :
            Becomes(Escape(R(RecordBlocker(Called(n), "archive_failed"), To("finish"))))
      BY <1>3 DEF Take, Meets, Called
    <2>2. "archive" \in Stages \ (Ended \cup Ending)
      BY DEF Stages, Asking, Ended, Ending
    <2>3. Ready(Called(n))
      BY <1>1, <2>2, StageReady
    <2>4. Fits(Called(n), R(RecordBlocker(Called(n), "archive_failed"), To("finish")))
      BY <1>1, <2>3, ArchiveBegins
    <2> QED BY <2>1, <2>4, FitsHolds
  <1> QED BY <1>2, <1>3 DEF BeginArchive

\* The final dossier completes the run, leaves it blocked, or raises.
LEMMA FinishHolds ==
    ASSUME ReducerAssumption, ApplicationAssumption, MissionInv, Finish
    PROVE  MissionInv' /\ NoAct
  <1> Budget \in Nat /\ External \subseteq ToolCalls
    BY DEF ReducerAssumption, ApplicationAssumption
  <1>1. Begin("finish") /\ Take(LAMBDA r : R(Dossier(r, TRUE), To("done")))
    BY DEF Finish
  <1>2. PICK n \in Rejecting : Becomes(Escape(R(Dossier(Called(n), TRUE), To("done"))))
    BY <1>1 DEF Take, Meets, Called
  <1>3. at.stage = "finish" /\ ~at.wait
    BY <1>1 DEF Begin
  <1> DEFINE r == Called(n)
             d == Dossier(r, TRUE)
             p == Done(d)
  <1>4. Ready(r)
    <2>1. "finish" \in Stages \ (Ended \cup Ending)
      BY DEF Stages, Asking, Ended, Ending
    <2> QED BY <1>3, <2>1, StageReady
  <1>5. Good(r) /\ Open(r) /\ Clear(r) /\ Legal(at)
    BY <1>3, <1>4, SafeSelf DEF Ready
  <1>6. SameRun(missionRun, r)
    BY RejectingIs, FailSame DEF MissionInv, Called
  <1> HIDE DEF r
  <1>7. /\ Good(d) /\ Admitted(d) \subseteq Admitted(r)
        /\ d.state \in Terminal =>
             /\ d.ok /\ d.state = "completed" /\ d.blockers = {}
             /\ r.blockers \subseteq {"paused_by_operator"} /\ Unsettled(d) \subseteq Unsettled(r)
    <2>1. PICK b : b = TRUE
      OBVIOUS
    <2>2. b \in BOOLEAN
      BY <2>1
    <2>3. r.state \notin Terminal
      BY <1>5 DEF Open
    <2> QED BY <1>5, <2>1, <2>2, <2>3, DossierGood, Zenon
  <1>8. missionRun' = p /\ at' = IF d.ok THEN To("done") ELSE To("failing")
    <2>1. at.stage \notin Loop
      BY <1>3 DEF Loop
    <2>2. Escape(R(d, To("done"))) = IF d.ok THEN R(d, To("done")) ELSE R(d, To("failing"))
      BY <2>1 DEF Escape, R
    <2>3. /\ R(d, To("done")).r = d /\ R(d, To("done")).at = To("done")
          /\ R(d, To("failing")).r = d /\ R(d, To("failing")).at = To("failing")
      BY DEF R
    <2>4. Becomes(Escape(R(d, To("done"))))
      BY <1>2 DEF r
    <2> QED BY <2>2, <2>3, <2>4, Zenon DEF Becomes
  <1> HIDE DEF d
  <1>9. SameRun(d, p) /\ Good(p) /\ p.ok /\ p.fail = 0
    BY <1>7, DoneSame
  <1> HIDE DEF p
  <1>10. /\ p.state = d.state /\ p.blockers = d.blockers
         /\ Unsettled(p) = Unsettled(d) /\ Admitted(p) = Admitted(d)
         /\ Admitted(r) = Admitted(missionRun)
    BY <1>6, <1>9, SamePredicates DEF SameRun
  <1>11. p.state = "completed" => Unsettled(p) = {} /\ p.blockers = {}
    <2>1. p.state = "completed" => d.state \in Terminal
      BY <1>10 DEF Terminal
    <2>2. r.blockers \subseteq {"paused_by_operator"} => Unsettled(r) = {}
      BY <1>5 DEF Clear, Blocked
    <2> QED BY <1>7, <1>10, <2>1, <2>2
  <1>12. /\ Legal(at') /\ Calm(at') /\ at'.stage \in {"done", "failing"}
         /\ at'.stage = "failing" => ~d.ok
    <2>1. "done" \in Ended /\ Onward("failing") /\ "done" \in Quiet /\ "failing" \in Quiet
      BY StagesAre DEF Onward, Ended
    <2>2. /\ Legal(To("done")) /\ To("done").stage = "done" /\ Calm(To("done"))
          /\ Legal(To("failing")) /\ To("failing").stage = "failing" /\ Calm(To("failing"))
      BY <1>5, <2>1, ToIs, Zenon
    <2> QED BY <1>8, <2>2
  <1>13. at'.stage = "failing" => Open(p)
    BY <1>7, <1>10, <1>12 DEF Open
  <1>14. NoAct
    <2>1. (Admitted(p) \ Admitted(missionRun)) \cap Repeating = {}
      BY <1>7, <1>10
    <2>2. NoRepeat(missionRun, p)
      BY <2>1, NothingRepeated
    <2> QED BY <1>8, <2>2 DEF NoAct
  <1>15. NothingLeftOpen'
    <2>1. at'.stage # "failed"
      BY <1>12
    <2> QED BY <1>8, <1>11, <2>1 DEF NothingLeftOpen, CompletedIsSettled, FailedIsClosed
  <1>16. MissionInv'
    <2>1. Good(missionRun') /\ missionRun'.ok /\ missionRun'.fail = 0
      BY <1>8, <1>9
    <2>2. at'.stage \notin Ended => at'.stage = "failing" /\ Open(missionRun')
      BY <1>8, <1>12, <1>13 DEF Ended
    <2>3. at'.stage \in Ended \cup Ending
      BY <1>12 DEF Ended, Ending
    <2>4. Sure(missionRun', at')
      BY <2>3, LateIs DEF PastLoop
    <2> QED BY <1>12, <1>15, <2>1, <2>2, <2>3, <2>4 DEF MissionInv
  <1> QED BY <1>14, <1>16

\* _abort_after_failure, the failure prefix and the session that closes a cancelled run.
LEMMA FailHolds ==
    ASSUME ReducerAssumption, MissionInv, Fail
    PROVE  MissionInv' /\ NoAct
  <1> Budget \in Nat
    BY DEF ReducerAssumption
  <1>1. PICK n \in Rejecting, fails \in BOOLEAN : FailsWith(AbortAfterFailure(Called(n)), fails)
    BY DEF Fail, Called
  <1> DEFINE r == Called(n)
             a == AbortAfterFailure(r)
             b == ArchivePrefix(a, fails)
             c == SessionCloses(b)
             p == Done(c)
  <1>2. at' = To("failed") /\ at.stage \in Ending
    BY DEF Fail, Ending
  <1>3. missionRun' = p
    BY <1>1 DEF FailsWith
  <1>4. SameRun(missionRun, r) /\ Good(r) /\ r.ok
    BY RejectingIs, FailSame DEF MissionInv, Called
  <1> HIDE DEF r
  <1>5. Open(r) /\ Admitted(r) = Admitted(missionRun) /\ Legal(at)
    <2>1. Open(missionRun) /\ Legal(at)
      BY <1>2, StagesAre DEF MissionInv
    <2> QED BY <1>4, <2>1, SamePredicates
  <1>6. Closed(r, a)
    BY <1>4, <1>5, AbortAfterFailureCloses
  <1> HIDE DEF a
  <1>7. Closed(r, b)
    <2> DEFINE e == RecordBlocker(a, "failure_archive_failed")
    <2>1. "failure_archive_failed" \in Names /\ Good(a)
      BY <1>6, NamesAre DEF Closed
    <2>2. Evolves(a, e, {}) /\ e.state = a.state
      BY <2>1, BlockerState, Zenon
    <2>3. b \in {a, Done(e)}
      BY DEF ArchivePrefix
    <2> HIDE DEF e, b
    <2>4. Closed(r, e)
      BY <1>6, <2>2, ClosedOn DEF Evolves
    <2> QED BY <1>6, <2>3, <2>4, ClosedDone
  <1> HIDE DEF b
  <1>8. Closed(r, c)
    <2>1. Good(Abort(b)) /\ SameLanes(b, Abort(b)) /\ Abort(b).state \in {b.state, "aborted"}
      BY <1>7, AbortGood DEF Closed
    <2>2. Closed(r, Abort(b))
      BY <1>7, <2>1, ClosedOn
    <2> QED BY <1>7, <2>2 DEF SessionCloses
  <1> HIDE DEF c
  <1>9. Closed(r, p) /\ p.ok /\ p.fail = 0
    BY <1>8, ClosedDone, DoneSame DEF Closed
  <1> HIDE DEF p
  <1>10. Legal(at') /\ at'.stage = "failed" /\ Calm(at')
    <2>1. "failed" \in Ended /\ "failed" \in Quiet
      BY StagesAre DEF Ended
    <2> QED BY <1>2, <1>5, <2>1, ToIs, Zenon
  <1>11. NoAct
    <2>1. (Admitted(p) \ Admitted(missionRun)) \cap Repeating = {}
      BY <1>5, <1>9 DEF Closed
    <2>2. NoRepeat(missionRun, p)
      BY <2>1, NothingRepeated
    <2> QED BY <1>3, <2>2 DEF NoAct
  <1>12. NothingLeftOpen'
    BY <1>3, <1>9 DEF NothingLeftOpen, CompletedIsSettled, FailedIsClosed, Closed, Told
  <1>13. MissionInv'
    <2>1. Good(missionRun') /\ missionRun'.ok /\ missionRun'.fail = 0
      BY <1>3, <1>9 DEF Closed
    <2>2. at'.stage \in Ended
      BY <1>10 DEF Ended
    <2>3. Sure(missionRun', at')
      BY <2>2, LateIs DEF PastLoop
    <2> QED BY <1>10, <1>12, <2>1, <2>2, <2>3 DEF MissionInv
  <1> QED BY <1>11, <1>13

-----------------------------------------------------------------------------
(* The theorems.                                                           *)

LEMMA MissionStarts ==
    ASSUME ReducerAssumption, MissionInit
    PROVE  MissionInv
  <1>1. Good(Created) /\ Created.ok /\ Created.fail = 0
    BY CreatedGood DEF ReducerAssumption
  <1>2. missionRun = Created
    BY DEF MissionInit
  <1>3. /\ Legal(at) /\ at.stage = "context" /\ ~at.wait
    BY DEF MissionInit, Legal, Places, Stages, Asking
  <1>4. Created.state = "planned" /\ Created.blockers = {} /\ Created.events = <<>>
    BY DEF Created
  <1>5. Unsettled(Created) = {} /\ Doubtful(Created) = {}
    <2>1. Len(Created.events) = 0
      BY <1>4
    <2> QED BY <2>1 DEF Unsettled, Doubtful, Admitted
  <1>6. Open(Created) /\ Held(Created, at) /\ ~Uncertain(Created) /\ Sure(Created, at)
    BY <1>3, <1>4, <1>5 DEF Open, Terminal, Held, Uncertain, Sure
  <1>7. NothingLeftOpen
    BY <1>2, <1>3, <1>4 DEF NothingLeftOpen, CompletedIsSettled, FailedIsClosed
  <1> QED BY <1>1, <1>2, <1>3, <1>6, <1>7 DEF MissionInv

LEMMA MissionStep ==
    ASSUME ReducerAssumption, ApplicationAssumption, MissionInv, [MissionNext]_missionVars
    PROVE  MissionInv' /\ NoAct
  <1> Budget \in Nat /\ External \subseteq ToolCalls
    BY DEF ReducerAssumption, ApplicationAssumption
  <1>1. CASE BeginPlain
    BY <1>1, BeginPlainHolds
  <1>2. CASE \/ BeginRecords \/ BeginStep \/ BeginPlan \/ BeginTrial
             \/ BeginProgress \/ BeginCheckpoint \/ BeginExperiment \/ BeginValidator
             \/ BeginSynthesis \/ BeginMemory
    BY <1>2, BeginsHold
  <1>3. CASE BeginAct \/ BeginArchive \/ Finish \/ Fail \/ Deliver
    BY <1>3, BeginActHolds, BeginArchiveHolds, FinishHolds, FailHolds, DeliverHolds
  <1>4. CASE \/ ReturnPlain \/ ReturnInjected \/ ReturnTool \/ ReturnExperiment
             \/ ReturnCheckpoint \/ ReturnSynthesis \/ ReturnMemory
    BY <1>4, ReturnsHold
  <1>5. CASE ReturnStep
    BY <1>5, ReturnStepHolds
  <1>6. CASE Session
    BY <1>6, SessionHolds
  <1>7. CASE UNCHANGED missionVars
    <2>1. missionRun' = missionRun /\ at' = at
      BY <1>7 DEF missionVars
    <2>2. NoAct
      BY <2>1, NothingRepeated DEF NoAct
    <2>3. NothingLeftOpen'
      BY <2>1 DEF MissionInv, NothingLeftOpen, CompletedIsSettled, FailedIsClosed
    <2> QED BY <2>1, <2>2, <2>3 DEF MissionInv
  <1>8. CASE Stopped
    BY <1>7, <1>8 DEF Stopped
  <1> QED BY <1>1, <1>2, <1>3, <1>4, <1>5, <1>6, <1>7, <1>8
          DEF MissionNext, Application, Return

(* Whichever stages are configured, whichever appends the native           *)
(* controller rejects and whenever the session pauses, resumes or cancels  *)
(* the mission, a completed run has every admission settled and no         *)
(* blocker, and a failed one leaves an admission open only with the        *)
(* blocker of its reconciliation (_run_unleased, _abort_after_failure).    *)
THEOREM MissionLeavesNothingOpen ==
    ASSUME ReducerAssumption, ApplicationAssumption
    PROVE  MissionSpec => []NothingLeftOpen
  <1>1. MissionInit => MissionInv
    BY MissionStarts
  <1>2. MissionInv /\ [MissionNext]_missionVars => MissionInv'
    BY MissionStep
  <1>3. MissionInv => NothingLeftOpen
    BY DEF MissionInv
  <1> QED BY <1>1, <1>2, <1>3, PTL DEF MissionSpec

(* Once the outcome of an external tool is unknown, be it that its blocker *)
(* is recorded or that the call was admitted and no settlement says it     *)
(* succeeded, no step of the mission admits a tool call, a controller step,*)
(* a checkpoint or an experiment (_UNCERTAIN_EXTERNAL_TOOL_OUTCOME_        *)
(* BLOCKERS).  The exception the property names is the experiment after a  *)
(* loop that an error ended before the blocker was recorded.               *)
THEOREM MissionDoesNotRepeat ==
    ASSUME ReducerAssumption, ApplicationAssumption
    PROVE  MissionSpec => NoActAfterUncertain
  <1>1. MissionInit => MissionInv
    BY MissionStarts
  <1>2. MissionInv /\ [MissionNext]_missionVars =>
          MissionInv' /\ [LET new == (Admitted(missionRun') \ Admitted(missionRun)) \cap Repeating
                          IN  /\ Uncertain(missionRun) => new = {}
                              /\ Doubtful(missionRun) # {} =>
                                   new \subseteq IF at.stage = "experiment" /\ LeftByError(missionRun)
                                                THEN {"experiment"} ELSE {}]_missionVars
    BY MissionStep DEF NoAct, NoRepeat
  <1> QED BY <1>1, <1>2, PTL DEF MissionSpec, NoActAfterUncertain

(* The ledger of a mission stays sound after every step, its projection is *)
(* what replaying the ledger gives, and a snapshot of it is accepted when  *)
(* it is loaded (_append, from_payload).                                   *)
THEOREM MissionLedgerIsSound ==
    ASSUME ReducerAssumption, ApplicationAssumption
    PROVE  MissionSpec =>
             []/\ LedgerSound(missionRun)
               /\ Projection(missionRun) = Projection(Replay(missionRun.events))
               /\ ProgressProjects(missionRun) => Restorable(missionRun)
  <1>1. MissionInit => MissionInv
    BY MissionStarts
  <1>2. MissionInv /\ [MissionNext]_missionVars => MissionInv'
    BY MissionStep
  <1>3. MissionInv => /\ LedgerSound(missionRun)
                      /\ Projection(missionRun) = Projection(Replay(missionRun.events))
                      /\ ProgressProjects(missionRun) => Restorable(missionRun)
    <2> SUFFICES ASSUME MissionInv
                 PROVE  /\ LedgerSound(missionRun)
                        /\ Projection(missionRun) = Projection(Replay(missionRun.events))
                        /\ ProgressProjects(missionRun) => Restorable(missionRun)
      OBVIOUS
    <2>1. Good(missionRun)
      BY DEF MissionInv
    <2> QED BY <2>1, GoodIsReplay, GoodIsRestorable DEF Good, LedgerHolds
  <1> QED BY <1>1, <1>2, <1>3, PTL DEF MissionSpec
=============================================================================
