----------------------------- MODULE PeerChannel -----------------------------
(***************************************************************************)
(* The run-scoped question and answer channel of aegis_cognition/          *)
(* subagents.py (_AgentPeerChannel) and the handlers of the tasks that use *)
(* it.  The bodies under _condition contain no await, so each is one step; *)
(* a coroutine that waits for an answer resumes in a later step of the     *)
(* loop, and other coroutines may run in between.  Timeouts and the        *)
(* cancellation of a task may come at any point.  Texts are left out.  An  *)
(* inbox is the set of its questions: they are appended in the order of    *)
(* their identifiers and leave from the left, so the first is the earliest.*)
(***************************************************************************)
EXTENDS Naturals

CONSTANTS Tasks,         \* the peer-enabled tasks of one run
          MaxExchanges,  \* _MAX_PEER_EXCHANGES_PER_TASK
          MaxQuestions   \* bound: questions asked in the run

PeerAssumption == MaxExchanges \in Nat \ {0} /\ MaxQuestions \in Nat

VARIABLES active, finished, exchangeCounts, inExchange, inboxes,
          pending,             \* the questions in _pending
          pendingByRecipient,  \* the identifier each recipient is asked, or 0
          outgoingBySender,    \* the identifier each sender has asked, or 0
          response,            \* the future of each question
          nextId,
          pc,          \* where the handler of each task is
          held,        \* the question a handler has taken and not yet answered
          cancelled    \* tasks whose cancellation has not been thrown in yet

channel == <<active, finished, exchangeCounts, inExchange, inboxes, pending,
             pendingByRecipient, outgoingBySender, response, nextId>>
vars == <<channel, pc, held, cancelled>>

Ids == 1 .. MaxQuestions
Question == [id : Ids, sender : Tasks, recipient : Tasks]
NoQuestion == [id |-> 0]

Init ==
    /\ active = {} /\ finished = {} /\ inExchange = {} /\ pending = {}
    /\ exchangeCounts = [t \in Tasks |-> 0]
    /\ inboxes = [t \in Tasks |-> {}]
    /\ pendingByRecipient = [t \in Tasks |-> 0]
    /\ outgoingBySender = [t \in Tasks |-> 0]
    /\ response = [i \in Ids |-> "none"] /\ nextId = 1
    /\ pc = [t \in Tasks |-> "queued"]
    /\ held = [t \in Tasks |-> NoQuestion]
    /\ cancelled = {}

Earliest(inbox) == CHOOSE q \in inbox : \A r \in inbox : q.id <= r.id

Goto(t, place) == pc' = [pc EXCEPT ![t] = place]

-----------------------------------------------------------------------------
(* The channel.                                                            *)

Activate(t) ==
    /\ pc[t] = "queued" /\ t \notin finished
    /\ active' = active \cup {t}
    /\ Goto(t, "running")
    /\ UNCHANGED <<finished, exchangeCounts, inExchange, inboxes, pending,
                   pendingByRecipient, outgoingBySender, response, nextId,
                   held, cancelled>>

\* The conditions under which ask does not raise; a refusal changes nothing
\* and the handler notes it.
CanAsk(t, u) ==
    /\ t # u /\ {t, u} \subseteq active
    /\ exchangeCounts[t] < MaxExchanges /\ exchangeCounts[u] < MaxExchanges
    /\ {t, u} \cap inExchange = {}

Ask(t, u) ==
    LET q == [id |-> nextId, sender |-> t, recipient |-> u]
    IN  /\ pc[t] = "running" /\ held[t] = NoQuestion
        /\ CanAsk(t, u) /\ nextId \in Ids
        /\ exchangeCounts' = [exchangeCounts EXCEPT ![t] = @ + 1, ![u] = @ + 1]
        /\ inExchange' = inExchange \cup {t, u}
        /\ pending' = pending \cup {q}
        /\ pendingByRecipient' = [pendingByRecipient EXCEPT ![u] = nextId]
        /\ outgoingBySender' = [outgoingBySender EXCEPT ![t] = nextId]
        /\ inboxes' = [inboxes EXCEPT ![u] = @ \cup {q}]
        /\ response' = [response EXCEPT ![nextId] = "open"]
        /\ nextId' = nextId + 1
        /\ Goto(t, "asking") /\ held' = [held EXCEPT ![t] = q]
        /\ UNCHANGED <<active, finished, cancelled>>

Answered(t) ==
    /\ pc[t] = "asking" /\ t \notin cancelled
    /\ response[held[t].id] = "answer"
    /\ Goto(t, "running") /\ held' = [held EXCEPT ![t] = NoQuestion]
    /\ UNCHANGED <<channel, cancelled>>

\* What "except BaseException" leaves of the inboxes and of the exchanges.
DroppedFrom(q) ==
    IF q \in pending
    THEN [inboxes EXCEPT ![q.recipient] = @ \ {q}] ELSE inboxes

\* ask raises: the peer is gone (the handler carries on), or this task is
\* cancelled, also when an answer had just arrived.
AskFails(t) ==
    LET q == held[t]
    IN  /\ pc[t] = "asking"
        /\ t \in cancelled \/ response[q.id] = "error"
        /\ pending' = pending \ {q}
        /\ inboxes' = DroppedFrom(q)
        /\ pendingByRecipient' = [pendingByRecipient EXCEPT ![q.recipient] =
                                     IF @ = q.id THEN 0 ELSE @]
        /\ outgoingBySender' = [outgoingBySender EXCEPT ![t] =
                                     IF @ = q.id THEN 0 ELSE @]
        /\ inExchange' = inExchange \ {t, q.recipient}
        /\ Goto(t, IF t \in cancelled THEN "closing" ELSE "running")
        /\ held' = [held EXCEPT ![t] = NoQuestion]
        /\ cancelled' = cancelled \ {t}
        /\ UNCHANGED <<active, finished, exchangeCounts, response, nextId>>

\* take_pending and receive; finish_or_receive (last) answers a late question
\* before the handler ends.
Take(t, last) ==
    /\ pc[t] = "running" /\ held[t] = NoQuestion /\ inboxes[t] # {}
    /\ held' = [held EXCEPT ![t] = Earliest(inboxes[t])]
    /\ inboxes' = [inboxes EXCEPT ![t] = @ \ {Earliest(@)}]
    /\ Goto(t, IF last THEN "late" ELSE "running")
    /\ UNCHANGED <<active, finished, exchangeCounts, inExchange, pending,
                   pendingByRecipient, outgoingBySender, response, nextId,
                   cancelled>>

AfterReply(t) == IF pc[t] = "late" THEN "closing" ELSE "running"

\* The exchange is over for both.
Reply(t) ==
    LET q == held[t]
    IN  /\ pc[t] \in {"running", "late"} /\ q # NoQuestion
        /\ q \in pending /\ response[q.id] = "open"
        /\ response' = [response EXCEPT ![q.id] = "answer"]
        /\ pending' = pending \ {q}
        /\ pendingByRecipient' = [pendingByRecipient EXCEPT ![t] = 0]
        /\ outgoingBySender' = [outgoingBySender EXCEPT ![q.sender] = 0]
        /\ inExchange' = inExchange \ {q.sender, t}
        /\ Goto(t, AfterReply(t)) /\ held' = [held EXCEPT ![t] = NoQuestion]
        /\ UNCHANGED <<active, finished, exchangeCounts, inboxes, nextId, cancelled>>

\* A question that is no longer pending: AgentPeerMessageError, which the
\* handler notes as an undelivered reply.
ReplyStale(t) ==
    /\ pc[t] \in {"running", "late"} /\ held[t] # NoQuestion
    /\ held[t] \notin pending
    /\ Goto(t, AfterReply(t)) /\ held' = [held EXCEPT ![t] = NoQuestion]
    /\ UNCHANGED <<channel, cancelled>>

\* The asker was cancelled, which cancels its future, and has not run yet:
\* set_result raises InvalidStateError, which ends the answering handler.
ReplyRaises(t) ==
    /\ pc[t] \in {"running", "late"} /\ held[t] # NoQuestion
    /\ held[t] \in pending /\ response[held[t].id] # "open"
    /\ Goto(t, "crashed") /\ held' = [held EXCEPT ![t] = NoQuestion]
    /\ UNCHANGED <<channel, cancelled>>

\* _close_locked fails the question the task was asked and the one it asked.
Orphaned(t) ==
    {q \in pending : q.id \in {pendingByRecipient[t], outgoingBySender[t]}}

CloseLocked(t) ==
    LET dead == Orphaned(t)
    IN  /\ active' = active \ {t} /\ finished' = finished \cup {t}
        /\ pending' = pending \ dead
        /\ response' = [i \in Ids |->
               IF response[i] = "open" /\ \E q \in dead : q.id = i
               THEN "error" ELSE response[i]]
        /\ pendingByRecipient' = [u \in Tasks |->
               IF u = t \/ \E q \in dead : q.sender = t /\ q.recipient = u
               THEN 0 ELSE pendingByRecipient[u]]
        /\ outgoingBySender' = [u \in Tasks |->
               IF u = t \/ \E q \in dead : q.recipient = t /\ q.sender = u
               THEN 0 ELSE outgoingBySender[u]]
        /\ inExchange' = inExchange \ UNION {{q.sender, q.recipient} : q \in dead}
        /\ inboxes' = [u \in Tasks |-> IF u = t THEN {} ELSE inboxes[u] \ dead]
        /\ UNCHANGED <<exchangeCounts, nextId>>

\* The handler has nothing more to do and closes its inbox.
FinishOrReceive(t) ==
    /\ pc[t] = "running" /\ held[t] = NoQuestion /\ inboxes[t] = {}
    /\ CloseLocked(t) /\ Goto(t, "closing") /\ UNCHANGED <<held, cancelled>>

\* finish, in the supervisor's "finally" or for a task that never ran.
Finish(t) ==
    /\ pc[t] \in {"queued", "closing", "crashed"}
    /\ CloseLocked(t) /\ Goto(t, "done") /\ UNCHANGED <<held, cancelled>>

\* A deadline or a cancelled run.  A coroutine that waits for an answer has the
\* future cancelled at once, and sees it when it next runs.
Cancel(t) ==
    /\ t \notin cancelled
    /\ \/ /\ pc[t] \in {"running", "late"}
          /\ Goto(t, "closing") /\ held' = [held EXCEPT ![t] = NoQuestion]
          /\ UNCHANGED <<channel, cancelled>>
       \/ /\ pc[t] = "asking"
          /\ cancelled' = cancelled \cup {t}
          /\ response' = [response EXCEPT ![held[t].id] =
                             IF @ = "open" THEN "cancelled" ELSE @]
          /\ UNCHANGED <<active, finished, exchangeCounts, inExchange, inboxes,
                         pending, pendingByRecipient, outgoingBySender, nextId,
                         pc, held>>

RunsHandler(t) ==
    \/ Activate(t) \/ Answered(t) \/ AskFails(t)
    \/ \E u \in Tasks : Ask(t, u)
    \/ \E last \in BOOLEAN : Take(t, last)
    \/ Reply(t) \/ ReplyStale(t) \/ ReplyRaises(t)
    \/ FinishOrReceive(t) \/ Finish(t)

Next == \E t \in Tasks : RunsHandler(t) \/ Cancel(t)

Spec == Init /\ [][Next]_vars

\* Handlers get their turns and model calls end; no deadline has to help.
FairSpec == Spec /\ \A t \in Tasks : WF_vars(RunsHandler(t))

-----------------------------------------------------------------------------
(* Properties.                                                             *)

\* The channel keeps its shape, and no task exceeds its share of exchanges,
\* asked or asking.
TypeOK ==
    /\ active \cap finished = {} /\ active \cup finished \subseteq Tasks
    /\ exchangeCounts \in [Tasks -> 0 .. MaxExchanges]
    /\ inExchange \subseteq Tasks /\ pending \subseteq Question
    /\ pendingByRecipient \in [Tasks -> Ids \cup {0}]
    /\ outgoingBySender \in [Tasks -> Ids \cup {0}]
    /\ inboxes \in [Tasks -> SUBSET Question]
    /\ response \in [Ids -> {"none", "open", "answer", "error", "cancelled"}]
    /\ pc \in [Tasks -> {"queued", "running", "asking", "late", "closing",
                         "crashed", "done"}]

\* A question in an inbox is one that can still be answered: withdrawing or
\* failing a question also removes it from the inbox of its recipient.
InboxIsPending == \A t \in Tasks : inboxes[t] \subseteq pending

\* The recipient of a pending question is recorded for another one: the entry
\* in _pending_by_recipient was overwritten, so closing the recipient fails
\* that other question only.
Overwritten(t) ==
    held[t] \in pending /\ pendingByRecipient[held[t].recipient] # held[t].id

\* Whoever asks gets an answer or an error without the help of its deadline,
\* unless another question to the same recipient overwrote the record of its
\* own: that asker waits for its deadline (_close_locked fails the recorded
\* question only).
AskerIsReleased ==
    \A t \in Tasks : []<>(pc[t] # "asking" \/ Overwritten(t))

\* A task has one pending exchange at a time, as asker or as asked (the agent
\* API, the design document and the model's instructions say so).
OneExchangePending ==
    \A p, q \in pending :
        {p.sender, p.recipient} \cap {q.sender, q.recipient} # {} => p = q
=============================================================================
