----------------------------- MODULE DesktopMcp -----------------------------
(***************************************************************************)
(* One MCP server of the desktop service (aegis_cognition/                 *)
(* desktop_service.py): the requests that test, approve, activate and      *)
(* stop it, its runtime on a loop of its own (_McpRuntime), the watcher    *)
(* that follows the server's catalogue, and the tool calls of an agent.    *)
(*                                                                         *)
(* A tool is its descriptor's hash.  Two registries hold the tools with    *)
(* the grants under which they run without asking: the runtime's and the   *)
(* host's, from which an agent chooses.  Requests are served one at a      *)
(* time; the watcher and the calls run beside them.  The metadata file of  *)
(* the server does not change.                                             *)
(***************************************************************************)
EXTENDS Naturals

CONSTANTS Tools,       \* descriptors the server may advertise
          ReadOnly,    \* those it labels read-only
          Attempts,    \* refreshes tried for one notification
          MaxRevision, \* bound: revision of the capability state
          MaxChanges,  \* bound: catalogue changes
          MaxFailures  \* bound: failures of the watcher

McpAssumption == ReadOnly \subseteq Tools /\ Attempts \in Nat \ {0}

VARIABLES advertised,  \* the server's catalogue
          listens,     \* whether it can be subscribed to
          record,      \* its persisted approval
          revision,    \* of the capability state
          snapshots,   \* tests that an activation may cite
          request,     \* the request being served
          provider,    \* whether the runtime has a provider for it
          known,       \* catalogue and grants the runtime has accepted
          runtimeReg,  \* what the runtime's registry holds
          hostReg,     \* what the host's registry holds
          watcher,     \* where the watcher is
          pending,     \* a notification has not been read
          lost,        \* tools that left the catalogue while it was active
          overdue,     \* history: the provider outlived a deactivation that timed out
          strayed,     \* history: a stop or an undo left tools in the host's registry
          call,        \* a tool call
          changes, failures

state == <<record, revision, snapshots>>
history == <<overdue, strayed>>
runtime == <<provider, known, runtimeReg, hostReg, watcher, pending, lost>>
server == <<advertised, listens, changes>>
vars == <<server, state, request, runtime, history, call, failures>>

Nothing == [tools |-> {}, grants |-> {}, there |-> FALSE]
Catalog(t, g) == [tools |-> t, grants |-> g, there |-> TRUE]
Idle == [at |-> "idle"]
Off == [at |-> "off", first |-> FALSE, tries |-> 0]
At(p) == [Off EXCEPT !.at = p]
NoCall == [at |-> "none"]

Init ==
    /\ advertised \in SUBSET Tools /\ listens \in BOOLEAN /\ changes = 0
    /\ record = [approved |-> FALSE, enabled |-> FALSE]
    /\ revision = 0 /\ snapshots = {} /\ request = Idle
    /\ provider = FALSE /\ known = Nothing /\ runtimeReg = Nothing
    /\ hostReg = Nothing /\ watcher = Off /\ pending = FALSE /\ lost = {}
    /\ overdue = FALSE /\ strayed = FALSE /\ call = NoCall /\ failures = 0

\* The catalogue lock: the watcher holds it between the two registrations.
LockFree == watcher.at # "callback"

-----------------------------------------------------------------------------
(* Requests.                                                               *)

\* _test_mcp
Test ==
    /\ request = Idle /\ record.approved /\ ~ provider
    /\ snapshots' = snapshots \cup {[revision |-> revision, tools |-> advertised]}
    /\ UNCHANGED <<server, record, revision, request, runtime, history, call, failures>>

\* _set_capability_state, _deactivate_mcp: the record is written, its tests are
\* forgotten, and the tools are hidden before the transport is stopped.
SetState(a) ==
    /\ request = Idle /\ revision < MaxRevision
    /\ record' = [approved |-> a, enabled |-> FALSE]
    /\ revision' = revision + 1 /\ snapshots' = {}
    /\ hostReg' = Nothing /\ strayed' = FALSE /\ request' = [at |-> "stop"]
    /\ UNCHANGED <<server, provider, known, runtimeReg, watcher, pending, lost, overdue, call,
                   failures>>

\* _activate_mcp up to the runtime: a test of this revision is used up, and the
\* grants are among the tools it showed as read-only.
Activate(s, g) ==
    /\ request = Idle /\ record.approved
    /\ revision < MaxRevision /\ s.revision = revision /\ g \subseteq s.tools \cap ReadOnly
    /\ snapshots' = snapshots \ {s}
    /\ request' = [at |-> "activate", revision |-> revision, tools |-> s.tools, grants |-> g]
    /\ UNCHANGED <<server, record, revision, runtime, history, call, failures>>

MutRuntimeActivate ==
    /\ request.at = "activate" /\ LockFree /\ advertised = request.tools
    /\ provider' = TRUE /\ known' = Catalog(request.tools, request.grants)
    /\ runtimeReg' = known' /\ lost' = {}
    /\ watcher' = IF listens THEN At("subscribe") ELSE Off
    /\ request' = [request EXCEPT !.at = "registered"]
    /\ overdue' = FALSE
    /\ UNCHANGED <<server, state, hostReg, pending, strayed, call, failures>>

\* _McpRuntime._activate: the catalogue must be the one that was tested.  A
\* provider that was never stopped is replaced, and its watcher cancelled.
RuntimeActivate ==
    /\ request.at = "activate" /\ LockFree /\ advertised = request.tools
    /\ provider' = TRUE /\ known' = Catalog(request.tools, request.grants)
    /\ runtimeReg' = known' /\ lost' = {}
    /\ watcher' = Off /\ pending' = FALSE
    /\ request' = [request EXCEPT !.at = "registered"]
    /\ overdue' = FALSE
    /\ UNCHANGED <<server, state, hostReg, strayed, call, failures>>

\* The catalogue changed, the transport failed, the host's registry refused the
\* tools, or a wait for the runtime timed out (also when it has just finished);
\* the last such wait, for the watcher, comes after the host has the tools.
ActivateFails ==
    /\ request.at \in {"activate", "registered", "synced"}
    /\ request' = [at |-> "abandon"]
    /\ strayed' = (strayed \/ request.at = "synced")
    /\ UNCHANGED <<server, state, runtime, overdue, call, failures>>

\* _sync_mcp_tool_catalog for the host.
SyncHost ==
    /\ request.at = "registered"
    /\ hostReg' = Catalog(request.tools, request.grants) /\ strayed' = FALSE
    /\ request' = [request EXCEPT !.at = "synced"]
    /\ UNCHANGED <<server, state, provider, known, runtimeReg, watcher, pending, lost, overdue,
                   call, failures>>

StartNotifications ==
    /\ request.at = "synced"
    /\ watcher' = IF listens THEN At("subscribe") ELSE Off
    /\ request' = [request EXCEPT !.at = "saving"]
    /\ UNCHANGED <<server, state, provider, known, runtimeReg, hostReg, pending, lost, history,
                   call, failures>>

\* The record is written if the state is still the one the request saw.
Save ==
    /\ request.at = "saving" /\ revision = request.revision
    /\ record' = [approved |-> TRUE, enabled |-> TRUE]
    /\ revision' = revision + 1 /\ snapshots' = {}
    /\ request' = Idle
    /\ UNCHANGED <<server, runtime, history, call, failures>>

\* The state has changed, or cannot be written.
SaveFails ==
    /\ request.at = "saving"
    /\ request' = [at |-> "undo"]
    /\ UNCHANGED <<server, state, runtime, history, call, failures>>

\* _McpRuntime._deactivate, and what the request does when it returns (clean)
\* or reports that the transport did not stop: an activation that is undone
\* then hides the tools, unless the report takes it to the general handler,
\* which deactivates again and hides nothing.
Deactivate(clean) ==
    /\ request.at \in {"stop", "undo", "abandon"} /\ LockFree
    /\ provider' = FALSE /\ known' = Nothing /\ runtimeReg' = Nothing
    /\ watcher' = Off /\ pending' = FALSE /\ lost' = {}
    /\ hostReg' = IF request.at = "undo" /\ clean THEN Nothing ELSE hostReg
    /\ request' = IF request.at = "undo" /\ ~ clean THEN [at |-> "abandon"] ELSE Idle
    /\ strayed' = IF request.at = "undo" THEN ~ clean ELSE strayed
    /\ overdue' = FALSE
    /\ UNCHANGED <<server, state, call, failures>>

\* _submit gives up after 60 seconds and cancels the deactivation where it waits
\* for the catalogue lock, which a refresh holds while it reads: nothing has been
\* stopped, and the request ends, or is undone, as after any other report.
DeactivateTimesOut ==
    /\ request.at \in {"stop", "undo", "abandon"}
    /\ request' = IF request.at = "undo" THEN [at |-> "abandon"] ELSE Idle
    /\ overdue' = provider /\ strayed' = (strayed \/ provider)
    /\ UNCHANGED <<server, state, runtime, call, failures>>

\* Another capability's record is written, by an agent's worker or by another
\* process of the profile.
OtherWrite ==
    /\ revision < MaxRevision /\ revision' = revision + 1
    /\ UNCHANGED <<server, record, snapshots, request, runtime, history, call, failures>>

\* close: the records stay, the rest is of the process.
Restart ==
    /\ request = Idle /\ LockFree
    /\ provider' = FALSE /\ known' = Nothing /\ runtimeReg' = Nothing
    /\ hostReg' = Nothing /\ watcher' = Off /\ pending' = FALSE /\ lost' = {}
    /\ snapshots' = {} /\ call' = NoCall /\ overdue' = FALSE /\ strayed' = FALSE
    /\ UNCHANGED <<server, record, revision, request, failures>>

-----------------------------------------------------------------------------
(* The watcher.                                                            *)

\* The server changes its catalogue and notifies those who listen.
ServerChange(t) ==
    /\ changes < MaxChanges /\ t # advertised
    /\ advertised' = t /\ changes' = changes + 1
    /\ pending' = (pending \/ watcher.at \notin {"off", "subscribe"})
    /\ UNCHANGED <<listens, state, request, provider, known, runtimeReg, hostReg, watcher, lost,
                   history, call, failures>>

MutSubscribe ==
    /\ watcher.at = "subscribe"
    /\ watcher' = At("listen")
    /\ UNCHANGED <<server, state, request, provider, known, runtimeReg, hostReg, pending, lost,
                   history, call, failures>>

\* Once subscribed, the catalogue is read: it may have changed before.
Subscribe ==
    /\ watcher.at = "subscribe"
    /\ watcher' = [At("refresh") EXCEPT !.first = TRUE]
    /\ UNCHANGED <<server, state, request, provider, known, runtimeReg, hostReg, pending, lost,
                   history, call, failures>>

Notified ==
    /\ watcher.at = "listen" /\ pending
    /\ watcher' = At("refresh") /\ pending' = FALSE
    /\ UNCHANGED <<server, state, request, provider, known, runtimeReg, hostReg, lost, history,
                   call, failures>>

\* Grants survive for the tools that are still there.
Retained == Catalog(advertised, known.grants \cap advertised \cap ReadOnly)

\* _refresh_mcp_catalog: nothing has changed, or the runtime's registry takes
\* the new catalogue and the host's is to follow.
Refresh ==
    /\ watcher.at = "refresh"
    /\ IF advertised = known.tools
       THEN watcher' = At("listen") /\ UNCHANGED runtimeReg
       ELSE watcher' = [watcher EXCEPT !.at = "callback"] /\ runtimeReg' = Retained
    /\ UNCHANGED <<server, state, request, provider, known, hostReg, pending, lost, history, call,
                   failures>>

\* The host's registry takes it too, and it is accepted.  Nobody asks whether a
\* request has just hidden the tools of the server and waits to stop it.
Callback ==
    /\ watcher.at = "callback"
    /\ hostReg' = runtimeReg /\ known' = runtimeReg
    /\ lost' = lost \cup (known.tools \ runtimeReg.tools)
    /\ watcher' = At("listen")
    /\ strayed' = (strayed \/ request.at \in {"stop", "abandon"})
    /\ UNCHANGED <<server, state, request, provider, runtimeReg, pending, overdue, call, failures>>

\* The catalogue cannot be read, or the host's registry refuses it and the
\* runtime's is put back.  The first refresh is tried again by a new
\* subscription, another one a number of times and then given up: the watcher
\* listens on, with the tries it made.
RefreshFails ==
    /\ watcher.at \in {"refresh", "callback"} /\ failures < MaxFailures
    /\ failures' = failures + 1
    /\ runtimeReg' = known
    /\ watcher' = CASE watcher.first -> At("subscribe")
                    [] ~ watcher.first /\ watcher.tries + 1 = Attempts -> [At("listen") EXCEPT !.tries = Attempts]
                    [] OTHER -> [At("refresh") EXCEPT !.tries = watcher.tries + 1]
    /\ pending' = (pending /\ ~ watcher.first)
    /\ UNCHANGED <<server, state, request, provider, known, hostReg, lost, history, call>>

StreamFails ==
    /\ watcher.at = "listen" /\ failures < MaxFailures
    /\ failures' = failures + 1 /\ watcher' = At("subscribe") /\ pending' = FALSE
    /\ UNCHANGED <<server, state, request, provider, known, runtimeReg, hostReg, lost, history, call>>

-----------------------------------------------------------------------------
(* Tool calls.                                                             *)

\* A tool of the host's registry is chosen, with the effect it has there.
Authorize(t) ==
    /\ call = NoCall /\ t \in hostReg.tools
    /\ call' = [at |-> "authorized", tool |-> t, auto |-> t \in hostReg.grants]
    /\ UNCHANGED <<server, state, request, runtime, history, failures>>

\* invoke_if_registered_async, invoke: the runtime's registry must still have
\* that tool with that effect.
Dispatch ==
    /\ call.at = "authorized" /\ call.tool \in runtimeReg.tools
    /\ call.auto = (call.tool \in runtimeReg.grants)
    /\ call' = [call EXCEPT !.at = "running"]
    /\ UNCHANGED <<server, state, request, runtime, history, failures>>

CallEnds ==
    /\ call # NoCall /\ call' = NoCall
    /\ UNCHANGED <<server, state, request, runtime, history, failures>>

Serve ==
    \/ RuntimeActivate \/ ActivateFails \/ SyncHost \/ StartNotifications
    \/ Save \/ SaveFails \/ DeactivateTimesOut
    \/ \E c \in BOOLEAN : Deactivate(c)

Watch == Subscribe \/ Notified \/ Refresh \/ Callback

Next ==
    \/ Test \/ \E a \in BOOLEAN : SetState(a)
    \/ \E s \in snapshots, g \in SUBSET ReadOnly : Activate(s, g)
    \/ Serve \/ OtherWrite \/ Restart
    \/ \E t \in SUBSET Tools : ServerChange(t)
    \/ Watch \/ RefreshFails \/ StreamFails
    \/ \E t \in Tools : Authorize(t)
    \/ Dispatch \/ CallEnds

Spec == Init /\ [][Next]_vars

\* The request being served goes on, and so does the watcher.
FairSpec == Spec /\ WF_vars(Serve) /\ WF_vars(Watch)

-----------------------------------------------------------------------------
(* Properties.                                                             *)

\* Between requests, and when the watcher is not at work, an agent is offered
\* exactly the tools and the automatic access that the runtime will honour,
\* whatever the order of activation, notifications and failed refreshes.  The
\* code has two exceptions.  A deactivation timed out, and its server has not been
\* stopped or replaced since.  Or no server runs and the host still offers the
\* tools of one: a refresh registered them after _stop_mcp_runtime had hidden
\* them and before the runtime was asked, or the runtime reported a failure
\* while an activation that had given them to the host was undone.
HostMatchesRuntime ==
    request = Idle /\ LockFree =>
        \/ hostReg = runtimeReg
        \/ overdue
        \/ ~ provider /\ strayed

\* A tool that left the catalogue has to be granted again before it runs
\* without asking.
NoRevivedGrant == runtimeReg.grants \cap lost = {}

\* A server runs only for the record that approves and enables it, whichever
\* step of an activation fails, unless it has outlived a deactivation that timed
\* out and has not been stopped since.
ActiveIsEnabled ==
    request = Idle /\ provider /\ ~ overdue => record.approved /\ record.enabled

\* A call starts without asking only if the grant is still the accepted one.
AutoCallIsGranted ==
    [][call.at = "authorized" /\ call'.at = "running" /\ call.auto
          => call.tool \in known.grants]_vars

\* The watcher listens after it tried to read a change as often as it may.
GaveUp == watcher.at = "listen" /\ watcher.tries = Attempts

\* Once the server keeps its catalogue, the runtime of an activated server has
\* it: no change is missed between activation and subscription or when the
\* stream is lost.  The one change that is missed, until the next one, is that
\* whose refresh failed at every attempt.
CatalogConverges ==
    <>[](listens /\ provider /\ request = Idle /\ ~ overdue
            => known.tools = advertised \/ GaveUp)
=============================================================================
