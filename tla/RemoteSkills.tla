---------------------------- MODULE RemoteSkills ----------------------------
(***************************************************************************)
(* A skill that an MCP server offers to the desktop service                *)
(* (aegis_cognition/desktop_service.py): its approval for one version of   *)
(* its manifest, kept under a revision in the capability state, the        *)
(* readers that fetch its pages for agents, and the cache of pages.  The   *)
(* user's requests are served one at a time; readers run beside them.      *)
(* The server only moves to new versions; version 0 is a dynamic skill.    *)
(* An approval without enabling counts as none.                            *)
(***************************************************************************)
EXTENDS Naturals, Sequences

CONSTANTS Readers,     \* agents' reads
          MaxVersion,  \* bound: versions of the manifest
          MaxCache,    \* pages the cache holds (MAX_MCP_SKILL_CACHE_BYTES)
          MaxRevision  \* bound: revision of the capability state

Free == "free"  \* nobody holds the lock

SkillsAssumption ==
    MaxVersion \in Nat \ {0} /\ MaxCache \in Nat \ {0} /\ Free \notin Readers

VARIABLES manifest,   \* version the server offers
          record,     \* the approval: version, enabled, origin known
          revision,   \* of the capability state
          serverOn,   \* the server is enabled and active
          cache,      \* versions with a cached page, least recently used first
          cacheLock,  \* who holds the lock of the cache
          reader,     \* what each reader is doing
          user        \* what the user's request is doing

vars == <<manifest, record, revision, serverOn, cache, cacheLock, reader, user>>

Waiting == [at |-> "none", version |-> 0, seen |-> 0, revision |-> 0]
NoRequest == [at |-> "none", version |-> 0, enabled |-> FALSE, revision |-> 0]

Init ==
    /\ manifest = 1 /\ revision = 0 /\ serverOn = TRUE
    /\ record = [version |-> 0, enabled |-> FALSE, origin |-> FALSE]
    /\ cache = <<>> /\ cacheLock = Free
    /\ reader = [r \in Readers |-> Waiting] /\ user = NoRequest

\* _require_enabled_remote_skill
Enabled(v) == serverOn /\ record.enabled /\ record.origin /\ record.version = v

Step(r, p) == reader' = [reader EXCEPT ![r].at = p]
Ends(r) == reader' = [reader EXCEPT ![r] = Waiting]
quiet == <<manifest, revision, record, serverOn, user>>

-----------------------------------------------------------------------------
(* A read (_read_remote_skill_page).                                       *)

Begin(r) ==
    /\ reader[r].at = "none" /\ Enabled(record.version)
    /\ reader' = [reader EXCEPT ![r] = [Waiting EXCEPT !.at = "fetch", !.version = record.version]]
    /\ UNCHANGED <<quiet, cache, cacheLock>>

\* The manifest is fetched.  If it is no longer the approved one, the approval
\* is to be withdrawn.
Fetch(r) ==
    /\ reader[r].at = "fetch"
    /\ IF manifest = reader[r].version
       THEN Step(r, "look")
       ELSE reader' = [reader EXCEPT ![r].at = "changed", ![r].seen = manifest]
    /\ UNCHANGED <<quiet, cache, cacheLock>>

\* _revoke_changed_remote_skill reads the state, and gives up unless the
\* approval is still the one that was read.
ReadState(r) ==
    /\ reader[r].at = "changed"
    /\ IF record.enabled /\ record.origin /\ record.version = reader[r].version
       THEN reader' = [reader EXCEPT ![r].at = "revoke", ![r].revision = revision]
       ELSE Ends(r)
    /\ UNCHANGED <<quiet, cache, cacheLock>>

MutRevoke(r) ==
    /\ reader[r].at = "revoke"
    /\ record' = [version |-> reader[r].seen, enabled |-> FALSE, origin |-> TRUE]
    /\ revision' = revision + 1 /\ Step(r, "invalidate")
    /\ UNCHANGED <<manifest, serverOn, user, cache, cacheLock>>

\* It is withdrawn if the state has not been written since.
Revoke(r) ==
    /\ reader[r].at = "revoke"
    /\ IF revision = reader[r].revision
       THEN /\ record' = [version |-> IF reader[r].seen = 0 THEN record.version ELSE reader[r].seen,
                          enabled |-> FALSE, origin |-> TRUE]
            /\ revision' = revision + 1 /\ Step(r, "invalidate")
       ELSE Ends(r) /\ UNCHANGED <<record, revision>>
    /\ UNCHANGED <<manifest, serverOn, user, cache, cacheLock>>

\* _invalidate_mcp_skill_resource_cache
ReaderInvalidates(r) ==
    /\ reader[r].at = "invalidate" /\ cacheLock = Free
    /\ cache' = <<>> /\ Ends(r)
    /\ UNCHANGED <<quiet, cacheLock>>

\* A cached page of this version becomes the most recent.
Touched(v) == Append(SelectSeq(cache, LAMBDA w : w # v), v)

Look(r) ==
    /\ reader[r].at = "look" /\ cacheLock = Free
    /\ \/ ~ Enabled(reader[r].version) /\ Ends(r) /\ UNCHANGED cache
       \/ /\ Enabled(reader[r].version)
          /\ IF \E i \in DOMAIN cache : cache[i] = reader[r].version
             THEN Step(r, "serve") /\ cache' = Touched(reader[r].version)
             ELSE Step(r, "download") /\ UNCHANGED cache
    /\ UNCHANGED <<quiet, cacheLock>>

\* The file is read from the server and verified against the manifest.
Download(r) ==
    /\ reader[r].at = "download" /\ (Step(r, "keep") \/ Ends(r))
    /\ UNCHANGED <<quiet, cache, cacheLock>>

MutCheckToKeep(r) ==
    /\ reader[r].at = "keep" /\ cacheLock = Free
    /\ IF Enabled(reader[r].version) THEN Step(r, "store") ELSE Ends(r)
    /\ UNCHANGED <<quiet, cache, cacheLock>>

\* The approval is checked again with the lock held, then the page is kept.
CheckToKeep(r) ==
    /\ reader[r].at = "keep" /\ cacheLock = Free
    /\ IF Enabled(reader[r].version)
       THEN Step(r, "store") /\ cacheLock' = r
       ELSE Ends(r) /\ UNCHANGED cacheLock
    /\ UNCHANGED <<quiet, cache>>

Store(r) ==
    /\ reader[r].at = "store" /\ Step(r, "serve") /\ cacheLock' = Free
    /\ LET c == Touched(reader[r].version)
       IN  cache' = IF Len(c) > MaxCache THEN Tail(c) ELSE c
    /\ UNCHANGED quiet

\* The page is returned if the approval is still in force.
Serve(r) ==
    /\ reader[r].at = "serve" /\ Ends(r)
    /\ UNCHANGED <<quiet, cache, cacheLock>>

-----------------------------------------------------------------------------
(* The user's requests, and the server.                                    *)

\* _set_mcp_skill_state: an approval is of the manifest the server offers now.
AskSet(e) ==
    /\ user.at = "none" /\ revision < MaxRevision
    /\ e => serverOn /\ manifest # 0
    /\ user' = [at |-> "set", version |-> IF e THEN manifest ELSE record.version,
                enabled |-> e, revision |-> revision]
    /\ UNCHANGED <<manifest, record, revision, serverOn, cache, cacheLock, reader>>

\* _list_mcp_skills has read the page of skills and then the state: an approval
\* of another version is withdrawn.
AskList ==
    /\ user.at = "none" /\ serverOn /\ revision < MaxRevision
    /\ record.enabled /\ record.version # manifest
    /\ user' = [at |-> "set", version |-> IF manifest = 0 THEN record.version ELSE manifest,
                enabled |-> FALSE, revision |-> revision]
    /\ UNCHANGED <<manifest, record, revision, serverOn, cache, cacheLock, reader>>

\* The state is written unless it has been written since the user saw it.
Write ==
    /\ user.at = "set"
    /\ IF user.revision = revision
       THEN /\ record' = [version |-> user.version, enabled |-> user.enabled, origin |-> TRUE]
            /\ revision' = revision + 1
            /\ user' = IF user.enabled THEN NoRequest ELSE [user EXCEPT !.at = "invalidate"]
       ELSE user' = NoRequest /\ UNCHANGED <<record, revision>>
    /\ UNCHANGED <<manifest, serverOn, cache, cacheLock, reader>>

\* _set_capability_state disables any skill by its identifier.  The record it
\* writes has no origin, and nobody is asked to drop its pages.
DisableById ==
    /\ user.at = "none" /\ revision < MaxRevision /\ record.enabled
    /\ record' = [record EXCEPT !.enabled = FALSE, !.origin = FALSE]
    /\ revision' = revision + 1
    /\ UNCHANGED <<manifest, serverOn, cache, cacheLock, reader, user>>

\* _deactivate_mcp disables the server; then its pages are dropped.
StopServer ==
    /\ user.at = "none" /\ serverOn /\ revision < MaxRevision
    /\ serverOn' = FALSE /\ revision' = revision + 1
    /\ user' = [NoRequest EXCEPT !.at = "invalidate"]
    /\ UNCHANGED <<manifest, record, cache, cacheLock, reader>>

StartServer ==
    /\ user.at = "none" /\ ~ serverOn /\ revision < MaxRevision
    /\ serverOn' = TRUE /\ revision' = revision + 1
    /\ UNCHANGED <<manifest, record, cache, cacheLock, reader, user>>

UserInvalidates ==
    /\ user.at = "invalidate" /\ cacheLock = Free
    /\ cache' = <<>> /\ user' = NoRequest
    /\ UNCHANGED <<manifest, record, revision, serverOn, cacheLock, reader>>

NewVersion ==
    /\ manifest \in 1..(MaxVersion - 1) /\ manifest' \in {0, manifest + 1}
    /\ UNCHANGED <<record, revision, serverOn, cache, cacheLock, reader, user>>

Next ==
    \/ \E r \in Readers :
          \/ Begin(r) \/ Fetch(r) \/ ReadState(r) \/ Revoke(r) \/ ReaderInvalidates(r)
          \/ Look(r) \/ Download(r) \/ CheckToKeep(r) \/ Store(r) \/ Serve(r)
    \/ \E e \in BOOLEAN : AskSet(e)
    \/ AskList \/ Write \/ DisableById \/ StopServer \/ StartServer \/ UserInvalidates
    \/ NewVersion

Spec == Init /\ [][Next]_vars

-----------------------------------------------------------------------------
(* Properties.                                                             *)

Invalidating == user.at = "invalidate" \/ \E r \in Readers : reader[r].at = "invalidate"

\* The record is that of _set_capability_state (or there is none yet).
DisabledById == ~ record.enabled /\ ~ record.origin

\* Once a skill was disabled by its own request, by a listing or by a reader that
\* found it changed, or once its server was disabled, no page of it stays cached,
\* though a reader may be about to keep one at that moment.  A skill that was
\* disabled by its identifier is the exception: that path never empties the cache,
\* and its pages stay there (no reader is served one) until one of the others does.
NoStalePage ==
    ((~ record.enabled /\ ~ DisabledById) \/ ~ serverOn) /\ ~ Invalidating
        => cache = <<>>

\* A reader that found a changed manifest never withdraws the approval that the
\* user has since given to the new one.
NewerApprovalKept ==
    [][\A r \in Readers : record.enabled /\ reader[r].at = "revoke" /\ reader'[r].at = "invalidate"
          => record.version = reader[r].version]_vars
=============================================================================
