----------------------------- MODULE HotEngine -----------------------------
(***************************************************************************)
(* The hot engine (core/rust/src/hot_engine.rs): the arena that holds       *)
(* evidence in memory and the sealer that writes it to disk in the          *)
(* background.  Callers commit, release and submit evidence from any        *)
(* thread; the sealer's thread takes commands from a bounded channel in     *)
(* order.  A payload and its hash are one value, the wrap of a slot's       *)
(* generation is at MaxGeneration, and a file is named by slot, generation  *)
(* and hash, that is, by the handle.  The counters of the statistics are    *)
(* left out.                                                                *)
(***************************************************************************)
EXTENDS Naturals, Sequences, FiniteSets, SequencesExt, Totals

CONSTANTS Payloads,       \* what callers commit
          Size,           \* payload -> length
          MaxLiveBytes,   \* max_live_bytes
          MaxGeneration,  \* u32::MAX
          QueueDepth,     \* capacity of the channel
          SealBatchBytes, \* DEFAULT_SEAL_BATCH_BYTES
          MaxQueued       \* bound: seals queued in a behaviour

NoPayload == "no payload"

HotEngineAssumption ==
    /\ Size \in [Payloads -> Nat \ {0}] /\ NoPayload \notin Payloads
    /\ {MaxLiveBytes, MaxGeneration, QueueDepth, SealBatchBytes, MaxQueued} \subseteq Nat \ {0}

VARIABLES
    slots, free, liveBytes,  \* the arena
    live,                    \* history: the handles not yet released
    channel,                 \* commands on their way to the sealer
    current,                 \* the seal being written, << >> if none
    pending, pendingBytes,   \* receipts since the last flush or full batch
    files,                   \* handle -> what its file holds
    queued, answered,        \* history: seals taken on, and their answers
    sealer                   \* "open", "dropped" or "stopped"

arenaVars == <<slots, free, liveBytes, live>>
sealerVars == <<channel, current, pending, pendingBytes, files, queued, answered, sealer>>
hotVars == <<arenaVars, sealerVars>>

HotInit ==
    /\ slots = << >> /\ free = << >> /\ liveBytes = 0 /\ live = {}
    /\ channel = << >> /\ current = << >> /\ pending = << >> /\ pendingBytes = 0
    /\ files = << >> /\ queued = 0 /\ answered = << >> /\ sealer = "open"

-----------------------------------------------------------------------------
(* The arena, each operation under its mutex.                              *)

\* wrapping_add(1).max(1).
NextGeneration(g) == IF g = MaxGeneration THEN 1 ELSE g + 1

Generation(s) == IF s \in DOMAIN slots THEN slots[s].generation ELSE 0

\* The last slot freed, or a new one at the end.
Commit(p) ==
    LET slot == IF free = << >> THEN Len(slots) + 1 ELSE Last(free)
        row == [generation |-> NextGeneration(Generation(slot)), payload |-> p, hash |-> p]
        handle == [slot |-> slot, generation |-> row.generation, hash |-> p]
    IN  /\ liveBytes + Size[p] <= MaxLiveBytes
        /\ free' = IF free = << >> THEN free ELSE Front(free)
        /\ slots' = [s \in DOMAIN slots \cup {slot} |-> IF s = slot THEN row ELSE slots[s]]
        /\ liveBytes' = liveBytes + Size[p]
        /\ live' = live \cup {handle}
        /\ UNCHANGED sealerVars

\* Callers may present any handle, old ones and released ones too.
Handles == [slot : DOMAIN slots, generation : 1 .. MaxGeneration, hash : Payloads]

\* The comparison of payload_arc and release.
Names(h) ==
    slots[h.slot].generation = h.generation /\ slots[h.slot].hash = h.hash

Release(h) ==
    /\ Names(h) /\ slots[h.slot].payload # NoPayload
    /\ slots' = [slots EXCEPT ![h.slot].payload = NoPayload]
    /\ liveBytes' = liveBytes - Size[h.hash]
    /\ free' = Append(free, h.slot)
    /\ live' = live \ {h}
    /\ UNCHANGED sealerVars

-----------------------------------------------------------------------------
(* Callers of the sealer.                                                  *)

\* try_submit: the request takes the payload along, so that the slot may be
\* released and used again before the write.  A full channel refuses it.
TrySubmit(h) ==
    /\ sealer = "open" /\ queued < MaxQueued
    /\ Names(h) /\ slots[h.slot].payload # NoPayload
    /\ Len(channel) < QueueDepth
    /\ channel' = Append(channel, [type |-> "seal", id |-> queued + 1,
                                   handle |-> h, payload |-> slots[h.slot].payload])
    /\ queued' = queued + 1
    /\ UNCHANGED <<arenaVars, current, pending, pendingBytes, files, answered, sealer>>

\* flush_blocking and drop wait for room in the channel.
Flush ==
    /\ sealer = "open" /\ Len(channel) < QueueDepth
    /\ \A i \in DOMAIN channel : channel[i].type # "flush"
    /\ channel' = Append(channel, [type |-> "flush"])
    /\ UNCHANGED <<arenaVars, current, pending, pendingBytes, files, queued, answered, sealer>>

DropSealer ==
    /\ sealer = "open" /\ Len(channel) < QueueDepth
    /\ \A i \in DOMAIN channel : channel[i].type # "flush"
    /\ channel' = Append(channel, [type |-> "shutdown"])
    /\ sealer' = "dropped"
    /\ UNCHANGED <<arenaVars, current, pending, pendingBytes, files, queued, answered>>

-----------------------------------------------------------------------------
(* shadow_sealer_loop.                                                     *)

Store(h, content) ==
    [g \in DOMAIN files \cup {h} |-> IF g = h THEN content ELSE files[g]]

\* File::create truncates what an earlier seal of the same handle wrote, or
\* fails and leaves it.
CreateFile ==
    /\ current = << >> /\ channel # << >> /\ Head(channel).type = "seal"
    /\ channel' = Tail(channel)
    /\ current' = <<Head(channel)>>
    /\ files' = Store(Head(channel).handle, NoPayload)
    /\ UNCHANGED <<arenaVars, pending, pendingBytes, queued, answered, sealer>>

\* Mutant: the sealer reads the arena when it writes.
MutWriteFile ==
    /\ current # << >>
    /\ files' = Store(current[1].handle, slots[current[1].handle.slot].payload)
    /\ answered' = Append(answered, [id |-> current[1].id, handle |-> current[1].handle, ok |-> TRUE])
    /\ current' = << >>
    /\ UNCHANGED <<arenaVars, channel, pending, pendingBytes, queued, sealer>>

\* A full batch is forgotten: its receipts are in no flush.
WriteFile ==
    LET request == current[1]
        bytes == pendingBytes + Size[request.handle.hash]
    IN  /\ current # << >>
        /\ files' = Store(request.handle, request.payload)
        /\ answered' = Append(answered, [id |-> request.id, handle |-> request.handle, ok |-> TRUE])
        /\ pending' = IF bytes >= SealBatchBytes THEN << >>
                      ELSE Append(pending, request.handle)
        /\ pendingBytes' = IF bytes >= SealBatchBytes THEN 0 ELSE bytes
        /\ current' = << >>
        /\ UNCHANGED <<arenaVars, channel, queued, sealer>>

\* write_all, flush or sync_all fails, or File::create did.
FailCreate ==
    /\ current = << >> /\ channel # << >> /\ Head(channel).type = "seal"
    /\ channel' = Tail(channel)
    /\ answered' = Append(answered, [id |-> Head(channel).id, handle |-> Head(channel).handle,
                                     ok |-> FALSE])
    /\ UNCHANGED <<arenaVars, current, pending, pendingBytes, files, queued, sealer>>

FailWrite ==
    /\ current # << >>
    /\ answered' = Append(answered, [id |-> current[1].id, handle |-> current[1].handle,
                                     ok |-> FALSE])
    /\ current' = << >>
    /\ UNCHANGED <<arenaVars, channel, pending, pendingBytes, files, queued, sealer>>

AnswerFlush ==
    /\ current = << >> /\ channel # << >> /\ Head(channel).type = "flush"
    /\ channel' = Tail(channel)
    /\ pending' = << >> /\ pendingBytes' = 0
    /\ UNCHANGED <<arenaVars, current, files, queued, answered, sealer>>

Shutdown ==
    /\ current = << >> /\ channel # << >> /\ Head(channel).type = "shutdown"
    /\ channel' = << >> /\ sealer' = "stopped"
    /\ UNCHANGED <<arenaVars, current, pending, pendingBytes, files, queued, answered>>

HotNext ==
    \/ \E p \in Payloads : Commit(p)
    \/ \E h \in Handles : Release(h) \/ TrySubmit(h)
    \/ Flush \/ DropSealer
    \/ CreateFile \/ WriteFile \/ FailCreate \/ FailWrite \/ AnswerFlush \/ Shutdown

HotSpec == HotInit /\ [][HotNext]_hotVars

-----------------------------------------------------------------------------
(* Properties.                                                             *)

InUse == {s \in DOMAIN slots : slots[s].payload # NoPayload}

\* Bytes of the slots in use.
LiveSize == Total(InUse, [s \in InUse |-> Size[slots[s].payload]])

\* A handle that was not released reads its own payload, however slots were
\* freed, used again and their generations wrapped around; the slots in use
\* are those not in the free list, which has each slot once, and their bytes
\* are what the arena counts and within its limit.
ArenaIsSound ==
    /\ \A h \in live : Names(h) /\ slots[h.slot].payload = h.hash
    /\ Cardinality(live) = Cardinality(InUse)
    /\ IsInjective(free)
    /\ Range(free) = DOMAIN slots \ InUse
    /\ liveBytes = LiveSize /\ liveBytes <= MaxLiveBytes

\* A receipt is true: the file it names holds the payload of its handle, be
\* the slot released and used again before the write, unless the same handle
\* was submitted once more, whose write may have cut the file short.
ReceiptIsTrue ==
    \A i \in DOMAIN answered :
        LET h == answered[i].handle
        IN  answered[i].ok =>
               \/ files[h] = h.hash
               \/ current # << >> /\ current[1].handle = h
               \/ \E j \in i + 1 .. Len(answered) : answered[j].handle = h /\ ~answered[j].ok

\* The places of the channel that hold a seal.
Seals == {i \in DOMAIN channel : channel[i].type = "seal"}

\* Every seal that was queued is answered, once and in order, and dropping
\* the sealer waits for those on their way.
SealsAreAnswered ==
    /\ \A i \in DOMAIN answered : answered[i].id = i
    /\ sealer = "stopped" => Len(answered) = queued
    /\ Len(answered) + Len(current) + Cardinality(Seals) = queued

\* Evidence is kept: in memory until it is released, on disk once a receipt
\* says so, and no seal that was taken on goes without an answer.
EvidenceIsKept == ArenaIsSound /\ ReceiptIsTrue /\ SealsAreAnswered
=============================================================================
