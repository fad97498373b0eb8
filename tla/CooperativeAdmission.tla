------------------------ MODULE CooperativeAdmission ------------------------
(***************************************************************************)
(* Cooperative admission at the runtime boundary: the ledger of aggregate   *)
(* reservations (core/rust/src/resource.rs, CooperativeAdmissionLedger),    *)
(* the mode and the ledger of AuthoritativeRuntime (runtime.rs) and the     *)
(* opaque handles given to Python (ffi/runtime.rs).  Every call of the      *)
(* boundary holds one mutex from beginning to end, so each is one step;     *)
(* calls that are refused, and those of shadow mode, change nothing.        *)
(*                                                                          *)
(* A reservation has an amount of an ordinary resource (slots) and the two  *)
(* that share one capacity: bytes of a data tier and of buffers in it.      *)
(* Lease and generation numbers advance together and are one number here.   *)
(***************************************************************************)
EXTENDS Naturals, Totals

CONSTANTS Attempts,      \* pairs of a task and an attempt number
          Plans,         \* plan digests
          Reservations,  \* what requests ask for
          Inventories,   \* what configure may find: capacity and use by others
          Times,         \* values of the clock at admission
          MaxHandle,     \* the largest handle (u64::MAX)
          MaxLease       \* bound: leases admitted by one ledger

Amounts == [slots : Nat, tier : Nat, buffer : Nat]

ASSUME CooperativeAssumption ==
    /\ Reservations \subseteq Amounts \ {[slots |-> 0, tier |-> 0, buffer |-> 0]}
    /\ Inventories \subseteq [slots : Nat, tier : Nat, base : Amounts]
    /\ MaxHandle \in Nat \ {0} /\ MaxLease \in Nat

VARIABLES
    mode,        \* cooperative_mode
    inventory,   \* the inventory the ledger was made of
    used, nextLease, active, activeByAttempt, attemptDigests,  \* the ledger
    handles,     \* handle -> lease token
    nextHandle,
    released     \* history: the handles that have been released

ledgerVars == <<used, nextLease, active, activeByAttempt, attemptDigests>>
cooperativeVars == <<mode, inventory, ledgerVars, handles, nextHandle, released>>

WithEntry(map, key, value) ==
    [k \in DOMAIN map \cup {key} |-> IF k = key THEN value ELSE map[k]]
WithoutEntry(map, key) == [k \in DOMAIN map \ {key} |-> map[k]]

\* ensure_maps_fit: an amount of zero is not an entry of a reservation.
Fits(u, r) ==
    /\ r.slots > 0 => u.slots + r.slots <= inventory.slots
    /\ r.tier + r.buffer > 0 =>
          u.tier + u.buffer + r.tier + r.buffer <= inventory.tier

Plus(u, r) ==
    [slots |-> u.slots + r.slots, tier |-> u.tier + r.tier, buffer |-> u.buffer + r.buffer]

NoUnderflow(u, r) == u.slots >= r.slots /\ u.tier >= r.tier /\ u.buffer >= r.buffer

Minus(u, r) ==
    [slots |-> u.slots - r.slots, tier |-> u.tier - r.tier, buffer |-> u.buffer - r.buffer]

\* CooperativeAdmissionLedger::from_inventory.
NewLedger(i) ==
    /\ inventory' = i /\ used' = i.base
    /\ nextLease' = 1 /\ active' = << >> /\ activeByAttempt' = << >>
    /\ attemptDigests' = << >>

-----------------------------------------------------------------------------
CooperativeInit ==
    /\ mode = "disabled"
    /\ inventory \in Inventories /\ used = inventory.base
    /\ nextLease = 1 /\ active = << >> /\ activeByAttempt = << >>
    /\ attemptDigests = << >>
    /\ handles = << >> /\ nextHandle = 1 /\ released = {}

\* A disabled runtime drops its ledger, which nothing uses then; the use that
\* the inventory of another mode reports must fit.
Configure(m, i) ==
    /\ DOMAIN handles = {} /\ DOMAIN active = {}
    /\ m # "disabled" =>
          i.base.slots <= i.slots /\ i.base.tier + i.base.buffer <= i.tier
    /\ mode' = m
    /\ NewLedger(i)
    /\ UNCHANGED <<handles, nextHandle, released>>

Lease(a, p, r, now) ==
    [id |-> nextLease, attempt |-> a, plan |-> p, reservation |-> r, issued |-> now]

\* The same attempt and plan again: the lease it has, under the handle it has
\* (insert_or_reuse makes one only for a lease without).
SubmitAgain(a, p) ==
    LET lease == active[activeByAttempt[a]]
    IN  /\ mode = "enforced"
        /\ a \in DOMAIN attemptDigests /\ attemptDigests[a] = p
        /\ a \in DOMAIN activeByAttempt
        /\ IF \E h \in DOMAIN handles : handles[h] = lease
           THEN UNCHANGED <<handles, nextHandle>>
           ELSE /\ nextHandle < MaxHandle
                /\ handles' = WithEntry(handles, nextHandle, lease)
                /\ nextHandle' = nextHandle + 1
        /\ UNCHANGED <<mode, inventory, ledgerVars, released>>

\* Mutant: a lease that gets no handle stays in the ledger.
MutSubmit(a, p, r, now) ==
    /\ mode = "enforced" /\ a \notin DOMAIN attemptDigests
    /\ nextLease <= MaxLease
    /\ Fits(used, r)
    /\ nextLease' = nextLease + 1
    /\ attemptDigests' = WithEntry(attemptDigests, a, p)
    /\ used' = Plus(used, r)
    /\ active' = WithEntry(active, nextLease, Lease(a, p, r, now))
    /\ activeByAttempt' = WithEntry(activeByAttempt, a, nextLease)
    /\ IF nextHandle < MaxHandle
       THEN handles' = WithEntry(handles, nextHandle, Lease(a, p, r, now))
            /\ nextHandle' = nextHandle + 1
       ELSE UNCHANGED <<handles, nextHandle>>
    /\ UNCHANGED <<mode, inventory, released>>

\* A new attempt is admitted whole or not at all.  When the handles are used
\* up the lease is given back at once, and the attempt counts as released.
Submit(a, p, r, now) ==
    /\ mode = "enforced" /\ a \notin DOMAIN attemptDigests
    /\ nextLease <= MaxLease
    /\ Fits(used, r)
    /\ nextLease' = nextLease + 1
    /\ attemptDigests' = WithEntry(attemptDigests, a, p)
    /\ IF nextHandle < MaxHandle
       THEN /\ used' = Plus(used, r)
            /\ active' = WithEntry(active, nextLease, Lease(a, p, r, now))
            /\ activeByAttempt' = WithEntry(activeByAttempt, a, nextLease)
            /\ handles' = WithEntry(handles, nextHandle, Lease(a, p, r, now))
            /\ nextHandle' = nextHandle + 1
       ELSE UNCHANGED <<used, active, activeByAttempt, handles, nextHandle>>
    /\ UNCHANGED <<mode, inventory, released>>

\* finish and cancel: the ledger compares the token with the lease.  An
\* underflow would be reported after the lease has left the ledger, with the
\* handle still in the table.
ReleaseHandle(h) ==
    LET lease == handles[h]
    IN  /\ h \in DOMAIN handles
        /\ lease.id \in DOMAIN active /\ active[lease.id] = lease
        /\ active' = WithoutEntry(active, lease.id)
        /\ IF NoUnderflow(used, lease.reservation)
           THEN /\ used' = Minus(used, lease.reservation)
                /\ activeByAttempt' = WithoutEntry(activeByAttempt, lease.attempt)
                /\ handles' = WithoutEntry(handles, h)
                /\ released' = released \cup {h}
           ELSE UNCHANGED <<used, activeByAttempt, handles, released>>
        /\ UNCHANGED <<mode, inventory, nextLease, attemptDigests, nextHandle>>

CooperativeNext ==
    \/ \E m \in {"disabled", "shadow", "enforced"}, i \in Inventories : Configure(m, i)
    \/ \E a \in Attempts, p \in Plans : SubmitAgain(a, p)
    \/ \E a \in Attempts, p \in Plans, r \in Reservations, now \in Times :
          Submit(a, p, r, now)
    \/ \E h \in DOMAIN handles : ReleaseHandle(h)

CooperativeSpec == CooperativeInit /\ [][CooperativeNext]_cooperativeVars

-----------------------------------------------------------------------------
(* Properties.                                                             *)

\* The handles given to Python and the leases of the ledger are one to one,
\* whatever was refused, retried, released or reconfigured: no reservation is
\* left that nobody can release, and no handle that releases nothing.
HandlesMatchLeases ==
    /\ {handles[h] : h \in DOMAIN handles} = {active[l] : l \in DOMAIN active}
    /\ \A g, h \in DOMAIN handles : handles[g] = handles[h] => g = h
    /\ \A l \in DOMAIN active : active[l].id = l

\* A handle that was released stays inert although lease numbers start again
\* with every configuration: it never names a later reservation.
ReleasedHandleIsInert == released \cap DOMAIN handles = {}

\* The books balance: what is used is what others use plus the reservations of
\* the leases, attempts and leases name each other, and nothing is used beyond
\* the capacity, buffers and data of a tier together.
ReservationsBalance ==
    /\ used.slots = inventory.base.slots
          + Total(DOMAIN active, [l \in DOMAIN active |-> active[l].reservation.slots])
    /\ used.tier = inventory.base.tier
          + Total(DOMAIN active, [l \in DOMAIN active |-> active[l].reservation.tier])
    /\ used.buffer = inventory.base.buffer
          + Total(DOMAIN active, [l \in DOMAIN active |-> active[l].reservation.buffer])
    /\ {activeByAttempt[a] : a \in DOMAIN activeByAttempt} = DOMAIN active
    /\ \A a \in DOMAIN activeByAttempt : active[activeByAttempt[a]].attempt = a
    /\ mode # "disabled" =>
          used.slots <= inventory.slots /\ used.tier + used.buffer <= inventory.tier

\* Whatever is refused, retried, released or reconfigured, in whatever order,
\* handles, leases and what is used agree, and an old handle stays inert.
CooperativeIsExact == HandlesMatchLeases /\ ReleasedHandleIsInert /\ ReservationsBalance

=============================================================================
