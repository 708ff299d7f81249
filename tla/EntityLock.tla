----------------------------- MODULE EntityLock -----------------------------
(***************************************************************************)
(* examples/concurrency/entity_lock.py: a per-entity mutex over a leased   *)
(* key of a lock backend.                                                  *)
(*                                                                         *)
(* A section is one `async with entity_lock(...)` block.  The backend      *)
(* (LockBackend; Redis in production) keeps, per entity, the token that    *)
(* owns the key and the time left of its lease.  A grant and its answer    *)
(* are two steps, and so are a release request and its execution: the      *)
(* backend is across a network.                                            *)
(*                                                                         *)
(* Time advances in Tick, for the backend and its clients alike; a Tick    *)
(* waits for whatever is due, which is how Wait, MaxDelay and MaxBody      *)
(* bound the phases they name.                                             *)
(***************************************************************************)
EXTENDS Integers

CONSTANTS
    Sections,     \* the uses of entity_lock that may be under way at once
    Entities,     \* the entities; each has one key
    Tokens,       \* ownership tokens; a token nobody mentions any more is reused
    NoToken,      \* `None`: no owner
    Lease,        \* `lease`: how long a grant lasts
    Wait,         \* `wait`: how long an acquire keeps trying
    HeldWarning,  \* HELD_WARNING_SECONDS
    MaxDelay,     \* longest time from a grant to the start of the body
    MaxBody,      \* longest time a body takes
    HookOutcomes  \* what on_long_hold may do; {} when it is None

ASSUME LockConstants ==
    /\ NoToken \notin Tokens
    /\ Lease \in Nat \ {0}
    /\ Wait \in Nat
    /\ HeldWarning \in Nat
    /\ MaxDelay \in Nat
    /\ MaxBody \in Nat
    /\ HookOutcomes \subseteq {"returns", "raises"}

VARIABLES
    owner,     \* backend: the token owning each entity's key
    ttl,       \* backend: what is left of the lease
    releases,  \* backend: release requests on their way to it
    pc,        \* where each section is in entity_lock
    key,       \* the entity of its current (or last) use
    token,     \* the token granted to it, NoToken outside of granted..releasing
    timer,     \* acquiring: time waited; from the body on: `held`
    since,     \* time since the grant, which the code never sees
    raised,    \* the body of its current (or last) use raised
    reported,  \* on_long_hold was called in its current use
    result     \* how its last use ended

backend == <<owner, ttl, releases>>
uses == <<pc, key, token, timer, since, raised, reported, result>>
vars == <<owner, ttl, releases, pc, key, token, timer, since, raised, reported, result>>

Phases == {"idle", "acquiring", "granted", "body", "releasing"}

Results == {"none", "ok", "body_error", "hook_error", "LockTimeout",
            "LockUnavailable", "cancelled", "killed"}

TypeOK ==
    /\ owner \in [Entities -> Tokens \cup {NoToken}]
    /\ ttl \in [Entities -> 0..Lease]
    /\ releases \subseteq [key : Entities, token : Tokens]
    /\ pc \in [Sections -> Phases]
    /\ key \in [Sections -> Entities]
    /\ token \in [Sections -> Tokens \cup {NoToken}]
    /\ timer \in [Sections -> Nat]
    /\ since \in [Sections -> Nat]
    /\ raised \in [Sections -> BOOLEAN]
    /\ reported \in [Sections -> BOOLEAN]
    /\ result \in [Sections -> Results]

Init ==
    /\ owner = [e \in Entities |-> NoToken]
    /\ ttl = [e \in Entities |-> 0]
    /\ releases = {}
    /\ pc = [s \in Sections |-> "idle"]
    /\ key \in [Sections -> Entities]
    /\ token = [s \in Sections |-> NoToken]
    /\ timer = [s \in Sections |-> 0]
    /\ since = [s \in Sections |-> 0]
    /\ raised = [s \in Sections |-> FALSE]
    /\ reported = [s \in Sections |-> FALSE]
    /\ result = [s \in Sections |-> "none"]

-----------------------------------------------------------------------------
(* entity_lock, one action per await, return or exception.                 *)

\* The `async with` is entered and the acquire request goes out.
Begin(s, e) ==
    /\ pc[s] = "idle"
    /\ pc' = [pc EXCEPT ![s] = "acquiring"]
    /\ key' = [key EXCEPT ![s] = e]
    /\ timer' = [timer EXCEPT ![s] = 0]
    /\ raised' = [raised EXCEPT ![s] = FALSE]
    /\ result' = [result EXCEPT ![s] = "none"]
    /\ UNCHANGED <<owner, ttl, releases, token, since, reported>>

\* Nothing mentions t: the library draws tokens that never repeat.
Fresh(t) ==
    /\ \A e \in Entities : owner[e] # t
    /\ \A s \in Sections : token[s] # t
    /\ \A m \in releases : m.token # t

\* Faulty Grant: SET without NX.
GrantWithoutNX(s, t) ==
    /\ pc[s] = "acquiring"
    /\ Fresh(t)
    /\ owner' = [owner EXCEPT ![key[s]] = t]
    /\ ttl' = [ttl EXCEPT ![key[s]] = Lease]
    /\ pc' = [pc EXCEPT ![s] = "granted"]
    /\ token' = [token EXCEPT ![s] = t]
    /\ timer' = [timer EXCEPT ![s] = 0]
    /\ since' = [since EXCEPT ![s] = 0]
    /\ UNCHANGED <<releases, key, raised, reported, result>>

\* Faulty Grant: SET without a TTL.
GrantWithoutLease(s, t) ==
    /\ pc[s] = "acquiring"
    /\ owner[key[s]] = NoToken
    /\ Fresh(t)
    /\ owner' = [owner EXCEPT ![key[s]] = t]
    /\ pc' = [pc EXCEPT ![s] = "granted"]
    /\ token' = [token EXCEPT ![s] = t]
    /\ timer' = [timer EXCEPT ![s] = 0]
    /\ since' = [since EXCEPT ![s] = 0]
    /\ UNCHANGED <<ttl, releases, key, raised, reported, result>>

\* The backend gives a free key to the section; the answer is on its way.
Grant(s, t) ==
    /\ pc[s] = "acquiring"
    /\ owner[key[s]] = NoToken
    /\ Fresh(t)
    /\ owner' = [owner EXCEPT ![key[s]] = t]
    /\ ttl' = [ttl EXCEPT ![key[s]] = Lease]
    /\ pc' = [pc EXCEPT ![s] = "granted"]
    /\ token' = [token EXCEPT ![s] = t]
    /\ timer' = [timer EXCEPT ![s] = 0]
    /\ since' = [since EXCEPT ![s] = 0]
    /\ UNCHANGED <<releases, key, raised, reported, result>>

\* The use of the lock is over: entity_lock returned or raised r.
Return(s, r) ==
    /\ pc' = [pc EXCEPT ![s] = "idle"]
    /\ token' = [token EXCEPT ![s] = NoToken]
    /\ timer' = [timer EXCEPT ![s] = 0]
    /\ since' = [since EXCEPT ![s] = 0]
    /\ reported' = [reported EXCEPT ![s] = FALSE]
    /\ result' = [result EXCEPT ![s] = r]
    /\ UNCHANGED key

\* Faulty TimeOut: retries instead of giving up.
RetryForever(s) ==
    /\ pc[s] = "acquiring"
    /\ timer[s] = Wait
    /\ timer' = [timer EXCEPT ![s] = 0]
    /\ UNCHANGED <<owner, ttl, releases, pc, key, token, since, raised, reported, result>>

\* The backend answered None: contention, no retry.
TimeOut(s) ==
    /\ pc[s] = "acquiring"
    /\ timer[s] = Wait
    /\ Return(s, "LockTimeout")
    /\ UNCHANGED <<owner, ttl, releases, raised>>

\* The acquire raised.  If the key had been granted, nobody is left to release it.
Unavailable(s) ==
    /\ pc[s] \in {"acquiring", "granted"}
    /\ Return(s, "LockUnavailable")
    /\ UNCHANGED <<owner, ttl, releases, raised>>

\* The token arrives and the body starts: `started`, `yield`.
Enter(s) ==
    /\ pc[s] = "granted"
    /\ pc' = [pc EXCEPT ![s] = "body"]
    /\ UNCHANGED <<owner, ttl, releases, key, token, timer, since, raised, reported, result>>

\* Faulty LongHold: the warning waits for the lease to run out.
WarnOnlyPastLease(s) == timer[s] > Lease /\ HookOutcomes # {}

\* held > HELD_WARNING_SECONDS and on_long_hold is not None
LongHold(s) == timer[s] > HeldWarning /\ HookOutcomes # {}

\* The body ends (failed: by raising) and the `finally` runs up to its await:
\* the hook is consulted, then the release request goes out.
ExitBody(s, failed) ==
    /\ pc[s] = "body"
    /\ LongHold(s) => "returns" \in HookOutcomes
    /\ pc' = [pc EXCEPT ![s] = "releasing"]
    /\ releases' = releases \cup {[key |-> key[s], token |-> token[s]]}
    /\ raised' = [raised EXCEPT ![s] = failed]
    /\ reported' = [reported EXCEPT ![s] = LongHold(s)]
    /\ UNCHANGED <<owner, ttl, key, token, timer, since, result>>

\* The hook raises: its exception leaves entity_lock and the release is skipped.
HookRaises(s, failed) ==
    /\ pc[s] = "body"
    /\ LongHold(s)
    /\ "raises" \in HookOutcomes
    /\ raised' = [raised EXCEPT ![s] = failed]
    /\ Return(s, "hook_error")
    /\ UNCHANGED <<owner, ttl, releases>>

BodyOutcome(s) == IF raised[s] THEN "body_error" ELSE "ok"

\* The release was answered; the body's outcome is the caller's.
Finish(s) ==
    /\ pc[s] = "releasing"
    /\ [key |-> key[s], token |-> token[s]] \notin releases
    /\ Return(s, BodyOutcome(s))
    /\ UNCHANGED <<owner, ttl, releases, raised>>

\* release raised, before or after it took effect: suppressed.
ReleaseFails(s) ==
    /\ pc[s] = "releasing"
    /\ Return(s, BodyOutcome(s))
    /\ UNCHANGED <<owner, ttl, releases, raised>>

\* CancelledError at an await of entity_lock itself: neither `except Exception`
\* nor suppress(Exception) catches it.  In the body it is one of its exceptions.
Cancel(s) ==
    /\ pc[s] \in {"acquiring", "granted", "releasing"}
    /\ Return(s, "cancelled")
    /\ UNCHANGED <<owner, ttl, releases, raised>>

\* The process dies: no `finally` runs.
Crash(s) ==
    /\ pc[s] # "idle"
    /\ Return(s, "killed")
    /\ UNCHANGED <<owner, ttl, releases, raised>>

-----------------------------------------------------------------------------
(* The backend and the clock.                                              *)

\* Faulty DeliverRelease: deletes the key whoever owns it.
DeleteUnchecked(m) ==
    /\ releases' = releases \ {m}
    /\ owner' = [owner EXCEPT ![m.key] = NoToken]
    /\ ttl' = [ttl EXCEPT ![m.key] = 0]
    /\ UNCHANGED uses

\* Faulty DeliverRelease: adds a lease instead of ending it.
ExtendInstead(m) ==
    /\ releases' = releases \ {m}
    /\ ttl' = [ttl EXCEPT ![m.key] = @ + Lease]
    /\ UNCHANGED <<owner, uses>>

\* Release only if the token still owns the key, as one atomic step.
DeliverRelease(m) ==
    LET owns == owner[m.key] = m.token IN
    /\ releases' = releases \ {m}
    /\ owner' = IF owns THEN [owner EXCEPT ![m.key] = NoToken] ELSE owner
    /\ ttl' = IF owns THEN [ttl EXCEPT ![m.key] = 0] ELSE ttl
    /\ UNCHANGED uses

\* The request never reaches the backend.
LoseRelease(m) ==
    /\ releases' = releases \ {m}
    /\ UNCHANGED <<owner, ttl, uses>>

\* Something section s does now, before time passes.
Due(s) ==
    \/ pc[s] = "acquiring" /\ timer[s] >= Wait
    \/ pc[s] = "granted" /\ since[s] >= MaxDelay
    \/ pc[s] = "body" /\ timer[s] >= MaxBody

\* The lease of e ends with the present unit of time.
Expires(e) == ttl[e] = 1

Tick ==
    /\ \A s \in Sections : ~Due(s)
    /\ owner' = [e \in Entities |-> IF Expires(e) THEN NoToken ELSE owner[e]]
    /\ ttl' = [e \in Entities |-> IF ttl[e] > 0 THEN ttl[e] - 1 ELSE 0]
    /\ timer' = [s \in Sections |->
                    timer[s] + IF pc[s] \in {"acquiring", "body"} THEN 1 ELSE 0]
    /\ since' = [s \in Sections |->
                    since[s] + IF pc[s] \in {"granted", "body"} THEN 1 ELSE 0]
    /\ UNCHANGED <<releases, pc, key, token, raised, reported, result>>

SectionStep(s) ==
    \/ \E e \in Entities : Begin(s, e)
    \/ \E t \in Tokens : Grant(s, t)
    \/ TimeOut(s)
    \/ Unavailable(s)
    \/ Enter(s)
    \/ \E failed \in BOOLEAN : ExitBody(s, failed) \/ HookRaises(s, failed)
    \/ Finish(s)
    \/ ReleaseFails(s)
    \/ Cancel(s)
    \/ Crash(s)

Next ==
    \/ \E s \in Sections : SectionStep(s)
    \/ \E m \in releases : DeliverRelease(m) \/ LoseRelease(m)
    \/ Tick

Spec == Init /\ [][Next]_vars

\* Time passes; a wait that has run out is answered, a token that is under way
\* arrives or its acquire fails, and a body ends.
Fairness ==
    /\ WF_vars(Tick)
    /\ \A s \in Sections :
          /\ WF_vars(TimeOut(s))
          /\ WF_vars(Enter(s))
          /\ WF_vars(\E failed \in BOOLEAN : ExitBody(s, failed) \/ HookRaises(s, failed))

FairSpec == Spec /\ Fairness

-----------------------------------------------------------------------------
(* Properties.                                                             *)

\* The lease is longer than any body, counted from the grant.
LeaseCoversBody == MaxDelay + MaxBody < Lease

\* on_long_hold is given, and its threshold is reached within any lease, even
\* one whose grant arrived late.
WarningPrecedesLease == MaxDelay + HeldWarning < Lease /\ HookOutcomes # {}

\* on_long_hold, when it is given, does not raise.
HookReturns == "raises" \notin HookOutcomes

\* A step that does not cancel a task at the await of the release (line 135).
ReleaseUncancelled == \A s \in Sections : pc[s] = "releasing" => ~Cancel(s)

InSection(s) == pc[s] \in {"granted", "body"}

\* Two sections are never in the body for one entity at once, provided
\* LeaseCoversBody (entity_lock.py:1, "Per-entity distributed mutex").
MutualExclusion ==
    \A s, u \in Sections :
        pc[s] = "body" /\ pc[u] = "body" /\ key[s] = key[u] => s = u

\* While its lease has not run out a section owns its key, whatever late, lost
\* or repeated releases and expiries of other holders do to the backend
\* (entity_lock.py:6-9, release is an atomic check-and-delete).
LeaseHonoured ==
    \A s \in Sections :
        InSection(s) /\ since[s] < Lease => owner[key[s]] = token[s]

\* When bodies may outlast the lease, two sections are in the body for one
\* entity only after the lease of one of them has run out: no overlap has any
\* other cause (entity_lock.py:19, "a lease, not a lock").
OverlapMeansOverrun ==
    \A s, u \in Sections :
        /\ s # u
        /\ pc[s] = "body" /\ pc[u] = "body"
        /\ key[s] = key[u]
        => since[s] >= Lease \/ since[u] >= Lease

\* A body that outlasted its lease, and so may have overlapped another, has been
\* reported by the time its release goes out, provided WarningPrecedesLease,
\* although the code measures from the start of the body and not from the grant
\* (entity_lock.py:120-129): what "if this warning never fires, a watchdog was
\* never needed" relies on.
OverrunReported ==
    \A s \in Sections :
        pc[s] = "releasing" /\ since[s] >= Lease => reported[s]

\* The claim of entity_lock.py:130-131, "never mask the body's exception": the
\* caller of a body that raised gets that exception, whatever becomes of the hook
\* and of the release, if there is a process left to get it.
BodyErrorSurvives ==
    \A s \in Sections :
        pc[s] = "idle" /\ raised[s] => result[s] \in {"body_error", "killed"}

\* No owner keeps a key for ever, not even one that died in the body or whose
\* grant never reached it (entity_lock.py:19-20, 132-133).
KeyFreed ==
    \A e \in Entities, t \in Tokens : owner[e] = t ~> owner[e] # t

\* Every acquire ends: granted, LockTimeout or LockUnavailable
\* (entity_lock.py:23, "no internal retry").
AcquireReturns ==
    \A s \in Sections : pc[s] = "acquiring" ~> pc[s] # "acquiring"
=============================================================================
