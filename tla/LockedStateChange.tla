-------------------------- MODULE LockedStateChange --------------------------
(***************************************************************************)
(* A caller of both: `async with entity_lock(...)` around                  *)
(* apply_state_change (docs of dual_store_commit.py, steps 1 to 5).  The   *)
(* lock of EntityLock takes the place of the CallerHoldsLock guard of      *)
(* DualStoreCommit: the question is whether it is enough.                  *)
(***************************************************************************)
EXTENDS Integers

CONSTANTS Sections, Entities, Tokens, NoToken, Lease, Wait, HeldWarning,
          MaxDelay, MaxBody, HookOutcomes, Groups, Offline, Faults

\* What EntityLock and DualStoreCommit assume of them.
ASSUME BothConstants ==
    /\ NoToken \notin Tokens
    /\ Lease \in Nat \ {0} /\ Wait \in Nat /\ HeldWarning \in Nat
    /\ MaxDelay \in Nat /\ MaxBody \in Nat
    /\ HookOutcomes \subseteq {"returns", "raises"}
    /\ Offline \notin Groups
    /\ Faults \subseteq {"crash", "auth_race"}

VARIABLES owner, ttl, releases, pc, key, token, timer, since, raised, reported,
          result,  \* of EntityLock
          truth, projection, session, dial, step, change, outcome, durable,
          audited, answer,  \* of DualStoreCommit; answer is its `result`
          overran  \* history: a body has been running without its lease

Lock == INSTANCE EntityLock

Store == INSTANCE DualStoreCommit WITH Workers <- Sections, result <- answer

lockVars == <<owner, ttl, releases, pc, key, token, timer, since, raised, reported, result>>
storeVars == <<truth, projection, session, dial, step, change, outcome, durable, audited, answer>>
vars == <<lockVars, storeVars, overran>>

Init == Lock!Init /\ Store!Init /\ overran = FALSE

\* A step of entity_lock outside of its body.
LockStep(s) ==
    /\ \/ \E e \in Entities : Lock!Begin(s, e)
       \/ \E t \in Tokens : Lock!Grant(s, t)
       \/ Lock!TimeOut(s)
       \/ Lock!Unavailable(s)
       \/ Lock!Finish(s)
       \/ Lock!ReleaseFails(s)
       \/ Lock!Cancel(s)
    /\ UNCHANGED <<storeVars, overran>>

\* The body is one call of apply_state_change for the locked entity.
EnterAndCall(s) ==
    /\ Lock!Enter(s)
    /\ \E g \in Groups : Store!Start(s, key[s], g)
    /\ overran' = (overran \/ since[s] >= Lease)

InBody(s) ==
    /\ pc[s] = "body"
    /\ Store!CallStep(s)
    /\ UNCHANGED <<lockVars, overran>>

LeaveBody(s, failed) == Lock!ExitBody(s, failed) \/ Lock!HookRaises(s, failed)

\* The call has returned or raised, and so does the body.
ReturnFromBody(s) ==
    /\ Store!Leave(s)
    /\ LeaveBody(s, answer[s] # "ok")
    /\ UNCHANGED overran

\* Faulty CancelBody: the call survives the cancellation of its caller.
CancelShielded(s) ==
    /\ step[s] # "idle"
    /\ LeaveBody(s, TRUE)
    /\ UNCHANGED <<storeVars, overran>>

\* The task is cancelled in the call: only entity_lock's `finally` runs.
CancelBody(s) ==
    /\ Store!Crash(s)
    /\ LeaveBody(s, TRUE)
    /\ UNCHANGED overran

\* The process dies.
Die(s) ==
    /\ Lock!Crash(s)
    /\ IF pc[s] = "body" THEN Store!Crash(s) ELSE UNCHANGED storeVars
    /\ UNCHANGED overran

Backend ==
    /\ \E m \in releases : Lock!DeliverRelease(m) \/ Lock!LoseRelease(m)
    /\ UNCHANGED <<storeVars, overran>>

Tick ==
    /\ Lock!Tick
    /\ overran' = (overran \/ \E s \in Sections : pc[s] = "body" /\ since'[s] >= Lease)
    /\ UNCHANGED storeVars

Router ==
    /\ \E e \in Entities : Store!RouterStep(e)
    /\ UNCHANGED <<lockVars, overran>>

Next ==
    \/ \E s \in Sections :
          \/ LockStep(s)
          \/ EnterAndCall(s)
          \/ InBody(s)
          \/ ReturnFromBody(s)
          \/ "crash" \in Faults /\ (CancelBody(s) \/ Die(s))
    \/ Backend
    \/ Tick
    \/ Router

Spec == Init /\ [][Next]_vars

-----------------------------------------------------------------------------
(* Properties.                                                             *)

\* Every variable has its type, with bodies that outlast the lease.
TypeOK == Lock!TypeOK /\ Store!TypeOK /\ overran \in BOOLEAN

\* A section owns its key until its lease runs out (EntityLock), also while the
\* calls of earlier holders are still under way and their releases late or lost
\* (entity_lock.py:6-9).
LeaseHonoured == Lock!LeaseHonoured

\* Two calls for one entity overlap only after the lease of one has run out
\* (EntityLock; entity_lock.py:19, "a lease, not a lock").
OverlapMeansOverrun == Lock!OverlapMeansOverrun

\* A call that outlasted its lease has been reported when its release goes out
\* (EntityLock; entity_lock.py:120-129), provided WarningPrecedesLease.
OverrunReported == Lock!OverrunReported

\* As long as no body has run without its lease, the calls made under entity_lock
\* are calls whose caller holds the lock: every step is one of DualStoreCommit,
\* CallerHoldsLock included (dual_store_commit.py:103-106).  What DualStoreCommit
\* guarantees then holds here.
StoreUnlessOverrun == [][Store!Next \/ overran']_storeVars
=============================================================================
