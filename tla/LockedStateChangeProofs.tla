----------------------- MODULE LockedStateChangeProofs -----------------------
(***************************************************************************)
(* The composition implements its parts: EntityLock in every behaviour,    *)
(* and DualStoreCommit as long as no body runs without its lease.  What    *)
(* EntityLockProofs and DualStoreCommitProofs show of them holds here.     *)
(***************************************************************************)
EXTENDS LockedStateChange, TLAPS

LockFacts == INSTANCE EntityLockProofs

StoreFacts == INSTANCE DualStoreCommitProofs WITH Workers <- Sections, result <- answer

LEMMA LockConstantsFit == LockFacts!LockConstants
BY BothConstants DEF LockFacts!LockConstants

LEMMA StoreConstantsFit == StoreFacts!StoreConstants
BY BothConstants DEF StoreFacts!StoreConstants

-----------------------------------------------------------------------------
(* The lock.                                                               *)

\* Lock and LockFacts are instances of one module: their steps are the same.
LEMMA SameLock ==
    /\ Lock!Init <=> LockFacts!Init
    /\ Lock!Next <=> LockFacts!Next
<1>1. Lock!Init <=> LockFacts!Init
    BY Zenon DEF Lock!Init, LockFacts!Init
<1>2. Lock!Next <=> LockFacts!Next
    BY Zenon
       DEF Lock!Next, LockFacts!Next, Lock!SectionStep, LockFacts!SectionStep,
           Lock!Begin, LockFacts!Begin, Lock!Grant, LockFacts!Grant,
           Lock!Fresh, LockFacts!Fresh, Lock!TimeOut, LockFacts!TimeOut,
           Lock!Unavailable, LockFacts!Unavailable, Lock!Enter, LockFacts!Enter,
           Lock!ExitBody, LockFacts!ExitBody, Lock!LongHold, LockFacts!LongHold,
           Lock!HookRaises, LockFacts!HookRaises, Lock!Finish, LockFacts!Finish,
           Lock!BodyOutcome, LockFacts!BodyOutcome,
           Lock!ReleaseFails, LockFacts!ReleaseFails, Lock!Cancel, LockFacts!Cancel,
           Lock!Crash, LockFacts!Crash, Lock!Return, LockFacts!Return,
           Lock!DeliverRelease, LockFacts!DeliverRelease,
           Lock!LoseRelease, LockFacts!LoseRelease, Lock!uses, LockFacts!uses,
           Lock!Tick, LockFacts!Tick, Lock!Due, LockFacts!Due,
           Lock!Expires, LockFacts!Expires
<1>. QED
    BY <1>1, <1>2

\* Each step is one of the lock, or leaves it alone.
LEMMA LockStepMaps == [Next]_vars => [Lock!Next]_lockVars
<1> SUFFICES ASSUME [Next]_vars
             PROVE  Lock!Next \/ UNCHANGED lockVars
    OBVIOUS
<1>1. ASSUME NEW s \in Sections, LockStep(s)
      PROVE  Lock!Next
    BY <1>1 DEF LockStep, Lock!Next, Lock!SectionStep
<1>2. ASSUME NEW s \in Sections, EnterAndCall(s)
      PROVE  Lock!Next
    BY <1>2 DEF EnterAndCall, Lock!Next, Lock!SectionStep
<1>3. ASSUME NEW s \in Sections, NEW failed \in BOOLEAN, LeaveBody(s, failed)
      PROVE  Lock!Next
    BY <1>3 DEF LeaveBody, Lock!Next, Lock!SectionStep
<1>4. ASSUME NEW s \in Sections, ReturnFromBody(s)
      PROVE  Lock!Next
  <2>1. (answer[s] # "ok") \in BOOLEAN
      OBVIOUS
  <2>. QED
      BY <1>3, <1>4, <2>1 DEF ReturnFromBody
<1>5. ASSUME NEW s \in Sections, CancelBody(s)
      PROVE  Lock!Next
    BY <1>3, <1>5 DEF CancelBody
<1>6. ASSUME NEW s \in Sections, Die(s)
      PROVE  Lock!Next
    BY <1>6 DEF Die, Lock!Next, Lock!SectionStep
<1>7. CASE Backend
    BY <1>7 DEF Backend, Lock!Next
<1>8. CASE Tick
    BY <1>8 DEF Tick, Lock!Next
<1>9. CASE Router \/ \E s \in Sections : InBody(s)
    BY <1>9 DEF Router, InBody
<1>10. CASE UNCHANGED vars
    BY <1>10 DEF vars
<1>. QED
    BY <1>1, <1>2, <1>4, <1>5, <1>6, <1>7, <1>8, <1>9, <1>10 DEF Next

\* The composition is a use of the lock like any other: what EntityLock says of
\* sections and their bodies holds of the sections here, whatever the calls in
\* them do.
THEOREM ImplementsLock == Spec => Lock!Spec
<1>1. Init => Lock!Init
    BY DEF Init
<1>2. [Next]_vars => [Lock!Next]_(Lock!vars)
    BY LockStepMaps DEF lockVars, Lock!vars
<1>. QED
    BY <1>1, <1>2, PTL DEF Spec, Lock!Spec

LEMMA LockBehaviour == Spec => LockFacts!Spec
<1>1. Lock!Init => LockFacts!Init
    BY SameLock
<1>2. [Lock!Next]_(Lock!vars) => [LockFacts!Next]_(LockFacts!vars)
    BY SameLock DEF Lock!vars, LockFacts!vars
<1>3. Lock!Spec => LockFacts!Spec
    BY <1>1, <1>2, PTL DEF Lock!Spec, LockFacts!Spec
<1>. QED
    BY <1>3, ImplementsLock

\* The invariants of EntityLockProofs.
LEMMA LockInvariants == Spec => [](LockFacts!Leased /\ LockFacts!BoundedPhases)
BY LockBehaviour, LockConstantsFit, LockFacts!LeasedAlways, LockFacts!BoundedAlways, PTL

\* A section owns its key until its lease runs out, whatever becomes of the call
\* in it and of the releases of earlier holders (entity_lock.py:6-9).
THEOREM LeaseIsHonouredHere == Spec => []LeaseHonoured
<1>1. LockFacts!LeaseHonoured => LeaseHonoured
    BY DEF LeaseHonoured, Lock!LeaseHonoured, LockFacts!LeaseHonoured,
           Lock!InSection, LockFacts!InSection
<1>. QED
    BY <1>1, LockBehaviour, LockConstantsFit, LockFacts!LeaseIsHonoured, PTL

\* Two calls for one entity overlap only when one has outlived its lease
\* (entity_lock.py:19).
THEOREM OverlapsAreOverrunsHere == Spec => []OverlapMeansOverrun
<1>1. LockFacts!OverlapMeansOverrun => OverlapMeansOverrun
    BY DEF OverlapMeansOverrun, Lock!OverlapMeansOverrun, LockFacts!OverlapMeansOverrun,
           Lock!InSection, LockFacts!InSection
<1>. QED
    BY <1>1, LockBehaviour, LockConstantsFit, LockFacts!OverlapsAreOverruns, PTL

\* With a warning threshold that leaves room for the delay of the grant, a call
\* that outlasted its lease has been reported when its release goes out
\* (entity_lock.py:120-129).
THEOREM OverrunsAreReportedHere ==
    ASSUME Lock!WarningPrecedesLease
    PROVE  Spec => []OverrunReported
<1>1. LockFacts!OverrunReported => OverrunReported
    BY DEF OverrunReported, Lock!OverrunReported, LockFacts!OverrunReported
<1>2. LockFacts!WarningPrecedesLease
    BY DEF Lock!WarningPrecedesLease, LockFacts!WarningPrecedesLease
<1>. QED
    BY <1>1, <1>2, LockBehaviour, LockConstantsFit, LockFacts!OverrunsAreReported, PTL

-----------------------------------------------------------------------------
(* The store.                                                              *)

\* A call is under way only in the body of its section, for the locked entity.
CallInBody ==
    \A s \in Sections :
        step[s] # "idle" => pc[s] = "body" /\ Store!EntityOf(s) = key[s]

\* The history variable means what it says.
OverrunKnown ==
    \A s \in Sections : pc[s] = "body" /\ since[s] >= Lease => overran

CallTypes ==
    /\ step \in [Sections -> Store!Steps]
    /\ change \in [Sections -> [entity : Entities, target : Groups]]
    /\ overran \in BOOLEAN

Nested == CallTypes /\ CallInBody /\ OverrunKnown

\* What a step of a call does to its place and its change.
LEMMA CallShape ==
    ASSUME CallTypes, NEW s \in Sections
    PROVE  /\ Store!CallStep(s) =>
                 /\ step[s] # "idle" /\ UNCHANGED change
                 /\ \E p \in Store!Steps : step' = [step EXCEPT ![s] = p]
           /\ Store!Leave(s) \/ Store!Crash(s) =>
                 UNCHANGED change /\ step' = [step EXCEPT ![s] = "idle"]
<1>1. ASSUME Store!CallStep(s)
      PROVE  /\ step[s] # "idle" /\ UNCHANGED change
             /\ \E p \in Store!Steps : step' = [step EXCEPT ![s] = p]
    BY <1>1
       DEF Store!CallStep, Store!WriteGroup, Store!ForceReauth, Store!RollbackRefused,
           Store!Commit, Store!RollbackFailing, Store!AuditRefused, Store!RaiseRefused,
           Store!AuditFailing, Store!RaiseFailing, Store!AuditSuccess, Store!ReturnOutcome,
           Store!Record, Store!Tell, Store!Goto, Store!Steps, Store!Classify
<1>2. Store!Leave(s) \/ Store!Crash(s) =>
          UNCHANGED change /\ step' = [step EXCEPT ![s] = "idle"]
    BY DEF Store!Leave, Store!Crash, Store!Forget, Store!Goto
<1>. QED
    BY <1>1, <1>2

\* A section that is given the lock for a call finds no other call for the entity,
\* unless a body is without its lease: both would own the key.
LEMMA EntryIsExclusive ==
    ASSUME LockFacts!Leased, Nested, NEW s \in Sections, EnterAndCall(s), ~overran'
    PROVE  Store!CallerHoldsLock(key[s])
<1> SUFFICES ASSUME NEW w \in Sections, step[w] # "idle", Store!EntityOf(w) = key[s]
             PROVE  FALSE
    BY DEF Store!CallerHoldsLock
<1>1. pc[s] = "granted" /\ ~(since[s] >= Lease) /\ ~overran
    BY DEF EnterAndCall, Lock!Enter, Nested, CallTypes
<1>2. pc[w] = "body" /\ key[w] = key[s] /\ ~(since[w] >= Lease)
    BY <1>1 DEF Nested, CallInBody, OverrunKnown
<1>3. since[s] < Lease /\ since[w] < Lease
    BY <1>1, <1>2, BothConstants
       DEF LockFacts!Leased, LockFacts!Typing, LockFacts!TypeOK
<1>4. token[s] = token[w]
    BY <1>1, <1>2, <1>3 DEF LockFacts!Leased, LockFacts!LeaseTracked, LockFacts!InSection
<1>5. token[s] # NoToken
    BY <1>1, BothConstants DEF LockFacts!Leased, LockFacts!Typing, LockFacts!HoldsToken
<1>. QED
    BY <1>1, <1>2, <1>4, <1>5 DEF LockFacts!Leased, LockFacts!DistinctTokens

\* Each step is one of the store with its exclusion, leaves it alone, or comes
\* when a body is without its lease.
LEMMA StoreStepMaps ==
    ASSUME LockFacts!Leased, Nested, [Next]_vars
    PROVE  [Store!Next \/ overran']_storeVars
<1>1. ASSUME NEW s \in Sections, EnterAndCall(s)
      PROVE  Store!Next \/ overran'
  <2>1. key[s] \in Entities
      BY DEF LockFacts!Leased, LockFacts!Typing, LockFacts!TypeOK
  <2>. QED
      BY <1>1, <2>1, EntryIsExclusive DEF EnterAndCall, Store!Next
<1>2. ASSUME NEW s \in Sections, InBody(s)
      PROVE  Store!Next
    BY <1>2 DEF InBody, Store!Next
<1>3. ASSUME NEW s \in Sections, ReturnFromBody(s)
      PROVE  Store!Next
    BY <1>3 DEF ReturnFromBody, Store!Next
<1>4. ASSUME NEW s \in Sections, "crash" \in Faults, CancelBody(s) \/ Die(s)
      PROVE  Store!Next \/ UNCHANGED storeVars
    BY <1>4 DEF CancelBody, Die, Store!Next
<1>5. CASE Router
    BY <1>5 DEF Router, Store!Next
<1>6. CASE Backend \/ Tick \/ \E s \in Sections : LockStep(s)
    BY <1>6 DEF Backend, Tick, LockStep
<1>7. CASE UNCHANGED vars
    BY <1>7 DEF vars
<1>. QED
    BY <1>1, <1>2, <1>3, <1>4, <1>5, <1>6, <1>7 DEF Next

\* What the steps of the lock do to the sections that are in their bodies.
LEMMA LockShape ==
    ASSUME LockFacts!Leased, NEW s \in Sections
    PROVE  /\ LockStep(s) =>
                 /\ pc[s] # "body" /\ pc'[s] # "body"
                 /\ \A u \in Sections \ {s} :
                       pc'[u] = pc[u] /\ key'[u] = key[u] /\ since'[u] = since[u]
           /\ Lock!Enter(s) =>
                 /\ pc[s] = "granted" /\ pc' = [pc EXCEPT ![s] = "body"]
                 /\ UNCHANGED <<key, since>>
           /\ \A failed \in BOOLEAN : LeaveBody(s, failed) =>
                 /\ pc[s] = "body" /\ pc'[s] # "body" /\ UNCHANGED key
                 /\ \A u \in Sections \ {s} : pc'[u] = pc[u] /\ since'[u] = since[u]
           /\ Lock!Crash(s) =>
                 /\ pc'[s] = "idle" /\ UNCHANGED key
                 /\ \A u \in Sections \ {s} : pc'[u] = pc[u] /\ since'[u] = since[u]
<1> USE DEF LockFacts!Leased, LockFacts!Typing, LockFacts!TypeOK
<1>1. ASSUME LockStep(s)
      PROVE  /\ pc[s] # "body" /\ pc'[s] # "body"
             /\ \A u \in Sections \ {s} :
                   pc'[u] = pc[u] /\ key'[u] = key[u] /\ since'[u] = since[u]
    BY <1>1 DEF LockStep, Lock!Begin, Lock!Grant, Lock!TimeOut, Lock!Unavailable,
                Lock!Finish, Lock!ReleaseFails, Lock!Cancel, Lock!Return
<1>2. Lock!Enter(s) =>
          /\ pc[s] = "granted" /\ pc' = [pc EXCEPT ![s] = "body"]
          /\ UNCHANGED <<key, since>>
    BY DEF Lock!Enter
<1>3. ASSUME NEW failed \in BOOLEAN, LeaveBody(s, failed)
      PROVE  /\ pc[s] = "body" /\ pc'[s] # "body" /\ UNCHANGED key
             /\ \A u \in Sections \ {s} : pc'[u] = pc[u] /\ since'[u] = since[u]
    BY <1>3 DEF LeaveBody, Lock!ExitBody, Lock!HookRaises, Lock!Return
<1>4. Lock!Crash(s) =>
          /\ pc'[s] = "idle" /\ UNCHANGED key
          /\ \A u \in Sections \ {s} : pc'[u] = pc[u] /\ since'[u] = since[u]
    BY DEF Lock!Crash, Lock!Return
<1>. QED
    BY <1>1, <1>2, <1>3, <1>4

LEMMA NestedStep == LockFacts!Leased /\ Nested /\ [Next]_vars => Nested'
<1> SUFFICES ASSUME LockFacts!Leased, Nested, [Next]_vars
             PROVE  Nested'
    OBVIOUS
<1> USE DEF Nested, CallTypes, CallInBody, OverrunKnown, Store!EntityOf
<1>1. ASSUME NEW s \in Sections, LockStep(s)
      PROVE  Nested'
    BY <1>1, LockShape DEF LockStep, storeVars
<1>2. ASSUME NEW s \in Sections, EnterAndCall(s)
      PROVE  Nested'
  <2>1. /\ pc[s] = "granted" /\ pc' = [pc EXCEPT ![s] = "body"]
        /\ UNCHANGED <<key, since>> /\ overran' = (overran \/ since[s] >= Lease)
      BY <1>2, LockShape DEF EnterAndCall
  <2>2. PICK g \in Groups : Store!Start(s, key[s], g)
      BY <1>2 DEF EnterAndCall
  <2>3. /\ step' = [step EXCEPT ![s] = "writing"]
        /\ change' = [change EXCEPT ![s] = [entity |-> key[s], target |-> g]]
      BY <2>2 DEF Store!Start, Store!Goto
  <2>4. key[s] \in Entities /\ pc \in [Sections -> LockFacts!Phases]
      BY DEF LockFacts!Leased, LockFacts!Typing, LockFacts!TypeOK
  <2>5. CallTypes'
      BY <2>1, <2>3, <2>4 DEF Store!Steps
  <2>6. CallInBody'
      BY <2>1, <2>3, <2>4
  <2>7. OverrunKnown'
      BY <2>1, <2>4
  <2>. QED
      BY <2>5, <2>6, <2>7
<1>3. ASSUME NEW s \in Sections, InBody(s)
      PROVE  Nested'
    BY <1>3, CallShape DEF InBody, lockVars
<1>4. ASSUME NEW s \in Sections, NEW failed \in BOOLEAN, LeaveBody(s, failed),
             UNCHANGED <<change, overran>>, step' = [step EXCEPT ![s] = "idle"]
      PROVE  Nested'
    BY <1>4, LockShape DEF Store!Steps
<1>5. ASSUME NEW s \in Sections, ReturnFromBody(s)
      PROVE  Nested'
  <2>1. (answer[s] # "ok") \in BOOLEAN
      OBVIOUS
  <2>. QED
      BY <1>4, <1>5, <2>1, CallShape DEF ReturnFromBody
<1>6. ASSUME NEW s \in Sections, CancelBody(s)
      PROVE  Nested'
    BY <1>4, <1>6, CallShape DEF CancelBody
<1>7. ASSUME NEW s \in Sections, Die(s)
      PROVE  Nested'
  <2>1. /\ pc'[s] = "idle" /\ UNCHANGED <<key, overran>>
        /\ \A u \in Sections \ {s} : pc'[u] = pc[u] /\ since'[u] = since[u]
      BY <1>7, LockShape DEF Die
  <2>2. CASE pc[s] = "body"
      BY <1>7, <2>1, <2>2, CallShape DEF Die, Store!Steps
  <2>3. CASE pc[s] # "body"
      BY <1>7, <2>1, <2>3 DEF Die, storeVars
  <2>. QED
      BY <2>2, <2>3
<1>8. CASE Backend
    BY <1>8 DEF Backend, storeVars, Lock!DeliverRelease, Lock!LoseRelease, Lock!uses
<1>9. CASE Tick
    BY <1>9 DEF Tick, Lock!Tick, storeVars
<1>10. CASE Router
    BY <1>10 DEF Router, lockVars, Store!RouterStep, Store!HangUp, Store!Dial,
                 Store!ReadGroup, Store!SessionUp, Store!calls
<1>11. CASE UNCHANGED vars
    BY <1>11 DEF vars, lockVars, storeVars
<1>. QED
    BY <1>1, <1>2, <1>3, <1>5, <1>6, <1>7, <1>8, <1>9, <1>10, <1>11 DEF Next

LEMMA NestedAlways == Spec => []Nested
<1>1. Init => Nested
  <2> SUFFICES ASSUME Init PROVE Nested
      OBVIOUS
  <2>1. CallTypes
      BY DEF Init, CallTypes, Store!Init, Store!Steps
  <2>2. (\A s \in Sections : step[s] = "idle") /\ (\A s \in Sections : pc[s] = "idle")
      BY DEF Init, Lock!Init, Store!Init
  <2>. QED
      BY <2>1, <2>2 DEF Nested, CallInBody, OverrunKnown
<1>. QED
    BY <1>1, NestedStep, LockInvariants, PTL DEF Spec

\* Until a body runs without its lease, the calls made under entity_lock are calls
\* whose caller holds the lock (dual_store_commit.py:103-106), for any number of
\* sections and whatever fails in them, in the lock and in its backend.
THEOREM LockIsEnough == Spec => StoreUnlessOverrun
<1>1. LockFacts!Leased /\ Nested /\ [Next]_vars => [Store!Next \/ overran']_storeVars
    BY StoreStepMaps
<1>. QED
    BY <1>1, LockInvariants, NestedAlways, PTL DEF Spec, StoreUnlessOverrun

-----------------------------------------------------------------------------
(* Types.                                                                  *)

\* Store and StoreFacts are instances of one module: what a call, its caller and
\* a router do is the same.
LEMMA SameStoreSteps ==
    /\ \A s \in Sections, e \in Entities, g \in Groups :
          Store!Start(s, e, g) <=> StoreFacts!Start(s, e, g)
    /\ \A s \in Sections : Store!CallStep(s) <=> StoreFacts!CallStep(s)
    /\ \A s \in Sections : Store!Forget(s) <=> StoreFacts!Forget(s)
    /\ \A e \in Entities : Store!RouterStep(e) <=> StoreFacts!RouterStep(e)
<1>1. \A s \in Sections, e \in Entities, g \in Groups :
          Store!Start(s, e, g) <=> StoreFacts!Start(s, e, g)
    BY Zenon DEF Store!Start, StoreFacts!Start, Store!Goto, StoreFacts!Goto
<1>2. \A s \in Sections : Store!CallStep(s) <=> StoreFacts!CallStep(s)
    BY Zenon
       DEF Store!CallStep, StoreFacts!CallStep,
           Store!WriteGroup, StoreFacts!WriteGroup, Store!ForceReauth, StoreFacts!ForceReauth,
           Store!Answers, StoreFacts!Answers, Store!Classify, StoreFacts!Classify,
           Store!RollbackRefused, StoreFacts!RollbackRefused, Store!Commit, StoreFacts!Commit,
           Store!RollbackFailing, StoreFacts!RollbackFailing,
           Store!AuditRefused, StoreFacts!AuditRefused,
           Store!RaiseRefused, StoreFacts!RaiseRefused,
           Store!AuditFailing, StoreFacts!AuditFailing,
           Store!RaiseFailing, StoreFacts!RaiseFailing,
           Store!AuditSuccess, StoreFacts!AuditSuccess,
           Store!ReturnOutcome, StoreFacts!ReturnOutcome,
           Store!Record, StoreFacts!Record, Store!Tell, StoreFacts!Tell,
           Store!EntityOf, StoreFacts!EntityOf, Store!TargetOf, StoreFacts!TargetOf,
           Store!Goto, StoreFacts!Goto
<1>3. \A s \in Sections : Store!Forget(s) <=> StoreFacts!Forget(s)
    BY Zenon DEF Store!Forget, StoreFacts!Forget, Store!Goto, StoreFacts!Goto
<1>4. \A e \in Entities : Store!RouterStep(e) <=> StoreFacts!RouterStep(e)
    BY Zenon
       DEF Store!HangUp, StoreFacts!HangUp, Store!Dial, StoreFacts!Dial,
           Store!ReadGroup, StoreFacts!ReadGroup, Store!SessionUp, StoreFacts!SessionUp,
           Store!RouterStep, StoreFacts!RouterStep, Store!calls, StoreFacts!calls
<1>. QED
    BY <1>1, <1>2, <1>3, <1>4

LEMMA SameStore ==
    /\ Store!Init <=> StoreFacts!Init
    /\ Store!Next <=> StoreFacts!Next
    /\ Store!TypeOK <=> StoreFacts!TypeOK
<1>1. Store!Init <=> StoreFacts!Init
    BY Zenon DEF Store!Init, StoreFacts!Init
<1>2. Store!Next <=> StoreFacts!Next
    BY Zenon, SameStoreSteps
       DEF Store!Next, StoreFacts!Next, Store!CallerHoldsLock, StoreFacts!CallerHoldsLock,
           Store!Leave, StoreFacts!Leave, Store!Crash, StoreFacts!Crash,
           Store!EntityOf, StoreFacts!EntityOf
<1>3. Store!TypeOK <=> StoreFacts!TypeOK
    BY Zenon DEF Store!TypeOK, StoreFacts!TypeOK, Store!Steps, StoreFacts!Steps,
                 Store!CommandOutcome, StoreFacts!CommandOutcome
<1>. QED
    BY <1>1, <1>2, <1>3

\* Each step is one of the store, its exclusion apart: a body that runs without its
\* lease calls beside another call.
LEMMA AnyStepMaps ==
    ASSUME LockFacts!Leased, [Next]_vars
    PROVE  StoreFacts!AnyStep
<1>1. ASSUME NEW s \in Sections, EnterAndCall(s)
      PROVE  StoreFacts!AnyStep
  <2>1. key[s] \in Entities
      BY DEF LockFacts!Leased, LockFacts!Typing, LockFacts!TypeOK
  <2>. QED
      BY <1>1, <2>1, SameStoreSteps DEF EnterAndCall, StoreFacts!AnyStep
<1>2. ASSUME NEW s \in Sections, Store!Forget(s)
      PROVE  StoreFacts!AnyStep
    BY <1>2, SameStoreSteps DEF StoreFacts!AnyStep
<1>3. ASSUME UNCHANGED storeVars
      PROVE  StoreFacts!AnyStep
    BY <1>3 DEF storeVars, StoreFacts!AnyStep, StoreFacts!vars
<1>4. ASSUME NEW s \in Sections, InBody(s)
      PROVE  StoreFacts!AnyStep
    BY <1>4, SameStoreSteps DEF InBody, StoreFacts!AnyStep
<1>5. ASSUME NEW s \in Sections, ReturnFromBody(s) \/ CancelBody(s) \/ Die(s)
      PROVE  StoreFacts!AnyStep
    BY <1>2, <1>3, <1>5 DEF ReturnFromBody, CancelBody, Die, Store!Leave, Store!Crash
<1>6. CASE Router
    BY <1>6, SameStoreSteps DEF Router, StoreFacts!AnyStep
<1>7. CASE Backend \/ Tick \/ UNCHANGED vars \/ \E s \in Sections : LockStep(s)
    BY <1>3, <1>7 DEF Backend, Tick, LockStep, vars
<1>. QED
    BY <1>1, <1>4, <1>5, <1>6, <1>7 DEF Next

\* Every variable keeps its type, with calls that overlap and bodies that are
\* cancelled in the middle of one.
THEOREM TypeCorrect == Spec => []TypeOK
<1>1. Init => StoreFacts!TypeOK
  <2>1. Init => StoreFacts!Init
      BY SameStore DEF Init
  <2>2. StoreFacts!Init => StoreFacts!TypeOK
      BY StoreConstantsFit, StoreFacts!InitInv DEF StoreFacts!FullInv, StoreFacts!StoreInv
  <2>. QED
      BY <2>1, <2>2
<1>2. LockFacts!Leased /\ StoreFacts!TypeOK /\ [Next]_vars => StoreFacts!TypeOK'
    BY AnyStepMaps, StoreConstantsFit, StoreFacts!AnyStepTypes
<1>3. LockFacts!Leased /\ StoreFacts!TypeOK /\ Nested => TypeOK
  <2>1. LockFacts!TypeOK => Lock!TypeOK
      BY Zenon DEF LockFacts!TypeOK, Lock!TypeOK, LockFacts!Phases, Lock!Phases,
                   LockFacts!Results, Lock!Results
  <2>. QED
      BY <2>1, SameStore DEF TypeOK, LockFacts!Leased, LockFacts!Typing, Nested, CallTypes
<1>. QED
    BY <1>1, <1>2, <1>3, LockInvariants, NestedAlways, PTL DEF Spec

-----------------------------------------------------------------------------
(* A lease that covers the body.                                           *)

\* No body is ever without its lease.
LEMMA NoOverrun ==
    ASSUME Lock!LeaseCoversBody
    PROVE  Spec => []~overran
<1>1. ASSUME LockFacts!Leased, LockFacts!BoundedPhases, NEW s \in Sections,
             pc[s] \in {"granted", "body"}
      PROVE  ~(since[s] >= Lease)
    BY <1>1, BothConstants
       DEF Lock!LeaseCoversBody, LockFacts!Leased, LockFacts!Typing, LockFacts!TypeOK,
           LockFacts!BoundedPhases
<1>2. ASSUME LockFacts!Leased, LockFacts!BoundedPhases,
             LockFacts!Leased', LockFacts!BoundedPhases', ~overran, [Next]_vars
      PROVE  ~overran'
  <2>1. CASE \E s \in Sections : EnterAndCall(s)
      BY <1>1, <1>2, <2>1 DEF EnterAndCall, Lock!Enter
  <2>2. CASE Tick
    <3>1. ASSUME NEW s \in Sections, pc[s] = "body"
          PROVE  ~(since'[s] >= Lease)
      <4>1. pc'[s] = "body"
          BY <2>2, <3>1 DEF Tick, Lock!Tick
      <4>. QED
          BY <1>2, <4>1, BothConstants
             DEF Lock!LeaseCoversBody, LockFacts!Leased, LockFacts!Typing,
                 LockFacts!TypeOK, LockFacts!BoundedPhases
    <3>. QED
        BY <1>2, <2>2, <3>1 DEF Tick
  <2>3. CASE Backend \/ Router \/ UNCHANGED vars
      BY <1>2, <2>3 DEF Backend, Router, vars
  <2>4. CASE \E s \in Sections : \/ LockStep(s) \/ InBody(s) \/ ReturnFromBody(s)
                                 \/ CancelBody(s) \/ Die(s)
      BY <1>2, <2>4 DEF LockStep, InBody, ReturnFromBody, CancelBody, Die
  <2>. QED
      BY <1>2, <2>1, <2>2, <2>3, <2>4 DEF Next
<1>3. /\ LockFacts!Leased /\ LockFacts!BoundedPhases
      /\ LockFacts!Leased' /\ LockFacts!BoundedPhases'
      /\ ~overran /\ [Next]_vars
      => ~overran'
    BY <1>2
<1>4. Init => ~overran
    BY DEF Init
<1>. QED
    BY <1>3, <1>4, LockInvariants, PTL DEF Spec

\* With a lease that covers the longest delay and body, entity_lock around
\* apply_state_change implements apply_state_change with an exclusive caller.
THEOREM ImplementsStore ==
    ASSUME Lock!LeaseCoversBody
    PROVE  Spec => Store!Spec
<1>1. Init => Store!Init
    BY DEF Init
<1>2. [Store!Next \/ overran']_storeVars /\ ~overran' => [Store!Next]_(Store!vars)
    BY DEF storeVars, Store!vars
<1>. QED
    BY <1>1, <1>2, LockIsEnough, NoOverrun, PTL DEF Spec, StoreUnlessOverrun, Store!Spec

LEMMA StoreBehaviour == Store!Spec => StoreFacts!Spec
<1>1. Store!Init => StoreFacts!Init
    BY SameStore
<1>2. [Store!Next]_(Store!vars) => [StoreFacts!Next]_(StoreFacts!vars)
    BY SameStore DEF Store!vars, StoreFacts!vars
<1>. QED
    BY <1>1, <1>2, PTL DEF Store!Spec, StoreFacts!Spec

\* Then a call that returns normally has left both stores at its target, although
\* the exclusion it relies on is only a lease (entity_lock.py:1-24,
\* dual_store_commit.py:103-106, 130-142).
THEOREM LockedSuccessIsComplete ==
    ASSUME Lock!LeaseCoversBody
    PROVE  Spec => []Store!SuccessMeansStoresAgree
<1>1. StoreFacts!SuccessMeansStoresAgree => Store!SuccessMeansStoresAgree
    BY DEF Store!SuccessMeansStoresAgree, StoreFacts!SuccessMeansStoresAgree,
           Store!EntityOf, StoreFacts!EntityOf, Store!TargetOf, StoreFacts!TargetOf
<1>. QED
    BY <1>1, ImplementsStore, StoreBehaviour, StoreConstantsFit,
       StoreFacts!SuccessIsComplete, PTL
=============================================================================
