-------------------------- MODULE EntityLockProofs --------------------------
(***************************************************************************)
(* Theorems about EntityLock, for every number of sections, entities and   *)
(* tokens and every choice of the times.                                   *)
(***************************************************************************)
EXTENDS EntityLock, TLAPS

\* A section holds a token exactly from the grant to the end of its release.
HoldsToken ==
    \A s \in Sections :
        pc[s] \in {"granted", "body", "releasing"} => token[s] \in Tokens

Typing == TypeOK /\ HoldsToken

\* Two sections never hold the same token.
DistinctTokens ==
    \A s, u \in Sections :
        token[s] = token[u] /\ token[s] # NoToken => s = u

\* No release under way carries the token of a section that has not ended.
NoForeignRelease ==
    \A s \in Sections, m \in releases : InSection(s) => m.token # token[s]

\* The backend's lease and the time since the grant are one clock.
LeaseTracked ==
    \A s \in Sections :
        InSection(s) /\ since[s] < Lease =>
            /\ owner[key[s]] = token[s]
            /\ ttl[key[s]] = Lease - since[s]

Leased == Typing /\ DistinctTokens /\ NoForeignRelease /\ LeaseTracked

\* How far `held` may lag behind the time since the grant.
BoundedPhases ==
    \A s \in Sections :
        /\ pc[s] = "granted" => since[s] <= MaxDelay /\ timer[s] = 0
        /\ pc[s] = "body" => timer[s] <= MaxBody /\ since[s] <= MaxDelay + timer[s]

-----------------------------------------------------------------------------
(* Type correctness.                                                       *)

\* What Return leaves behind, well typed.
LEMMA ReturnShape ==
    ASSUME TypeOK, NEW s \in Sections, NEW r \in Results, Return(s, r)
    PROVE  /\ pc' = [pc EXCEPT ![s] = "idle"]
           /\ pc' \in [Sections -> Phases]
           /\ key' \in [Sections -> Entities]
           /\ token' \in [Sections -> Tokens \cup {NoToken}]
           /\ timer' \in [Sections -> Nat]
           /\ since' \in [Sections -> Nat]
           /\ reported' \in [Sections -> BOOLEAN]
           /\ result' \in [Sections -> Results]
BY DEF TypeOK, Return, Phases

\* Every step keeps the types; ExitBody needs HoldsToken for it, because the
\* release request it sends carries the token.
LEMMA TypingStep == Typing /\ [Next]_vars => Typing'
<1> SUFFICES ASSUME Typing, [Next]_vars
             PROVE  Typing'
    OBVIOUS
<1> USE LockConstants
<1>1. ASSUME NEW s \in Sections, NEW e \in Entities, Begin(s, e)
      PROVE  Typing'
    BY <1>1 DEF Typing, TypeOK, HoldsToken, Begin, Phases, Results
<1>2. ASSUME NEW s \in Sections, NEW t \in Tokens, Grant(s, t)
      PROVE  Typing'
    BY <1>2 DEF Typing, TypeOK, HoldsToken, Grant, Phases
<1>3. ASSUME NEW s \in Sections, TimeOut(s)
      PROVE  Typing'
    BY <1>3, ReturnShape DEF Typing, TypeOK, HoldsToken, Return, TimeOut, Results
<1>4. ASSUME NEW s \in Sections, Unavailable(s)
      PROVE  Typing'
    BY <1>4, ReturnShape DEF Typing, TypeOK, HoldsToken, Return, Unavailable, Results
<1>5. ASSUME NEW s \in Sections, Enter(s)
      PROVE  Typing'
    BY <1>5 DEF Typing, TypeOK, HoldsToken, Enter, Phases
<1>6. ASSUME NEW s \in Sections, NEW failed \in BOOLEAN, ExitBody(s, failed)
      PROVE  Typing'
    BY <1>6 DEF Typing, TypeOK, HoldsToken, ExitBody, Phases, LongHold
<1>7. ASSUME NEW s \in Sections, NEW failed \in BOOLEAN, HookRaises(s, failed)
      PROVE  Typing'
    BY <1>7, ReturnShape DEF Typing, TypeOK, HoldsToken, Return, HookRaises, Results
<1>8. ASSUME NEW s \in Sections, Finish(s)
      PROVE  Typing'
    BY <1>8, ReturnShape DEF Typing, TypeOK, HoldsToken, Return, Finish, Results, BodyOutcome
<1>9. ASSUME NEW s \in Sections, ReleaseFails(s)
      PROVE  Typing'
    BY <1>9, ReturnShape DEF Typing, TypeOK, HoldsToken, Return, ReleaseFails, Results, BodyOutcome
<1>10. ASSUME NEW s \in Sections, Cancel(s) \/ Crash(s)
       PROVE  Typing'
  <2>1. ASSUME NEW r \in Results, Return(s, r), UNCHANGED <<owner, ttl, releases, raised>>
        PROVE  Typing'
      BY <2>1, ReturnShape DEF Typing, TypeOK, HoldsToken, Return
  <2>2. "cancelled" \in Results /\ "killed" \in Results
      BY DEF Results
  <2>. QED
      BY <1>10, <2>1, <2>2 DEF Cancel, Crash
<1>11. ASSUME NEW m \in releases, DeliverRelease(m) \/ LoseRelease(m)
       PROVE  Typing'
    BY <1>11 DEF Typing, TypeOK, HoldsToken, DeliverRelease, LoseRelease, uses
<1>12. ASSUME Tick
       PROVE  Typing'
    BY <1>12 DEF Typing, TypeOK, HoldsToken, Tick
<1>13. CASE UNCHANGED vars
    BY <1>13 DEF Typing, TypeOK, HoldsToken, vars
<1>. QED
    BY <1>1, <1>2, <1>3, <1>4, <1>5, <1>6, <1>7, <1>8, <1>9, <1>10, <1>11,
       <1>12, <1>13 DEF Next, SectionStep

\* Every variable keeps its type.
THEOREM TypeCorrect == Spec => []TypeOK
<1>1. Init => Typing
    BY LockConstants DEF Init, Typing, TypeOK, HoldsToken, Phases, Results
<1>2. Typing => TypeOK
    BY DEF Typing
<1>. QED
    BY <1>1, <1>2, TypingStep, PTL DEF Spec

-----------------------------------------------------------------------------
(* The lease.                                                              *)

\* A use that ends takes nothing from the others.
LEMMA LeasedReturn ==
    ASSUME Leased, NEW s \in Sections, NEW r \in Results, Return(s, r),
           UNCHANGED backend
    PROVE  DistinctTokens' /\ NoForeignRelease' /\ LeaseTracked'
<1> USE DEF Leased, Typing, TypeOK, Return, backend
<1>1. DistinctTokens'
    BY DEF DistinctTokens
<1>2. NoForeignRelease'
    BY DEF NoForeignRelease, InSection
<1>3. LeaseTracked'
    BY DEF LeaseTracked, InSection
<1>. QED
    BY <1>1, <1>2, <1>3

\* A fresh token is nobody else's, and the key it opens was free, so no other
\* section had an unexpired lease on it.
LEMMA LeasedGrant ==
    ASSUME Leased, NEW s \in Sections, NEW t \in Tokens, Grant(s, t)
    PROVE  DistinctTokens' /\ NoForeignRelease' /\ LeaseTracked'
<1> USE LockConstants DEF Leased, Typing, TypeOK, HoldsToken, Grant, Fresh
<1>1. DistinctTokens'
    BY DEF DistinctTokens
<1>2. NoForeignRelease'
    BY DEF NoForeignRelease, InSection
<1>3. LeaseTracked'
  <2> SUFFICES ASSUME NEW u \in Sections, InSection(u)', since'[u] < Lease
               PROVE  /\ owner'[key'[u]] = token'[u]
                      /\ ttl'[key'[u]] = Lease - since'[u]
      BY DEF LeaseTracked
  <2>1. CASE u = s
      BY <2>1
  <2>2. CASE u # s
    <3>1. InSection(u) /\ since[u] < Lease
        BY <2>2 DEF InSection
    <3>2. owner[key[u]] = token[u] /\ ttl[key[u]] = Lease - since[u]
        BY <3>1 DEF LeaseTracked
    <3>3. token[u] \in Tokens
        BY <3>1 DEF InSection
    <3>4. key[u] # key[s]
        BY <3>2, <3>3
    <3>. QED
        BY <2>2, <3>2, <3>4
  <2>. QED
      BY <2>1, <2>2
<1>. QED
    BY <1>1, <1>2, <1>3

\* The request that goes out carries a token no other section holds.
LEMMA LeasedExitBody ==
    ASSUME Leased, NEW s \in Sections, NEW failed \in BOOLEAN, ExitBody(s, failed)
    PROVE  DistinctTokens' /\ NoForeignRelease' /\ LeaseTracked'
<1> USE DEF Leased, Typing, TypeOK, HoldsToken, ExitBody
<1>1. DistinctTokens'
    BY DEF DistinctTokens
<1>2. NoForeignRelease'
  <2> SUFFICES ASSUME NEW u \in Sections, NEW m \in releases', InSection(u)'
               PROVE  m.token # token'[u]
      BY DEF NoForeignRelease
  <2>1. u # s /\ InSection(u) /\ token[u] # NoToken
      BY LockConstants DEF InSection
  <2>2. CASE m \in releases
      BY <2>1, <2>2 DEF NoForeignRelease
  <2>3. CASE m = [key |-> key[s], token |-> token[s]]
      BY <2>1, <2>3 DEF DistinctTokens
  <2>. QED
      BY <2>2, <2>3
<1>3. LeaseTracked'
    BY DEF LeaseTracked, InSection
<1>. QED
    BY <1>1, <1>2, <1>3

\* The check by token is what keeps a late release off the next holder's key.
LEMMA LeasedRelease ==
    ASSUME Leased, NEW m \in releases, DeliverRelease(m) \/ LoseRelease(m)
    PROVE  DistinctTokens' /\ NoForeignRelease' /\ LeaseTracked'
<1> USE DEF Leased, Typing, TypeOK, HoldsToken, DeliverRelease, LoseRelease, uses
<1>1. DistinctTokens'
    BY DEF DistinctTokens
<1>2. NoForeignRelease'
    BY DEF NoForeignRelease, InSection
<1>3. LeaseTracked'
  <2> SUFFICES ASSUME NEW u \in Sections, InSection(u), since[u] < Lease
               PROVE  /\ owner'[key[u]] = token[u]
                      /\ ttl'[key[u]] = Lease - since[u]
      BY DEF LeaseTracked, InSection
  <2>1. owner[key[u]] = token[u] /\ ttl[key[u]] = Lease - since[u]
      BY DEF LeaseTracked
  <2>2. owner[m.key] = m.token => m.key # key[u]
      BY <2>1 DEF NoForeignRelease
  <2>. QED
      BY <2>1, <2>2
<1>. QED
    BY <1>1, <1>2, <1>3

\* Time takes a key away from its owner only when its lease has run out.
LEMMA LeasedTick ==
    ASSUME Leased, Tick
    PROVE  DistinctTokens' /\ NoForeignRelease' /\ LeaseTracked'
<1> USE DEF Leased, Typing, TypeOK, Tick
<1>1. DistinctTokens'
    BY DEF DistinctTokens
<1>2. NoForeignRelease'
    BY DEF NoForeignRelease, InSection
<1>3. LeaseTracked'
  <2> SUFFICES ASSUME NEW u \in Sections, InSection(u), since'[u] < Lease
               PROVE  /\ owner'[key[u]] = token[u]
                      /\ ttl'[key[u]] = Lease - since'[u]
      BY DEF LeaseTracked, InSection
  <2>1. since'[u] = since[u] + 1
      BY DEF InSection
  <2>2. owner[key[u]] = token[u] /\ ttl[key[u]] = Lease - since[u]
      BY <2>1, LockConstants DEF LeaseTracked
  <2>3. ttl[key[u]] > 1
      BY <2>1, <2>2, LockConstants
  <2>. QED
      BY <2>1, <2>2, <2>3, LockConstants DEF Expires
<1>. QED
    BY <1>1, <1>2, <1>3

\* Leased is inductive.
LEMMA LeasedStep == Leased /\ [Next]_vars => Leased'
<1> SUFFICES ASSUME Leased, [Next]_vars
             PROVE  DistinctTokens' /\ NoForeignRelease' /\ LeaseTracked'
    BY TypingStep DEF Leased
<1>1. ASSUME NEW s \in Sections, NEW e \in Entities, Begin(s, e)
      PROVE  DistinctTokens' /\ NoForeignRelease' /\ LeaseTracked'
    BY <1>1 DEF Leased, Typing, TypeOK, Begin, DistinctTokens, NoForeignRelease,
                LeaseTracked, InSection
<1>2. ASSUME NEW s \in Sections, Enter(s)
      PROVE  DistinctTokens' /\ NoForeignRelease' /\ LeaseTracked'
    BY <1>2 DEF Leased, Typing, TypeOK, Enter, DistinctTokens, NoForeignRelease,
                LeaseTracked, InSection
<1>3. ASSUME NEW s \in Sections,
             \/ TimeOut(s) \/ Unavailable(s) \/ Finish(s) \/ ReleaseFails(s)
             \/ Cancel(s) \/ Crash(s)
             \/ \E failed \in BOOLEAN : HookRaises(s, failed)
      PROVE  DistinctTokens' /\ NoForeignRelease' /\ LeaseTracked'
  <2>1. PICK r \in Results : Return(s, r) /\ UNCHANGED backend
      BY <1>3 DEF TimeOut, Unavailable, Finish, ReleaseFails, Cancel, Crash,
                  HookRaises, BodyOutcome, Results, backend
  <2>. QED
      BY <2>1, LeasedReturn
<1>4. CASE UNCHANGED vars
    BY <1>4 DEF Leased, vars, DistinctTokens, NoForeignRelease, LeaseTracked, InSection
<1>. QED
    BY <1>1, <1>2, <1>3, <1>4, LeasedGrant, LeasedExitBody, LeasedRelease, LeasedTick
       DEF Next, SectionStep

\* The lease invariant holds in every behaviour.
LEMMA LeasedAlways == Spec => []Leased
<1>1. Init => Leased
    BY LockConstants
       DEF Init, Leased, Typing, TypeOK, HoldsToken, Phases, Results,
           DistinctTokens, NoForeignRelease, LeaseTracked, InSection
<1>. QED
    BY <1>1, LeasedStep, PTL DEF Spec

\* A section owns its key until its lease runs out, for every number of
\* sections, delay and body (entity_lock.py:6-9).
THEOREM LeaseIsHonoured == Spec => []LeaseHonoured
<1>1. Leased => LeaseHonoured
    BY DEF Leased, LeaseTracked, LeaseHonoured
<1>. QED
    BY <1>1, LeasedAlways, PTL

\* Whatever the bodies and delays, two sections overlap in an entity only if one
\* of them has outlived its lease (entity_lock.py:19).
THEOREM OverlapsAreOverruns == Spec => []OverlapMeansOverrun
<1>1. Leased => OverlapMeansOverrun
  <2> SUFFICES ASSUME Leased, NEW s \in Sections, NEW u \in Sections,
                      pc[s] = "body", pc[u] = "body", key[s] = key[u],
                      since[s] < Lease, since[u] < Lease
               PROVE  s = u
      BY LockConstants DEF OverlapMeansOverrun, Leased, Typing, TypeOK
  <2>1. token[s] = token[u]
      BY DEF Leased, LeaseTracked, InSection
  <2>2. token[s] # NoToken
      BY LockConstants DEF Leased, Typing, HoldsToken
  <2>. QED
      BY <2>1, <2>2 DEF Leased, DistinctTokens
<1>. QED
    BY <1>1, LeasedAlways, PTL

-----------------------------------------------------------------------------
(* The clocks of a section.                                                *)

\* `held` and the time since the grant never drift apart by more than MaxDelay.
LEMMA BoundedStep == Typing /\ BoundedPhases /\ [Next]_vars => BoundedPhases'
<1> SUFFICES ASSUME Typing, BoundedPhases, [Next]_vars
             PROVE  BoundedPhases'
    OBVIOUS
<1> USE LockConstants DEF Typing, TypeOK
<1>1. ASSUME NEW s \in Sections, NEW e \in Entities, Begin(s, e)
      PROVE  BoundedPhases'
    BY <1>1 DEF BoundedPhases, Begin
<1>2. ASSUME NEW s \in Sections, NEW t \in Tokens, Grant(s, t)
      PROVE  BoundedPhases'
    BY <1>2 DEF BoundedPhases, Grant
<1>3. ASSUME NEW s \in Sections, Enter(s)
      PROVE  BoundedPhases'
    BY <1>3 DEF BoundedPhases, Enter
<1>4. ASSUME NEW s \in Sections, NEW failed \in BOOLEAN, ExitBody(s, failed)
      PROVE  BoundedPhases'
    BY <1>4 DEF BoundedPhases, ExitBody
<1>5. ASSUME NEW s \in Sections, NEW r \in Results, Return(s, r), pc' = [pc EXCEPT ![s] = "idle"]
      PROVE  BoundedPhases'
    BY <1>5 DEF BoundedPhases, Return
<1>6. ASSUME NEW s \in Sections,
             \/ TimeOut(s) \/ Unavailable(s) \/ Finish(s) \/ ReleaseFails(s)
             \/ Cancel(s) \/ Crash(s)
             \/ \E failed \in BOOLEAN : HookRaises(s, failed)
      PROVE  BoundedPhases'
  <2>1. PICK r \in Results : Return(s, r)
      BY <1>6 DEF TimeOut, Unavailable, Finish, ReleaseFails, Cancel, Crash,
                  HookRaises, BodyOutcome, Results
  <2>. QED
      BY <2>1, <1>5 DEF Return
<1>7. ASSUME NEW m \in releases, DeliverRelease(m) \/ LoseRelease(m)
      PROVE  BoundedPhases'
    BY <1>7 DEF BoundedPhases, DeliverRelease, LoseRelease, uses
<1>8. ASSUME Tick
      PROVE  BoundedPhases'
  <2> SUFFICES ASSUME NEW s \in Sections
               PROVE  /\ pc'[s] = "granted" => since'[s] <= MaxDelay /\ timer'[s] = 0
                      /\ pc'[s] = "body" => /\ timer'[s] <= MaxBody
                                            /\ since'[s] <= MaxDelay + timer'[s]
      BY DEF BoundedPhases
  <2>1. ~Due(s) /\ pc'[s] = pc[s]
      BY <1>8 DEF Tick
  <2>2. CASE pc[s] = "granted"
      BY <1>8, <2>1, <2>2 DEF Tick, Due, BoundedPhases
  <2>3. CASE pc[s] = "body"
      BY <1>8, <2>1, <2>3 DEF Tick, Due, BoundedPhases
  <2>. QED
      BY <2>1, <2>2, <2>3
<1>9. CASE UNCHANGED vars
    BY <1>9 DEF BoundedPhases, vars
<1>. QED
    BY <1>1, <1>2, <1>3, <1>4, <1>6, <1>7, <1>8, <1>9 DEF Next, SectionStep

LEMMA BoundedAlways == Spec => []BoundedPhases
<1>1. Init => Typing /\ BoundedPhases
    BY LockConstants DEF Init, Typing, TypeOK, HoldsToken, Phases, Results, BoundedPhases
<1>. QED
    BY <1>1, TypingStep, BoundedStep, PTL DEF Spec

\* When the lease covers the longest delay and body, the sections of an entity
\* exclude each other, through outages, crashes, cancellations and late releases.
THEOREM LeaseCoveringExcludes ==
    ASSUME LeaseCoversBody
    PROVE  Spec => []MutualExclusion
<1>1. ASSUME Leased, BoundedPhases, OverlapMeansOverrun
      PROVE  MutualExclusion
  <2> SUFFICES ASSUME NEW s \in Sections, NEW u \in Sections,
                      pc[s] = "body", pc[u] = "body", key[s] = key[u]
               PROVE  s = u
      BY DEF MutualExclusion
  <2>1. ASSUME NEW v \in Sections, pc[v] = "body"
        PROVE  since[v] < Lease
      BY <1>1, <2>1, LeaseCoversBody, LockConstants
         DEF LeaseCoversBody, BoundedPhases, Leased, Typing, TypeOK
  <2>2. since[s] < Lease /\ since[u] < Lease
      BY <2>1
  <2>. QED
      BY <1>1, <2>2, LockConstants DEF OverlapMeansOverrun, Leased, Typing, TypeOK
<1>2. Leased /\ BoundedPhases /\ OverlapMeansOverrun => MutualExclusion
    BY <1>1
<1>. QED
    BY <1>2, LeasedAlways, BoundedAlways, OverlapsAreOverruns, PTL

\* A body that outlasted its lease is reported before its release goes out.
THEOREM OverrunsAreReported ==
    ASSUME WarningPrecedesLease
    PROVE  Spec => []OverrunReported
<1>1. Init => OverrunReported
    BY DEF Init, OverrunReported
<1>2. ASSUME Typing, BoundedPhases, OverrunReported, [Next]_vars
      PROVE  OverrunReported'
  <2> USE <1>2, LockConstants DEF Typing, TypeOK
  <2>1. ASSUME NEW s \in Sections, NEW failed \in BOOLEAN, ExitBody(s, failed)
        PROVE  OverrunReported'
    <3>1. since[s] >= Lease => LongHold(s)
        BY <2>1, WarningPrecedesLease
           DEF WarningPrecedesLease, BoundedPhases, ExitBody, LongHold
    <3>. QED
        BY <2>1, <3>1 DEF OverrunReported, ExitBody
  <2>2. ASSUME NEW s \in Sections, NEW r \in Results, Return(s, r)
        PROVE  OverrunReported'
      BY <2>2 DEF OverrunReported, Return
  <2>3. ASSUME NEW s \in Sections, SectionStep(s)
        PROVE  OverrunReported'
    <3>1. ASSUME NEW e \in Entities, Begin(s, e)
          PROVE  OverrunReported'
        BY <3>1 DEF OverrunReported, Begin
    <3>2. ASSUME NEW t \in Tokens, Grant(s, t)
          PROVE  OverrunReported'
        BY <3>2 DEF OverrunReported, Grant
    <3>3. CASE Enter(s)
        BY <3>3 DEF OverrunReported, Enter
    <3>4. CASE \/ TimeOut(s) \/ Unavailable(s) \/ Finish(s) \/ ReleaseFails(s)
               \/ Cancel(s) \/ Crash(s)
               \/ \E failed \in BOOLEAN : HookRaises(s, failed)
        BY <2>2, <3>4 DEF TimeOut, Unavailable, Finish, ReleaseFails, Cancel,
                          Crash, HookRaises, BodyOutcome, Results
    <3>. QED
        BY <2>1, <2>3, <3>1, <3>2, <3>3, <3>4 DEF SectionStep
  <2>4. ASSUME NEW m \in releases, DeliverRelease(m) \/ LoseRelease(m)
        PROVE  OverrunReported'
      BY <2>4 DEF OverrunReported, DeliverRelease, LoseRelease, uses
  <2>5. CASE Tick
      BY <2>5 DEF OverrunReported, Tick
  <2>6. CASE UNCHANGED vars
      BY <2>6 DEF OverrunReported, vars
  <2>. QED
      BY <2>3, <2>4, <2>5, <2>6 DEF Next
<1>3. Typing /\ BoundedPhases /\ OverrunReported /\ [Next]_vars => OverrunReported'
    BY <1>2
<1>4. Spec => []Typing
  <2>1. Leased => Typing
      BY DEF Leased
  <2>. QED
      BY <2>1, LeasedAlways, PTL
<1>. QED
    BY <1>1, <1>3, <1>4, BoundedAlways, PTL DEF Spec

-----------------------------------------------------------------------------
(* The outcome of the body.                                                *)

\* `raised` is about the body of the present use: not before it has ended.
RaisedByBody ==
    \A s \in Sections : pc[s] \in {"acquiring", "granted", "body"} => ~raised[s]

Outcomes == RaisedByBody /\ BodyErrorSurvives

\* A use that ends with r keeps the body's outcome if r is the outcome, or the
\* body has not run, or the process is gone.
LEMMA OutcomeReturned ==
    ASSUME Typing, Outcomes, NEW s \in Sections, NEW r \in Results, Return(s, r),
           UNCHANGED raised,
           ~raised[s] \/ r \in {"body_error", "killed"}
    PROVE  Outcomes'
BY DEF Outcomes, RaisedByBody, BodyErrorSurvives, Return, Typing, TypeOK

LEMMA OutcomesStep ==
    ASSUME HookReturns, Typing, Outcomes, [Next]_vars, [ReleaseUncancelled]_vars
    PROVE  Outcomes'
<1> USE DEF Typing, TypeOK
<1>1. ASSUME NEW s \in Sections, NEW e \in Entities, Begin(s, e)
      PROVE  Outcomes'
    BY <1>1 DEF Begin, Outcomes, RaisedByBody, BodyErrorSurvives
<1>2. ASSUME NEW s \in Sections, NEW t \in Tokens, Grant(s, t)
      PROVE  Outcomes'
    BY <1>2 DEF Grant, Outcomes, RaisedByBody, BodyErrorSurvives
<1>3. ASSUME NEW s \in Sections, Enter(s)
      PROVE  Outcomes'
    BY <1>3 DEF Enter, Outcomes, RaisedByBody, BodyErrorSurvives
<1>4. ASSUME NEW s \in Sections, TimeOut(s) \/ Unavailable(s)
      PROVE  Outcomes'
  <2>1. ~raised[s]
      BY <1>4 DEF TimeOut, Unavailable, Outcomes, RaisedByBody
  <2>. QED
      BY <1>4, <2>1, OutcomeReturned DEF TimeOut, Unavailable, Results
<1>5. ASSUME NEW s \in Sections, NEW failed \in BOOLEAN, ExitBody(s, failed)
      PROVE  Outcomes'
    BY <1>5 DEF ExitBody, Outcomes, RaisedByBody, BodyErrorSurvives
<1>6. ASSUME NEW s \in Sections, NEW failed \in BOOLEAN, HookRaises(s, failed)
      PROVE  FALSE
    BY <1>6 DEF HookRaises, HookReturns
<1>7. ASSUME NEW s \in Sections, Finish(s) \/ ReleaseFails(s)
      PROVE  Outcomes'
    BY <1>7, OutcomeReturned DEF Finish, ReleaseFails, BodyOutcome, Results
<1>8. ASSUME NEW s \in Sections, Crash(s)
      PROVE  Outcomes'
    BY <1>8, OutcomeReturned DEF Crash, Results
<1>12. ASSUME NEW s \in Sections, Cancel(s)
      PROVE  Outcomes'
  <2>1. vars' # vars
      BY <1>12 DEF Cancel, Return, vars
  <2>2. pc[s] \in {"acquiring", "granted"}
      BY <1>12, <2>1 DEF ReleaseUncancelled, Cancel
  <2>3. ~raised[s]
      BY <2>2 DEF Outcomes, RaisedByBody
  <2>. QED
      BY <1>12, <2>3, OutcomeReturned DEF Cancel, Results
<1>9. ASSUME NEW m \in releases, DeliverRelease(m) \/ LoseRelease(m)
      PROVE  Outcomes'
    BY <1>9 DEF DeliverRelease, LoseRelease, uses, Outcomes, RaisedByBody, BodyErrorSurvives
<1>10. CASE Tick
    BY <1>10 DEF Tick, Outcomes, RaisedByBody, BodyErrorSurvives
<1>11. CASE UNCHANGED vars
    BY <1>11 DEF vars, Outcomes, RaisedByBody, BodyErrorSurvives
<1>. QED
    BY <1>1, <1>2, <1>3, <1>4, <1>5, <1>6, <1>7, <1>8, <1>9, <1>10, <1>11,
       <1>12
       DEF Next, SectionStep

\* A hook that raises and a cancellation at the release are the only two that hide
\* the exception of a body: without them no failure, loss or delay of the release,
\* no outage and no earlier use does (entity_lock.py:121-135).
THEOREM BodyErrorsSurvive ==
    ASSUME HookReturns
    PROVE  Spec /\ [][ReleaseUncancelled]_vars => []BodyErrorSurvives
<1>1. Init => Outcomes
    BY DEF Init, Outcomes, RaisedByBody, BodyErrorSurvives
<1>2. Typing /\ Outcomes /\ [Next]_vars /\ [ReleaseUncancelled]_vars => Outcomes'
    BY OutcomesStep
<1>3. Leased => Typing
    BY DEF Leased
<1>4. Outcomes => BodyErrorSurvives
    BY DEF Outcomes
<1>. QED
    BY <1>1, <1>2, <1>3, <1>4, LeasedAlways, PTL DEF Spec
=============================================================================
