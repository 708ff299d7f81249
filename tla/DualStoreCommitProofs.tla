------------------------ MODULE DualStoreCommitProofs ------------------------
(***************************************************************************)
(* Theorems about DualStoreCommit, for every set of workers, entities and  *)
(* groups and with every fault.                                            *)
(***************************************************************************)
EXTENDS DualStoreCommit, TLAPS

\* The per-entity lock at work: one call per entity.
OneCallPerEntity ==
    \A w, v \in Workers :
        step[w] # "idle" /\ step[v] # "idle" /\ EntityOf(w) = EntityOf(v) => w = v

\* Nothing is durable before the commit.
DurableLate ==
    \A w \in Workers :
        step[w] \in {"idle", "writing", "commanding", "refused", "committing"} => ~durable[w]

\* From the write to the commit, and after it, the projection stays put.
ProjectionWritten ==
    \A w \in Workers :
        step[w] \in {"commanding", "refused", "committing"} \/ durable[w]
            => projection[EntityOf(w)] = TargetOf(w)

TruthCommitted ==
    \A w \in Workers : durable[w] => truth[EntityOf(w)] = TargetOf(w)

\* An entity with a live session has no other session under way.
OneSession == \A e \in Entities : session[e] = Offline \/ dial[e] = Offline

\* Once the device has dropped the old session, only the new group comes up.
AppliedHolds ==
    \A w \in Workers :
        (step[w] = "committing" \/ durable[w]) /\ outcome[w] = "applied" =>
            /\ session[EntityOf(w)] \in {TargetOf(w), Offline}
            /\ dial[EntityOf(w)] \in {TargetOf(w), Offline}

StoreInv == TypeOK /\ OneCallPerEntity /\ DurableLate /\ ProjectionWritten

FullInv == StoreInv /\ TruthCommitted /\ OneSession /\ AppliedHolds

-----------------------------------------------------------------------------

\* What the device command does, without the tuples of Answers.
LEMMA ForceReauthShape ==
    ASSUME NEW w \in Workers, ForceReauth(w)
    PROVE  LET dropped == [session EXCEPT ![EntityOf(w)] = Offline] IN
           \/ /\ step' = [step EXCEPT ![w] = "failing"]
              /\ session' \in {session, dropped}
              /\ outcome' = outcome
           \/ \E o \in {"rejected", "timeout"} :
                 /\ step' = [step EXCEPT ![w] = "refused"]
                 /\ outcome' = [outcome EXCEPT ![w] = o]
                 /\ session' \in {session, dropped}
           \/ /\ step' = [step EXCEPT ![w] = "committing"]
              /\ outcome' = [outcome EXCEPT ![w] = "no_session"]
              /\ session[EntityOf(w)] = Offline
              /\ session' = session
           \/ /\ step' = [step EXCEPT ![w] = "committing"]
              /\ outcome' = [outcome EXCEPT ![w] = "applied"]
              /\ session[EntityOf(w)] # Offline
              /\ session' = dropped
<1> DEFINE dropped == [session EXCEPT ![EntityOf(w)] = Offline]
<1>1. CASE \E a \in Answers(EntityOf(w)) :
             /\ Classify(w, a[1])
             /\ outcome' = [outcome EXCEPT ![w] = a[1]]
             /\ session' = a[2]
  <2>1. PICK a \in Answers(EntityOf(w)) :
             /\ Classify(w, a[1])
             /\ outcome' = [outcome EXCEPT ![w] = a[1]]
             /\ session' = a[2]
      BY <1>1
  <2>2. \/ a = <<"rejected", session>>
        \/ a = <<"timeout", session>>
        \/ a = <<"timeout", dropped>>
        \/ a = <<"no_session", session>> /\ session[EntityOf(w)] = Offline
        \/ a = <<"applied", dropped>> /\ session[EntityOf(w)] # Offline
      BY DEF Answers
  <2>3. CASE a = <<"rejected", session>>
      BY <2>1, <2>3 DEF Classify, Goto
  <2>4. CASE a = <<"timeout", session>> \/ a = <<"timeout", dropped>>
    <3>0. a[1] = "timeout" /\ (a[2] = session \/ a[2] = dropped)
        BY <2>4
    <3>1. /\ step' = [step EXCEPT ![w] = "refused"]
          /\ outcome' = [outcome EXCEPT ![w] = "timeout"]
          /\ session' \in {session, dropped}
      <4>1. a[1] \in {"rejected", "timeout"}
          BY <3>0
      <4>. QED
          BY <2>1, <3>0, <4>1 DEF Classify, Goto
    <3>. QED
        BY <3>1
  <2>5. CASE a = <<"no_session", session>> /\ session[EntityOf(w)] = Offline
      BY <2>1, <2>5 DEF Classify, Goto
  <2>6. CASE a = <<"applied", dropped>> /\ session[EntityOf(w)] # Offline
      BY <2>1, <2>6 DEF Classify, Goto
  <2>. QED
      BY <2>2, <2>3, <2>4, <2>5, <2>6
<1>2. CASE /\ Goto(w, "failing")
           /\ session' \in {session, dropped}
           /\ UNCHANGED outcome
    BY <1>2 DEF Goto
<1>. QED
    BY <1>1, <1>2 DEF ForceReauth

LEMMA InitInv == Init => FullInv
BY StoreConstants
   DEF Init, FullInv, StoreInv, TypeOK, OneCallPerEntity, DurableLate, ProjectionWritten,
       TruthCommitted, OneSession, AppliedHolds, Steps, CommandOutcome

\* A step of a call moves that call alone, and never to idle.
LEMMA CallFrame ==
    ASSUME NEW w \in Workers, CallStep(w)
    PROVE  /\ step[w] # "idle"
           /\ \E s \in Steps \ {"idle"} : step' = [step EXCEPT ![w] = s]
           /\ UNCHANGED <<change, dial>>
<1>1. CASE WriteGroup(w)
    BY <1>1 DEF WriteGroup, Goto, Steps
<1>2. CASE ForceReauth(w)
    BY <1>2, ForceReauthShape DEF ForceReauth, Steps
<1>3. CASE RollbackRefused(w)
    BY <1>3 DEF RollbackRefused, Goto, Steps
<1>4. CASE Commit(w)
    BY <1>4 DEF Commit, Goto, Steps
<1>5. CASE RollbackFailing(w)
    BY <1>5 DEF RollbackFailing, Goto, Steps
<1>6. CASE AuditRefused(w) \/ AuditFailing(w) \/ AuditSuccess(w)
    BY <1>6 DEF AuditRefused, AuditFailing, AuditSuccess, Record, Goto, Steps
<1>7. CASE RaiseRefused(w) \/ RaiseFailing(w) \/ ReturnOutcome(w)
    BY <1>7 DEF RaiseRefused, RaiseFailing, ReturnOutcome, Tell, Goto, Steps
<1>. QED
    BY <1>1, <1>2, <1>3, <1>4, <1>5, <1>6, <1>7 DEF CallStep

\* The steps that write a row or tell the caller touch nothing else.
LEMMA AuditShape ==
    ASSUME NEW w \in Workers
    PROVE  /\ AuditRefused(w) \/ AuditFailing(w) \/ AuditSuccess(w) =>
                 /\ UNCHANGED <<truth, projection, session, dial, change, outcome, durable,
                                result>>
                 /\ step[w] \in {"audit_refused", "audit_failing", "audit_success"}
                 /\ \E x \in {"telling_refused", "telling_failing", "telling_success"} :
                       step' = [step EXCEPT ![w] = x]
                 /\ \E row \in {"failed", "success"} :
                       audited' = [audited EXCEPT ![w] = Append(audited[w], row)]
           /\ RaiseRefused(w) \/ RaiseFailing(w) \/ ReturnOutcome(w) =>
                 /\ UNCHANGED <<truth, projection, session, dial, change, outcome, durable,
                                audited>>
                 /\ step[w] \in {"telling_refused", "telling_failing", "telling_success"}
                 /\ step' = [step EXCEPT ![w] = "returned"]
                 /\ \E r \in {"ok", "StateChangeFailed"} : result' = [result EXCEPT ![w] = r]
<1>1. ASSUME AuditRefused(w) \/ AuditFailing(w) \/ AuditSuccess(w)
      PROVE  /\ UNCHANGED <<truth, projection, session, dial, change, outcome, durable,
                            result>>
             /\ step[w] \in {"audit_refused", "audit_failing", "audit_success"}
             /\ \E x \in {"telling_refused", "telling_failing", "telling_success"} :
                   step' = [step EXCEPT ![w] = x]
             /\ \E row \in {"failed", "success"} :
                   audited' = [audited EXCEPT ![w] = Append(audited[w], row)]
    BY <1>1, Zenon DEF AuditRefused, AuditFailing, AuditSuccess, Record, Goto
<1>2. ASSUME RaiseRefused(w) \/ RaiseFailing(w) \/ ReturnOutcome(w)
      PROVE  /\ UNCHANGED <<truth, projection, session, dial, change, outcome, durable,
                            audited>>
             /\ step[w] \in {"telling_refused", "telling_failing", "telling_success"}
             /\ step' = [step EXCEPT ![w] = "returned"]
             /\ \E r \in {"ok", "StateChangeFailed"} : result' = [result EXCEPT ![w] = r]
    BY <1>2, Zenon DEF RaiseRefused, RaiseFailing, ReturnOutcome, Tell, Goto
<1>. QED
    BY <1>1, <1>2

\* A device command moves its own call, and no further than the commit.
LEMMA ForceReauthMoves ==
    ASSUME TypeOK, NEW w \in Workers, ForceReauth(w)
    PROVE  /\ \A v \in Workers \ {w} : step'[v] = step[v] /\ outcome'[v] = outcome[v]
           /\ step'[w] \in {"failing", "refused", "committing"}
           /\ \A e \in Entities : session'[e] \in {session[e], Offline}
           /\ step'[w] = "committing" /\ outcome'[w] = "applied" =>
                 session[EntityOf(w)] # Offline /\ session'[EntityOf(w)] = Offline
<1>1. step \in [Workers -> Steps] /\ outcome \in [Workers -> CommandOutcome \cup {"none"}]
      /\ session \in [Entities -> Groups \cup {Offline}]
    BY DEF TypeOK
<1>2. PICK x \in {"failing", "refused", "committing"} : step' = [step EXCEPT ![w] = x]
    BY ForceReauthShape
<1>3. \/ outcome' = outcome
      \/ \E o \in CommandOutcome : outcome' = [outcome EXCEPT ![w] = o]
    BY ForceReauthShape DEF CommandOutcome
<1>4. session' \in {session, [session EXCEPT ![EntityOf(w)] = Offline]}
    BY ForceReauthShape
<1>5. ASSUME step'[w] = "committing", outcome'[w] = "applied"
      PROVE  session[EntityOf(w)] # Offline /\ session'[EntityOf(w)] = Offline
  <2>1. EntityOf(w) \in Entities
      BY DEF TypeOK, EntityOf
  <2>2. \A s \in {"failing", "refused"} : step' # [step EXCEPT ![w] = s]
      BY <1>1, <1>5
  <2>3. outcome' # [outcome EXCEPT ![w] = "no_session"]
      BY <1>1, <1>5
  <2>4. /\ session[EntityOf(w)] # Offline
        /\ session' = [session EXCEPT ![EntityOf(w)] = Offline]
      BY <2>2, <2>3, ForceReauthShape
  <2>. QED
      BY <1>1, <2>1, <2>4
<1>. QED
    BY <1>1, <1>2, <1>3, <1>4, <1>5

\* Rows and answers move their own call, past every await that is not one of theirs.
LEMMA AuditMoves ==
    ASSUME TypeOK, NEW w \in Workers,
           \/ AuditRefused(w) \/ AuditFailing(w) \/ AuditSuccess(w)
           \/ RaiseRefused(w) \/ RaiseFailing(w) \/ ReturnOutcome(w)
    PROVE  /\ UNCHANGED <<truth, projection, session, dial, change, outcome, durable>>
           /\ \A v \in Workers \ {w} : step'[v] = step[v]
           /\ step'[w] \in {"telling_refused", "telling_failing", "telling_success", "returned"}
<1>1. step \in [Workers -> Steps]
    BY DEF TypeOK
<1>2. PICK x \in {"telling_refused", "telling_failing", "telling_success", "returned"} :
          step' = [step EXCEPT ![w] = x]
    BY AuditShape
<1>3. UNCHANGED <<truth, projection, session, dial, change, outcome, durable>>
    BY AuditShape
<1>. QED
    BY <1>1, <1>2, <1>3

\* What no router step touches.
LEMMA RouterFrame ==
    ASSUME TypeOK, NEW e \in Entities, RouterStep(e)
    PROVE  /\ UNCHANGED <<truth, projection, step, change, outcome, durable,
                          audited, result>>
           /\ session' \in [Entities -> Groups \cup {Offline}]
           /\ dial' \in [Entities -> Groups \cup {Offline}]
BY DEF TypeOK, RouterStep, HangUp, Dial, ReadGroup, SessionUp, calls

\* A step of a call, of its caller or of a router, wherever another call is.
AnyStep ==
    \/ \E w \in Workers :
          \/ \E e \in Entities, g \in Groups : Start(w, e, g)
          \/ CallStep(w)
          \/ Forget(w)
    \/ \E e \in Entities : RouterStep(e)
    \/ UNCHANGED vars

\* Every variable keeps its type, with or without the lock.
LEMMA AnyStepTypes == TypeOK /\ AnyStep => TypeOK'
<1> SUFFICES ASSUME TypeOK, AnyStep
             PROVE  TypeOK'
    OBVIOUS
<1>1. ASSUME NEW w \in Workers, NEW e \in Entities, NEW g \in Groups, Start(w, e, g)
      PROVE  TypeOK'
    BY <1>1 DEF TypeOK, Start, Goto, Steps
<1>2. ASSUME NEW w \in Workers, CallStep(w)
      PROVE  TypeOK'
  <2>0. PICK x \in Steps \ {"idle"} : step' = [step EXCEPT ![w] = x]
      BY <1>2, CallFrame
  <2>1. step' \in [Workers -> Steps] /\ UNCHANGED <<change, dial>>
      BY <1>2, <2>0, CallFrame DEF TypeOK
  <2>2. EntityOf(w) \in Entities /\ TargetOf(w) \in Groups
      BY DEF TypeOK, EntityOf, TargetOf
  <2>3. CASE WriteGroup(w)
      BY <2>1, <2>2, <2>3 DEF TypeOK, WriteGroup
  <2>4. CASE ForceReauth(w)
    <3>1. /\ session' \in [Entities -> Groups \cup {Offline}]
          /\ outcome' \in [Workers -> CommandOutcome \cup {"none"}]
        BY <2>2, <2>4, ForceReauthShape DEF TypeOK, CommandOutcome
    <3>. QED
        BY <2>1, <2>4, <3>1 DEF TypeOK, ForceReauth
  <2>5. CASE RollbackRefused(w)
      BY <2>1, <2>5 DEF TypeOK, RollbackRefused
  <2>6. CASE Commit(w)
    <3>1. truth' \in [Entities -> Groups] /\ durable' \in [Workers -> BOOLEAN]
      <4>1. CASE UNCHANGED <<truth, durable>>
          BY <4>1 DEF TypeOK
      <4>2. CASE /\ truth' = [truth EXCEPT ![EntityOf(w)] = TargetOf(w)]
                 /\ durable' = [durable EXCEPT ![w] = TRUE]
          BY <2>2, <4>2 DEF TypeOK
      <4>. QED
          BY <2>6, <4>1, <4>2 DEF Commit
    <3>. QED
        BY <2>1, <2>6, <3>1 DEF TypeOK, Commit
  <2>7. CASE RollbackFailing(w)
      BY <2>1, <2>7 DEF TypeOK, RollbackFailing
  <2>8. CASE AuditRefused(w) \/ AuditFailing(w) \/ AuditSuccess(w)
    <3>1. audited' \in [Workers -> Seq({"failed", "success"})]
      <4>1. PICK row \in {"failed", "success"} :
                audited' = [audited EXCEPT ![w] = Append(audited[w], row)]
          BY <2>8, AuditShape
      <4>2. Append(audited[w], row) \in Seq({"failed", "success"})
          BY <4>1 DEF TypeOK
      <4>. QED
          BY <4>1, <4>2 DEF TypeOK
    <3>2. UNCHANGED <<truth, projection, session, dial, change, outcome, durable, result>>
        BY <2>8, AuditShape
    <3>. QED
        BY <2>1, <3>1, <3>2 DEF TypeOK
  <2>9. CASE RaiseRefused(w) \/ RaiseFailing(w) \/ ReturnOutcome(w)
    <3>1. PICK r \in {"ok", "StateChangeFailed"} : result' = [result EXCEPT ![w] = r]
        BY <2>9, AuditShape
    <3>2. UNCHANGED <<truth, projection, session, dial, change, outcome, durable, audited>>
        BY <2>9, AuditShape
    <3>. QED
        BY <2>1, <3>1, <3>2 DEF TypeOK
  <2>. QED
      BY <1>2, <2>3, <2>4, <2>5, <2>6, <2>7, <2>8, <2>9 DEF CallStep
<1>3. ASSUME NEW w \in Workers, Forget(w)
      PROVE  TypeOK'
    BY <1>3 DEF TypeOK, Forget, Goto, Steps
<1>4. ASSUME NEW e \in Entities, RouterStep(e)
      PROVE  TypeOK'
    BY <1>4, RouterFrame DEF TypeOK
<1>5. CASE UNCHANGED vars
    BY <1>5 DEF TypeOK, vars
<1>. QED
    BY <1>1, <1>2, <1>3, <1>4, <1>5 DEF AnyStep

LEMMA TypeStep == TypeOK /\ [Next]_vars => TypeOK'
<1>1. [Next]_vars => AnyStep
    BY DEF Next, AnyStep, Leave, Crash
<1>. QED
    BY <1>1, AnyStepTypes

\* The lock keeps its promise: a call starts only when its entity has none.
LEMMA OneCallStep ==
    TypeOK /\ OneCallPerEntity /\ [Next]_vars => OneCallPerEntity'
<1> SUFFICES ASSUME TypeOK, OneCallPerEntity, [Next]_vars
             PROVE  OneCallPerEntity'
    OBVIOUS
<1> USE DEF OneCallPerEntity, EntityOf
<1>1. ASSUME NEW w \in Workers, NEW e \in Entities, NEW g \in Groups,
             CallerHoldsLock(e), Start(w, e, g)
      PROVE  OneCallPerEntity'
    BY <1>1 DEF TypeOK, CallerHoldsLock, Start, Goto
<1>2. ASSUME NEW w \in Workers, CallStep(w)
      PROVE  OneCallPerEntity'
    BY <1>2, CallFrame DEF TypeOK
<1>3. ASSUME NEW w \in Workers, Forget(w)
      PROVE  OneCallPerEntity'
    BY <1>3 DEF TypeOK, Forget, Goto
<1>4. ASSUME NEW e \in Entities, RouterStep(e)
      PROVE  OneCallPerEntity'
    BY <1>4, RouterFrame
<1>5. CASE UNCHANGED vars
    BY <1>5 DEF vars
<1>. QED
    BY <1>1, <1>2, <1>3, <1>4, <1>5 DEF Next, Leave, Crash

\* Only the commit makes a change durable.
LEMMA DurableStep == TypeOK /\ DurableLate /\ [Next]_vars => DurableLate'
<1> SUFFICES ASSUME TypeOK, DurableLate, [Next]_vars
             PROVE  DurableLate'
    OBVIOUS
<1> USE DEF DurableLate, TypeOK
<1>1. ASSUME NEW w \in Workers, NEW e \in Entities, NEW g \in Groups, Start(w, e, g)
      PROVE  DurableLate'
    BY <1>1 DEF Start, Goto
<1>2. ASSUME NEW w \in Workers, WriteGroup(w) \/ RollbackRefused(w) \/ RollbackFailing(w)
      PROVE  DurableLate'
    BY <1>2 DEF WriteGroup, RollbackRefused, RollbackFailing, Goto
<1>3. ASSUME NEW w \in Workers, ForceReauth(w)
      PROVE  DurableLate'
  <2>1. step[w] = "commanding" /\ UNCHANGED durable
      BY <1>3 DEF ForceReauth
  <2>2. \A v \in Workers : v # w => step'[v] = step[v]
      BY <1>3, ForceReauthMoves
  <2>. QED
      BY <2>1, <2>2
<1>4. ASSUME NEW w \in Workers, Commit(w)
      PROVE  DurableLate'
    BY <1>4 DEF Commit, Goto
<1>5. ASSUME NEW w \in Workers,
             \/ AuditRefused(w) \/ AuditFailing(w) \/ AuditSuccess(w)
             \/ RaiseRefused(w) \/ RaiseFailing(w) \/ ReturnOutcome(w)
      PROVE  DurableLate'
    BY <1>5, AuditMoves
<1>6. ASSUME NEW w \in Workers, Forget(w)
      PROVE  DurableLate'
    BY <1>6 DEF Forget, Goto
<1>7. ASSUME NEW e \in Entities, RouterStep(e)
      PROVE  DurableLate'
    BY <1>7, RouterFrame
<1>8. CASE UNCHANGED vars
    BY <1>8 DEF vars
<1>. QED
    BY <1>1, <1>2, <1>3, <1>4, <1>5, <1>6, <1>7, <1>8 DEF Next, CallStep, Leave, Crash

\* Only the call of an entity writes its projection, and only in write_group.
LEMMA WrittenStep == StoreInv /\ [Next]_vars => ProjectionWritten'
<1> SUFFICES ASSUME StoreInv, [Next]_vars
             PROVE  ProjectionWritten'
    OBVIOUS
<1> USE DEF StoreInv, ProjectionWritten, DurableLate, EntityOf, TargetOf
<1>1. ASSUME NEW w \in Workers, NEW e \in Entities, NEW g \in Groups, Start(w, e, g)
      PROVE  ProjectionWritten'
    BY <1>1 DEF TypeOK, Start, Goto
<1>2. ASSUME NEW w \in Workers, WriteGroup(w)
      PROVE  ProjectionWritten'
  <2> SUFFICES ASSUME NEW v \in Workers,
                      step'[v] \in {"commanding", "refused", "committing"} \/ durable[v]
               PROVE  projection'[EntityOf(v)] = TargetOf(v)
      BY <1>2 DEF WriteGroup
  <2>1. CASE v = w
      BY <1>2, <2>1 DEF WriteGroup, Goto, TypeOK
  <2>2. CASE v # w
    <3>1. step[v] \in {"commanding", "refused", "committing"} \/ durable[v]
        BY <1>2, <2>2 DEF WriteGroup, Goto, TypeOK
    <3>2. EntityOf(v) # EntityOf(w)
        BY <1>2, <2>2, <3>1 DEF WriteGroup, OneCallPerEntity
    <3>. QED
        BY <1>2, <3>1, <3>2 DEF WriteGroup, TypeOK
  <2>. QED
      BY <2>1, <2>2
<1>3. ASSUME NEW w \in Workers, ForceReauth(w)
      PROVE  ProjectionWritten'
  <2>1. step[w] = "commanding" /\ UNCHANGED <<projection, change, durable>>
      BY <1>3 DEF ForceReauth
  <2>2. \A v \in Workers : v # w => step'[v] = step[v]
      BY <1>3, ForceReauthMoves
  <2>. QED
      BY <2>1, <2>2
<1>4. ASSUME NEW w \in Workers, RollbackRefused(w) \/ Commit(w) \/ RollbackFailing(w)
      PROVE  ProjectionWritten'
    BY <1>4 DEF TypeOK, RollbackRefused, Commit, RollbackFailing, Goto
<1>5. ASSUME NEW w \in Workers,
             \/ AuditRefused(w) \/ AuditFailing(w) \/ AuditSuccess(w)
             \/ RaiseRefused(w) \/ RaiseFailing(w) \/ ReturnOutcome(w)
      PROVE  ProjectionWritten'
    BY <1>5, AuditMoves
<1>6. ASSUME NEW w \in Workers, Forget(w)
      PROVE  ProjectionWritten'
    BY <1>6 DEF TypeOK, Forget, Goto
<1>7. ASSUME NEW e \in Entities, RouterStep(e)
      PROVE  ProjectionWritten'
    BY <1>7, RouterFrame
<1>8. CASE UNCHANGED vars
    BY <1>8 DEF vars
<1>. QED
    BY <1>1, <1>2, <1>3, <1>4, <1>5, <1>6, <1>7, <1>8 DEF Next, CallStep, Leave, Crash

LEMMA StoreInvStep == StoreInv /\ [Next]_vars => StoreInv'
BY TypeStep, OneCallStep, DurableStep, WrittenStep DEF StoreInv

\* A step of the two stores is a step of ProjectionLeads, or none.
LEMMA StepRefines == StoreInv /\ [Next]_vars => [Leads!Next]_<<truth, projection>>
<1> SUFFICES ASSUME StoreInv, [Next]_vars
             PROVE  Leads!Next \/ UNCHANGED <<truth, projection>>
    OBVIOUS
<1> USE DEF StoreInv, TypeOK, EntityOf, TargetOf
<1>1. ASSUME NEW w \in Workers, WriteGroup(w)
      PROVE  Leads!Next \/ UNCHANGED <<truth, projection>>
    BY <1>1 DEF WriteGroup, Leads!Next, Leads!WriteProjection
<1>2. ASSUME NEW w \in Workers, Commit(w)
      PROVE  Leads!Next \/ UNCHANGED <<truth, projection>>
  <2>1. projection[EntityOf(w)] = TargetOf(w)
      BY <1>2 DEF Commit, ProjectionWritten
  <2>. QED
      BY <1>2, <2>1 DEF Commit, Leads!Next, Leads!CommitTruth
<1>3. ASSUME NEW w \in Workers,
             \/ \E e \in Entities, g \in Groups : Start(w, e, g)
             \/ ForceReauth(w) \/ RollbackRefused(w) \/ RollbackFailing(w)
             \/ Leave(w) \/ Crash(w)
      PROVE  UNCHANGED <<truth, projection>>
    BY <1>3 DEF Start, ForceReauth, RollbackRefused, RollbackFailing, Leave, Crash, Forget
<1>6. ASSUME NEW w \in Workers,
             \/ AuditRefused(w) \/ AuditFailing(w) \/ AuditSuccess(w)
             \/ RaiseRefused(w) \/ RaiseFailing(w) \/ ReturnOutcome(w)
      PROVE  UNCHANGED <<truth, projection>>
    BY <1>6, AuditShape
<1>4. ASSUME NEW e \in Entities, RouterStep(e)
      PROVE  UNCHANGED <<truth, projection>>
    BY <1>4 DEF RouterStep, HangUp, Dial, ReadGroup, SessionUp
<1>5. CASE UNCHANGED vars
    BY <1>5 DEF vars
<1>. QED
    BY <1>1, <1>2, <1>3, <1>4, <1>5, <1>6 DEF Next, CallStep

\* apply_state_change under the per-entity lock implements ProjectionLeads:
\* the authoritative store is never ahead of the projection.
THEOREM ImplementsProjectionLeads == Spec => CommitFollowsProjection
<1>1. Init => StoreInv
    BY InitInv DEF FullInv
<1>2. Init => Leads!Init
    BY DEF Init, Leads!Init
<1>. QED
    BY <1>1, <1>2, StoreInvStep, StepRefines, PTL
       DEF Spec, Leads!Spec, CommitFollowsProjection

-----------------------------------------------------------------------------

\* What a successful call has achieved stays achieved until it lets go.
LEMMA FullInvStep == FullInv /\ [Next]_vars => FullInv'
<1> SUFFICES ASSUME FullInv, [Next]_vars
             PROVE  TruthCommitted' /\ OneSession' /\ AppliedHolds'
    BY StoreInvStep DEF FullInv
<1> USE DEF FullInv, StoreInv, TruthCommitted, OneSession, AppliedHolds, DurableLate,
            EntityOf, TargetOf
<1>1. ASSUME NEW w \in Workers, NEW e \in Entities, NEW g \in Groups, Start(w, e, g)
      PROVE  TruthCommitted' /\ OneSession' /\ AppliedHolds'
    BY <1>1 DEF TypeOK, Start, Goto
<1>2. ASSUME NEW w \in Workers,
             WriteGroup(w) \/ RollbackRefused(w) \/ RollbackFailing(w)
      PROVE  TruthCommitted' /\ OneSession' /\ AppliedHolds'
  <2>1. CASE WriteGroup(w)
      BY <2>1 DEF TypeOK, WriteGroup, Goto
  <2>2. CASE RollbackRefused(w)
      BY <2>2 DEF TypeOK, RollbackRefused, Goto
  <2>3. CASE RollbackFailing(w)
      BY <2>3 DEF TypeOK, RollbackFailing, Goto
  <2>. QED
      BY <1>2, <2>1, <2>2, <2>3
<1>3. ASSUME NEW w \in Workers, ForceReauth(w)
      PROVE  TruthCommitted' /\ OneSession' /\ AppliedHolds'
  <2>1. /\ step[w] = "commanding" /\ ~durable[w]
        /\ UNCHANGED <<truth, projection, dial, change, durable>>
      BY <1>3 DEF ForceReauth
  <2>2. \A v \in Workers : v # w => step'[v] = step[v] /\ outcome'[v] = outcome[v]
      BY <1>3, ForceReauthMoves
  <2>3. step'[w] \in {"failing", "refused", "committing"}
      BY <1>3, ForceReauthMoves
  <2>4. \A e \in Entities : session'[e] = session[e] \/ session'[e] = Offline
      BY <1>3, ForceReauthMoves
  <2>5. step'[w] = "committing" /\ outcome'[w] = "applied" =>
           session'[EntityOf(w)] = Offline /\ dial[EntityOf(w)] = Offline
    <3>1. EntityOf(w) \in Entities
        BY DEF TypeOK
    <3>2. step'[w] = "committing" /\ outcome'[w] = "applied" =>
             session[EntityOf(w)] # Offline /\ session'[EntityOf(w)] = Offline
        BY <1>3, ForceReauthMoves
    <3>. QED
        BY <3>1, <3>2
  <2>6. TruthCommitted'
      BY <2>1, <2>2, <2>3
  <2>7. OneSession'
      BY <2>1, <2>4
  <2>8. AppliedHolds'
      BY <2>1, <2>2, <2>3, <2>4, <2>5 DEF TypeOK
  <2>. QED
      BY <2>6, <2>7, <2>8
<1>4. ASSUME NEW w \in Workers, Commit(w)
      PROVE  TruthCommitted' /\ OneSession' /\ AppliedHolds'
  <2>1. \A v \in Workers : v # w /\ durable[v] => EntityOf(v) # EntityOf(w)
      BY <1>4 DEF Commit, OneCallPerEntity
  <2>2. \A v \in Workers : v # w => step'[v] = step[v]
      BY <1>4 DEF Commit, Goto, TypeOK
  <2>3. \/ UNCHANGED <<truth, durable>>
        \/ /\ truth' = [truth EXCEPT ![EntityOf(w)] = TargetOf(w)]
           /\ durable' = [durable EXCEPT ![w] = TRUE]
      BY <1>4 DEF Commit
  <2>6. step[w] = "committing" /\ step'[w] \in {"failing", "audit_success"}
      BY <1>4 DEF Commit, Goto, TypeOK
  <2>4. TruthCommitted'
    <3>1. CASE UNCHANGED <<truth, durable>>
        BY <1>4, <3>1 DEF Commit
    <3>2. CASE /\ truth' = [truth EXCEPT ![EntityOf(w)] = TargetOf(w)]
               /\ durable' = [durable EXCEPT ![w] = TRUE]
      <4>1. truth'[EntityOf(w)] = TargetOf(w)
          BY <3>2 DEF TypeOK
      <4>2. \A v \in Workers : v # w /\ durable[v] => truth'[EntityOf(v)] = truth[EntityOf(v)]
          BY <2>1, <3>2 DEF TypeOK
      <4>. QED
          BY <1>4, <3>2, <4>1, <4>2 DEF Commit, TypeOK
    <3>. QED
        BY <2>3, <3>1, <3>2
  <2>5. OneSession' /\ AppliedHolds'
      BY <1>4, <2>2, <2>3, <2>6 DEF Commit, TypeOK
  <2>. QED
      BY <2>4, <2>5
<1>5. ASSUME NEW w \in Workers,
             \/ AuditRefused(w) \/ AuditFailing(w) \/ AuditSuccess(w)
             \/ RaiseRefused(w) \/ RaiseFailing(w) \/ ReturnOutcome(w)
      PROVE  TruthCommitted' /\ OneSession' /\ AppliedHolds'
    BY <1>5, AuditMoves
<1>6. ASSUME NEW w \in Workers, Forget(w)
      PROVE  TruthCommitted' /\ OneSession' /\ AppliedHolds'
    BY <1>6 DEF TypeOK, Forget, Goto
<1>7. ASSUME NEW e \in Entities, RouterStep(e)
      PROVE  TruthCommitted' /\ OneSession' /\ AppliedHolds'
  <2>1. UNCHANGED <<truth, projection, step, change, outcome, durable>>
      BY <1>7, RouterFrame
  <2>2. \A f \in Entities \ {e} : session'[f] = session[f] /\ dial'[f] = dial[f]
      BY <1>7 DEF RouterStep, HangUp, Dial, ReadGroup, SessionUp, TypeOK
  <2>3. /\ session'[e] \in {session[e], Offline, projection[e], dial[e]}
        /\ dial'[e] \in {dial[e], Offline, projection[e]}
      BY <1>7 DEF RouterStep, HangUp, Dial, ReadGroup, SessionUp, TypeOK
  <2>4. session'[e] = Offline \/ dial'[e] = Offline
      BY <1>7 DEF RouterStep, HangUp, Dial, ReadGroup, SessionUp, TypeOK
  <2>5. AppliedHolds'
    <3> SUFFICES ASSUME NEW w \in Workers, step[w] = "committing" \/ durable[w],
                        outcome[w] = "applied"
                 PROVE  /\ session'[EntityOf(w)] \in {TargetOf(w), Offline}
                        /\ dial'[EntityOf(w)] \in {TargetOf(w), Offline}
        BY <2>1
    <3>1. /\ session[EntityOf(w)] \in {TargetOf(w), Offline}
          /\ dial[EntityOf(w)] \in {TargetOf(w), Offline}
          /\ projection[EntityOf(w)] = TargetOf(w)
        BY DEF ProjectionWritten
    <3>2. EntityOf(w) \in Entities
        BY DEF TypeOK
    <3>. QED
        BY <2>2, <2>3, <3>1, <3>2
  <2>. QED
      BY <2>1, <2>2, <2>4, <2>5
<1>8. CASE UNCHANGED vars
    BY <1>8 DEF vars
<1>. QED
    BY <1>1, <1>2, <1>3, <1>4, <1>5, <1>6, <1>7, <1>8 DEF Next, CallStep, Leave, Crash

LEMMA FullInvAlways == Spec => []FullInv
BY InitInv, FullInvStep, PTL DEF Spec

\* Every variable keeps its type.
THEOREM TypeCorrect == Spec => []TypeOK
<1>1. FullInv => TypeOK
    BY DEF FullInv, StoreInv
<1>. QED
    BY <1>1, FullInvAlways, PTL

\* A change that failed after it became durable is complete in both stores, and
\* after APPLIED no session is of another group, whatever failed in what order.
THEOREM FalseFailuresAreComplete == Spec => []FalseFailureIsComplete
<1>1. FullInv => FalseFailureIsComplete
    BY DEF FullInv, StoreInv, ProjectionWritten, TruthCommitted, AppliedHolds,
           FalseFailureIsComplete
<1>. QED
    BY <1>1, FullInvAlways, PTL

-----------------------------------------------------------------------------
(* The audit trail.                                                        *)

Refusals == {"rejected", "timeout"}

\* What a call has written and knows, at each of its awaits.
Trail(w) ==
    /\ step[w] # "returned" => result[w] = "none"
    /\ step[w] \notin {"telling_refused", "telling_failing", "telling_success", "returned"}
          => audited[w] = <<>>
    /\ step[w] \in {"telling_refused", "telling_failing"} => audited[w] = <<"failed">>
    /\ step[w] = "telling_success" => audited[w] = <<"success">>
    /\ step[w] \in {"idle", "writing", "commanding"} => outcome[w] = "none"
    /\ step[w] \in {"committing", "audit_success", "telling_success"} => outcome[w] \notin Refusals
    /\ step[w] \in {"audit_success", "telling_success"} => durable[w]
    /\ outcome[w] \in Refusals => ~durable[w]
    /\ audited[w] \in {<<>>, <<"failed">>, <<"success">>}
    /\ audited[w] = <<"success">> => durable[w]
    /\ result[w] = "StateChangeFailed" => audited[w] = <<"failed">>
    /\ result[w] = "ok" => audited[w] = <<"success">>

Trails == \A w \in Workers : Trail(w)

LEMMA FirstRow == Append(<<>>, "failed") = <<"failed">> /\ Append(<<>>, "success") = <<"success">>
OBVIOUS

LEMMA RowsDiffer == <<"failed">> # <<"success">> /\ <<>> # <<"failed">> /\ <<>> # <<"success">>
OBVIOUS

LEMMA TrailStep == FullInv /\ Trails /\ [Next]_vars => Trails'
<1> SUFFICES ASSUME FullInv, Trails, [Next]_vars, NEW v \in Workers
             PROVE  Trail(v)'
    BY DEF Trails
<1> USE RowsDiffer DEF FullInv, StoreInv, DurableLate, Trails, Trail, TypeOK, Refusals
<1>1. ASSUME NEW w \in Workers, NEW e \in Entities, NEW g \in Groups, Start(w, e, g)
      PROVE  Trail(v)'
    BY <1>1 DEF Start, Goto
<1>2. ASSUME NEW w \in Workers, WriteGroup(w)
      PROVE  Trail(v)'
    BY <1>2 DEF WriteGroup, Goto
<1>3. ASSUME NEW w \in Workers, ForceReauth(w)
      PROVE  Trail(v)'
  <2>1. step[w] = "commanding" /\ UNCHANGED <<durable, audited, result>>
      BY <1>3 DEF ForceReauth
  <2>2. \/ step' = [step EXCEPT ![w] = "failing"] /\ outcome' = outcome
        \/ \E o \in Refusals : step' = [step EXCEPT ![w] = "refused"]
                               /\ outcome' = [outcome EXCEPT ![w] = o]
        \/ \E o \in {"no_session", "applied"} :
              step' = [step EXCEPT ![w] = "committing"]
              /\ outcome' = [outcome EXCEPT ![w] = o]
      BY <1>3, ForceReauthShape
  <2>. QED
      BY <2>1, <2>2
<1>4. ASSUME NEW w \in Workers, RollbackRefused(w)
      PROVE  Trail(v)'
    BY <1>4 DEF RollbackRefused, Goto
<1>5. ASSUME NEW w \in Workers, Commit(w)
      PROVE  Trail(v)'
    BY <1>5 DEF Commit, Goto
<1>6. ASSUME NEW w \in Workers, RollbackFailing(w)
      PROVE  Trail(v)'
    BY <1>6 DEF RollbackFailing, Goto
<1>7. ASSUME NEW w \in Workers, AuditRefused(w) \/ AuditFailing(w)
      PROVE  Trail(v)'
  <2>1. /\ step[w] \in {"audit_refused", "audit_failing"}
        /\ step' = [step EXCEPT ![w] = "telling_refused"]
           \/ step' = [step EXCEPT ![w] = "telling_failing"]
        /\ audited' = [audited EXCEPT ![w] = Append(audited[w], "failed")]
        /\ UNCHANGED <<outcome, durable, result>>
      BY <1>7, Zenon DEF AuditRefused, AuditFailing, Record, Goto
  <2>2. audited' = [audited EXCEPT ![w] = <<"failed">>]
      BY <2>1, FirstRow
  <2>3. step' = [step EXCEPT ![w] = "telling_refused"]
           \/ step' = [step EXCEPT ![w] = "telling_failing"]
      BY <2>1
  <2>4. CASE v = w
    <3>1. /\ audited'[w] = <<"failed">>
          /\ step'[w] \in {"telling_refused", "telling_failing"}
          /\ UNCHANGED <<outcome, durable, result>>
        BY <2>1, <2>2, <2>3
    <3>2. result[w] = "none" /\ (outcome[w] \in Refusals => ~durable[w])
        BY <2>1
    <3>. QED
        BY <2>4, <3>1, <3>2
  <2>5. CASE v # w
    <3>1. UNCHANGED <<step[v], audited[v], outcome[v], durable[v], result[v]>>
        BY <2>1, <2>2, <2>3, <2>5
    <3>. QED
        BY <3>1
  <2>. QED
      BY <2>4, <2>5
<1>8. ASSUME NEW w \in Workers, AuditSuccess(w)
      PROVE  Trail(v)'
  <2>1. /\ step[w] = "audit_success"
        /\ step' = [step EXCEPT ![w] = "telling_success"]
        /\ audited' = [audited EXCEPT ![w] = Append(audited[w], "success")]
        /\ UNCHANGED <<outcome, durable, result>>
      BY <1>8, Zenon DEF AuditSuccess, Record, Goto
  <2>2. audited' = [audited EXCEPT ![w] = <<"success">>]
      BY <2>1, FirstRow
  <2>3. CASE v = w
    <3>1. /\ audited'[w] = <<"success">> /\ step'[w] = "telling_success"
          /\ UNCHANGED <<outcome, durable, result>>
        BY <2>1, <2>2
    <3>2. result[w] = "none" /\ durable[w] /\ outcome[w] \notin Refusals
        BY <2>1
    <3>. QED
        BY <2>3, <3>1, <3>2
  <2>4. CASE v # w
    <3>1. UNCHANGED <<step[v], audited[v], outcome[v], durable[v], result[v]>>
        BY <2>1, <2>2, <2>4
    <3>. QED
        BY <3>1
  <2>. QED
      BY <2>3, <2>4
<1>9. ASSUME NEW w \in Workers, RaiseRefused(w) \/ RaiseFailing(w) \/ ReturnOutcome(w)
      PROVE  Trail(v)'
    BY <1>9 DEF RaiseRefused, RaiseFailing, ReturnOutcome, Tell, Goto
<1>10. ASSUME NEW w \in Workers, Forget(w)
      PROVE  Trail(v)'
    BY <1>10 DEF Forget, Goto
<1>11. ASSUME NEW e \in Entities, RouterStep(e)
      PROVE  Trail(v)'
    BY <1>11, RouterFrame
<1>12. CASE UNCHANGED vars
    BY <1>12 DEF vars
<1>. QED
    BY <1>1, <1>2, <1>3, <1>4, <1>5, <1>6, <1>7, <1>8, <1>9, <1>10, <1>11, <1>12
       DEF Next, CallStep, Leave, Crash

LEMMA TrailsAlways == Spec => []Trails
<1>1. Init => Trails
    BY RowsDiffer DEF Init, Trails, Trail, Refusals
<1>. QED
    BY <1>1, TrailStep, FullInvAlways, PTL DEF Spec

\* A rejected or unanswered change is never in the authoritative store.
THEOREM RefusalsAreNotCommitted == Spec => []RefusedNotCommitted
<1>1. Trails => RefusedNotCommitted
    BY DEF Trails, Trail, Refusals, RefusedNotCommitted
<1>. QED
    BY <1>1, TrailsAlways, PTL

\* The trail claims no success that is not durable.
THEOREM SuccessAuditsStand == Spec => []SuccessAuditPersisted
<1>1. ASSUME Trails, NEW w \in Workers, NEW i \in DOMAIN audited[w],
             audited[w][i] = "success"
      PROVE  durable[w]
  <2>1. audited[w] # <<>>
      BY <1>1
  <2>2. audited[w] # <<"failed">>
      BY <1>1
  <2>. QED
      BY <1>1, <2>1, <2>2 DEF Trails, Trail
<1>2. Trails => SuccessAuditPersisted
    BY <1>1 DEF SuccessAuditPersisted
<1>. QED
    BY <1>2, TrailsAlways, PTL

\* What the caller is told is in the trail, once, for any number of calls, faults
\* and rollbacks.
THEOREM RowsMatchAnswers == Spec => []RowMatchesAnswer
<1>1. Trails => RowMatchesAnswer
    BY DEF Trails, Trail, RowMatchesAnswer
<1>. QED
    BY <1>1, TrailsAlways, PTL

\* A normal return means both stores are at the target and, after APPLIED, no
\* session of another group is up or coming up, whatever the subscriber does.
THEOREM SuccessIsComplete == Spec => []SuccessMeansStoresAgree
<1>1. Trails => \A w \in Workers : result[w] = "ok" => durable[w]
    BY DEF Trails, Trail
<1>2. FullInv /\ Trails => SuccessMeansStoresAgree
    BY <1>1 DEF FullInv, StoreInv, ProjectionWritten, TruthCommitted, AppliedHolds,
           SuccessMeansStoresAgree
<1>. QED
    BY <1>2, FullInvAlways, TrailsAlways, PTL
=============================================================================
