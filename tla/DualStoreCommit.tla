--------------------------- MODULE DualStoreCommit ---------------------------
(***************************************************************************)
(* examples/concurrency/dual_store_commit.py: apply_state_change, one      *)
(* action per await.  Each awaited call may return, or raise with or       *)
(* without its effect having happened; a network command may also be lost  *)
(* (TIMEOUT) on the way there or on the way back.                          *)
(*                                                                         *)
(* The module takes the caller's per-entity lock for granted (EntityLock   *)
(* and LockedStateChange supply it): CallerHoldsLock.                      *)
(*                                                                         *)
(* The subscriber's session on the router is what force_reauth acts on.    *)
(* It is the environment's: a session that comes up takes the group the    *)
(* projection holds when its authentication is read.                       *)
(***************************************************************************)
EXTENDS Sequences

CONSTANTS
    Workers,    \* the calls of apply_state_change that may be under way
    Entities,
    Groups,     \* target groups
    Offline,    \* no session, or no group read for one
    Faults      \* "crash": a process dies or a task is cancelled in a call;
                \* "auth_race": a session may come up on an old read

ASSUME StoreConstants ==
    /\ Offline \notin Groups
    /\ Faults \subseteq {"crash", "auth_race"}

VARIABLES
    truth,       \* authoritative store: committed group of each entity
    projection,  \* projection: group of each entity
    session,     \* the router: group of the live session, or Offline
    dial,        \* the router: group read for a session not yet up, or Offline
    step,        \* where each call is
    change,      \* its StateChange
    outcome,     \* what force_reauth returned to it
    durable,     \* its transaction is committed in the authoritative store
    audited,     \* the audit rows it has written, in order
    result       \* how it ended

stores == <<truth, projection>>
router == <<session, dial>>
calls == <<step, change, outcome, durable, audited, result>>
vars == <<truth, projection, session, dial, step, change, outcome, durable, audited, result>>

\* The awaits of the three ways through the call; "telling_..." is the await of
\* an audit row that is written.
Steps == {"idle", "writing", "commanding",
          "refused", "audit_refused", "telling_refused",
          "committing", "audit_success", "telling_success",
          "failing", "audit_failing", "telling_failing", "returned"}

CommandOutcome == {"applied", "no_session", "rejected", "timeout"}

TypeOK ==
    /\ truth \in [Entities -> Groups]
    /\ projection \in [Entities -> Groups]
    /\ session \in [Entities -> Groups \cup {Offline}]
    /\ dial \in [Entities -> Groups \cup {Offline}]
    /\ step \in [Workers -> Steps]
    /\ change \in [Workers -> [entity : Entities, target : Groups]]
    /\ outcome \in [Workers -> CommandOutcome \cup {"none"}]
    /\ durable \in [Workers -> BOOLEAN]
    /\ audited \in [Workers -> Seq({"failed", "success"})]
    /\ result \in [Workers -> {"none", "ok", "StateChangeFailed", "error"}]

Init ==
    /\ truth \in [Entities -> Groups]
    /\ projection = truth
    /\ session \in [Entities -> Groups \cup {Offline}]
    /\ \A e \in Entities : session[e] \in {truth[e], Offline}
    /\ dial = [e \in Entities |-> Offline]
    /\ step = [w \in Workers |-> "idle"]
    /\ change \in [Workers -> [entity : Entities, target : Groups]]
    /\ outcome = [w \in Workers |-> "none"]
    /\ durable = [w \in Workers |-> FALSE]
    /\ audited = [w \in Workers |-> <<>>]
    /\ result = [w \in Workers |-> "none"]

EntityOf(w) == change[w].entity
TargetOf(w) == change[w].target

Goto(w, s) == step' = [step EXCEPT ![w] = s]

-----------------------------------------------------------------------------
(* apply_state_change.                                                     *)

\* Faulty Start: the authoritative store goes first.
CommitFirst(w, e, g) ==
    /\ step[w] = "idle"
    /\ Goto(w, "committing")
    /\ change' = [change EXCEPT ![w] = [entity |-> e, target |-> g]]
    /\ UNCHANGED <<truth, projection, session, dial, outcome, durable, audited, result>>

\* The caller holds the entity's lock and calls with a change.
Start(w, e, g) ==
    /\ step[w] = "idle"
    /\ Goto(w, "writing")
    /\ change' = [change EXCEPT ![w] = [entity |-> e, target |-> g]]
    /\ UNCHANGED <<truth, projection, session, dial, outcome, durable, audited, result>>

\* write_group commits inside its own call; it may raise before or after that.
WriteGroup(w) ==
    /\ step[w] = "writing"
    /\ \/ /\ Goto(w, "commanding")
          /\ projection' = [projection EXCEPT ![EntityOf(w)] = TargetOf(w)]
       \/ /\ Goto(w, "failing")
          /\ projection' \in {projection,
                              [projection EXCEPT ![EntityOf(w)] = TargetOf(w)]}
    /\ UNCHANGED <<truth, session, dial, change, outcome, durable, audited, result>>

\* Faulty Answers: a device code outside CommandOutcome.
RawCodes(e) == {<<"nak", session>>}

\* The answers of the device, and what has become of the session by then.
Answers(e) ==
    LET dropped == [session EXCEPT ![e] = Offline] IN
    {<<"rejected", session>>, <<"timeout", session>>, <<"timeout", dropped>>}
    \cup IF session[e] = Offline THEN {<<"no_session", session>>}
                                 ELSE {<<"applied", dropped>>}

\* Faulty Classify: no answer is taken for no session.
SilenceIsNoSession(w, o) ==
    Goto(w, IF o = "rejected" THEN "refused" ELSE "committing")

\* Lines 118-130: only APPLIED and NO_SESSION go on to the commit.
Classify(w, o) ==
    Goto(w, IF o \in {"rejected", "timeout"} THEN "refused" ELSE "committing")

\* The device command: an outcome, or an exception with or without effect.
ForceReauth(w) ==
    /\ step[w] = "commanding"
    /\ \/ \E a \in Answers(EntityOf(w)) :
             /\ Classify(w, a[1])
             /\ outcome' = [outcome EXCEPT ![w] = a[1]]
             /\ session' = a[2]
       \/ /\ Goto(w, "failing")
          /\ session' \in {session, [session EXCEPT ![EntityOf(w)] = Offline]}
          /\ UNCHANGED outcome
    /\ UNCHANGED <<truth, projection, dial, change, durable, audited, result>>

\* Rollback of the refused change (line 122); if it raises, `except Exception`
\* rolls back again.
RollbackRefused(w) ==
    /\ step[w] = "refused"
    /\ Goto(w, "audit_refused") \/ Goto(w, "failing")
    /\ UNCHANGED <<truth, projection, session, dial, change, outcome, durable, audited, result>>

\* The caller's transaction commits; the answer may be an exception either way.
Commit(w) ==
    /\ step[w] = "committing"
    /\ \/ /\ Goto(w, "audit_success") \/ Goto(w, "failing")
          /\ truth' = [truth EXCEPT ![EntityOf(w)] = TargetOf(w)]
          /\ durable' = [durable EXCEPT ![w] = TRUE]
       \/ /\ Goto(w, "failing")
          /\ UNCHANGED <<truth, durable>>
    /\ UNCHANGED <<projection, session, dial, change, outcome, audited, result>>

\* except Exception: the rollback itself may raise, and then that exception
\* leaves apply_state_change.
RollbackFailing(w) ==
    /\ step[w] = "failing"
    /\ \/ Goto(w, "audit_failing") /\ UNCHANGED result
       \/ Goto(w, "returned") /\ result' = [result EXCEPT ![w] = "error"]
    /\ UNCHANGED <<truth, projection, session, dial, change, outcome, durable, audited>>

\* audit.record writes its row in a transaction of its own and never raises.
Record(w, row) ==
    /\ audited' = [audited EXCEPT ![w] = Append(@, row)]
    /\ UNCHANGED <<truth, projection, session, dial, change, outcome, durable, result>>

\* The call is over for its caller: it returned ("ok") or raised.
Tell(w, r) ==
    /\ Goto(w, "returned")
    /\ result' = [result EXCEPT ![w] = r]
    /\ UNCHANGED <<truth, projection, session, dial, change, outcome, durable, audited>>

\* The row of a refused change (line 127).
AuditRefused(w) ==
    step[w] = "audit_refused" /\ Goto(w, "telling_refused") /\ Record(w, "failed")

\* Faulty RaiseRefused: no `except StateChangeFailed: raise` before the other.
RaiseIntoHandler(w) ==
    /\ step[w] = "telling_refused"
    /\ Goto(w, "failing")
    /\ UNCHANGED <<truth, projection, session, dial, change, outcome, durable, audited, result>>

\* Line 128: StateChangeFailed, which passes `except Exception` by.
RaiseRefused(w) == step[w] = "telling_refused" /\ Tell(w, "StateChangeFailed")

\* The row of an exception (line 136), and what is raised from it.
AuditFailing(w) ==
    step[w] = "audit_failing" /\ Goto(w, "telling_failing") /\ Record(w, "failed")

RaiseFailing(w) == step[w] = "telling_failing" /\ Tell(w, "StateChangeFailed")

\* Faulty AuditSuccess: the row may be written before the commit.
AuditBeforeCommit(w) ==
    /\ step[w] \in {"committing", "audit_success"}
    /\ Goto(w, IF step[w] = "committing" THEN "committing" ELSE "telling_success")
    /\ Record(w, "success")

\* The success row, after the commit (line 141); then the outcome is returned.
AuditSuccess(w) ==
    step[w] = "audit_success" /\ Goto(w, "telling_success") /\ Record(w, "success")

ReturnOutcome(w) == step[w] = "telling_success" /\ Tell(w, "ok")

\* The call is over and its record forgotten.
Forget(w) ==
    /\ Goto(w, "idle")
    /\ outcome' = [outcome EXCEPT ![w] = "none"]
    /\ durable' = [durable EXCEPT ![w] = FALSE]
    /\ audited' = [audited EXCEPT ![w] = <<>>]
    /\ result' = [result EXCEPT ![w] = "none"]
    /\ UNCHANGED <<truth, projection, session, dial, change>>

\* The caller has its answer and lets go of the lock.
Leave(w) == step[w] = "returned" /\ Forget(w)

\* The process dies, or the task is cancelled at an await: CancelledError is no
\* Exception, so neither handler runs.  The database drops the open transaction.
Crash(w) == step[w] # "idle" /\ Forget(w)

CallStep(w) ==
    \/ WriteGroup(w)
    \/ ForceReauth(w)
    \/ RollbackRefused(w)
    \/ Commit(w)
    \/ RollbackFailing(w)
    \/ AuditRefused(w) \/ RaiseRefused(w)
    \/ AuditFailing(w) \/ RaiseFailing(w)
    \/ AuditSuccess(w) \/ ReturnOutcome(w)

-----------------------------------------------------------------------------
(* The subscriber and its router.                                          *)

\* A session ends by itself.
HangUp(e) ==
    /\ session[e] # Offline
    /\ session' = [session EXCEPT ![e] = Offline]
    /\ UNCHANGED <<truth, projection, dial, calls>>

\* A session comes up with the group the projection holds.
Dial(e) ==
    /\ session[e] = Offline /\ dial[e] = Offline
    /\ session' = [session EXCEPT ![e] = projection[e]]
    /\ UNCHANGED <<truth, projection, dial, calls>>

\* The same in two steps: the group is read now and the session is up later.
ReadGroup(e) ==
    /\ "auth_race" \in Faults
    /\ session[e] = Offline /\ dial[e] = Offline
    /\ dial' = [dial EXCEPT ![e] = projection[e]]
    /\ UNCHANGED <<truth, projection, session, calls>>

SessionUp(e) ==
    /\ dial[e] # Offline
    /\ session' = [session EXCEPT ![e] = dial[e]]
    /\ dial' = [dial EXCEPT ![e] = Offline]
    /\ UNCHANGED <<truth, projection, calls>>

RouterStep(e) == HangUp(e) \/ Dial(e) \/ ReadGroup(e) \/ SessionUp(e)

-----------------------------------------------------------------------------

\* "The caller is expected to already hold the per-entity lock": no other call
\* for e is under way.
CallerHoldsLock(e) == \A w \in Workers : step[w] # "idle" => EntityOf(w) # e

Next ==
    \/ \E w \in Workers :
          \/ \E e \in Entities, g \in Groups : CallerHoldsLock(e) /\ Start(w, e, g)
          \/ CallStep(w)
          \/ Leave(w)
          \/ "crash" \in Faults /\ Crash(w)
    \/ \E e \in Entities : RouterStep(e)

Spec == Init /\ [][Next]_vars

-----------------------------------------------------------------------------
(* Properties.                                                             *)

Leads == INSTANCE ProjectionLeads

\* The authoritative store only ever moves to where the projection already is,
\* through every fault and concurrent call (dual_store_commit.py:20-24).
CommitFollowsProjection == Leads!Spec

\* A call that returned normally leaves both stores at its target, and if the
\* device said APPLIED no session of the old group either, even if the
\* subscriber was redialling meanwhile (dual_store_commit.py:130-142).
SuccessMeansStoresAgree ==
    \A w \in Workers :
        step[w] = "returned" /\ result[w] = "ok" =>
            /\ truth[EntityOf(w)] = TargetOf(w)
            /\ projection[EntityOf(w)] = TargetOf(w)
            /\ outcome[w] = "applied" => session[EntityOf(w)] \in {TargetOf(w), Offline}

\* A change the device rejected or left unanswered is never in the
\* authoritative store (dual_store_commit.py:118-121, "Do NOT commit").
RefusedNotCommitted ==
    \A w \in Workers : outcome[w] \in {"rejected", "timeout"} => ~durable[w]

\* The trail never claims a success the database did not persist, not even for
\* a call that dies or fails right after (dual_store_commit.py:139-141).
SuccessAuditPersisted ==
    \A w \in Workers : \A i \in DOMAIN audited[w] : audited[w][i] = "success" => durable[w]

\* What the caller is told the trail tells as well, and once: a refusal that is
\* raised inside the `try`, and rollbacks that raise into the handler, leave
\* neither a second row nor one that says otherwise (dual_store_commit.py:122-142).
RowMatchesAnswer ==
    \A w \in Workers :
        /\ result[w] = "StateChangeFailed" => audited[w] = <<"failed">>
        /\ result[w] = "ok" => audited[w] = <<"success">>

\* A failed call whose change is in the authoritative store all the same, because
\* commit raised after it took effect, or a rollback after that, has left no half
\* of it: both stores are at its target, and after APPLIED no session is of
\* another group, whatever the subscriber does meanwhile.  That much is true of
\* the StateChangeFailed that line 60 says means "not committed"
\* (dual_store_commit.py:59-60, 130-137).
FalseFailureIsComplete ==
    \A w \in Workers :
        step[w] = "returned" /\ result[w] # "ok" /\ durable[w] =>
            /\ truth[EntityOf(w)] = TargetOf(w)
            /\ projection[EntityOf(w)] = TargetOf(w)
            /\ outcome[w] = "applied" => session[EntityOf(w)] \in {TargetOf(w), Offline}

\* The claim of dual_store_commit.py:10-11 and 23-24: with no call under way, a
\* session that disagrees with the authoritative store shows as a projection
\* that disagrees with it.
InconsistencyIsDetectable ==
    \A e \in Entities :
        CallerHoldsLock(e) /\ session[e] \notin {truth[e], Offline}
            => projection[e] # truth[e]

\* The claim of docs/04-distributed-systems-patterns.md:141-143: every call
\* that failed has its audit row.
EveryFailureAudited ==
    \A w \in Workers : result[w] \in {"StateChangeFailed", "error"} => audited[w] = <<"failed">>
=============================================================================
