---------------------------- MODULE WorkerAlerts ----------------------------
(***************************************************************************)
(* examples/observability: what liveness_metrics.py exposes of JobHeartbeat*)
(* and what the worker rules of absent_guard.rules.yml make of it.         *)
(*                                                                         *)
(* The exposition is served by the process that has the registry.  Time is *)
(* counted in evaluations of the rules, of which there is one in every     *)
(* unit.  A rule with `for` fires when its expression has held for longer, *)
(* without a break.  last_failure is exposed and read by no rule.          *)
(***************************************************************************)
EXTENDS JobHeartbeat

CONSTANTS
    StaleAfter,  \* WorkerStalled: the age (5400 s) that is too old
    ForStalled, ForNever, ForFrozen, ForAbsent,  \* `for` of the rules
    Cap          \* bound of all counts of evaluations

ASSUME AlertConstants ==
    /\ StaleAfter \in Nat /\ ForStalled \in Nat /\ ForNever \in Nat
    /\ ForFrozen \in Nat /\ ForAbsent \in Nat /\ Cap \in Nat
    /\ Cap > StaleAfter /\ Cap > ForStalled /\ Cap > ForNever
    /\ Cap > ForFrozen /\ Cap > ForAbsent

VARIABLES
    age,         \* of the last success of each job
    stalledFor,  \* for how many evaluations each rule's expression has held
    neverFor,
    frozenFor,
    absentFor,
    quietFor     \* history: evaluations in which the job, on the roster, had no
                 \* success that was recent enough

alerts == <<age, stalledFor, neverFor, frozenFor, absentFor, quietFor>>
vars == <<heartbeatVars, alerts>>

TypeOK ==
    /\ HeartbeatTypeOK
    /\ age \in [Jobs -> 0..Cap]
    /\ stalledFor \in [Jobs -> 0..Cap]
    /\ neverFor \in [Jobs -> 0..Cap]
    /\ frozenFor \in [Jobs -> 0..Cap]
    /\ absentFor \in 0..Cap
    /\ quietFor \in [Jobs -> 0..Cap]

Init ==
    /\ HeartbeatInit
    /\ age = [j \in Jobs |-> 0]
    /\ stalledFor = [j \in Jobs |-> 0]
    /\ neverFor = [j \in Jobs |-> 0]
    /\ frozenFor = [j \in Jobs |-> 0]
    /\ absentFor = 0
    /\ quietFor = [j \in Jobs |-> 0]

-----------------------------------------------------------------------------
(* render_exposition: the jobs of each family.                             *)

\* Runs of the job at "running": what the store cannot tell from a frozen one.
RunningRows(j) == left[j] > 0 \/ Abandoned(j, Runs) # {}

\* Faulty Registered: the roster is what the heartbeat table knows.
RosterFromRows == IF up THEN {j \in roster : succeeded[j] \/ RunningRows(j)} ELSE {}

\* isp_worker_registered
Registered == IF up THEN roster ELSE {}

\* Faulty LastSuccess: only for jobs on the roster.
LastSuccessOfRoster == IF up THEN {j \in roster : succeeded[j]} ELSE {}

\* isp_worker_last_success_timestamp_seconds, whether registered or not
LastSuccess == IF up THEN {j \in Jobs : succeeded[j]} ELSE {}

\* Faulty FrozenRuns: only for jobs that have succeeded.
FrozenOfSuccessful == LastSuccess \cap {j \in Jobs : RunningRows(j)}

\* isp_worker_frozen_runs > 0
FrozenRuns == IF up THEN {j \in Jobs : RunningRows(j)} ELSE {}

-----------------------------------------------------------------------------
(* The rules.                                                              *)

\* The age at this evaluation.
AgeNow(j) == IF fresh[j] THEN 0 ELSE age[j]

WorkerStalled(j) == j \in LastSuccess /\ AgeNow(j) > StaleAfter
WorkerNeverSucceeded(j) == j \in Registered \ LastSuccess
WorkerFrozenRuns(j) == j \in FrozenRuns

\* Faulty WorkerMetricsAbsent: absent() of a family that a new process lacks too.
LastSuccessAbsent == LastSuccess = {}

WorkerMetricsAbsent == Registered = {}

\* One more evaluation in which it holds, or none.
Longer(holds, n) == IF ~holds THEN 0 ELSE IF n < Cap THEN n + 1 ELSE n

\* The job is on the roster and has not succeeded within StaleAfter.
Quiet(j) == up /\ j \in roster /\ (succeeded[j] => AgeNow(j) > StaleAfter)

Evaluate ==
    /\ age' = [j \in Jobs |-> IF AgeNow(j) < Cap THEN AgeNow(j) + 1 ELSE AgeNow(j)]
    /\ fresh' = [j \in Jobs |-> FALSE]
    /\ stalledFor' = [j \in Jobs |-> Longer(WorkerStalled(j), stalledFor[j])]
    /\ neverFor' = [j \in Jobs |-> Longer(WorkerNeverSucceeded(j), neverFor[j])]
    /\ frozenFor' = [j \in Jobs |-> Longer(WorkerFrozenRuns(j), frozenFor[j])]
    /\ absentFor' = Longer(WorkerMetricsAbsent, absentFor)
    /\ quietFor' = [j \in Jobs |-> Longer(Quiet(j), quietFor[j])]
    /\ UNCHANGED <<up, roster, runs, left, succeeded>>

StalledFires(j) == stalledFor[j] > ForStalled
NeverSucceededFires(j) == neverFor[j] > ForNever
FrozenRunsFires(j) == frozenFor[j] > ForFrozen
MetricsAbsentFires == absentFor > ForAbsent

Next ==
    \/ HeartbeatNext /\ UNCHANGED alerts
    \/ Evaluate

Spec == Init /\ [][Next]_vars

\* The rules are evaluated for ever.
FairSpec == Spec /\ WF_vars(Evaluate)

-----------------------------------------------------------------------------
(* Properties.                                                             *)

\* A registered job that has not succeeded for as long as the slower of the two
\* rules waits is seen by one of them, whether it never ran, always raises, hangs
\* or is killed each time (liveness_metrics.py:1-27, 60-63).
BrokenJobIsSeen ==
    \A j \in Jobs :
        quietFor[j] > ForStalled /\ quietFor[j] > ForNever
            => StalledFires(j) \/ NeverSucceededFires(j)

\* A row left at "running" is seen in the end, if the process stays up: it is
\* evidence that does not go away (job_wrapper.py:40-46).
FrozenRowIsSeen ==
    \A j \in Jobs : <>[]up /\ <>(left[j] > 0) => <>FrozenRunsFires(j)

\* A process that stays away, or comes back without a registry, is seen too
\* (absent_guard.rules.yml, WorkerMetricsAbsent).
BlindnessIsSeen == <>[](~up \/ roster = {}) => <>MetricsAbsentFires

\* A deploy that drops the registration of a job which has run is seen, by the age
\* of its last success: the row needs no roster (absent_guard.rules.yml:60-90,
\* liveness_metrics.py:60-63).
DroppedJobIsSeen ==
    \A j \in Jobs :
        <>[](up /\ j \notin roster) /\ <>(succeeded[j]) => <>StalledFires(j)
=============================================================================
