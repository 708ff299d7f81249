-------------------------- MODULE WorkerAlertsProofs --------------------------
(***************************************************************************)
(* Theorems of WorkerAlerts, for every set of jobs and runs, every         *)
(* threshold and every `for`.                                              *)
(***************************************************************************)
EXTENDS WorkerAlerts, TLAPS

-----------------------------------------------------------------------------
(* Types.                                                                  *)

\* What the registry and the wrapper write is well typed.
LEMMA HeartbeatTypes ==
    ASSUME HeartbeatTypeOK, HeartbeatNext
    PROVE  HeartbeatTypeOK'
<1> USE HeartbeatConstants DEF HeartbeatTypeOK, HeartbeatStatus
<1>1. ASSUME NEW j \in Jobs, Register(j) PROVE HeartbeatTypeOK'
    BY <1>1 DEF Register, runs, observed
<1>2. CASE Kill
    <2>1. /\ pc' \in [Runs -> {"idle", "opening", "body", "closing"}]
          /\ status' \in [Runs -> {"none", "completed", "failed", "exception", "killed"}]
        BY <1>2 DEF Kill
    <2>2. left' \in [Jobs -> 0..MaxLeft]
        <3> SUFFICES ASSUME NEW j \in Jobs
                     PROVE  (IF Abandoned(j, Runs) # {} /\ left[j] < MaxLeft
                             THEN left[j] + 1 ELSE left[j]) \in 0..MaxLeft
            BY <1>2 DEF Kill
        <3> QED OBVIOUS
    <2> QED BY <1>2, <2>1, <2>2 DEF Kill
<1>3. CASE Start
    BY <1>3 DEF Start, runs, observed
<1>4. ASSUME NEW r \in Runs, NEW s \in {"completed", "failed", "exception"}, End(r, s)
      PROVE  /\ up' \in BOOLEAN /\ roster' \subseteq Jobs
             /\ pc' \in [Runs -> {"idle", "opening", "body", "closing"}]
             /\ job' \in [Runs -> Jobs]
             /\ status' \in [Runs -> {"none", "completed", "failed", "exception", "killed"}]
             /\ left' \in [Jobs -> 0..MaxLeft]
    BY <1>4 DEF End, process
<1>5. ASSUME NEW r \in Runs, NEW j \in Jobs, Launch(r, j) PROVE HeartbeatTypeOK'
    BY <1>5 DEF Launch, process, observed
<1>6. ASSUME NEW r \in Runs, OpenRun(r) PROVE HeartbeatTypeOK'
    <2>1. CASE End(r, "exception")
        BY <1>6, <2>1, <1>4 DEF OpenRun
    <2>2. CASE ~End(r, "exception")
        BY <1>6, <2>2 DEF OpenRun, process
    <2> QED BY <2>1, <2>2
<1>7. ASSUME NEW r \in Runs, Body(r) PROVE HeartbeatTypeOK'
    <2>1. CASE End(r, "exception")
        BY <1>7, <2>1, <1>4 DEF Body
    <2>2. CASE ~End(r, "exception")
        BY <1>7, <2>2 DEF Body, process
    <2> QED BY <2>1, <2>2
<1>8. ASSUME NEW r \in Runs, CloseRun(r) PROVE HeartbeatTypeOK'
    <2>1. Verdict(r) \in {"completed", "failed"}
        BY DEF Verdict
    <2>2. PICK s \in {"completed", "failed", "exception"} : End(r, s)
        BY <1>8, <2>1 DEF CloseRun
    <2>3. /\ row' \in [Runs -> HeartbeatStatus \cup {"none"}]
          /\ succeeded' \in [Jobs -> BOOLEAN]
          /\ fresh' \in [Jobs -> BOOLEAN]
        <3>1. CASE Closed(r)
            <4>1. row' = [row EXCEPT ![r] = Verdict(r)] /\ Verdict(r) \in HeartbeatStatus
                BY <2>1, <3>1 DEF Closed
            <4>2. row' \in [Runs -> HeartbeatStatus \cup {"none"}]
                BY <4>1
            <4>3. succeeded' \in [Jobs -> BOOLEAN] /\ fresh' \in [Jobs -> BOOLEAN]
                BY <3>1 DEF Closed
            <4> QED BY <4>2, <4>3
        <3>2. CASE UNCHANGED <<row, succeeded, fresh>>
            BY <3>2
        <3> QED BY <1>8, <3>1, <3>2 DEF CloseRun
    <2> QED BY <1>8, <1>4, <2>2, <2>3 DEF CloseRun
<1> QED BY <1>1, <1>2, <1>3, <1>5, <1>6, <1>7, <1>8 DEF HeartbeatNext

\* A count of evaluations keeps within its bound.
LEMMA LongerType ==
    ASSUME NEW holds \in BOOLEAN, NEW n \in 0..Cap
    PROVE  Longer(holds, n) \in 0..Cap
BY AlertConstants DEF Longer

\* The heartbeat and alerting variables always have their types.
THEOREM TypeCorrect == Spec => []TypeOK
<1>1. Init => TypeOK
    BY HeartbeatConstants, AlertConstants
    DEF Init, HeartbeatInit, TypeOK, HeartbeatTypeOK, HeartbeatStatus
<1>2. TypeOK /\ [Next]_vars => TypeOK'
    <2> SUFFICES ASSUME TypeOK, [Next]_vars PROVE TypeOK'
        OBVIOUS
    <2>1. CASE HeartbeatNext /\ UNCHANGED alerts
        BY <2>1, HeartbeatTypes DEF TypeOK, alerts
    <2>2. CASE Evaluate
        <3>1. HeartbeatTypeOK'
            BY <2>2 DEF Evaluate, TypeOK, HeartbeatTypeOK, runs
        <3>2. age' \in [Jobs -> 0..Cap]
            BY <2>2, AlertConstants DEF Evaluate, TypeOK, AgeNow
        <3>3. \A j \in Jobs : /\ WorkerStalled(j) \in BOOLEAN
                              /\ WorkerNeverSucceeded(j) \in BOOLEAN
                              /\ WorkerFrozenRuns(j) \in BOOLEAN
                              /\ Quiet(j) \in BOOLEAN
            BY DEF WorkerStalled, WorkerNeverSucceeded, WorkerFrozenRuns, Quiet
        <3>4. WorkerMetricsAbsent \in BOOLEAN
            BY DEF WorkerMetricsAbsent
        <3>5. /\ stalledFor' \in [Jobs -> 0..Cap] /\ neverFor' \in [Jobs -> 0..Cap]
              /\ frozenFor' \in [Jobs -> 0..Cap] /\ quietFor' \in [Jobs -> 0..Cap]
            BY <2>2, <3>3, LongerType DEF Evaluate, TypeOK
        <3>6. absentFor' \in 0..Cap
            BY <2>2, <3>4, LongerType DEF Evaluate, TypeOK
        <3> QED BY <3>1, <3>2, <3>5, <3>6 DEF TypeOK
    <2>3. CASE UNCHANGED vars
        BY <2>3 DEF vars, heartbeatVars, alerts, TypeOK, HeartbeatTypeOK
    <2> QED BY <2>1, <2>2, <2>3 DEF Next
<1> QED BY <1>1, <1>2, PTL DEF Spec

-----------------------------------------------------------------------------
(* What the scheduler is told and what the store has.                      *)

\* A run under way has told nobody anything, has its row at "running" once it is
\* open, and knows how its body ended when it closes.
UnderWay ==
    \A r \in Runs :
        /\ pc[r] # "idle" => status[r] = "none"
        /\ pc[r] = "opening" => row[r] = "none"
        /\ pc[r] \in {"body", "closing"} => row[r] = "running"
        /\ pc[r] = "closing" => outcome[r] \in {"returned", "raised"}

\* A status the scheduler gets is the one recorded.
THEOREM StatusRecorded == Spec => []StatusIsRecorded
<1> DEFINE IInv == UnderWay /\ StatusIsRecorded
<1>1. Init => IInv
    BY DEF Init, HeartbeatInit, UnderWay, StatusIsRecorded
<1>2. TypeOK /\ IInv /\ [Next]_vars => IInv'
    <2> SUFFICES ASSUME TypeOK, IInv, [Next]_vars PROVE IInv'
        OBVIOUS
    <2> USE DEF TypeOK, HeartbeatTypeOK, UnderWay, StatusIsRecorded
    <2>1. ASSUME NEW j \in Jobs, Register(j) PROVE IInv'
        BY <2>1 DEF Register, runs
    <2>2. CASE Kill
        BY <2>2 DEF Kill
    <2>3. CASE Start
        BY <2>3 DEF Start, runs
    <2>4. ASSUME NEW r \in Runs, NEW j \in Jobs, Launch(r, j) PROVE IInv'
        BY <2>4 DEF Launch
    <2>5. ASSUME NEW r \in Runs, OpenRun(r) PROVE IInv'
        BY <2>5 DEF OpenRun, End
    <2>6. ASSUME NEW r \in Runs, Body(r) PROVE IInv'
        BY <2>6 DEF Body, End
    <2>7. ASSUME NEW r \in Runs, CloseRun(r) PROVE IInv'
        BY <2>7 DEF CloseRun, Closed, End, Verdict
    <2>8. CASE Evaluate
        BY <2>8 DEF Evaluate, runs
    <2>9. CASE UNCHANGED vars
        BY <2>9 DEF vars, heartbeatVars
    <2> QED BY <2>1, <2>2, <2>3, <2>4, <2>5, <2>6, <2>7, <2>8, <2>9 DEF Next, HeartbeatNext
<1>3. IInv => StatusIsRecorded
    OBVIOUS
<1> QED BY <1>1, <1>2, <1>3, TypeCorrect, PTL DEF Spec

\* Nobody tidies up: rows stand.
THEOREM NoSweep == Spec => RowsStand
<1> DEFINE Stand == /\ \A r \in Runs : pc[r] = "idle" /\ pc'[r] = "idle" => row'[r] = row[r]
                    /\ \A j \in Jobs : left'[j] >= left[j]
<1>1. TypeOK /\ [Next]_vars => [Stand]_heartbeatVars
    <2> SUFFICES ASSUME TypeOK, [Next]_vars PROVE [Stand]_heartbeatVars
        OBVIOUS
    <2> USE DEF TypeOK, HeartbeatTypeOK
    <2>1. ASSUME NEW j \in Jobs, Register(j) PROVE Stand
        BY <2>1 DEF Register, runs, observed
    <2>2. CASE Kill
        BY <2>2, HeartbeatConstants DEF Kill
    <2>3. CASE Start
        BY <2>3 DEF Start, runs, observed
    <2>4. ASSUME NEW r \in Runs, NEW j \in Jobs, Launch(r, j) PROVE Stand
        BY <2>4 DEF Launch, observed
    <2>5. ASSUME NEW r \in Runs, OpenRun(r) PROVE Stand
        BY <2>5, HeartbeatConstants DEF OpenRun, End
    <2>6. ASSUME NEW r \in Runs, Body(r) PROVE Stand
        BY <2>6, HeartbeatConstants DEF Body, End
    <2>7. ASSUME NEW r \in Runs, CloseRun(r) PROVE Stand
        BY <2>7, HeartbeatConstants DEF CloseRun, Closed, End
    <2>8. CASE Evaluate
        BY <2>8 DEF Evaluate, runs
    <2>9. CASE UNCHANGED vars
        BY <2>9 DEF vars
    <2> QED BY <2>1, <2>2, <2>3, <2>4, <2>5, <2>6, <2>7, <2>8, <2>9 DEF Next, HeartbeatNext
<1> QED BY <1>1, TypeCorrect, PTL DEF Spec, RowsStand

-----------------------------------------------------------------------------
(* What alerting makes of it.                                              *)

\* A step of the wrapper leaves a job's success alone, or makes it a fresh one.
LEMMA SuccessIsFresh ==
    ASSUME HeartbeatTypeOK, HeartbeatNext, NEW j \in Jobs
    PROVE  \/ succeeded'[j] = succeeded[j] /\ fresh'[j] = fresh[j]
           \/ succeeded'[j] /\ fresh'[j]
BY DEF HeartbeatTypeOK, HeartbeatNext, Register, Kill, Start, Launch, OpenRun, Body,
       CloseRun, Closed, observed

\* The rule in charge of a job has counted each evaluation of its silence: the one
\* for jobs without a success, the other for jobs with one, and while a success is
\* newer than the last evaluation one of the two, whichever was in charge then.
Counted(j) ==
    /\ quietFor[j] <= neverFor[j] \/ quietFor[j] <= stalledFor[j]
    /\ ~succeeded[j] => quietFor[j] <= neverFor[j]
    /\ succeeded[j] /\ ~fresh[j] => quietFor[j] <= stalledFor[j]

\* What holds for as long as something else is counted as long.
LEMMA LongerMonotone ==
    ASSUME NEW m \in 0..Cap, NEW n \in 0..Cap, m <= n
    PROVE  Longer(TRUE, m) <= Longer(TRUE, n)
BY AlertConstants DEF Longer

\* Every broken job is seen by one of the two rules.
THEOREM BrokenJobsAreSeen == Spec => []BrokenJobIsSeen
<1> DEFINE IInv == \A j \in Jobs : Counted(j)
<1>1. Init => IInv
    <2> SUFFICES ASSUME Init, NEW j \in Jobs PROVE Counted(j)
        OBVIOUS
    <2>1. quietFor[j] = 0 /\ neverFor[j] = 0 /\ stalledFor[j] = 0
        BY DEF Init
    <2> QED BY <2>1 DEF Counted
<1>2. TypeOK /\ IInv /\ [Next]_vars => IInv'
    <2> SUFFICES ASSUME TypeOK, IInv, [Next]_vars, NEW j \in Jobs PROVE Counted(j)'
        OBVIOUS
    <2>0. /\ quietFor[j] \in 0..Cap /\ neverFor[j] \in 0..Cap /\ stalledFor[j] \in 0..Cap
          /\ age[j] \in 0..Cap /\ Counted(j)
        BY DEF TypeOK
    <2>1. CASE HeartbeatNext /\ UNCHANGED alerts
        BY <2>0, <2>1, SuccessIsFresh DEF TypeOK, Counted, alerts
    <2>2. CASE Evaluate
        <3>1. /\ quietFor'[j] = Longer(Quiet(j), quietFor[j])
              /\ neverFor'[j] = Longer(WorkerNeverSucceeded(j), neverFor[j])
              /\ stalledFor'[j] = Longer(WorkerStalled(j), stalledFor[j])
              /\ succeeded' = succeeded
            BY <2>2 DEF Evaluate
        <3>2. /\ Longer(WorkerNeverSucceeded(j), neverFor[j]) \in 0..Cap
              /\ Longer(WorkerStalled(j), stalledFor[j]) \in 0..Cap
            <4>1. WorkerNeverSucceeded(j) \in BOOLEAN /\ WorkerStalled(j) \in BOOLEAN
                BY DEF WorkerNeverSucceeded, WorkerStalled
            <4> QED BY <2>0, <4>1, LongerType
        <3>3. CASE ~Quiet(j)
            BY <3>1, <3>2, <3>3 DEF Counted, Longer
        <3>4. CASE Quiet(j) /\ ~succeeded[j]
            <4>1. WorkerNeverSucceeded(j)
                BY <3>4 DEF Quiet, WorkerNeverSucceeded, Registered, LastSuccess
            <4> QED BY <2>0, <3>1, <3>4, <4>1, LongerMonotone DEF Counted
        <3>5. CASE Quiet(j) /\ succeeded[j]
            <4>1. WorkerStalled(j)
                BY <3>5 DEF Quiet, WorkerStalled, LastSuccess
            <4>2. ~fresh[j]
                BY <3>5, AlertConstants DEF Quiet, AgeNow
            <4> QED BY <2>0, <3>1, <3>5, <4>1, <4>2, LongerMonotone DEF Counted
        <3> QED BY <3>3, <3>4, <3>5
    <2>3. CASE UNCHANGED vars
        BY <2>0, <2>3 DEF vars, heartbeatVars, alerts, Counted
    <2> QED BY <2>1, <2>2, <2>3 DEF Next
<1>3. TypeOK /\ IInv => BrokenJobIsSeen
    BY AlertConstants
    DEF TypeOK, Counted, BrokenJobIsSeen, StalledFires, NeverSucceededFires
<1> QED BY <1>1, <1>2, <1>3, TypeCorrect, PTL DEF Spec
=============================================================================
