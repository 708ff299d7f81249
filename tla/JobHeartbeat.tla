---------------------------- MODULE JobHeartbeat ----------------------------
(***************************************************************************)
(* examples/workers/job_wrapper.py: the registry of a worker process, and  *)
(* run_with_heartbeat around each run the scheduler launches, one action   *)
(* per await.  The heartbeat store has a row for each run; it outlives the *)
(* process.  WorkerAlerts adds time and what alerting makes of it.         *)
(*                                                                         *)
(* A run is a slot that is used again: its variables keep what became of   *)
(* its last use, and `left` counts the rows that uses left at "running".   *)
(***************************************************************************)
EXTENDS Integers

CONSTANTS
    Jobs,
    Runs,     \* invocations that may be under way at once
    MaxLeft   \* bound: more rows left at "running" are not told apart

ASSUME HeartbeatConstants == MaxLeft \in Nat \ {0}

VARIABLES
    up,         \* the worker process is there
    roster,     \* JobRegistry._jobs, of this life of the process
    pc,         \* where each run is in run_with_heartbeat
    job,        \* job_name of its current (or last) use
    outcome,    \* how its body ended
    status,     \* what its caller, the scheduler, got
    row,        \* its row in the heartbeat store
    left,       \* rows of each job left at "running" by runs that are over
    succeeded,  \* the store has a completed run of the job
    fresh       \* one completed since the last look at the clock

process == <<up, roster>>
runs == <<pc, job, outcome, status, row>>
observed == <<left, succeeded, fresh>>
heartbeatVars == <<up, roster, pc, job, outcome, status, row, left, succeeded, fresh>>

HeartbeatStatus == {"running", "completed", "failed"}

HeartbeatTypeOK ==
    /\ up \in BOOLEAN
    /\ roster \subseteq Jobs
    /\ pc \in [Runs -> {"idle", "opening", "body", "closing"}]
    /\ job \in [Runs -> Jobs]
    /\ outcome \in [Runs -> {"none", "returned", "raised"}]
    /\ status \in [Runs -> {"none", "completed", "failed", "exception", "killed"}]
    /\ row \in [Runs -> HeartbeatStatus \cup {"none"}]
    /\ left \in [Jobs -> 0..MaxLeft]
    /\ succeeded \in [Jobs -> BOOLEAN]
    /\ fresh \in [Jobs -> BOOLEAN]

HeartbeatInit ==
    /\ up = TRUE
    /\ roster = {}
    /\ pc = [r \in Runs |-> "idle"]
    /\ job \in [Runs -> Jobs]
    /\ outcome = [r \in Runs |-> "none"]
    /\ status = [r \in Runs |-> "none"]
    /\ row = [r \in Runs |-> "none"]
    /\ left = [j \in Jobs |-> 0]
    /\ succeeded = [j \in Jobs |-> FALSE]
    /\ fresh = [j \in Jobs |-> FALSE]

-----------------------------------------------------------------------------
(* The process and its registry.                                           *)

\* register, from the entrypoint; a second time it raises and changes nothing.
Register(j) ==
    /\ up
    /\ j \notin roster
    /\ roster' = roster \cup {j}
    /\ UNCHANGED <<up, runs, observed>>

\* The rows of a job that its runs in S leave behind at "running".
Abandoned(j, S) == {r \in S : job[r] = j /\ pc[r] # "idle" /\ row[r] = "running"}

\* The process is killed: nothing more is written.
Kill ==
    /\ up
    /\ up' = FALSE
    /\ roster' = {}
    /\ pc' = [r \in Runs |-> "idle"]
    /\ status' = [r \in Runs |-> IF pc[r] = "idle" THEN status[r] ELSE "killed"]
    /\ left' = [j \in Jobs |-> IF Abandoned(j, Runs) # {} /\ left[j] < MaxLeft
                               THEN left[j] + 1 ELSE left[j]]
    /\ UNCHANGED <<job, outcome, row, succeeded, fresh>>

\* It is started again, with an empty registry and the same store.
Start ==
    /\ ~up
    /\ up' = TRUE
    /\ UNCHANGED <<roster, runs, observed>>

-----------------------------------------------------------------------------
(* run_with_heartbeat.                                                     *)

\* The scheduler launches a registered job.
Launch(r, j) ==
    /\ up /\ j \in roster
    /\ pc[r] = "idle"
    /\ pc' = [pc EXCEPT ![r] = "opening"]
    /\ job' = [job EXCEPT ![r] = j]
    /\ outcome' = [outcome EXCEPT ![r] = "none"]
    /\ status' = [status EXCEPT ![r] = "none"]
    /\ row' = [row EXCEPT ![r] = "none"]
    /\ UNCHANGED <<process, observed>>

\* The run is over: its caller gets s, and its row is left as it is now.
End(r, s) ==
    /\ pc' = [pc EXCEPT ![r] = "idle"]
    /\ status' = [status EXCEPT ![r] = s]
    /\ left' = IF row'[r] = "running" /\ left[job[r]] < MaxLeft
               THEN [left EXCEPT ![job[r]] = @ + 1] ELSE left
    /\ UNCHANGED <<process, job>>

\* open_run writes the row; or it raises, before or after it did, and the
\* exception leaves the wrapper.
OpenRun(r) ==
    /\ pc[r] = "opening"
    /\ \/ /\ row' = [row EXCEPT ![r] = "running"]
          /\ pc' = [pc EXCEPT ![r] = "body"]
          /\ UNCHANGED <<process, job, status, left>>
       \/ /\ row' \in {row, [row EXCEPT ![r] = "running"]}
          /\ End(r, "exception")
    /\ UNCHANGED <<outcome, succeeded, fresh>>

\* The body returns or raises; a cancellation is no Exception and goes through.
Body(r) ==
    /\ pc[r] = "body"
    /\ UNCHANGED <<row, succeeded, fresh>>
    /\ \/ /\ outcome' \in {[outcome EXCEPT ![r] = "returned"],
                           [outcome EXCEPT ![r] = "raised"]}
          /\ pc' = [pc EXCEPT ![r] = "closing"]
          /\ UNCHANGED <<process, job, status, left>>
       \/ /\ End(r, "exception")
          /\ UNCHANGED outcome

\* Faulty Verdict: the outcome instead of its status.
RawOutcome(r) == outcome[r]

\* The status of the row and of the caller.
Verdict(r) == IF outcome[r] = "raised" THEN "failed" ELSE "completed"

\* Faulty Closed: closes every row of the job that is still at "running".
ClosedByName(r) ==
    /\ row' = [x \in Runs |-> IF job[x] = job[r] /\ row[x] = "running"
                              THEN Verdict(r) ELSE row[x]]
    /\ UNCHANGED <<succeeded, fresh>>

\* close_run takes effect.
Closed(r) ==
    /\ row' = [row EXCEPT ![r] = Verdict(r)]
    /\ succeeded' = IF Verdict(r) = "completed"
                    THEN [succeeded EXCEPT ![job[r]] = TRUE] ELSE succeeded
    /\ fresh' = IF Verdict(r) = "completed"
                THEN [fresh EXCEPT ![job[r]] = TRUE] ELSE fresh

\* Faulty CloseRun: a failing store is no reason to fail.
CloseSuppressed(r) ==
    /\ pc[r] = "closing"
    /\ Closed(r) \/ UNCHANGED <<row, succeeded, fresh>>
    /\ End(r, Verdict(r))
    /\ UNCHANGED outcome

\* close_run and the return of the status; or it raises, before or after it took
\* effect, and the exception leaves the wrapper.
CloseRun(r) ==
    /\ pc[r] = "closing"
    /\ \/ Closed(r) /\ (End(r, Verdict(r)) \/ End(r, "exception"))
       \/ UNCHANGED <<row, succeeded, fresh>> /\ End(r, "exception")
    /\ UNCHANGED outcome

HeartbeatNext ==
    \/ \E j \in Jobs : Register(j)
    \/ Kill
    \/ Start
    \/ \E r \in Runs :
          \/ \E j \in Jobs : Launch(r, j)
          \/ OpenRun(r)
          \/ Body(r)
          \/ CloseRun(r)

-----------------------------------------------------------------------------
(* Properties.                                                             *)

\* The scheduler is never told a status the store does not have, a row says
\* completed or failed only of a body that returned or raised, and a run over
\* with its row at "running" is one whose caller got no status at all
\* (job_wrapper.py:40-52, 107-114).
StatusIsRecorded ==
    \A r \in Runs :
        /\ status[r] \in {"completed", "failed"} => row[r] = status[r]
        /\ row[r] = "completed" => outcome[r] = "returned"
        /\ row[r] = "failed" => outcome[r] = "raised"
        /\ pc[r] = "idle" /\ row[r] = "running" => status[r] \in {"exception", "killed"}

\* Nobody tidies up: the row of a run that is over stays as it is, also through
\* restarts, and no row left at "running" is written any more
\* (job_wrapper.py:40-48, "a startup sweep ... would destroy the distinction").
RowsStand ==
    [][/\ \A r \in Runs : pc[r] = "idle" /\ pc'[r] = "idle" => row'[r] = row[r]
       /\ \A j \in Jobs : left'[j] >= left[j]]_heartbeatVars
=============================================================================
