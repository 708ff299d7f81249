---------------------------- MODULE MCWorkerAlerts ----------------------------
(* WorkerAlerts on a small instance.                                       *)
EXTENDS WorkerAlerts
=============================================================================
