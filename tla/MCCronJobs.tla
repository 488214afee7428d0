----------------------------- MODULE MCCronJobs -----------------------------
(***************************************************************************)
(* Instances of CronJobs for TLC.                                          *)
(***************************************************************************)
EXTENDS CronJobs

\* The job of the file recurs at every instant up to the horizon; a job
\* added later is a one-shot.
MCFires == [j \in Jobs |-> IF j \in Stored THEN 1..Horizon ELSE {1}]
=============================================================================
