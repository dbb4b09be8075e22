---------------------------- MODULE MCScheduledJobs ----------------------------
(* Instances of ScheduledJobs for TLC. *)
EXTENDS ScheduledJobs, TLC
=============================================================================
