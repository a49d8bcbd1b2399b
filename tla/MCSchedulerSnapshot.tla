------------------------ MODULE MCSchedulerSnapshot ------------------------
(***************************************************************************)
(* Instances of SchedulerSnapshot for TLC.                                 *)
(***************************************************************************)
EXTENDS SchedulerSnapshot
=============================================================================
