----------------------------- MODULE MCScheduler -----------------------------
(***************************************************************************)
(* Scheduler with values for its constants, for TLC.                       *)
(***************************************************************************)
EXTENDS SchedulerProperties, TLC

MCActor == Proc \X Role

Symmetry == Permutations(Task) \cup Permutations(Worker)
=============================================================================
