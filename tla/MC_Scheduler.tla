---------------------------- MODULE MC_Scheduler ----------------------------
(***************************************************************************)
(* An instance of Scheduler for TLC: one schedule, standing or one-off.    *)
(* Two runs are a run by hand beside a firing, and two commands are one    *)
(* between the row and the job of another.                                 *)
(***************************************************************************)
EXTENDS Scheduler, TLC

Symmetry == Permutations(Runs) \cup Permutations(Commands)
=============================================================================
