------------------------ MODULE MC_LowPriorityWriter ------------------------
(***************************************************************************)
(* Instances of LowPriorityWriter for TLC: a buffer of two records and     *)
(* batches of two at most, so that it overflows while a batch is out and   *)
(* a restored batch no longer fits, and two worker tasks, so that an       *)
(* append during the shutdown starts a second one.                         *)
(***************************************************************************)
EXTENDS LowPriorityWriter
=============================================================================
