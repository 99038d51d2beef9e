---------------------------- MODULE MC_SendQueue ----------------------------
(***************************************************************************)
(* An instance of SendQueue for TLC: two workers on a queue of one place   *)
(* and one permit, so that the queue fills up, the lock and the semaphore  *)
(* have waiters, and a direct send meets queued items.  The run checks     *)
(* temporal properties, so that it uses no symmetry.                       *)
(***************************************************************************)
EXTENDS SendQueue
=============================================================================
