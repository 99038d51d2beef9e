---------------------------- MODULE MC_DrawQueue ----------------------------
(***************************************************************************)
(* Four requests for TLC: one has the turn or is leaving, and of those     *)
(* that wait one may be cancelled and one abandoned.                       *)
(***************************************************************************)
EXTENDS DrawQueue
=============================================================================
