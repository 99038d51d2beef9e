--------------------------- MODULE MC_CommandAuth ---------------------------
(***************************************************************************)
(* Instances of CommandAuth for TLC: two matchers of one event and one of  *)
(* another, so that matchers share a slot and events share the limiters;   *)
(* a daily limit of two uses and gold for two.                             *)
(***************************************************************************)
EXTENDS CommandAuth, TLC

CONSTANTS r1, r2, r3, e1, e2

TwoAndOne == r1 :> e1 @@ r2 :> e1 @@ r3 :> e2

(* The two matchers of the same event are interchangeable. *)
Symmetry == Permutations({r1, r2})
=============================================================================
