---------------------------- MODULE MC_BanCache ----------------------------
(***************************************************************************)
(* An instance of BanCache for TLC: two processes with a ban left from an  *)
(* earlier session or none, a command here in either or everywhere in the  *)
(* second, and a user who speaks in the group, where the first process     *)
(* asks for him.  A command may so meet the left ban before and after its  *)
(* time, in the table, in both caches and in a clean-up.                   *)
(***************************************************************************)
EXTENDS BanCache
CONSTANTS p1, p2

TwoProcesses == {p1, p2}
ThreePlaces == {<<p1, "here">>, <<p2, "here">>, <<p2, "everywhere">>}
AskedHere == {<<p1, "here">>}
=============================================================================
