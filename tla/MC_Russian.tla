----------------------------- MODULE MC_Russian -----------------------------
(***************************************************************************)
(* Three users and two commands under way at a time, with the job beside   *)
(* them: a third party can accept, shoot or challenge while two settle.    *)
(***************************************************************************)
EXTENDS Russian
=============================================================================
