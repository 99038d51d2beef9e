--------------------------- MODULE MC_ContextPool ---------------------------
(***************************************************************************)
(* An instance of ContextPool for TLC.                                     *)
(***************************************************************************)
EXTENDS ContextPool, TLC

CONSTANTS c1, c2, c3

\* Two calls ask for the same page.
Pages == c1 :> 1 @@ c2 :> 1 @@ c3 :> 2
=============================================================================
