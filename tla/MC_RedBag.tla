------------------------------ MODULE MC_RedBag ------------------------------
(***************************************************************************)
(* Instances of RedBag for TLC.                                            *)
(***************************************************************************)
EXTENDS RedBag, TLC

\* What _random_red_bag can make of two coins in one or two pieces.
TwoCoins == {<<2>>, <<1, 1>>, <<0, 2>>}

\* Two coins for two openers.
Shared == {<<1, 1>>}

Symmetry == Permutations(Users) \cup Permutations(Tasks) \cup Permutations(Groups)
            \cup Permutations(Festivals)
============================================================================
