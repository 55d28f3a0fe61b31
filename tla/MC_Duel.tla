------------------------------- MODULE MC_Duel -------------------------------
(* Duel with small sets; players are interchangeable. *)
EXTENDS Duel, TLC

Symmetry == Permutations(Players)
==============================================================================
