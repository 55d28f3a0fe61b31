----------------------------- MODULE MC_CharList -----------------------------
(* CharList with small sets; mobiles are interchangeable. *)
EXTENDS CharList, TLC

Symmetry == Permutations(Chars \ Players)
==============================================================================
