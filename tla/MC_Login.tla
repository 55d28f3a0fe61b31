------------------------------- MODULE MC_Login -------------------------------
(* Login for TLC: sockets, names and memory are interchangeable, and what is left in *)
(* memory that is free is no part of a state, since GiveName, which alone takes it, *)
(* sets all of it.                                                                  *)
EXTENDS Login, TLC

Symmetry == Permutations(Desc) \cup Permutations(Names) \cup Permutations(Bodies)

InUse(f, x) == [c \in DOMAIN f |-> IF c \in Fresh THEN x ELSE f[c]]

View ==
    <<conn, char, orig, who, InUse(version, 0), owner, world, file, InUse(trace, Plain),
      overtaken \ Fresh>>
==============================================================================
