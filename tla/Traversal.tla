------------------------------ MODULE Traversal ------------------------------
(***************************************************************************)
(* What CharList promises: loops, one inside another, over a set that      *)
(* changes under them.  A loop visits everybody who is there from its      *)
(* beginning to its end, nobody twice, and nobody who is gone.  Those who  *)
(* arrive meanwhile it may visit or not.                                   *)
(***************************************************************************)
EXTENDS Naturals

CONSTANTS Chars, Players, MaxDepth, Sites

VARIABLES
    alive,          \* the characters that are there
    walks,          \* walks[i]: those loop i has still to visit, innermost last
    round           \* those violence_update has still to process

vars == <<alive, walks, round>>

Init == alive = {} /\ walks = [i \in 1 .. MaxDepth |-> {}] /\ round = {}

Arrive(c) ==
    /\ c \in Chars \ alive
    /\ alive' = alive \cup {c}
    /\ \E S \in SUBSET (1 .. MaxDepth) :
          walks' = [i \in 1 .. MaxDepth |-> IF i \in S THEN walks[i] \cup {c} ELSE walks[i]]
    /\ UNCHANGED round

Leave(c) ==
    /\ c \in alive
    /\ alive' = alive \ {c}
    /\ walks' = [i \in 1 .. MaxDepth |-> walks[i] \ {c}]
    /\ round' = round \ {c}

\* A death may count as a departure, or not.
Die(c) ==
    /\ c \in Players \cap alive
    /\ \E S \in SUBSET (1 .. MaxDepth) :
          walks' = [i \in 1 .. MaxDepth |-> IF i \in S THEN walks[i] \ {c} ELSE walks[i]]
    /\ UNCHANGED <<alive, round>>

\* A loop begins where none is going on.
Begin(i) ==
    /\ \A j \in i .. MaxDepth : walks[j] = {}
    /\ walks' = [walks EXCEPT ![i] = alive]
    /\ UNCHANGED <<alive, round>>

Visit(i, c) ==
    /\ c \in walks[i] /\ \A j \in i + 1 .. MaxDepth : walks[j] = {}
    /\ walks' = [walks EXCEPT ![i] = @ \ {c}]
    /\ UNCHANGED <<alive, round>>

RoundBegin == round = {} /\ round' = alive /\ UNCHANGED <<alive, walks>>

Process(c) ==
    /\ c \in round
    /\ round' = round \ {c}
    /\ UNCHANGED <<alive, walks>>

Next ==
    \/ \E c \in Chars : Arrive(c) \/ Leave(c) \/ Die(c) \/ Process(c)
    \/ \E i \in 1 .. MaxDepth : Begin(i) \/ \E c \in Chars : Visit(i, c)
    \/ RoundBegin

Spec == Init /\ [][Next]_vars
==============================================================================
