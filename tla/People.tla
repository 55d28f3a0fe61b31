------------------------------- MODULE People -------------------------------
(***************************************************************************)
(* The people of the world and the rooms they are in, which Quest and       *)
(* Company both are about.                                                  *)
(***************************************************************************)
CONSTANTS
    Player, Mob, Room,
    Temple,         \* where the lost and the recalled go
    Moribund,       \* the room of the dead
    Nil

Person == Player \cup Mob

ASSUME PeopleAssumption ==
    /\ Player \cap Mob = {} /\ Nil \notin Person \cup Room
    /\ {Temple, Moribund} \subseteq Room
=============================================================================
