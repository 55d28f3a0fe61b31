-------------------------------- MODULE Quest --------------------------------
(***************************************************************************)
(* The quest (quest.c): a mob asks for an object that a thief carries, and  *)
(* players look for it.  quest_mob, quest_target and quest_object are bare   *)
(* pointers into a world in which everybody may die, leave or be purged and *)
(* every object may be destroyed, so that every path through handler.c      *)
(* (obj_to_char, extract_obj, extract_char), fight.c (make_corpse,          *)
(* raw_kill) and act_obj.c (do_give) has a case of its own for them.        *)
(***************************************************************************)
EXTENDS People, Integers, FiniteSets

CONSTANTS
    Item,           \* objects that load_quest_object may return
    Corpse,         \* objects that make_corpse may return
    Worthy,         \* by personality: the players whose level lets them have the object
    Pk,             \* the players who may not pick it up (is_in_pk)
    Morgue, Returned, Donation,     \* rooms with a purpose
    MaxTimer,       \* ticks a quest lasts (15)
    Waits,          \* ticks until the next is generated
    Careful         \* whether what ends in extract_obj(NULL) is left undone: one who was
                    \* chosen for a quest that did not start is killed or leaves; and a
                    \* quest of which both parties are the same

ASSUME QuestAssumption ==
    /\ Person \cap Room = {} /\ (Person \cup Room) \cap (Item \cup Corpse) = {}
    /\ Item \cap Corpse = {} /\ Nil \notin Item \cup Corpse
    /\ Worthy \in [1 .. 3 -> SUBSET Player] /\ Pk \subseteq Player
    /\ {Morgue, Returned, Donation} \subseteq Room
    /\ MaxTimer \in Nat /\ Waits \subseteq Nat /\ Waits # {} /\ Careful \in BOOLEAN

VARIABLES
    quest, auto_quest,
    quest_mob, quest_target, quest_object,
    timer, wait,
    personality,    \* of the object (value[3]), 0 while there is none
    where,          \* who or what has an item; Nil when it is freed
    at,             \* where people and corpses are; Nil when they are not
    renamed         \* those whose long_descr is the quest's, not their own

vars == <<quest, auto_quest, quest_mob, quest_target, quest_object, timer, wait, personality, where, at, renamed>>
pointers == <<quest_mob, quest_target, quest_object>>
clocks == <<timer, wait, personality>>

Parties == {quest_mob, quest_target} \ {Nil}

InGame == {c \in Person : at[c] # Nil}

\* obj_to_char: the object falls before who may not have it.
ToChar(o, c) ==
    IF o = quest_object /\ c \notin (IF c \in Player THEN Worthy[personality] ELSE Parties)
    THEN at[c] ELSE c

\* The room an item is in, Nil if it is with nobody in a room.
RoomOf(o) == IF where[o] \in Room THEN where[o] ELSE at[where[o]]

\* Where extract_obj leaves the object of a quest that goes on.
Relocated(o) == IF RoomOf(o) = Nil THEN Temple ELSE RoomOf(o)

\* What clear_quest does to the items: the quest is over, and so is the object.
Cleared(w) == [w EXCEPT ![quest_object] = Nil]

\* clear_quest
Clear ==
    /\ quest' = FALSE
    /\ quest_mob' = Nil /\ quest_target' = Nil /\ quest_object' = Nil
    /\ timer' = 0 /\ wait' \in Waits /\ personality' = 0

\* Nobody is called what the quest called him; those who are gone, G, are nobody.
Restore(G) == renamed' = renamed \ (Parties \cup G)

Untouched == UNCHANGED <<quest, pointers, clocks>>

-----------------------------------------------------------------------------
(* quest.c *)

\* What generate_auto_quest and 'quest manual' end with: the thief has the object.
Begin(m, t, n, o) ==
    /\ where[o] = Nil
    /\ where' = [where EXCEPT ![o] = t]
    /\ quest_object' = o /\ personality' = n
    /\ quest' = TRUE /\ timer' = 0
    /\ renamed' = renamed \cup {m, t}

Failed == quest' = FALSE /\ wait' \in Waits /\ UNCHANGED <<where, quest_object, personality, timer, renamed>>

\* Either of the two may not be found, or the object may not be.
Generate ==
    /\ ~quest
    /\ quest_mob' \in {Nil} \cup (Mob \cap InGame)
    /\ quest_target' \in {Nil} \cup ((Mob \cap InGame) \ {quest_mob'})
    /\ quest_mob' = Nil => quest_target' = Nil
    /\ \/ Failed
       \/ /\ quest_target' # Nil
          /\ \E n \in {2, 3}, o \in Item : Begin(quest_mob', quest_target', n, o)
          /\ UNCHANGED wait
    /\ UNCHANGED <<at>>

StartQuest == Generate /\ UNCHANGED auto_quest

\* A player may be meant: the pointer is set before it is looked at.
ChooseMob(c) ==
    /\ ~quest /\ c \in InGame \cup {Nil}
    /\ Careful => c # quest_target
    /\ quest_mob' = c
    /\ UNCHANGED <<quest, auto_quest, quest_target, quest_object, clocks, where, at, renamed>>

ChooseTarget(c) ==
    /\ ~quest /\ c \in InGame \cup {Nil}
    /\ Careful => c # quest_mob
    /\ quest_target' = c
    /\ UNCHANGED <<quest, auto_quest, quest_mob, quest_object, clocks, where, at, renamed>>

Manual(n) ==
    /\ ~quest /\ quest_mob # Nil /\ quest_target # Nil
    /\ \/ Failed
       \/ (\E o \in Item : Begin(quest_mob, quest_target, n, o)) /\ UNCHANGED wait
    /\ UNCHANGED <<auto_quest, quest_mob, quest_target, at>>

Stop ==
    /\ quest
    /\ Clear /\ where' = Cleared(where) /\ Restore({})
    /\ UNCHANGED <<auto_quest, at>>

Toggle ==
    /\ auto_quest' = ~auto_quest
    /\ Untouched /\ UNCHANGED <<where, at, renamed>>

\* Mutant: nothing is told, and counted, of a thief who is dead.
ToldAlive == IF quest_target = Nil THEN timer ELSE timer + 1

\* quest_inform
Told == timer + 1

\* quest_update
Tick ==
    /\ UNCHANGED <<auto_quest, at>>
    /\ IF quest
       THEN IF Told > MaxTimer \/ quest_mob = Nil
            THEN Clear /\ where' = Cleared(where) /\ Restore({})
            ELSE timer' = Told /\ UNCHANGED <<quest, pointers, wait, personality, where, renamed>>
       ELSE auto_quest /\ IF wait > 0
                          THEN wait' = wait - 1 /\ UNCHANGED <<quest, pointers, timer, personality, where, renamed>>
                          ELSE Generate

-----------------------------------------------------------------------------
(* What becomes of the object. *)

Put(o, x) ==
    /\ where' = [where EXCEPT ![o] = x]
    /\ Untouched /\ UNCHANGED <<auto_quest, at, renamed>>

Get(c, o) ==
    /\ c \in InGame /\ where[o] \in Room \cup Corpse /\ RoomOf(o) = at[c]
    /\ ~(c \in Pk /\ where[o] \in Room)
    /\ Put(o, ToChar(o, c))

Drop(c, o) == c \in InGame /\ where[o] = c /\ Put(o, at[c])

Donate(c, o) == c \in InGame /\ where[o] = c /\ Put(o, Donation)

\* Whatever calls extract_obj on it.
Destroy(o) ==
    /\ where[o] # Nil
    /\ Put(o, Relocated(o))

\* do_give; also do_sell to a keeper.
Give(c, v, o) ==
    /\ where[o] = c /\ c # v /\ {c, v} \subseteq InGame /\ at[c] = at[v] /\ v \notin Pk
    /\ IF v \in Mob /\ v = quest_mob
       THEN IF c \in Player /\ c \in Worthy[personality]
            THEN /\ Clear /\ where' = Cleared(where) /\ Restore({})
                 /\ UNCHANGED <<auto_quest, at>>
            ELSE Put(o, Returned)
       ELSE Put(o, ToChar(o, v))

\* A player is not robbed of it.
Steal(c, v, o) ==
    /\ where[o] = v /\ v \in Mob /\ c # v /\ {c, v} \subseteq InGame /\ at[c] = at[v]
    /\ Put(o, ToChar(o, c))

-----------------------------------------------------------------------------
(* What becomes of people. *)

Move(c, r) ==
    /\ c \in InGame /\ r # at[c]
    /\ at' = [at EXCEPT ![c] = r]
    /\ Untouched /\ UNCHANGED <<auto_quest, where, renamed>>

Appear(c, r) ==
    /\ c \in Person \ InGame
    /\ at' = [at EXCEPT ![c] = r]
    /\ Untouched /\ UNCHANGED <<auto_quest, where, renamed>>

\* Items of c, to x.
Dropped(w, c, x) == [o \in Item |-> IF w[o] = c THEN x ELSE w[o]]

\* Mutant: only the mob that asks is missed.
MissedMob(c, t) == c = quest_mob

\* extract_char: whether the quest goes with c, as the pointers are by then.
Missed(c, t) == c = quest_mob \/ c = t

\* extract_char(TRUE), for a purge or do_quit: the quest goes with either party;
\* otherwise its object stays in the room.
Leave(c) ==
    /\ c \in InGame
    /\ Careful /\ ~quest => c \notin Parties
    /\ IF Missed(c, quest_target)
       THEN /\ Clear /\ where' = Cleared(where) /\ Restore({c})
       ELSE /\ where' = Dropped(where, c, at[c])
            /\ renamed' = renamed \ {c} /\ Untouched
    /\ at' = [at EXCEPT ![c] = Nil]
    /\ UNCHANGED auto_quest

\* raw_kill forgets the thief before extract_char looks for him.
ThiefAfter(c) == IF quest_target = c THEN Nil ELSE quest_target

\* raw_kill: the mob that asks takes the quest with it; the thief leaves the object
\* in his corpse, or in the temple when a soul net leaves none.
Kill(c, k, net, r) ==
    /\ c \in InGame /\ at[k] = Nil /\ (net => c \in Mob)
    /\ r \in IF c \in Player THEN {at[c], Morgue} ELSE {at[c]}
    /\ Careful /\ ~quest => c # quest_mob
    /\ LET w == Dropped(where, c, IF net THEN Temple ELSE k) IN
       IF Missed(c, ThiefAfter(c))
       THEN /\ Clear /\ where' = Cleared(w) /\ Restore({c})
       ELSE /\ where' = w
            /\ quest_target' = ThiefAfter(c) /\ renamed' = renamed \ {c}
            /\ UNCHANGED <<quest, quest_mob, quest_object, clocks>>
    /\ at' = [at EXCEPT ![c] = IF c \in Player THEN Moribund ELSE Nil, ![k] = IF net THEN Nil ELSE r]
    /\ UNCHANGED auto_quest

\* Mutant: what is in it goes too.
RottenAll(w, k) == Dropped(w, k, Nil)

\* extract_obj on a corpse that is already out of its room.
Rotten(w, k) == Dropped(w, k, Temple)

Decay(k) ==
    /\ at[k] # Nil
    /\ where' = Rotten(where, k)
    /\ at' = [at EXCEPT ![k] = Nil]
    /\ Untouched /\ UNCHANGED <<auto_quest, renamed>>

-----------------------------------------------------------------------------
Init ==
    /\ quest = FALSE /\ auto_quest \in BOOLEAN
    /\ quest_mob = Nil /\ quest_target = Nil /\ quest_object = Nil
    /\ timer = 0 /\ wait \in Waits /\ personality = 0
    /\ where = [o \in Item |-> Nil]
    /\ at \in [Person \cup Corpse -> Room \cup {Nil}] /\ \A k \in Corpse : at[k] = Nil
    /\ renamed = {}

Command ==
    \/ StartQuest \/ Stop \/ Toggle
    \/ \E n \in 1 .. 3 : Manual(n)
    \/ \E c \in Person \cup {Nil} : ChooseMob(c) \/ ChooseTarget(c)

Handle ==
    \E o \in Item :
        \/ Destroy(o)
        \/ \E c \in Person : \/ Get(c, o) \/ Drop(c, o) \/ Donate(c, o)
                             \/ \E v \in Person : Give(c, v, o) \/ Steal(c, v, o)

People ==
    \/ \E c \in Person : \/ \E r \in Room : Move(c, r) \/ Appear(c, r)
                         \/ Leave(c)
                         \/ \E k \in Corpse, net \in BOOLEAN, r \in Room : Kill(c, k, net, r)
    \/ \E k \in Corpse : Decay(k)

Next == Command \/ Tick \/ Handle \/ People

\* update_handler calls quest_update every PULSE_TICK, whatever the players do
\* (update.c:1797-1803).
Spec == Init /\ [][Next]_vars /\ WF_vars(Tick)

-----------------------------------------------------------------------------
TypeOK ==
    /\ quest \in BOOLEAN /\ auto_quest \in BOOLEAN
    /\ {quest_mob, quest_target} \subseteq Person \cup {Nil} /\ quest_object \in Item \cup {Nil}
    /\ timer \in 0 .. MaxTimer /\ wait \in Nat /\ personality \in 0 .. 3
    /\ where \in [Item -> Person \cup Room \cup Corpse \cup {Nil}]
    /\ at \in [Person \cup Corpse -> Room \cup {Nil}] /\ renamed \subseteq Person

\* A player of the right level, or a party; with all others it falls to the floor
\* (obj_to_char, handler.c:1004-1022).
RightHands ==
    quest /\ where[quest_object] \in Person =>
        where[quest_object] \in Worthy[personality] \cup Parties

\* No pointer of the quest outlives what it points to: both parties are in the game,
\* and as long as the quest is on (and no longer) its object is, with somebody who is
\* in the game and may have it, in a corpse that lies somewhere, or in a room.
NothingDangles ==
    /\ TypeOK /\ RightHands
    /\ Parties \subseteq InGame
    /\ \A o \in Item : where[o] # Nil <=> quest /\ o = quest_object
    /\ quest => /\ quest_mob # Nil /\ RoomOf(quest_object) # Nil

\* The descriptions that a quest replaces are put back, whichever way it ends, as
\* quest_mob and quest_target are what is left to find them by.
NamesRestored == renamed = IF quest THEN Parties ELSE {}

\* A quest ends, if only of old age.
QuestEnds == quest ~> ~quest
=============================================================================
