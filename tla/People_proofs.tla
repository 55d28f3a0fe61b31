--------------------------- MODULE People_proofs ---------------------------
(***************************************************************************)
(* Proofs about the two modules of what people are to each other, for any   *)
(* number of people, rooms, objects and corpses.                            *)
(*                                                                          *)
(* Quest: each of the ways in which somebody dies, leaves or loses the      *)
(* object is one step; what they have in common is in three lemmas: the     *)
(* object comes to somebody or falls, the quest is over, and somebody who   *)
(* is not missed goes.                                                      *)
(*                                                                          *)
(* Company: each of the helpers that the handlers are composed of maps a    *)
(* sound world to a sound one, and so, whatever their order, do blows,      *)
(* flights, deaths and commands.                                            *)
(***************************************************************************)
EXTENDS Quest, Company, FiniteSetTheorems, WellFoundedInduction, TLAPS

\* What a quest consists of: an object of a personality, and two who are not the same
\* (nor are they while they are only chosen).
Whole ==
    /\ quest => quest_object \in Item /\ personality \in 1 .. 3
    /\ quest_mob = quest_target => quest_mob = Nil

IInv == NothingDangles /\ NamesRestored /\ Whole

LEMMA Typing ==
    ASSUME IInv
    PROVE  /\ quest \in BOOLEAN /\ auto_quest \in BOOLEAN
           /\ quest_mob \in Person \cup {Nil} /\ quest_target \in Person \cup {Nil} /\ quest_object \in Item \cup {Nil}
           /\ timer \in 0 .. MaxTimer /\ wait \in Nat /\ personality \in 0 .. 3
           /\ where \in [Item -> Person \cup Room \cup Corpse \cup {Nil}]
           /\ at \in [Person \cup Corpse -> Room \cup {Nil}] /\ renamed \subseteq Person
           /\ Nil \notin Person /\ Nil \notin Room /\ Nil \notin Item /\ Nil \notin Corpse
           /\ Person \cap Room = {} /\ Person \cap Corpse = {} /\ Room \cap Corpse = {}
           /\ Player \subseteq Person /\ Mob \subseteq Person /\ MaxTimer \in Nat /\ Waits \subseteq Nat
           /\ {Temple, Morgue, Moribund, Returned, Donation} \subseteq Room
           /\ \A n \in 1 .. 3 : Worthy[n] \subseteq Player
  BY PeopleAssumption, QuestAssumption DEF IInv, NothingDangles, TypeOK, Person

\* Who or what has the object of a quest that is on is in some room.
LEMMA Somewhere ==
    ASSUME IInv, NEW o \in Item, where[o] # Nil
    PROVE  /\ quest /\ o = quest_object /\ quest_mob \in Person /\ personality \in 1 .. 3
           /\ RoomOf(o) \in Room
           /\ where[o] \in Person => at[where[o]] # Nil
  <1> USE Typing
  <1>1. quest /\ o = quest_object
    BY DEF IInv, NothingDangles
  <1>2. quest_mob \in Person /\ personality \in 1 .. 3 /\ RoomOf(o) # Nil
    BY <1>1 DEF IInv, NothingDangles, Whole
  <1>3. QED BY <1>1, <1>2 DEF RoomOf

\* The object comes to x, who may have it, or falls in the room x.
LEMMA Putting ==
    ASSUME IInv, NEW o \in Item, where[o] # Nil, NEW x \in Person \cup Room, Put(o, x),
           x \in Person => at[x] # Nil /\ x \in Worthy[personality] \cup Parties
    PROVE  IInv'
  <1> USE Typing
  <1>1. quest /\ o = quest_object
    BY Somewhere
  <1>2. where' = [where EXCEPT ![o] = x] /\ UNCHANGED <<quest, auto_quest, quest_mob, quest_target, quest_object, timer, wait, personality, at, renamed>>
    BY DEF Put, Untouched, pointers, clocks
  <1>3. TypeOK' /\ NamesRestored' /\ Whole'
    BY <1>2 DEF IInv, NothingDangles, TypeOK, NamesRestored, Whole, Parties
  <1>4. RightHands'
    BY <1>1, <1>2 DEF RightHands, Parties
  <1>5. Parties' \subseteq InGame'
    BY <1>2 DEF IInv, NothingDangles, Parties, InGame
  <1>6. \A i \in Item : where'[i] # Nil <=> quest' /\ i = quest_object'
    BY <1>1, <1>2 DEF IInv, NothingDangles
  <1>7. quest_mob' # Nil /\ RoomOf(quest_object)' # Nil
    BY <1>1, <1>2 DEF IInv, NothingDangles, RoomOf
  <1>8. QED BY <1>3, <1>4, <1>5, <1>6, <1>7 DEF IInv, NothingDangles

\* obj_to_char
LEMMA Receiving ==
    ASSUME IInv, NEW o \in Item, where[o] # Nil, NEW c \in InGame, Put(o, ToChar(o, c))
    PROVE  IInv'
  <1> USE Typing
  <1>1. o = quest_object /\ c \in Person /\ at[c] \in Room
    BY Somewhere DEF InGame
  <1>2. CASE c \in (IF c \in Player THEN Worthy[personality] ELSE Parties)
    BY <1>1, <1>2, Putting DEF ToChar, InGame
  <1>3. CASE c \notin (IF c \in Player THEN Worthy[personality] ELSE Parties)
    BY <1>1, <1>3, Putting DEF ToChar
  <1>4. QED BY <1>2, <1>3

\* clear_quest: what is left of the quest is nothing.
LEMMA Clearing ==
    ASSUME IInv, quest, Clear, NEW G \in SUBSET Person, Restore(G),
           NEW left \in [Item -> Person \cup Room \cup Corpse \cup {Nil}], where' = Cleared(left),
           \A o \in Item \ {quest_object} : left[o] = Nil,
           auto_quest' = auto_quest, at' \in [Person \cup Corpse -> Room \cup {Nil}]
    PROVE  IInv'
  <1> USE Typing
  <1>1. where' \in [Item -> Person \cup Room \cup Corpse \cup {Nil}] /\ \A o \in Item : where'[o] = Nil
    BY DEF Cleared
  <1>2. quest' = FALSE /\ quest_mob' = Nil /\ quest_target' = Nil /\ quest_object' = Nil /\ timer' = 0 /\ wait' \in Nat /\ personality' = 0
    BY DEF Clear
  <1>3. renamed' = {}
    BY DEF Restore, IInv, NamesRestored
  <1>4. TypeOK'
    <2>1. quest' \in BOOLEAN /\ auto_quest' \in BOOLEAN
      BY <1>2
    <2>2. timer' \in 0 .. MaxTimer /\ personality' \in 0 .. 3
      BY <1>2
    <2>3. {quest_mob', quest_target'} \subseteq Person \cup {Nil} /\ quest_object' \in Item \cup {Nil} /\ renamed' \subseteq Person
      BY <1>2, <1>3
    <2>4. QED BY <1>1, <1>2, <2>1, <2>2, <2>3 DEF TypeOK
  <1>7. NamesRestored' /\ Whole'
    BY <1>2, <1>3 DEF NamesRestored, Whole
  <1>5. RightHands' /\ Parties' \subseteq InGame'
    BY <1>2 DEF RightHands, Parties
  <1>6. QED BY <1>1, <1>2, <1>4, <1>5, <1>7 DEF IInv, NothingDangles

\* The object stays where it is.
LEMMA Staying ==
    ASSUME IInv, quest, Clear, Restore({}), where' = Cleared(where), UNCHANGED <<auto_quest, at>>
    PROVE  IInv'
  <1>1. \A o \in Item \ {quest_object} : where[o] = Nil
    BY DEF IInv, NothingDangles
  <1>2. QED BY <1>1, Clearing, Typing

-----------------------------------------------------------------------------
(* quest.c *)

\* A quest begins with two who are in the game.
LEMMA Beginning ==
    ASSUME IInv, ~quest, NEW m \in InGame, NEW t \in InGame, m # t, NEW n \in 1 .. 3, NEW o \in Item,
           Begin(m, t, n, o), quest_mob' = m, quest_target' = t, UNCHANGED <<auto_quest, wait, at>>
    PROVE  IInv'
  <1> USE Typing
  <1>1. /\ where' = [where EXCEPT ![o] = t] /\ quest_object' = o /\ personality' = n /\ quest' = TRUE
        /\ timer' = 0 /\ renamed' = {m, t} /\ m \in Person /\ t \in Person /\ at[t] # Nil /\ at[m] # Nil
    BY DEF Begin, IInv, NamesRestored, InGame
  <1>2. \A i \in Item : where[i] = Nil
    BY DEF IInv, NothingDangles
  <1>3. TypeOK' /\ NamesRestored' /\ Whole'
    BY <1>1 DEF TypeOK, NamesRestored, Whole, Parties
  <1>4. RightHands' /\ Parties' \subseteq InGame'
    BY <1>1 DEF RightHands, Parties, InGame
  <1>5. (\A i \in Item : where[i] # Nil <=> quest /\ i = quest_object)'
    BY <1>1, <1>2
  <1>6. quest_mob' # Nil /\ RoomOf(quest_object)' # Nil
    BY <1>1 DEF RoomOf
  <1>7. QED BY <1>3, <1>4, <1>5, <1>6 DEF IInv, NothingDangles

\* Somebody is chosen, and no quest begins.
LEMMA Choosing ==
    ASSUME IInv, ~quest, quest' = FALSE, {quest_mob', quest_target'} \subseteq InGame \cup {Nil},
           quest_mob' = quest_target' => quest_mob' = Nil, wait' \in Nat,
           UNCHANGED <<auto_quest, where, quest_object, personality, timer, renamed, at>>
    PROVE  IInv'
  <1> USE Typing
  <1>1. TypeOK' /\ NamesRestored' /\ Whole'
    BY DEF IInv, NothingDangles, TypeOK, NamesRestored, Whole, InGame
  <1>2. RightHands' /\ Parties' \subseteq InGame'
    BY DEF RightHands, Parties, InGame
  <1>3. QED BY <1>1, <1>2 DEF IInv, NothingDangles

LEMMA GenerateKeeps == ASSUME IInv, Generate, auto_quest' = auto_quest PROVE IInv'
  <1> USE Typing
  <1>1. /\ {quest_mob', quest_target'} \subseteq InGame \cup {Nil}
        /\ quest_mob' = quest_target' => quest_mob' = Nil
        /\ quest_target' # Nil => quest_mob' \in InGame /\ quest_target' \in InGame /\ quest_mob' # quest_target'
    BY DEF Generate, InGame
  <1>2. CASE Failed
    BY <1>1, <1>2, Choosing DEF Generate, Failed
  <1>3. CASE quest_target' # Nil /\ (\E n \in {2, 3}, o \in Item : Begin(quest_mob', quest_target', n, o)) /\ UNCHANGED wait
    <2>1. PICK n \in {2, 3}, o \in Item : Begin(quest_mob', quest_target', n, o)
      BY <1>3
    <2>2. QED BY <1>1, <1>3, <2>1, Beginning DEF Generate
  <1>4. QED BY <1>2, <1>3 DEF Generate

LEMMA CommandKeeps == ASSUME IInv, Careful, Command PROVE IInv'
  <1> USE Typing
  <1>1. CASE StartQuest
    BY <1>1, GenerateKeeps DEF StartQuest
  <1>2. CASE Stop
    BY <1>2, Staying DEF Stop
  <1>3. CASE Toggle
    BY <1>3 DEF Toggle, Untouched, pointers, clocks, IInv, NothingDangles, TypeOK, RightHands, Parties, InGame,
                RoomOf, NamesRestored, Whole
  <1>4. ASSUME NEW n \in 1 .. 3, Manual(n) PROVE IInv'
    <2>1. ~quest /\ quest_mob \in InGame /\ quest_target \in InGame /\ quest_mob # quest_target
      BY <1>4 DEF Manual, IInv, NothingDangles, Parties, Whole
    <2>2. CASE Failed
      BY <1>4, <2>1, <2>2, Choosing DEF Manual, Failed
    <2>3. ASSUME NEW o \in Item, Begin(quest_mob, quest_target, n, o), UNCHANGED wait PROVE IInv'
      BY <1>4, <2>1, <2>3, Beginning DEF Manual
    <2>4. QED BY <1>4, <2>2, <2>3 DEF Manual
  <1>5. ASSUME NEW c \in Person \cup {Nil}, ChooseMob(c) PROVE IInv'
    BY <1>5, Choosing DEF ChooseMob, clocks, IInv, NothingDangles, Parties
  <1>6. ASSUME NEW c \in Person \cup {Nil}, ChooseTarget(c) PROVE IInv'
    BY <1>6, Choosing DEF ChooseTarget, clocks, IInv, NothingDangles, Parties
  <1>7. QED BY <1>1, <1>2, <1>3, <1>4, <1>5, <1>6 DEF Command

LEMMA TickKeeps == ASSUME IInv, Tick PROVE IInv'
  <1> USE Typing
  <1>1. CASE quest /\ (Told > MaxTimer \/ quest_mob = Nil)
    BY <1>1, Staying DEF Tick
  <1>2. CASE quest /\ ~(Told > MaxTimer \/ quest_mob = Nil)
    <2>1. timer' \in 0 .. MaxTimer
      BY <1>2 DEF Tick, Told
    <2>2. UNCHANGED <<quest, quest_mob, quest_target, quest_object, wait, personality, where, renamed, auto_quest, at>>
      BY <1>2 DEF Tick, pointers
    <2>3. QED BY <2>1, <2>2 DEF IInv, NothingDangles, TypeOK, RightHands, Parties, InGame, RoomOf, NamesRestored, Whole
  <1>3. CASE ~quest /\ auto_quest /\ wait > 0
    <2>1. wait' \in Nat
      BY <1>3 DEF Tick
    <2>2. UNCHANGED <<quest, quest_mob, quest_target, quest_object, timer, personality, where, renamed, auto_quest, at>>
      BY <1>3 DEF Tick, pointers
    <2>3. QED BY <2>1, <2>2 DEF IInv, NothingDangles, TypeOK, RightHands, Parties, InGame, RoomOf, NamesRestored, Whole
  <1>4. CASE ~quest /\ Generate
    BY <1>4, GenerateKeeps DEF Tick
  <1>5. QED BY <1>1, <1>2, <1>3, <1>4 DEF Tick

-----------------------------------------------------------------------------
(* What becomes of the object. *)

LEMMA HandleKeeps == ASSUME IInv, Handle PROVE IInv'
  <1> USE Typing
  <1>1. PICK o \in Item :
          \/ Destroy(o)
          \/ \E c \in Person : \/ Get(c, o) \/ Drop(c, o) \/ Donate(c, o)
                               \/ \E v \in Person : Give(c, v, o) \/ Steal(c, v, o)
    BY DEF Handle
  <1>2. CASE Destroy(o)
    BY <1>2, Putting, Somewhere DEF Destroy, Relocated
  <1>3. ASSUME NEW c \in Person, Get(c, o) PROVE IInv'
    BY <1>3, Receiving DEF Get
  <1>4. ASSUME NEW c \in Person, Drop(c, o) \/ Donate(c, o) PROVE IInv'
    BY <1>4, Putting, Somewhere DEF Drop, Donate, InGame
  <1>5. ASSUME NEW c \in Person, NEW v \in Person, Give(c, v, o) PROVE IInv'
    <2>1. where[o] # Nil /\ v \in InGame
      BY <1>5 DEF Give
    <2>2. quest
      BY <2>1, Somewhere
    <2>3. CASE v \in Mob /\ v = quest_mob /\ c \in Player /\ c \in Worthy[personality]
      BY <1>5, <2>2, <2>3, Staying DEF Give
    <2>4. CASE v \in Mob /\ v = quest_mob /\ ~(c \in Player /\ c \in Worthy[personality])
      BY <1>5, <2>1, <2>4, Putting DEF Give
    <2>5. CASE ~(v \in Mob /\ v = quest_mob)
      BY <1>5, <2>1, <2>5, Receiving DEF Give
    <2>6. QED BY <2>3, <2>4, <2>5
  <1>6. ASSUME NEW c \in Person, NEW v \in Person, Steal(c, v, o) PROVE IInv'
    BY <1>6, Receiving DEF Steal
  <1>7. QED BY <1>1, <1>2, <1>3, <1>4, <1>5, <1>6

-----------------------------------------------------------------------------
(* What becomes of people. *)

\* People and corpses come, or go from room to room.
LEMMA Wandering ==
    ASSUME IInv, Untouched, UNCHANGED <<auto_quest, where, renamed>>,
           at' \in [Person \cup Corpse -> Room \cup {Nil}],
           \A y \in Person \cup Corpse : at[y] # Nil => at'[y] # Nil
    PROVE  IInv'
  <1> USE Typing
  <1>1. UNCHANGED <<quest, quest_mob, quest_target, quest_object, timer, wait, personality>>
    BY DEF Untouched, pointers, clocks
  <1>2. TypeOK' /\ NamesRestored' /\ Whole'
    BY <1>1 DEF IInv, NothingDangles, TypeOK, NamesRestored, Whole, Parties
  <1>3. RightHands' /\ Parties' \subseteq InGame'
    BY <1>1 DEF IInv, NothingDangles, RightHands, Parties, InGame
  <1>4. quest => RoomOf(quest_object)' # Nil
    <2>1. SUFFICES ASSUME quest PROVE RoomOf(quest_object)' # Nil
      OBVIOUS
    <2>2. quest_object \in Item /\ where[quest_object] # Nil /\ RoomOf(quest_object) # Nil
      BY <2>1 DEF IInv, NothingDangles, Whole
    <2>3. QED BY <1>1, <2>2 DEF RoomOf
  <1>5. QED BY <1>1, <1>2, <1>3, <1>4 DEF IInv, NothingDangles

\* c, whom the quest does not miss, goes, and what he has falls at x.
LEMMA Parting ==
    ASSUME IInv, NEW c \in InGame, c # quest_mob, NEW x \in Room \cup Corpse, x \in Corpse => at'[x] # Nil,
           where' = Dropped(where, c, x), quest_target' = ThiefAfter(c), renamed' = renamed \ {c},
           UNCHANGED <<quest, auto_quest, quest_mob, quest_object, clocks>>,
           at' \in [Person \cup Corpse -> Room \cup {Nil}],
           \A y \in (Person \cup Corpse) \ {c} : at[y] # Nil => at'[y] # Nil
    PROVE  IInv'
  <1> USE Typing
  <1>1. UNCHANGED <<quest, auto_quest, quest_mob, quest_object, timer, wait, personality>>
    BY DEF clocks
  <1>2. c \in Person
    BY DEF InGame
  <1>3. \A o \in Item : where'[o] = IF where[o] = c THEN x ELSE where[o]
    BY DEF Dropped
  <1>4. TypeOK'
    <2>1. where' \in [Item -> Person \cup Room \cup Corpse \cup {Nil}]
      BY DEF Dropped
    <2>2. {quest_mob, quest_target}' \subseteq Person \cup {Nil} /\ renamed' \subseteq Person
      BY <1>1 DEF ThiefAfter
    <2>3. QED BY <1>1, <2>1, <2>2 DEF TypeOK
  <1>5. Parties' = Parties \ {c}
    BY <1>1, <1>2 DEF Parties, ThiefAfter
  <1>6. NamesRestored' /\ Whole'
    BY <1>1, <1>5 DEF IInv, NamesRestored, Whole, ThiefAfter
  <1>7. RightHands'
    <2>1. SUFFICES ASSUME quest, where'[quest_object] \in Person
                   PROVE  where'[quest_object] \in Worthy[personality] \cup Parties'
      BY <1>1 DEF RightHands
    <2>2. quest_object \in Item
      BY <2>1 DEF IInv, Whole
    <2>3. where'[quest_object] = where[quest_object] /\ where[quest_object] # c
      BY <1>3, <2>1, <2>2
    <2>4. QED BY <1>5, <2>1, <2>3 DEF IInv, NothingDangles, RightHands
  <1>8. Parties' \subseteq InGame'
    BY <1>5 DEF IInv, NothingDangles, InGame
  <1>9. \A o \in Item : where'[o] # Nil <=> where[o] # Nil
    BY <1>2, <1>3
  <1>10. quest => RoomOf(quest_object)' # Nil
    <2>1. SUFFICES ASSUME quest PROVE RoomOf(quest_object)' # Nil
      OBVIOUS
    <2>2. quest_object \in Item /\ where[quest_object] # Nil /\ RoomOf(quest_object) # Nil
      BY <2>1 DEF IInv, NothingDangles, Whole
    <2>3. CASE where[quest_object] = c
      BY <1>1, <1>3, <2>2, <2>3 DEF RoomOf
    <2>4. CASE where[quest_object] # c
      BY <1>1, <1>3, <2>2, <2>4 DEF RoomOf
    <2>5. QED BY <2>3, <2>4
  <1>11. QED BY <1>1, <1>4, <1>6, <1>7, <1>8, <1>9, <1>10 DEF IInv, NothingDangles

LEMMA LeaveKeeps == ASSUME IInv, Careful, NEW c \in Person, Leave(c) PROVE IInv'
  <1> USE Typing
  <1>1. c \in InGame /\ at[c] \in Room /\ auto_quest' = auto_quest /\ at' = [at EXCEPT ![c] = Nil]
    BY DEF Leave, InGame
  <1>2. CASE Missed(c, quest_target)
    <2>1. quest
      BY <1>2 DEF Leave, Missed, Parties
    <2>2. \A o \in Item \ {quest_object} : where[o] = Nil
      BY <2>1 DEF IInv, NothingDangles
    <2>3. Clear /\ where' = Cleared(where) /\ Restore({c})
      BY <1>2 DEF Leave
    <2>4. QED BY <1>1, <2>1, <2>2, <2>3, Clearing
  <1>3. CASE ~Missed(c, quest_target)
    <2>1. c # quest_mob /\ c # quest_target
      BY <1>3 DEF Missed
    <2>2. /\ where' = Dropped(where, c, at[c]) /\ renamed' = renamed \ {c} /\ quest_target' = ThiefAfter(c)
          /\ UNCHANGED <<quest, auto_quest, quest_mob, quest_object, clocks>>
      BY <1>1, <1>3, <2>1 DEF Leave, Untouched, pointers, ThiefAfter
    <2>3. QED BY <1>1, <2>1, <2>2, Parting
  <1>4. QED BY <1>2, <1>3

LEMMA KillKeeps ==
    ASSUME IInv, Careful, NEW c \in Person, NEW k \in Corpse, NEW net \in BOOLEAN, NEW r \in Room, Kill(c, k, net, r)
    PROVE  IInv'
  <1> USE Typing
  <1> DEFINE x == IF net THEN Temple ELSE k
             left == Dropped(where, c, x)
  <1>1. /\ c \in InGame /\ auto_quest' = auto_quest /\ at[k] = Nil /\ c # k
        /\ at' = [at EXCEPT ![c] = IF c \in Player THEN Moribund ELSE Nil, ![k] = IF net THEN Nil ELSE r]
    BY DEF Kill
  <1>2. at' \in [Person \cup Corpse -> Room \cup {Nil}] /\ x \in Room \cup Corpse /\ (x \in Corpse => at'[x] # Nil)
    BY <1>1
  <1>3. CASE Missed(c, ThiefAfter(c))
    <2>1. c = quest_mob
      BY <1>1, <1>3 DEF Missed, ThiefAfter
    <2>2. quest
      BY <2>1 DEF Kill
    <2>3. \A o \in Item \ {quest_object} : where[o] = Nil
      BY <2>2 DEF IInv, NothingDangles
    <2>4. left \in [Item -> Person \cup Room \cup Corpse \cup {Nil}] /\ \A o \in Item \ {quest_object} : left[o] = Nil
      BY <1>2, <2>3 DEF Dropped
    <2>5. Clear /\ where' = Cleared(left) /\ Restore({c})
      BY <1>3 DEF Kill
    <2> HIDE DEF left, x
    <2>6. QED BY <1>1, <1>2, <2>2, <2>4, <2>5, Clearing
  <1>4. CASE ~Missed(c, ThiefAfter(c))
    <2>1. /\ c # quest_mob /\ where' = left /\ quest_target' = ThiefAfter(c) /\ renamed' = renamed \ {c}
          /\ UNCHANGED <<quest, auto_quest, quest_mob, quest_object, clocks>>
      BY <1>1, <1>4 DEF Kill, Missed
    <2>2. \A y \in (Person \cup Corpse) \ {c} : at[y] # Nil => at'[y] # Nil
      BY <1>1
    <2> HIDE DEF x
    <2>3. QED BY <1>1, <1>2, <2>1, <2>2, Parting
  <1>5. QED BY <1>3, <1>4

\* A corpse leaves what was in it.
LEMMA DecayKeeps == ASSUME IInv, NEW k \in Corpse, Decay(k) PROVE IInv'
  <1> USE Typing
  <1>1. UNCHANGED <<quest, quest_mob, quest_target, quest_object, timer, wait, personality, auto_quest, renamed>>
    BY DEF Decay, Untouched, pointers, clocks
  <1>2. /\ where' \in [Item -> Person \cup Room \cup Corpse \cup {Nil}]
        /\ \A o \in Item : where'[o] = IF where[o] = k THEN Temple ELSE where[o]
        /\ at' = [at EXCEPT ![k] = Nil]
    BY DEF Decay, Rotten, Dropped
  <1>3. TypeOK' /\ NamesRestored' /\ Whole'
    BY <1>1, <1>2 DEF IInv, NothingDangles, TypeOK, NamesRestored, Whole, Parties
  <1>4. Parties' \subseteq InGame'
    BY <1>1, <1>2 DEF IInv, NothingDangles, Parties, InGame
  <1>5. RightHands' /\ (\A o \in Item : where'[o] # Nil <=> where[o] # Nil)
    BY <1>1, <1>2 DEF IInv, NothingDangles, RightHands, Parties, Whole
  <1>6. quest => RoomOf(quest_object)' # Nil
    <2>1. SUFFICES ASSUME quest PROVE RoomOf(quest_object)' # Nil
      OBVIOUS
    <2>2. quest_object \in Item /\ where[quest_object] # Nil /\ RoomOf(quest_object) # Nil
      BY <2>1 DEF IInv, NothingDangles, Whole
    <2>3. CASE where[quest_object] = k
      BY <1>1, <1>2, <2>2, <2>3 DEF RoomOf
    <2>4. CASE where[quest_object] # k
      BY <1>1, <1>2, <2>2, <2>4 DEF RoomOf
    <2>5. QED BY <2>3, <2>4
  <1>7. QED BY <1>1, <1>3, <1>4, <1>5, <1>6 DEF IInv, NothingDangles

LEMMA PeopleKeeps == ASSUME IInv, Careful, People PROVE IInv'
  <1> USE Typing
  <1>1. ASSUME NEW c \in Person, NEW r \in Room, Move(c, r) \/ Appear(c, r) PROVE IInv'
    <2>1. at' = [at EXCEPT ![c] = r] /\ Untouched /\ UNCHANGED <<auto_quest, where, renamed>>
      BY <1>1 DEF Move, Appear
    <2>2. QED BY <2>1, Wandering
  <1>2. QED BY <1>1, LeaveKeeps, KillKeeps, DecayKeeps DEF People

-----------------------------------------------------------------------------
(* The theorems. *)

LEMMA Invariance == ASSUME Careful PROVE Spec => []IInv
  <1>1. Init => IInv
    <2>1. SUFFICES ASSUME Init PROVE IInv
      OBVIOUS
    <2>2. quest = FALSE /\ quest_mob = Nil /\ quest_target = Nil /\ quest_object = Nil /\ timer = 0 /\ personality = 0
      BY <2>1 DEF Init
    <2>3. wait \in Nat /\ where \in [Item -> Person \cup Room \cup Corpse \cup {Nil}] /\ timer \in 0 .. MaxTimer /\ personality \in 0 .. 3
      BY <2>1, PeopleAssumption, QuestAssumption DEF Init
    <2>4. TypeOK
      BY <2>1, <2>2, <2>3 DEF Init, TypeOK
    <2>5. NamesRestored /\ Whole /\ RightHands /\ Parties \subseteq InGame
      BY <2>1, <2>2 DEF Init, NamesRestored, Whole, RightHands, Parties
    <2>6. \A o \in Item : where[o] = Nil
      BY <2>1 DEF Init
    <2>7. QED BY <2>2, <2>4, <2>5, <2>6 DEF IInv, NothingDangles
  <1>2. IInv /\ [Next]_vars => IInv'
    <2>1. ASSUME IInv, UNCHANGED vars PROVE IInv'
      BY <2>1 DEF vars, pointers, clocks, IInv, NothingDangles, TypeOK, RightHands, Parties, InGame, RoomOf,
                  NamesRestored, Whole
    <2>2. QED BY <2>1, CommandKeeps, TickKeeps, HandleKeeps, PeopleKeeps DEF Next
  <1>3. QED BY <1>1, <1>2, PTL DEF Spec

\* No pointer of the quest outlives what it points to, whichever way somebody dies,
\* leaves or is purged, and its object is with somebody who may have it, in a corpse
\* that lies somewhere, or in a room.
THEOREM QuestNothingDangles == ASSUME Careful PROVE Spec => []NothingDangles
  <1>1. IInv => NothingDangles
    BY DEF IInv
  <1>2. QED BY <1>1, Invariance, PTL

\* Those whose descriptions the quest replaced are its parties as long as it is on, and
\* nobody once it is over.
THEOREM QuestNamesRestored == ASSUME Careful PROVE Spec => []NamesRestored
  <1>1. IInv => NamesRestored
    BY DEF IInv
  <1>2. QED BY <1>1, Invariance, PTL

-----------------------------------------------------------------------------
(* Company                                                                   *)
\* The worlds in which nothing is wrong.
Sound(x) == Solid(x) /\ Counted(x)

LEMMA CompanyConstants ==
    /\ Player \cap Mob = {} /\ Nil \notin Person /\ Nil \notin Room /\ Nil \notin Mob /\ Nil \notin Player
    /\ Player \subseteq Person /\ Mob \subseteq Person /\ Person = Player \cup Mob
    /\ Temple \in Room /\ Moribund \in Room /\ Orders \in Nat
    /\ IsFiniteSet(Person) /\ IsFiniteSet(Mob)
  <1>1. Player \subseteq Person /\ Mob \subseteq Person /\ IsFiniteSet(Person)
    BY CompanyAssumption DEF Person
  <1>2. IsFiniteSet(Mob)
    BY <1>1, FS_Subset
  <1>3. QED BY <1>1, <1>2, PeopleAssumption, CompanyAssumption DEF Person

LEMMA Fields ==
    ASSUME NEW x \in World
    PROVE  /\ x.at \in [Person -> Room \cup {Nil}] /\ x.pos \in [Person -> Position]
           /\ x.health \in [Person -> {"well", "stunned", "down"}]
           /\ x.fighting \in [Person -> Person \cup {Nil}] /\ x.master \in [Person -> Person \cup {Nil}]
           /\ x.charmed \in SUBSET Mob /\ x.orders \in [Player -> Int]
           /\ x.riding \in [Player -> Mob \cup {Nil}] /\ x.rider \in [Mob -> Player \cup {Nil}]
           /\ x.hunting \in [Person -> Person \cup {Nil}]
  BY DEF World

\* The same people are in the game.
Steady(x, y) == \A c \in Person : y.at[c] = Nil <=> x.at[c] = Nil

\* y differs from x in who fights whom, and how they stand, at most.
SameBut(x, y) ==
    /\ y.at = x.at /\ y.health = x.health /\ y.master = x.master /\ y.charmed = x.charmed
    /\ y.orders = x.orders /\ y.riding = x.riding /\ y.rider = x.rider /\ y.hunting = x.hunting

LEMMA FightChange ==
    ASSUME NEW x \in World, Sound(x), NEW y \in World, SameBut(x, y),
           \A d \in Person : y.fighting[d] # Nil => x.at[d] # Nil /\ x.at[y.fighting[d]] # Nil
    PROVE  Sound(y)
  <1> USE CompanyConstants DEF SameBut, Sound
  <1>1. Solid(y)
    BY Fields DEF Solid, Present
  <1>2. \A p \in Player : Followers(y, p) = Followers(x, p)
    BY DEF Followers
  <1>4. Counted(y)
    BY <1>2 DEF Counted
  <1>3. QED BY <1>1, <1>4

LEMMA Starting ==
    ASSUME NEW x \in World, Sound(x), NEW c \in Person, NEW v \in Person, x.at[c] # Nil, x.at[v] # Nil
    PROVE  LET y == SetFighting(x, c, v) IN y \in World /\ Sound(y) /\ SameBut(x, y)
  <1> USE CompanyConstants
  <1> DEFINE y == SetFighting(x, c, v)
  <1>1. CASE x.fighting[c] # Nil
    BY <1>1 DEF SetFighting, SameBut
  <1>2. CASE x.fighting[c] = Nil
    <2> DEFINE z == [x EXCEPT !.fighting[c] = v, !.pos[c] = "fighting"]
    <2>1. y = z
      BY <1>2 DEF SetFighting
    <2>5. z \in World /\ SameBut(x, z) /\ z.fighting = [x.fighting EXCEPT ![c] = v]
      BY DEF World, Position, SameBut
    <2>2. y \in World /\ SameBut(x, y) /\ y.fighting = [x.fighting EXCEPT ![c] = v]
      BY <2>1, <2>5, Zenon
    <2>3. \A d \in Person : y.fighting[d] # Nil => x.at[d] # Nil /\ x.at[y.fighting[d]] # Nil
      BY <2>2, Fields DEF Sound, Solid, Present
    <2>4. QED BY <2>2, <2>3, FightChange
  <1>3. QED BY <1>1, <1>2

-----------------------------------------------------------------------------
(* Who follows whom *)

\* y differs from x in who follows whom, at most.
SameButLed(x, y) ==
    /\ y.at = x.at /\ y.pos = x.pos /\ y.health = x.health /\ y.fighting = x.fighting
    /\ y.riding = x.riding /\ y.rider = x.rider /\ y.hunting = x.hunting

Led(x, p) == Followers(x, p) \cap Mob

LEMMA LedFinite == ASSUME NEW x, NEW p PROVE IsFiniteSet(Led(x, p)) /\ Cardinality(Led(x, p)) \in Nat
  BY CompanyConstants, FS_Subset, FS_CardinalityType DEF Led

LEMMA LeadChange ==
    ASSUME NEW x \in World, Sound(x), NEW y \in World, SameButLed(x, y),
           \A d \in Person : y.master[d] # Nil => x.at[d] # Nil /\ x.at[y.master[d]] # Nil
    PROVE  Solid(y)
  BY CompanyConstants, Fields DEF SameButLed, Sound, Solid, Present

LEMMA StopFollowerFields ==
    ASSUME NEW x \in World, NEW f \in Person
    PROVE  LET y == StopFollower(x, f) IN
           /\ y \in World /\ SameButLed(x, y)
           /\ y.master = [x.master EXCEPT ![f] = Nil] /\ y.charmed = x.charmed \ {f}
           /\ y.orders = [p \in Player |-> IF p = x.master[f] /\ f \in Mob THEN x.orders[p] - 1 ELSE x.orders[p]]
  <1> USE CompanyConstants
  <1> DEFINE y == StopFollower(x, f)
             ms == [x.master EXCEPT ![f] = Nil]
             ch == x.charmed \ {f}
             os == [p \in Player |-> IF p = x.master[f] /\ f \in Mob THEN x.orders[p] - 1 ELSE x.orders[p]]
  <1>1. y = [x EXCEPT !.master = ms, !.charmed = ch, !.orders = os]
    <2> DEFINE ls == [d \in Person |-> IF d = f THEN Nil ELSE x.master[d]]
    <2>1. x.master \in [Person -> Person \cup {Nil}]
      BY Fields
    <2>2. ls = ms
      BY <2>1
    <2> HIDE DEF ms, ls
    <2>3. y = [x EXCEPT !.master = ls, !.charmed = ch, !.orders = os]
      BY DEF StopFollower, World, ls
    <2>4. QED BY <2>2, <2>3
  <1>2. ms \in [Person -> Person \cup {Nil}] /\ ch \in SUBSET Mob /\ os \in [Player -> Int]
    BY Fields
  <1> HIDE DEF y, ms, ch, os
  <1>3. y \in World /\ SameButLed(x, y) /\ y.master = ms /\ y.charmed = ch /\ y.orders = os
    BY <1>1, <1>2 DEF World, SameButLed
  <1>4. QED BY <1>3 DEF y, ms, ch, os

\* f does not follow his master any more.
LEMMA OneLeaves ==
    ASSUME NEW x \in World, Sound(x), NEW f \in Person, NEW y \in World, SameButLed(x, y),
           y.master = [x.master EXCEPT ![f] = Nil], y.charmed = x.charmed \ {f},
           y.orders = [p \in Player |-> IF p = x.master[f] /\ f \in Mob THEN x.orders[p] - 1 ELSE x.orders[p]]
    PROVE  Sound(y)
  <1> USE CompanyConstants
  <1>1. Solid(y)
    <2>1. \A d \in Person : y.master[d] # Nil => x.at[d] # Nil /\ x.at[y.master[d]] # Nil
      BY Fields DEF Sound, Solid, Present
    <2>2. QED BY <2>1, LeadChange
  <1>2. ASSUME NEW p \in Player PROVE y.orders[p] = Cardinality(Led(y, p)) /\ y.orders[p] <= Orders
    <2>1. x.orders[p] = Cardinality(Led(x, p)) /\ x.orders[p] <= Orders /\ x.orders[p] \in Int
      BY Fields DEF Sound, Counted, Led
    <2>2. CASE p = x.master[f] /\ f \in Mob
      <3>1. Led(y, p) = Led(x, p) \ {f} /\ f \in Led(x, p)
        BY <2>2, Fields DEF Led, Followers
      <3>2. Cardinality(Led(y, p)) = Cardinality(Led(x, p)) - 1
        BY <3>1, LedFinite, FS_RemoveElement, ZenonT(40)
      <3>3. QED BY <2>1, <2>2, <3>2
    <2>3. CASE ~(p = x.master[f] /\ f \in Mob)
      <3>1. Led(y, p) = Led(x, p)
        BY <2>3, Fields DEF Led, Followers
      <3>2. QED BY <2>1, <2>3, <3>1
    <2>4. QED BY <2>2, <2>3
  <1>3. \A m \in y.charmed : y.master[m] \in Player
    BY Fields DEF Sound, Counted
  <1>4. QED BY <1>1, <1>2, <1>3 DEF Sound, Counted, Led

LEMMA StoppingToFollow ==
    ASSUME NEW x \in World, Sound(x), NEW f \in Person
    PROVE  LET y == StopFollower(x, f) IN
           /\ y \in World /\ Sound(y) /\ SameButLed(x, y)
           /\ y.master = [x.master EXCEPT ![f] = Nil] /\ y.charmed = x.charmed \ {f}
  BY StopFollowerFields, OneLeaves, Zenon

LEMMA Leaving ==
    ASSUME NEW x \in World, Sound(x), NEW c \in Person
    PROVE  LET y == Unfollowed(x, c) IN
           y \in World /\ Sound(y) /\ SameButLed(x, y) /\ y.master = [x.master EXCEPT ![c] = Nil]
  <1> DEFINE y == Unfollowed(x, c)
  <1>1. CASE x.master[c] = Nil
    <2>1. y = x /\ SameButLed(x, x)
      BY <1>1 DEF Unfollowed, SameButLed
    <2>2. x.master = [x.master EXCEPT ![c] = Nil]
      BY <1>1, Fields
    <2>3. QED BY <2>1, <2>2, Zenon
  <1>2. CASE x.master[c] # Nil
    <2>1. y = StopFollower(x, c)
      BY <1>2 DEF Unfollowed
    <2>2. QED BY <2>1, StoppingToFollow, Zenon
  <1>3. QED BY <1>1, <1>2

\* z is y without the followers of c.
Disbanded(y, c, z) ==
    /\ SameButLed(y, z)
    /\ z.master = [f \in Person |-> IF y.master[f] = c THEN Nil ELSE y.master[f]]
    /\ z.charmed = {m \in y.charmed : y.master[m] # c}
    /\ z.orders = [p \in Player |-> IF p = c THEN y.orders[p] - Cardinality(Led(y, c)) ELSE y.orders[p]]

LEMMA DisbandFields ==
    ASSUME NEW y \in World, NEW c \in Person
    PROVE  Disband(y, c) \in World /\ Disbanded(y, c, Disband(y, c))
  <1> USE CompanyConstants
  <1> DEFINE F == Followers(y, c)
             ms == [f \in Person |-> IF f \in F THEN Nil ELSE y.master[f]]
             ch == y.charmed \ F
             os == [p \in Player |-> IF p = c THEN y.orders[p] - Cardinality(Led(y, c)) ELSE y.orders[p]]
             z == Disband(y, c)
  <1>1. z = [y EXCEPT !.master = ms, !.charmed = ch, !.orders = os]
    BY DEF World, Disband, Led
  <1>2. ms \in [Person -> Person \cup {Nil}] /\ ch \in SUBSET Mob /\ os \in [Player -> Int]
    BY Fields, LedFinite
  <1> HIDE DEF z, ms, ch, os
  <1>3. z \in World /\ SameButLed(y, z) /\ z.master = ms /\ z.charmed = ch /\ z.orders = os
    BY <1>1, <1>2 DEF World, SameButLed
  <1>4. ms = [f \in Person |-> IF y.master[f] = c THEN Nil ELSE y.master[f]] /\ ch = {m \in y.charmed : y.master[m] # c}
    BY Fields DEF ms, ch, Followers
  <1>5. QED BY <1>3, <1>4 DEF z, os, Disbanded

LEMMA AllLeave ==
    ASSUME NEW y \in World, Sound(y), NEW c \in Person, y.master[c] = Nil,
           NEW z \in World, Disbanded(y, c, z)
    PROVE  Sound(z) /\ z.master[c] = Nil /\ \A f \in Person : z.master[f] # c
  <1> USE CompanyConstants DEF Disbanded
  <1>1. \A f \in Person : z.master[f] = IF y.master[f] = c THEN Nil ELSE y.master[f]
    OBVIOUS
  <1>2. Solid(z)
    <2>1. \A d \in Person : z.master[d] # Nil => y.at[d] # Nil /\ y.at[z.master[d]] # Nil
      BY <1>1, Fields, ZenonT(40) DEF Sound, Solid, Present
    <2>2. QED BY <2>1, LeadChange
  <1>3. ASSUME NEW p \in Player PROVE z.orders[p] = Cardinality(Led(z, p)) /\ z.orders[p] <= Orders
    <2>1. y.orders[p] = Cardinality(Led(y, p)) /\ y.orders[p] <= Orders /\ y.orders[p] \in Int
      BY SMTT(40), Fields DEF Sound, Counted, Led
    <2>2. CASE p = c
      <3>1. Led(z, p) = {}
        BY <1>1, <2>2 DEF Led, Followers
      <3>2. Cardinality(Led(z, p)) = 0
        BY <3>1, FS_EmptySet
      <3>3. QED BY <2>1, <2>2, <3>2
    <2>3. CASE p # c
      <3>1. Led(z, p) = Led(y, p)
        BY <1>1, <2>3 DEF Led, Followers
      <3>2. QED BY <2>1, <2>3, <3>1
    <2>4. QED BY <2>2, <2>3
  <1>4. \A m \in z.charmed : z.master[m] \in Player
    BY <1>1, Fields DEF Sound, Counted
  <1>5. z.master[c] = Nil /\ \A f \in Person : z.master[f] # c
    BY <1>1
  <1>6. QED BY <1>2, <1>3, <1>4, <1>5 DEF Sound, Counted, Led

LEMMA Leaderless ==
    ASSUME NEW x \in World, Sound(x), NEW c \in Person
    PROVE  LET z == DieFollower(x, c) IN
           /\ z \in World /\ Sound(z) /\ SameButLed(x, z)
           /\ z.master[c] = Nil /\ \A f \in Person : z.master[f] # c
  <1>1. PICK y \in World : y = Unfollowed(x, c) /\ Sound(y) /\ SameButLed(x, y) /\ y.master = [x.master EXCEPT ![c] = Nil]
    BY Leaving, Zenon
  <1>2. Sound(y) /\ y.master[c] = Nil
    BY <1>1, Fields
  <1>3. PICK z \in World : z = Disband(y, c) /\ Disbanded(y, c, z)
    BY DisbandFields, Zenon
  <1>4. Sound(z) /\ z.master[c] = Nil /\ \A f \in Person : z.master[f] # c
    <2>1. Disbanded(y, c, z)
      BY <1>3
    <2>2. QED BY <1>2, <2>1, AllLeave
  <1>5. SameButLed(x, z)
    BY <1>1, <1>3 DEF SameButLed, Disbanded
  <1>6. DieFollower(x, c) = z
    BY <1>1, <1>3 DEF DieFollower
  <1>7. QED BY <1>4, <1>5, <1>6, Zenon

-----------------------------------------------------------------------------
(* Fights, hunts and mounts that end *)

\* Some of the pointers of x are cleared in y.
Fewer(x, y) ==
    /\ y.at = x.at /\ y.master = x.master /\ y.charmed = x.charmed /\ y.orders = x.orders
    /\ \A d \in Person : y.fighting[d] \in {x.fighting[d], Nil} /\ y.hunting[d] \in {x.hunting[d], Nil}
    /\ \A p \in Player : y.riding[p] \in {x.riding[p], Nil}
    /\ \A m \in Mob : y.rider[m] \in {x.rider[m], Nil}

LEMMA FewerSound == ASSUME NEW x \in World, NEW y \in World, Sound(x), Fewer(x, y) PROVE Sound(y)
  <1> USE CompanyConstants DEF Fewer
  <1>1. Solid(y)
    BY Fields DEF Sound, Solid, Present
  <1>2. \A p \in Player : Followers(y, p) = Followers(x, p)
    BY DEF Followers
  <1>3. Counted(y)
    BY <1>2 DEF Sound, Counted
  <1>4. QED BY <1>1, <1>3 DEF Sound

LEMMA FewerTwice == ASSUME NEW x, NEW y, NEW z, Fewer(x, y), Fewer(y, z) PROVE Fewer(x, z)
  BY DEF Fewer

\* Nobody fights c, hunts him or rides with him.
Unfought(x, c) == x.fighting[c] = Nil /\ \A d \in Person : x.fighting[d] # c
Unhunted(x, c) == \A d \in Person : x.hunting[d] # c
Alone(x, c) == (\A p \in Player : x.riding[p] # c) /\ (\A m \in Mob : x.rider[m] # c) /\ (c \in Player => x.riding[c] = Nil)

LEMMA FightEnds ==
    ASSUME NEW x \in World, NEW c \in Person, NEW both \in BOOLEAN
    PROVE  LET y == StopFighting(x, c, both) IN
           y \in World /\ Fewer(x, y) /\ SameBut(x, y) /\ y.fighting[c] = Nil /\ (both => Unfought(y, c))
  <1> USE CompanyConstants
  <1> DEFINE y == StopFighting(x, c, both)
             S == {c} \cup (IF both THEN Enemies(x, c) ELSE {})
             fg == [f \in Person |-> IF f \in S THEN Nil ELSE x.fighting[f]]
             ps == [f \in Person |-> IF f \in S THEN Stand(x, f) ELSE x.pos[f]]
  <1>1. y = [x EXCEPT !.fighting = fg, !.pos = ps]
    BY DEF StopFighting, World
  <1>2. fg \in [Person -> Person \cup {Nil}]
    BY DEF World
  <1>3. ps \in [Person -> Position]
    BY DEF World, Stand, Position
  <1> HIDE DEF fg, ps, y
  <1>4. y \in World /\ SameBut(x, y) /\ y.fighting = fg
    BY <1>1, <1>2, <1>3 DEF World, SameBut
  <1>5. \A d \in Person : fg[d] \in {x.fighting[d], Nil}
    BY DEF fg
  <1>6. fg[c] = Nil /\ (both => \A d \in Person : fg[d] # c)
    BY DEF fg, Enemies
  <1>7. Fewer(x, y) /\ (both => Unfought(y, c))
    BY <1>4, <1>5, <1>6 DEF Fewer, SameBut, Unfought
  <1>8. QED BY <1>4, <1>6, <1>7 DEF y

LEMMA HuntsEnd ==
    ASSUME NEW x \in World, NEW c \in Person
    PROVE  LET y == EndHunts(x, c) IN
           y \in World /\ Fewer(x, y) /\ Unhunted(y, c) /\ y.fighting = x.fighting /\ y.riding = x.riding /\ y.rider = x.rider
  <1> USE CompanyConstants
  <1> DEFINE y == EndHunts(x, c)
             h == [f \in Person |-> IF x.hunting[f] = c THEN Nil ELSE x.hunting[f]]
  <1>1. y = [x EXCEPT !.hunting = h]
    BY DEF World, EndHunts
  <1>2. h \in [Person -> Person \cup {Nil}]
    BY Fields
  <1> HIDE DEF y, h
  <1>3. /\ y \in World /\ y.hunting = h /\ y.at = x.at /\ y.master = x.master /\ y.charmed = x.charmed /\ y.orders = x.orders
        /\ y.fighting = x.fighting /\ y.riding = x.riding /\ y.rider = x.rider
    BY <1>1, <1>2 DEF World
  <1>4. (\A d \in Person : h[d] \in {x.hunting[d], Nil}) /\ \A d \in Person : h[d] # c
    BY DEF h
  <1>5. Fewer(x, y) /\ Unhunted(y, c)
    BY <1>3, <1>4 DEF Fewer, Unhunted
  <1>6. QED BY <1>3, <1>5 DEF y

LEMMA Dismounting ==
    ASSUME NEW x \in World, NEW c \in Player, x.riding[c] # Nil
    PROVE  LET y == Dismounted(x, c) IN y \in World /\ Fewer(x, y) /\ y.fighting = x.fighting
  <1> USE CompanyConstants
  <1> DEFINE y == Dismounted(x, c)
             rg == [x.riding EXCEPT ![c] = Nil]
             rd == [x.rider EXCEPT ![x.riding[c]] = Nil]
             ps == [x.pos EXCEPT ![c] = IF x.pos[c] = "fighting" THEN x.pos[c] ELSE "standing"]
  <1>1. y = [x EXCEPT !.riding = rg, !.rider = rd, !.pos = ps]
    BY DEF World, Dismounted
  <1>2. rg \in [Player -> Mob \cup {Nil}] /\ rd \in [Mob -> Player \cup {Nil}] /\ ps \in [Person -> Position]
    BY Fields DEF Position
  <1>3. (\A p \in Player : rg[p] \in {x.riding[p], Nil}) /\ \A m \in Mob : rd[m] \in {x.rider[m], Nil}
    BY Fields
  <1> HIDE DEF y, rg, rd, ps
  <1>4. /\ y \in World /\ y.hunting = x.hunting /\ y.at = x.at /\ y.master = x.master /\ y.charmed = x.charmed /\ y.orders = x.orders
        /\ y.fighting = x.fighting /\ y.riding = rg /\ y.rider = rd
    BY <1>1, <1>2 DEF World
  <1>5. Fewer(x, y)
    BY <1>3, <1>4 DEF Fewer
  <1>6. QED BY <1>4, <1>5 DEF y

LEMMA Unhorsing ==
    ASSUME NEW x \in World, NEW c \in Person
    PROVE  LET y == Unhorsed(x, c) IN y \in World /\ Fewer(x, y) /\ Alone(y, c) /\ y.fighting = x.fighting /\ y.hunting = x.hunting
  <1> USE CompanyConstants
  <1> DEFINE y == Unhorsed(x, c)
             rg == [p \in Player |-> IF x.riding[p] = c \/ p = c THEN Nil ELSE x.riding[p]]
             rd == [m \in Mob |-> IF x.rider[m] = c THEN Nil ELSE x.rider[m]]
  <1>1. y = [x EXCEPT !.riding = rg, !.rider = rd]
    BY DEF World, Unhorsed
  <1>2. rg \in [Player -> Mob \cup {Nil}] /\ rd \in [Mob -> Player \cup {Nil}]
    BY Fields
  <1>3. /\ \A p \in Player : rg[p] \in {x.riding[p], Nil} /\ rg[p] # c /\ (p = c => rg[p] = Nil)
        /\ \A m \in Mob : rd[m] \in {x.rider[m], Nil} /\ rd[m] # c
    OBVIOUS
  <1> HIDE DEF y, rg, rd
  <1>4. /\ y \in World /\ y.hunting = x.hunting /\ y.at = x.at /\ y.master = x.master /\ y.charmed = x.charmed /\ y.orders = x.orders
        /\ y.fighting = x.fighting /\ y.riding = rg /\ y.rider = rd
    BY <1>1, <1>2 DEF World
  <1>5. Fewer(x, y) /\ Alone(y, c)
    BY <1>3, <1>4 DEF Fewer, Alone
  <1>6. QED BY <1>4, <1>5 DEF y

LEMMA Throwing ==
    ASSUME NEW x \in World, NEW c \in Person
    PROVE  LET y == Thrown(x, c) IN y \in World /\ Fewer(x, y) /\ y.fighting = x.fighting
  <1>1. CASE \E p \in Player : x.riding[p] = c
    <2> DEFINE p == CHOOSE p \in Player : x.riding[p] = c
    <2>1. p \in Player /\ x.riding[p] # Nil
      BY <1>1, CompanyConstants
    <2>2. Thrown(x, c) = Dismounted(x, p)
      BY <1>1 DEF Thrown
    <2> HIDE DEF p
    <2>3. QED BY <2>1, <2>2, Dismounting, Zenon
  <1>2. CASE ~ \E p \in Player : x.riding[p] = c
    BY <1>2 DEF Thrown, Fewer
  <1>3. QED BY <1>1, <1>2

\* What of others extract_char clears.
LEMMA Forgetting ==
    ASSUME NEW x \in World, NEW c \in Person
    PROVE  LET y == Forgotten(x, c) IN
           y \in World /\ Fewer(x, y) /\ Unhunted(y, c) /\ Alone(y, c) /\ y.fighting = x.fighting
  <1>1. PICK u \in World : u = Thrown(x, c) /\ Fewer(x, u) /\ u.fighting = x.fighting
    BY Throwing, Zenon
  <1>2. PICK v \in World : v = EndHunts(u, c) /\ Fewer(u, v) /\ Unhunted(v, c) /\ v.fighting = u.fighting
    BY HuntsEnd, Zenon
  <1>3. PICK y \in World : y = Unhorsed(v, c) /\ Fewer(v, y) /\ Alone(y, c) /\ y.fighting = v.fighting /\ y.hunting = v.hunting
    BY Unhorsing, Zenon
  <1>4. Fewer(x, v) /\ Fewer(x, y)
    BY <1>1, <1>2, <1>3, FewerTwice
  <1>5. Unhunted(y, c) /\ y.fighting = x.fighting
    BY <1>1, <1>2, <1>3 DEF Unhunted
  <1>6. Forgotten(x, c) = y
    BY <1>1, <1>2, <1>3 DEF Forgotten
  <1>7. QED BY <1>3, <1>4, <1>5, <1>6, Zenon

-----------------------------------------------------------------------------
(* Who comes, goes and dies *)

\* y differs from x in where people are, at most.
SameButAt(x, y) ==
    /\ y.pos = x.pos /\ y.health = x.health /\ y.fighting = x.fighting /\ y.master = x.master /\ y.charmed = x.charmed
    /\ y.orders = x.orders /\ y.riding = x.riding /\ y.rider = x.rider /\ y.hunting = x.hunting

LEMMA Setting ==
    ASSUME NEW x \in World, NEW c \in Person, NEW r \in Room \cup {Nil}
    PROVE  LET y == SetAt(x, c, r) IN y \in World /\ SameButAt(x, y) /\ y.at = [x.at EXCEPT ![c] = r]
  BY CompanyConstants DEF World, SetAt, SameButAt

LEMMA MoveChange ==
    ASSUME NEW x \in World, NEW y \in World, Sound(x), SameButAt(x, y), Steady(x, y)
    PROVE  Sound(y)
  <1> USE CompanyConstants DEF SameButAt, Steady
  <1>1. Solid(y)
    BY Fields DEF Sound, Solid, Present
  <1>2. \A p \in Player : Followers(y, p) = Followers(x, p)
    BY DEF Followers
  <1>3. Counted(y)
    BY <1>2 DEF Sound, Counted
  <1>4. QED BY <1>1, <1>3 DEF Sound

LEMMA SteadyTwice == ASSUME NEW x, NEW y, NEW z, Steady(x, y), Steady(y, z) PROVE Steady(x, z)
  BY DEF Steady

LEMMA FewerSteady == ASSUME NEW x, NEW y, Fewer(x, y) PROVE Steady(x, y)
  BY DEF Fewer, Steady

LEMMA Disengaging ==
    ASSUME NEW x \in World, Sound(x), NEW c \in Person
    PROVE  LET y == Disengaged(x, c) IN y \in World /\ Sound(y) /\ SameBut(x, y)
  <1>1. CASE x.fighting[c] # Nil
    <2>1. Disengaged(x, c) = StopFighting(x, c, TRUE)
      BY <1>1 DEF Disengaged
    <2>2. PICK y \in World : y = StopFighting(x, c, TRUE) /\ Fewer(x, y) /\ SameBut(x, y)
      BY FightEnds, TRUE \in BOOLEAN, Zenon
    <2>3. Sound(y)
      BY <2>2, FewerSound, Zenon
    <2>4. QED BY <2>1, <2>2, <2>3, Zenon
  <1>2. CASE x.fighting[c] = Nil
    BY <1>2 DEF Disengaged, SameBut
  <1>3. QED BY <1>1, <1>2

LEMMA Placing ==
    ASSUME NEW x \in World, Sound(x), NEW c \in Person, x.at[c] # Nil, NEW r \in Room
    PROVE  LET y == Placed(x, c, r) IN y \in World /\ Sound(y) /\ Steady(x, y) /\ y.riding = x.riding /\ y.at = [x.at EXCEPT ![c] = r]
  <1>1. PICK u \in World : u = Disengaged(x, c) /\ Sound(u) /\ SameBut(x, u)
    BY Disengaging, Zenon
  <1>2. r \in Room \cup {Nil}
    OBVIOUS
  <1>3. PICK y \in World : y = SetAt(u, c, r) /\ SameButAt(u, y) /\ y.at = [u.at EXCEPT ![c] = r]
    BY <1>2, Setting
  <1>4. u.at = x.at /\ u.riding = x.riding /\ y.riding = x.riding /\ y.at = [x.at EXCEPT ![c] = r]
    BY <1>1, <1>3 DEF SameBut, SameButAt
  <1>5. Steady(x, y) /\ Steady(u, y)
    BY <1>4, Fields, CompanyConstants DEF Steady
  <1>6. Sound(u) /\ SameButAt(u, y)
    BY <1>1, <1>3
  <1>7. Sound(y)
    BY <1>5, <1>6, MoveChange
  <1>8. y = Placed(x, c, r)
    BY <1>1, <1>3 DEF Placed
  <1>9. QED BY <1>4, <1>5, <1>7, <1>8

LEMMA Shifting ==
    ASSUME NEW x \in World, Sound(x), NEW c \in Person, x.at[c] # Nil, NEW r \in Room
    PROVE  LET y == Shift(x, c, r) IN y \in World /\ Sound(y) /\ Steady(x, y)
  <1>1. PICK u \in World : u = Placed(x, c, r) /\ Sound(u) /\ Steady(x, u)
    BY Placing, Zenon
  <1>2. PICK y \in World : y = Followed(u, c, r) /\ Sound(y) /\ Steady(u, y)
    <2>1. CASE Mounted(u, c, r)
      <3> DEFINE m == u.riding[c]
      <3>1. m \in Person /\ u.at[m] # Nil /\ Followed(u, c, r) = Placed(u, m, r)
        BY <2>1, Fields, CompanyConstants DEF Mounted, Followed
      <3> HIDE DEF m
      <3>2. Placed(u, m, r) \in World /\ Sound(Placed(u, m, r)) /\ Steady(u, Placed(u, m, r))
        BY <1>1, <3>1, Placing, Zenon
      <3>3. QED BY <3>1, <3>2, Zenon
    <2>2. CASE ~Mounted(u, c, r)
      BY <1>1, <2>2 DEF Followed, Steady
    <2>3. QED BY <2>1, <2>2
  <1>3. Shift(x, c, r) = y
    BY <1>1, <1>2 DEF Shift
  <1>4. Steady(x, y)
    BY <1>1, <1>2, SteadyTwice
  <1>5. QED BY <1>2, <1>3, <1>4, Zenon

\* Nothing is left of c, whom nobody points to.
Nothing(x, c, y) ==
    /\ y.at = [x.at EXCEPT ![c] = Nil] /\ y.fighting = x.fighting /\ y.master = x.master
    /\ y.hunting = [x.hunting EXCEPT ![c] = Nil] /\ y.charmed = x.charmed \ {c}
    /\ y.riding = x.riding /\ y.rider = [m \in Mob |-> IF m = c THEN Nil ELSE x.rider[m]]
    /\ y.orders = [p \in Player |-> IF p = c THEN 0 ELSE x.orders[p]]

LEMMA Freshening ==
    ASSUME NEW x \in World, NEW c \in Person
    PROVE  Fresh(x, c) \in World /\ Nothing(x, c, Fresh(x, c))
  <1> USE CompanyConstants
  <1> DEFINE y == Fresh(x, c)
             pl == [x.at EXCEPT ![c] = Nil]
             ps == [x.pos EXCEPT ![c] = "standing"]
             hl == [x.health EXCEPT ![c] = "well"]
             hn == [x.hunting EXCEPT ![c] = Nil]
             ch == x.charmed \ {c}
             rd == [m \in Mob |-> IF m = c THEN Nil ELSE x.rider[m]]
             os == [p \in Player |-> IF p = c THEN 0 ELSE x.orders[p]]
  <1>1. y = [x EXCEPT !.at = pl, !.pos = ps, !.health = hl, !.hunting = hn, !.charmed = ch, !.rider = rd, !.orders = os]
    BY DEF World, Fresh
  <1>2. /\ pl \in [Person -> Room \cup {Nil}] /\ ps \in [Person -> Position] /\ hl \in [Person -> {"well", "stunned", "down"}]
        /\ hn \in [Person -> Person \cup {Nil}] /\ ch \in SUBSET Mob /\ rd \in [Mob -> Player \cup {Nil}] /\ os \in [Player -> Int]
    BY Fields DEF Position
  <1> HIDE DEF y, pl, ps, hl, hn, ch, rd, os
  <1>3. /\ y \in World /\ y.at = pl /\ y.fighting = x.fighting /\ y.master = x.master /\ y.hunting = hn /\ y.charmed = ch
        /\ y.riding = x.riding /\ y.rider = rd /\ y.orders = os
    BY <1>1, <1>2 DEF World
  <1>4. QED BY <1>3 DEF y, pl, ps, hl, hn, ch, rd, os, Nothing

\* c leaves x, where nobody follows or fights him, and nothing is left.
LEMMA Departing ==
    ASSUME NEW x \in World, Sound(x), NEW c \in Person, x.master[c] = Nil, \A f \in Person : x.master[f] # c, Unfought(x, c),
           NEW u \in World, SameButAt(x, u), u.at = [x.at EXCEPT ![c] = Nil],
           NEW v \in World, Fewer(u, v), Unhunted(v, c), Alone(v, c), v.fighting = u.fighting,
           NEW y \in World, Nothing(v, c, y)
    PROVE  Sound(y)
  <1> USE CompanyConstants
  <1>1. y.at = [x.at EXCEPT ![c] = Nil] /\ y.master = x.master /\ y.fighting = x.fighting /\ y.charmed = x.charmed \ {c}
        /\ y.orders = [p \in Player |-> IF p = c THEN 0 ELSE x.orders[p]]
    <2>1. v.at = [x.at EXCEPT ![c] = Nil] /\ v.master = x.master /\ v.fighting = x.fighting /\ v.charmed = x.charmed /\ v.orders = x.orders
      BY DEF Fewer, SameButAt
    <2>2. y.at = [v.at EXCEPT ![c] = Nil] /\ y.master = v.master /\ y.fighting = v.fighting /\ y.charmed = v.charmed \ {c}
          /\ y.orders = [p \in Player |-> IF p = c THEN 0 ELSE v.orders[p]]
      BY DEF Nothing
    <2>3. QED BY <2>1, <2>2, Fields
  <1>2. \A d \in Person : y.hunting[d] \in {x.hunting[d], Nil} /\ y.hunting[d] # c /\ y.hunting[c] = Nil
    <2>1. \A d \in Person : v.hunting[d] \in {x.hunting[d], Nil} /\ v.hunting[d] # c
      BY DEF Fewer, SameButAt, Unhunted
    <2>2. y.hunting = [v.hunting EXCEPT ![c] = Nil]
      BY DEF Nothing
    <2>3. QED BY <2>1, <2>2, Fields
  <1>3. /\ \A p \in Player : y.riding[p] \in {x.riding[p], Nil} /\ y.riding[p] # c
        /\ \A m \in Mob : y.rider[m] \in {x.rider[m], Nil} /\ y.rider[m] # c
    <2>1. /\ \A p \in Player : v.riding[p] \in {x.riding[p], Nil} /\ v.riding[p] # c
          /\ \A m \in Mob : v.rider[m] \in {x.rider[m], Nil} /\ v.rider[m] # c
      BY DEF Fewer, SameButAt, Alone
    <2>2. y.riding = v.riding /\ y.rider = [m \in Mob |-> IF m = c THEN Nil ELSE v.rider[m]]
      BY DEF Nothing
    <2>3. QED BY <2>1, <2>2
  <1>4. Solid(y)
    BY <1>1, <1>2, <1>3, Fields DEF Sound, Solid, Present, Unfought
  <1>5. ASSUME NEW p \in Player PROVE y.orders[p] = Cardinality(Led(y, p)) /\ y.orders[p] <= Orders
    <2>1. Led(y, p) = Led(x, p)
      BY <1>1 DEF Led, Followers
    <2>2. x.orders[p] = Cardinality(Led(x, p)) /\ x.orders[p] <= Orders
      BY DEF Sound, Counted, Led
    <2>3. CASE p = c
      <3>1. Led(x, p) = {}
        BY <2>3 DEF Led, Followers
      <3>2. QED BY <1>1, <2>1, <2>3, <3>1, FS_EmptySet
    <2>4. CASE p # c
      BY <1>1, <2>1, <2>2, <2>4
    <2>5. QED BY <2>3, <2>4
  <1>6. \A m \in y.charmed : y.master[m] \in Player
    BY <1>1 DEF Sound, Counted
  <1>7. QED BY <1>4, <1>5, <1>6 DEF Sound, Counted, Led

Sane == {x \in World : Sound(x)}

\* One of those who are in the game in x.
LEMMA PointersEnd ==
    ASSUME NEW x \in World, NEW y \in World, Sound(x), Fewer(x, y)
    PROVE  y \in Sane /\ Steady(x, y)
  BY FewerSound, FewerSteady, Zenon DEF Sane

LEMMA Extracting ==
    ASSUME NEW x \in World, Sound(x), NEW c \in Person
    PROVE  Extract(x, c) \in Sane /\ Extract(x, c).at = [x.at EXCEPT ![c] = Nil]
  <1>1. PICK a \in World : /\ a = DieFollower(x, c) /\ Sound(a) /\ SameButLed(x, a)
                           /\ a.master[c] = Nil /\ \A f \in Person : a.master[f] # c
    BY Leaderless, Zenon
  <1>2. PICK b \in World : b = StopFighting(a, c, TRUE) /\ Fewer(a, b) /\ SameBut(a, b) /\ Unfought(b, c)
    <2>1. TRUE \in BOOLEAN
      OBVIOUS
    <2>2. QED BY <2>1, FightEnds, Zenon
  <1>3. Nil \in Room \cup {Nil}
    OBVIOUS
  <1>4. PICK u \in World : u = SetAt(b, c, Nil) /\ SameButAt(b, u) /\ u.at = [b.at EXCEPT ![c] = Nil]
    BY <1>3, Setting
  <1>5. PICK v \in World : v = Forgotten(u, c) /\ Fewer(u, v) /\ Unhunted(v, c) /\ Alone(v, c) /\ v.fighting = u.fighting
    BY Forgetting, Zenon
  <1>6. PICK y \in World : y = Fresh(v, c) /\ Nothing(v, c, y)
    BY Freshening, Zenon
  <1>7. Sound(b)
    BY <1>1, <1>2, FewerSound, Zenon
  <1>8. b.master[c] = Nil /\ \A f \in Person : b.master[f] # c
    BY <1>1, <1>2 DEF SameBut
  <1>9. Unfought(b, c) /\ SameButAt(b, u) /\ u.at = [b.at EXCEPT ![c] = Nil]
    BY <1>2, <1>4
  <1>10. Fewer(u, v) /\ Unhunted(v, c) /\ Alone(v, c) /\ v.fighting = u.fighting /\ Nothing(v, c, y)
    BY <1>5, <1>6
  <1>11. Sound(y)
    BY <1>7, <1>8, <1>9, <1>10, Departing
  <1>12. y.at = [x.at EXCEPT ![c] = Nil]
    <2>1. b.at = x.at
      BY <1>1, <1>2 DEF SameBut, SameButLed
    <2>2. v.at = [x.at EXCEPT ![c] = Nil]
      BY <1>9, <1>10, <2>1 DEF Fewer
    <2>3. y.at = [v.at EXCEPT ![c] = Nil]
      BY <1>10 DEF Nothing
    <2>4. QED BY <2>2, <2>3, Fields
  <1>13. Extract(x, c) = y
    BY <1>1, <1>2, <1>4, <1>5, <1>6 DEF Extract
  <1>14. y \in Sane
    BY <1>11 DEF Sane
  <1>15. QED BY <1>12, <1>13, <1>14

\* y differs from x in how people stand and how they are, at most.
Alike(x, y) ==
    /\ y.at = x.at /\ y.fighting = x.fighting /\ y.master = x.master /\ y.charmed = x.charmed
    /\ y.orders = x.orders /\ y.riding = x.riding /\ y.rider = x.rider /\ y.hunting = x.hunting

LEMMA AlikeSane == ASSUME NEW x \in World, NEW y \in World, Sound(x), Alike(x, y) PROVE y \in Sane /\ Steady(x, y)
  <1>1. Fewer(x, y)
    BY DEF Alike, Fewer
  <1>2. QED BY <1>1, PointersEnd, Zenon

LEMMA Posing ==
    ASSUME NEW x \in World, NEW c \in Person, NEW p \in Position
    PROVE  [x EXCEPT !.pos[c] = p] \in World /\ Alike(x, [x EXCEPT !.pos[c] = p])
  BY DEF World, Alike

LEMMA Ailing ==
    ASSUME NEW x \in World, NEW c \in Person, NEW h \in {"well", "stunned", "down"}
    PROVE  [x EXCEPT !.health[c] = h] \in World /\ Alike(x, [x EXCEPT !.health[c] = h])
  BY DEF World, Alike

LEMMA Reviving ==
    ASSUME NEW x \in World, NEW c \in Person
    PROVE  Revived(x, c) \in World /\ Alike(x, Revived(x, c))
  BY DEF World, Alike, Revived, Position

LEMMA Killing ==
    ASSUME NEW x \in World, Sound(x), NEW c \in Person, x.at[c] # Nil
    PROVE  RawKill(x, c) \in Sane
  <1>1. TRUE \in BOOLEAN
    OBVIOUS
  <1>2. PICK u \in World : u = StopFighting(x, c, TRUE) /\ Fewer(x, u)
    BY <1>1, FightEnds, Zenon
  <1>3. PICK y \in World : y = EndHunts(u, c) /\ Fewer(u, y)
    BY HuntsEnd, Zenon
  <1>4. Sound(y) /\ y.at = x.at
    <2>1. Fewer(x, y)
      BY <1>2, <1>3, FewerTwice
    <2>2. QED BY <2>1, FewerSound DEF Fewer
  <1>5. RawKill(x, c) = IF c \in Mob THEN Extract(y, c) ELSE Revived(Shift(y, c, Moribund), c)
    BY <1>2, <1>3 DEF RawKill
  <1>6. CASE c \in Mob
    BY <1>4, <1>5, <1>6, Extracting, Zenon
  <1>7. CASE c \notin Mob
    <2>1. y.at[c] # Nil /\ Moribund \in Room
      BY <1>4, CompanyConstants
    <2>2. PICK z \in World : z = Shift(y, c, Moribund) /\ Sound(z)
      BY <1>4, <2>1, Shifting, Zenon
    <2>3. Revived(z, c) \in World /\ Alike(z, Revived(z, c))
      BY Reviving, Zenon
    <2>4. Revived(z, c) \in Sane
      BY <2>2, <2>3, AlikeSane, Zenon
    <2>5. QED BY <1>5, <1>7, <2>2, <2>4
  <1>8. QED BY <1>6, <1>7

-----------------------------------------------------------------------------
(* One after the other *)

LEMMA Counting ==
    ASSUME NEW n \in Nat, NEW K, 0 \in K, \A k \in 1 .. n : k - 1 \in K => k \in K
    PROVE  0 .. n \subseteq K
  <1> DEFINE R == {ss \in Nat \X Nat : ss[1] < ss[2]}
             S == (0 .. n) \ K
  <1>1. IsWellFoundedOn(R, Nat)
    BY NatLessThanWellFounded DEF OpToRel
  <1>2. SUFFICES ASSUME S # {} PROVE FALSE
    OBVIOUS
  <1>3. ASSUME NEW k \in Nat PROVE <<k, k + 1>> \in R
    <2>1. <<k, k + 1>> \in Nat \X Nat /\ <<k, k + 1>>[1] = k /\ <<k, k + 1>>[2] = k + 1
      OBVIOUS
    <2>2. <<k, k + 1>>[1] < <<k, k + 1>>[2]
      BY <2>1
    <2>3. QED BY <2>1, <2>2, Zenon
  <1> HIDE DEF R
  <1>4. S \in SUBSET Nat
    OBVIOUS
  <1> HIDE DEF S
  <1>5. PICK m \in S : \A k \in S : ~(<<k, m>> \in R)
    BY <1>1, <1>2, <1>4, WFMin
  <1>6. m \in 1 .. n /\ m \notin K /\ m - 1 \in Nat /\ m - 1 \in 0 .. n /\ (m - 1) + 1 = m
    BY DEF S
  <1>7. m - 1 \in S
    BY <1>6 DEF S
  <1>8. <<m - 1, m>> \in R
    BY <1>3, <1>6
  <1>9. QED BY <1>5, <1>7, <1>8

LEMMA Sequence ==
    ASSUME NEW C, IsFiniteSet(C)
    PROVE  Cardinality(C) \in Nat /\ \A i \in 1 .. Cardinality(C) : SetToSeq(C)[i] \in C
  <1> DEFINE n == Cardinality(C)
  <1>1. n \in Nat /\ ExistsBijection(1 .. n, C)
    BY FS_CardinalityType
  <1>2. \E f \in [1 .. n -> C] : IsInjective(f)
    BY <1>1, Zenon DEF ExistsBijection, Bijection, Injection, IsInjective
  <1>3. SetToSeq(C) \in [1 .. n -> C]
    BY <1>2 DEF SetToSeq
  <1>4. QED BY <1>1, <1>3

\* The worlds on the way, one for everybody who comes.
LEMMA OnTheWay ==
    ASSUME NEW x, NEW q, NEW r, NEW n \in Nat
    PROVE  \E f : f = [i \in 0 .. n |-> IF i = 0 THEN x ELSE Shift(f[i - 1], q[i], r)]
  <1> DEFINE Is(f, k) == f = [i \in 0 .. k |-> IF i = 0 THEN x ELSE Shift(f[i - 1], q[i], r)]
             K == {k \in 0 .. n : \E f : Is(f, k)}
  <1>1. 0 \in K
    <2>1. Is([i \in 0 .. 0 |-> x], 0)
      OBVIOUS
    <2>2. \E f : Is(f, 0)
      BY <2>1, Zenon
    <2>3. QED BY <2>2
  <1>2. ASSUME NEW k \in 1 .. n, k - 1 \in K PROVE k \in K
    <2>1. PICK f : Is(f, k - 1)
      BY <1>2
    <2> DEFINE g == [i \in 0 .. k |-> IF i <= k - 1 THEN f[i] ELSE Shift(f[k - 1], q[k], r)]
    <2>2. ASSUME NEW i \in 0 .. k PROVE g[i] = IF i = 0 THEN x ELSE Shift(g[i - 1], q[i], r)
      <3>1. CASE i = 0
        BY <2>1, <3>1
      <3>2. CASE i \in 1 .. k - 1
        BY <2>1, <3>2
      <3>3. CASE i = k
        BY <3>3
      <3>4. QED BY <3>1, <3>2, <3>3
    <2>3. Is(g, k)
      BY <2>2
    <2> HIDE DEF g
    <2>4. \E h : Is(h, k)
      BY <2>3, Zenon
    <2>5. k \in 0 .. n
      OBVIOUS
    <2>6. QED BY <2>4, <2>5
  <1> HIDE DEF K
  <1>3. 0 .. n \subseteq K
    BY <1>1, <1>2, Counting
  <1>4. n \in K
    BY <1>3
  <1>5. QED BY <1>4 DEF K

LEMMA ShiftingAll ==
    ASSUME NEW x \in World, Sound(x), NEW C \in SUBSET Present(x), NEW r \in Room
    PROVE  LET y == ShiftAll(x, C, r) IN y \in World /\ Sound(y) /\ Steady(x, y)
  <1> DEFINE q == SetToSeq(C)
             n == Cardinality(C)
             came == CHOOSE f : f = [i \in 0 .. n |-> IF i = 0 THEN x ELSE Shift(f[i - 1], q[i], r)]
             K == {k \in 0 .. n : came[k] \in World /\ Sound(came[k]) /\ Steady(x, came[k])}
  <1>1. ShiftAll(x, C, r) = came[n]
    BY DEF ShiftAll
  <1>2. IsFiniteSet(C)
    BY CompanyConstants, FS_Subset DEF Present
  <1>3. n \in Nat /\ \A i \in 1 .. n : q[i] \in Person /\ x.at[q[i]] # Nil
    BY <1>2, Sequence DEF Present
  <1> HIDE DEF q, n
  <1>4. came = [i \in 0 .. n |-> IF i = 0 THEN x ELSE Shift(came[i - 1], q[i], r)]
    BY <1>3, OnTheWay, SMTT(30)
  <1> HIDE DEF came
  <1>5. 0 \in K
    BY <1>3, <1>4 DEF Steady
  <1>6. ASSUME NEW k \in 1 .. n, k - 1 \in K PROVE k \in K
    <2>1. PICK y \in World : y = came[k - 1] /\ Sound(y) /\ Steady(x, y)
      BY <1>6
    <2>2. q[k] \in Person /\ y.at[q[k]] # Nil
      BY <1>3, <2>1 DEF Steady
    <2>3. PICK z \in World : z = Shift(y, q[k], r) /\ Sound(z) /\ Steady(y, z)
      BY <2>1, <2>2, Shifting, Zenon
    <2>4. came[k] = z
      <3>1. k \in 0 .. n /\ k # 0
        BY <1>3
      <3>2. QED BY <1>4, <2>1, <2>3, <3>1
    <2>5. Steady(x, z)
      BY <2>1, <2>3, SteadyTwice
    <2>6. k \in 0 .. n
      BY <1>3
    <2>7. QED BY <2>3, <2>4, <2>5, <2>6
  <1> HIDE DEF K
  <1>7. 0 .. n \subseteq K
    BY <1>3, <1>5, <1>6, Counting
  <1>8. n \in K
    BY <1>3, <1>7
  <1>9. QED BY <1>1, <1>8 DEF K

\* Whoever comes along is there.
LEMMA Coming ==
    ASSUME NEW x, NEW c \in Person, NEW r, NEW S \in SUBSET Person,
           c \in S, \A m \in S, d \in Person : x.at[d] # Nil => d \in S
    PROVE  Party(x, c, r) \subseteq S
  BY DEF Party, Follows, Together

LEMMA Partying ==
    ASSUME NEW x, NEW c \in Person, x.at[c] # Nil, NEW r
    PROVE  Party(x, c, r) \subseteq Present(x)
  BY Coming DEF Present

LEMMA Moving ==
    ASSUME NEW x \in World, Sound(x), NEW c \in Person, x.at[c] # Nil, NEW r \in Room
    PROVE  LET y == MoveChar(x, c, r) IN y \in World /\ Sound(y) /\ Steady(x, y)
  <1>1. CASE CanGo(x, c, r)
    <2>1. PICK u \in World : u = Shift(x, c, r) /\ Sound(u) /\ Steady(x, u)
      BY Shifting, Zenon
    <2> DEFINE C == Party(x, c, r) \ {c}
    <2>2. C \in SUBSET Present(u)
      BY <2>1, Partying DEF Steady, Present
    <2>3. PICK y \in World : y = ShiftAll(u, C, r) /\ Sound(y) /\ Steady(u, y)
      BY <2>1, <2>2, ShiftingAll, Zenon
    <2>4. Steady(x, y)
      BY <2>1, <2>3, SteadyTwice
    <2>5. MoveChar(x, c, r) = y
      BY <1>1, <2>1, <2>3 DEF MoveChar
    <2>6. QED BY <2>3, <2>4, <2>5
  <1>2. CASE ~CanGo(x, c, r)
    BY <1>2 DEF MoveChar, Steady
  <1>3. QED BY <1>1, <1>2

-----------------------------------------------------------------------------
(* Flights and blows *)

LEMMA Hunted ==
    ASSUME NEW x \in World, Sound(x), NEW c \in Person, NEW v \in Person, x.at[c] # Nil, x.at[v] # Nil
    PROVE  [x EXCEPT !.hunting[v] = c] \in Sane
  <1> USE CompanyConstants
  <1> DEFINE y == [x EXCEPT !.hunting[v] = c]
  <1>1. /\ y \in World /\ y.at = x.at /\ y.fighting = x.fighting /\ y.master = x.master /\ y.charmed = x.charmed
        /\ y.orders = x.orders /\ y.riding = x.riding /\ y.rider = x.rider /\ y.hunting = [x.hunting EXCEPT ![v] = c]
    BY DEF World
  <1> HIDE DEF y
  <1>2. \A d \in Person : y.hunting[d] = IF d = v THEN c ELSE x.hunting[d]
    BY <1>1, Fields
  <1>3. Solid(y)
    BY <1>1, <1>2 DEF Sound, Solid, Present
  <1>4. Counted(y)
    <2>1. \A p \in Player : Followers(y, p) = Followers(x, p)
      BY <1>1 DEF Followers
    <2>2. QED BY <1>1, <2>1 DEF Sound, Counted
  <1>5. y \in Sane
    BY <1>1, <1>3, <1>4 DEF Sane, Sound
  <1>6. QED BY <1>5 DEF y

LEMMA Unhunting ==
    ASSUME NEW x \in World, Sound(x), NEW c \in Person
    PROVE  [x EXCEPT !.hunting[c] = Nil] \in Sane
  <1> DEFINE y == [x EXCEPT !.hunting[c] = Nil]
  <1>1. /\ y \in World /\ y.at = x.at /\ y.fighting = x.fighting /\ y.master = x.master /\ y.charmed = x.charmed
        /\ y.orders = x.orders /\ y.riding = x.riding /\ y.rider = x.rider /\ y.hunting = [x.hunting EXCEPT ![c] = Nil]
    BY DEF World
  <1> HIDE DEF y
  <1>2. Fewer(x, y)
    BY <1>1, Fields DEF Fewer
  <1>3. y \in Sane
    BY <1>1, <1>2, PointersEnd, Zenon
  <1>4. QED BY <1>3 DEF y

\* The end of a fight, and of what it was about.
LEMMA Ending ==
    ASSUME NEW x \in World, Sound(x), NEW c \in Person, NEW both \in BOOLEAN
    PROVE  LET y == StopFighting(x, c, both) IN y \in World /\ Sound(y) /\ Steady(x, y) /\ SameBut(x, y)
  <1>1. PICK y \in World : y = StopFighting(x, c, both) /\ Fewer(x, y) /\ SameBut(x, y)
    BY FightEnds, Zenon
  <1>2. Sound(y) /\ Steady(x, y)
    BY <1>1, FewerSound, FewerSteady, Zenon
  <1>3. QED BY <1>1, <1>2

LEMMA Fleeing ==
    ASSUME NEW x \in World, Sound(x), NEW c \in Person
    PROVE  Flee(x, c) \subseteq Sane
  <1> DEFINE v == x.fighting[c]
             outcome(r) == LET y == MoveChar(x, c, r)
                               z == StopFighting(y, c, TRUE) IN
                           IF y.at[c] = x.at[c] THEN {x}
                           ELSE {z} \cup IF v \in Wild THEN {[z EXCEPT !.hunting[v] = c]} ELSE {}
  <1>1. CASE v = Nil
    <2> DEFINE p == IF x.pos[c] = "fighting" THEN "standing" ELSE x.pos[c]
    <2>1. p \in Position
      BY Fields DEF Position
    <2>2. Flee(x, c) = {[x EXCEPT !.pos[c] = p]}
      BY <1>1 DEF Flee
    <2> HIDE DEF p
    <2>3. [x EXCEPT !.pos[c] = p] \in World /\ Alike(x, [x EXCEPT !.pos[c] = p])
      BY <2>1, Posing, Zenon
    <2>4. [x EXCEPT !.pos[c] = p] \in Sane
      BY <2>3, AlikeSane, Zenon
    <2>5. QED BY <2>2, <2>4
  <1>2. CASE v # Nil
    <2>1. v \in Person /\ x.at[c] # Nil /\ x.at[v] # Nil
      BY <1>2, Fields DEF Sound, Solid, Present
    <2>2. ASSUME NEW r \in Room PROVE outcome(r) \subseteq Sane
      <3>1. PICK y \in World : y = MoveChar(x, c, r) /\ Sound(y) /\ Steady(x, y)
        BY <2>1, Moving, Zenon
      <3>2. TRUE \in BOOLEAN
        OBVIOUS
      <3>3. PICK z \in World : z = StopFighting(y, c, TRUE) /\ Sound(z) /\ Steady(y, z)
        BY <3>1, <3>2, Ending, Zenon
      <3>4. z.at[c] # Nil /\ z.at[v] # Nil
        BY <2>1, <3>1, <3>3 DEF Steady
      <3>5. [z EXCEPT !.hunting[v] = c] \in Sane
        BY <2>1, <3>3, <3>4, Hunted, Zenon
      <3>6. x \in Sane /\ z \in Sane
        BY <3>3 DEF Sane
      <3>7. QED BY <3>1, <3>3, <3>5, <3>6
    <2>3. Flee(x, c) = UNION {outcome(r) : r \in Room \ {x.at[c]}}
      BY <1>2 DEF Flee
    <2> HIDE DEF outcome
    <2>4. QED BY <2>2, <2>3
  <1>3. QED BY <1>1, <1>2

LEMMA Meeting ==
    ASSUME NEW x \in World, Sound(x), NEW c \in Person, NEW v \in Person, x.at[c] # Nil, x.at[v] # Nil
    PROVE  LET y == Met(x, c, v) IN y \in World /\ Sound(y) /\ Steady(x, y) /\ y.at = x.at /\ y.master = x.master
  <1>1. CASE c = v \/ ~IsAwake(x, v)
    BY <1>1 DEF Met, Steady
  <1>2. CASE ~(c = v \/ ~IsAwake(x, v))
    <2>1. PICK y \in World : y = SetFighting(x, v, c) /\ Sound(y) /\ SameBut(x, y)
      BY Starting, Zenon
    <2>2. "fighting" \in Position
      BY DEF Position
    <2>3. PICK z \in World : z = [y EXCEPT !.pos[v] = "fighting"] /\ Alike(y, z)
      BY <2>2, Posing, Zenon
    <2>4. Sound(z)
      BY <2>1, <2>3, AlikeSane DEF Sane
    <2>5. z.at = x.at /\ z.at[c] # Nil /\ z.at[v] # Nil /\ z.master = x.master
      BY <2>1, <2>3 DEF SameBut, Alike
    <2>6. PICK u \in World : u = SetFighting(z, c, v) /\ Sound(u) /\ SameBut(z, u)
      BY <2>4, <2>5, Starting, Zenon
    <2>7. Met(x, c, v) = u
      BY <1>2, <2>1, <2>3, <2>6 DEF Met
    <2>8. u.at = x.at /\ u.master = x.master
      BY <2>5, <2>6 DEF SameBut
    <2>9. QED BY <2>6, <2>7, <2>8 DEF Steady
  <1>3. QED BY <1>1, <1>2

LEMMA Hurting ==
    ASSUME NEW x \in World, Sound(x), NEW c \in Person, NEW h \in {"stunned", "down"}
    PROVE  Hurt(x, c, h) \in Sane
  <1>1. h \in {"well", "stunned", "down"} /\ FALSE \in BOOLEAN
    OBVIOUS
  <1>2. PICK y \in World : y = [x EXCEPT !.health[c] = h] /\ Alike(x, y)
    BY <1>1, Ailing, Zenon
  <1>3. Sound(y)
    BY <1>2, AlikeSane DEF Sane
  <1>4. PICK z \in World : z = StopFighting(y, c, FALSE) /\ Sound(z)
    BY <1>1, <1>3, Ending, Zenon
  <1>5. Hurt(x, c, h) = z
    BY <1>2, <1>4 DEF Hurt
  <1>6. QED BY <1>4, <1>5 DEF Sane

LEMMA Fetching ==
    ASSUME NEW x \in World, Sound(x), NEW c \in Person, x.at[c] # Nil
    PROVE  Shift(StopFighting(x, c, TRUE), c, Temple) \in Sane
  <1>1. TRUE \in BOOLEAN /\ Temple \in Room
    BY CompanyConstants
  <1>2. PICK y \in World : y = StopFighting(x, c, TRUE) /\ Sound(y) /\ Steady(x, y)
    BY <1>1, Ending, Zenon
  <1>3. y.at[c] # Nil
    BY <1>2 DEF Steady
  <1>4. Shift(y, c, Temple) \in World /\ Sound(Shift(y, c, Temple))
    BY <1>1, <1>2, <1>3, Shifting, Zenon
  <1>5. QED BY <1>2, <1>4 DEF Sane

LEMMA OneBlow ==
    ASSUME NEW x \in World, Sound(x), NEW c \in Person, NEW v \in Person
    PROVE  Blow(x, c, v) \subseteq Sane
  <1>1. CASE ~Together(x, c, v)
    BY <1>1 DEF Blow, Sane
  <1>2. CASE Together(x, c, v)
    <2>1. x.at[c] # Nil /\ x.at[v] # Nil
      BY <1>2 DEF Together
    <2>2. PICK m \in World : m = Met(x, c, v) /\ Sound(m) /\ Steady(x, m)
      BY <2>1, Meeting, Zenon
    <2> DEFINE yy == IF c # v /\ m.master[v] = c THEN StopFollower(m, v) ELSE m
    <2>3. yy \in World /\ Sound(yy) /\ Steady(x, yy)
      <3>1. PICK u \in World : u = StopFollower(m, v) /\ Sound(u) /\ SameButLed(m, u)
        BY <2>2, StoppingToFollow, Zenon
      <3>2. Steady(x, u)
        BY <2>2, <3>1 DEF Steady, SameButLed
      <3>3. QED BY <2>2, <3>1, <3>2
    <2> HIDE DEF yy
    <2>4. PICK y \in World : y = yy /\ Sound(y) /\ y.at[c] # Nil /\ y.at[v] # Nil
      BY <2>1, <2>3 DEF Steady
    <2>5. y \in Sane /\ RawKill(y, v) \in Sane /\ RawKill(y, c) \in Sane
      BY <2>4, Killing, Zenon DEF Sane
    <2>6. {Hurt(y, v, h) : h \in {"stunned", "down"}} \subseteq Sane
      BY <2>4, Hurting
    <2>7. Flee(y, v) \subseteq Sane
      BY <2>4, Fleeing, Zenon
    <2>8. Shift(StopFighting(y, v, TRUE), v, Temple) \in Sane
      BY <2>4, Fetching, Zenon
    <2>9. Blow(x, c, v) =
              {y, RawKill(y, v)}
              \cup (IF v \in Player THEN {Hurt(y, v, h) : h \in {"stunned", "down"}} ELSE {})
              \cup (IF c \in Mob /\ c # v THEN {RawKill(y, c)} ELSE {})
              \cup (IF c # v /\ Flighty(y, v) /\ y.pos[v] = "fighting" THEN Flee(y, v) ELSE {})
              \cup (IF c \in Mob /\ v \in Player THEN {Shift(StopFighting(y, v, TRUE), v, Temple)} ELSE {})
      BY <1>2, <2>2, <2>4 DEF Blow, yy
    <2>10. QED BY <2>5, <2>6, <2>7, <2>8, <2>9
  <1>3. QED BY <1>1, <1>2

LEMMA TwoBlows ==
    ASSUME NEW x \in World, Sound(x), NEW c \in Person, NEW v \in Person
    PROVE  Blows(x, c, v) \subseteq Sane
  <1>1. Blow(x, c, v) \subseteq Sane
    BY OneBlow, Zenon
  <1>2. ASSUME NEW y \in Blow(x, c, v) PROVE Blow(y, c, v) \subseteq Sane
    <2>1. y \in World /\ Sound(y)
      BY <1>1 DEF Sane
    <2>2. QED BY <2>1, OneBlow, Zenon
  <1>3. QED BY <1>1, <1>2 DEF Blows

LEMMA Hitting ==
    ASSUME NEW x \in World, Sound(x), NEW c \in Person, NEW v \in Person
    PROVE  MultiHit(x, c, v) \subseteq Sane
  <1>1. Blows(x, c, v) \subseteq Sane
    BY TwoBlows, Zenon
  <1>2. ASSUME Beholden(x, c, v) PROVE Blows(StopFighting(Met(x, c, v), c, FALSE), c, x.master[v]) \subseteq Sane
    <2>1. x.master[v] \in Person /\ x.at[c] # Nil /\ x.at[v] # Nil
      BY <1>2, CompanyConstants DEF Beholden, Together, Sound, Counted, Solid, Present
    <2>2. PICK m \in World : m = Met(x, c, v) /\ Sound(m)
      BY <2>1, Meeting, Zenon
    <2>3. FALSE \in BOOLEAN
      OBVIOUS
    <2>4. PICK y \in World : y = StopFighting(m, c, FALSE) /\ Sound(y)
      BY <2>2, <2>3, Ending, Zenon
    <2>5. Blows(y, c, x.master[v]) \subseteq Sane
      BY <2>1, <2>4, TwoBlows, Zenon
    <2>6. QED BY <2>2, <2>4, <2>5
  <1>3. QED BY <1>1, <1>2 DEF MultiHit

LEMMA Assisting ==
    ASSUME NEW x \in World, Sound(x), NEW c \in Person
    PROVE  Assist(x, c) \subseteq Sane
  <1>1. x \in Sane
    BY DEF Sane
  <1>2. \A r, p \in Person : MultiHit(x, r, p) \subseteq Sane
    BY Hitting, Zenon
  <1>3. Wild \subseteq Person /\ Player \subseteq Person
    BY CompanyAssumption, CompanyConstants
  <1>4. \A r \in Wild : UNION {MultiHit(x, r, p) : p \in {q \in Player : Together(x, r, q)}} \subseteq Sane
    BY <1>2, <1>3
  <1>5. QED BY <1>1, <1>4 DEF Assist

LEMMA Tracking ==
    ASSUME NEW x \in World, Sound(x), NEW c \in Person
    PROVE  MobHunt(x, c) \subseteq Sane
  <1> DEFINE v == x.hunting[c]
  <1>1. x \in Sane
    BY DEF Sane
  <1>2. CASE v = Nil
    BY <1>1, <1>2 DEF MobHunt
  <1>3. CASE v # Nil
    <2>1. v \in Person /\ x.at[c] # Nil /\ x.at[v] \in Room
      BY <1>3, Fields DEF Sound, Solid, Present
    <2>2. MultiHit(x, c, v) \subseteq Sane
      BY <2>1, Hitting, Zenon
    <2>3. ASSUME NEW y \in MultiHit(x, c, v) PROVE [y EXCEPT !.hunting[c] = Nil] \in Sane
      <3>1. y \in World /\ Sound(y)
        BY <2>2 DEF Sane
      <3>2. QED BY <3>1, Unhunting, Zenon
    <2>4. MoveChar(x, c, x.at[v]) \in Sane
      <3>1. MoveChar(x, c, x.at[v]) \in World /\ Sound(MoveChar(x, c, x.at[v]))
        BY <2>1, Moving, Zenon
      <3>2. QED BY <3>1 DEF Sane
    <2>5. QED BY <1>1, <1>3, <2>3, <2>4 DEF MobHunt
  <1>4. QED BY <1>2, <1>3

\* The blows of one who is in a frenzy.
LEMMA InFrenzy ==
    ASSUME NEW S, NEW c, NEW n \in Nat
    PROVE  \E f : f = [i \in 0 .. n |-> IF i = 0 THEN S ELSE Goring(f[i - 1], c)]
  <1> DEFINE Is(f, k) == f = [i \in 0 .. k |-> IF i = 0 THEN S ELSE Goring(f[i - 1], c)]
             K == {k \in 0 .. n : \E f : Is(f, k)}
  <1>1. 0 \in K
    <2>1. Is([i \in 0 .. 0 |-> S], 0)
      OBVIOUS
    <2>2. \E f : Is(f, 0)
      BY <2>1, Zenon
    <2>3. QED BY <2>2
  <1>2. ASSUME NEW k \in 1 .. n, k - 1 \in K PROVE k \in K
    <2>1. PICK f : Is(f, k - 1)
      BY <1>2
    <2> DEFINE g == [i \in 0 .. k |-> IF i <= k - 1 THEN f[i] ELSE Goring(f[k - 1], c)]
    <2>2. ASSUME NEW i \in 0 .. k PROVE g[i] = IF i = 0 THEN S ELSE Goring(g[i - 1], c)
      <3>1. CASE i = 0
        BY <2>1, <3>1
      <3>2. CASE i \in 1 .. k - 1
        BY <2>1, <3>2
      <3>3. CASE i = k
        BY <3>3
      <3>4. QED BY <3>1, <3>2, <3>3
    <2>3. Is(g, k)
      BY <2>2
    <2> HIDE DEF g
    <2>4. \E h : Is(h, k)
      BY <2>3, Zenon
    <2>5. k \in 0 .. n
      OBVIOUS
    <2>6. QED BY <2>4, <2>5
  <1> HIDE DEF K
  <1>3. 0 .. n \subseteq K
    BY <1>1, <1>2, Counting
  <1>4. n \in K
    BY <1>3
  <1>5. QED BY <1>4 DEF K

LEMMA Gores ==
    ASSUME NEW c \in Person, NEW S \in SUBSET (Sane \X SUBSET Mob)
    PROVE  Goring(S, c) \in SUBSET (Sane \X SUBSET Mob)
  <1>1. SUFFICES ASSUME NEW t \in Goring(S, c) PROVE t \in Sane \X SUBSET Mob
    OBVIOUS
  <1>2. PICK s \in S : \E m \in Gorable(s[1], c, s[2]) :
            \E z \in Blow(s[1], c, m) : t = <<z, IF Together(z, c, m) THEN s[2] \ {m} ELSE {}>>
    BY DEF Goring
  <1>3. PICK m \in Gorable(s[1], c, s[2]) :
            \E z \in Blow(s[1], c, m) : t = <<z, IF Together(z, c, m) THEN s[2] \ {m} ELSE {}>>
    BY <1>2
  <1>4. PICK z \in Blow(s[1], c, m) : t = <<z, IF Together(z, c, m) THEN s[2] \ {m} ELSE {}>>
    BY <1>3
  <1>5. s[1] \in Sane /\ s[2] \in SUBSET Mob
    OBVIOUS
  <1>6. m \in Person /\ s[1] \in World /\ Sound(s[1])
    BY <1>5, CompanyConstants DEF Gorable, Sane
  <1>7. z \in Sane
    BY <1>4, <1>6, OneBlow, Zenon
  <1>8. QED BY <1>4, <1>5, <1>7

LEMMA Frenzying ==
    ASSUME NEW x \in World, Sound(x), NEW c \in Person
    PROVE  Frenzied(x, c) \subseteq Sane
  <1> DEFINE n == Cardinality(Mob)
             S == {<<x, Mob>>}
             after == CHOOSE f : f = [i \in 0 .. n |-> IF i = 0 THEN S ELSE Goring(f[i - 1], c)]
             K == {k \in 0 .. n : after[k] \in SUBSET (Sane \X SUBSET Mob)}
  <1>1. n \in Nat
    BY CompanyConstants, FS_CardinalityType
  <1>2. Gored(x, c) = after
    BY DEF Gored
  <1> HIDE DEF n, S
  <1>3. after = [i \in 0 .. n |-> IF i = 0 THEN S ELSE Goring(after[i - 1], c)]
    BY <1>1, InFrenzy
  <1> HIDE DEF after
  <1>4. 0 \in K
    <2>1. x \in Sane
      BY DEF Sane
    <2>2. after[0] = S /\ 0 \in 0 .. n
      BY <1>1, <1>3
    <2>3. QED BY <2>1, <2>2 DEF S
  <1>5. ASSUME NEW k \in 1 .. n, k - 1 \in K PROVE k \in K
    <2>1. k \in 0 .. n /\ k # 0
      BY <1>1
    <2>2. after[k] = Goring(after[k - 1], c)
      BY <1>3, <2>1
    <2>3. QED BY <1>5, <2>1, <2>2, Gores
  <1> HIDE DEF K
  <1>6. 0 .. n \subseteq K
    BY <1>1, <1>4, <1>5, Counting
  <1>7. ASSUME NEW k \in 0 .. n PROVE {s[1] : s \in after[k]} \subseteq Sane
    BY <1>6 DEF K
  <1>8. Frenzied(x, c) = UNION {{s[1] : s \in after[k]} : k \in 0 .. n}
    BY <1>2 DEF Frenzied, n
  <1>9. QED BY <1>7, <1>8

LEMMA Casting ==
    ASSUME NEW x \in World, Sound(x), NEW c \in Person, NEW v \in Person
    PROVE  Spell(x, c, v) \subseteq Sane
  <1>1. Blow(x, c, v) \cup {x} \subseteq Sane
    BY OneBlow DEF Sane
  <1>2. ASSUME NEW y \in Sane PROVE MultiHit(y, c, v) \subseteq Sane
    <2>1. y \in World /\ Sound(y)
      BY DEF Sane
    <2>2. QED BY <2>1, Hitting, Zenon
  <1>3. QED BY <1>1, <1>2 DEF Spell

LEMMA Retargets ==
    ASSUME NEW x \in World, Sound(x), NEW c \in Person
    PROVE  Retargeted(x, c) \subseteq Sane
  <1>1. ASSUME NEW q \in Foes(x, c) PROVE [x EXCEPT !.fighting[c] = q] \in Sane
    <2> DEFINE y == [x EXCEPT !.fighting[c] = q]
    <2>1. q \in Person /\ x.at[c] # Nil /\ x.at[q] # Nil
      BY CompanyConstants DEF Foes, Together
    <2>2. y \in World /\ SameBut(x, y) /\ y.fighting = [x.fighting EXCEPT ![c] = q]
      BY <2>1 DEF World, SameBut
    <2> HIDE DEF y
    <2>3. \A d \in Person : y.fighting[d] # Nil => x.at[d] # Nil /\ x.at[y.fighting[d]] # Nil
      BY <2>1, <2>2, Fields DEF Sound, Solid, Present
    <2>4. Sound(y)
      BY <2>2, <2>3, FightChange
    <2>5. QED BY <2>2, <2>4 DEF Sane, y
  <1>2. QED BY <1>1 DEF Retargeted, Sane

LEMMA Enchants ==
    ASSUME NEW x \in World, Sound(x), NEW c \in Person
    PROVE  Enchanting(x, c) \subseteq Sane
  <1>1. CASE x.fighting[c] = Nil
    BY <1>1 DEF Enchanting, Sane
  <1>2. CASE x.fighting[c] # Nil
    <2>1. x.fighting[c] \in Person
      BY <1>2, Fields
    <2>2. Spell(x, c, x.fighting[c]) \subseteq Sane
      BY <2>1, Casting, Zenon
    <2>3. QED BY <2>2 DEF Enchanting, Sane
  <1>3. QED BY <1>1, <1>2

LEMMA Struggling ==
    ASSUME NEW x \in World, Sound(x), NEW c \in Person
    PROVE  Struggle(x, c) \subseteq Sane
  <1> DEFINE v == x.fighting[c]
  <1>1. x \in Sane /\ FALSE \in BOOLEAN
    BY DEF Sane
  <1>3. StopFighting(x, c, FALSE) \in Sane
    <2>1. PICK y \in World : y = StopFighting(x, c, FALSE) /\ Sound(y)
      BY <1>1, Ending, Zenon
    <2>2. QED BY <2>1 DEF Sane
  <1>4. ASSUME v # Nil
        PROVE  UNION {IF y.at[c] = Nil THEN {y} ELSE Assist(y, c) : y \in MultiHit(x, c, v)} \subseteq Sane
    <2>1. v \in Person
      BY <1>4, Fields
    <2>2. MultiHit(x, c, v) \subseteq Sane
      BY <2>1, Hitting, Zenon
    <2>3. ASSUME NEW y \in Sane PROVE Assist(y, c) \subseteq Sane
      <3>1. y \in World /\ Sound(y)
        BY DEF Sane
      <3>2. QED BY <3>1, Assisting, Zenon
    <2>4. QED BY <2>2, <2>3
  <1>5. MobHunt(x, c) \subseteq Sane
    BY Tracking, Zenon
  <1>6. QED BY <1>1, <1>3, <1>4, <1>5 DEF Struggle

LEMMA Turning ==
    ASSUME NEW x \in World, Sound(x), NEW c \in Person
    PROVE  Turn(x, c) \subseteq Sane
  <1>1. "standing" \in Position
    BY DEF Position
  <1>2. [x EXCEPT !.pos[c] = "standing"] \in Sane
    <2>1. PICK y \in World : y = [x EXCEPT !.pos[c] = "standing"] /\ Alike(x, y)
      BY <1>1, Posing, Zenon
    <2>2. QED BY <2>1, AlikeSane, Zenon
  <1>3. Blow(x, c, c) \subseteq Sane
    BY OneBlow, Zenon
  <1>4. Extract(x, c) \in Sane
    BY Extracting, Zenon
  <1>5. ASSUME NEW y \in Retargeted(x, c), NEW z \in Enchanting(y, c) PROVE Struggle(z, c) \subseteq Sane
    <2>1. y \in World /\ Sound(y)
      BY Retargets DEF Sane
    <2>2. z \in World /\ Sound(z)
      BY <2>1, Enchants DEF Sane
    <2>3. QED BY <2>2, Struggling, Zenon
  <1>6. QED BY <1>2, <1>3, <1>4, <1>5 DEF Turn

-----------------------------------------------------------------------------
(* Who joins somebody *)

LEMMA LeavingLess ==
    ASSUME NEW x \in World, NEW c \in Person
    PROVE  Unfollowed(x, c).charmed \subseteq x.charmed /\ \A p \in Player : Unfollowed(x, c).orders[p] <= x.orders[p]
  <1>1. CASE x.master[c] = Nil
    <2>1. \A p \in Player : x.orders[p] <= x.orders[p]
      BY Fields
    <2>2. QED BY <1>1, <2>1 DEF Unfollowed
  <1>2. CASE x.master[c] # Nil
    <2>1. Unfollowed(x, c) = StopFollower(x, c)
      BY <1>2 DEF Unfollowed
    <2> DEFINE y == StopFollower(x, c)
    <2>2. /\ y.charmed = x.charmed \ {c}
          /\ y.orders = [p \in Player |-> IF p = x.master[c] /\ c \in Mob THEN x.orders[p] - 1 ELSE x.orders[p]]
      BY StopFollowerFields, Zenon
    <2> HIDE DEF y
    <2>3. ASSUME NEW p \in Player PROVE y.orders[p] <= x.orders[p]
      <3>1. x.orders[p] \in Int
        BY Fields
      <3>2. y.orders[p] = IF p = x.master[c] /\ c \in Mob THEN x.orders[p] - 1 ELSE x.orders[p]
        BY <2>2
      <3>3. QED BY <3>1, <3>2
    <2>4. QED BY <2>1, <2>2, <2>3 DEF y
  <1>3. QED BY <1>1, <1>2

\* z is y after c has joined v.
Joined(y, c, v, z) ==
    /\ SameButLed(y, z) /\ z.master = [y.master EXCEPT ![c] = v]
    /\ z.charmed \subseteq y.charmed \cup {c} /\ (c \in z.charmed => v \in Player)
    /\ z.orders = [p \in Player |-> IF p = v /\ c \in Mob THEN y.orders[p] + 1 ELSE y.orders[p]]

LEMMA Joining ==
    ASSUME NEW y \in World, Sound(y), NEW c \in Person, NEW v \in Person, y.master[c] = Nil, y.at[c] # Nil, y.at[v] # Nil,
           c \in Mob /\ v \in Player => y.orders[v] < Orders,
           NEW z \in World, Joined(y, c, v, z)
    PROVE  z \in Sane
  <1> USE CompanyConstants DEF Joined
  <1>1. \A f \in Person : z.master[f] = IF f = c THEN v ELSE y.master[f]
    BY Fields
  <1>2. Solid(z)
    <2>1. \A d \in Person : z.master[d] # Nil => y.at[d] # Nil /\ y.at[z.master[d]] # Nil
      BY <1>1, Fields DEF Sound, Solid, Present
    <2>2. QED BY <2>1, LeadChange
  <1>3. ASSUME NEW p \in Player PROVE z.orders[p] = Cardinality(Led(z, p)) /\ z.orders[p] <= Orders
    <2>1. y.orders[p] = Cardinality(Led(y, p)) /\ y.orders[p] <= Orders /\ y.orders[p] \in Int
      BY SMTT(40), Fields DEF Sound, Counted, Led
    <2>2. CASE p = v /\ c \in Mob
      <3>1. Led(z, p) = Led(y, p) \cup {c} /\ c \notin Led(y, p)
        BY <1>1, <2>2 DEF Led, Followers
      <3>2. Cardinality(Led(z, p)) = Cardinality(Led(y, p)) + 1
        BY <3>1, LedFinite, FS_AddElement
      <3>3. QED BY <2>1, <2>2, <3>2
    <2>3. CASE ~(p = v /\ c \in Mob)
      <3>1. Led(z, p) = Led(y, p)
        BY <1>1, <2>3 DEF Led, Followers
      <3>2. QED BY <2>1, <2>3, <3>1
    <2>4. QED BY <2>2, <2>3
  <1>4. \A m \in z.charmed : z.master[m] \in Player
    BY <1>1, Fields DEF Sound, Counted
  <1>5. Sound(z)
    BY <1>2, <1>3, <1>4 DEF Sound, Counted, Led
  <1>6. QED BY <1>5 DEF Sane

-----------------------------------------------------------------------------
(* The commands *)

LEMMA SetsOut == CompanyInit => w \in Sane
  <1> USE CompanyConstants
  <1> DEFINE z == [at |-> Nobody(Person), pos |-> [c \in Person |-> "standing"], health |-> [c \in Person |-> "well"],
                   fighting |-> Nobody(Person), master |-> Nobody(Person),
                   charmed |-> {}, orders |-> [p \in Player |-> 0],
                   riding |-> Nobody(Player), rider |-> Nobody(Mob), hunting |-> Nobody(Person)]
  <1>1. z \in World
    BY DEF World, Position, Nobody
  <1>2. Solid(z)
    BY DEF Solid, Nobody
  <1>3. \A p \in Player : Followers(z, p) \cap Mob = {}
    <2>1. \A f \in Person : z.master[f] = Nil
      BY DEF Nobody
    <2> HIDE DEF z
    <2>2. ASSUME NEW p \in Player, NEW f \in Followers(z, p) PROVE FALSE
      <3>1. f \in Person /\ z.master[f] = p
        BY <2>2 DEF Followers
      <3>2. QED BY <2>1, <3>1
    <2>3. QED BY <2>2
  <1>4. Counted(z)
    <2>1. z.charmed = {} /\ \A p \in Player : z.orders[p] = 0
      OBVIOUS
    <2> HIDE DEF z
    <2>2. \A p \in Player : Cardinality(Followers(z, p) \cap Mob) = 0
      BY <1>3, FS_EmptySet
    <2>3. QED BY <2>1, <2>2 DEF Counted
  <1>5. z \in Sane
    BY <1>1, <1>2, <1>4 DEF Sane, Sound
  <1>6. QED BY <1>5 DEF CompanyInit

LEMMA Posed ==
    ASSUME w \in Sane, NEW c \in Person, NEW p \in Position, w' = [w EXCEPT !.pos[c] = p]
    PROVE  w' \in Sane
  <1>1. w \in World /\ Sound(w)
    BY DEF Sane
  <1>2. w' \in World /\ Alike(w, w')
    BY <1>1, Posing, Zenon
  <1>3. QED BY <1>1, <1>2, AlikeSane, Zenon

LEMMA Healed == ASSUME w \in Sane, NEW c \in Person, Heal(c) PROVE w' \in Sane
  <1>1. w \in World /\ Sound(w) /\ "well" \in {"well", "stunned", "down"}
    BY DEF Sane
  <1>2. PICK x \in World : x = [w EXCEPT !.health[c] = "well"] /\ Alike(w, x)
    BY <1>1, Ailing, Zenon
  <1>3. Sound(x)
    BY <1>1, <1>2, AlikeSane DEF Sane
  <1>4. UpdatePos(x, c) \in Position
    BY Fields DEF UpdatePos, Stand, Position
  <1>5. w' = [x EXCEPT !.pos[c] = UpdatePos(x, c)]
    BY <1>2 DEF Heal
  <1>6. w' \in World /\ Alike(x, w')
    BY <1>4, <1>5, Posing, Zenon
  <1>7. QED BY <1>3, <1>6, AlikeSane, Zenon

LEMMA Recalled == ASSUME w \in Sane, NEW c \in Person, Recall(c) PROVE w' \in Sane
  <1>1. w \in World /\ Sound(w) /\ TRUE \in BOOLEAN /\ Temple \in Room /\ w.at[c] # Nil
    BY CompanyConstants DEF Sane, Recall, Present
  <1>2. PICK y \in World : y = StopFighting(w, c, TRUE) /\ Sound(y) /\ Steady(w, y)
    BY <1>1, Ending, Zenon
  <1>3. y.at[c] # Nil
    BY <1>1, <1>2 DEF Steady
  <1>4. w' = Shift(w, c, Temple) \/ w' = Shift(y, c, Temple)
    BY <1>2 DEF Recall
  <1>5. Shift(w, c, Temple) \in Sane /\ Shift(y, c, Temple) \in Sane
    BY <1>1, <1>2, <1>3, Shifting, Zenon DEF Sane
  <1>6. QED BY <1>4, <1>5

LEMMA Arrived == ASSUME w \in Sane, NEW c \in Person, Arrive(c) PROVE w' \in Sane
  <1> USE CompanyConstants
  <1>1. w \in World /\ Sound(w) /\ Temple \in Room \cup {Nil} /\ w.at[c] = Nil
    BY DEF Sane, Arrive, Present
  <1>2. w' = SetAt(w, c, Temple)
    BY DEF Arrive, SetAt
  <1>3. w' \in World /\ SameButAt(w, w') /\ w'.at = [w.at EXCEPT ![c] = Temple]
    BY <1>1, <1>2, Setting
  <1>4. Present(w) \subseteq Present(w')
    BY <1>1, <1>3, Fields DEF Present
  <1>5. Solid(w')
    BY <1>1, <1>3, <1>4 DEF Sound, Solid, SameButAt
  <1>6. \A p \in Player : Followers(w', p) = Followers(w, p)
    BY <1>3 DEF Followers, SameButAt
  <1>7. Counted(w')
    BY <1>1, <1>3, <1>6 DEF Sound, Counted, SameButAt
  <1>8. QED BY <1>3, <1>5, <1>7 DEF Sane, Sound

LEMMA Saddling == ASSUME w \in Sane, NEW c \in Person, NEW m \in Person, Mount(c, m) PROVE w' \in Sane
  <1> USE CompanyConstants
  <1>1. w \in World /\ Sound(w) /\ c \in Player /\ m \in Mob /\ w.at[c] # Nil /\ w.at[m] # Nil
    BY CompanyAssumption DEF Sane, Mount, Together
  <1>2. w' = [w EXCEPT !.riding[c] = m, !.rider[m] = c, !.pos[c] = "standing"]
    BY DEF Mount
  <1>3. /\ w' \in World /\ w'.at = w.at /\ w'.fighting = w.fighting /\ w'.master = w.master /\ w'.hunting = w.hunting
        /\ w'.charmed = w.charmed /\ w'.orders = w.orders
        /\ w'.riding = [w.riding EXCEPT ![c] = m] /\ w'.rider = [w.rider EXCEPT ![m] = c]
    BY <1>1, <1>2 DEF World, Position
  <1>4. Solid(w')
    <2>1. \A p \in Player : w'.riding[p] # Nil => w'.riding[p] \in Present(w)
      BY <1>1, <1>3, Fields DEF Sound, Solid, Present
    <2>2. \A n \in Mob : w'.rider[n] # Nil => w'.rider[n] \in Present(w)
      BY <1>1, <1>3, Fields DEF Sound, Solid, Present
    <2>3. QED BY <1>1, <1>3, <2>1, <2>2 DEF Sound, Solid, Present
  <1>5. \A p \in Player : Followers(w', p) = Followers(w, p)
    BY <1>3 DEF Followers
  <1>6. Counted(w')
    BY <1>1, <1>3, <1>5 DEF Sound, Counted
  <1>7. QED BY <1>3, <1>4, <1>6 DEF Sane, Sound

LEMMA Enlisting ==
    ASSUME w \in Sane, NEW c \in Person, NEW v \in Person, Follow(c, v)
    PROVE  w' \in Sane
  <1> USE CompanyConstants
  <1>1. w \in World /\ Sound(w) /\ w.at[c] # Nil /\ w.at[v] # Nil /\ c \notin w.charmed
    BY DEF Sane, Follow, Together
  <1>2. CASE c = v
    <2>1. w' = StopFollower(w, c)
      BY <1>2 DEF Follow
    <2>2. StopFollower(w, c) \in World /\ Sound(StopFollower(w, c))
      BY <1>1, StoppingToFollow, Zenon
    <2>3. QED BY <2>1, <2>2 DEF Sane
  <1>3. CASE c # v
    <2>1. PICK y \in World : y = Unfollowed(w, c) /\ Sound(y) /\ SameButLed(w, y) /\ y.master = [w.master EXCEPT ![c] = Nil]
      BY <1>1, Leaving, Zenon
    <2>2. y.charmed \subseteq w.charmed
      BY <1>1, <2>1, LeavingLess, Zenon
    <2>3. y.master[c] = Nil /\ y.at[c] # Nil /\ y.at[v] # Nil /\ c \notin y.charmed
      BY <1>1, <2>1, <2>2, Fields DEF SameButLed
    <2> DEFINE ms == [y.master EXCEPT ![c] = v]
               os == [p \in Player |-> IF p = v /\ c \in Mob THEN y.orders[p] + 1 ELSE y.orders[p]]
               z == [y EXCEPT !.master = ms, !.orders = os]
               much == c \in Mob /\ v \in Player /\ ~MayLead(y, v)
    <2>4. w' = IF much THEN Extract(y, c) ELSE z
      BY <1>3, <2>1 DEF Follow, World
    <2>5. ms \in [Person -> Person \cup {Nil}] /\ os \in [Player -> Int]
      BY Fields
    <2> HIDE DEF ms, os
    <2>6. z \in World /\ SameButLed(y, z) /\ z.master = ms /\ z.orders = os /\ z.charmed = y.charmed
      BY <2>5 DEF World, SameButLed
    <2>7. Extract(y, c) \in Sane
      BY <2>1, Extracting, Zenon
    <2> HIDE DEF z
    <2>8. ASSUME ~much PROVE z \in Sane
      <3>1. c \in Mob /\ v \in Player => y.orders[v] < Orders
        BY <2>8 DEF MayLead
      <3>2. z.master = [y.master EXCEPT ![c] = v] /\ z.charmed \subseteq y.charmed \cup {c} /\ (c \in z.charmed => v \in Player)
        BY <2>3, <2>6 DEF ms
      <3>3. z.orders = [p \in Player |-> IF p = v /\ c \in Mob THEN y.orders[p] + 1 ELSE y.orders[p]]
        BY <2>6 DEF os
      <3>4. Joined(y, c, v, z)
        BY <2>6, <3>2, <3>3 DEF Joined
      <3>5. QED BY <2>1, <2>3, <2>6, <3>1, <3>4, Joining, Zenon
    <2>9. QED BY <2>4, <2>7, <2>8
  <1>4. QED BY <1>2, <1>3

LEMMA Charming ==
    ASSUME w \in Sane, NEW c \in Person, NEW m \in Person, Charm(c, m)
    PROVE  w' \in Sane
  <1> USE CompanyConstants
  <1>1. w \in World /\ Sound(w) /\ w.at[c] # Nil /\ w.at[m] # Nil /\ c \in Player /\ m \in Mob /\ w.orders[c] < Orders
    BY CompanyAssumption DEF Sane, Charm, Together, MayLead
  <1>2. PICK y \in World : y = Unfollowed(w, m) /\ Sound(y) /\ SameButLed(w, y) /\ y.master = [w.master EXCEPT ![m] = Nil]
    BY <1>1, Leaving, Zenon
  <1>3. y.orders[c] <= w.orders[c]
    BY <1>1, <1>2, LeavingLess, Zenon
  <1>4. y.orders[c] < Orders
    BY <1>1, <1>2, <1>3, Fields
  <1>5. y.master[m] = Nil /\ y.at[c] # Nil /\ y.at[m] # Nil
    BY <1>1, <1>2, Fields DEF SameButLed
  <1> DEFINE ms == [y.master EXCEPT ![m] = c]
             ch == y.charmed \cup {m}
             os == [p \in Player |-> IF p = c /\ m \in Mob THEN y.orders[p] + 1 ELSE y.orders[p]]
             z == [y EXCEPT !.charmed = ch, !.master = ms, !.orders = os]
  <1>6. w' = z
    <2>1. w' = [y EXCEPT !.charmed = ch, !.master[m] = c, !.orders[c] = y.orders[c] + 1]
      BY <1>2 DEF Charm
    <2>2. os = [y.orders EXCEPT ![c] = y.orders[c] + 1]
      BY <1>1, Fields
    <2>3. QED BY <2>1, <2>2 DEF World
  <1>7. ms \in [Person -> Person \cup {Nil}] /\ os \in [Player -> Int] /\ ch \in SUBSET Mob
    BY <1>1, Fields
  <1> HIDE DEF ms, os, ch
  <1>8. z \in World /\ SameButLed(y, z) /\ z.master = ms /\ z.orders = os /\ z.charmed = ch
    BY <1>7 DEF World, SameButLed
  <1> HIDE DEF z
  <1>9. z.master = [y.master EXCEPT ![m] = c] /\ z.charmed \subseteq y.charmed \cup {m}
    BY <1>8 DEF ms, ch
  <1>10. z.orders = [p \in Player |-> IF p = c /\ m \in Mob THEN y.orders[p] + 1 ELSE y.orders[p]]
    BY <1>8 DEF os
  <1>11. Joined(y, m, c, z)
    BY <1>1, <1>8, <1>9, <1>10 DEF Joined
  <1>12. z \in Sane
    <2>1. c \in Person
      OBVIOUS
    <2>2. QED BY <1>2, <1>4, <1>5, <1>8, <1>11, <2>1, Joining, Zenon
  <1>13. QED BY <1>6, <1>12

LEMMA Rescues ==
    ASSUME w \in Sane, NEW c \in Person, NEW v \in Person, Rescue(c, v)
    PROVE  w' \in Sane
  <1> DEFINE f == w.fighting[v]
  <1>1. w \in World /\ Sound(w) /\ FALSE \in BOOLEAN
    BY DEF Sane
  <1>2. w.at[c] # Nil /\ f \in Person /\ w.at[f] # Nil /\ w.at[v] # Nil
    BY <1>1, Fields DEF Rescue, InNeed, Together, Sound, Solid, Present
  <1>3. PICK a \in World : a = StopFighting(w, f, FALSE) /\ Sound(a) /\ SameBut(w, a)
    BY <1>1, <1>2, Ending, Zenon
  <1>4. PICK b \in World : b = StopFighting(a, v, FALSE) /\ Sound(b) /\ SameBut(a, b)
    BY <1>1, <1>3, Ending, Zenon
  <1>5. b.at[c] # Nil /\ b.at[f] # Nil
    BY <1>2, <1>3, <1>4 DEF SameBut
  <1>6. PICK d \in World : d = SetFighting(b, c, f) /\ Sound(d) /\ SameBut(b, d)
    BY <1>2, <1>4, <1>5, Starting, Zenon
  <1>7. d.at[c] # Nil /\ d.at[f] # Nil
    BY <1>5, <1>6 DEF SameBut
  <1>8. PICK e \in World : e = SetFighting(d, f, c) /\ Sound(e)
    BY <1>2, <1>6, <1>7, Starting, Zenon
  <1>9. w' = e
    BY <1>3, <1>4, <1>6, <1>8 DEF Rescue, Rescued
  <1>10. QED BY <1>8, <1>9 DEF Sane

LEMMA Joins == ASSUME w \in Sane, NEW c \in Person, NEW u \in Person, Join(c, u) PROVE w' \in Sane
  <1>1. w \in World /\ Sound(w) /\ w' = SetFighting(w, c, w.fighting[u])
    BY DEF Sane, Join
  <1>2. w.fighting[u] \in Person /\ w.at[c] # Nil /\ w.at[w.fighting[u]] # Nil
    BY <1>1, Fields DEF Join, Ready, Sound, Solid, Present
  <1>3. PICK y \in World : y = SetFighting(w, c, w.fighting[u]) /\ Sound(y)
    BY <1>1, <1>2, Starting, Zenon
  <1>4. QED BY <1>1, <1>3 DEF Sane

LEMMA Bashes ==
    ASSUME w \in Sane, NEW c \in Person, NEW v \in Person, Bash(c, v)
    PROVE  w' \in Sane
  <1>1. w \in World /\ Sound(w) /\ TRUE \in BOOLEAN /\ "resting" \in Position
    BY DEF Sane, Position
  <1>2. PICK y \in World : y = StopFighting(w, v, TRUE) /\ Sound(y)
    BY <1>1, Ending, Zenon
  <1>3. PICK x \in World : x = [y EXCEPT !.pos[v] = "resting"] /\ Alike(y, x)
    BY <1>1, Posing, Zenon
  <1>4. Sound(x)
    BY <1>2, <1>3, AlikeSane DEF Sane
  <1>5. UpdatePos(x, v) \in Position
    BY Fields DEF UpdatePos, Stand, Position
  <1>6. w' = [x EXCEPT !.pos[v] = UpdatePos(x, v)]
    BY <1>2, <1>3 DEF Bash
  <1>7. w' \in World /\ Alike(x, w')
    BY <1>5, <1>6, Posing, Zenon
  <1>8. QED BY <1>4, <1>7, AlikeSane, Zenon

\* Nobody dangles and everybody is counted, whatever one of them does.
LEMMA Acting == ASSUME w \in Sane, NEW c \in Person, Act(c) PROVE w' \in Sane
  <1>1. w \in World /\ Sound(w) /\ FALSE \in BOOLEAN /\ TRUE \in BOOLEAN
    BY DEF Sane
  <1>2. "standing" \in Position /\ "resting" \in Position
    BY DEF Position
  <1>3. CASE Round(c)
    BY <1>1, <1>3, Turning DEF Round
  <1>4. CASE Escape(c)
    BY <1>1, <1>4, Fleeing DEF Escape
  <1>5. CASE Rest(c)
    BY <1>2, <1>5, Posed DEF Rest
  <1>6. CASE Wake(c)
    BY <1>2, <1>6, Posed DEF Wake
  <1>7. CASE Heal(c)
    BY <1>7, Healed
  <1>8. CASE Recall(c)
    BY <1>8, Recalled
  <1>9. CASE Quit(c)
    BY <1>1, <1>9, Extracting DEF Quit
  <1>10. CASE Arrive(c)
    BY <1>10, Arrived
  <1>11. CASE Dismount(c)
    <2>1. c \in Player /\ w.riding[c] # Nil /\ w' = Dismounted(w, c)
      BY <1>11 DEF Dismount
    <2>2. PICK y \in World : y = Dismounted(w, c) /\ Fewer(w, y)
      BY <1>1, <2>1, Dismounting, Zenon
    <2>3. QED BY <1>1, <2>1, <2>2, PointersEnd, Zenon
  <1>12. CASE WearOff(c)
    <2>1. StopFollower(w, c) \in World /\ Sound(StopFollower(w, c))
      BY <1>1, StoppingToFollow, Zenon
    <2>2. QED BY <1>12, <2>1 DEF WearOff, Sane
  <1>13. CASE Rebel(c)
    <2>1. PICK y \in World : y = StopFollower(w, c) /\ Sound(y)
      BY <1>1, StoppingToFollow, Zenon
    <2>2. w.master[c] \in Person
      BY <1>1, <1>13, CompanyConstants DEF Rebel, Sound, Counted
    <2>3. MultiHit(y, c, w.master[c]) \subseteq Sane
      BY <2>1, <2>2, Hitting, Zenon
    <2>4. QED BY <1>13, <2>1, <2>3 DEF Rebel
  <1>14. CASE Suffer(c)
    BY <1>1, <1>14, OneBlow DEF Suffer
  <1>15. CASE do_stun(c)
    BY <1>1, <1>15, OneBlow DEF do_stun
  <1>16. CASE Frenzy(c)
    BY <1>1, <1>16, Frenzying DEF Frenzy
  <1>17. ASSUME NEW r \in Room, Walk(c, r) PROVE w' \in Sane
    <2>1. w.at[c] # Nil /\ w' = MoveChar(w, c, r)
      BY <1>17 DEF Walk, Ready, Present
    <2>2. PICK y \in World : y = MoveChar(w, c, r) /\ Sound(y)
      BY <1>1, <2>1, Moving, Zenon
    <2>3. QED BY <2>1, <2>2 DEF Sane
  <1>18. ASSUME NEW v \in Person, Attack(c, v) PROVE w' \in Sane
    BY <1>1, <1>18, Hitting DEF Attack
  <1>19. ASSUME NEW v \in Person, Rescue(c, v) PROVE w' \in Sane
    BY <1>19, Rescues
  <1>20. ASSUME NEW v \in Person, Mount(c, v) PROVE w' \in Sane
    BY <1>20, Saddling
  <1>21. ASSUME NEW v \in Person, Follow(c, v) PROVE w' \in Sane
    BY <1>21, Enlisting
  <1>22. ASSUME NEW v \in Person, Charm(c, v) PROVE w' \in Sane
    BY <1>22, Charming
  <1>23. ASSUME NEW v \in Person, Strike(c, v) PROVE w' \in Sane
    BY <1>1, <1>23, OneBlow DEF Strike
  <1>24. ASSUME NEW v \in Person, Target(c, v) PROVE w' \in Sane
    <2>1. PICK y \in World : y = StopFighting(w, c, FALSE) /\ Sound(y)
      BY <1>1, Ending, Zenon
    <2>2. Blow(y, c, v) \subseteq Sane
      BY <2>1, OneBlow, Zenon
    <2>3. QED BY <1>24, <2>1, <2>2 DEF Target
  <1>25. ASSUME NEW v \in Person, Circle(c, v) PROVE w' \in Sane
    <2>1. w.at[c] # Nil /\ w.at[v] # Nil /\ w' \in Blow(SetFighting(w, c, v), c, v)
      BY <1>25 DEF Circle, Aimed, Together
    <2>2. PICK y \in World : y = SetFighting(w, c, v) /\ Sound(y)
      BY <1>1, <2>1, Starting, Zenon
    <2>3. Blow(y, c, v) \subseteq Sane
      BY <2>2, OneBlow, Zenon
    <2>4. QED BY <2>1, <2>2, <2>3
  <1>26. ASSUME NEW v \in Person, Bash(c, v) PROVE w' \in Sane
    BY <1>26, Bashes
  <1>27. ASSUME NEW v \in Person, Cast(c, v) PROVE w' \in Sane
    BY <1>1, <1>27, Casting DEF Cast
  <1>29. ASSUME NEW v \in Person, Join(c, v) PROVE w' \in Sane
    BY <1>29, Joins
  <1>28. QED
    BY <1>3, <1>4, <1>5, <1>6, <1>7, <1>8, <1>9, <1>10, <1>11, <1>12, <1>13, <1>14, <1>15, <1>16, <1>17,
       <1>18, <1>19, <1>20, <1>21, <1>22, <1>23, <1>24, <1>25, <1>26, <1>27, <1>29 DEF Act

\* In every state the world is sound: nobody points to one who is out of the game, and the
\* number of followers of everybody is that of those who follow him.
THEOREM AlwaysSane == CompanySpec => [](w \in Sane)
  <1>1. w \in Sane /\ [CompanyNext]_w => (w \in Sane)'
    <2>1. CASE CompanyNext
      BY <2>1, Acting DEF CompanyNext
    <2>2. CASE UNCHANGED w
      BY <2>2
    <2>3. QED BY <2>1, <2>2
  <1>2. QED BY SetsOut, <1>1, PTL DEF CompanySpec

\* Nobody fights, follows, hunts, rides or carries one who is out of the game, however many
\* people there are and whoever may be charmed, ridden or roused: extract_char and raw_kill
\* (handler.c, fight.c) leave no pointer behind, at the end of whatever chain of blows,
\* flights and followers they are called.
THEOREM NobodyEverDangles == CompanySpec => []NobodyDangles
  <1>1. w \in Sane => NobodyDangles
    BY DEF Sane, Sound, NobodyDangles
  <1>2. QED BY AlwaysSane, <1>1, PTL

\* num_followers is the number of mobs that follow a player, and at most max_orders, for every
\* bound on it: every way out of a company counts down once, every way in counts up.
THEOREM FollowersAlwaysCounted == CompanySpec => []FollowersCounted
  <1>1. w \in Sane => FollowersCounted
    BY DEF Sane, Sound, FollowersCounted
  <1>2. QED BY AlwaysSane, <1>1, PTL

-----------------------------------------------------------------------------
(* How fights begin                                                          *)

\* Whoever fights is in the position of one who does.
Fierce(x) == \A d \in Person : x.fighting[d] # Nil => x.pos[d] = "fighting"

\* No fight of y is one that did not go on in x.
NoneBegan(x, y) == \A d \in Person : y.fighting[d] \in {x.fighting[d], Nil}

\* From x to y no fight begins, whoever fights on is where he was, and only people of M go
\* somewhere else.
Calm(x, y, M) ==
    /\ \A d \in Person : y.fighting[d] # Nil =>
          /\ y.fighting[d] = x.fighting[d] /\ y.at[d] = x.at[d]
          /\ x.pos[d] = "fighting" => y.pos[d] = "fighting"
    /\ \A d \in Person \ M : y.at[d] = x.at[d]

Standing(x) == {d \in Person : x.pos[d] = "standing"}

LEMMA CalmTwice ==
    ASSUME NEW x, NEW y, NEW z, NEW M, NEW N, NEW K, Calm(x, y, M), Calm(y, z, N), M \subseteq K, N \subseteq K
    PROVE  Calm(x, z, K)
  BY DEF Calm

LEMMA CalmBegins ==
    ASSUME NEW x, NEW y, NEW M, Calm(x, y, M)
    PROVE  /\ NoneBegan(x, y) /\ (Fierce(x) => Fierce(y))
           /\ \A c \in Person : Unfought(x, c) => Unfought(y, c)
  BY DEF Calm, NoneBegan, Fierce, Unfought

\* Nobody comes to ride.
Lighter(x, y) == \A p \in Player : y.riding[p] \in {x.riding[p], Nil}

LEMMA LighterRidden == ASSUME NEW x, NEW y, Lighter(x, y) PROVE Ridden(y) \subseteq Ridden(x)
  BY CompanyConstants DEF Lighter, Ridden

\* What is only said of others leaves fights alone.
LEMMA LedCalm == ASSUME NEW x, NEW y, SameButLed(x, y) PROVE Calm(x, y, {}) /\ y.riding = x.riding
  BY DEF SameButLed, Calm

LEMMA EndingCalm ==
    ASSUME NEW x \in World, NEW c \in Person, NEW both \in BOOLEAN
    PROVE  Calm(x, StopFighting(x, c, both), {})
  <1> USE CompanyConstants
  <1> DEFINE y == StopFighting(x, c, both)
             S == {c} \cup (IF both THEN Enemies(x, c) ELSE {})
             fg == [f \in Person |-> IF f \in S THEN Nil ELSE x.fighting[f]]
             ps == [f \in Person |-> IF f \in S THEN Stand(x, f) ELSE x.pos[f]]
  <1>1. y = [x EXCEPT !.fighting = fg, !.pos = ps]
    BY DEF StopFighting, World
  <1>2. \A d \in Person : fg[d] # Nil => fg[d] = x.fighting[d] /\ ps[d] = x.pos[d]
    OBVIOUS
  <1> HIDE DEF fg, ps, y
  <1>3. y.at = x.at /\ y.fighting = fg /\ y.pos = ps
    BY <1>1 DEF World
  <1>4. Calm(x, y, {})
    BY <1>2, <1>3 DEF Calm
  <1>5. QED BY <1>4 DEF y

LEMMA DisengagingCalm ==
    ASSUME NEW x \in World, NEW c \in Person
    PROVE  LET y == Disengaged(x, c) IN y \in World /\ Calm(x, y, {}) /\ y.fighting[c] = Nil /\ SameBut(x, y)
  <1>1. TRUE \in BOOLEAN
    OBVIOUS
  <1>2. CASE x.fighting[c] # Nil
    <2>1. Disengaged(x, c) = StopFighting(x, c, TRUE)
      BY <1>2 DEF Disengaged
    <2>2. QED BY <1>1, <2>1, FightEnds, EndingCalm, Zenon
  <1>3. CASE x.fighting[c] = Nil
    BY <1>3 DEF Disengaged, SameBut, Calm
  <1>4. QED BY <1>2, <1>3

LEMMA PlacingCalm ==
    ASSUME NEW x \in World, NEW c \in Person, NEW r \in Room
    PROVE  LET y == Placed(x, c, r) IN y \in World /\ Calm(x, y, {c}) /\ y.riding = x.riding
  <1>1. PICK u \in World : u = Disengaged(x, c) /\ Calm(x, u, {}) /\ u.fighting[c] = Nil /\ SameBut(x, u)
    BY DisengagingCalm, Zenon
  <1>2. r \in Room \cup {Nil}
    OBVIOUS
  <1>3. PICK y \in World : y = SetAt(u, c, r) /\ SameButAt(u, y) /\ y.at = [u.at EXCEPT ![c] = r]
    BY <1>2, Setting
  <1>4. Calm(u, y, {c})
    BY <1>1, <1>3, Fields DEF SameButAt, Calm
  <1>5. Calm(x, y, {c})
    BY <1>1, <1>4, CalmTwice
  <1>6. y.riding = x.riding /\ y = Placed(x, c, r)
    BY <1>1, <1>3 DEF SameBut, SameButAt, Placed
  <1>7. QED BY <1>5, <1>6

LEMMA ShiftingCalm ==
    ASSUME NEW x \in World, NEW c \in Person, NEW r \in Room
    PROVE  LET y == Shift(x, c, r) IN y \in World /\ Calm(x, y, {c} \cup Ridden(x)) /\ y.riding = x.riding
  <1> DEFINE K == {c} \cup Ridden(x)
  <1>1. PICK u \in World : u = Placed(x, c, r) /\ Calm(x, u, {c}) /\ u.riding = x.riding
    BY PlacingCalm, Zenon
  <1>2. PICK y \in World : y = Followed(u, c, r) /\ Calm(u, y, K) /\ y.riding = u.riding
    <2>1. CASE Mounted(u, c, r)
      <3> DEFINE m == u.riding[c]
      <3>1. m \in Person /\ m \in K /\ Followed(u, c, r) = Placed(u, m, r)
        BY <1>1, <2>1, Fields, CompanyConstants DEF Mounted, Followed, Ridden
      <3> HIDE DEF m, K
      <3>2. PICK y \in World : y = Placed(u, m, r) /\ Calm(u, y, {m}) /\ y.riding = u.riding
        BY <3>1, PlacingCalm, Zenon
      <3>3. Calm(u, y, K)
        BY <3>1, <3>2 DEF Calm
      <3>4. QED BY <3>1, <3>2, <3>3
    <2>2. CASE ~Mounted(u, c, r)
      BY <1>1, <2>2 DEF Followed, Calm
    <2>3. QED BY <2>1, <2>2
  <1>3. Shift(x, c, r) = y
    BY <1>1, <1>2 DEF Shift
  <1>4. Calm(x, y, K)
    <2>1. {c} \subseteq K /\ K \subseteq K
      OBVIOUS
    <2> HIDE DEF K
    <2>2. QED BY <1>1, <1>2, <2>1, CalmTwice
  <1>5. QED BY <1>1, <1>2, <1>3, <1>4

LEMMA ShiftingAllCalm ==
    ASSUME NEW x \in World, NEW C \in SUBSET Person, NEW r \in Room
    PROVE  LET y == ShiftAll(x, C, r) IN y \in World /\ Calm(x, y, C \cup Ridden(x)) /\ y.riding = x.riding
  <1> DEFINE q == SetToSeq(C)
             n == Cardinality(C)
             M == C \cup Ridden(x)
             came == CHOOSE f : f = [i \in 0 .. n |-> IF i = 0 THEN x ELSE Shift(f[i - 1], q[i], r)]
             K == {k \in 0 .. n : came[k] \in World /\ Calm(x, came[k], M) /\ came[k].riding = x.riding}
  <1>1. ShiftAll(x, C, r) = came[n]
    BY DEF ShiftAll
  <1>2. IsFiniteSet(C)
    BY CompanyConstants, FS_Subset
  <1>3. n \in Nat /\ \A i \in 1 .. n : q[i] \in C
    BY <1>2, Sequence
  <1> HIDE DEF q, n
  <1>4. came = [i \in 0 .. n |-> IF i = 0 THEN x ELSE Shift(came[i - 1], q[i], r)]
    BY <1>3, OnTheWay, SMTT(30)
  <1> HIDE DEF came
  <1>5. 0 \in K
    BY <1>3, <1>4 DEF Calm
  <1>6. ASSUME NEW k \in 1 .. n, k - 1 \in K PROVE k \in K
    <2>1. PICK y \in World : y = came[k - 1] /\ Calm(x, y, M) /\ y.riding = x.riding
      BY <1>6
    <2>2. q[k] \in C /\ q[k] \in Person
      BY <1>3
    <2>3. PICK z \in World : z = Shift(y, q[k], r) /\ Calm(y, z, {q[k]} \cup Ridden(y)) /\ z.riding = y.riding
      BY <2>2, ShiftingCalm, Zenon
    <2>4. came[k] = z
      <3>1. k \in 0 .. n /\ k # 0
        BY <1>3
      <3>2. QED BY <1>4, <2>1, <2>3, <3>1
    <2>5. {q[k]} \cup Ridden(y) \subseteq M
      BY <2>1, <2>2 DEF Ridden
    <2> HIDE DEF M
    <2>6. Calm(x, z, M)
      BY <2>1, <2>3, <2>5, CalmTwice
    <2>7. k \in 0 .. n
      BY <1>3
    <2>8. QED BY <2>1, <2>3, <2>4, <2>6, <2>7
  <1> HIDE DEF K
  <1>7. 0 .. n \subseteq K
    BY <1>3, <1>5, <1>6, Counting
  <1>8. n \in K
    BY <1>3, <1>7
  <1>9. QED BY <1>1, <1>8 DEF K

\* Only those who stand come along.
LEMMA StandingBy == ASSUME NEW x, NEW c \in Person, NEW r PROVE Party(x, c, r) \subseteq {c} \cup Standing(x)
  <1> DEFINE S == {c} \cup Standing(x)
  <1>1. S \in SUBSET Person /\ c \in S /\ \A m \in S, d \in Person : Follows(x, d, m, r) => d \in S
    BY DEF Standing, Follows
  <1>2. QED BY <1>1 DEF Party

LEMMA MovingCalm ==
    ASSUME NEW x \in World, NEW c \in Person, NEW r \in Room
    PROVE  LET y == MoveChar(x, c, r) IN y \in World /\ Calm(x, y, {c} \cup Ridden(x) \cup Standing(x)) /\ y.riding = x.riding
  <1> DEFINE K == {c} \cup Ridden(x) \cup Standing(x)
  <1>1. CASE CanGo(x, c, r)
    <2>1. PICK u \in World : u = Shift(x, c, r) /\ Calm(x, u, {c} \cup Ridden(x)) /\ u.riding = x.riding
      BY ShiftingCalm, Zenon
    <2> DEFINE C == Party(x, c, r) \ {c}
    <2>2. C \in SUBSET Person /\ C \subseteq Standing(x)
      BY StandingBy DEF Party
    <2>3. PICK y \in World : y = ShiftAll(u, C, r) /\ Calm(u, y, C \cup Ridden(u)) /\ y.riding = u.riding
      BY <2>2, ShiftingAllCalm, Zenon
    <2>4. MoveChar(x, c, r) = y
      BY <1>1, <2>1, <2>3 DEF MoveChar
    <2>5. Ridden(u) = Ridden(x)
      BY <2>1 DEF Ridden
    <2> HIDE DEF C
    <2>6. {c} \cup Ridden(x) \subseteq K /\ C \cup Ridden(u) \subseteq K
      BY <2>2, <2>5
    <2> HIDE DEF K
    <2>7. Calm(x, y, K)
      BY <2>1, <2>3, <2>6, CalmTwice
    <2>8. QED BY <2>1, <2>3, <2>4, <2>7 DEF K
  <1>2. CASE ~CanGo(x, c, r)
    BY <1>2 DEF MoveChar, Calm
  <1>3. QED BY <1>1, <1>2

LEMMA ThrowingCalm ==
    ASSUME NEW x \in World, NEW c \in Person
    PROVE  LET y == Thrown(x, c) IN Calm(x, y, {})
  <1>1. CASE \E p \in Player : x.riding[p] = c
    <2> DEFINE p == CHOOSE p \in Player : x.riding[p] = c
    <2>1. p \in Player /\ p \in Person /\ x.riding[p] # Nil
      BY <1>1, CompanyConstants
    <2>2. Thrown(x, c) = Dismounted(x, p)
      BY <1>1 DEF Thrown
    <2> HIDE DEF p
    <2> DEFINE y == Dismounted(x, p)
               rg == [x.riding EXCEPT ![p] = Nil]
               rd == [x.rider EXCEPT ![x.riding[p]] = Nil]
               ps == [x.pos EXCEPT ![p] = IF x.pos[p] = "fighting" THEN x.pos[p] ELSE "standing"]
    <2>3. y = [x EXCEPT !.riding = rg, !.rider = rd, !.pos = ps]
      BY DEF World, Dismounted
    <2>4. \A d \in Person : x.pos[d] = "fighting" => ps[d] = "fighting"
      BY <2>1, Fields
    <2> HIDE DEF y, rg, rd, ps
    <2>5. y.at = x.at /\ y.fighting = x.fighting /\ y.pos = ps
      BY <2>3 DEF World
    <2>6. Calm(x, y, {})
      BY <2>4, <2>5 DEF Calm
    <2>7. QED BY <2>2, <2>6 DEF y
  <1>2. CASE ~ \E p \in Player : x.riding[p] = c
    BY <1>2 DEF Thrown, Calm
  <1>3. QED BY <1>1, <1>2

LEMMA HuntsEndCalm ==
    ASSUME NEW x \in World, NEW c \in Person
    PROVE  Calm(x, EndHunts(x, c), {}) /\ EndHunts(x, c).riding = x.riding
  <1> DEFINE y == EndHunts(x, c)
  <1>1. y.at = x.at /\ y.fighting = x.fighting /\ y.pos = x.pos /\ y.riding = x.riding
    BY DEF World, EndHunts
  <1>2. QED BY <1>1 DEF Calm

LEMMA UnhorsingCalm ==
    ASSUME NEW x \in World, NEW c \in Person
    PROVE  Calm(x, Unhorsed(x, c), {})
  <1> DEFINE y == Unhorsed(x, c)
  <1>1. y.at = x.at /\ y.fighting = x.fighting /\ y.pos = x.pos
    BY DEF World, Unhorsed
  <1>2. QED BY <1>1 DEF Calm

LEMMA FreshCalm ==
    ASSUME NEW x \in World, NEW c \in Person, x.fighting[c] = Nil
    PROVE  Calm(x, Fresh(x, c), {c})
  <1> DEFINE y == Fresh(x, c)
  <1>1. y.at = [x.at EXCEPT ![c] = Nil] /\ y.fighting = x.fighting /\ y.pos = [x.pos EXCEPT ![c] = "standing"]
    BY DEF World, Fresh
  <1>2. QED BY <1>1, Fields DEF Calm

LEMMA ExtractingCalm ==
    ASSUME NEW x \in World, Sound(x), NEW c \in Person
    PROVE  Calm(x, Extract(x, c), {c}) /\ Unfought(Extract(x, c), c)
  <1>1. PICK a \in World : a = DieFollower(x, c) /\ SameButLed(x, a)
    BY Leaderless, Zenon
  <1>2. PICK b \in World : b = StopFighting(a, c, TRUE) /\ Calm(a, b, {}) /\ Unfought(b, c)
    <2>1. TRUE \in BOOLEAN
      OBVIOUS
    <2>2. QED BY <2>1, FightEnds, EndingCalm, Zenon
  <1>3. Nil \in Room \cup {Nil}
    OBVIOUS
  <1>4. PICK u \in World : u = SetAt(b, c, Nil) /\ SameButAt(b, u) /\ u.at = [b.at EXCEPT ![c] = Nil]
    BY <1>3, Setting
  <1>5. PICK e \in World : e = Thrown(u, c) /\ Calm(u, e, {})
    BY Throwing, ThrowingCalm, Zenon
  <1>6. PICK h \in World : h = EndHunts(e, c) /\ Calm(e, h, {})
    BY HuntsEnd, HuntsEndCalm, Zenon
  <1>7. PICK v \in World : v = Unhorsed(h, c) /\ Calm(h, v, {})
    BY Unhorsing, UnhorsingCalm, Zenon
  <1>8. Calm(x, a, {c})
    BY <1>1, LedCalm DEF Calm
  <1>9. Calm(a, b, {c})
    BY <1>2 DEF Calm
  <1>10. Calm(b, u, {c})
    <2>1. SameButAt(b, u) /\ u.at = [b.at EXCEPT ![c] = Nil] /\ Unfought(b, c)
      BY <1>2, <1>4
    <2>2. u.fighting = b.fighting /\ u.pos = b.pos
      BY <2>1 DEF SameButAt
    <2>3. \A d \in Person \ {c} : u.at[d] = b.at[d]
      BY <2>1, Fields
    <2>4. QED BY <2>1, <2>2, <2>3 DEF Calm, Unfought
  <1>11. Calm(u, v, {c})
    BY <1>5, <1>6, <1>7 DEF Calm
  <1>12. Calm(x, b, {c})
    BY <1>8, <1>9, CalmTwice
  <1>13. Calm(b, v, {c})
    BY <1>10, <1>11, CalmTwice
  <1>14. Unfought(v, c)
    BY <1>2, <1>13, CalmBegins
  <1>15. Calm(v, Fresh(v, c), {c})
    BY <1>14, FreshCalm DEF Unfought
  <1>16. Calm(b, Fresh(v, c), {c})
    BY <1>13, <1>15, CalmTwice
  <1>17. Calm(x, Fresh(v, c), {c}) /\ Unfought(Fresh(v, c), c)
    BY <1>2, <1>12, <1>16, CalmTwice, CalmBegins
  <1>18. Extract(x, c) = Fresh(v, c)
    BY <1>1, <1>2, <1>4, <1>5, <1>6, <1>7 DEF Extract, Forgotten
  <1>19. QED BY <1>17, <1>18

LEMMA ExtractingLightens ==
    ASSUME NEW x \in World, Sound(x), NEW c \in Person
    PROVE  Lighter(x, Extract(x, c))
  <1>1. PICK a \in World : a = DieFollower(x, c) /\ SameButLed(x, a)
    BY Leaderless, Zenon
  <1>2. PICK b \in World : b = StopFighting(a, c, TRUE) /\ SameBut(a, b)
    <2>1. TRUE \in BOOLEAN
      OBVIOUS
    <2>2. QED BY <2>1, FightEnds, Zenon
  <1>3. Nil \in Room \cup {Nil}
    OBVIOUS
  <1>4. PICK u \in World : u = SetAt(b, c, Nil) /\ SameButAt(b, u)
    BY <1>3, Setting
  <1>5. PICK v \in World : v = Forgotten(u, c) /\ Fewer(u, v)
    BY Forgetting, Zenon
  <1>6. PICK y \in World : y = Fresh(v, c) /\ Nothing(v, c, y)
    BY Freshening, Zenon
  <1>7. u.riding = x.riding
    BY <1>1, <1>2, <1>4 DEF SameButLed, SameBut, SameButAt
  <1>8. Lighter(x, y)
    BY <1>5, <1>6, <1>7 DEF Fewer, Nothing, Lighter
  <1>9. Extract(x, c) = y
    BY <1>1, <1>2, <1>4, <1>5, <1>6 DEF Extract
  <1>10. QED BY <1>8, <1>9

\* Where somebody who fights nobody is moved, nobody comes to fight him.
LEMMA FetchingCalm ==
    ASSUME NEW x \in World, NEW c \in Person, NEW r \in Room
    PROVE  LET y == Shift(StopFighting(x, c, TRUE), c, r) IN
           y \in World /\ Calm(x, y, {c} \cup Ridden(x)) /\ Unfought(y, c) /\ Lighter(x, y)
  <1> DEFINE K == {c} \cup Ridden(x)
  <1>1. PICK u \in World : u = StopFighting(x, c, TRUE) /\ Calm(x, u, {}) /\ Unfought(u, c) /\ SameBut(x, u)
    <2>1. TRUE \in BOOLEAN
      OBVIOUS
    <2>2. QED BY <2>1, FightEnds, EndingCalm, Zenon
  <1>2. PICK y \in World : y = Shift(u, c, r) /\ Calm(u, y, {c} \cup Ridden(u)) /\ y.riding = u.riding
    BY ShiftingCalm, Zenon
  <1>3. Ridden(u) = Ridden(x)
    BY <1>1 DEF Ridden, SameBut
  <1>4. Calm(x, y, K)
    <2>1. Calm(x, u, {}) /\ Calm(u, y, K)
      BY <1>1, <1>2, <1>3
    <2>2. QED BY <2>1 DEF Calm
  <1>5. Unfought(y, c) /\ Lighter(x, y)
    BY <1>1, <1>2, CalmBegins DEF SameBut, Lighter
  <1>6. QED BY <1>1, <1>2, <1>4, <1>5

LEMMA KillingCalm ==
    ASSUME NEW x \in World, Sound(x), NEW c \in Person, x.at[c] # Nil
    PROVE  LET z == RawKill(x, c) IN
           /\ Calm(x, z, IF c \in Mob THEN {c} ELSE {c} \cup Ridden(x)) /\ Unfought(z, c)
           /\ (c \in Mob => z.at[c] = Nil) /\ Lighter(x, z)
  <1>1. TRUE \in BOOLEAN
    OBVIOUS
  <1>2. PICK u \in World : u = StopFighting(x, c, TRUE) /\ Fewer(x, u) /\ Calm(x, u, {}) /\ Unfought(u, c) /\ SameBut(x, u)
    BY <1>1, FightEnds, EndingCalm, Zenon
  <1>3. PICK y \in World : y = EndHunts(u, c) /\ Fewer(u, y) /\ Calm(u, y, {}) /\ y.riding = u.riding
    BY HuntsEnd, HuntsEndCalm, Zenon
  <1>4. Sound(y) /\ Unfought(y, c) /\ Calm(x, y, {}) /\ Ridden(y) = Ridden(x) /\ y.riding = x.riding
    <2>1. Fewer(x, y)
      BY <1>2, <1>3, FewerTwice
    <2>2. Sound(y)
      BY <2>1, FewerSound, Zenon
    <2>3. Calm(x, u, {}) /\ Calm(u, y, {}) /\ Unfought(u, c)
      BY <1>2, <1>3
    <2>5. Unfought(y, c)
      BY <2>3 DEF Calm, Unfought
    <2>6. Calm(x, y, {})
      BY <2>3 DEF Calm
    <2>4. Ridden(y) = Ridden(x) /\ y.riding = x.riding
      BY <1>2, <1>3 DEF Ridden, SameBut
    <2>7. QED BY <2>2, <2>4, <2>5, <2>6
  <1>5. RawKill(x, c) = IF c \in Mob THEN Extract(y, c) ELSE Revived(Shift(y, c, Moribund), c)
    BY <1>2, <1>3 DEF RawKill
  <1>6. CASE c \in Mob
    <2>1. Calm(y, Extract(y, c), {c}) /\ Unfought(Extract(y, c), c) /\ Extract(y, c).at = [y.at EXCEPT ![c] = Nil]
      BY <1>4, Extracting, ExtractingCalm, Zenon
    <2>2. Calm(x, Extract(y, c), {c})
      BY <1>4, <2>1, CalmTwice
    <2>3. Extract(y, c).at[c] = Nil
      BY <2>1, Fields
    <2>5. Lighter(x, Extract(y, c))
      BY <1>4, ExtractingLightens DEF Lighter
    <2>4. QED BY <2>5, <1>5, <1>6, <2>1, <2>2, <2>3
  <1>7. CASE c \notin Mob
    <2> DEFINE K == {c} \cup Ridden(x)
    <2>1. Moribund \in Room
      BY CompanyConstants
    <2>2. PICK z \in World : z = Shift(y, c, Moribund) /\ Calm(y, z, K) /\ z.riding = y.riding
      BY <1>4, <2>1, ShiftingCalm, Zenon
    <2>3. Unfought(z, c)
      BY <1>4, <2>2, CalmBegins
    <2>4. Calm(z, Revived(z, c), {}) /\ Unfought(Revived(z, c), c)
      <3> DEFINE v == Revived(z, c)
      <3>1. v.at = z.at /\ v.fighting = z.fighting /\ v.pos = [z.pos EXCEPT ![c] = "resting"]
        BY DEF World, Revived
      <3>2. QED BY <2>3, <3>1, Fields DEF Calm, Unfought
    <2>5. {} \subseteq K /\ K \subseteq K
      OBVIOUS
    <2> HIDE DEF K
    <2>6. Calm(x, z, K)
      BY <1>4, <2>2, <2>5, CalmTwice
    <2>7. Calm(x, Revived(z, c), K)
      BY <2>4, <2>5, <2>6, CalmTwice
    <2>9. Lighter(x, Revived(z, c))
      <3>1. Revived(z, c).riding = z.riding
        BY DEF World, Revived
      <3>2. QED BY <1>4, <2>2, <3>1 DEF Lighter
    <2>8. QED BY <1>5, <1>7, <2>2, <2>4, <2>7, <2>9 DEF K
  <1>8. QED BY <1>6, <1>7

-----------------------------------------------------------------------------
(* What a blow makes of the fights *)

\* Both stay where they are, and at most the fight of v, a player, ends.
Stays(x, y, v) ==
    /\ y.at = x.at /\ y.riding = x.riding /\ (Fierce(x) => Fierce(y))
    /\ \A d \in Person : y.fighting[d] = x.fighting[d] \/ (d = v /\ v \in Player /\ y.fighting[d] = Nil)

\* v is out of it, and those of M may be elsewhere.
Leaves(x, y, v, M) == Calm(x, y, M) /\ Unfought(y, v) /\ Lighter(x, y)

LEMMA FleeingCalm ==
    ASSUME NEW x \in World, Sound(x), NEW c \in Person, NEW z \in Flee(x, c)
    PROVE  \/ Stays(x, z, c)
           \/ Leaves(x, z, c, {c} \cup Ridden(x) \cup Standing(x)) /\ z.at[c] # x.at[c]
  <1> DEFINE v == x.fighting[c]
             M == {c} \cup Ridden(x) \cup Standing(x)
             outcome(r) == LET y == MoveChar(x, c, r)
                               u == StopFighting(y, c, TRUE) IN
                           IF y.at[c] = x.at[c] THEN {x}
                           ELSE {u} \cup IF v \in Wild THEN {[u EXCEPT !.hunting[v] = c]} ELSE {}
  <1>1. CASE v = Nil
    <2>1. z = [x EXCEPT !.pos[c] = IF x.pos[c] = "fighting" THEN "standing" ELSE x.pos[c]]
      BY <1>1 DEF Flee, World
    <2>2. z.at = x.at /\ z.riding = x.riding /\ z.fighting = x.fighting /\ \A d \in Person \ {c} : z.pos[d] = x.pos[d]
      BY <2>1 DEF World
    <2>3. Stays(x, z, c)
      BY <1>1, <2>2 DEF Stays, Fierce
    <2>4. QED BY <2>3
  <1>2. CASE v # Nil
    <2>1. x \in World /\ Flee(x, c) = UNION {outcome(r) : r \in Room \ {x.at[c]}}
      BY <1>2 DEF Flee
    <2> HIDE DEF outcome
    <2>2. PICK r \in Room : z \in outcome(r)
      BY <2>1
    <2> USE DEF outcome
    <2>3. PICK y \in World : y = MoveChar(x, c, r) /\ Calm(x, y, M) /\ y.riding = x.riding
      BY MovingCalm, Zenon
    <2>4. PICK u \in World : u = StopFighting(y, c, TRUE) /\ Calm(y, u, {}) /\ Unfought(u, c) /\ SameBut(y, u)
      <3>1. TRUE \in BOOLEAN
        OBVIOUS
      <3>2. QED BY <3>1, FightEnds, EndingCalm, Zenon
    <2>5. z = x \/ (y.at[c] # x.at[c] /\ (z = u \/ z = [u EXCEPT !.hunting[v] = c]))
      BY <2>2, <2>3, <2>4
    <2> HIDE DEF M
    <2>6. CASE z = x
      BY <2>6 DEF Stays
    <2>7. CASE y.at[c] # x.at[c] /\ (z = u \/ z = [u EXCEPT !.hunting[v] = c])
      <3>1. z.at = u.at /\ z.fighting = u.fighting /\ z.pos = u.pos /\ z.riding = u.riding
        BY <2>7 DEF World
      <3>2. Calm(x, y, M) /\ Calm(y, u, {}) /\ Unfought(u, c)
        BY <2>3, <2>4
      <3>3. Calm(x, u, M)
        BY <3>2 DEF Calm
      <3>4. Calm(x, z, M) /\ Unfought(z, c)
        BY <3>1, <3>2, <3>3 DEF Calm, Unfought
      <3>5. z.at[c] # x.at[c]
        BY <2>4, <2>7, <3>1 DEF SameBut
      <3>7. Lighter(x, z)
        BY <2>3, <2>4, <3>1 DEF SameBut, Lighter
      <3>6. QED BY <3>4, <3>5, <3>7 DEF Leaves, M
    <2>8. QED BY <2>5, <2>6, <2>7
  <1>3. QED BY <1>1, <1>2

LEMMA HurtingStays ==
    ASSUME NEW x \in World, NEW c \in Person, c \in Player, NEW h \in {"stunned", "down"}
    PROVE  Stays(x, Hurt(x, c, h), c)
  <1>1. h \in {"well", "stunned", "down"} /\ FALSE \in BOOLEAN
    OBVIOUS
  <1> DEFINE u == [x EXCEPT !.health[c] = h]
             y == StopFighting(u, c, FALSE)
             fg == [f \in Person |-> IF f = c THEN Nil ELSE x.fighting[f]]
             ps == [f \in Person |-> IF f = c THEN Stand(u, f) ELSE x.pos[f]]
  <1>2. u \in World /\ Alike(x, u) /\ u.pos = x.pos
    BY <1>1, Ailing DEF World
  <1>3. y = [u EXCEPT !.fighting = fg, !.pos = ps]
    BY <1>2 DEF StopFighting, World, Alike
  <1> HIDE DEF u
  <1>4. y.at = x.at /\ y.riding = x.riding /\ y.fighting = fg /\ y.pos = ps
    BY <1>2, <1>3 DEF World, Alike
  <1>5. y = Hurt(x, c, h)
    BY DEF Hurt, u
  <1> HIDE DEF y
  <1>6. Stays(x, y, c)
    BY <1>4 DEF Stays, Fierce
  <1>7. QED BY <1>5, <1>6

\* c sets on v, unless he fights already.
SetOn(x, y, c, v) ==
    /\ y.at = x.at /\ y.riding = x.riding
    /\ x.fighting[c] # Nil => y = x
    /\ x.fighting[c] = Nil => y.fighting = [x.fighting EXCEPT ![c] = v] /\ y.pos = [x.pos EXCEPT ![c] = "fighting"]

LEMMA SettingOn ==
    ASSUME NEW x \in World, NEW c \in Person, NEW v \in Person
    PROVE  SetFighting(x, c, v) \in World /\ SetOn(x, SetFighting(x, c, v), c, v)
  BY DEF SetFighting, World, Position, SetOn

\* How y, in which c and v have taken notice of each other, follows x.
Clash(x, y, c, v) ==
    /\ y.at = x.at /\ y.riding = x.riding /\ (Fierce(x) => Fierce(y))
    /\ \A d \in Person :
          \/ y.fighting[d] = x.fighting[d]
          \/ x.fighting[d] = Nil /\ d = c /\ y.fighting[d] = v
          \/ x.fighting[d] = Nil /\ d = v /\ y.fighting[d] = c
    /\ \/ y.fighting = x.fighting /\ y.pos = x.pos /\ (c = v \/ ~IsAwake(x, v))
       \/ c # v /\ y.fighting[c] # Nil /\ y.fighting[v] # Nil

LEMMA MeetingClash ==
    ASSUME NEW x \in World, NEW c \in Person, NEW v \in Person
    PROVE  Clash(x, Met(x, c, v), c, v)
  <1> USE CompanyConstants
  <1>1. CASE c = v \/ ~IsAwake(x, v)
    BY <1>1 DEF Met, Clash
  <1>2. CASE ~(c = v \/ ~IsAwake(x, v))
    <2>1. PICK y \in World : y = SetFighting(x, v, c) /\ SetOn(x, y, v, c)
      BY SettingOn, Zenon
    <2>2. "fighting" \in Position
      BY DEF Position
    <2>3. PICK z \in World : z = [y EXCEPT !.pos[v] = "fighting"] /\ Alike(y, z)
      BY <2>2, Posing, Zenon
    <2>4. z.pos = [y.pos EXCEPT ![v] = "fighting"] /\ z.at = y.at /\ z.riding = y.riding /\ z.fighting = y.fighting
      BY <2>3 DEF World
    <2>5. PICK u \in World : u = SetFighting(z, c, v) /\ SetOn(z, u, c, v)
      BY SettingOn, Zenon
    <2>6. Met(x, c, v) = u
      BY <1>2, <2>1, <2>3, <2>5 DEF Met
    <2>7. \A d \in Person : z.fighting[d] = IF d = v /\ x.fighting[v] = Nil THEN c ELSE x.fighting[d]
      BY <2>1, <2>4, Fields DEF SetOn
    <2>8. \A d \in Person : u.fighting[d] = IF d = c /\ z.fighting[c] = Nil THEN v ELSE z.fighting[d]
      BY <2>5, Fields DEF SetOn
    <2>9. \A d \in Person : x.pos[d] = "fighting" => z.pos[d] = "fighting"
      BY <2>1, <2>4, Fields DEF SetOn
    <2>10. \A d \in Person : z.pos[d] = "fighting" => u.pos[d] = "fighting"
      BY <2>5, Fields DEF SetOn
    <2>11. z.pos[v] = "fighting" /\ (z.fighting[c] = Nil => u.pos[c] = "fighting")
      BY <2>4, <2>5, Fields DEF SetOn
    <2>12. Fierce(x) => Fierce(u)
      BY <2>7, <2>8, <2>9, <2>10, <2>11 DEF Fierce
    <2>13. u.at = x.at /\ u.riding = x.riding
      BY <2>1, <2>4, <2>5 DEF SetOn
    <2>14. c # v
      BY <1>2
    <2>15. u.fighting[c] # Nil /\ u.fighting[v] # Nil
      BY <2>7, <2>8, <2>14
    <2>16. \A d \in Person :
              \/ u.fighting[d] = x.fighting[d]
              \/ x.fighting[d] = Nil /\ d = c /\ u.fighting[d] = v
              \/ x.fighting[d] = Nil /\ d = v /\ u.fighting[d] = c
      BY <2>7, <2>8, <2>14
    <2>17. Clash(x, u, c, v)
      BY <2>12, <2>13, <2>14, <2>15, <2>16 DEF Clash
    <2>18. QED BY <2>6, <2>17
  <1>3. QED BY <1>1, <1>2

\* The two have met, and v is free of c.
Struck(x, c, v) == LET m == Met(x, c, v) IN IF c # v /\ m.master[v] = c THEN StopFollower(m, v) ELSE m

LEMMA Striking ==
    ASSUME NEW x \in World, Sound(x), NEW c \in Person, NEW v \in Person, Together(x, c, v)
    PROVE  Struck(x, c, v) \in World /\ Sound(Struck(x, c, v)) /\ Clash(x, Struck(x, c, v), c, v)
  <1>1. x.at[c] # Nil /\ x.at[v] # Nil
    BY DEF Together
  <1>2. PICK m \in World : m = Met(x, c, v) /\ Sound(m) /\ Clash(x, m, c, v)
    BY <1>1, Meeting, MeetingClash, Zenon
  <1>3. PICK u \in World : u = StopFollower(m, v) /\ Sound(u) /\ SameButLed(m, u)
    BY <1>2, StoppingToFollow, Zenon
  <1>4. Clash(x, u, c, v)
    BY <1>2, <1>3 DEF Clash, SameButLed, Fierce
  <1>5. Struck(x, c, v) = m \/ Struck(x, c, v) = u
    BY <1>2, <1>3 DEF Struck
  <1>6. QED BY <1>2, <1>3, <1>4, <1>5

\* What may come of a blow of c at v, once they have met: all stay, v goes or c, a mob, dies.
Outcome(y, z, c, v) ==
    \/ Stays(y, z, v)
    \/ /\ Leaves(y, z, v, {v} \cup Ridden(y) \cup (Standing(y) \ {c}))
       /\ v \in Mob => z.at[v] # y.at[v] /\ (c = v => z.at[v] = Nil)
    \/ c \in Mob /\ c # v /\ Leaves(y, z, c, {c}) /\ z.at[c] = Nil

LEMMA LeavesMore ==
    ASSUME NEW y, NEW z, NEW v, NEW M, NEW N, Leaves(y, z, v, M), M \subseteq N
    PROVE  Leaves(y, z, v, N)
  BY DEF Leaves, Calm

LEMMA Outcomes ==
    ASSUME NEW x \in World, Sound(x), Fierce(x), NEW c \in Person, NEW v \in Person, Together(x, c, v),
           NEW z \in Blow(x, c, v)
    PROVE  z \in Sane /\ Fierce(z) /\ Outcome(Struck(x, c, v), z, c, v)
  <1>1. x.at[c] # Nil /\ x.at[v] # Nil
    BY DEF Together
  <1>2. PICK y \in World : y = Struck(x, c, v) /\ Sound(y) /\ Clash(x, y, c, v)
    BY Striking, Zenon
  <1>3. Fierce(y) /\ y.at[c] # Nil /\ y.at[v] # Nil
    BY <1>1, <1>2 DEF Clash
  <1>4. z \in Sane
    BY OneBlow, Zenon
  <1> DEFINE M == {v} \cup Ridden(y) \cup (Standing(y) \ {c})
  <1>5. Outcome(y, z, c, v)
    <2>1. CASE z = y
      BY <2>1 DEF Outcome, Stays
    <2>2. CASE z = RawKill(y, v)
      <3>1. Calm(y, z, IF v \in Mob THEN {v} ELSE {v} \cup Ridden(y)) /\ Unfought(z, v) /\ (v \in Mob => z.at[v] = Nil) /\ Lighter(y, z)
        BY <1>2, <1>3, <2>2, KillingCalm, Zenon
      <3>2. Leaves(y, z, v, M)
        BY <3>1, LeavesMore DEF Leaves
      <3>3. v \in Mob => z.at[v] # y.at[v] /\ z.at[v] = Nil
        BY <1>3, <3>1
      <3>4. QED BY <3>2, <3>3 DEF Outcome
    <2>3. ASSUME v \in Player, NEW h \in {"stunned", "down"}, z = Hurt(y, v, h) PROVE Outcome(y, z, c, v)
      BY <2>3, HurtingStays DEF Outcome
    <2>4. CASE c \in Mob /\ c # v /\ z = RawKill(y, c)
      <3>1. Calm(y, z, {c}) /\ Unfought(z, c) /\ Lighter(y, z) /\ z.at[c] = Nil
        <4>1. Calm(y, z, IF c \in Mob THEN {c} ELSE {c} \cup Ridden(y)) /\ Unfought(z, c) /\ (c \in Mob => z.at[c] = Nil) /\ Lighter(y, z)
          BY <1>2, <1>3, <2>4, KillingCalm, Zenon
        <4>2. QED BY <2>4, <4>1
      <3>2. QED BY <2>4, <3>1 DEF Outcome, Leaves
    <2>5. CASE c # v /\ y.pos[v] = "fighting" /\ z \in Flee(y, v)
      <3>1. \/ Stays(y, z, v)
            \/ Leaves(y, z, v, {v} \cup Ridden(y) \cup Standing(y)) /\ z.at[v] # y.at[v]
        BY <1>2, <2>5, FleeingCalm, Zenon
      <3>2. c \notin Standing(y)
        <4>1. y.fighting[c] # Nil
          BY <1>2, <2>5 DEF Clash, IsAwake
        <4>2. QED BY <1>3, <4>1 DEF Fierce, Standing
      <3>3. {v} \cup Ridden(y) \cup Standing(y) \subseteq M
        BY <3>2
      <3>4. QED BY <2>5, <3>1, <3>3, LeavesMore DEF Outcome
    <2>6. CASE v \in Player /\ z = Shift(StopFighting(y, v, TRUE), v, Temple)
      <3>1. Calm(y, z, {v} \cup Ridden(y)) /\ Unfought(z, v) /\ Lighter(y, z)
        BY <2>6, CompanyConstants, FetchingCalm, Zenon
      <3>2. Leaves(y, z, v, M)
        BY <3>1, LeavesMore DEF Leaves
      <3>3. v \notin Mob
        BY <2>6, CompanyConstants
      <3>4. QED BY <3>2, <3>3 DEF Outcome
    <2>7. z \in {y, RawKill(y, v)}
              \cup (IF v \in Player THEN {Hurt(y, v, h) : h \in {"stunned", "down"}} ELSE {})
              \cup (IF c \in Mob /\ c # v THEN {RawKill(y, c)} ELSE {})
              \cup (IF c # v /\ Flighty(y, v) /\ y.pos[v] = "fighting" THEN Flee(y, v) ELSE {})
              \cup (IF c \in Mob /\ v \in Player THEN {Shift(StopFighting(y, v, TRUE), v, Temple)} ELSE {})
      BY <1>2 DEF Blow, Struck
    <2>8. QED BY <2>1, <2>2, <2>3, <2>4, <2>5, <2>6, <2>7
  <1>6. Fierce(z)
    <2>1. ASSUME NEW N, Calm(y, z, N) PROVE Fierce(z)
      BY <1>3, <2>1, CalmBegins
    <2>2. Stays(y, z, v) => Fierce(z)
      BY <1>3 DEF Stays
    <2>3. QED BY <1>5, <2>1, <2>2 DEF Outcome, Leaves
  <1>7. QED BY <1>2, <1>4, <1>5, <1>6

-----------------------------------------------------------------------------
(* Blows, and the fights that have begun since b *)

\* Those that have are between c and v.
Between(b, x, c, v) ==
    \A d \in Person : \/ x.fighting[d] \in {b.fighting[d], Nil}
                      \/ d = c /\ x.fighting[d] = v
                      \/ d = v /\ x.fighting[d] = c

Near(b, x, c, v) == Between(b, x, c, v) /\ (NoneBegan(b, x) \/ Together(x, c, v))

\* What FightsBeginTogether says, but for whoever rescues or assists.
Fair(b, z) ==
    \A d \in Person : LET m == z.fighting[d] IN
        \/ m \in {b.fighting[d], Nil}
        \/ Together(z, d, m)
        \/ m \in Mob /\ (m \in Ridden(b) \/ z.at[m] # b.at[m])

Unmoved(x, y) == y.at = x.at /\ y.riding = x.riding

LEMMA NearFair ==
    ASSUME NEW b, NEW z, NEW c \in Person, NEW v \in Person, Near(b, z, c, v)
    PROVE  Fair(b, z)
  BY DEF Near, Between, NoneBegan, Fair, Together

LEMMA NoneFair == ASSUME NEW b, NEW z, NoneBegan(b, z) PROVE Fair(b, z)
  BY DEF NoneBegan, Fair

LEMMA GoneNone ==
    ASSUME NEW b, NEW y, NEW z, NEW c \in Person, NEW v \in Person, Between(b, y, c, v),
           NEW u \in {c, v}, NEW M, Leaves(y, z, u, M)
    PROVE  NoneBegan(b, z)
  <1>1. SUFFICES ASSUME NEW d \in Person, z.fighting[d] # Nil PROVE z.fighting[d] = b.fighting[d]
    BY DEF NoneBegan
  <1>2. z.fighting[d] = y.fighting[d] /\ d # u /\ z.fighting[d] # u
    BY <1>1 DEF Leaves, Calm, Unfought
  <1>3. QED BY <1>1, <1>2 DEF Between

\* What blows between c and v lead to from x.
Traded(b, x, z, c, v) ==
    /\ z \in Sane /\ Fierce(z) /\ Near(b, z, c, v)
    /\ Unmoved(x, z) \/ (NoneBegan(b, z) /\ z.fighting[c] # v)

LEMMA BlowNear ==
    ASSUME NEW x \in World, Sound(x), Fierce(x), NEW c \in Person, NEW v \in Person, NEW b, Near(b, x, c, v),
           NEW z \in Blow(x, c, v)
    PROVE  Traded(b, x, z, c, v)
  <1>1. CASE ~Together(x, c, v)
    <2>1. z = x
      BY <1>1 DEF Blow
    <2>2. QED BY <2>1 DEF Sane, Unmoved, Traded
  <1>2. CASE Together(x, c, v)
    <2>1. z \in Sane /\ Fierce(z) /\ Outcome(Struck(x, c, v), z, c, v)
      BY <1>2, Outcomes, Zenon
    <2>2. PICK y \in World : y = Struck(x, c, v) /\ Clash(x, y, c, v)
      BY <1>2, Striking, Zenon
    <2>3. Between(b, y, c, v)
      BY <2>2 DEF Near, Between, Clash
    <2>4. CASE Stays(y, z, v)
      <3>1. z.at = x.at /\ z.riding = x.riding
        BY <2>2, <2>4 DEF Clash, Stays
      <3>2. Between(b, z, c, v)
        BY <2>3, <2>4 DEF Between, Stays
      <3>3. QED BY <1>2, <2>1, <3>1, <3>2 DEF Near, Together, Unmoved, Traded
    <2>5. ASSUME NEW u \in {c, v}, NEW M, Leaves(y, z, u, M) PROVE NoneBegan(b, z) /\ z.fighting[c] # v
      <3>1. NoneBegan(b, z)
        BY <2>3, <2>5, GoneNone
      <3>2. QED BY <2>5, <3>1, CompanyConstants DEF Leaves, Unfought
    <2>6. NoneBegan(b, z) => Near(b, z, c, v)
      BY DEF Near, Between, NoneBegan
    <2>7. Outcome(y, z, c, v)
      BY <2>1, <2>2
    <2>8. QED BY <2>1, <2>4, <2>5, <2>6, <2>7 DEF Outcome, Traded
  <1>3. QED BY <1>1, <1>2

LEMMA BlowsNear ==
    ASSUME NEW x \in World, Sound(x), Fierce(x), NEW c \in Person, NEW v \in Person, NEW b, Near(b, x, c, v),
           NEW z \in Blows(x, c, v)
    PROVE  Traded(b, x, z, c, v)
  <1>1. CASE z \in Blow(x, c, v)
    BY <1>1, BlowNear
  <1>2. ASSUME NEW y \in Blow(x, c, v), y.fighting[c] = v, z \in Blow(y, c, v)
        PROVE  Traded(b, x, z, c, v)
    <2>1. Traded(b, x, y, c, v)
      BY BlowNear
    <2>2. y \in World /\ Sound(y) /\ Fierce(y) /\ Near(b, y, c, v) /\ z \in Blow(y, c, v)
      BY <1>2, <2>1 DEF Sane, Traded
    <2>3. Traded(b, y, z, c, v)
      BY <2>2, BlowNear
    <2>4. QED BY <1>2, <2>1, <2>3 DEF Unmoved, Traded
  <1>3. QED BY <1>1, <1>2 DEF Blows

-----------------------------------------------------------------------------
(* Blows of a at p, in the turn of c *)

\* The fight of d is an old one, or one with c, who is there or is ridden.
Tied(b, x, d, c) ==
    \/ x.fighting[d] \in {b.fighting[d], Nil}
    \/ x.fighting[d] = c /\ (Together(x, d, c) \/ c \in Ridden(b))

Drawn(b, x, c) == Ridden(x) \subseteq Ridden(b) /\ \A d \in Person : Tied(b, x, d, c)

\* The two may have begun to fight each other, too.
Aside(b, x, a, p, c) ==
    /\ Ridden(x) \subseteq Ridden(b) /\ Together(x, a, p)
    /\ c \in {a, p} \/ x.fighting[c] # Nil
    /\ \A d \in Person : Tied(b, x, d, c) \/ (d = a /\ x.fighting[d] = p) \/ (d = p /\ x.fighting[d] = a)

LEMMA AsideFair ==
    ASSUME NEW b, NEW z, NEW a \in Person, NEW p \in Person, NEW c \in Person, Aside(b, z, a, p, c)
    PROVE  Fair(b, z)
  BY DEF Aside, Tied, Fair, Together, Ridden

LEMMA DrawnFair ==
    ASSUME NEW b, NEW z, NEW c \in Person, Drawn(b, z, c)
    PROVE  Fair(b, z)
  BY DEF Drawn, Tied, Fair, Ridden

\* When a or p has gone from y, the others are where they were.
LEMMA LastTied ==
    ASSUME NEW b, NEW y, NEW z, NEW a \in Person, NEW p \in Person, NEW c \in Person,
           Aside(b, y, a, p, c), NEW u \in {a, p}, NEW M, Leaves(y, z, u, M),
           c # u => c \notin M \/ c \in Ridden(b)
    PROVE  Drawn(b, z, c)
  <1>1. Ridden(z) \subseteq Ridden(b)
    BY LighterRidden DEF Leaves, Aside
  <1>2. ASSUME NEW d \in Person, z.fighting[d] \notin {b.fighting[d], Nil}
        PROVE  z.fighting[d] = c /\ (Together(z, d, c) \/ c \in Ridden(b))
    <2>1. z.fighting[d] = y.fighting[d] /\ z.at[d] = y.at[d] /\ d # u /\ z.fighting[d] # u
      BY <1>2 DEF Leaves, Calm, Unfought
    <2>2. y.fighting[d] = c /\ (Together(y, d, c) \/ c \in Ridden(b)) /\ c # u
      BY <1>2, <2>1 DEF Aside, Tied
    <2>3. CASE c \notin M
      <3>1. z.at[c] = y.at[c]
        BY <2>3 DEF Leaves, Calm
      <3>2. QED BY <2>1, <2>2, <3>1 DEF Together
    <2>4. CASE c \in Ridden(b)
      BY <2>1, <2>2, <2>4
    <2>5. QED BY <2>2, <2>3, <2>4
  <1>3. \A d \in Person : Tied(b, z, d, c)
    BY <1>2 DEF Tied
  <1>4. QED BY <1>1, <1>3 DEF Drawn

LEMMA BlowAside ==
    ASSUME NEW x \in World, Sound(x), Fierce(x), NEW a \in Person, NEW p \in Person, NEW c \in Person,
           NEW b, Aside(b, x, a, p, c), NEW z \in Blow(x, a, p)
    PROVE  z \in Sane /\ Fierce(z) /\ (Aside(b, z, a, p, c) \/ (Drawn(b, z, c) /\ z.fighting[a] # p))
  <1>1. Nil \notin Person
    BY CompanyConstants
  <1>2. Together(x, a, p)
    BY DEF Aside
  <1>3. z \in Sane /\ Fierce(z) /\ Outcome(Struck(x, a, p), z, a, p)
    BY <1>2, Outcomes, Zenon
  <1>4. PICK y \in World : y = Struck(x, a, p) /\ Clash(x, y, a, p)
    BY <1>2, Striking, Zenon
  <1>5. Aside(b, y, a, p, c)
    <2>1. y.at = x.at /\ Ridden(y) = Ridden(x) /\ Together(y, a, p)
      BY <1>2, <1>4 DEF Clash, Ridden, Together
    <2>2. c \in {a, p} \/ y.fighting[c] # Nil
      BY <1>1, <1>4 DEF Clash, Aside
    <2>3. \A d \in Person : Tied(b, y, d, c) \/ (d = a /\ y.fighting[d] = p) \/ (d = p /\ y.fighting[d] = a)
      BY <1>4, <2>1 DEF Clash, Aside, Tied, Together
    <2>4. QED BY <2>1, <2>2, <2>3 DEF Aside
  <1>6. Fierce(y) /\ Ridden(y) \subseteq Ridden(b)
    BY <1>4, <1>5 DEF Clash, Aside
  <1>7. CASE Stays(y, z, p)
    <2>1. z.at = y.at /\ Ridden(z) = Ridden(y) /\ Together(z, a, p)
      BY <1>5, <1>7 DEF Stays, Aside, Ridden, Together
    <2>2. c \in {a, p} \/ z.fighting[c] # Nil
      BY <1>5, <1>7 DEF Stays, Aside
    <2>3. \A d \in Person : Tied(b, z, d, c) \/ (d = a /\ z.fighting[d] = p) \/ (d = p /\ z.fighting[d] = a)
      BY <1>5, <1>7, <2>1 DEF Stays, Aside, Tied, Together
    <2>4. Aside(b, z, a, p, c)
      BY <1>6, <2>1, <2>2, <2>3 DEF Aside
    <2>5. QED BY <1>3, <2>4
  <1> DEFINE M == {p} \cup Ridden(y) \cup (Standing(y) \ {a})
  <1>8. CASE Leaves(y, z, p, M)
    <2>1. c # p => c \notin M \/ c \in Ridden(b)
      BY <1>5, <1>6 DEF Aside, Fierce, Standing
    <2> HIDE DEF M
    <2>2. Drawn(b, z, c)
      BY <1>5, <1>8, <2>1, LastTied
    <2>3. z.fighting[a] # p
      BY <1>8 DEF Leaves, Unfought
    <2>4. QED BY <1>3, <2>2, <2>3
  <1>9. CASE Leaves(y, z, a, {a})
    <2>1. Drawn(b, z, c)
      BY <1>5, <1>9, LastTied
    <2>2. z.fighting[a] # p
      BY <1>1, <1>9 DEF Leaves, Unfought
    <2>3. QED BY <1>3, <2>1, <2>2
  <1>10. QED BY <1>3, <1>4, <1>7, <1>8, <1>9 DEF Outcome

LEMMA BlowsAside ==
    ASSUME NEW x \in World, Sound(x), Fierce(x), NEW a \in Person, NEW p \in Person, NEW c \in Person,
           NEW b, Aside(b, x, a, p, c), NEW z \in Blows(x, a, p)
    PROVE  z \in Sane /\ Fierce(z) /\ (Aside(b, z, a, p, c) \/ Drawn(b, z, c))
  <1>1. CASE z \in Blow(x, a, p)
    BY <1>1, BlowAside
  <1>2. ASSUME NEW y \in Blow(x, a, p), y.fighting[a] = p, z \in Blow(y, a, p)
        PROVE  z \in Sane /\ Fierce(z) /\ (Aside(b, z, a, p, c) \/ Drawn(b, z, c))
    <2>1. y \in Sane /\ Fierce(y) /\ Aside(b, y, a, p, c)
      BY <1>2, BlowAside
    <2>2. y \in World /\ Sound(y)
      BY <2>1 DEF Sane
    <2>3. QED BY <1>2, <2>1, <2>2, BlowAside
  <1>3. QED BY <1>1, <1>2 DEF Blows

-----------------------------------------------------------------------------
(* A mob that strikes stays, or dies, unless somebody rides it *)

Staid(x, z, c) == Lighter(x, z) /\ (c \in Ridden(x) \/ z.at[c] \in {x.at[c], Nil})

LEMMA StaidTwice == ASSUME NEW x, NEW y, NEW z, NEW c, Staid(x, y, c), Staid(y, z, c) PROVE Staid(x, z, c)
  <1>1. Lighter(x, z)
    BY DEF Staid, Lighter
  <1>2. Ridden(y) \subseteq Ridden(x)
    BY LighterRidden DEF Staid
  <1>3. QED BY <1>1, <1>2 DEF Staid

LEMMA Resting == ASSUME NEW x, NEW z, z.at = x.at, z.riding = x.riding, NEW c PROVE Staid(x, z, c)
  BY DEF Staid, Lighter

LEMMA BlowStaid ==
    ASSUME NEW x \in World, Sound(x), Fierce(x), NEW c \in Mob, NEW v \in Person, NEW z \in Blow(x, c, v)
    PROVE  Staid(x, z, c)
  <1>1. c \in Person
    BY CompanyConstants
  <1>2. CASE ~Together(x, c, v)
    BY <1>2, Resting DEF Blow
  <1>3. CASE Together(x, c, v)
    <2>1. Outcome(Struck(x, c, v), z, c, v)
      BY <1>1, <1>3, Outcomes, Zenon
    <2>2. PICK y \in World : y = Struck(x, c, v) /\ Clash(x, y, c, v)
      BY <1>1, <1>3, Striking, Zenon
    <2>3. y.at = x.at /\ y.riding = x.riding /\ Ridden(y) = Ridden(x)
      BY <2>2 DEF Clash, Ridden
    <2>4. CASE Stays(y, z, v)
      BY <2>3, <2>4, Resting DEF Stays
    <2>5. ASSUME NEW u \in Person, NEW M, Leaves(y, z, u, M) PROVE Lighter(x, z) /\ (c \notin M => z.at[c] = x.at[c])
      BY <1>1, <2>3, <2>5 DEF Leaves, Calm, Lighter
    <2>6. CASE /\ Leaves(y, z, v, {v} \cup Ridden(y) \cup (Standing(y) \ {c}))
               /\ v \in Mob => z.at[v] # y.at[v] /\ (c = v => z.at[v] = Nil)
      BY <2>3, <2>5, <2>6 DEF Staid
    <2>7. CASE c \in Mob /\ c # v /\ Leaves(y, z, c, {c}) /\ z.at[c] = Nil
      BY <1>1, <2>5, <2>7 DEF Staid
    <2>8. QED BY <2>1, <2>2, <2>4, <2>6, <2>7 DEF Outcome
  <1>4. QED BY <1>2, <1>3

LEMMA SaneBlow ==
    ASSUME NEW x \in World, Sound(x), Fierce(x), NEW c \in Person, NEW v \in Person, NEW z \in Blow(x, c, v)
    PROVE  z \in World /\ Sound(z) /\ Fierce(z)
  <1>1. CASE ~Together(x, c, v)
    BY <1>1 DEF Blow
  <1>2. CASE Together(x, c, v)
    BY <1>2, Outcomes DEF Sane
  <1>3. QED BY <1>1, <1>2

LEMMA BlowsStaid ==
    ASSUME NEW x \in World, Sound(x), Fierce(x), NEW c \in Mob, NEW v \in Person, NEW z \in Blows(x, c, v)
    PROVE  Staid(x, z, c)
  <1>1. c \in Person
    BY CompanyConstants
  <1>2. CASE z \in Blow(x, c, v)
    BY <1>2, BlowStaid
  <1>3. ASSUME NEW y \in Blow(x, c, v), z \in Blow(y, c, v) PROVE Staid(x, z, c)
    <2>1. y \in World /\ Sound(y) /\ Fierce(y)
      BY <1>1, SaneBlow
    <2>2. Staid(x, y, c) /\ Staid(y, z, c)
      BY <1>3, <2>1, BlowStaid
    <2>3. QED BY <2>2, StaidTwice
  <1>4. QED BY <1>2, <1>3 DEF Blows

-----------------------------------------------------------------------------
(* What people do to each other *)

LEMMA SameFair ==
    ASSUME NEW x \in World
    PROVE  NoneBegan(x, x) /\ Unmoved(x, x) /\ \A c, v \in Person : Near(x, x, c, v)
  BY DEF NoneBegan, Unmoved, Near, Between

LEMMA NoneNear == ASSUME NEW b, NEW x, NoneBegan(b, x), NEW c \in Person, NEW v \in Person PROVE Near(b, x, c, v)
  BY DEF NoneBegan, Near, Between

\* In the turn of c, which began in b: who has begun to fight fights c, or is c.
Busy(b, x, c) ==
    /\ Ridden(x) \subseteq Ridden(b)
    /\ \A d \in Person : Tied(b, x, d, c) \/ (d = c /\ Together(x, c, x.fighting[c]))

LEMMA BusyFair ==
    ASSUME NEW b, NEW z, NEW c \in Person, Busy(b, z, c)
    PROVE  Fair(b, z)
  BY DEF Busy, Tied, Fair, Ridden

LEMMA SameBusy == ASSUME NEW x, NEW c \in Person PROVE Busy(x, x, c)
  BY DEF Busy, Tied

LEMMA AsideBusy ==
    ASSUME NEW b, NEW z, NEW c \in Person, NEW v \in Person, Aside(b, z, c, v, c) \/ Drawn(b, z, c)
    PROVE  Busy(b, z, c)
  BY DEF Aside, Drawn, Busy, Tied, Together

LEMMA BusyAside ==
    ASSUME NEW b, NEW x, NEW c \in Person, NEW v \in Person, Busy(b, x, c), Together(x, c, v),
           x.fighting[c] \in {v, Nil, b.fighting[c]}
    PROVE  Aside(b, x, c, v, c)
  BY DEF Aside, Busy, Tied, Together

\* Whom c may fight after he has hit v: nobody new, if it is a mob, but v.
LEMMA WhoseBlow ==
    ASSUME NEW x, NEW z, NEW c \in Person, NEW v \in Person, Traded(x, x, z, c, v)
    PROVE  z.fighting[c] \in {x.fighting[c], Nil, v}
  BY DEF Traded, Near, Between

\* Unless it is a mob that hits a mob, nobody turns on another.
LEMMA PlainlyHit ==
    ASSUME NEW x \in World, NEW c \in Person, NEW v \in Person, ~({c, v} \subseteq Mob)
    PROVE  MultiHit(x, c, v) = Blows(x, c, v)
  BY DEF MultiHit, Beholden

\* What c, who hits v in x, leads to.
Hit(b, x, z, c, v) ==
    /\ z \in World /\ Sound(z) /\ Fierce(z) /\ Busy(b, z, c) /\ (c \in Mob => Staid(x, z, c))
    /\ z.fighting[c] \in Mob => z.fighting[c] \in {x.fighting[c], v}

LEMMA Plainly ==
    ASSUME NEW b, NEW x \in World, Sound(x), Fierce(x), NEW c \in Person, NEW v \in Person, Aside(b, x, c, v, c),
           NEW z \in Blows(x, c, v)
    PROVE  Hit(b, x, z, c, v)
  <1>1. z \in Sane /\ Fierce(z) /\ (Aside(b, z, c, v, c) \/ Drawn(b, z, c))
    BY BlowsAside
  <1>2. Busy(b, z, c)
    BY <1>1, AsideBusy
  <1>3. Near(x, x, c, v)
    BY SameFair
  <1>4. z.fighting[c] \in {x.fighting[c], Nil, v}
    BY <1>3, BlowsNear, WhoseBlow
  <1>5. c \in Mob => Staid(x, z, c)
    BY BlowsStaid
  <1>6. QED BY <1>1, <1>2, <1>4, <1>5, CompanyConstants DEF Hit, Sane

\* A mob turns on the master of the mob that it hits.
LEMMA Turncoat ==
    ASSUME NEW b, NEW x \in World, Sound(x), Fierce(x), NEW c \in Person, NEW v \in Person, Busy(b, x, c),
           Together(x, c, v), Beholden(x, c, v),
           NEW z \in Blows(StopFighting(Met(x, c, v), c, FALSE), c, x.master[v])
    PROVE  Hit(b, x, z, c, v)
  <1> USE CompanyConstants
  <1> DEFINE p == x.master[v]
  <1>1. c \in Mob /\ v \in Mob /\ c # v /\ p \in Player /\ p \in Person /\ Together(x, c, p) /\ p # c
    BY DEF Beholden, Sound, Counted
  <1>2. x.at[c] # Nil /\ x.at[v] # Nil
    BY DEF Together
  <1> HIDE DEF p
  <1>3. PICK m \in World : m = Met(x, c, v) /\ Sound(m) /\ Clash(x, m, c, v)
    BY <1>2, Meeting, MeetingClash, Zenon
  <1>4. FALSE \in BOOLEAN
    OBVIOUS
  <1>5. PICK y \in World : /\ y = StopFighting(m, c, FALSE) /\ Sound(y) /\ SameBut(m, y)
                           /\ Calm(m, y, {}) /\ y.fighting[c] = Nil
    <2>1. StopFighting(m, c, FALSE) \in World /\ Sound(StopFighting(m, c, FALSE)) /\ SameBut(m, StopFighting(m, c, FALSE))
      BY <1>3, <1>4, Ending, Zenon
    <2>2. Calm(m, StopFighting(m, c, FALSE), {})
      BY <1>4, EndingCalm, Zenon
    <2>3. StopFighting(m, c, FALSE).fighting[c] = Nil
      BY <1>4, FightEnds, Zenon
    <2>4. QED BY <2>1, <2>2, <2>3
  <1>6. z \in Blows(y, c, p)
    BY <1>3, <1>5 DEF p
  <1>7. Fierce(y) /\ y.at = x.at /\ y.riding = x.riding
    <2>1. Fierce(m)
      BY <1>3 DEF Clash
    <2>2. Fierce(y)
      BY <1>5, <2>1, CalmBegins
    <2>3. QED BY <1>3, <1>5, <2>2 DEF Clash, SameBut
  <1>8. Aside(b, y, c, p, c)
    <2>1. Together(y, c, p) /\ Together(y, v, c) /\ Ridden(y) = Ridden(x)
      BY <1>1, <1>7 DEF Together, Ridden
    <2>2. \A d \in Person : Tied(b, y, d, c)
      <3>1. \A d \in Person : y.fighting[d] \in {m.fighting[d], Nil}
        BY <1>5 DEF Calm
      <3>2. \A d \in Person : m.fighting[d] = x.fighting[d] \/ d = c \/ (d = v /\ m.fighting[d] = c)
        BY <1>3 DEF Clash
      <3>3. \A d \in Person : d = c \/ y.fighting[d] \in {x.fighting[d], Nil} \/ (d = v /\ y.fighting[d] = c)
        BY <3>1, <3>2
      <3>4. \A d \in Person : d # c => Tied(b, x, d, c)
        BY DEF Busy
      <3>5. QED BY <1>5, <1>7, <2>1, <3>3, <3>4 DEF Tied, Together
    <2>3. QED BY <2>1, <2>2 DEF Aside, Busy
  <1>9. Hit(b, y, z, c, p)
    BY <1>1, <1>5, <1>6, <1>7, <1>8, Plainly
  <1>10. Staid(x, z, c)
    BY <1>1, <1>7, <1>9, Resting, StaidTwice DEF Hit
  <1>11. z.fighting[c] \notin Mob
    BY <1>1, <1>5, <1>9 DEF Hit
  <1>12. QED BY <1>9, <1>10, <1>11 DEF Hit

LEMMA HittingFair ==
    ASSUME NEW b, NEW x \in World, Sound(x), Fierce(x), NEW c \in Person, NEW v \in Person, Busy(b, x, c),
           Together(x, c, v), x.fighting[c] \in {v, Nil, b.fighting[c]}, NEW z \in MultiHit(x, c, v)
    PROVE  Hit(b, x, z, c, v)
  <1>1. CASE z \in Blows(x, c, v)
    BY <1>1, BusyAside, Plainly
  <1>2. CASE Beholden(x, c, v) /\ z \in Blows(StopFighting(Met(x, c, v), c, FALSE), c, x.master[v])
    BY <1>2, Turncoat
  <1>3. QED BY <1>1, <1>2 DEF MultiHit

\* What a step from x may lead to.
Begins(x, z) == Fierce(z) /\ Fair(x, z)

LEMMA CalmFair == ASSUME NEW x, Fierce(x), NEW z, NEW M, Calm(x, z, M) PROVE Begins(x, z)
  BY CalmBegins, NoneFair DEF Begins

\* Blows at or by a player, in a world that has gone on from b.
LEMMA PlainFair ==
    ASSUME NEW b, NEW x \in World, Sound(x), Fierce(x), NEW c \in Person, NEW v \in Person, Near(b, x, c, v),
           ~({c, v} \subseteq Mob), NEW z \in MultiHit(x, c, v)
    PROVE  Begins(b, z)
  <1>1. z \in Blows(x, c, v)
    BY PlainlyHit
  <1>2. Traded(b, x, z, c, v)
    BY <1>1, BlowsNear
  <1>3. QED BY <1>2, NearFair DEF Traded, Begins

\* Where fights go on as they were.
LEMMA Undisturbed ==
    ASSUME NEW x, Fierce(x), NEW z, z.fighting = x.fighting,
           \A d \in Person : x.fighting[d] # Nil /\ x.pos[d] = "fighting" => z.pos[d] = "fighting"
    PROVE  Begins(x, z)
  BY NoneFair DEF Begins, Fierce, NoneBegan

LEMMA PosingFair ==
    ASSUME NEW x \in World, Fierce(x), NEW c \in Person, x.pos[c] # "fighting", NEW p,
           NEW z, z = [x EXCEPT !.pos[c] = p]
    PROVE  Begins(x, z)
  <1>1. z.fighting = x.fighting /\ \A d \in Person \ {c} : z.pos[d] = x.pos[d]
    BY DEF World
  <1>2. \A d \in Person : x.fighting[d] # Nil /\ x.pos[d] = "fighting" => z.pos[d] = "fighting"
    BY <1>1
  <1>3. Fierce(z) /\ NoneBegan(x, z)
    BY <1>1, <1>2 DEF Fierce, NoneBegan
  <1>4. QED BY <1>3, NoneFair DEF Begins

-----------------------------------------------------------------------------
(* The turn of c, which began in b *)

Midway(b, x, c) ==
    /\ x \in World /\ Sound(x) /\ Fierce(x) /\ Busy(b, x, c) /\ (c \in Mob => Staid(b, x, c))
    /\ x.fighting[c] \in Mob => x.fighting[c] = b.fighting[c]

LEMMA RetargetingFair ==
    ASSUME NEW b \in World, Sound(b), Fierce(b), NEW c \in Person, NEW x \in Retargeted(b, c)
    PROVE  Midway(b, x, c)
  <1>1. x \in World /\ Sound(x)
    BY Retargets DEF Sane
  <1>2. CASE x = b
    BY <1>2, SameBusy, Resting DEF Midway
  <1>3. CASE x # b
    <2>1. PICK q \in Foes(b, c) : x = [b EXCEPT !.fighting[c] = q]
      BY <1>3 DEF Retargeted
    <2>2. b.fighting[c] # Nil
      BY <1>3, CompanyConstants DEF Retargeted
    <2>3. q \in Player /\ q \in Person /\ q \notin Mob /\ Together(b, c, q)
      BY CompanyConstants DEF Foes
    <2>4. x.at = b.at /\ x.riding = b.riding /\ x.pos = b.pos /\ x.fighting = [b.fighting EXCEPT ![c] = q]
      BY <2>1 DEF World
    <2>5. x.fighting[c] = q /\ \A d \in Person \ {c} : x.fighting[d] = b.fighting[d]
      BY <2>4, Fields
    <2>6. Fierce(x)
      BY <2>2, <2>4, <2>5 DEF Fierce
    <2>7. Together(x, c, q) /\ Ridden(x) = Ridden(b)
      BY <2>3, <2>4 DEF Together, Ridden
    <2>8. Busy(b, x, c)
      BY <2>5, <2>7 DEF Busy, Tied
    <2>9. QED BY <1>1, <2>3, <2>4, <2>5, <2>6, <2>8, Resting DEF Midway
  <1>4. QED BY <1>2, <1>3

\* What it comes to if c hits v.
LEMMA MidwayOn ==
    ASSUME NEW b, NEW x, NEW c \in Person, Midway(b, x, c), NEW v \in Person, NEW z, Hit(b, x, z, c, v),
           v \in Mob => v = b.fighting[c]
    PROVE  Midway(b, z, c)
  BY StaidTwice DEF Midway, Hit

LEMMA EnchantingFair ==
    ASSUME NEW b \in World, NEW x, NEW c \in Person, Midway(b, x, c), NEW z \in Enchanting(x, c)
    PROVE  Midway(b, z, c)
  <1> DEFINE v == x.fighting[c]
  <1>1. x \in World /\ Sound(x) /\ Fierce(x) /\ Busy(b, x, c)
    BY DEF Midway
  <1>2. CASE z = x
    BY <1>2
  <1>3. CASE c \in Mob /\ v # Nil /\ z \in Spell(x, c, v)
    <2>1. v \in Person /\ (v \in Mob => v = b.fighting[c])
      BY <1>1, <1>3, Fields DEF Midway
    <2>2. PICK y \in Blow(x, c, v) \cup {x} :
             z \in IF /\ c # v /\ y.at[c] # Nil /\ Together(y, c, v)
                      /\ y.fighting[v] = Nil /\ y.master[v] # c
                   THEN MultiHit(y, c, v) ELSE {y}
      BY <1>3 DEF Spell
    <2>3. Midway(b, y, c) /\ y.fighting[c] \in {v, Nil}
      <3>1. CASE y = x
        BY <3>1
      <3>2. CASE Together(x, c, v) /\ y \in Blow(x, c, v)
        <4>1. Aside(b, x, c, v, c)
          BY <1>1, <2>1, <3>2, BusyAside
        <4>2. y \in Sane /\ Fierce(y) /\ (Aside(b, y, c, v, c) \/ Drawn(b, y, c))
          BY <1>1, <2>1, <3>2, <4>1, BlowAside
        <4>3. Busy(b, y, c)
          BY <2>1, <4>2, AsideBusy
        <4>4. Near(x, x, c, v)
          BY <1>1, <2>1, SameFair
        <4>5. y.fighting[c] \in {v, Nil}
          BY <1>1, <2>1, <3>2, <4>4, BlowNear, WhoseBlow
        <4>6. Staid(x, y, c)
          BY <1>1, <1>3, <2>1, <3>2, BlowStaid
        <4>7. Staid(b, y, c)
          BY <1>3, <4>6, StaidTwice DEF Midway
        <4>8. QED BY <2>1, <4>2, <4>3, <4>5, <4>7, CompanyConstants DEF Midway, Sane
      <3>3. CASE ~Together(x, c, v) /\ y \in Blow(x, c, v)
        BY <3>3 DEF Blow
      <3>4. QED BY <2>2, <3>1, <3>2, <3>3
    <2>4. CASE z = y
      BY <2>3, <2>4
    <2>5. CASE Together(y, c, v) /\ z \in MultiHit(y, c, v)
      <3>1. Hit(b, y, z, c, v)
        BY <2>1, <2>3, <2>5, HittingFair DEF Midway
      <3>2. QED BY <2>1, <2>3, <3>1, MidwayOn
    <2>6. QED BY <2>2, <2>4, <2>5
  <1>4. QED BY <1>2, <1>3 DEF Enchanting

\* Somebody comes to help c, who goes on with the fight that he fought.
LEMMA AssistingFair ==
    ASSUME NEW b, NEW y, NEW c \in Person, Midway(b, y, c), NEW z \in Assist(y, c)
    PROVE  Begins(b, z)
  <1> USE CompanyConstants
  <1>1. y \in World /\ Sound(y) /\ Fierce(y) /\ Busy(b, y, c)
    BY DEF Midway
  <1>2. CASE z = y
    BY <1>1, <1>2, BusyFair DEF Begins
  <1>3. CASE z # y
    <2>1. y.fighting[c] \in Mob
      BY <1>3 DEF Assist
    <2>2. PICK r \in Wild \ y.charmed : /\ Together(y, r, c) /\ y.fighting[r] = Nil
                                        /\ z \in UNION {MultiHit(y, r, p) : p \in {q \in Player : Together(y, r, q)}}
      BY <1>3, <2>1 DEF Assist
    <2>3. PICK p \in Player : Together(y, r, p) /\ z \in MultiHit(y, r, p)
      BY <2>2
    <2>4. r \in Mob /\ r \in Person /\ p \in Person /\ ~({r, p} \subseteq Mob)
      BY CompanyAssumption
    <2>5. z \in Blows(y, r, p)
      BY <1>1, <2>3, <2>4, PlainlyHit
    <2>6. y.fighting[c] = b.fighting[c] /\ y.fighting[c] # Nil
      BY <2>1 DEF Midway
    <2>7. Aside(b, y, r, p, c)
      BY <1>1, <2>3, <2>6 DEF Aside, Busy, Tied
    <2>8. Fierce(z) /\ (Aside(b, z, r, p, c) \/ Drawn(b, z, c))
      BY <1>1, <2>4, <2>5, <2>7, BlowsAside
    <2>9. QED BY <2>4, <2>8, AsideFair, DrawnFair DEF Begins
  <1>4. QED BY <1>2, <1>3

LEMMA TrackingFair ==
    ASSUME NEW b, NEW x, NEW c \in Mob, Midway(b, x, c), x.fighting[c] = Nil, NEW z \in MobHunt(x, c)
    PROVE  Begins(b, z)
  <1> DEFINE v == x.hunting[c]
  <1>1. x \in World /\ Sound(x) /\ Fierce(x) /\ Busy(b, x, c) /\ Staid(b, x, c) /\ c \in Person
    BY CompanyConstants DEF Midway
  <1>2. CASE z = x
    BY <1>1, <1>2, BusyFair DEF Begins
  <1>3. CASE z # x
    <2>1. v \in Person /\ x.at[v] \in Room
      BY <1>1, <1>3, Fields DEF MobHunt, Sound, Solid, Present
    <2>2. CASE Together(x, c, v)
      <3>1. PICK y \in MultiHit(x, c, v) : z = [y EXCEPT !.hunting[c] = Nil]
        BY <1>3, <2>1, <2>2, CompanyConstants DEF MobHunt
      <3>2. Hit(b, x, y, c, v)
        BY <1>1, <2>1, <2>2, HittingFair
      <3>3. z.at = y.at /\ z.fighting = y.fighting /\ z.pos = y.pos
        BY <3>1, <3>2 DEF Hit, World
      <3>4. Fierce(y) /\ Fair(b, y)
        BY <1>1, <3>2, BusyFair DEF Hit
      <3>5. QED BY <3>3, <3>4 DEF Begins, Fair, Fierce, Together
    <2>3. CASE ~Together(x, c, v)
      <3>1. z = MoveChar(x, c, x.at[v])
        BY <1>3, <2>1, <2>3, CompanyConstants DEF MobHunt
      <3>2. Calm(x, z, {c} \cup Ridden(x) \cup Standing(x))
        BY <1>1, <2>1, <3>1, MovingCalm, Zenon
      <3>3. Fierce(z)
        BY <1>1, <3>2, CalmBegins
      <3>4. ASSUME NEW d \in Person, z.fighting[d] \notin {b.fighting[d], Nil}
            PROVE  z.fighting[d] = c /\ (Together(z, d, c) \/ c \in Ridden(b) \/ z.at[c] # b.at[c])
        <4>1. z.fighting[d] = x.fighting[d] /\ z.at[d] = x.at[d]
          BY <3>4, <3>2 DEF Calm
        <4>2. x.fighting[d] = c /\ (Together(x, d, c) \/ c \in Ridden(b))
          BY <1>1, <3>4, <4>1 DEF Busy, Tied
        <4>3. CASE Together(x, d, c) /\ c \notin Ridden(b)
          <5>1. x.at[c] = b.at[c]
            BY <1>1, <4>3 DEF Staid, Together
          <5>2. QED BY <4>1, <4>2, <4>3, <5>1 DEF Together
        <4>4. QED BY <4>1, <4>2, <4>3
      <3>5. Fair(b, z)
        BY <3>4 DEF Fair
      <3>6. QED BY <3>3, <3>5 DEF Begins
    <2>4. QED BY <2>2, <2>3
  <1>4. QED BY <1>2, <1>3

LEMMA StrugglingFair ==
    ASSUME NEW b, NEW x, NEW c \in Person, Midway(b, x, c), NEW z \in Struggle(x, c)
    PROVE  Begins(b, z)
  <1> DEFINE v == x.fighting[c]
  <1>1. x \in World /\ Sound(x) /\ Fierce(x) /\ Busy(b, x, c)
    BY DEF Midway
  <1>2. CASE z = x
    BY <1>1, <1>2, BusyFair DEF Begins
  <1>3. CASE c \in Mob /\ v = Nil /\ z \in MobHunt(x, c)
    BY <1>3, TrackingFair
  <1>4. CASE z = StopFighting(x, c, FALSE)
    <2>1. FALSE \in BOOLEAN
      OBVIOUS
    <2>2. Calm(x, z, {})
      BY <1>1, <1>4, <2>1, EndingCalm, Zenon
    <2>3. Fierce(z) /\ Fair(b, x)
      BY <1>1, <2>2, CalmBegins, BusyFair
    <2>4. \A d \in Person : z.at[d] = x.at[d] /\ (z.fighting[d] # Nil => z.fighting[d] = x.fighting[d])
      BY <2>2 DEF Calm
    <2>5. x.fighting \in [Person -> Person \cup {Nil}]
      BY <1>1, Fields
    <2>6. Fair(b, z)
      <3>1. SUFFICES ASSUME NEW d \in Person, z.fighting[d] \notin {b.fighting[d], Nil}
                     PROVE  LET m == z.fighting[d] IN
                            Together(z, d, m) \/ (m \in Mob /\ (m \in Ridden(b) \/ z.at[m] # b.at[m]))
        BY DEF Fair
      <3> DEFINE m == z.fighting[d]
      <3>2. m = x.fighting[d] /\ m \in Person /\ z.at[d] = x.at[d]
        BY <2>4, <2>5, <3>1
      <3>3. z.at[m] = x.at[m]
        BY <2>4, <3>2
      <3>4. Together(x, d, m) \/ (m \in Mob /\ (m \in Ridden(b) \/ x.at[m] # b.at[m]))
        BY <2>3, <3>1, <3>2 DEF Fair
      <3>5. QED BY <3>2, <3>3, <3>4 DEF Together
    <2>7. QED BY <2>3, <2>6 DEF Begins
  <1>5. CASE v # Nil /\ ~Parted(x, c) /\ z \in UNION {IF y.at[c] = Nil THEN {y} ELSE Assist(y, c) : y \in MultiHit(x, c, v)}
    <2>1. v \in Person /\ Together(x, c, v)
      BY <1>1, <1>5, Fields DEF Parted
    <2>2. PICK y \in MultiHit(x, c, v) : z \in IF y.at[c] = Nil THEN {y} ELSE Assist(y, c)
      BY <1>5
    <2>3. Hit(b, x, y, c, v)
      BY <1>1, <2>1, HittingFair
    <2>4. v \in Mob => v = b.fighting[c]
      BY DEF Midway
    <2>5. Midway(b, y, c)
      BY <2>1, <2>3, <2>4, MidwayOn
    <2>6. CASE z = y
      BY <2>5, <2>6, BusyFair DEF Midway, Begins
    <2>7. CASE z \in Assist(y, c)
      BY <2>5, <2>7, AssistingFair
    <2>8. QED BY <2>2, <2>6, <2>7
  <1>6. QED BY <1>2, <1>3, <1>4, <1>5 DEF Struggle

LEMMA TurningFair ==
    ASSUME NEW x \in World, Sound(x), Fierce(x), NEW c \in Person, NEW z \in Turn(x, c)
    PROVE  Begins(x, z)
  <1>1. CASE x.pos[c] = "stunned"
    <2>1. z = [x EXCEPT !.pos[c] = "standing"]
      BY <1>1 DEF Turn
    <2>2. x.pos[c] # "fighting"
      BY <1>1
    <2>3. QED BY <2>1, <2>2, PosingFair
  <1>2. CASE z \in Blow(x, c, c)
    <2>1. Near(x, x, c, c)
      BY SameFair
    <2>2. Traded(x, x, z, c, c)
      BY <1>2, <2>1, BlowNear
    <2>3. QED BY <2>2, NearFair DEF Traded, Begins
  <1>3. CASE z = Extract(x, c)
    BY <1>3, ExtractingCalm, CalmFair
  <1>4. ASSUME NEW y \in Retargeted(x, c), NEW u \in Enchanting(y, c), z \in Struggle(u, c) PROVE Begins(x, z)
    <2>1. Midway(x, y, c)
      BY RetargetingFair
    <2>2. Midway(x, u, c)
      BY <2>1, EnchantingFair
    <2>3. QED BY <1>4, <2>2, StrugglingFair
  <1>5. QED BY <1>1, <1>2, <1>3, <1>4 DEF Turn

LEMMA CastingFair ==
    ASSUME NEW x \in World, Sound(x), Fierce(x), NEW c \in Player, NEW v \in Person, NEW z \in Spell(x, c, v)
    PROVE  Begins(x, z)
  <1>1. c \in Person /\ ~({c, v} \subseteq Mob)
    BY CompanyConstants
  <1>2. PICK y \in Blow(x, c, v) \cup {x} :
           z \in IF /\ c # v /\ y.at[c] # Nil /\ Together(y, c, v)
                    /\ y.fighting[v] = Nil /\ y.master[v] # c
                 THEN MultiHit(y, c, v) ELSE {y}
    BY DEF Spell
  <1>3. Near(x, x, c, v)
    BY <1>1, SameFair
  <1>4. y \in World /\ Sound(y) /\ Fierce(y) /\ Near(x, y, c, v)
    <2>1. CASE y = x
      BY <1>3, <2>1
    <2>2. CASE y \in Blow(x, c, v)
      <3>1. Traded(x, x, y, c, v)
        BY <1>1, <1>3, <2>2, BlowNear
      <3>2. QED BY <3>1 DEF Traded, Sane
    <2>3. QED BY <2>1, <2>2
  <1>5. CASE z = y
    BY <1>1, <1>4, <1>5, NearFair DEF Begins
  <1>6. CASE z \in MultiHit(y, c, v)
    BY <1>1, <1>4, <1>6, PlainFair
  <1>7. QED BY <1>2, <1>5, <1>6
-----------------------------------------------------------------------------
(* Frenzy: a player gores one mob after the other *)

\* Those who have begun to fight since b fight c, who fights one that fights.
Goaded(b, x, c) ==
    /\ Unmoved(b, x)
    /\ \A d \in Person : LET m == x.fighting[d] IN
          \/ m \in {b.fighting[d], Nil}
          \/ m = c /\ Together(x, d, c)
          \/ d = c /\ m \in Mob /\ Together(x, c, m) /\ x.fighting[m] # Nil

\* What c has come to, with the mobs of S left.
Raging(b, t, c) ==
    LET x == t[1] IN
    /\ t \in Sane \X SUBSET Mob /\ Begins(b, x)
    /\ t[2] # {} => Goaded(b, x, c)

LEMMA GoadedFair ==
    ASSUME NEW b, NEW x, NEW c \in Person, Goaded(b, x, c)
    PROVE  Fair(b, x)
  BY DEF Goaded, Fair

LEMMA GoringGoads ==
    ASSUME NEW b, NEW x \in World, Sound(x), Fierce(x), NEW c \in Player, Goaded(b, x, c), NEW m \in Mob, Together(x, c, m),
           NEW z \in Blow(x, c, m)
    PROVE  /\ z \in Sane /\ Begins(b, z)
           /\ Together(z, c, m) => Goaded(b, z, c)
  <1> USE CompanyConstants
  <1>1. c \in Person /\ m \in Person /\ c \notin Mob /\ c # m /\ m \notin Player
    OBVIOUS
  <1>2. z \in Sane /\ Fierce(z) /\ Outcome(Struck(x, c, m), z, c, m)
    BY <1>1, Outcomes, Zenon
  <1>3. PICK y \in World : y = Struck(x, c, m) /\ Clash(x, y, c, m)
    BY <1>1, Striking, Zenon
  <1>4. Unmoved(b, y) /\ Fierce(y) /\ Ridden(y) = Ridden(b)
    BY <1>3 DEF Clash, Goaded, Unmoved, Ridden
  <1>5. Goaded(b, y, c)
    <2>1. SUFFICES ASSUME NEW d \in Person, y.fighting[d] \notin {b.fighting[d], Nil}
                   PROVE  LET n == y.fighting[d] IN
                          \/ n = c /\ Together(y, d, c)
                          \/ d = c /\ n \in Mob /\ Together(y, c, n) /\ y.fighting[n] # Nil
      BY <1>4 DEF Goaded
    <2>2. y.at = x.at
      BY <1>3 DEF Clash
    <2>3. CASE y.fighting[d] = x.fighting[d]
      <3>1. CASE y.fighting[d] = c /\ Together(x, d, c)
        BY <2>2, <3>1 DEF Together
      <3>2. ASSUME d = c, x.fighting[d] \in Mob, Together(x, c, x.fighting[d]), x.fighting[x.fighting[d]] # Nil
            PROVE  d = c /\ y.fighting[d] \in Mob /\ Together(y, c, y.fighting[d]) /\ y.fighting[y.fighting[d]] # Nil
        <4> DEFINE n == x.fighting[d]
        <4>1. n \in Person /\ y.fighting[n] = x.fighting[n]
          BY <1>3, <3>2 DEF Clash
        <4>2. QED BY <2>2, <2>3, <3>2, <4>1 DEF Together
      <3>3. QED BY <2>1, <2>3, <3>1, <3>2 DEF Goaded
    <2>4. CASE y.fighting[d] # x.fighting[d]
      <3>1. (d = c /\ y.fighting[d] = m) \/ (d = m /\ y.fighting[d] = c)
        BY <1>3, <2>4 DEF Clash
      <3>2. y.fighting[m] # Nil
        BY <1>3, <2>4 DEF Clash
      <3>3. QED BY <2>2, <3>1, <3>2 DEF Together
    <2>5. QED BY <2>3, <2>4
  <1>6. CASE Stays(y, z, m)
    <2>1. z.at = y.at /\ z.riding = y.riding /\ \A d \in Person : z.fighting[d] = y.fighting[d]
      BY <1>1, <1>6 DEF Stays
    <2>2. Goaded(b, z, c)
      BY <1>5, <2>1 DEF Goaded, Unmoved, Together
    <2>3. QED BY <1>1, <1>2, <2>2, GoadedFair DEF Begins
  <1> DEFINE M == {m} \cup Ridden(y) \cup (Standing(y) \ {c})
  <1>7. CASE Leaves(y, z, m, M) /\ z.at[m] # y.at[m]
    <2>1. z.at[c] = y.at[c]
      BY <1>1, <1>7 DEF Leaves, Calm, Ridden
    <2>2. ~Together(z, c, m)
      BY <1>3, <1>7, <2>1 DEF Together, Clash
    <2>3. ASSUME NEW d \in Person, z.fighting[d] \notin {b.fighting[d], Nil}
          PROVE  \/ Together(z, d, z.fighting[d])
                 \/ z.fighting[d] \in Ridden(b) /\ z.at[z.fighting[d]] # b.at[z.fighting[d]]
      <3> DEFINE n == z.fighting[d]
      <3>1. n = y.fighting[d] /\ z.at[d] = y.at[d] /\ n # m
        BY <1>7, <2>3 DEF Leaves, Calm, Unfought
      <3>2. CASE n = c /\ Together(y, d, c)
        BY <2>1, <3>1, <3>2 DEF Together
      <3>3. CASE d = c /\ n \in Mob /\ Together(y, c, n) /\ y.fighting[n] # Nil
        <4>1. n \in Person /\ n \notin Standing(y)
          BY <1>4, <3>3 DEF Fierce, Standing
        <4>2. CASE n \in Ridden(y)
          BY <1>4, <2>1, <3>3, <4>2 DEF Together, Unmoved
        <4>3. CASE n \notin Ridden(y)
          <5>1. z.at[n] = y.at[n]
            BY <1>7, <3>1, <4>1, <4>3 DEF Leaves, Calm
          <5>2. QED BY <2>1, <3>3, <5>1 DEF Together
        <4>4. QED BY <4>2, <4>3
      <3>4. QED BY <1>5, <2>3, <3>1, <3>2, <3>3 DEF Goaded
    <2>4. Fair(b, z)
      BY <2>3 DEF Fair, Ridden
    <2>5. QED BY <1>2, <2>2, <2>4 DEF Begins
  <1>8. QED BY <1>1, <1>2, <1>3, <1>6, <1>7 DEF Outcome
LEMMA GoresFair ==
    ASSUME NEW b, NEW c \in Player, NEW S, \A s \in S : Raging(b, s, c)
    PROVE  \A t \in Goring(S, c) : Raging(b, t, c)
  <1>1. SUFFICES ASSUME NEW t \in Goring(S, c) PROVE Raging(b, t, c)
    OBVIOUS
  <1>2. PICK s \in S : \E m \in Gorable(s[1], c, s[2]) :
            \E z \in Blow(s[1], c, m) : t = <<z, IF Together(z, c, m) THEN s[2] \ {m} ELSE {}>>
    BY DEF Goring
  <1>3. PICK m \in Gorable(s[1], c, s[2]) :
            \E z \in Blow(s[1], c, m) : t = <<z, IF Together(z, c, m) THEN s[2] \ {m} ELSE {}>>
    BY <1>2
  <1>4. PICK z \in Blow(s[1], c, m) : t = <<z, IF Together(z, c, m) THEN s[2] \ {m} ELSE {}>>
    BY <1>3
  <1>5. /\ s[1] \in World /\ Sound(s[1]) /\ Fierce(s[1]) /\ s[2] \in SUBSET Mob
        /\ m \in Mob /\ Together(s[1], c, m) /\ Goaded(b, s[1], c)
    BY DEF Raging, Gorable, Sane, Begins
  <1>6. z \in Sane /\ Begins(b, z) /\ (Together(z, c, m) => Goaded(b, z, c))
    BY <1>4, <1>5, GoringGoads, Zenon
  <1>7. t \in Sane \X SUBSET Mob /\ t[1] = z /\ (t[2] # {} => Together(z, c, m))
    BY <1>4, <1>5, <1>6
  <1>8. QED BY <1>6, <1>7 DEF Raging

LEMMA FrenzyingFair ==
    ASSUME NEW x \in World, Sound(x), Fierce(x), NEW c \in Player, NEW z \in Frenzied(x, c)
    PROVE  Begins(x, z)
  <1> DEFINE n == Cardinality(Mob)
             S == {<<x, Mob>>}
             after == CHOOSE f : f = [i \in 0 .. n |-> IF i = 0 THEN S ELSE Goring(f[i - 1], c)]
             K == {k \in 0 .. n : \A t \in after[k] : Raging(x, t, c)}
  <1>1. n \in Nat
    BY CompanyConstants, FS_CardinalityType
  <1>2. Gored(x, c) = after
    BY DEF Gored
  <1> HIDE DEF n, S
  <1>3. after = [i \in 0 .. n |-> IF i = 0 THEN S ELSE Goring(after[i - 1], c)]
    BY <1>1, InFrenzy
  <1> HIDE DEF after
  <1>4. 0 \in K
    <2>1. x \in Sane /\ Begins(x, x)
      BY Undisturbed DEF Sane
    <2>2. Goaded(x, x, c)
      BY DEF Goaded, Unmoved
    <2>3. Raging(x, <<x, Mob>>, c)
      BY <2>1, <2>2 DEF Raging
    <2>4. after[0] = S /\ 0 \in 0 .. n
      BY <1>1, <1>3
    <2>5. QED BY <2>3, <2>4 DEF S
  <1>5. ASSUME NEW k \in 1 .. n, k - 1 \in K PROVE k \in K
    <2>1. k \in 0 .. n /\ k # 0
      BY <1>1
    <2>2. after[k] = Goring(after[k - 1], c)
      BY <1>3, <2>1
    <2>3. QED BY <1>5, <2>1, <2>2, GoresFair
  <1> HIDE DEF K
  <1>6. 0 .. n \subseteq K
    BY <1>1, <1>4, <1>5, Counting
  <1>7. Frenzied(x, c) = UNION {{s[1] : s \in after[k]} : k \in 0 .. n}
    BY <1>2 DEF Frenzied, n
  <1>8. PICK k \in 0 .. n : \E t \in after[k] : z = t[1]
    BY <1>7
  <1>9. QED BY <1>6, <1>8 DEF K, Raging

-----------------------------------------------------------------------------
(* What the commands begin *)

\* One blow, of people who need not have been fighting in b.
LEMMA StrikingFair ==
    ASSUME NEW b, NEW x \in World, Sound(x), Fierce(x), NEW c \in Person, NEW v \in Person, Near(b, x, c, v),
           NEW z \in Blow(x, c, v)
    PROVE  Begins(b, z)
  <1>1. Traded(b, x, z, c, v)
    BY BlowNear
  <1>2. QED BY <1>1, NearFair DEF Traded, Begins

LEMMA LedFair == ASSUME NEW x, Fierce(x), NEW z, SameButLed(x, z) PROVE Begins(x, z)
  BY LedCalm, CalmFair

LEMMA TargetingFair == ASSUME w \in Sane, Fierce(w), NEW c \in Person, NEW v \in Person, Target(c, v) PROVE Begins(w, w')
  <1>1. w \in World /\ Sound(w) /\ FALSE \in BOOLEAN
    BY DEF Sane
  <1>2. PICK y \in World : y = StopFighting(w, c, FALSE) /\ Sound(y)
    BY <1>1, Ending, Zenon
  <1>3. Calm(w, y, {})
    BY <1>1, <1>2, EndingCalm, Zenon
  <1>4. Fierce(y) /\ NoneBegan(w, y)
    BY <1>3, CalmBegins
  <1>5. Near(w, y, c, v) /\ w' \in Blow(y, c, v)
    BY <1>2, <1>4, NoneNear DEF Target
  <1>6. QED BY <1>2, <1>4, <1>5, StrikingFair, Zenon

LEMMA CirclingFair == ASSUME w \in Sane, Fierce(w), NEW c \in Person, NEW v \in Person, Circle(c, v) PROVE Begins(w, w')
  <1>1. w \in World /\ Sound(w) /\ w.at[c] # Nil /\ w.at[v] # Nil /\ Together(w, c, v)
    BY DEF Sane, Circle, Aimed, Together
  <1>2. PICK y \in World : y = SetFighting(w, c, v) /\ Sound(y) /\ SetOn(w, y, c, v)
    BY <1>1, Starting, SettingOn, Zenon
  <1>3. Fierce(y) /\ Near(w, y, c, v)
    <2>1. CASE w.fighting[c] # Nil
      BY <1>1, <1>2, <2>1, SameFair DEF SetOn
    <2>2. CASE w.fighting[c] = Nil
      <3>1. y.fighting = [w.fighting EXCEPT ![c] = v] /\ y.pos = [w.pos EXCEPT ![c] = "fighting"] /\ y.at = w.at
        BY <1>2, <2>2 DEF SetOn
      <3>2. \A d \in Person \ {c} : y.fighting[d] = w.fighting[d] /\ y.pos[d] = w.pos[d]
        BY <1>1, <3>1, Fields
      <3>3. y.fighting[c] = v /\ y.pos[c] = "fighting"
        BY <1>1, <3>1, Fields
      <3>4. Fierce(y) /\ Between(w, y, c, v)
        BY <3>2, <3>3 DEF Fierce, Between
      <3>5. QED BY <1>1, <3>1, <3>4 DEF Near, Together
    <2>3. QED BY <2>1, <2>2
  <1>4. w' \in Blow(y, c, v)
    BY <1>2 DEF Circle
  <1>5. QED BY <1>2, <1>3, <1>4, StrikingFair, Zenon

LEMMA RebellingFair == ASSUME w \in Sane, Fierce(w), NEW c \in Person, Rebel(c) PROVE Begins(w, w')
  <1>1. w \in World /\ Sound(w)
    BY DEF Sane
  <1>2. PICK y \in World : y = StopFollower(w, c) /\ Sound(y) /\ SameButLed(w, y)
    BY <1>1, StoppingToFollow, Zenon
  <1>3. PICK p \in Player : p = w.master[c]
    BY <1>1 DEF Rebel, Sound, Counted
  <1>4. p \in Person /\ ~({c, p} \subseteq Mob)
    BY CompanyConstants
  <1>5. Fierce(y) /\ NoneBegan(w, y)
    BY <1>2, LedCalm, CalmBegins
  <1>6. Near(w, y, c, p) /\ w' \in MultiHit(y, c, p)
    BY <1>2, <1>3, <1>4, <1>5, NoneNear DEF Rebel
  <1>7. QED BY <1>2, <1>4, <1>5, <1>6, PlainFair

LEMMA EscapingFair == ASSUME w \in Sane, Fierce(w), NEW c \in Person, Escape(c) PROVE Begins(w, w')
  <1>1. w \in World /\ Sound(w) /\ w' \in Flee(w, c)
    BY DEF Sane, Escape
  <1>2. \/ Stays(w, w', c)
        \/ Leaves(w, w', c, {c} \cup Ridden(w) \cup Standing(w))
    BY <1>1, FleeingCalm, Zenon
  <1>3. CASE Stays(w, w', c)
    <2>1. NoneBegan(w, w') /\ Fierce(w')
      BY <1>3 DEF Stays, NoneBegan
    <2>2. QED BY <2>1, NoneFair DEF Begins
  <1>4. QED BY <1>2, <1>3, CalmFair DEF Leaves

LEMMA EnlistingFair == ASSUME w \in Sane, Fierce(w), NEW c \in Person, NEW v \in Person, Follow(c, v) PROVE Begins(w, w')
  <1>1. w \in World /\ Sound(w)
    BY DEF Sane
  <1>2. CASE c = v
    <2>1. w' = StopFollower(w, c)
      BY <1>2 DEF Follow
    <2>2. SameButLed(w, w')
      BY <1>1, <2>1, StoppingToFollow, Zenon
    <2>3. QED BY <2>2, LedFair
  <1>3. CASE c # v
    <2>1. PICK y \in World : y = Unfollowed(w, c) /\ Sound(y) /\ SameButLed(w, y)
      BY <1>1, Leaving, Zenon
    <2> DEFINE ms == [y.master EXCEPT ![c] = v]
               os == [p \in Player |-> IF p = v /\ c \in Mob THEN y.orders[p] + 1 ELSE y.orders[p]]
               z == [y EXCEPT !.master = ms, !.orders = os]
    <2>2. w' = Extract(y, c) \/ w' = z
      BY <1>3, <2>1 DEF Follow, World
    <2> HIDE DEF ms, os
    <2>3. CASE w' = z
      <3>1. SameButLed(y, z)
        BY DEF World, SameButLed
      <3>2. SameButLed(w, w')
        BY <2>1, <2>3, <3>1 DEF SameButLed
      <3>3. QED BY <3>2, LedFair
    <2>4. CASE w' = Extract(y, c)
      <3>1. Calm(w, y, {c})
        BY <2>1, LedCalm DEF Calm
      <3>2. Calm(y, w', {c})
        BY <2>1, <2>4, ExtractingCalm, Zenon
      <3>3. Calm(w, w', {c})
        BY <3>1, <3>2, CalmTwice
      <3>4. QED BY <3>3, CalmFair
    <2>5. QED BY <2>2, <2>3, <2>4
  <1>4. QED BY <1>2, <1>3

LEMMA CharmingFair == ASSUME w \in Sane, Fierce(w), NEW c \in Person, NEW m \in Person, Charm(c, m) PROVE Begins(w, w')
  <1>1. w \in World /\ Sound(w)
    BY DEF Sane
  <1>2. PICK y \in World : y = Unfollowed(w, m) /\ SameButLed(w, y)
    BY <1>1, Leaving, Zenon
  <1>3. w' = [y EXCEPT !.charmed = y.charmed \cup {m}, !.master[m] = c, !.orders[c] = y.orders[c] + 1]
    BY <1>2 DEF Charm
  <1>4. SameButLed(y, w')
    BY <1>3 DEF World, SameButLed
  <1>5. SameButLed(w, w')
    BY <1>2, <1>4 DEF SameButLed
  <1>6. QED BY <1>5, LedFair
LEMMA RecallingFair == ASSUME w \in Sane, Fierce(w), NEW c \in Person, Recall(c) PROVE Begins(w, w')
  <1>1. w \in World /\ Temple \in Room
    BY CompanyConstants DEF Sane
  <1>2. CASE w.fighting[c] # Nil
    <2>1. w' = Shift(StopFighting(w, c, TRUE), c, Temple)
      BY <1>2 DEF Recall
    <2>2. Calm(w, w', {c} \cup Ridden(w))
      BY <1>1, <2>1, FetchingCalm, Zenon
    <2>3. QED BY <2>2, CalmFair
  <1>3. CASE w.fighting[c] = Nil
    <2>1. w' = Shift(w, c, Temple)
      BY <1>3 DEF Recall
    <2>2. Calm(w, w', {c} \cup Ridden(w))
      BY <1>1, <2>1, ShiftingCalm, Zenon
    <2>3. QED BY <2>2, CalmFair
  <1>4. QED BY <1>2, <1>3

LEMMA HealingFair == ASSUME w \in Sane, Fierce(w), NEW c \in Person, Heal(c) PROVE Begins(w, w')
  <1>1. w \in World /\ "well" \in {"well", "stunned", "down"}
    BY DEF Sane
  <1>2. PICK x \in World : x = [w EXCEPT !.health[c] = "well"] /\ Alike(w, x) /\ x.pos = w.pos /\ x.health[c] = "well"
    <2>1. PICK x \in World : x = [w EXCEPT !.health[c] = "well"] /\ Alike(w, x)
      BY <1>1, Ailing, Zenon
    <2>2. x.pos = w.pos /\ x.health = [w.health EXCEPT ![c] = "well"]
      BY <1>1, <2>1 DEF World
    <2>3. x.health[c] = "well"
      BY <1>1, <2>2, Fields
    <2>4. QED BY <2>1, <2>2, <2>3
  <1>3. w' = [x EXCEPT !.pos[c] = UpdatePos(x, c)]
    BY <1>2 DEF Heal
  <1>4. w.pos[c] = "fighting" => UpdatePos(x, c) = "fighting"
    BY <1>2 DEF UpdatePos
  <1>5. w'.fighting = w.fighting /\ w'.pos = [w.pos EXCEPT ![c] = UpdatePos(x, c)]
    BY <1>2, <1>3 DEF World, Alike
  <1>6. \A d \in Person : w.fighting[d] # Nil /\ w.pos[d] = "fighting" => w'.pos[d] = "fighting"
    BY <1>1, <1>4, <1>5, Fields
  <1>7. QED BY ZenonT(60), <1>5, <1>6, Undisturbed

LEMMA DismountingFair == ASSUME w \in Sane, Fierce(w), NEW c \in Person, Dismount(c) PROVE Begins(w, w')
  <1>1. w \in World /\ w' = Dismounted(w, c)
    BY DEF Sane, Dismount
  <1> DEFINE rg == [w.riding EXCEPT ![c] = Nil]
             rd == [w.rider EXCEPT ![w.riding[c]] = Nil]
             ps == [w.pos EXCEPT ![c] = IF w.pos[c] = "fighting" THEN w.pos[c] ELSE "standing"]
  <1>2. w' = [w EXCEPT !.riding = rg, !.rider = rd, !.pos = ps]
    BY <1>1 DEF World, Dismounted
  <1>3. \A d \in Person : w.fighting[d] # Nil /\ w.pos[d] = "fighting" => ps[d] = "fighting"
    BY <1>1, Fields
  <1> HIDE DEF rg, rd, ps
  <1>4. w'.fighting = w.fighting /\ w'.pos = ps
    BY <1>1, <1>2 DEF World
  <1>5. QED BY <1>3, <1>4, Undisturbed

LEMMA SaddlingFair == ASSUME w \in Sane, Fierce(w), NEW c \in Person, NEW m \in Person, Mount(c, m) PROVE Begins(w, w')
  <1>1. w \in World /\ w.pos[c] = "standing"
    BY DEF Sane, Mount, Ready
  <1>2. w'.fighting = w.fighting /\ w'.pos = [w.pos EXCEPT ![c] = "standing"]
    BY <1>1 DEF Mount, World
  <1>3. \A d \in Person : w.fighting[d] # Nil /\ w.pos[d] = "fighting" => w'.pos[d] = "fighting"
    BY <1>1, <1>2, Fields
  <1>4. QED BY ZenonT(60), <1>2, <1>3, Undisturbed

LEMMA ArrivingFair == ASSUME w \in Sane, Fierce(w), NEW c \in Person, Arrive(c) PROVE Begins(w, w')
  <1>1. w'.fighting = w.fighting /\ w'.pos = w.pos
    BY DEF Arrive, Sane, World
  <1>2. QED BY <1>1, Undisturbed

LEMMA BashingFair == ASSUME w \in Sane, Fierce(w), NEW c \in Person, NEW v \in Person, Bash(c, v) PROVE Begins(w, w')
  <1>1. w \in World /\ TRUE \in BOOLEAN
    BY DEF Sane
  <1>2. PICK y \in World : y = StopFighting(w, v, TRUE) /\ Calm(w, y, {}) /\ Unfought(y, v)
    BY <1>1, FightEnds, EndingCalm, Zenon
  <1> DEFINE x == [y EXCEPT !.pos[v] = "resting"]
  <1>3. w' = [x EXCEPT !.pos[v] = UpdatePos(x, v)]
    BY <1>2 DEF Bash
  <1>4. w'.fighting = y.fighting /\ w'.at = y.at /\ \A d \in Person \ {v} : w'.pos[d] = y.pos[d]
    BY <1>3 DEF World
  <1>5. Calm(w, w', {})
    BY <1>2, <1>4 DEF Calm, Unfought
  <1>6. QED BY <1>5, CalmFair

\* The one that is rescued, while his enemy is elsewhere.
RescuedLate == \E d, u \in Person : (Rescue(d, u) \/ Join(d, u)) /\ ~Together(w, u, w.fighting[u])

LEMMA RescuingFair ==
    ASSUME w \in Sane, Fierce(w), NEW c \in Person, NEW v \in Person, Rescue(c, v)
    PROVE  Fierce(w') /\ (Fair(w, w') \/ RescuedLate)
  <1> DEFINE f == w.fighting[v]
  <1>1. w \in World /\ Sound(w) /\ FALSE \in BOOLEAN
    BY DEF Sane
  <1>2. f \in Person /\ Together(w, c, v)
    BY <1>1, Fields DEF Rescue, InNeed
  <1>3. PICK a \in World : a = StopFighting(w, f, FALSE) /\ Calm(w, a, {}) /\ a.fighting[f] = Nil
    BY <1>1, <1>2, FightEnds, EndingCalm, Zenon
  <1>4. PICK b \in World : b = StopFighting(a, v, FALSE) /\ Calm(a, b, {})
    BY <1>1, FightEnds, EndingCalm, Zenon
  <1>5. Fierce(b) /\ NoneBegan(w, b) /\ b.at = w.at /\ b.fighting[f] = Nil
    <2>1. Calm(w, b, {})
      BY ZenonT(60), <1>3, <1>4 DEF Calm
    <2>2. b.fighting[f] = Nil
      BY <1>2, <1>3, <1>4 DEF Calm
    <2>3. \A d \in Person : b.at[d] = w.at[d]
      BY <2>1 DEF Calm
    <2>4. b.at = w.at
      BY <1>1, <2>3, Fields
    <2>5. QED BY <2>1, <2>2, <2>4, CalmBegins
  <1>6. PICK d \in World : d = SetFighting(b, c, f) /\ SetOn(b, d, c, f)
    BY <1>2, SettingOn, Zenon
  <1>7. PICK e \in World : e = SetFighting(d, f, c) /\ SetOn(d, e, f, c)
    BY <1>2, SettingOn, Zenon
  <1>8. w' = e
    BY <1>3, <1>4, <1>6, <1>7 DEF Rescue, Rescued
  <1> HIDE DEF f
  <1>9. \A u \in Person : /\ d.fighting[u] = IF u = c /\ b.fighting[c] = Nil THEN f ELSE b.fighting[u]
                          /\ d.pos[u] = IF u = c /\ b.fighting[c] = Nil THEN "fighting" ELSE b.pos[u]
    BY <1>6, Fields DEF SetOn
  <1>10. \A u \in Person : /\ e.fighting[u] = IF u = f /\ d.fighting[f] = Nil THEN c ELSE d.fighting[u]
                           /\ e.pos[u] = IF u = f /\ d.fighting[f] = Nil THEN "fighting" ELSE d.pos[u]
    BY <1>2, <1>7, Fields DEF SetOn
  <1>11. Fierce(e)
    <2>1. Fierce(d)
      BY <1>5, <1>9 DEF Fierce
    <2>2. QED BY <1>10, <2>1 DEF Fierce
  <1>12. Between(w, e, c, f)
    BY <1>5, <1>9, <1>10 DEF NoneBegan, Between
  <1>13. e.at = w.at
    BY <1>5, <1>6, <1>7 DEF SetOn
  <1>14. CASE Together(w, v, f)
    <2>1. Near(w, e, c, f)
      BY <1>2, <1>12, <1>13, <1>14 DEF Near, Together
    <2>2. QED BY <1>2, <1>8, <1>11, <2>1, NearFair
  <1>15. CASE ~Together(w, v, f)
    BY <1>8, <1>11, <1>15 DEF RescuedLate, f
  <1>16. QED BY <1>14, <1>15

LEMMA JoiningFair ==
    ASSUME w \in Sane, Fierce(w), NEW c \in Person, NEW u \in Person, Join(c, u)
    PROVE  Fierce(w') /\ (Fair(w, w') \/ RescuedLate)
  <1> DEFINE v == w.fighting[u]
  <1>1. w \in World /\ v \in Person /\ Together(w, c, u) /\ w' = SetFighting(w, c, v)
    BY Fields DEF Sane, Join
  <1>2. SetOn(w, w', c, v)
    BY <1>1, SettingOn, Zenon
  <1> HIDE DEF v
  <1>3. \A d \in Person : /\ w'.fighting[d] = IF d = c /\ w.fighting[c] = Nil THEN v ELSE w.fighting[d]
                          /\ w'.pos[d] = IF d = c /\ w.fighting[c] = Nil THEN "fighting" ELSE w.pos[d]
    BY <1>1, <1>2, Fields DEF SetOn
  <1>4. Fierce(w') /\ w'.at = w.at
    BY <1>2, <1>3 DEF Fierce, SetOn
  <1>5. CASE Together(w, u, v)
    <2>1. Together(w', c, v)
      BY <1>1, <1>4, <1>5 DEF Together
    <2>2. QED BY <1>3, <1>4, <2>1 DEF Fair
  <1>6. CASE ~Together(w, u, v)
    BY <1>4, <1>6 DEF RescuedLate, v
  <1>7. QED BY <1>5, <1>6

\* What one of them does begins no other fights than those.
LEMMA ActingFair ==
    ASSUME w \in Sane, Fierce(w), NEW c \in Person, Act(c)
    PROVE  Fierce(w') /\ (Fair(w, w') \/ RescuedLate)
  <1>1. w \in World /\ Sound(w) /\ FALSE \in BOOLEAN /\ TRUE \in BOOLEAN
    BY DEF Sane
  <1>2. \A v \in Person : Near(w, w, c, v)
    BY <1>1, SameFair
  <1>3. CASE Round(c)
    BY <1>1, <1>3, TurningFair DEF Round, Begins
  <1>4. CASE Escape(c)
    BY <1>4, EscapingFair DEF Begins
  <1>5. CASE Rest(c)
    <2>1. w.pos[c] # "fighting" /\ w' = [w EXCEPT !.pos[c] = "resting"]
      BY <1>5 DEF Rest, Ready
    <2>2. QED BY <1>1, <2>1, PosingFair DEF Begins
  <1>6. CASE Wake(c)
    <2>1. w.pos[c] # "fighting" /\ w' = [w EXCEPT !.pos[c] = "standing"]
      BY <1>6 DEF Wake
    <2>2. QED BY <1>1, <2>1, PosingFair DEF Begins
  <1>7. CASE Heal(c)
    BY <1>7, HealingFair DEF Begins
  <1>8. CASE Recall(c)
    BY <1>8, RecallingFair DEF Begins
  <1>9. CASE Quit(c)
    <2>1. Calm(w, w', {c})
      BY <1>1, <1>9, ExtractingCalm DEF Quit
    <2>2. QED BY <2>1, CalmFair DEF Begins
  <1>10. CASE Arrive(c)
    BY <1>10, ArrivingFair DEF Begins
  <1>11. CASE Dismount(c)
    BY <1>11, DismountingFair DEF Begins
  <1>12. CASE WearOff(c)
    <2>1. SameButLed(w, StopFollower(w, c))
      BY <1>1, StoppingToFollow, Zenon
    <2>2. QED BY <1>12, <2>1, LedFair DEF WearOff, Begins
  <1>13. CASE Rebel(c)
    BY <1>13, RebellingFair DEF Begins
  <1>14. CASE Suffer(c)
    BY <1>1, <1>2, <1>14, StrikingFair DEF Suffer, Begins
  <1>15. CASE do_stun(c)
    BY <1>1, <1>2, <1>15, StrikingFair DEF do_stun, Begins
  <1>16. CASE Frenzy(c)
    BY <1>1, <1>16, FrenzyingFair DEF Frenzy, Able, Begins
  <1>17. ASSUME NEW r \in Room, Walk(c, r) PROVE Begins(w, w')
    <2>1. w' = MoveChar(w, c, r)
      BY <1>17 DEF Walk
    <2>2. Calm(w, w', {c} \cup Ridden(w) \cup Standing(w))
      BY <1>1, <2>1, MovingCalm, Zenon
    <2>3. QED BY <2>2, CalmFair
  <1>18. ASSUME NEW v \in Person, Attack(c, v) PROVE Begins(w, w')
    <2>1. Together(w, c, v) /\ w' \in MultiHit(w, c, v)
      BY <1>18 DEF Attack, do_kill, do_murder, aggr_update, Aimed
    <2>2. Hit(w, w, w', c, v)
      BY <1>1, <2>1, SameBusy, HittingFair
    <2>3. QED BY <2>2, BusyFair DEF Hit, Begins
  <1>19. ASSUME NEW v \in Person, Rescue(c, v) \/ Join(c, v) PROVE Fierce(w') /\ (Fair(w, w') \/ RescuedLate)
    BY <1>19, RescuingFair, JoiningFair
  <1>20. ASSUME NEW v \in Person, Mount(c, v) PROVE Begins(w, w')
    BY <1>20, SaddlingFair
  <1>21. ASSUME NEW v \in Person, Follow(c, v) PROVE Begins(w, w')
    BY <1>21, EnlistingFair
  <1>22. ASSUME NEW v \in Person, Charm(c, v) PROVE Begins(w, w')
    BY <1>22, CharmingFair
  <1>23. ASSUME NEW v \in Person, Strike(c, v) PROVE Begins(w, w')
    BY <1>1, <1>2, <1>23, StrikingFair DEF Strike
  <1>24. ASSUME NEW v \in Person, Target(c, v) PROVE Begins(w, w')
    BY <1>24, TargetingFair
  <1>25. ASSUME NEW v \in Person, Circle(c, v) PROVE Begins(w, w')
    BY <1>25, CirclingFair
  <1>26. ASSUME NEW v \in Person, Bash(c, v) PROVE Begins(w, w')
    BY <1>26, BashingFair
  <1>27. ASSUME NEW v \in Person, Cast(c, v) PROVE Begins(w, w')
    BY <1>1, <1>27, CastingFair DEF Cast, Aimed, Able
  <1>28. (\E r \in Room : Walk(c, r)) => Begins(w, w')
    BY <1>17
  <1>29. (\E v \in Person : Attack(c, v) \/ Mount(c, v) \/ Follow(c, v) \/ Charm(c, v)
                            \/ Strike(c, v) \/ Target(c, v) \/ Circle(c, v) \/ Bash(c, v) \/ Cast(c, v)) => Begins(w, w')
    BY <1>18, <1>20, <1>21, <1>22, <1>23, <1>24, <1>25, <1>26, <1>27
  <1>30. QED
    BY <1>3, <1>4, <1>5, <1>6, <1>7, <1>8, <1>9, <1>10, <1>11, <1>12, <1>13, <1>14, <1>15, <1>16, <1>19, <1>28, <1>29
       DEF Act, Begins

\* Whoever fights is sound and in the position of one who does.
LEMMA AlwaysFierce == CompanySpec => [](w \in Sane /\ Fierce(w))
  <1>1. CompanyInit => w \in Sane /\ Fierce(w)
    BY SetsOut DEF CompanyInit, Nobody, Fierce
  <1>2. w \in Sane /\ Fierce(w) /\ [CompanyNext]_w => (w \in Sane /\ Fierce(w))'
    <2>1. CASE CompanyNext
      BY <2>1, Acting, ActingFair DEF CompanyNext
    <2>2. CASE UNCHANGED w
      BY <2>2 DEF Fierce
    <2>3. QED BY <2>1, <2>2
  <1>3. QED BY <1>1, <1>2, PTL DEF CompanySpec

\* A fight begins between two who are in one room, of however many people in however many
\* rooms: of whatever blows, flights and turns of coat a step of fight.c or hunt.c is made,
\* nobody comes out of it fighting one who is elsewhere, but for the exceptions that the
\* property names: a late rescue, late assistance, and a mob that is dragged, or goes on a
\* hunt, out of a fight just begun.
THEOREM FightsBegin == CompanySpec => FightsBeginTogether
  <1>1. w \in Sane /\ Fierce(w) /\ [CompanyNext]_w =>
            [\A c \in Person : LET v == w'.fighting[c] IN
                \/ v \in {w.fighting[c], Nil}
                \/ Together(w', c, v)
                \/ v \in Mob /\ (v \in Ridden(w) \/ w'.at[v] # w.at[v])
                \/ \E d, u \in Person : (Rescue(d, u) \/ Join(d, u)) /\ ~Together(w, u, w.fighting[u])]_w
    <2>1. CASE CompanyNext
      <3>1. SUFFICES ASSUME w \in Sane, Fierce(w)
                     PROVE  \A c \in Person : LET v == w'.fighting[c] IN
                               \/ v \in {w.fighting[c], Nil}
                               \/ Together(w', c, v)
                               \/ v \in Mob /\ (v \in Ridden(w) \/ w'.at[v] # w.at[v])
                               \/ \E d, u \in Person : (Rescue(d, u) \/ Join(d, u)) /\ ~Together(w, u, w.fighting[u])
        OBVIOUS
      <3>2. Fair(w, w') \/ RescuedLate
        BY <2>1, <3>1, ActingFair, Zenon DEF CompanyNext
      <3>3. QED BY <3>2 DEF Fair, RescuedLate
    <2>2. CASE UNCHANGED w
      BY <2>2
    <2>3. QED BY <2>1, <2>2
  <1>2. QED BY AlwaysFierce, <1>1, PTL DEF CompanySpec, FightsBeginTogether

=============================================================================
