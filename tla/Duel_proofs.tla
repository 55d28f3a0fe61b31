----------------------------- MODULE Duel_proofs -----------------------------
(***************************************************************************)
(* Proofs about Duel, for any number of players, arenas and races and for  *)
(* all timers, where immortals keep out (Secluded).  The properties of     *)
(* Duel hold each other up: who is where is known only as long as nobody   *)
(* plays two parts, timers tell the stages, and what a duel saved is used  *)
(* by whatever ends it.                                                    *)
(***************************************************************************)
EXTENDS Duel, TLAPS

\* Immortals neither transfer nor slay, and arenas can be left only by a duel.
Secluded ==
    /\ ~Immortals
    /\ QuitRooms \cap Arenas = {} /\ LeaveRooms \cap Arenas = {}

\* What start_duel saved is a body as it is outside duels.
SavedOwn ==
    \A d \in duels : d.stage = GO =>
        \A ch \in Duellists(d) : d.saved[ch] \in Body /\ d.saved[ch].race = "own"

\* Only duels that are fought have clocks of lost links, and only for their players.
LinksOwn ==
    \A d \in duels : \A ch \in Players : d.linkdead[ch] >= 0 => d.stage = GO /\ ch \in Duellists(d)

IInv ==
    /\ TypeOK /\ OneRole /\ ArenasExclusive /\ TimersKept /\ SavedOwn /\ LinksOwn
    /\ ArenaHoldsDuellists /\ WaitersTogether /\ NobodyExtracted
    /\ FilesFromOutside

\* The parts that are about the duels alone.
DuelsInv ==
    duels \subseteq DuelData /\ OneRole /\ ArenasExclusive /\ TimersKept /\ SavedOwn /\ LinksOwn

\* e is what became of d.
Heir(e, d) ==
    /\ e \in DuelData
    /\ e.first = d.first /\ e.second = d.second /\ e.vnum = d.vnum
    /\ e.watchers \subseteq d.watchers

\* e is what became of d in a step that neither begins it nor ages it.
Kin(e, d) ==
    /\ e \in DuelData
    /\ e.first = d.first /\ e.second = d.second /\ e.vnum = d.vnum /\ e.stage = d.stage
    /\ e.accepted = d.accepted /\ e.challenged = d.challenged
    /\ e.countdown = d.countdown /\ e.started = d.started
    /\ e.saved = d.saved /\ e.watchers \subseteq d.watchers
    /\ \A ch \in Players : \/ e.linkdead[ch] = d.linkdead[ch]
                           \/ e.linkdead[ch] = -1
                           \/ e.linkdead[ch] = 0 /\ d.stage = GO /\ ch \in Duellists(d)

LEMMA KinDuellists == \A e, d : Kin(e, d) => Duellists(e) = Duellists(d)
  BY DEF Kin, Duellists

LEMMA Typing ==
    ASSUME IInv
    PROVE  /\ duels \subseteq DuelData
           /\ \A d \in duels : /\ d.first \in Players /\ d.second \in Players
                               /\ Duellists(d) \subseteq Players /\ d.watchers \subseteq Players
                               /\ d.vnum \in Arenas /\ d.stage \in {READY, SET, GO}
           /\ room \in [Players -> Rooms \cup {Nowhere}]
           /\ body \in [Players -> Body]
           /\ file \in [Players -> [body : Body, room : Rooms]]
           /\ desc \subseteq Players
  <1>1. duels \subseteq DuelData
    BY DEF IInv, TypeOK
  <1>2. \A d \in DuelData : /\ d.first \in Players /\ d.second \in Players
                            /\ Duellists(d) \subseteq Players /\ d.watchers \subseteq Players
                            /\ d.vnum \in Arenas /\ d.stage \in {READY, SET, GO}
    BY DEF DuelData, Duellists
  <1>3. QED BY <1>1, <1>2 DEF IInv, TypeOK

LEMMA Places ==
    /\ Start \in Rooms /\ World \in Rooms /\ Moribund \in Rooms /\ Arenas \subseteq Rooms
    /\ Start \notin Arenas /\ World \notin Arenas /\ Moribund \notin Arenas
    /\ Nowhere \notin Rooms /\ Nowhere \notin Arenas
  BY DuelAssumption DEF Rooms

LEMMA SavedRooms ==
    ASSUME Secluded, NEW r \in Rooms
    PROVE  SavedRoom(r) \in Rooms /\ SavedRoom(r) \notin Arenas
  BY Places DEF SavedRoom, Secluded

-----------------------------------------------------------------------------
(* Steps that drop duels, spectators or links. *)

LEMMA HeirKeep ==
    ASSUME IInv, NEW f \in [duels -> DuelData], \A d \in duels : Heir(f[d], d),
           duels' \subseteq {f[d] : d \in duels}
    PROVE  OneRole' /\ ArenasExclusive'
  <1>1. \A e \in duels' : \E d \in duels : e = f[d] /\ Heir(e, d)
    OBVIOUS
  <1>2. ArenasExclusive'
    <2>1. SUFFICES ASSUME NEW e \in duels', NEW g \in duels', e.vnum = g.vnum PROVE e = g
      BY DEF ArenasExclusive
    <2>2. PICK d \in duels : e = f[d] /\ Heir(e, d)
      BY <1>1
    <2>3. PICK b \in duels : g = f[b] /\ Heir(g, b)
      BY <1>1
    <2>4. d.vnum = b.vnum
      BY <2>1, <2>2, <2>3 DEF Heir
    <2>5. d = b
      BY <2>4 DEF IInv, ArenasExclusive
    <2>6. QED BY <2>2, <2>3, <2>5
  <1>3. OneRole'
    <2>1. SUFFICES ASSUME NEW e \in duels'
                   PROVE  /\ e.first # e.second
                          /\ \A g \in duels' : e.watchers \cap Duellists(g) = {}
                          /\ \A g \in duels' \ {e} : /\ Duellists(e) \cap Duellists(g) = {}
                                                     /\ e.watchers \cap g.watchers = {}
      BY DEF OneRole, Duellists
    <2>2. PICK d \in duels : e = f[d] /\ Heir(e, d)
      BY <1>1
    <2>3. e.first # e.second
      BY <2>2 DEF Heir, IInv, OneRole
    <2>4. ASSUME NEW g \in duels' PROVE e.watchers \cap Duellists(g) = {}
      <3>1. PICK b \in duels : g = f[b] /\ Heir(g, b)
        BY <1>1
      <3>2. d.watchers \cap Duellists(b) = {}
        BY DEF IInv, OneRole
      <3>3. QED BY <2>2, <3>1, <3>2 DEF Heir, Duellists
    <2>5. ASSUME NEW g \in duels' \ {e}
          PROVE  Duellists(e) \cap Duellists(g) = {} /\ e.watchers \cap g.watchers = {}
      <3>1. PICK b \in duels : g = f[b] /\ Heir(g, b)
        BY <1>1
      <3>2. b \in duels \ {d}
        BY <2>2, <2>5, <3>1
      <3>3. Duellists(d) \cap Duellists(b) = {} /\ d.watchers \cap b.watchers = {}
        BY <3>2 DEF IInv, OneRole
      <3>4. QED BY <2>2, <3>1, <3>3 DEF Heir, Duellists
    <2>6. QED BY <2>3, <2>4, <2>5
  <1>4. QED BY <1>2, <1>3

LEMMA KinKeep ==
    ASSUME IInv, NEW f \in [duels -> DuelData], \A d \in duels : Kin(f[d], d),
           duels' \subseteq {f[d] : d \in duels}
    PROVE  DuelsInv' /\ \A e \in duels' : \E d \in duels : Kin(e, d)
  <1>1. \A e \in duels' : \E d \in duels : e = f[d] /\ Kin(e, d)
    OBVIOUS
  <1>2. duels' \subseteq DuelData
    BY <1>1 DEF Kin
  <1>4. OneRole' /\ ArenasExclusive'
    <2>1. \A d \in duels : Heir(f[d], d)
      BY DEF Kin, Heir
    <2>2. QED BY <2>1, HeirKeep
  <1>5. TimersKept'
    <2>1. SUFFICES ASSUME NEW e \in duels'
                   PROVE  /\ e.stage = READY => ~AllAccepted(e) /\ e.challenged < ReadyTime
                          /\ e.stage = SET => AllAccepted(e) /\ e.countdown > 0
                          /\ e.stage = GO => /\ AllAccepted(e) /\ e.started < GoTime
                                             /\ \A ch \in Duellists(e) : e.linkdead[ch] < LinkTime
      BY DEF TimersKept, AllAccepted, Duellists
    <2>2. PICK d \in duels : Kin(e, d)
      BY <1>1
    <2>3. /\ d.stage = READY => ~AllAccepted(d) /\ d.challenged < ReadyTime
          /\ d.stage = SET => AllAccepted(d) /\ d.countdown > 0
          /\ d.stage = GO => /\ AllAccepted(d) /\ d.started < GoTime
                             /\ \A ch \in Duellists(d) : d.linkdead[ch] < LinkTime
      BY DEF IInv, TimersKept
    <2>4. AllAccepted(e) = AllAccepted(d) /\ Duellists(e) = Duellists(d)
      BY <2>2 DEF Kin, AllAccepted, Duellists
    <2>5. ASSUME e.stage = GO, NEW ch \in Duellists(e) PROVE e.linkdead[ch] < LinkTime
      <3>1. ch \in Players /\ d.linkdead[ch] < LinkTime
        BY <2>2, <2>3, <2>4, <2>5, Typing DEF Kin
      <3>2. e.linkdead[ch] = d.linkdead[ch] \/ e.linkdead[ch] \in {-1, 0}
        BY <2>2, <3>1 DEF Kin
      <3>3. LinkTime \in Nat \ {0} /\ e.linkdead[ch] \in -1 .. LinkTime
        BY <2>2, <3>1, DuelAssumption DEF Kin, DuelData
      <3>4. QED BY <3>1, <3>2, <3>3
    <2>6. QED BY <2>2, <2>3, <2>4, <2>5 DEF Kin
  <1>6. SavedOwn'
    <2>1. SUFFICES ASSUME NEW e \in duels', e.stage = GO, NEW ch \in Duellists(e)
                   PROVE  e.saved[ch] \in Body /\ e.saved[ch].race = "own"
      BY DEF SavedOwn, Duellists
    <2>2. PICK d \in duels : Kin(e, d)
      BY <1>1
    <2>3. d.stage = GO /\ ch \in Duellists(d) /\ e.saved = d.saved
      BY <2>1, <2>2 DEF Kin, Duellists
    <2>4. QED BY <2>3 DEF IInv, SavedOwn
  <1>7. LinksOwn'
    <2>1. SUFFICES ASSUME NEW e \in duels', NEW ch \in Players, e.linkdead[ch] >= 0
                   PROVE  e.stage = GO /\ ch \in Duellists(e)
      BY DEF LinksOwn, Duellists
    <2>2. PICK d \in duels : Kin(e, d)
      BY <1>1
    <2>3. d.linkdead[ch] >= 0 => d.stage = GO /\ ch \in Duellists(d)
      BY DEF IInv, LinksOwn
    <2>4. QED BY <2>1, <2>2, <2>3 DEF Kin, Duellists
  <1>8. QED BY <1>1, <1>2, <1>4, <1>5, <1>6, <1>7 DEF DuelsInv

\* Duels G end, and the players in S watch no more.
LEMMA Dropping ==
    ASSUME IInv, NEW G, NEW S, duels' = Unwatched(duels \ G, S)
    PROVE  /\ DuelsInv'
           /\ \A e \in duels' : e.watchers \cap S = {} /\ \E d \in duels \ G : Kin(e, d)
           /\ \A d \in duels \ G : \E e \in duels' : Kin(e, d)
  <1> DEFINE F(d) == [d EXCEPT !.watchers = @ \ S]
             f == [d \in duels |-> F(d)]
  <1>1. ASSUME NEW d \in duels
        PROVE  F(d) \in DuelData /\ Kin(F(d), d) /\ F(d).watchers \cap S = {}
    BY Typing DEF DuelData, Kin
  <1>2. f \in [duels -> DuelData] /\ \A d \in duels : Kin(f[d], d)
    BY <1>1
  <1>3. duels' = {F(d) : d \in duels \ G}
    BY DEF Unwatched
  <1>4. duels' \subseteq {f[d] : d \in duels}
    BY <1>3
  <1>5. DuelsInv'
    <2> HIDE DEF f
    <2> QED BY <1>2, <1>4, KinKeep
  <1> HIDE DEF F, f
  <1>6. QED BY <1>1, <1>3, <1>5

\* Nothing happens to the duels, or to any room.
LEMMA SameDuels == ASSUME IInv, UNCHANGED duels PROVE DuelsInv'
  BY DEF IInv, TypeOK, DuelsInv, OneRole, ArenasExclusive, TimersKept, SavedOwn, LinksOwn, Duellists, AllAccepted

LEMMA SameRooms == ASSUME IInv, UNCHANGED <<duels, room>> PROVE InTheirPlaces'
  BY DEF IInv, InTheirPlaces, ArenaHoldsDuellists, WaitersTogether, NobodyExtracted, Duellists, DuelsOf,
         Fighting, InDuel, Present

LEMMA FightingDef ==
    \A ch \in Players :
        /\ duels \subseteq DuelData => (Fighting(ch) <=> \E d \in duels : d.stage = GO /\ ch \in Duellists(d))
        /\ DuelsOf(ch, {GO}) = {d \in duels : d.stage = GO /\ ch \in Duellists(d)}
  <1>1. \A d \in DuelData : d.stage >= GO <=> d.stage = GO
    BY DEF DuelData, READY, SET, GO
  <1>2. QED BY <1>1 DEF Fighting, InDuel, DuelsOf

\* A character who is in no arena leaves his room, or the game.
LEMMA Leaving ==
    ASSUME IInv, NEW ch \in Players, NEW r, r \notin Arenas,
           ch \in Present, room[ch] \notin Arenas,
           duels' = AfterLeaving(ch), room' = [room EXCEPT ![ch] = r]
    PROVE  DuelsInv' /\ InTheirPlaces' /\ \A c \in Players : Fighting(c)' <=> Fighting(c)
  <1> DEFINE G == DuelsOf(ch, {READY, SET})
  <1>1. /\ DuelsInv'
        /\ \A e \in duels' : e.watchers \cap {ch} = {} /\ \E d \in duels \ G : Kin(e, d)
        /\ \A d \in duels \ G : \E e \in duels' : Kin(e, d)
    BY Dropping DEF AfterLeaving
  <1>2. \A d \in duels : d.stage = GO => ch \notin Duellists(d)
    BY Typing DEF IInv, ArenaHoldsDuellists, DuelsOf
  <1>3. \A d \in duels \ G : ch \notin Duellists(d)
    BY <1>2, Typing DEF DuelsOf
  <1>4. \A e \in duels' : \E d \in duels : /\ Kin(e, d) /\ ch \notin Duellists(d) /\ ch \notin Duellists(e)
                                           /\ ch \notin e.watchers /\ Duellists(e) = Duellists(d)
    BY <1>1, <1>3, KinDuellists
  <1>5. \A c \in Players : c # ch => room'[c] = room[c]
    BY Typing
  <1>6. room'[ch] = r
    BY Typing
  <1>7. ASSUME NEW c \in Players
        PROVE  /\ \A e \in DuelsOf(c, {GO})' : room'[c] = e.vnum
               /\ (room'[c] \in Arenas => Fighting(c)')
               /\ (Fighting(c)' <=> Fighting(c))
    <2>1. ASSUME NEW e \in duels', e.stage = GO, c \in Duellists(e) PROVE room'[c] = e.vnum
      <3>1. PICK d \in duels : /\ Kin(e, d) /\ ch \notin Duellists(e) /\ Duellists(e) = Duellists(d)
        BY <1>4
      <3>2. room[c] = d.vnum
        BY <2>1, <3>1, FightingDef DEF IInv, ArenaHoldsDuellists, Kin
      <3>3. QED BY <1>5, <2>1, <3>1, <3>2 DEF Kin
    <2>2. Fighting(c)' <=> \E e \in duels' : e.stage = GO /\ c \in Duellists(e)
      <3>1. \A e \in duels' : e.stage >= GO <=> e.stage = GO
        BY <1>1 DEF DuelsInv, DuelData, READY, SET, GO
      <3>2. QED BY <3>1 DEF Fighting, InDuel, Duellists
    <2>3. Fighting(c)' => Fighting(c)
      BY <1>4, <2>2, FightingDef, Typing DEF Kin
    <2>4. Fighting(c) => Fighting(c)'
      <3>1. SUFFICES ASSUME NEW d \in duels, d.stage = GO, c \in Duellists(d) PROVE Fighting(c)'
        BY FightingDef, Typing
      <3>2. d \notin G
        BY <3>1 DEF DuelsOf, READY, SET, GO
      <3>3. PICK e \in duels' : Kin(e, d)
        BY <1>1, <3>2
      <3>4. QED BY <2>2, <3>1, <3>3 DEF Kin, Duellists
    <2>5. room'[c] \in Arenas => Fighting(c)'
      BY <1>5, <1>6, <2>4 DEF IInv, ArenaHoldsDuellists
    <2>6. QED BY <2>1, <2>3, <2>4, <2>5 DEF DuelsOf, Duellists
  <1>8. WaitersTogether'
    <2>1. SUFFICES ASSUME NEW e \in duels', e.stage # GO, NEW c \in Duellists(e) PROVE room'[c] = Start
      BY DEF WaitersTogether, Duellists
    <2>2. PICK d \in duels : Kin(e, d) /\ ch \notin Duellists(d) /\ Duellists(e) = Duellists(d)
      BY <1>4
    <2>3. room[c] = Start /\ c # ch /\ c \in Players
      BY <2>1, <2>2, Typing DEF IInv, WaitersTogether, Kin
    <2>4. QED BY <1>5, <2>3
  <1>9. NobodyExtracted'
    <2>1. SUFFICES ASSUME NEW e \in duels', NEW c \in Duellists(e) \cup e.watchers
                   PROVE  c \in Players /\ room'[c] # Nowhere
      BY DEF NobodyExtracted, Duellists, Present
    <2>2. PICK d \in duels : /\ Kin(e, d) /\ ch \notin Duellists(e) /\ ch \notin e.watchers
                             /\ Duellists(e) = Duellists(d)
      BY <1>4
    <2>3. c \in Duellists(d) \cup d.watchers /\ c # ch
      BY <2>1, <2>2 DEF Kin
    <2>4. c \in Present
      BY <2>3 DEF IInv, NobodyExtracted
    <2>5. QED BY <1>5, <2>3, <2>4 DEF Present
  <1>10. QED BY <1>1, <1>7, <1>8, <1>9 DEF InTheirPlaces, ArenaHoldsDuellists

-----------------------------------------------------------------------------
(* Steps that end duels. *)

\* What a cancellation gives back.
LEMMA Restoration ==
    ASSUME Secluded, NEW gone, gone \subseteq DuelData,
           \A d \in gone : d.stage = GO =>
               \A ch \in Duellists(d) : d.saved[ch] \in Body /\ d.saved[ch].race = "own",
           room \in [Players -> Rooms \cup {Nowhere}], body \in [Players -> Body],
           file \in [Players -> [body : Body, room : Rooms]]
    PROVE  /\ Restored(gone) \in [Players -> Body]
           /\ Released(gone) \in [Players -> Rooms \cup {Nowhere}]
           /\ Written(gone) \in [Players -> [body : Body, room : Rooms]]
           /\ \A ch \in Returning(gone) :
                 /\ ch \in Players
                 /\ Restored(gone)[ch].race = "own"
                 /\ Released(gone)[ch] = Start
                 /\ Written(gone)[ch].body.race = "own" /\ Written(gone)[ch].room \notin Arenas
           /\ \A ch \in Players \ Returning(gone) :
                 /\ Restored(gone)[ch] = body[ch] /\ Released(gone)[ch] = room[ch]
                 /\ Written(gone)[ch] = file[ch]
  <1>1. \A ch \in Returning(gone) : \E d \in gone : d.stage = GO /\ ch \in Duellists(d)
    BY DEF Returning
  <1>2. \A ch \in Returning(gone) : SavedIn(gone, ch) \in Body /\ SavedIn(gone, ch).race = "own"
    <2>1. SUFFICES ASSUME NEW ch \in Returning(gone)
                   PROVE  SavedIn(gone, ch) \in Body /\ SavedIn(gone, ch).race = "own"
      OBVIOUS
    <2> DEFINE D == CHOOSE d \in gone : d.stage = GO /\ ch \in Duellists(d)
    <2>2. D \in gone /\ D.stage = GO /\ ch \in Duellists(D)
      BY <1>1
    <2>3. QED BY <2>2 DEF SavedIn
  <1>3. Returning(gone) \subseteq Players
    BY <1>1 DEF DuelData, Duellists
  <1>4. SavedRoom(Start) \in Rooms /\ SavedRoom(Start) \notin Arenas /\ Start \in Rooms
    BY SavedRooms, Places
  <1>5. /\ Restored(gone) \in [Players -> Body]
        /\ \A ch \in Returning(gone) : Restored(gone)[ch].race = "own"
        /\ \A ch \in Players \ Returning(gone) : Restored(gone)[ch] = body[ch]
    BY <1>2, <1>3 DEF Restored
  <1>6. /\ Released(gone) \in [Players -> Rooms \cup {Nowhere}]
        /\ \A ch \in Returning(gone) : Released(gone)[ch] = Start
        /\ \A ch \in Players \ Returning(gone) : Released(gone)[ch] = room[ch]
    BY <1>3, <1>4 DEF Released
  <1>7. /\ Written(gone) \in [Players -> [body : Body, room : Rooms]]
        /\ \A ch \in Returning(gone) :
              Written(gone)[ch].body.race = "own" /\ Written(gone)[ch].room \notin Arenas
        /\ \A ch \in Players \ Returning(gone) : Written(gone)[ch] = file[ch]
    BY <1>2, <1>3, <1>4 DEF Written
  <1>8. QED BY <1>3, <1>5, <1>6, <1>7

\* cancel_duel on a duel that is fought, by death or by idling.
LEMMA Cancelling ==
    ASSUME IInv, Secluded, NEW gone, gone \subseteq duels, \A d \in gone : d.stage = GO,
           Cancel(gone), UNCHANGED desc
    PROVE  IInv'
  <1> DEFINE back == Returning(gone)
  <1>1. /\ Restored(gone) \in [Players -> Body]
        /\ Released(gone) \in [Players -> Rooms \cup {Nowhere}]
        /\ Written(gone) \in [Players -> [body : Body, room : Rooms]]
        /\ \A ch \in back :
              /\ ch \in Players
              /\ Restored(gone)[ch].race = "own"
              /\ Released(gone)[ch] = Start
              /\ Written(gone)[ch].body.race = "own" /\ Written(gone)[ch].room \notin Arenas
        /\ \A ch \in Players \ back :
              /\ Restored(gone)[ch] = body[ch] /\ Released(gone)[ch] = room[ch]
              /\ Written(gone)[ch] = file[ch]
    <2>1. gone \subseteq DuelData
      BY Typing
    <2>2. \A d \in gone : d.stage = GO =>
               \A ch \in Duellists(d) : d.saved[ch] \in Body /\ d.saved[ch].race = "own"
      BY DEF IInv, SavedOwn
    <2>3. QED BY <2>1, <2>2, Typing, Restoration
  <1>2. /\ DuelsInv'
        /\ \A e \in duels' : \E d \in duels \ gone : Kin(e, d) /\ Duellists(e) = Duellists(d)
        /\ \A d \in duels \ gone : \E e \in duels' : Kin(e, d) /\ Duellists(e) = Duellists(d)
    <2>1. duels' = Unwatched(duels \ gone, back)
      BY DEF Cancel
    <2>2. /\ DuelsInv'
          /\ \A e \in duels' : \E d \in duels \ gone : Kin(e, d)
          /\ \A d \in duels \ gone : \E e \in duels' : Kin(e, d)
      BY <2>1, Dropping
    <2>3. QED BY <2>2, KinDuellists
  <1>3. body' = Restored(gone) /\ room' = Released(gone) /\ file' = Written(gone)
    BY DEF Cancel
  <1>4. \A d \in duels \ gone : Duellists(d) \cap back = {}
    BY DEF Returning, IInv, OneRole
  <1>5. \A d \in duels \ gone : \A ch \in Duellists(d) : ch \in Players /\ room'[ch] = room[ch]
    BY <1>1, <1>3, <1>4, Typing
  <1>6. \A ch \in Players : Fighting(ch)' <=> \E e \in duels' : e.stage = GO /\ ch \in Duellists(e)
    <2>1. \A e \in duels' : e.stage >= GO <=> e.stage = GO
      BY <1>2 DEF DuelsInv, DuelData, READY, SET, GO
    <2>2. QED BY <2>1 DEF Fighting, InDuel, Duellists
  <1>7. \A ch \in Players \ back : Fighting(ch) => Fighting(ch)'
    <2>1. SUFFICES ASSUME NEW ch \in Players \ back, NEW d \in duels, d.stage = GO, ch \in Duellists(d)
                   PROVE  Fighting(ch)'
      BY FightingDef, Typing
    <2>2. d \notin gone
      BY <2>1 DEF Returning
    <2>3. PICK e \in duels' : Kin(e, d) /\ Duellists(e) = Duellists(d)
      BY <1>2, <2>2
    <2>4. QED BY <1>6, <2>1, <2>3 DEF Kin
  <1>8. ArenaHoldsDuellists'
    <2>1. ASSUME NEW ch \in Players, NEW e \in duels', e.stage = GO, ch \in Duellists(e)
          PROVE  room'[ch] = e.vnum
      <3>1. PICK d \in duels \ gone : Kin(e, d) /\ Duellists(e) = Duellists(d)
        BY <1>2
      <3>2. room[ch] = d.vnum
        BY <2>1, <3>1, FightingDef DEF IInv, ArenaHoldsDuellists, Kin
      <3>3. QED BY <1>5, <2>1, <3>1, <3>2 DEF Kin
    <2>2. ASSUME NEW ch \in Players, room'[ch] \in Arenas PROVE Fighting(ch)'
      <3>1. ch \notin back
        BY <1>1, <1>3, <2>2, Places
      <3>2. room[ch] \in Arenas
        BY <1>1, <1>3, <2>2, <3>1
      <3>3. QED BY <1>7, <3>1, <3>2 DEF IInv, ArenaHoldsDuellists
    <2>3. QED BY <2>1, <2>2 DEF ArenaHoldsDuellists, DuelsOf, Duellists
  <1>9. WaitersTogether'
    <2>1. SUFFICES ASSUME NEW e \in duels', e.stage # GO, NEW ch \in Duellists(e) PROVE room'[ch] = Start
      BY DEF WaitersTogether, Duellists
    <2>2. PICK d \in duels \ gone : Kin(e, d) /\ Duellists(e) = Duellists(d)
      BY <1>2
    <2>3. room[ch] = Start
      BY <2>1, <2>2 DEF IInv, WaitersTogether, Kin
    <2>4. QED BY <1>5, <2>1, <2>2, <2>3
  <1>10. NobodyExtracted'
    <2>1. SUFFICES ASSUME NEW e \in duels', NEW ch \in Duellists(e) \cup e.watchers
                   PROVE  ch \in Players /\ room'[ch] # Nowhere
      BY DEF NobodyExtracted, Duellists, Present
    <2>2. PICK d \in duels \ gone : Kin(e, d) /\ Duellists(e) = Duellists(d)
      BY <1>2
    <2>3. ch \in Present
      BY <2>1, <2>2 DEF IInv, NobodyExtracted, Kin
    <2>4. room'[ch] \in {Start, room[ch]}
      BY <1>1, <1>3, <2>3 DEF Present
    <2>5. QED BY <2>3, <2>4, Places DEF Present
  <1>11. FilesFromOutside'
    <2>1. SUFFICES ASSUME NEW ch \in Players
                   PROVE  /\ file'[ch].body.race = "own" /\ file'[ch].room \notin Arenas
                          /\ room'[ch] # Nowhere /\ ~Fighting(ch)' => body'[ch].race = "own"
      BY DEF FilesFromOutside, Present
    <2>2. CASE ch \in back
      BY <1>1, <1>3, <2>2
    <2>3. CASE ch \notin back
      BY <1>1, <1>3, <1>7, <2>3 DEF IInv, FilesFromOutside, Present
    <2>4. QED BY <2>2, <2>3
  <1>12. TypeOK'
    BY <1>1, <1>2, <1>3, Typing DEF DuelsInv, TypeOK
  <1>13. QED BY <1>2, <1>8, <1>9, <1>10, <1>11, <1>12 DEF IInv, DuelsInv

-----------------------------------------------------------------------------
(* The other actions. *)

LEMMA InitIInv == Init /\ Secluded => IInv
  <1>1. SUFFICES ASSUME Init, Secluded PROVE IInv
    OBVIOUS
  <1>2. /\ SavedRoom(Start) \in Rooms /\ SavedRoom(Start) \notin Arenas
        /\ [hit |-> MaxHit, race |-> "own"] \in Body
    BY <1>1, SavedRooms, Places, DuelAssumption DEF Body
  <1>3. TypeOK
    BY <1>1, <1>2, Places DEF Init, TypeOK
  <1>4. QED BY <1>1, <1>2, <1>3, Places DEF Init, IInv, OneRole, ArenasExclusive, TimersKept, SavedOwn, LinksOwn,
               ArenaHoldsDuellists, WaitersTogether, NobodyExtracted, FilesFromOutside, DuelsOf

\* Files and bodies, when nobody begins or ends a duel.
LEMMA SameFiles ==
    ASSUME IInv, UNCHANGED <<room, body, file>>, \A ch \in Players : Fighting(ch)' <=> Fighting(ch)
    PROVE  FilesFromOutside'
  BY DEF IInv, FilesFromOutside, Present

LEMMA ChallengeIInv ==
    ASSUME IInv, NEW ch \in Players, NEW victim \in Players, Challenge(ch, victim) PROVE IInv'
  <1>1. PICK a \in Arenas, rr \in BOOLEAN : IsDuelRoom(a) /\ duels' = duels \cup {NewDuel(ch, victim, a, rr)}
    BY DEF Challenge
  <1> DEFINE n == NewDuel(ch, victim, a, rr)
  <1>2. /\ n \in DuelData /\ n.first = ch /\ n.second = victim /\ n.vnum = a /\ n.stage = READY
        /\ n.accepted = {ch} /\ n.challenged = 0 /\ n.watchers = {}
        /\ \A c \in Players : n.linkdead[c] = -1
    BY DuelAssumption DEF NewDuel, DuelData, READY, SET, GO
  <1> HIDE DEF n
  <1>3. /\ ch # victim /\ room[ch] = Start /\ room[victim] = Start
        /\ \A d \in duels : Duellists(d) \cap {ch, victim} = {} /\ d.watchers \cap {ch, victim} = {}
    <2>1. \A d \in duels : d.stage >= READY
      BY Typing DEF READY, SET, GO
    <2>2. QED BY <2>1 DEF Challenge, MayDuel, InDuel, Watching
  <1>4. Duellists(n) = {ch, victim} /\ \A d \in duels : d.vnum # a
    BY <1>1, <1>2 DEF Duellists, IsDuelRoom, FreeRooms
  <1>5. duels' = duels \cup {n} /\ UNCHANGED <<room, desc, body, file>>
    BY <1>1 DEF Challenge, n
  <1>6. OneRole' /\ ArenasExclusive'
    BY <1>2, <1>3, <1>4, <1>5 DEF IInv, OneRole, ArenasExclusive, Duellists
  <1>7. TimersKept' /\ SavedOwn'
    <2>1. ~AllAccepted(n) /\ n.challenged < ReadyTime
      BY <1>2, <1>3, <1>4, DuelAssumption DEF AllAccepted
    <2>2. QED BY <1>2, <1>5, <2>1 DEF IInv, TimersKept, SavedOwn, AllAccepted, Duellists, READY, SET, GO
  <1>8. LinksOwn'
    BY <1>2, <1>5 DEF IInv, LinksOwn, Duellists
  <1>9. \A c \in Players : DuelsOf(c, {GO})' = DuelsOf(c, {GO}) /\ (Fighting(c)' <=> Fighting(c))
    BY <1>2, <1>5 DEF DuelsOf, Fighting, InDuel, Duellists, READY, GO
  <1>10. InTheirPlaces'
    <2>1. Start # Nowhere
      BY Places
    <2>2. ArenaHoldsDuellists'
      BY <1>5, <1>9 DEF IInv, ArenaHoldsDuellists
    <2>3. WaitersTogether' /\ NobodyExtracted'
      BY <1>2, <1>3, <1>4, <1>5, <2>1 DEF IInv, WaitersTogether, NobodyExtracted, Present, Duellists
    <2>4. QED BY <2>2, <2>3 DEF InTheirPlaces
  <1>11. FilesFromOutside'
    BY <1>5, <1>9, SameFiles
  <1>12. QED BY <1>2, <1>5, <1>6, <1>7, <1>10, <1>11, <1>8 DEF IInv, TypeOK, InTheirPlaces

LEMMA AcceptIInv == ASSUME IInv, NEW ch \in Players, Accept(ch) PROVE IInv'
  <1>1. PICK d \in duels : /\ ch \in Duellists(d) /\ ch \notin d.accepted
                           /\ duels' = (duels \ {d}) \cup {Accepted(d, ch)}
    BY DEF Accept, DuelsOf
  <1> DEFINE e == Accepted(d, ch)
  <1>2. d.stage = READY /\ d.challenged < ReadyTime /\ d \in DuelData
    BY <1>1, Typing DEF IInv, TimersKept, AllAccepted
  <1>3. /\ Heir(e, d) /\ e.stage \in {READY, SET} /\ Duellists(e) = Duellists(d) /\ e.watchers = d.watchers
        /\ e.linkdead = d.linkdead
        /\ e.stage = READY => ~AllAccepted(e) /\ e.challenged < ReadyTime
        /\ e.stage = SET => AllAccepted(e) /\ e.countdown > 0
    <2> DEFINE acc == [d EXCEPT !.accepted = @ \cup {ch}]
               on == [acc EXCEPT !.stage = SET, !.countdown = SetTime, !.challenged = 0]
    <2>1. /\ acc \in DuelData /\ acc.first = d.first /\ acc.second = d.second /\ acc.vnum = d.vnum
          /\ acc.watchers = d.watchers /\ acc.stage = READY /\ acc.challenged = d.challenged
          /\ acc.linkdead = d.linkdead
      BY <1>2 DEF DuelData
    <2>2. e = IF AllAccepted(acc) THEN on ELSE acc
      BY DEF Accepted
    <2> HIDE DEF acc
    <2>3. /\ on \in DuelData /\ on.first = d.first /\ on.second = d.second /\ on.vnum = d.vnum
          /\ on.watchers = d.watchers /\ on.stage = SET /\ on.accepted = acc.accepted
          /\ on.linkdead = d.linkdead
          /\ on.countdown = SetTime /\ SetTime > 0
      <3>1. SetTime \in 0 .. SetTime /\ 0 \in 0 .. ReadyTime /\ SetTime > 0
        BY DuelAssumption
      <3>2. on \in DuelData
        BY <2>1, <3>1 DEF DuelData
      <3>3. QED BY <2>1, <3>1 DEF DuelData
    <2> HIDE DEF on, e
    <2>4. AllAccepted(on) = AllAccepted(acc)
      BY <2>1, <2>3 DEF AllAccepted, Duellists
    <2>5. QED BY <1>2, <2>1, <2>2, <2>3, <2>4 DEF Heir, Duellists, READY, SET
  <1> HIDE DEF e
  <1>4. duels' = (duels \ {d}) \cup {e} /\ UNCHANGED <<room, desc, body, file>>
    BY <1>1 DEF Accept, e
  <1>5. OneRole' /\ ArenasExclusive'
    <2> DEFINE f == [x \in duels |-> IF x = d THEN e ELSE x]
    <2>1. f \in [duels -> DuelData] /\ \A x \in duels : Heir(f[x], x)
      BY <1>3, Typing DEF Heir
    <2>2. duels' \subseteq {f[x] : x \in duels}
      BY <1>4
    <2> HIDE DEF f
    <2>3. QED BY <2>1, <2>2, HeirKeep
  <1>6. READY # GO /\ SET # GO /\ READY # SET
    BY DEF READY, SET, GO
  <1>7. TimersKept' /\ SavedOwn'
    BY <1>3, <1>4, <1>6 DEF IInv, TimersKept, SavedOwn, AllAccepted, Duellists
  <1>8. LinksOwn'
    BY <1>2, <1>3, <1>4, <1>6 DEF IInv, LinksOwn, Duellists
  <1>9. \A c \in Players : DuelsOf(c, {GO})' = DuelsOf(c, {GO}) /\ (Fighting(c)' <=> Fighting(c))
    BY <1>2, <1>3, <1>4, <1>6 DEF DuelsOf, Fighting, InDuel, Duellists, READY, SET, GO
  <1>10. InTheirPlaces'
    <2>1. ArenaHoldsDuellists'
      BY <1>4, <1>9 DEF IInv, ArenaHoldsDuellists
    <2>2. WaitersTogether' /\ NobodyExtracted'
      BY <1>1, <1>2, <1>3, <1>4, <1>6 DEF IInv, WaitersTogether, NobodyExtracted, Present, Duellists
    <2>3. QED BY <2>1, <2>2 DEF InTheirPlaces
  <1>11. FilesFromOutside'
    BY <1>4, <1>9, SameFiles
  <1>12. QED BY <1>3, <1>4, <1>5, <1>7, <1>10, <1>11, <1>8 DEF IInv, TypeOK, InTheirPlaces, Heir

LEMMA WatchIInv == ASSUME IInv, NEW ch \in Players, NEW victim \in Players, Watch(ch, victim) PROVE IInv'
  <1>1. PICK d \in duels : duels' = (duels \ {d}) \cup {[d EXCEPT !.watchers = @ \cup {ch}]}
    BY DEF Watch, DuelsOf
  <1> DEFINE e == [d EXCEPT !.watchers = @ \cup {ch}]
  <1>2. /\ e \in DuelData /\ e.first = d.first /\ e.second = d.second /\ e.vnum = d.vnum /\ e.stage = d.stage
        /\ e.accepted = d.accepted /\ e.challenged = d.challenged /\ e.countdown = d.countdown
        /\ e.started = d.started /\ e.linkdead = d.linkdead /\ e.saved = d.saved
        /\ e.watchers = d.watchers \cup {ch}
    BY Typing DEF DuelData
  <1> HIDE DEF e
  <1>3. duels' = (duels \ {d}) \cup {e} /\ UNCHANGED <<room, desc, body, file>>
    BY <1>1 DEF Watch, e
  <1>4. \A x \in duels : ch \notin Duellists(x) /\ ch \notin x.watchers
    <2>1. \A x \in duels : x.stage >= READY
      BY Typing DEF READY, SET, GO
    <2>2. QED BY <2>1 DEF Watch, InDuel, Watching
  <1>5. Duellists(e) = Duellists(d) /\ AllAccepted(e) = AllAccepted(d)
    BY <1>2 DEF Duellists, AllAccepted
  <1>6. OneRole' /\ ArenasExclusive'
    BY <1>2, <1>3, <1>4, <1>5 DEF IInv, OneRole, ArenasExclusive, Duellists
  <1>7. TimersKept' /\ SavedOwn' /\ LinksOwn'
    BY <1>2, <1>3, <1>5 DEF IInv, TimersKept, SavedOwn, LinksOwn, AllAccepted, Duellists
  <1>8. \A c \in Players : Fighting(c)' <=> Fighting(c)
    BY <1>2, <1>3, <1>5 DEF Fighting, InDuel, Duellists
  <1>9. InTheirPlaces'
    <2>1. ArenaHoldsDuellists'
      BY <1>2, <1>3, <1>5, <1>8 DEF IInv, ArenaHoldsDuellists, DuelsOf, Duellists
    <2>2. ch \in Present
      BY DEF Watch, Active
    <2>3. WaitersTogether' /\ NobodyExtracted'
      BY <1>2, <1>3, <1>5, <2>2 DEF IInv, WaitersTogether, NobodyExtracted, Present, Duellists
    <2>4. QED BY <2>1, <2>3 DEF InTheirPlaces
  <1>10. FilesFromOutside'
    BY <1>3, <1>8, SameFiles
  <1>11. QED BY <1>2, <1>3, <1>6, <1>7, <1>9, <1>10 DEF IInv, TypeOK, InTheirPlaces

\* save_char_obj leaves good files good.
LEMMA SavingFile ==
    ASSUME IInv, Secluded, NEW ch \in Players, NEW b \in Body, NEW r \in Rooms,
           ~Fighting(ch) => b.race = "own"
    PROVE  /\ SaveFile(ch, b, r) \in [Players -> [body : Body, room : Rooms]]
           /\ \A c \in Players : /\ SaveFile(ch, b, r)[c].body.race = "own"
                                /\ SaveFile(ch, b, r)[c].room \notin Arenas
  <1>1. SavedRoom(r) \in Rooms /\ SavedRoom(r) \notin Arenas
    BY SavedRooms
  <1>2. \A c \in Players : file[c].body.race = "own" /\ file[c].room \notin Arenas
    BY DEF IInv, FilesFromOutside
  <1>3. CASE Fighting(ch)
    BY <1>2, <1>3, Typing DEF SaveFile
  <1>4. CASE ~Fighting(ch)
    <2> DEFINE w == [body |-> b, room |-> SavedRoom(r)]
    <2>1. SaveFile(ch, b, r) = [file EXCEPT ![ch] = w]
      BY <1>4 DEF SaveFile
    <2>2. w \in [body : Body, room : Rooms] /\ w.body.race = "own" /\ w.room \notin Arenas
      BY <1>1, <1>4
    <2> HIDE DEF w
    <2>3. QED BY <1>2, <2>1, <2>2, Typing
  <1>5. QED BY <1>3, <1>4

\* A mortal who is in a room that may be left is in no arena, and is not fighting.
LEMMA Outside ==
    ASSUME IInv, NEW ch \in Players
    PROVE  (room[ch] \notin Arenas) <=> ~Fighting(ch)
  BY FightingDef, Typing DEF IInv, ArenaHoldsDuellists

\* Nobody's duels change.
LEMMA SameFighting == ASSUME UNCHANGED duels PROVE \A c \in Players : Fighting(c)' <=> Fighting(c)
  BY DEF Fighting, InDuel, Duellists

LEMMA SaveIInv == ASSUME IInv, Secluded, NEW ch \in Players, Save(ch) PROVE IInv'
  <1>1. ch \in Present /\ file' = SaveFile(ch, body[ch], room[ch]) /\ UNCHANGED <<room, desc, body, duels>>
    BY DEF Save
  <1>2. body[ch] \in Body /\ room[ch] \in Rooms /\ (~Fighting(ch) => body[ch].race = "own")
    BY <1>1, Typing DEF Present, IInv, FilesFromOutside
  <1>3. /\ file' \in [Players -> [body : Body, room : Rooms]]
        /\ \A c \in Players : file'[c].body.race = "own" /\ file'[c].room \notin Arenas
    BY <1>1, <1>2, SavingFile
  <1>4. FilesFromOutside'
    BY <1>1, <1>3, SameFighting DEF IInv, FilesFromOutside, Present
  <1>5. DuelsInv' /\ InTheirPlaces'
    BY <1>1, SameDuels, SameRooms
  <1>6. QED BY <1>1, <1>3, <1>4, <1>5, Typing DEF IInv, TypeOK, DuelsInv, InTheirPlaces

\* A body is hurt or healed, and keeps its race.
LEMMA BodyIInv ==
    ASSUME IInv, NEW ch \in Players, NEW h \in 1 .. MaxHit, body' = [body EXCEPT ![ch].hit = h],
           UNCHANGED <<room, desc, file, duels>>
    PROVE  IInv'
  <1>1. body' \in [Players -> Body] /\ \A c \in Players : body'[c].race = body[c].race
    BY Typing DEF Body
  <1>2. FilesFromOutside'
    BY <1>1, SameFighting DEF IInv, FilesFromOutside, Present
  <1>3. DuelsInv' /\ InTheirPlaces'
    BY SameDuels, SameRooms
  <1>4. QED BY <1>1, <1>2, <1>3, Typing DEF IInv, TypeOK, DuelsInv, InTheirPlaces

LEMMA HealIInv == ASSUME IInv, NEW ch \in Players, Heal(ch) PROVE IInv'
  <1>1. body[ch].hit \in 1 .. MaxHit /\ body[ch].hit < MaxHit /\ MaxHit \in Nat
    BY Typing, DuelAssumption DEF Heal, Body
  <1>2. body[ch].hit + 1 \in 1 .. MaxHit
    BY <1>1
  <1>3. body' = [body EXCEPT ![ch].hit = body[ch].hit + 1] /\ UNCHANGED <<room, desc, file, duels>>
    BY DEF Heal
  <1>4. QED BY <1>2, <1>3, BodyIInv

\* raw_kill on a character who does not fight a duel.
LEMMA KilledIInv ==
    ASSUME IInv, Secluded, NEW ch \in Present, ~Fighting(ch), NEW b \in Body, b.race = "own",
           Killed(ch, b), UNCHANGED desc
    PROVE  IInv'
  <1>1. /\ body' = [body EXCEPT ![ch] = b] /\ room' = [room EXCEPT ![ch] = Moribund]
        /\ duels' = AfterLeaving(ch) /\ file' = SaveFile(ch, b, Moribund)
    BY DEF Killed
  <1>2. ch \in Players /\ room[ch] \notin Arenas
    BY Outside DEF Present
  <1>3. DuelsInv' /\ InTheirPlaces' /\ \A c \in Players : Fighting(c)' <=> Fighting(c)
    BY <1>1, <1>2, Places, Leaving
  <1>4. /\ file' \in [Players -> [body : Body, room : Rooms]]
        /\ \A c \in Players : file'[c].body.race = "own" /\ file'[c].room \notin Arenas
    BY <1>1, <1>2, Places, SavingFile
  <1>5. body' \in [Players -> Body] /\ room' \in [Players -> Rooms \cup {Nowhere}]
    BY <1>1, Places, Typing
  <1>6. FilesFromOutside'
    BY <1>1, <1>2, <1>3, <1>4, Typing DEF IInv, FilesFromOutside, Present
  <1>7. QED BY <1>3, <1>4, <1>5, <1>6, Typing DEF IInv, TypeOK, DuelsInv, InTheirPlaces

LEMMA HurtIInv == ASSUME IInv, Secluded, NEW ch \in Players, Hurt(ch) PROVE IInv'
  <1>1. ch \in Present /\ UNCHANGED desc /\ body[ch] \in Body /\ body[ch].hit \in 1 .. MaxHit /\ MaxHit \in Nat
    BY Typing, DuelAssumption DEF Hurt, Body
  <1>2. CASE body[ch].hit > 1
    <2>1. body[ch].hit - 1 \in 1 .. MaxHit
      BY <1>1, <1>2
    <2>2. body' = [body EXCEPT ![ch].hit = body[ch].hit - 1] /\ UNCHANGED <<room, desc, file, duels>>
      BY <1>2 DEF Hurt
    <2>3. QED BY <2>1, <2>2, BodyIInv
  <1>3. CASE ~(body[ch].hit > 1) /\ Fighting(ch)
    <2>1. Cancel(DuelsOf(ch, {GO}))
      BY <1>3 DEF Hurt, Lethal
    <2>2. DuelsOf(ch, {GO}) \subseteq duels /\ \A d \in DuelsOf(ch, {GO}) : d.stage = GO
      BY DEF DuelsOf
    <2>3. QED BY <1>1, <2>1, <2>2, Cancelling
  <1>4. CASE ~(body[ch].hit > 1) /\ ~Fighting(ch)
    <2> DEFINE b == [body[ch] EXCEPT !.hit = 1]
    <2>1. Killed(ch, b)
      BY <1>4 DEF Hurt, Lethal
    <2>2. body[ch].race = "own"
      BY <1>1, <1>4 DEF IInv, FilesFromOutside
    <2>3. 1 \in 1 .. MaxHit
      BY DuelAssumption
    <2>4. b \in Body /\ b.race = "own"
      BY <1>1, <2>2, <2>3 DEF Body
    <2> HIDE DEF b
    <2>5. QED BY <1>1, <1>4, <2>1, <2>4, KilledIInv
  <1>5. QED BY <1>2, <1>3, <1>4

LEMMA IdleIInv == ASSUME IInv, Secluded, NEW ch \in Players, Idle(ch) PROVE IInv'
  <1>1. DuelsOf(ch, {GO}) \subseteq duels /\ \A d \in DuelsOf(ch, {GO}) : d.stage = GO
    BY DEF DuelsOf
  <1>2. QED BY <1>1, Cancelling DEF Idle

LEMMA MoveIInv ==
    ASSUME IInv, Secluded, NEW ch \in Players, NEW to \in Rooms \ Arenas, Move(ch, to)
    PROVE  IInv'
  <1>1. /\ ch \in Present /\ room[ch] \notin Arenas
        /\ room' = [room EXCEPT ![ch] = to] /\ duels' = AfterLeaving(ch) /\ UNCHANGED <<desc, body, file>>
    BY DEF Move, Secluded
  <1>2. DuelsInv' /\ InTheirPlaces' /\ \A c \in Players : Fighting(c)' <=> Fighting(c)
    BY <1>1, Leaving
  <1>3. room' \in [Players -> Rooms \cup {Nowhere}] /\ \A c \in Players : room'[c] # Nowhere => c \in Present
    BY <1>1, Typing DEF Present
  <1>4. FilesFromOutside'
    BY <1>1, <1>2, <1>3 DEF IInv, FilesFromOutside, Present
  <1>5. QED BY <1>1, <1>2, <1>3, <1>4, Typing DEF IInv, TypeOK, DuelsInv, InTheirPlaces

LEMMA QuitIInv == ASSUME IInv, Secluded, NEW ch \in Players, Quit(ch) PROVE IInv'
  <1>1. /\ ch \in Present /\ room[ch] \notin Arenas /\ room[ch] \in Rooms
        /\ file' = SaveFile(ch, body[ch], room[ch]) /\ body' = [body EXCEPT ![ch] = file'[ch].body]
        /\ room' = [room EXCEPT ![ch] = Nowhere]
        /\ desc' = desc \ {ch} /\ duels' = AfterLeaving(ch)
    BY Typing DEF Quit, Secluded, Present
  <1>2. DuelsInv' /\ InTheirPlaces' /\ \A c \in Players : Fighting(c)' <=> Fighting(c)
    BY <1>1, Places, Leaving
  <1>3. body[ch] \in Body /\ (~Fighting(ch) => body[ch].race = "own")
    BY <1>1, Typing DEF IInv, FilesFromOutside
  <1>4. /\ file' \in [Players -> [body : Body, room : Rooms]]
        /\ \A c \in Players : file'[c].body.race = "own" /\ file'[c].room \notin Arenas
    BY <1>1, <1>3, SavingFile
  <1>5. file'[ch].body \in Body
    BY <1>4
  <1>6. /\ body' \in [Players -> Body] /\ room' \in [Players -> Rooms \cup {Nowhere}]
        /\ desc' \subseteq Players
        /\ \A c \in Players : room'[c] # Nowhere => c \in Present /\ body'[c] = body[c]
    BY <1>1, <1>5, Typing DEF Present
  <1>7. FilesFromOutside'
    BY <1>2, <1>4, <1>6 DEF IInv, FilesFromOutside, Present
  <1>8. QED BY <1>2, <1>4, <1>6, <1>7 DEF IInv, TypeOK, DuelsInv, InTheirPlaces

LEMMA LoginIInv == ASSUME IInv, NEW ch \in Players, Login(ch) PROVE IInv'
  <1>1. /\ ch \notin Present /\ room' = [room EXCEPT ![ch] = file[ch].room]
        /\ body' = [body EXCEPT ![ch] = file[ch].body]
        /\ desc' = desc \cup {ch} /\ UNCHANGED <<file, duels>>
    BY DEF Login
  <1>2. /\ file[ch].room \in Rooms \ Arenas /\ file[ch].body \in Body /\ file[ch].body.race = "own"
    BY Typing DEF IInv, FilesFromOutside
  <1>3. /\ body' \in [Players -> Body] /\ room' \in [Players -> Rooms \cup {Nowhere}] /\ desc' \subseteq Players
        /\ room'[ch] = file[ch].room /\ body'[ch] = file[ch].body
        /\ \A c \in Players : c # ch => room'[c] = room[c] /\ body'[c] = body[c]
    BY <1>1, <1>2, Typing
  <1>4. \A c \in Players : Fighting(c)' <=> Fighting(c)
    BY <1>1, SameFighting
  <1>5. \A d \in duels : ch \notin Duellists(d) /\ ch \notin d.watchers
    BY <1>1 DEF IInv, NobodyExtracted
  <1>6. ArenaHoldsDuellists'
    <2>1. SUFFICES ASSUME NEW c \in Players
                   PROVE  /\ \A d \in DuelsOf(c, {GO}) : room'[c] = d.vnum
                          /\ room'[c] \in Arenas => Fighting(c)'
      BY <1>1 DEF ArenaHoldsDuellists, DuelsOf, Duellists
    <2>2. CASE c = ch
      BY <1>2, <1>3, <1>5, <2>2 DEF DuelsOf
    <2>3. CASE c # ch
      BY <1>3, <1>4, <2>3 DEF IInv, ArenaHoldsDuellists
    <2>4. QED BY <2>2, <2>3
  <1>7. WaitersTogether' /\ NobodyExtracted'
    BY <1>1, <1>3, <1>5, Typing DEF IInv, WaitersTogether, NobodyExtracted, Present, Duellists
  <1>8. FilesFromOutside'
    BY <1>1, <1>2, <1>3, <1>4 DEF IInv, FilesFromOutside, Present
  <1>9. DuelsInv'
    BY <1>1, SameDuels
  <1>10. QED BY <1>1, <1>3, <1>6, <1>7, <1>8, <1>9, Typing DEF IInv, TypeOK, DuelsInv

\* The clock of a link is set to v in the duel that ch fights.
Linked(d, ch, v) == IF d \in DuelsOf(ch, {GO}) THEN [d EXCEPT !.linkdead[ch] = v] ELSE d

\* That, and duels G, which have not begun, end.
LEMMA Relinking ==
    ASSUME IInv, NEW ch \in Players, NEW v \in {-1, 0}, NEW G, \A d \in duels \cap G : d.stage # GO,
           duels' = {Linked(d, ch, v) : d \in duels \ G},
           desc' \subseteq Players, UNCHANGED <<room, body, file>>
    PROVE  IInv'
  <1> DEFINE g(d) == Linked(d, ch, v)
             f == [d \in duels |-> g(d)]
  <1>1. ASSUME NEW d \in duels PROVE g(d) \in DuelData /\ Kin(g(d), d) /\ g(d).watchers = d.watchers
    <2>1. d \in DuelData
      BY Typing
    <2>2. CASE d \in DuelsOf(ch, {GO})
      <3> DEFINE e == [d EXCEPT !.linkdead[ch] = v]
      <3>1. v \in -1 .. LinkTime
        BY DuelAssumption
      <3>2. e \in DuelData /\ e.linkdead = [d.linkdead EXCEPT ![ch] = v]
        BY <2>1, <3>1 DEF DuelData
      <3>3. \A c \in Players : e.linkdead[c] = d.linkdead[c] \/ (c = ch /\ e.linkdead[c] = v)
        BY <2>1, <3>2 DEF DuelData
      <3>4. d.stage = GO /\ ch \in Duellists(d)
        BY <2>2 DEF DuelsOf
      <3>5. /\ e.first = d.first /\ e.second = d.second /\ e.vnum = d.vnum /\ e.stage = d.stage
            /\ e.accepted = d.accepted /\ e.challenged = d.challenged /\ e.countdown = d.countdown
            /\ e.started = d.started /\ e.saved = d.saved /\ e.watchers = d.watchers
        BY <2>1 DEF DuelData
      <3>6. g(d) = e
        BY <2>2 DEF Linked
      <3> HIDE DEF e, g
      <3>7. QED BY <3>2, <3>3, <3>4, <3>5, <3>6 DEF Kin
    <2>3. CASE d \notin DuelsOf(ch, {GO})
      BY <2>1, <2>3 DEF Kin, Linked
    <2>4. QED BY <2>2, <2>3
  <1>2. f \in [duels -> DuelData] /\ \A d \in duels : Kin(f[d], d)
    <2> HIDE DEF g
    <2> QED BY <1>1
  <1>3. duels' = {g(d) : d \in duels \ G}
    OBVIOUS
  <1>4. duels' \subseteq {f[d] : d \in duels}
    <2> HIDE DEF g
    <2> QED BY <1>3
  <1>5. DuelsInv'
    <2> HIDE DEF f
    <2> QED BY <1>2, <1>4, KinKeep
  <1> HIDE DEF f, g
  <1>6. \A e \in duels' : \E d \in duels : Kin(e, d) /\ Duellists(e) = Duellists(d)
    BY <1>1, <1>3, KinDuellists
  <1>7. \A d \in duels : d.stage = GO => \E e \in duels' : Kin(e, d) /\ Duellists(e) = Duellists(d)
    BY <1>1, <1>3, KinDuellists
  <1>8. \A c \in Players : Fighting(c)' <=> Fighting(c)
    <2>1. \A c \in Players : Fighting(c)' <=> \E e \in duels' : e.stage = GO /\ c \in Duellists(e)
      <3>1. \A e \in duels' : e.stage >= GO <=> e.stage = GO
        BY <1>5 DEF DuelsInv, DuelData, READY, SET, GO
      <3>2. QED BY <3>1 DEF Fighting, InDuel, Duellists
    <2>2. QED BY <1>6, <1>7, <2>1, FightingDef, Typing DEF Kin
  <1>9. ArenaHoldsDuellists'
    <2>1. SUFFICES ASSUME NEW c \in Players
                   PROVE  /\ \A e \in duels' : e.stage = GO /\ c \in Duellists(e) => room[c] = e.vnum
                          /\ room[c] \in Arenas => Fighting(c)'
      BY DEF ArenaHoldsDuellists, DuelsOf, Duellists
    <2>2. ASSUME NEW e \in duels', e.stage = GO, c \in Duellists(e) PROVE room[c] = e.vnum
      <3>1. PICK d \in duels : Kin(e, d) /\ Duellists(e) = Duellists(d)
        BY <1>6
      <3>2. d \in DuelsOf(c, {GO}) /\ e.vnum = d.vnum
        BY <2>2, <3>1, FightingDef DEF Kin
      <3>3. QED BY <3>2 DEF IInv, ArenaHoldsDuellists
    <2>3. QED BY <1>8, <2>2 DEF IInv, ArenaHoldsDuellists
  <1>10. WaitersTogether'
    BY <1>6 DEF IInv, WaitersTogether, Kin, Duellists
  <1>11. NobodyExtracted'
    <2>1. SUFFICES ASSUME NEW e \in duels' PROVE Duellists(e) \cup e.watchers \subseteq Present
      BY DEF NobodyExtracted, Duellists, Present
    <2>2. PICK d \in duels : Kin(e, d) /\ Duellists(e) = Duellists(d)
      BY <1>6
    <2>3. QED BY <2>2 DEF IInv, NobodyExtracted, Kin
  <1>12. FilesFromOutside'
    BY <1>8, SameFiles
  <1>13. QED BY <1>5, <1>9, <1>10, <1>11, <1>12, Typing DEF IInv, TypeOK, DuelsInv

LEMMA LoseLinkIInv == ASSUME IInv, NEW ch \in Players, LoseLink(ch) PROVE IInv'
  <1>1. \A d \in duels \cap DuelsOf(ch, {SET}) : d.stage # GO
    BY DEF DuelsOf, SET, GO
  <1>2. desc' \subseteq Players
    BY Typing DEF LoseLink
  <1>3. duels' = {Linked(d, ch, 0) : d \in duels \ DuelsOf(ch, {SET})}
    BY DEF LoseLink, Linked
  <1>4. QED BY <1>1, <1>2, <1>3, Relinking DEF LoseLink

LEMMA ReconnectIInv == ASSUME IInv, NEW ch \in Players, Reconnect(ch) PROVE IInv'
  <1>1. duels \ {} = duels /\ desc' \subseteq Players
    BY Typing DEF Reconnect
  <1>2. duels' = {Linked(d, ch, -1) : d \in duels \ {}}
    BY <1>1 DEF Reconnect, Linked
  <1>3. -1 \in {-1, 0} /\ UNCHANGED <<room, body, file>> /\ \A d \in duels \cap {} : d.stage # GO
    BY DEF Reconnect
  <1>4. QED BY <1>1, <1>2, <1>3, Relinking

\* do_hotreboot ends all duels: nobody but the players who have a link is kept.
LEMMA HotRebootIInv == ASSUME IInv, Secluded, HotReboot PROVE IInv'
  <1>1. /\ Restored(duels) \in [Players -> Body]
        /\ Released(duels) \in [Players -> Rooms \cup {Nowhere}]
        /\ Written(duels) \in [Players -> [body : Body, room : Rooms]]
        /\ \A ch \in Returning(duels) :
              /\ Restored(duels)[ch].race = "own" /\ Released(duels)[ch] = Start
              /\ Written(duels)[ch].body.race = "own" /\ Written(duels)[ch].room \notin Arenas
        /\ \A ch \in Players \ Returning(duels) :
              /\ Restored(duels)[ch] = body[ch] /\ Released(duels)[ch] = room[ch]
              /\ Written(duels)[ch] = file[ch]
    BY Typing, Restoration DEF IInv, SavedOwn
  <1>2. \A ch \in Players \ Returning(duels) : ~Fighting(ch) /\ room[ch] \notin Arenas
    BY FightingDef, Typing, Outside DEF Returning
  <1>3. \A ch \in Present : /\ Released(duels)[ch] \in Rooms \ Arenas
                            /\ Restored(duels)[ch].race = "own"
    BY <1>1, <1>2, Places, Typing DEF Present, IInv, FilesFromOutside
  <1>4. /\ file' \in [Players -> [body : Body, room : Rooms]]
        /\ \A ch \in Players : file'[ch].body.race = "own" /\ file'[ch].room \notin Arenas
    <2> DEFINE w(ch) == [body |-> Restored(duels)[ch], room |-> SavedRoom(Released(duels)[ch])]
               x(ch) == IF Active(ch) THEN w(ch) ELSE Written(duels)[ch]
    <2>1. ASSUME NEW ch \in Players
          PROVE  /\ x(ch) \in [body : Body, room : Rooms]
                 /\ x(ch).body.race = "own" /\ x(ch).room \notin Arenas
      <3>1. CASE Active(ch)
        <4>1. ch \in Present
          BY <3>1 DEF Active
        <4>2. /\ SavedRoom(Released(duels)[ch]) \in Rooms /\ SavedRoom(Released(duels)[ch]) \notin Arenas
              /\ Restored(duels)[ch] \in Body /\ Restored(duels)[ch].race = "own"
          BY <1>1, <1>3, <4>1, SavedRooms
        <4>3. QED BY <3>1, <4>2
      <3>2. CASE ~Active(ch)
        <4>1. file[ch].body.race = "own" /\ file[ch].room \notin Arenas
          BY DEF IInv, FilesFromOutside
        <4>2. QED BY <1>1, <3>2, <4>1
      <3>3. QED BY <3>1, <3>2
    <2>2. file' = [ch \in Players |-> x(ch)]
      BY DEF HotReboot
    <2> HIDE DEF x
    <2>3. QED BY <2>1, <2>2
  <1>5. /\ body' \in [Players -> Body] /\ \A ch \in Players : body'[ch].race = "own"
        /\ room' \in [Players -> Rooms \cup {Nowhere}] /\ \A ch \in Players : room'[ch] \notin Arenas
    <2>1. body' = [ch \in Players |-> file'[ch].body]
      BY DEF HotReboot
    <2>2. room' = [ch \in Players |-> IF Active(ch) THEN Released(duels)[ch] ELSE Nowhere]
      BY DEF HotReboot
    <2>3. QED BY <1>3, <1>4, <2>1, <2>2, Places DEF Active
  <1>6. duels' = {} /\ desc' = desc
    BY DEF HotReboot
  <1>7. QED BY <1>4, <1>5, <1>6, Typing DEF IInv, TypeOK, OneRole, ArenasExclusive, TimersKept, SavedOwn,
               LinksOwn, ArenaHoldsDuellists, WaitersTogether, NobodyExtracted, FilesFromOutside, DuelsOf

LEMMA CrashIInv == ASSUME IInv, Crash PROVE IInv'
  <1>1. /\ body' \in [Players -> Body] /\ \A ch \in Players : body'[ch].race = "own"
        /\ room' \in [Players -> Rooms \cup {Nowhere}] /\ \A ch \in Players : room'[ch] \notin Arenas
    BY Typing, Places DEF Crash, IInv, FilesFromOutside
  <1>2. duels' = {} /\ desc' = {} /\ file' = file
    BY DEF Crash
  <1>3. QED BY <1>1, <1>2, Typing DEF IInv, TypeOK, OneRole, ArenasExclusive, TimersKept, SavedOwn,
               LinksOwn, ArenaHoldsDuellists, WaitersTogether, NobodyExtracted, FilesFromOutside, DuelsOf

-----------------------------------------------------------------------------
(* duel_update. *)

LEMMA OneDuel ==
    ASSUME IInv, NEW d \in duels, NEW e \in duels, NEW ch \in Duellists(d), ch \in Duellists(e)
    PROVE  d = e
  BY DEF IInv, OneRole

\* A second that goes by keeps a duel in range, and changes its clocks only.
LEMMA Second ==
    ASSUME IInv, NEW d \in duels, NEW a, a = Aged(d)
    PROVE  /\ a \in DuelData
           /\ a.first = d.first /\ a.second = d.second /\ a.vnum = d.vnum /\ a.stage = d.stage
           /\ a.accepted = d.accepted /\ a.saved = d.saved /\ a.watchers = d.watchers
           /\ \A ch \in Players : a.linkdead[ch] >= 0 => d.linkdead[ch] >= 0
  <1>1. d \in DuelData /\ d.stage \in {READY, SET, GO} /\ READY # SET /\ READY # GO /\ SET # GO
    BY Typing DEF READY, SET, GO
  <1>2. CASE d.stage = READY
    <2>1. ~AllAccepted(d) /\ d.challenged < ReadyTime
      BY <1>2 DEF IInv, TimersKept
    <2>2. a = [d EXCEPT !.challenged = d.challenged + 1]
      BY <1>2, <2>1 DEF Aged
    <2>3. d.challenged + 1 \in 0 .. ReadyTime
      BY <1>1, <2>1, DuelAssumption DEF DuelData
    <2>4. QED BY <1>1, <2>2, <2>3 DEF DuelData
  <1>3. CASE d.stage = SET
    <2>1. d.countdown > 0
      BY <1>3 DEF IInv, TimersKept
    <2>2. a = [d EXCEPT !.countdown = d.countdown - 1]
      BY <1>1, <1>3 DEF Aged
    <2>3. d.countdown - 1 \in 0 .. SetTime
      BY <1>1, <2>1, DuelAssumption DEF DuelData
    <2>4. QED BY <1>1, <2>2, <2>3 DEF DuelData
  <1>4. CASE d.stage = GO
    <2> DEFINE l == [ch \in Players |-> IF d.linkdead[ch] >= 0 THEN d.linkdead[ch] + 1 ELSE -1]
    <2>1. d.started < GoTime /\ \A ch \in Duellists(d) : d.linkdead[ch] < LinkTime
      BY <1>4 DEF IInv, TimersKept
    <2>2. a = [d EXCEPT !.started = d.started + 1, !.linkdead = l]
      BY <1>1, <1>4 DEF Aged
    <2>3. d.started + 1 \in 0 .. GoTime
      BY <1>1, <2>1, DuelAssumption DEF DuelData
    <2>4. ASSUME NEW ch \in Players
          PROVE  /\ (IF d.linkdead[ch] >= 0 THEN d.linkdead[ch] + 1 ELSE -1) \in -1 .. LinkTime
                 /\ l[ch] >= 0 => d.linkdead[ch] >= 0
      <3>1. d.linkdead[ch] \in -1 .. LinkTime /\ LinkTime \in Nat \ {0}
        BY <1>1, DuelAssumption DEF DuelData
      <3>2. d.linkdead[ch] >= 0 => d.linkdead[ch] < LinkTime
        BY <2>1 DEF IInv, LinksOwn
      <3>3. QED BY <3>1, <3>2
    <2>5. l \in [Players -> -1 .. LinkTime] /\ \A ch \in Players : l[ch] >= 0 => d.linkdead[ch] >= 0
      BY <2>4
    <2> HIDE DEF l
    <2>6. QED BY <1>1, <2>2, <2>3, <2>5 DEF DuelData
  <1>5. QED BY <1>1, <1>2, <1>3, <1>4

\* A countdown that has run out.
Begins(d) == Aged(d).stage = SET /\ Aged(d).countdown = 0

Turned(d) == IF Begins(d) THEN Started(Aged(d)) ELSE Aged(d)

\* What a second makes of a duel that does not end, the players in S leaving.
Fate(d, S) == [Turned(d) EXCEPT !.watchers = @ \ S]

\* A duel begins with two players as they are outside duels.
LEMMA Starting ==
    ASSUME IInv, NEW d \in duels, Begins(d), NEW t, t = Turned(d)
    PROVE  /\ d.stage = SET /\ t \in DuelData
           /\ t.first = d.first /\ t.second = d.second /\ t.vnum = d.vnum
           /\ t.accepted = d.accepted /\ t.watchers = d.watchers /\ t.stage = GO /\ t.started = 0
           /\ \A ch \in Players : t.linkdead[ch] = -1
           /\ \A ch \in Duellists(d) : t.saved[ch] \in Body /\ t.saved[ch].race = "own"
  <1> DEFINE a == Aged(d)
             sv == [ch \in Players |-> IF ch \in Duellists(a) THEN body[ch] ELSE NoBody]
  <1>1. /\ a \in DuelData
        /\ a.first = d.first /\ a.second = d.second /\ a.vnum = d.vnum /\ a.stage = d.stage
        /\ a.accepted = d.accepted /\ a.watchers = d.watchers
        /\ \A ch \in Players : a.linkdead[ch] >= 0 => d.linkdead[ch] >= 0
    BY Second
  <1>2. t = [a EXCEPT !.stage = GO, !.started = 0, !.saved = sv]
    BY DEF Turned, Started
  <1>3. d.stage = SET
    BY <1>1 DEF Begins
  <1> HIDE DEF a
  <1>4. Duellists(a) = Duellists(d) /\ Duellists(d) \subseteq Players
    BY <1>1, Typing DEF Duellists
  <1>5. ASSUME NEW ch \in Duellists(d) PROVE ch \in Players /\ body[ch] \in Body /\ body[ch].race = "own"
    <2>1. ch \in Present /\ ch \in Players
      BY <1>4 DEF IInv, NobodyExtracted
    <2>2. ~Fighting(ch)
      <3>1. SUFFICES ASSUME NEW e \in duels, e.stage = GO, ch \in Duellists(e) PROVE FALSE
        BY <2>1, FightingDef, Typing
      <3>2. e = d
        BY <1>5, <3>1, OneDuel
      <3>3. QED BY <1>3, <3>1, <3>2 DEF SET, GO
    <2>3. QED BY <2>1, <2>2, Typing DEF IInv, FilesFromOutside
  <1>6. /\ sv \in [Players -> Body \cup {NoBody}]
        /\ \A ch \in Duellists(d) : sv[ch] \in Body /\ sv[ch].race = "own"
    BY <1>4, <1>5
  <1>7. \A ch \in Players : a.linkdead[ch] = -1
    <2>1. \A ch \in Players : ~(d.linkdead[ch] >= 0)
      BY <1>3 DEF IInv, LinksOwn, SET, GO
    <2>2. \A ch \in Players : a.linkdead[ch] \in -1 .. LinkTime /\ LinkTime \in Nat
      BY <1>1, DuelAssumption DEF DuelData
    <2>3. QED BY <1>1, <2>1, <2>2
  <1> HIDE DEF sv
  <1>8. 0 \in 0 .. GoTime
    BY DuelAssumption
  <1>9. /\ t \in DuelData /\ t.first = a.first /\ t.second = a.second /\ t.vnum = a.vnum
        /\ t.accepted = a.accepted /\ t.watchers = a.watchers /\ t.stage = GO /\ t.started = 0
        /\ t.linkdead = a.linkdead /\ t.saved = sv
    BY <1>1, <1>2, <1>6, <1>8 DEF DuelData
  <1>10. QED BY <1>1, <1>3, <1>6, <1>7, <1>9

\* The parts of IInv that are about the stage and the clocks of one duel.
Sound(d) ==
    /\ d.stage = READY => ~AllAccepted(d) /\ d.challenged < ReadyTime
    /\ d.stage = SET => AllAccepted(d) /\ d.countdown > 0
    /\ d.stage = GO => /\ AllAccepted(d) /\ d.started < GoTime
                       /\ \A ch \in Duellists(d) : d.linkdead[ch] < LinkTime
    /\ d.stage = GO => \A ch \in Duellists(d) : d.saved[ch] \in Body /\ d.saved[ch].race = "own"
    /\ \A ch \in Players : d.linkdead[ch] >= 0 => d.stage = GO /\ ch \in Duellists(d)

LEMMA SoundDef == (TimersKept /\ SavedOwn /\ LinksOwn) <=> \A d \in duels : Sound(d)
  BY DEF TimersKept, SavedOwn, LinksOwn, Sound

LEMMA TurnedSound ==
    ASSUME IInv, NEW d \in duels, ~TimedOut(Aged(d)), NEW t, t = Turned(d)
    PROVE  /\ t \in DuelData /\ Sound(t)
           /\ t.first = d.first /\ t.second = d.second /\ t.vnum = d.vnum /\ t.watchers = d.watchers
           /\ t.stage = IF Begins(d) THEN GO ELSE d.stage
  <1>1. Sound(d) /\ d.stage \in {READY, SET, GO} /\ READY # SET /\ READY # GO /\ SET # GO
    BY SoundDef, Typing DEF IInv, READY, SET, GO
  <1>2. CASE Begins(d)
    <2>1. /\ d.stage = SET /\ t \in DuelData
          /\ t.first = d.first /\ t.second = d.second /\ t.vnum = d.vnum
          /\ t.accepted = d.accepted /\ t.watchers = d.watchers /\ t.stage = GO /\ t.started = 0
          /\ \A ch \in Players : t.linkdead[ch] = -1
          /\ \A ch \in Duellists(d) : t.saved[ch] \in Body /\ t.saved[ch].race = "own"
      BY <1>2, Starting
    <2>2. AllAccepted(t) = AllAccepted(d) /\ Duellists(t) = Duellists(d) /\ Duellists(d) \subseteq Players
      BY <2>1, Typing DEF AllAccepted, Duellists
    <2>3. AllAccepted(d)
      BY <1>1, <2>1 DEF Sound
    <2>4. \A ch \in Duellists(t) : t.linkdead[ch] = -1
      BY <2>1, <2>2
    <2>5. 0 < GoTime /\ -1 < LinkTime
      BY DuelAssumption
    <2>6. Sound(t)
      BY <1>1, <2>1, <2>2, <2>3, <2>4, <2>5 DEF Sound
    <2>7. QED BY <1>2, <2>1, <2>6
  <1>3. CASE ~Begins(d)
    <2>1. /\ t = Aged(d) /\ t \in DuelData
          /\ t.first = d.first /\ t.second = d.second /\ t.vnum = d.vnum /\ t.stage = d.stage
          /\ t.accepted = d.accepted /\ t.saved = d.saved /\ t.watchers = d.watchers
          /\ \A ch \in Players : t.linkdead[ch] >= 0 => d.linkdead[ch] >= 0
      BY <1>3, Second DEF Turned
    <2>2. AllAccepted(t) = AllAccepted(d) /\ Duellists(t) = Duellists(d) /\ Duellists(d) \subseteq Players
      BY <2>1, Typing DEF AllAccepted, Duellists
    <2>3. ~TimedOut(t)
      BY <2>1
    <2>4. /\ t.challenged \in Int /\ t.started \in Int /\ t.countdown \in 0 .. SetTime
          /\ \A ch \in Players : t.linkdead[ch] \in Int
          /\ ReadyTime \in Int /\ GoTime \in Int /\ LinkTime \in Int /\ SetTime \in Int
      BY <2>1, DuelAssumption DEF DuelData
    <2>5. t.stage = READY => ~AllAccepted(t) /\ t.challenged < ReadyTime
      BY <1>1, <2>1, <2>2, <2>3, <2>4 DEF Sound, TimedOut
    <2>6. t.stage = SET => AllAccepted(t) /\ t.countdown > 0
      BY <1>1, <1>3, <2>1, <2>2, <2>4 DEF Sound, Begins
    <2>7. t.stage = GO => AllAccepted(t) /\ t.started < GoTime
      BY <1>1, <2>1, <2>2, <2>3, <2>4 DEF Sound, TimedOut
    <2>8. t.stage = GO => \A ch \in Duellists(t) : t.linkdead[ch] < LinkTime
      BY <2>2, <2>3, <2>4 DEF TimedOut
    <2>9. t.stage = GO => \A ch \in Duellists(t) : t.saved[ch] \in Body /\ t.saved[ch].race = "own"
      BY <1>1, <2>1, <2>2 DEF Sound
    <2>10. \A ch \in Players : t.linkdead[ch] >= 0 => t.stage = GO /\ ch \in Duellists(t)
      BY <1>1, <2>1, <2>2 DEF Sound
    <2>11. Sound(t)
      BY <2>5, <2>6, <2>7, <2>8, <2>9, <2>10 DEF Sound
    <2>12. QED BY <1>3, <2>1, <2>11
  <1>4. QED BY <1>2, <1>3

LEMMA FateSound ==
    ASSUME IInv, NEW d \in duels, ~TimedOut(Aged(d)), NEW S, NEW e, e = Fate(d, S)
    PROVE  /\ Heir(e, d) /\ Sound(e) /\ Duellists(e) = Duellists(d)
           /\ e.stage = IF Begins(d) THEN GO ELSE d.stage
  <1> DEFINE t == Turned(d)
  <1>1. /\ t \in DuelData /\ Sound(t)
        /\ t.first = d.first /\ t.second = d.second /\ t.vnum = d.vnum /\ t.watchers = d.watchers
        /\ t.stage = IF Begins(d) THEN GO ELSE d.stage
    BY TurnedSound
  <1>2. e = [t EXCEPT !.watchers = @ \ S]
    BY DEF Fate
  <1> HIDE DEF t
  <1>3. /\ e \in DuelData /\ e.first = t.first /\ e.second = t.second /\ e.vnum = t.vnum
        /\ e.stage = t.stage /\ e.accepted = t.accepted /\ e.challenged = t.challenged
        /\ e.countdown = t.countdown /\ e.started = t.started /\ e.linkdead = t.linkdead
        /\ e.saved = t.saved /\ e.watchers = t.watchers \ S
    BY <1>1, <1>2 DEF DuelData
  <1>4. Duellists(e) = Duellists(t) /\ AllAccepted(e) = AllAccepted(t) /\ Duellists(t) = Duellists(d)
    BY <1>1, <1>3 DEF Duellists, AllAccepted
  <1>5. Sound(e)
    BY <1>1, <1>3, <1>4 DEF Sound
  <1>6. QED BY <1>1, <1>3, <1>4, <1>5 DEF Heir

\* The duels that time out, as duel_update finds them, and those that do not.
Gone == {a \in {Aged(d) : d \in duels} : TimedOut(a)}

Stay == {d \in duels : ~TimedOut(Aged(d))}

Beginning(ch) == \E d \in duels : Begins(d) /\ ch \in Duellists(d)

\* duel_update, player by player.
LEMMA UpdateShape ==
    ASSUME IInv, DuelUpdate
    PROVE  /\ \E left : duels' = {Fate(d, left) : d \in Stay}
           /\ \A ch \in Players :
                 IF Beginning(ch)
                 THEN \E d \in duels : Begins(d) /\ ch \in Duellists(d) /\ room'[ch] = d.vnum
                 ELSE room'[ch] = Released(Gone)[ch] /\ body'[ch] = Restored(Gone)[ch]
           /\ Restored(Gone) \in [Players -> Body] => body' \in [Players -> Body]
           /\ room' = [ch \in Players |-> room'[ch]] /\ file' = Written(Gone) /\ desc' = desc
  <1> DEFINE aged == {Aged(d) : d \in duels}
             gone == {d \in aged : TimedOut(d)}
             ready == {d \in aged : d.stage = SET /\ d.countdown = 0}
             moved(ch) == {d \in ready : ch \in Duellists(d)}
             left == Returning(gone) \cup UNION {Duellists(d) : d \in ready}
  <1>1. PICK race \in [Players -> {"own"} \cup OtherRaces] :
          /\ duels' = Unwatched((aged \ (gone \cup ready)) \cup {Started(d) : d \in ready}, left)
          /\ room' = [ch \in Players |-> IF moved(ch) # {} THEN (CHOOSE d \in moved(ch) : TRUE).vnum
                                         ELSE Released(gone)[ch]]
          /\ body' = [ch \in Players |-> IF moved(ch) # {} /\ race[ch] # "own"
                                         THEN [body[ch] EXCEPT !.race = race[ch]]
                                         ELSE Restored(gone)[ch]]
          /\ file' = Written(gone) /\ desc' = desc
    BY DEF DuelUpdate
  <1>2. ASSUME NEW d \in duels PROVE Aged(d).vnum = d.vnum /\ Duellists(Aged(d)) = Duellists(d)
    BY Second DEF Duellists
  <1>3. \A a \in ready : ~TimedOut(a)
    BY DEF TimedOut, READY, SET, GO
  <1>4. (aged \ (gone \cup ready)) \cup {Started(d) : d \in ready} = {Turned(d) : d \in Stay}
    <2>1. ASSUME NEW d \in Stay PROVE Turned(d) \in (aged \ (gone \cup ready)) \cup {Started(a) : a \in ready}
      BY DEF Turned, Begins, Stay
    <2>2. ASSUME NEW a \in aged \ (gone \cup ready) PROVE a \in {Turned(d) : d \in Stay}
      BY DEF Turned, Begins, Stay
    <2>3. ASSUME NEW a \in ready PROVE Started(a) \in {Turned(d) : d \in Stay}
      BY <1>3 DEF Turned, Begins, Stay
    <2>4. QED BY <2>1, <2>2, <2>3
  <1>5. \A ch \in Players : moved(ch) # {} <=> Beginning(ch)
    BY <1>2 DEF Begins, Beginning
  <1>6. ASSUME NEW ch \in Players, Beginning(ch)
        PROVE  \E d \in duels : Begins(d) /\ ch \in Duellists(d) /\ room'[ch] = d.vnum
    <2> DEFINE m == CHOOSE d \in moved(ch) : TRUE
    <2>1. m \in moved(ch)
      BY <1>5, <1>6
    <2>2. room'[ch] = m.vnum
      BY <1>1, <1>5, <1>6
    <2>3. PICK d \in duels : m = Aged(d) /\ Aged(d).stage = SET /\ Aged(d).countdown = 0
      BY <2>1
    <2> HIDE DEF m
    <2>4. QED BY <1>2, <2>1, <2>2, <2>3 DEF Begins
  <1>7. \A ch \in Players : [body[ch] EXCEPT !.race = race[ch]] \in Body
    <2>1. \A ch \in Players : race[ch] \in {"own"} \cup OtherRaces
      OBVIOUS
    <2>2. QED BY <2>1, Typing DEF Body
  <1>8. gone = Gone
    BY DEF Gone
  <1> HIDE DEF aged, gone, ready, moved, left
  <1>9. duels' = {Fate(d, left) : d \in Stay}
    <2>1. duels' = Unwatched({Turned(d) : d \in Stay}, left)
      BY <1>1, <1>4
    <2>2. QED BY <2>1 DEF Unwatched, Fate
  <1>10. \A ch \in Players : ~Beginning(ch) => room'[ch] = Released(Gone)[ch] /\ body'[ch] = Restored(Gone)[ch]
    BY <1>1, <1>5, <1>8
  <1>11. Restored(Gone) \in [Players -> Body] => body' \in [Players -> Body]
    BY <1>1, <1>7, <1>8
  <1>12. room' = [ch \in Players |-> room'[ch]] /\ file' = Written(Gone) /\ desc' = desc
    BY <1>1, <1>8
  <1>13. QED BY <1>6, <1>9, <1>10, <1>11, <1>12

LEMMA DuelUpdateIInv == ASSUME IInv, Secluded, DuelUpdate PROVE IInv'
  <1> DEFINE back == Returning(Gone)
  <1>1. PICK left : duels' = {Fate(d, left) : d \in Stay}
    BY UpdateShape
  <1>2. ASSUME NEW d \in duels
        PROVE  /\ Aged(d) \in DuelData /\ Aged(d).stage = d.stage
               /\ Aged(d).saved = d.saved /\ Duellists(Aged(d)) = Duellists(d)
    BY Second DEF Duellists
  <1>3. /\ Restored(Gone) \in [Players -> Body]
        /\ Released(Gone) \in [Players -> Rooms \cup {Nowhere}]
        /\ Written(Gone) \in [Players -> [body : Body, room : Rooms]]
        /\ \A ch \in back :
              /\ ch \in Players
              /\ Restored(Gone)[ch].race = "own" /\ Released(Gone)[ch] = Start
              /\ Written(Gone)[ch].body.race = "own" /\ Written(Gone)[ch].room \notin Arenas
        /\ \A ch \in Players \ back :
              /\ Restored(Gone)[ch] = body[ch] /\ Released(Gone)[ch] = room[ch]
              /\ Written(Gone)[ch] = file[ch]
    <2>1. Gone \subseteq DuelData
      BY <1>2 DEF Gone
    <2>2. \A a \in Gone : a.stage = GO =>
              \A ch \in Duellists(a) : a.saved[ch] \in Body /\ a.saved[ch].race = "own"
      BY <1>2 DEF Gone, IInv, SavedOwn
    <2>3. QED BY <2>1, <2>2, Typing, Restoration
  <1>4. \A ch \in back : \E d \in duels \ Stay : d.stage = GO /\ ch \in Duellists(d)
    BY <1>2 DEF Returning, Gone, Stay
  <1>5. \A d \in duels \ Stay : d.stage = GO => Duellists(d) \subseteq back
    BY <1>2 DEF Returning, Gone, Stay
  <1>6. \A d \in duels : Begins(d) => d \in Stay /\ d.stage = SET
    BY <1>2 DEF Begins, Stay, TimedOut, READY, SET, GO
  <1>7. \A ch \in Players : Beginning(ch) =>
            \E d \in duels : Begins(d) /\ ch \in Duellists(d) /\ room'[ch] = d.vnum
    BY UpdateShape
  <1>8. \A ch \in Players : ~Beginning(ch) => room'[ch] = Released(Gone)[ch] /\ body'[ch] = Restored(Gone)[ch]
    BY UpdateShape
  <1>9. body' \in [Players -> Body] /\ file' = Written(Gone) /\ desc' = desc
    BY <1>3, UpdateShape
  <1>10. room' = [ch \in Players |-> room'[ch]]
    BY UpdateShape
  <1>11. \A d \in Stay : d \in duels /\ ~TimedOut(Aged(d))
    BY DEF Stay
  <1> HIDE DEF back
  <1>12. ASSUME NEW d \in Stay
         PROVE  LET e == Fate(d, left)
                IN  /\ e \in duels' /\ Heir(e, d) /\ Sound(e) /\ Duellists(e) = Duellists(d)
                    /\ e.stage = IF Begins(d) THEN GO ELSE d.stage
    BY <1>1, <1>11, FateSound
  <1>13. \A e \in duels' : \E d \in Stay :
            /\ d \in duels /\ Heir(e, d) /\ Sound(e) /\ Duellists(e) = Duellists(d)
            /\ e.stage = IF Begins(d) THEN GO ELSE d.stage
    BY <1>1, <1>11, <1>12
  <1>14. OneRole' /\ ArenasExclusive'
    <2> DEFINE f == [d \in duels |-> IF d \in Stay THEN Fate(d, left) ELSE d]
    <2>1. f \in [duels -> DuelData] /\ \A d \in duels : Heir(f[d], d)
      BY <1>12, Typing DEF Heir
    <2>2. duels' \subseteq {f[d] : d \in duels}
      BY <1>1, <1>11
    <2> HIDE DEF f
    <2>3. QED BY <2>1, <2>2, HeirKeep
  <1>15. duels' \subseteq DuelData
    BY <1>13 DEF Heir
  <1>16. TimersKept' /\ SavedOwn' /\ LinksOwn'
    BY <1>13 DEF TimersKept, SavedOwn, LinksOwn, Sound, AllAccepted, Duellists
  <1>17. ASSUME NEW d \in Stay, NEW ch \in Duellists(d)
         PROVE  /\ ch \in Players
                /\ Begins(d) => room'[ch] = d.vnum
                /\ ~Begins(d) => room'[ch] = room[ch]
    <2>1. ch \in Players /\ d \in duels
      BY <1>11, Typing
    <2>2. CASE Begins(d)
      <3>1. PICK b \in duels : Begins(b) /\ ch \in Duellists(b) /\ room'[ch] = b.vnum
        BY <1>7, <2>1, <2>2 DEF Beginning
      <3>2. b = d
        BY <2>1, <3>1, OneDuel
      <3>3. QED BY <2>1, <2>2, <3>1, <3>2
    <2>3. CASE ~Begins(d)
      <3>1. ~Beginning(ch)
        BY <2>1, <2>3, OneDuel DEF Beginning
      <3>2. ch \notin back
        BY <1>4, <2>1, OneDuel
      <3>3. QED BY <1>3, <1>8, <2>1, <2>3, <3>1, <3>2
    <2>4. QED BY <2>2, <2>3
  <1>18. \A ch \in Players : Fighting(ch)' <=> \E e \in duels' : e.stage = GO /\ ch \in Duellists(e)
    <2>1. \A e \in duels' : e.stage >= GO <=> e.stage = GO
      BY <1>15 DEF DuelData, READY, SET, GO
    <2>2. QED BY <2>1 DEF Fighting, InDuel, Duellists
  <1>19. ASSUME NEW ch \in Players, Beginning(ch) PROVE Fighting(ch)'
    <2>1. PICK d \in duels : Begins(d) /\ ch \in Duellists(d)
      BY <1>19 DEF Beginning
    <2>2. QED BY <1>6, <1>12, <1>18, <2>1
  <1>20. ASSUME NEW ch \in Players \ back, Fighting(ch) PROVE Fighting(ch)'
    <2>1. PICK d \in duels : d.stage = GO /\ ch \in Duellists(d)
      BY <1>20, FightingDef, Typing
    <2>2. d \in Stay
      BY <1>5, <2>1
    <2>3. QED BY <1>12, <1>18, <2>1, <2>2
  <1>21. ArenaHoldsDuellists'
    <2>1. ASSUME NEW ch \in Players, NEW e \in duels', e.stage = GO, ch \in Duellists(e)
          PROVE  room'[ch] = e.vnum
      <3>1. PICK d \in Stay : /\ d \in duels /\ Heir(e, d) /\ Duellists(e) = Duellists(d)
                              /\ e.stage = IF Begins(d) THEN GO ELSE d.stage
        BY <1>13
      <3>2. CASE Begins(d)
        BY <1>17, <2>1, <3>1, <3>2 DEF Heir
      <3>3. CASE ~Begins(d)
        <4>1. d \in DuelsOf(ch, {GO})
          BY <2>1, <3>1, <3>3, FightingDef
        <4>2. room[ch] = d.vnum
          BY <4>1 DEF IInv, ArenaHoldsDuellists
        <4>3. QED BY <1>17, <2>1, <3>1, <3>3, <4>2 DEF Heir
      <3>4. QED BY <3>2, <3>3
    <2>2. ASSUME NEW ch \in Players, room'[ch] \in Arenas PROVE Fighting(ch)'
      <3>1. CASE Beginning(ch)
        BY <1>19, <3>1
      <3>2. CASE ~Beginning(ch)
        <4>1. ch \notin back /\ room[ch] \in Arenas
          BY <1>3, <1>8, <2>2, <3>2, Places
        <4>2. QED BY <1>20, <4>1 DEF IInv, ArenaHoldsDuellists
      <3>3. QED BY <3>1, <3>2
    <2>3. QED BY <2>1, <2>2 DEF ArenaHoldsDuellists, DuelsOf, Duellists
  <1>22. WaitersTogether'
    <2>1. SUFFICES ASSUME NEW e \in duels', e.stage # GO, NEW ch \in Duellists(e) PROVE room'[ch] = Start
      BY DEF WaitersTogether, Duellists
    <2>2. PICK d \in Stay : /\ d \in duels /\ Duellists(e) = Duellists(d)
                            /\ e.stage = IF Begins(d) THEN GO ELSE d.stage
      BY <1>13
    <2>3. ~Begins(d) /\ d.stage # GO
      BY <2>1, <2>2
    <2>4. room[ch] = Start
      BY <2>1, <2>2, <2>3 DEF IInv, WaitersTogether
    <2>5. QED BY <1>17, <2>1, <2>2, <2>3, <2>4
  <1>23. ASSUME NEW ch \in Players
         PROVE  room'[ch] \in Arenas \cup {Start, room[ch]}
    <2>1. CASE Beginning(ch)
      BY <1>7, <2>1, Typing
    <2>2. CASE ~Beginning(ch)
      BY <1>3, <1>8, <2>2
    <2>3. QED BY <2>1, <2>2
  <1>24. NobodyExtracted'
    <2>1. SUFFICES ASSUME NEW e \in duels', NEW ch \in Duellists(e) \cup e.watchers
                   PROVE  ch \in Players /\ room'[ch] # Nowhere
      BY DEF NobodyExtracted, Duellists, Present
    <2>2. PICK d \in Stay : d \in duels /\ Heir(e, d) /\ Duellists(e) = Duellists(d)
      BY <1>13
    <2>3. ch \in Players /\ room[ch] # Nowhere
      BY <2>1, <2>2 DEF IInv, NobodyExtracted, Heir, Present
    <2>4. QED BY <1>23, <2>3, Places
  <1>25. FilesFromOutside'
    <2>1. SUFFICES ASSUME NEW ch \in Players
                   PROVE  /\ file'[ch].body.race = "own" /\ file'[ch].room \notin Arenas
                          /\ room'[ch] # Nowhere /\ ~Fighting(ch)' => body'[ch].race = "own"
      BY DEF FilesFromOutside, Present
    <2>2. file'[ch].body.race = "own" /\ file'[ch].room \notin Arenas
      BY <1>3, <1>9 DEF IInv, FilesFromOutside
    <2>3. ASSUME room'[ch] # Nowhere, ~Fighting(ch)' PROVE body'[ch].race = "own"
      <3>1. ~Beginning(ch)
        BY <1>19, <2>3
      <3>2. CASE ch \in back
        BY <1>3, <1>8, <3>1, <3>2
      <3>3. CASE ch \notin back
        <4>1. room'[ch] = room[ch] /\ body'[ch] = body[ch]
          BY <1>3, <1>8, <3>1, <3>3
        <4>2. ~Fighting(ch)
          BY <1>20, <2>3, <3>3
        <4>3. QED BY <2>3, <4>1, <4>2 DEF IInv, FilesFromOutside, Present
      <3>4. QED BY <3>2, <3>3
    <2>4. QED BY <2>2, <2>3
  <1>26. TypeOK'
    <2>1. \A ch \in Players : room'[ch] \in Rooms \cup {Nowhere}
      BY <1>23, Places, Typing
    <2>2. room' \in [Players -> Rooms \cup {Nowhere}]
      BY <1>10, <2>1
    <2>3. QED BY <1>3, <1>9, <1>15, <2>2, Typing DEF TypeOK
  <1>27. QED BY <1>14, <1>16, <1>21, <1>22, <1>24, <1>25, <1>26 DEF IInv

-----------------------------------------------------------------------------
(* The invariant, and what it is for. *)

LEMMA NextIInv == ASSUME IInv, Secluded, [Next]_vars PROVE IInv'
  <1>1. ASSUME NEW ch \in Players, NEW victim \in Players, Challenge(ch, victim) \/ Watch(ch, victim)
        PROVE  IInv'
    BY <1>1, ChallengeIInv, WatchIInv
  <1>2. ASSUME NEW ch \in Players, Accept(ch) PROVE IInv'
    BY <1>2, AcceptIInv
  <1>3. ASSUME NEW ch \in Players, Save(ch) \/ Hurt(ch) \/ Heal(ch) \/ Idle(ch) PROVE IInv'
    BY <1>3, SaveIInv, HurtIInv, HealIInv, IdleIInv
  <1>4. ASSUME NEW ch \in Players, LoseLink(ch) \/ Reconnect(ch) PROVE IInv'
    BY <1>4, LoseLinkIInv, ReconnectIInv
  <1>5. ASSUME NEW ch \in Players, Quit(ch) \/ Login(ch) PROVE IInv'
    BY <1>5, QuitIInv, LoginIInv
  <1>6. ASSUME NEW ch \in Players, NEW to \in Rooms \ Arenas, Move(ch, to) PROVE IInv'
    BY <1>6, MoveIInv
  <1>7. \A ch \in Players : ~Slay(ch) /\ \A to \in Rooms \ Arenas : ~Transfer(ch, to)
    BY DEF Secluded, Slay, Transfer
  <1>8. ASSUME UNCHANGED vars PROVE IInv'
    <2>1. DuelsInv' /\ InTheirPlaces'
      BY <1>8, SameDuels, SameRooms DEF vars
    <2>2. FilesFromOutside'
      BY <1>8, SameFighting, SameFiles DEF vars
    <2>3. QED BY <1>8, <2>1, <2>2, Typing DEF IInv, TypeOK, DuelsInv, InTheirPlaces, vars
  <1>9. QED BY <1>1, <1>2, <1>3, <1>4, <1>5, <1>6, <1>7, <1>8, DuelUpdateIInv, HotRebootIInv, CrashIInv DEF Next

LEMMA Invariance == ASSUME Secluded PROVE Spec => []IInv
  <1>1. Init => IInv
    BY InitIInv
  <1>2. IInv /\ [Next]_vars => IInv'
    BY NextIInv
  <1>3. QED BY <1>1, <1>2, PTL DEF Spec

-----------------------------------------------------------------------------
(* A duel leaves no trace. *)

OuterFacts ==
    \A ch \in Players :
        /\ \A d \in duels : d.stage = GO /\ ch \in Duellists(d) => Outer(ch) = d.saved[ch]
        /\ Fighting(ch) <=> \E d \in duels : d.stage = GO /\ ch \in Duellists(d)
        /\ ~Fighting(ch) => Outer(ch) = body[ch]

LEMMA OuterDef == IInv => OuterFacts
  <1>1. SUFFICES ASSUME IInv, NEW ch \in Players
                 PROVE  /\ \A d \in duels : d.stage = GO /\ ch \in Duellists(d) => Outer(ch) = d.saved[ch]
                        /\ Fighting(ch) <=> \E d \in duels : d.stage = GO /\ ch \in Duellists(d)
                        /\ ~Fighting(ch) => Outer(ch) = body[ch]
    BY DEF OuterFacts
  <1>2. Fighting(ch) <=> \E d \in duels : d.stage = GO /\ ch \in Duellists(d)
    BY <1>1, FightingDef, Typing
  <1>3. ASSUME NEW d \in duels, d.stage = GO, ch \in Duellists(d) PROVE Outer(ch) = d.saved[ch]
    <2> DEFINE m == CHOOSE e \in DuelsOf(ch, {GO}) : TRUE
    <2>1. d \in DuelsOf(ch, {GO}) /\ DuelsOf(ch, {GO}) \subseteq duels
      BY <1>3 DEF DuelsOf
    <2>2. m \in DuelsOf(ch, {GO})
      BY <2>1
    <2>3. m \in duels /\ ch \in Duellists(m)
      BY <2>2 DEF DuelsOf
    <2> HIDE DEF m
    <2>4. m = d
      BY <1>1, <1>3, <2>3, OneDuel
    <2> USE DEF m
    <2>5. Outer(ch) = m.saved[ch]
      BY <1>2, <1>3 DEF Outer
    <2>6. QED BY <2>4, <2>5
  <1>4. QED BY <1>2, <1>3 DEF Outer

LEMMA OuterPrime == IInv' => OuterFacts'
  BY OuterDef, PTL

\* Every duel that is fought after a step was fought before it, with the same
\* players and the same saved bodies.
NoneBegins ==
    \A e \in duels' : e.stage = GO =>
        \E d \in duels : d.stage = GO /\ Duellists(d) = Duellists(e) /\ d.saved = e.saved

\* Whoever no longer fights after a step is as he was, or out of the game.
GivenBack ==
    \A ch \in Players : Fighting(ch) /\ ~Fighting(ch)' /\ ch \in Present' => body'[ch] = Outer(ch)

NoTrace == \A ch \in Players : (Fighting(ch) \/ Fighting(ch)') /\ ch \in Present' => Outer(ch)' = Outer(ch)

LEMMA TraceKept == IInv /\ IInv' /\ NoneBegins /\ GivenBack => NoTrace
  <1>1. SUFFICES ASSUME IInv, IInv', NoneBegins, GivenBack, NEW ch \in Players,
                        Fighting(ch) \/ Fighting(ch)', ch \in Present'
                 PROVE  Outer(ch)' = Outer(ch)
    BY DEF NoTrace
  <1>2. OuterFacts'
    BY <1>1, OuterPrime
  <1>3. /\ \A e \in duels' : e.stage = GO /\ ch \in Duellists(e) => Outer(ch)' = e.saved[ch]
        /\ Fighting(ch)' <=> \E e \in duels' : e.stage = GO /\ ch \in Duellists(e)
        /\ ~Fighting(ch)' => Outer(ch)' = body'[ch]
    BY <1>1, <1>2 DEF OuterFacts, Duellists
  <1>4. CASE Fighting(ch)'
    <2>1. PICK e \in duels' : e.stage = GO /\ ch \in Duellists(e)
      BY <1>3, <1>4
    <2>2. PICK d \in duels : d.stage = GO /\ Duellists(d) = Duellists(e) /\ d.saved = e.saved
      BY <1>1, <2>1 DEF NoneBegins
    <2>3. Outer(ch) = d.saved[ch]
      BY <1>1, <2>1, <2>2, OuterDef DEF OuterFacts
    <2>4. QED BY <1>3, <2>1, <2>2, <2>3
  <1>5. CASE ~Fighting(ch)'
    BY <1>1, <1>3, <1>5 DEF GivenBack
  <1>6. QED BY <1>4, <1>5

\* The duels that are fought are the same, whatever else happens.
SameFights ==
    /\ NoneBegins
    /\ \A d \in duels : d.stage = GO => \E e \in duels' : e.stage = GO /\ Duellists(e) = Duellists(d)

LEMMA SameFightsTrace == IInv /\ IInv' /\ SameFights => NoTrace
  <1>1. SUFFICES ASSUME IInv, IInv', SameFights PROVE GivenBack
    BY TraceKept DEF SameFights
  <1>2. ASSUME NEW ch \in Players, Fighting(ch) PROVE Fighting(ch)'
    <2>1. PICK d \in duels : d.stage = GO /\ ch \in Duellists(d)
      BY <1>1, <1>2, FightingDef, Typing
    <2>2. PICK e \in duels' : e.stage = GO /\ Duellists(e) = Duellists(d)
      BY <1>1, <2>1 DEF SameFights
    <2>3. QED BY <2>1, <2>2 DEF Fighting, InDuel, Duellists, GO
  <1>3. QED BY <1>2 DEF GivenBack

LEMMA OfferTrace ==
    ASSUME IInv, IInv', NEW ch \in Players, NEW victim \in Players,
           Challenge(ch, victim) \/ Accept(ch) \/ Watch(ch, victim)
    PROVE  NoTrace
  <1>1. CASE Challenge(ch, victim)
    <2>1. PICK a \in Arenas, rr \in BOOLEAN : duels' = duels \cup {NewDuel(ch, victim, a, rr)}
      BY <1>1 DEF Challenge
    <2>2. NewDuel(ch, victim, a, rr).stage # GO
      BY DEF NewDuel, READY, GO
    <2>3. SameFights
      BY <2>1, <2>2 DEF SameFights, NoneBegins
    <2>4. QED BY <2>3, SameFightsTrace
  <1>2. CASE Accept(ch)
    <2>1. PICK d \in duels : ch \in Duellists(d) /\ ch \notin d.accepted
                            /\ duels' = (duels \ {d}) \cup {Accepted(d, ch)}
      BY <1>2 DEF Accept, DuelsOf
    <2>2. d.stage = READY /\ d \in DuelData /\ READY # GO /\ SET # GO
      BY <2>1, Typing DEF IInv, TimersKept, AllAccepted, READY, SET, GO
    <2>3. Accepted(d, ch).stage # GO
      BY <2>2 DEF Accepted, DuelData
    <2>4. SameFights
      BY <2>1, <2>2, <2>3 DEF SameFights, NoneBegins
    <2>5. QED BY <2>4, SameFightsTrace
  <1>3. CASE Watch(ch, victim)
    <2>1. PICK d \in duels : duels' = (duels \ {d}) \cup {[d EXCEPT !.watchers = @ \cup {ch}]}
      BY <1>3 DEF Watch, DuelsOf
    <2> DEFINE e == [d EXCEPT !.watchers = @ \cup {ch}]
    <2>2. e.stage = d.stage /\ Duellists(e) = Duellists(d) /\ e.saved = d.saved
      BY Typing DEF DuelData, Duellists
    <2>3. e \in duels' /\ \A b \in duels' : b = e \/ b \in duels
      BY <2>1
    <2>4. \A b \in duels : b = d \/ b \in duels'
      BY <2>1
    <2> HIDE DEF e
    <2>5. NoneBegins
      BY <2>2, <2>3 DEF NoneBegins
    <2>6. \A b \in duels : \E c \in duels' : c.stage = b.stage /\ Duellists(c) = Duellists(b)
      BY <2>2, <2>3, <2>4
    <2>7. SameFights
      BY <2>5, <2>6 DEF SameFights
    <2>8. QED BY <2>7, SameFightsTrace
  <1>4. QED BY <1>1, <1>2, <1>3

\* What is left of the duels when G end and S leave.
LEMMA UnwatchedTrace ==
    ASSUME IInv, NEW G, NEW S, duels' = Unwatched(duels \ G, S)
    PROVE  /\ NoneBegins
           /\ \A d \in duels \ G : \E e \in duels' : e.stage = d.stage /\ Duellists(e) = Duellists(d)
  <1>1. /\ \A e \in duels' : \E d \in duels \ G : Kin(e, d)
        /\ \A d \in duels \ G : \E e \in duels' : Kin(e, d)
    BY Dropping
  <1>2. \A e, d : Kin(e, d) => e.stage = d.stage /\ e.saved = d.saved /\ Duellists(e) = Duellists(d)
    BY DEF Kin, Duellists
  <1>3. ASSUME NEW e \in duels', e.stage = GO
        PROVE  \E d \in duels : d.stage = GO /\ Duellists(d) = Duellists(e) /\ d.saved = e.saved
    <2>1. PICK d \in duels \ G : Kin(e, d)
      BY <1>1
    <2>2. QED BY <1>2, <1>3, <2>1
  <1>4. ASSUME NEW d \in duels \ G
        PROVE  \E e \in duels' : e.stage = d.stage /\ Duellists(e) = Duellists(d)
    BY <1>1, <1>2
  <1>5. QED BY <1>3, <1>4 DEF NoneBegins

\* Nobody fights who leaves a duel that has not begun.
LEMMA LeavingTrace == ASSUME IInv, IInv', NEW ch, duels' = AfterLeaving(ch) PROVE NoTrace
  <1>1. /\ NoneBegins
        /\ \A d \in duels \ DuelsOf(ch, {READY, SET}) :
              \E e \in duels' : e.stage = d.stage /\ Duellists(e) = Duellists(d)
    BY UnwatchedTrace DEF AfterLeaving
  <1>2. \A d \in duels : d.stage = GO => d \notin DuelsOf(ch, {READY, SET})
    BY DEF DuelsOf, READY, SET, GO
  <1>3. SameFights
    BY <1>1, <1>2 DEF SameFights
  <1>4. QED BY <1>3, SameFightsTrace

LEMMA SameDuelsTrace == ASSUME IInv, IInv', UNCHANGED duels PROVE NoTrace
  <1>1. SameFights
    BY DEF SameFights, NoneBegins
  <1>2. QED BY <1>1, SameFightsTrace

LEMMA LinkTrace == ASSUME IInv, IInv', NEW ch \in Players, LoseLink(ch) \/ Reconnect(ch) PROVE NoTrace
  <1>1. PICK v \in {-1, 0}, G \in {{}, DuelsOf(ch, {SET})} : duels' = {Linked(d, ch, v) : d \in duels \ G}
    <2>1. CASE LoseLink(ch)
      BY <2>1 DEF LoseLink, Linked
    <2>2. CASE Reconnect(ch)
      <3>1. duels \ {} = duels
        OBVIOUS
      <3>2. duels' = {Linked(d, ch, -1) : d \in duels \ {}}
        BY <2>2, <3>1 DEF Reconnect, Linked
      <3>3. QED BY <3>2
    <2>3. QED BY <2>1, <2>2
  <1>2. \A d \in duels : d.stage = GO => d \notin G
    BY DEF DuelsOf, SET, GO
  <1>3. ASSUME NEW d \in duels
        PROVE  LET e == Linked(d, ch, v)
               IN  e.stage = d.stage /\ Duellists(e) = Duellists(d) /\ e.saved = d.saved
    BY Typing DEF Linked, DuelData, Duellists
  <1>4. SameFights
    BY <1>1, <1>2, <1>3 DEF SameFights, NoneBegins
  <1>5. QED BY <1>4, SameFightsTrace

\* A cancellation gives back what was saved.
LEMMA RestoredOuter ==
    ASSUME IInv, NEW gone, NEW ch \in Players, ch \in Returning(gone),
           \A a \in gone : \E d \in duels : a.stage = d.stage /\ Duellists(a) = Duellists(d) /\ a.saved = d.saved
    PROVE  Restored(gone)[ch] = Outer(ch)
  <1> DEFINE m == CHOOSE d \in gone : d.stage = GO /\ ch \in Duellists(d)
  <1>1. \E d \in gone : d.stage = GO /\ ch \in Duellists(d)
    BY DEF Returning
  <1>2. m \in gone /\ m.stage = GO /\ ch \in Duellists(m)
    BY <1>1
  <1>3. Restored(gone)[ch] = m.saved[ch]
    BY DEF Restored, SavedIn
  <1> HIDE DEF m
  <1>4. PICK d \in duels : m.stage = d.stage /\ Duellists(m) = Duellists(d) /\ m.saved = d.saved
    BY <1>2
  <1>5. Outer(ch) = d.saved[ch]
    BY <1>2, <1>4, OuterDef DEF OuterFacts
  <1>6. QED BY <1>3, <1>4, <1>5

LEMMA CancelTrace ==
    ASSUME IInv, IInv', NEW G, G \subseteq duels, \A d \in G : d.stage = GO, Cancel(G)
    PROVE  NoTrace
  <1>1. duels' = Unwatched(duels \ G, Returning(G)) /\ body' = Restored(G)
    BY DEF Cancel
  <1>2. /\ NoneBegins
        /\ \A d \in duels \ G : \E e \in duels' : e.stage = d.stage /\ Duellists(e) = Duellists(d)
    BY <1>1, UnwatchedTrace
  <1>3. GivenBack
    <2>1. SUFFICES ASSUME NEW ch \in Players, Fighting(ch), ~Fighting(ch)' PROVE body'[ch] = Outer(ch)
      BY DEF GivenBack
    <2>2. PICK d \in duels : d.stage = GO /\ ch \in Duellists(d)
      BY <2>1, FightingDef, Typing
    <2>3. d \in G
      <3>1. SUFFICES ASSUME d \notin G PROVE FALSE
        OBVIOUS
      <3>2. PICK e \in duels' : e.stage = GO /\ Duellists(e) = Duellists(d)
        BY <1>2, <2>2, <3>1
      <3>3. Fighting(ch)'
        BY <2>2, <3>2 DEF Fighting, InDuel, Duellists, GO
      <3>4. QED BY <2>1, <3>3
    <2>4. ch \in Returning(G)
      BY <2>2, <2>3 DEF Returning
    <2>5. QED BY <1>1, <2>4, RestoredOuter
  <1>4. QED BY <1>2, <1>3, TraceKept

LEMMA EndTrace == ASSUME IInv, IInv', NEW ch \in Players, Hurt(ch) \/ Idle(ch) PROVE NoTrace
  <1> DEFINE G == DuelsOf(ch, {GO})
  <1>1. G \subseteq duels /\ \A d \in G : d.stage = GO
    BY DEF DuelsOf
  <1>2. UNCHANGED duels \/ Cancel(G) \/ duels' = AfterLeaving(ch)
    BY DEF Hurt, Lethal, Killed, Idle
  <1>3. CASE UNCHANGED duels
    BY <1>3, SameDuelsTrace
  <1>4. CASE Cancel(G)
    BY <1>1, <1>4, CancelTrace
  <1>5. CASE duels' = AfterLeaving(ch)
    BY <1>5, LeavingTrace
  <1>6. QED BY <1>2, <1>3, <1>4, <1>5

LEMMA RebootTrace == ASSUME IInv, IInv', HotReboot \/ Crash PROVE NoTrace
  <1>1. duels' = {}
    BY DEF HotReboot, Crash
  <1>2. ASSUME NEW ch \in Players, Fighting(ch), ch \in Present' PROVE body'[ch] = Outer(ch)
    <2>1. room'[ch] # Nowhere
      BY <1>2 DEF Present
    <2>2. HotReboot /\ Active(ch)
      BY <2>1 DEF HotReboot, Crash
    <2>3. body'[ch] = Restored(duels)[ch]
      BY <2>2 DEF HotReboot
    <2>4. ch \in Returning(duels)
      BY <1>2, FightingDef, Typing DEF Returning
    <2>5. QED BY <2>3, <2>4, RestoredOuter
  <1>3. GivenBack
    BY <1>2 DEF GivenBack
  <1>4. NoneBegins
    BY <1>1 DEF NoneBegins
  <1>5. QED BY <1>3, <1>4, TraceKept

\* duel_update begins duels with the bodies it saves, and ends others.
LEMMA DuelUpdateTrace == ASSUME IInv, IInv', DuelUpdate PROVE NoTrace
  <1>1. PICK left : duels' = {Fate(d, left) : d \in Stay}
    BY UpdateShape
  <1>2. ASSUME NEW d \in Stay
        PROVE  LET e == Fate(d, left)
               IN  /\ d \in duels /\ e \in duels' /\ Duellists(e) = Duellists(d)
                   /\ e.stage = IF Begins(d) THEN GO ELSE d.stage
                   /\ e.saved = Turned(d).saved
    <2>1. d \in duels /\ ~TimedOut(Aged(d))
      BY DEF Stay
    <2>2. Turned(d) \in DuelData
      BY <2>1, TurnedSound
    <2>3. Fate(d, left).saved = Turned(d).saved
      BY <2>2 DEF Fate, DuelData
    <2>4. QED BY <1>1, <2>1, <2>3, FateSound
  <1>3. SUFFICES ASSUME NEW ch \in Players, Fighting(ch) \/ Fighting(ch)', ch \in Present'
                 PROVE  Outer(ch)' = Outer(ch)
    BY DEF NoTrace
  <1>4. OuterFacts /\ OuterFacts'
    BY OuterDef, OuterPrime
  <1>5. CASE Fighting(ch)'
    <2>1. PICK e \in duels' : e.stage = GO /\ ch \in Duellists(e) /\ Outer(ch)' = e.saved[ch]
      BY <1>4, <1>5 DEF OuterFacts, Duellists
    <2>2. PICK d \in Stay : e = Fate(d, left)
      BY <1>1
    <2>3. /\ d \in duels /\ ch \in Duellists(d) /\ Outer(ch)' = Turned(d).saved[ch]
          /\ Begins(d) \/ d.stage = GO
      BY <1>2, <2>1, <2>2
    <2>4. CASE Begins(d)
      <3>1. d.stage = SET /\ Duellists(Aged(d)) = Duellists(d) /\ Aged(d) \in DuelData
        BY <2>3, <2>4, Second DEF Begins, Duellists
      <3>2. Turned(d).saved = [c \in Players |-> IF c \in Duellists(d) THEN body[c] ELSE NoBody]
        BY <2>4, <3>1 DEF Turned, Started, DuelData
      <3>3. ~Fighting(ch)
        <4>1. \A b \in duels : ch \in Duellists(b) => b = d
          BY <2>3, OneDuel
        <4>2. QED BY <3>1, <4>1, FightingDef, Typing DEF SET, GO
      <3>4. Outer(ch) = body[ch]
        BY <1>4, <3>3 DEF OuterFacts
      <3>5. QED BY <2>3, <3>2, <3>4
    <2>5. CASE ~Begins(d)
      <3>1. Turned(d).saved = d.saved
        BY <2>3, <2>5, Second DEF Turned
      <3>2. Outer(ch) = d.saved[ch]
        BY <1>4, <2>3, <2>5 DEF OuterFacts
      <3>3. QED BY <2>3, <3>1, <3>2
    <2>6. QED BY <2>4, <2>5
  <1>6. CASE ~Fighting(ch)'
    <2>1. PICK d \in duels : d.stage = GO /\ ch \in Duellists(d)
      BY <1>3, <1>6, FightingDef, Typing
    <2>2. ASSUME d \in Stay PROVE FALSE
      <3>1. ~Begins(d) \/ Begins(d)
        OBVIOUS
      <3>2. Fate(d, left) \in duels' /\ Fate(d, left).stage = GO /\ ch \in Duellists(Fate(d, left))
        BY <1>2, <2>1, <2>2
      <3>3. Fighting(ch)'
        BY <3>2 DEF Fighting, InDuel, Duellists, GO
      <3>4. QED BY <1>6, <3>3
    <2>3. ~Beginning(ch)
      <3>1. \A b \in duels : ch \in Duellists(b) => b = d
        BY <2>1, OneDuel
      <3>2. ~Begins(d)
        BY <2>1, Second DEF Begins, SET, GO
      <3>3. QED BY <3>1, <3>2 DEF Beginning
    <2>4. body'[ch] = Restored(Gone)[ch]
      BY <2>3, UpdateShape
    <2>5. Aged(d) \in Gone /\ Aged(d).stage = GO /\ ch \in Duellists(Aged(d))
      BY <2>1, <2>2, Second DEF Gone, Stay, Duellists
    <2>6. ch \in Returning(Gone)
      BY <2>5 DEF Returning
    <2>7. \A a \in Gone : \E b \in duels :
              a.stage = b.stage /\ Duellists(a) = Duellists(b) /\ a.saved = b.saved
      BY Second DEF Gone, Duellists
    <2>8. Restored(Gone)[ch] = Outer(ch)
      BY <2>6, <2>7, RestoredOuter
    <2>9. QED BY <1>4, <1>6, <2>4, <2>8 DEF OuterFacts
  <1>7. QED BY <1>5, <1>6

LEMMA NextTrace == ASSUME IInv, IInv', Secluded, [Next]_vars PROVE NoTrace
  <1>1. ASSUME NEW ch \in Players, NEW victim \in Players, Challenge(ch, victim) \/ Watch(ch, victim)
        PROVE  NoTrace
    BY <1>1, OfferTrace
  <1>2. ASSUME NEW ch \in Players, Accept(ch) PROVE NoTrace
    BY <1>2, OfferTrace
  <1>3. ASSUME NEW ch \in Players, Save(ch) \/ Heal(ch) \/ Login(ch) PROVE NoTrace
    BY <1>3, SameDuelsTrace DEF Save, Heal, Login
  <1>4. ASSUME NEW ch \in Players, Hurt(ch) \/ Idle(ch) PROVE NoTrace
    BY <1>4, EndTrace
  <1>5. ASSUME NEW ch \in Players, LoseLink(ch) \/ Reconnect(ch) PROVE NoTrace
    BY <1>5, LinkTrace
  <1>6. ASSUME NEW ch \in Players, NEW to \in Rooms \ Arenas, Move(ch, to) PROVE NoTrace
    BY <1>6, LeavingTrace DEF Move
  <1>7. ASSUME NEW ch \in Players, Quit(ch) PROVE NoTrace
    BY <1>7, LeavingTrace DEF Quit
  <1>8. \A ch \in Players : ~Slay(ch) /\ \A to \in Rooms \ Arenas : ~Transfer(ch, to)
    BY DEF Secluded, Slay, Transfer
  <1>9. ASSUME UNCHANGED vars PROVE NoTrace
    BY <1>9, SameDuelsTrace DEF vars
  <1>10. QED BY <1>1, <1>2, <1>3, <1>4, <1>5, <1>6, <1>7, <1>8, <1>9, DuelUpdateTrace, RebootTrace DEF Next

-----------------------------------------------------------------------------
(* The clock of a lost link. *)

\* A clock that runs after a step ran before it.
NoClockBegins ==
    \A e \in duels' : \A ch \in Players : e.linkdead[ch] >= 0 => \E d \in duels : d.linkdead[ch] >= 0

LEMMA ClocksKept == ASSUME LinkClockStops, NoClockBegins, desc' \subseteq desc PROVE LinkClockStops'
  BY DEF LinkClockStops, NoClockBegins

LEMMA OfferClocks ==
    ASSUME IInv, NEW ch \in Players, NEW victim \in Players,
           Challenge(ch, victim) \/ Accept(ch) \/ Watch(ch, victim)
    PROVE  NoClockBegins
  <1>1. CASE Challenge(ch, victim)
    <2>1. PICK a \in Arenas, rr \in BOOLEAN : duels' = duels \cup {NewDuel(ch, victim, a, rr)}
      BY <1>1 DEF Challenge
    <2>2. \A c \in Players : ~(NewDuel(ch, victim, a, rr).linkdead[c] >= 0)
      BY DEF NewDuel
    <2>3. QED BY <2>1, <2>2 DEF NoClockBegins
  <1>2. CASE Accept(ch)
    <2>1. PICK d \in duels : duels' = (duels \ {d}) \cup {Accepted(d, ch)}
      BY <1>2 DEF Accept, DuelsOf
    <2> DEFINE acc == [d EXCEPT !.accepted = @ \cup {ch}]
    <2>2. acc.linkdead = d.linkdead /\ acc \in DuelData
      BY Typing DEF DuelData
    <2>3. Accepted(d, ch) = IF AllAccepted(acc)
                            THEN [acc EXCEPT !.stage = SET, !.countdown = SetTime, !.challenged = 0]
                            ELSE acc
      BY DEF Accepted
    <2> HIDE DEF acc
    <2>4. Accepted(d, ch).linkdead = d.linkdead
      BY <2>2, <2>3 DEF DuelData
    <2>5. QED BY <2>1, <2>4 DEF NoClockBegins
  <1>3. CASE Watch(ch, victim)
    <2>1. PICK d \in duels : duels' = (duels \ {d}) \cup {[d EXCEPT !.watchers = @ \cup {ch}]}
      BY <1>3 DEF Watch, DuelsOf
    <2>2. [d EXCEPT !.watchers = @ \cup {ch}].linkdead = d.linkdead
      BY Typing DEF DuelData
    <2>3. QED BY <2>1, <2>2 DEF NoClockBegins
  <1>4. QED BY <1>1, <1>2, <1>3

LEMMA UnwatchedClocks == ASSUME IInv, NEW G, NEW S, duels' = Unwatched(duels \ G, S) PROVE NoClockBegins
  <1>1. ASSUME NEW d \in duels PROVE [d EXCEPT !.watchers = @ \ S].linkdead = d.linkdead
    BY Typing DEF DuelData
  <1>2. \A e \in duels' : \E d \in duels : e = [d EXCEPT !.watchers = @ \ S]
    BY DEF Unwatched
  <1>3. QED BY <1>1, <1>2 DEF NoClockBegins

LEMMA EndClocks ==
    ASSUME IInv, NEW ch \in Players,
           Hurt(ch) \/ Idle(ch) \/ Quit(ch) \/ \E to \in Rooms \ Arenas : Move(ch, to)
    PROVE  NoClockBegins
  <1>1. \/ UNCHANGED duels
        \/ duels' = AfterLeaving(ch)
        \/ duels' = Unwatched(duels \ DuelsOf(ch, {GO}), Returning(DuelsOf(ch, {GO})))
    BY DEF Hurt, Lethal, Killed, Idle, Cancel, Quit, Move
  <1>2. CASE UNCHANGED duels
    BY <1>2 DEF NoClockBegins
  <1>3. CASE duels' # duels
    BY <1>1, <1>3, UnwatchedClocks DEF AfterLeaving
  <1>4. QED BY <1>2, <1>3

LEMMA DuelUpdateClocks == ASSUME IInv, DuelUpdate PROVE NoClockBegins
  <1>1. PICK left : duels' = {Fate(d, left) : d \in Stay}
    BY UpdateShape
  <1>2. ASSUME NEW d \in Stay, NEW ch \in Players, Fate(d, left).linkdead[ch] >= 0
        PROVE  d \in duels /\ d.linkdead[ch] >= 0
    <2>1. d \in duels /\ ~TimedOut(Aged(d))
      BY DEF Stay
    <2>2. Turned(d) \in DuelData
      BY <2>1, TurnedSound
    <2>3. Fate(d, left).linkdead = Turned(d).linkdead
      BY <2>2 DEF Fate, DuelData
    <2>4. CASE Begins(d)
      BY <1>2, <2>1, <2>3, <2>4, Starting
    <2>5. CASE ~Begins(d)
      BY <1>2, <2>1, <2>3, <2>5, Second DEF Turned
    <2>6. QED BY <2>4, <2>5
  <1>3. QED BY <1>1, <1>2 DEF NoClockBegins

\* LoseLink begins a clock as it takes the link away, Reconnect ends one.
LEMMA LinkClocks ==
    ASSUME IInv, LinkClockStops, NEW ch \in Players, LoseLink(ch) \/ Reconnect(ch)
    PROVE  LinkClockStops'
  <1>1. ASSUME NEW d \in duels, NEW v \in {-1, 0}, NEW c \in Players
        PROVE  \/ c = ch /\ d \in DuelsOf(ch, {GO}) /\ Linked(d, ch, v).linkdead[c] = v
               \/ (c = ch => d \notin DuelsOf(ch, {GO})) /\ Linked(d, ch, v).linkdead[c] = d.linkdead[c]
    <2>1. d.linkdead \in [Players -> -1 .. LinkTime] /\ d \in DuelData
      BY Typing DEF DuelData
    <2>2. [d EXCEPT !.linkdead[ch] = v].linkdead = [d.linkdead EXCEPT ![ch] = v]
      BY <2>1 DEF DuelData
    <2>3. QED BY <2>1, <2>2 DEF Linked
  <1>2. \A d \in duels : d.linkdead[ch] >= 0 => d \in DuelsOf(ch, {GO})
    BY DEF IInv, LinksOwn, DuelsOf
  <1>3. CASE LoseLink(ch)
    <2>1. \A e \in duels' : \E d \in duels : e = Linked(d, ch, 0)
      BY <1>3 DEF LoseLink, Linked
    <2>2. desc' = desc \ {ch}
      BY <1>3 DEF LoseLink
    <2>3. QED BY <1>1, <2>1, <2>2 DEF LinkClockStops
  <1>4. CASE Reconnect(ch)
    <2>1. \A e \in duels' : \E d \in duels : e = Linked(d, ch, -1)
      BY <1>4 DEF Reconnect, Linked
    <2>2. desc' = desc \cup {ch}
      BY <1>4 DEF Reconnect
    <2>3. SUFFICES ASSUME NEW e \in duels', NEW c \in Players, e.linkdead[c] >= 0 PROVE c \notin desc'
      BY DEF LinkClockStops
    <2>4. PICK d \in duels : e = Linked(d, ch, -1)
      BY <2>1
    <2>5. \/ c = ch /\ e.linkdead[c] = -1
          \/ (c = ch => d \notin DuelsOf(ch, {GO})) /\ e.linkdead[c] = d.linkdead[c]
      BY <1>1, <2>4
    <2>6. c # ch /\ d.linkdead[c] >= 0
      BY <1>2, <2>3, <2>5
    <2>7. QED BY <2>2, <2>6 DEF LinkClockStops
  <1>5. QED BY <1>3, <1>4

LEMMA NextClocks == ASSUME IInv, LinkClockStops, Secluded, [Next]_vars PROVE LinkClockStops'
  <1>1. ASSUME NEW ch \in Players, NEW victim \in Players, Challenge(ch, victim) \/ Accept(ch) \/ Watch(ch, victim)
        PROVE  LinkClockStops'
    BY <1>1, OfferClocks, ClocksKept DEF Challenge, Accept, Watch
  <1>2. ASSUME NEW ch \in Players,
               Hurt(ch) \/ Idle(ch) \/ Quit(ch) \/ \E to \in Rooms \ Arenas : Move(ch, to)
        PROVE  LinkClockStops'
    <2>1. desc' \subseteq desc
      BY <1>2 DEF Hurt, Idle, Quit, Move
    <2>2. QED BY <1>2, <2>1, EndClocks, ClocksKept
  <1>3. ASSUME NEW ch \in Players, LoseLink(ch) \/ Reconnect(ch) PROVE LinkClockStops'
    BY <1>3, LinkClocks
  <1>4. ASSUME NEW ch \in Players, Save(ch) \/ Heal(ch) PROVE LinkClockStops'
    BY <1>4 DEF Save, Heal, LinkClockStops
  <1>5. ASSUME NEW ch \in Players, Login(ch) PROVE LinkClockStops'
    <2>1. \A d \in duels : ~(d.linkdead[ch] >= 0)
      BY <1>5 DEF Login, IInv, LinksOwn, NobodyExtracted
    <2>2. QED BY <1>5, <2>1 DEF Login, LinkClockStops
  <1>6. \A ch \in Players : ~Slay(ch) /\ \A to \in Rooms \ Arenas : ~Transfer(ch, to)
    BY DEF Secluded, Slay, Transfer
  <1>7. ASSUME DuelUpdate PROVE LinkClockStops'
    <2>1. desc' \subseteq desc
      BY <1>7, UpdateShape
    <2>2. QED BY <1>7, <2>1, DuelUpdateClocks, ClocksKept
  <1>8. ASSUME HotReboot \/ Crash PROVE LinkClockStops'
    BY <1>8 DEF HotReboot, Crash, LinkClockStops
  <1>9. ASSUME UNCHANGED vars PROVE LinkClockStops'
    BY <1>9 DEF vars, LinkClockStops
  <1>10. QED BY <1>1, <1>2, <1>3, <1>4, <1>5, <1>6, <1>7, <1>8, <1>9 DEF Next

-----------------------------------------------------------------------------
(* The theorems. *)

\* Every value that duel.c computes and saves is in range: no timer leaves
\* 0 .. its timeout, whatever happens in whatever order.
THEOREM DuelTypeOK == ASSUME Secluded PROVE Spec => []TypeOK
  <1>1. IInv => TypeOK
    BY DEF IInv
  <1>2. QED BY <1>1, Invariance, PTL

\* The tests of do_duel suffice: nobody is in two duels, in and watching one, or
\* watching two, so that find_duel and find_watching_duel are functions.
THEOREM DuelOneRole == ASSUME Secluded PROVE Spec => []OneRole
  <1>1. IInv => OneRole
    BY DEF IInv
  <1>2. QED BY <1>1, Invariance, PTL

\* find_duel_room never gives one arena to two duels.
THEOREM DuelArenas == ASSUME Secluded PROVE Spec => []ArenasExclusive
  <1>1. IInv => ArenasExclusive
    BY DEF IInv
  <1>2. QED BY <1>1, Invariance, PTL

\* Those who fight a duel are in its arena, an arena holds nobody else, start_duel
\* finds both players in the sparring room, where duel_update left them when they
\* agreed to fight, and no duel keeps a pointer to a character who left the game.
THEOREM DuelInTheirPlaces == ASSUME Secluded PROVE Spec => []InTheirPlaces
  <1>1. IInv => InTheirPlaces
    BY DEF IInv, InTheirPlaces
  <1>2. QED BY <1>1, Invariance, PTL

\* duel_update acts on every timer in the second in which it runs out.
THEOREM DuelTimers == ASSUME Secluded PROVE Spec => []TimersKept
  <1>1. IInv => TimersKept
    BY DEF IInv
  <1>2. QED BY <1>1, Invariance, PTL

\* save_char_obj never writes what a duel made of a player, so that no crash
\* makes it last.
THEOREM DuelFiles == ASSUME Secluded PROVE Spec => []FilesFromOutside
  <1>1. IInv => FilesFromOutside
    BY DEF IInv
  <1>2. QED BY <1>1, Invariance, PTL

\* The clock that close_socket starts in a duel runs only while the player has
\* no link.
THEOREM DuelLinkClocks == ASSUME Secluded PROVE Spec => []LinkClockStops
  <1>1. Init => LinkClockStops
    BY DEF Init, LinkClockStops
  <1>2. IInv /\ LinkClockStops /\ [Next]_vars => LinkClockStops'
    BY NextClocks
  <1>3. QED BY <1>1, <1>2, Invariance, PTL DEF Spec

\* Whatever ends a duel, and whatever happens in it, its players leave it with
\* the body they entered it with.
THEOREM DuelLeavesNoTrace == ASSUME Secluded PROVE Spec => SparLeavesNoTrace
  <1>1. IInv /\ IInv' /\ [Next]_vars => NoTrace
    BY NextTrace
  <1>2. NoTrace => [\A ch \in Players : (Fighting(ch) \/ Fighting(ch)') /\ ch \in Present'
                                            => Outer(ch)' = Outer(ch)]_vars
    BY DEF NoTrace
  <1>3. QED BY <1>1, <1>2, Invariance, PTL DEF Spec, SparLeavesNoTrace
==============================================================================
