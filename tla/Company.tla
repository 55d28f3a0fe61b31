------------------------------ MODULE Company ------------------------------
(***************************************************************************)
(* What people are to each other: who fights whom (fight.c), follows        *)
(* whom (act_comm.c), rides whom (mount.c) and hunts whom (hunt.c),         *)
(* and what becomes of it when somebody walks off, dies or leaves the game  *)
(* (act_move.c, handler.c).  All of it is bare pointers between CHAR_DATA,  *)
(* and one blow may run through many of them: the victim flees, his         *)
(* followers come along, his mount is dragged after him and his attacker    *)
(* hunts him.  So the state is one record, and what the functions do to it  *)
(* is composed as they are.                                                 *)
(***************************************************************************)
EXTENDS People, Integers, FiniteSets, SequencesExt

CONSTANTS
    Tame,           \* mobs that may be charmed (not ACT_AGGRESSIVE)
    Mounts,         \* mobs that may be ridden (ACT_MOUNT)
    Wild,           \* mobs that flee, assist and hunt those who fled
    NoCharm,        \* rooms into which no mount follows (ROOM_NO_CHARM)
    Orders          \* how many mobs a player can control (max_orders)

ASSUME CompanyAssumption ==
    /\ Tame \subseteq Mob /\ Mounts \subseteq Mob /\ Wild \subseteq Mob
    /\ NoCharm \subseteq Room /\ Orders \in Nat /\ IsFiniteSet(Person)

VARIABLE w      \* the world, see World

Present(x) == {c \in Person : x.at[c] # Nil}
Together(x, c, d) == x.at[c] # Nil /\ x.at[c] = x.at[d]
IsAwake(x, c) == x.pos[c] \notin {"stunned", "down"}
Followers(x, c) == {f \in Person : x.master[f] = c}

-----------------------------------------------------------------------------
(* fight.c: starting and stopping. *)

\* What update_pos makes of c standing up: his hit points may not let him.
Stand(x, c) == IF x.health[c] = "well" THEN "standing" ELSE x.health[c]

\* update_pos
UpdatePos(x, c) == IF x.pos[c] \in {"stunned", "down"} \/ x.health[c] # "well" THEN Stand(x, c) ELSE x.pos[c]

SetFighting(x, c, v) ==
    IF x.fighting[c] # Nil THEN x
    ELSE [x EXCEPT !.fighting[c] = v, !.pos[c] = "fighting"]

\* Those whose fight ends with that of c.
Enemies(x, c) == {f \in Person : x.fighting[f] = c}

\* stop_fighting
StopFighting(x, c, both) ==
    LET S == {c} \cup (IF both THEN Enemies(x, c) ELSE {}) IN
    [x EXCEPT !.fighting = [f \in Person |-> IF f \in S THEN Nil ELSE @[f]],
              !.pos = [f \in Person |-> IF f \in S THEN Stand(x, f) ELSE @[f]]]

-----------------------------------------------------------------------------
(* act_comm.c, hunt.c, mount.c *)

\* max_orders
MayLead(x, p) == x.orders[p] < Orders

StopFollower(x, f) ==
    LET c == x.master[f] IN
    [x EXCEPT !.master = [d \in Person |-> IF d = f THEN Nil ELSE @[d]], !.charmed = @ \ {f},
              !.orders = [p \in Player |-> IF p = c /\ f \in Mob THEN @[p] - 1 ELSE @[p]]]

\* Mutant: the pointers are cleared, as free_char does it, and not the count.
DieFollowerBare(x, c) ==
    [x EXCEPT !.master = [f \in Person |-> IF c \in {f, @[f]} THEN Nil ELSE @[f]]]

\* Those who follow c do so no more.
Disband(x, c) ==
    LET F == Followers(x, c) IN
    [x EXCEPT !.master = [f \in Person |-> IF f \in F THEN Nil ELSE @[f]],
              !.charmed = @ \ F,
              !.orders = [p \in Player |-> IF p = c THEN @[p] - Cardinality(F \cap Mob) ELSE @[p]]]

Unfollowed(x, c) == IF x.master[c] = Nil THEN x ELSE StopFollower(x, c)

\* die_follower
DieFollower(x, c) == Disband(Unfollowed(x, c), c)

EndHunts(x, c) == [x EXCEPT !.hunting = [f \in Person |-> IF @[f] = c THEN Nil ELSE @[f]]]

\* do_dismount
Dismounted(x, c) ==
    [x EXCEPT !.riding[c] = Nil, !.rider[x.riding[c]] = Nil,
              !.pos[c] = IF @ = "fighting" THEN @ ELSE "standing"]

-----------------------------------------------------------------------------
(* handler.c *)

\* Whoever leaves a room does not fight on.
Disengaged(x, c) == IF x.fighting[c] # Nil THEN StopFighting(x, c, TRUE) ELSE x

SetAt(x, c, r) == [x EXCEPT !.at[c] = r]

\* char_from_room and char_to_room of one of them.
Placed(x, c, r) == SetAt(Disengaged(x, c), c, r)

\* The mount follows wherever its rider goes.
Mounted(x, c, r) == c \in Player /\ x.riding[c] # Nil /\ x.at[x.riding[c]] # Nil /\ r \notin NoCharm

Followed(x, c, r) == IF Mounted(x, c, r) THEN Placed(x, x.riding[c], r) ELSE x

Shift(x, c, r) == Followed(Placed(x, c, r), c, r)

\* Mutant: his mount is left as it is.
ForgottenMount(x, c) == EndHunts(x, c)

\* Whoever rides c falls off.
Thrown(x, c) ==
    IF \E p \in Player : x.riding[p] = c THEN Dismounted(x, CHOOSE p \in Player : x.riding[p] = c) ELSE x

\* Nobody rides c and c rides nobody.
Unhorsed(x, c) ==
    [x EXCEPT !.rider = [m \in Mob |-> IF @[m] = c THEN Nil ELSE @[m]],
              !.riding = [p \in Player |-> IF @[p] = c \/ p = c THEN Nil ELSE @[p]]]

\* What extract_char clears in others, beside their fights and what die_follower does.
Forgotten(x, c) == Unhorsed(EndHunts(Thrown(x, c), c), c)

\* free_char: whoever is next in this memory starts with nothing.
Fresh(x, c) ==
    [x EXCEPT !.at[c] = Nil, !.pos[c] = "standing", !.health[c] = "well",
              !.hunting[c] = Nil, !.charmed = @ \ {c},
              !.rider = [m \in Mob |-> IF m = c THEN Nil ELSE @[m]],
              !.orders = [p \in Player |-> IF p = c THEN 0 ELSE @[p]]]

\* extract_char(TRUE)
Extract(x, c) == Fresh(Forgotten(SetAt(StopFighting(DieFollower(x, c), c, TRUE), c, Nil), c), c)

Revived(x, c) == [x EXCEPT !.pos[c] = "resting", !.health[c] = "well"]

\* raw_kill; the dead player is in the room of the dead, with all he has but his fights.
RawKill(x, c) ==
    LET y == EndHunts(StopFighting(x, c, TRUE), c) IN
    IF c \in Mob THEN Extract(y, c) ELSE Revived(Shift(y, c, Moribund), c)

-----------------------------------------------------------------------------
(* move_char *)

CanGo(x, c, r) == c \in x.charmed => /\ ~Together(x, c, x.master[c])
                                     /\ r \notin NoCharm

\* d comes along with c, whom it follows.
Follows(x, d, c, r) ==
    /\ x.master[d] = c /\ Together(x, d, c)
    /\ x.pos[d] = "standing" /\ (d \in x.charmed => r \notin NoCharm)

\* Everybody who comes along with c, and those who come along with them.
Party(x, c, r) ==
    {f \in Person : \A S \in SUBSET Person :
        c \in S /\ (\A m \in S, d \in Person : Follows(x, d, m, r) => d \in S) => f \in S}

\* They come one after the other.
ShiftAll(x, C, r) ==
    LET q == SetToSeq(C)
        came[i \in 0 .. Cardinality(C)] == IF i = 0 THEN x ELSE Shift(came[i - 1], q[i], r)
    IN came[Cardinality(C)]

MoveChar(x, c, r) == IF CanGo(x, c, r) THEN ShiftAll(Shift(x, c, r), Party(x, c, r) \ {c}, r) ELSE x

-----------------------------------------------------------------------------
(* fight.c: blows.  Each operator is the set of the worlds it may lead to. *)

\* do_flee: his enemy may come after him.
Flee(x, c) ==
    LET v == x.fighting[c] IN
    IF v = Nil THEN {[x EXCEPT !.pos[c] = IF @ = "fighting" THEN "standing" ELSE @]}
    ELSE UNION {LET y == MoveChar(x, c, r)
                    z == StopFighting(y, c, TRUE) IN
                IF y.at[c] = x.at[c] THEN {x}
                ELSE {z} \cup IF v \in Wild THEN {[z EXCEPT !.hunting[v] = c]} ELSE {}
                : r \in Room \ {x.at[c]}}

\* The part of damage in which c and v take notice of each other.
Met(x, c, v) ==
    IF c = v \/ ~IsAwake(x, v) THEN x
    ELSE SetFighting([SetFighting(x, v, c) EXCEPT !.pos[v] = "fighting"], c, v)

\* Whoever is not awake any more does not fight; those who fight him do.
Hurt(x, v, h) == StopFighting([x EXCEPT !.health[v] = h], v, FALSE)

\* Those who flee if a blow makes them wimp out: players, wild mobs, and the charmed whose
\* master is elsewhere.
Flighty(y, v) == v \in Player \cup Wild \/ (v \in y.charmed /\ ~Together(y, v, y.master[v]))

\* What v may come to by a blow: hardly anything, his knees, his end, flight, home; or
\* it is the mob that strikes who burns in the flames around him.
Blow(x, c, v) ==
    IF ~Together(x, c, v) THEN {x} ELSE     \* is_safe
    LET m == Met(x, c, v)
        y == IF c # v /\ m.master[v] = c THEN StopFollower(m, v) ELSE m IN
    {y, RawKill(y, v)}
    \cup (IF v \in Player THEN {Hurt(y, v, h) : h \in {"stunned", "down"}} ELSE {})
    \cup (IF c \in Mob /\ c # v THEN {RawKill(y, c)} ELSE {})
    \cup (IF c # v /\ Flighty(y, v) /\ y.pos[v] = "fighting" THEN Flee(y, v) ELSE {})
    \cup (IF c \in Mob /\ v \in Player THEN {Shift(StopFighting(y, v, TRUE), v, Temple)} ELSE {})

\* multi_hit: the second blow only falls if the first left the two fighting.
Blows(x, c, v) ==
    LET B == Blow(x, c, v) IN B \cup UNION {Blow(y, c, v) : y \in {z \in B : z.fighting[c] = v}}

\* A mob that meets a charmed one may turn on its master, who is there.
Beholden(x, c, v) ==
    /\ c # v /\ {c, v} \subseteq Mob /\ v \in x.charmed /\ IsAwake(x, v)
    /\ Together(x, c, x.master[v])

MultiHit(x, c, v) ==
    Blows(x, c, v) \cup
    IF Beholden(x, c, v) THEN Blows(StopFighting(Met(x, c, v), c, FALSE), c, x.master[v]) ELSE {}

\* NPCs who see one of theirs fight may join in, on any player.
Assist(x, c) ==
    LET v == x.fighting[c] IN
    IF v \notin Mob THEN {x}
    ELSE {x} \cup UNION {UNION {MultiHit(x, r, p) : p \in {q \in Player : Together(x, r, q)}} :
                         r \in {n \in Wild \ x.charmed : /\ Together(x, n, c) /\ IsAwake(x, n)
                                                         /\ x.fighting[n] = Nil}}

\* hunt.c: mob_hunt
MobHunt(x, c) ==
    LET v == x.hunting[c] IN
    IF v = Nil THEN {x}
    ELSE IF Together(x, c, v)
         THEN {[y EXCEPT !.hunting[c] = Nil] : y \in MultiHit(x, c, v)}
         ELSE {x, MoveChar(x, c, x.at[v])}

\* Whom c gores next, in y, of those who are left.
Gorable(y, c, S) == {m \in S : Together(y, c, m) /\ y.master[m] # c}

\* do_frenzy: he gores one mob after the other, until one of them leaves the list he walks.
\* What one blow makes of the pairs of S, each a world and who is left.
Goring(S, c) ==
    UNION {UNION {{<<z, IF Together(z, c, m) THEN s[2] \ {m} ELSE {}>> : z \in Blow(s[1], c, m)}
                  : m \in Gorable(s[1], c, s[2])} : s \in S}

Gored(x, c) ==
    LET after[n \in 0 .. Cardinality(Mob)] == IF n = 0 THEN {<<x, Mob>>} ELSE Goring(after[n - 1], c)
    IN after

Frenzied(x, c) == UNION {{s[1] : s \in Gored(x, c)[n]} : n \in 0 .. Cardinality(Mob)}

\* do_cast, of a spell that hurts (or is reflected, which is as Suffer): a victim who does
\* not fight is hit at once.
Spell(x, c, v) ==
    UNION {IF /\ c # v /\ y.at[c] # Nil /\ Together(y, c, v)
              /\ y.fighting[v] = Nil /\ y.master[v] # c
           THEN MultiHit(y, c, v) ELSE {y} : y \in Blow(x, c, v) \cup {x}}

\* When violence_update ends a fight instead of going on with it.
Parted(x, c) == ~IsAwake(x, c) \/ ~Together(x, c, x.fighting[c])

\* The players among whom an ACT_RAND_TARGET mob may choose, if there are several.
Foes(x, c) == {q \in Player : Together(x, c, q) /\ x.fighting[q] = c}

Retargeted(x, c) ==
    {x} \cup IF c \in Mob /\ x.fighting[c] \in Player /\ Cardinality(Foes(x, c)) > 1
            THEN {[x EXCEPT !.fighting[c] = q] : q \in Foes(x, c)} ELSE {}

\* A mob may cast one of its spells at whom it fights, before it strikes.
Enchanting(x, c) ==
    {x} \cup IF c \in Mob /\ x.fighting[c] # Nil /\ x.pos[c] = "fighting" THEN Spell(x, c, x.fighting[c]) ELSE {}

\* What c does then: he ends his fight, goes on with it, or hunts.
Struggle(x, c) ==
    IF x.fighting[c] = Nil THEN IF c \in Mob /\ IsAwake(x, c) THEN MobHunt(x, c) ELSE {x}
    ELSE IF Parted(x, c) THEN {StopFighting(x, c, FALSE)}
    ELSE UNION {IF y.at[c] = Nil THEN {y} ELSE Assist(y, c) : y \in MultiHit(x, c, x.fighting[c])}

\* The turn of c in violence_update.  Whom he fights is nothing to the armour he may burn in,
\* which ends his turn if it brings him down, nor to the beam that takes a mob with no hit
\* points left.
Turn(x, c) ==
    IF x.pos[c] = "stunned" THEN {[x EXCEPT !.pos[c] = "standing"]}
    ELSE Blow(x, c, c) \cup (IF c \in Mob THEN {Extract(x, c)} ELSE {})
         \cup UNION {UNION {Struggle(z, c) : z \in Enchanting(y, c)} : y \in Retargeted(x, c)}

-----------------------------------------------------------------------------
(* Commands.  Mobs are given theirs by orders and programs. *)

Ready(c) == c \in Present(w) /\ w.pos[c] = "standing"

Round(c) == c \in Present(w) /\ w' \in Turn(w, c)

\* What players can do in a fight (mobs cannot be ordered to); the victim is named, or it is
\* whom c fights.
Able(c) == c \in Player \cap Present(w) /\ w.pos[c] \in {"standing", "fighting"}
Aimed(c, v) == Able(c) /\ Together(w, c, v)

\* Who is charmed does not raise his hand against his master.
Loyal(c, v) == c \in w.charmed => w.master[c] # v

\* The ways to begin a fight.  (They lead to the same worlds, so their guards are gathered in
\* a set, for TLC to look at these worlds once.)
do_kill(c, v) == Ready(c) /\ Together(w, c, v) /\ Loyal(c, v)
do_murder(c, v) == Aimed(c, v) /\ c # v /\ w.pos[c] # "fighting"

aggr_update(c, v) ==
    /\ c \in Wild \ w.charmed /\ v \in Player /\ Together(w, c, v) /\ IsAwake(w, c)
    /\ {w.fighting[c], w.hunting[c]} = {Nil}

Attack(c, v) ==
    /\ TRUE \in {do_kill(c, v), do_murder(c, v), aggr_update(c, v)}
    /\ w' \in MultiHit(w, c, v)

\* The skills that come to one blow: against whom c may use them.
do_backstab(c, v) == Ready(c) /\ Together(w, c, v) /\ c # v /\ w.fighting[v] = Nil
do_punch(c, v) == Aimed(c, v)
do_knee(c, v) == Aimed(c, v)
do_kick(c, v) == Aimed(c, v) /\ c # v
do_headbutt(c, v) == Aimed(c, v) /\ c # v
do_charge(c, v) == Aimed(c, v) /\ c # v
do_bash(c, v) == Aimed(c, v) /\ c # v /\ w.fighting[v] # Nil
do_grab(c, v) == Aimed(c, v) /\ w.fighting[c] = v

\* special.c: a mob casts a spell at somebody who fights it.
spec_cast(c, v) == c \in Mob /\ w.pos[c] = "fighting" /\ w.fighting[v] = c /\ Together(w, c, v)

Strike(c, v) ==
    /\ TRUE \in {do_backstab(c, v), do_punch(c, v), do_knee(c, v),
                 do_kick(c, v), do_headbutt(c, v), do_charge(c, v), do_bash(c, v), do_grab(c, v),
                 spec_cast(c, v)}
    /\ w' \in Blow(w, c, v)

\* do_target: he turns to another.
Target(c, v) ==
    /\ Aimed(c, v) /\ w.pos[c] = "fighting" /\ c # v
    /\ w' \in Blow(StopFighting(w, c, FALSE), c, v)

\* do_circle, on one who does not fight yet.
Circle(c, v) ==
    /\ Aimed(c, v) /\ c # v /\ w.fighting[v] = Nil
    /\ w' \in Blow(SetFighting(w, c, v), c, v)

\* What hurts c himself: poison and bleeding (char_update), or a trick that fails.
Suffer(c) == c \in Present(w) /\ w' \in Blow(w, c, c)

\* do_stun that misses; one that succeeds makes somebody sit out his turns, which are never
\* owed here.
do_stun(c) == (\E v \in Person : do_grab(c, v)) /\ w' \in Blow(w, c, c)

\* do_bash, of a weak victim: he does not get up.
Bash(c, v) ==
    /\ do_bash(c, v)
    /\ LET x == [StopFighting(w, v, TRUE) EXCEPT !.pos[v] = "resting"] IN
       w' = [x EXCEPT !.pos[v] = UpdatePos(x, v)]

Frenzy(c) == Able(c) /\ w' \in Frenzied(w, c)

Cast(c, v) == Aimed(c, v) /\ w' \in Spell(w, c, v)

\* move_char, by command or by mobile_update.
Walk(c, r) == Ready(c) /\ r # w.at[c] /\ w' = MoveChar(w, c, r)

Escape(c) == c \in Present(w) /\ w.pos[c] = "fighting" /\ w' \in Flee(w, c)

\* Whom c may rescue.
InNeed(c, v) ==
    /\ c \in Present(w) /\ w.pos[c] \in {"standing", "fighting"} /\ c # v
    /\ (c \in Player => v \in Player) /\ w.fighting[c] # v /\ w.fighting[v] # Nil
    /\ ({c, v} \subseteq Player => w.fighting[v] # c)

Rescued(c, v) ==
    LET f == w.fighting[v]
        x == StopFighting(StopFighting(w, f, FALSE), v, FALSE) IN
    SetFighting(SetFighting(x, c, f), f, c)

\* Mutant: he need not be here.
RescueFar(c, v) == InNeed(c, v) /\ w' = Rescued(c, v)

\* do_rescue
Rescue(c, v) == InNeed(c, v) /\ Together(w, c, v) /\ w' = Rescued(c, v)

\* do_assist: he joins in the fight of one of his group (anybody might be), where it is or not.
Join(c, u) ==
    /\ Ready(c) /\ c # u /\ Together(w, c, u) /\ w.fighting[u] # Nil
    /\ w' = SetFighting(w, c, w.fighting[u])

\* do_mount: that one rides already is not noticed, as nobody is ever POS_RIDING.
Mount(c, m) ==
    /\ c \in Player /\ m \in Mounts /\ Ready(c) /\ Together(w, c, m)
    /\ (m \in w.charmed => w.master[m] = c) /\ w.rider[m] \in {Nil, c}
    /\ w' = [w EXCEPT !.riding[c] = m, !.rider[m] = c, !.pos[c] = "standing"]

Dismount(c) == c \in Player /\ Ready(c) /\ w.riding[c] # Nil /\ w' = Dismounted(w, c)

\* do_follow, of mobs by the programs of wild ones; a mob that is one too many does not
\* survive it.
Follow(c, v) ==
    /\ c \in Present(w) \cap (Player \cup Wild) /\ w.pos[c] \in {"resting", "fighting", "standing"}
    /\ Together(w, c, v) /\ c \notin w.charmed
    /\ IF c = v THEN w.master[c] # Nil /\ w' = StopFollower(w, c)
       ELSE LET y == Unfollowed(w, c) IN
            w' = IF c \in Mob /\ v \in Player /\ ~MayLead(y, v) THEN Extract(y, c)
                 ELSE [y EXCEPT !.master[c] = v,
                                !.orders = [p \in Player |-> IF p = v /\ c \in Mob THEN @[p] + 1 ELSE @[p]]]

\* spell_charm_person
Charm(c, m) ==
    /\ Ready(c) /\ c \in Player /\ m \in Tame \ w.charmed /\ Together(w, c, m) /\ MayLead(w, c)
    /\ LET x == Unfollowed(w, m) IN
       w' = [x EXCEPT !.charmed = @ \cup {m}, !.master[m] = c, !.orders[c] = @ + 1]

\* char_update: charm wears off, the mob rebels or it melts away.
WearOff(m) == m \in w.charmed /\ w' = StopFollower(w, m)

Rebel(m) ==
    /\ m \in w.charmed /\ Together(w, m, w.master[m])
    /\ w' \in MultiHit(StopFollower(w, m), m, w.master[m])

Rest(c) == c \in Player /\ Ready(c) /\ w' = [w EXCEPT !.pos[c] = "resting"]

Wake(c) == c \in Present(w) /\ w.pos[c] = "resting" /\ w' = [w EXCEPT !.pos[c] = "standing"]

\* Hit points come back with the minutes (gain_update) or by a spell, and then update_pos.
Heal(c) ==
    /\ c \in Present(w) /\ w.health[c] # "well"
    /\ LET x == [w EXCEPT !.health[c] = "well"] IN w' = [x EXCEPT !.pos[c] = UpdatePos(x, c)]

\* do_recall
Recall(c) ==
    /\ c \in Player /\ c \in Present(w) /\ w.pos[c] \in {"fighting", "standing"} /\ w.at[c] # Temple
    /\ w' = Shift(IF w.fighting[c] # Nil THEN StopFighting(w, c, TRUE) ELSE w, c, Temple)

\* do_quit, or a purge.
Quit(c) == c \in Present(w) /\ (c \in Player => w.pos[c] \notin {"fighting", "down"}) /\ w' = Extract(w, c)

Arrive(c) == c \in Person \ Present(w) /\ w' = [w EXCEPT !.at[c] = Temple]

-----------------------------------------------------------------------------
Nobody(S) == [c \in S |-> Nil]

CompanyInit == w = [at |-> Nobody(Person), pos |-> [c \in Person |-> "standing"], health |-> [c \in Person |-> "well"],
             fighting |-> Nobody(Person), master |-> Nobody(Person),
             charmed |-> {}, orders |-> [p \in Player |-> 0],
             riding |-> Nobody(Player), rider |-> Nobody(Mob), hunting |-> Nobody(Person)]

Act(c) ==
    \/ Round(c) \/ Escape(c) \/ Rest(c) \/ Wake(c) \/ Heal(c) \/ Recall(c) \/ Quit(c) \/ Arrive(c)
    \/ Dismount(c) \/ WearOff(c) \/ Rebel(c) \/ Suffer(c) \/ do_stun(c) \/ Frenzy(c)
    \/ \E r \in Room : Walk(c, r)
    \/ \E v \in Person : Attack(c, v) \/ Rescue(c, v) \/ Join(c, v) \/ Mount(c, v) \/ Follow(c, v) \/ Charm(c, v)
                         \/ Strike(c, v) \/ Target(c, v) \/ Circle(c, v) \/ Bash(c, v) \/ Cast(c, v)

CompanyNext == \E c \in Person : Act(c)

CompanySpec == CompanyInit /\ [][CompanyNext]_w

-----------------------------------------------------------------------------
Position == {"standing", "fighting", "resting", "stunned", "down"}

World == [at : [Person -> Room \cup {Nil}],
          pos : [Person -> Position],
          health : [Person -> {"well", "stunned", "down"}],
          fighting : [Person -> Person \cup {Nil}], master : [Person -> Person \cup {Nil}],
          charmed : SUBSET Mob, orders : [Player -> Int],
          riding : [Player -> Mob \cup {Nil}], rider : [Mob -> Player \cup {Nil}],
          hunting : [Person -> Person \cup {Nil}]]

\* Nobody points to one who is out of the game, nor from there.
Solid(x) ==
    /\ \A c \in Person :
          /\ x.fighting[c] # Nil => {c, x.fighting[c]} \subseteq Present(x)
          /\ x.master[c] # Nil => {c, x.master[c]} \subseteq Present(x)
          /\ x.hunting[c] # Nil => {c, x.hunting[c]} \subseteq Present(x)
    /\ \A p \in Player : x.riding[p] # Nil => x.riding[p] \in Present(x)
    /\ \A m \in Mob : x.rider[m] # Nil => x.rider[m] \in Present(x)

\* The number is that of the mobs that follow a player, who can control no more; those
\* who are charmed follow somebody.
Counted(x) ==
    /\ \A p \in Player : /\ x.orders[p] = Cardinality(Followers(x, p) \cap Mob)
                         /\ x.orders[p] <= Orders
    /\ \A m \in x.charmed : x.master[m] \in Player

\* Nobody points to one who is out of the game, or is pointed from there: extract_char,
\* and what it calls, finds every pointer to him, whatever chain of blows, flights and
\* followers ended in it (handler.c:1713-1862, fight.c:2148-2181, act_comm.c:1860-1879).
NobodyDangles == w \in World /\ Solid(w)

\* num_followers is the number of mobs that follow a player, and never more than he can
\* control; and who is charmed follows somebody (act_comm.c:1790-1858).
FollowersCounted == Counted(w)

\* The mobs that somebody rides.
Ridden(x) == {m \in Mob : \E p \in Player : x.riding[p] = m}

\* A fight begins between two who are in one room, even if it begins with a hunt or with
\* a blow that was meant for another (fight.c:985, 992).  There are three exceptions: whoever
\* rescues somebody whose enemy has gone (fight.c:3586, 3653); whoever assists one whose enemy
\* has gone (fight.c:5089, 5117, 5130, 5143); and a mob that leaves in the same step the fight
\* somebody has just begun with it, dragged after its rider (fight.c:992-998,
\* handler.c:976-979) or on the track of a player who fled from its spell (fight.c:458-463).
FightsBeginTogether ==
    [][\A c \in Person : LET v == w'.fighting[c] IN
          \/ v \in {w.fighting[c], Nil}
          \/ Together(w', c, v)
          \/ v \in Mob /\ (v \in Ridden(w) \/ w'.at[v] # w.at[v])
          \/ \E d, u \in Person : (Rescue(d, u) \/ Join(d, u)) /\ ~Together(w, u, w.fighting[u])]_w

=============================================================================
