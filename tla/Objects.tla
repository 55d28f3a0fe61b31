------------------------------ MODULE Objects ------------------------------
(***************************************************************************)
(* Where objects are, who wears them, and the counts that are kept beside   *)
(* that instead of being computed: carry_number and carry_weight of a       *)
(* person, light of a room (handler.c); the commands that move objects      *)
(* (act_obj.c), corpses (fight.c), decay (update.c) and resets (db.c).      *)
(*                                                                         *)
(* The pointers carried_by, in_room, in_obj and the lists that mirror them  *)
(* are one function: the holder of an object.  The world is one record, and *)
(* the helpers of handler.c are operators from a world to a world, applied  *)
(* one after the other as the commands call them.  A command is one step.   *)
(*                                                                         *)
(* Left out: names and visibility (any object may be meant), levels,        *)
(* affects, room affects, and the object of a quest (module Quest).         *)
(***************************************************************************)
EXTENDS Integers, FiniteSets, FiniteSetsExt, Functions

CONSTANTS
    Player, Mob,
    Room,
    Thing,          \* objects of the world files
    Purse,          \* coins: the objects that create_money may return
    Corpse,         \* the objects that make_corpse may return
    Bag,            \* containers, spell matrices
    Lamp,           \* ITEM_LIGHT that burn; the rest is worn elsewhere
    Stock,          \* ITEM_INVENTORY: what a shop never runs out of
    Unique,         \* ITEM_UNIQUE: stays with a player who dies
    Anti,           \* ITEM_ANTI_GOOD, _EVIL, _NEUTRAL
    NoRemove,       \* ITEM_NOREMOVE
    Trash,          \* ITEM_TRASH
    SlotOf,         \* where a thing is worn, Nil if nowhere
    Weight,         \* OBJ_DATA.weight
    Capacity,       \* value[0] of a bag
    MaxNumber, MaxWeight, MaxGold,      \* can_carry_n, can_carry_w, 100,000,000
    PerWeight,      \* coins to a unit of weight (100,000)
    Price,          \* what a shop asks and gives
    Fee,            \* what the gods give for a sacrifice
    Moribund, Morgue, Donation,         \* rooms with a purpose
    Tenth,          \* a thief takes at most one coin in so many
    MaxLight,       \* bound: of light, for links that come back
    MaxWealth,      \* bound: of the gold there is
    Nil

Person == Player \cup Mob
Obj == Thing \cup Purse \cup Corpse
Place == Person \cup Room \cup Obj
Slot == {SlotOf[o] : o \in Thing} \ {Nil}

ASSUME ObjectsAssumption ==
    /\ Player \cap Mob = {} /\ Person \cap (Room \cup Obj) = {} /\ Room \cap Obj = {} /\ Nil \notin Place
    /\ Thing \cap (Purse \cup Corpse) = {} /\ Purse \cap Corpse = {} /\ IsFiniteSet(Obj) /\ IsFiniteSet(Person)
    /\ Bag \cup Lamp \cup Stock \cup Unique \cup Anti \cup NoRemove \cup Trash \subseteq Thing
    /\ \A o, q \in Lamp : SlotOf[o] = SlotOf[q] /\ SlotOf[o] # Nil     \* WEAR_LIGHT
    /\ Weight \in [Thing \cup Corpse -> Nat] /\ Capacity \in [Bag -> Nat]
    /\ {MaxNumber, MaxWeight, MaxGold, Price, Fee, MaxLight, MaxWealth} \subseteq Nat /\ {PerWeight, Tenth} \subseteq Nat \ {0}
    /\ {Moribund, Morgue, Donation} \subseteq Room

VARIABLES
    world,          \* the objects (tombs: the corpses of players), and what is counted of them
    at,             \* in_room of the people, Nil when they are not in the game
    gold,
    keeper          \* the mobs that keep a shop in this world

vars == <<world, at, gold, keeper>>

Total(S, f) == MapThenSumSet(LAMBDA x : f[x], S)

\* All the gold there is.
Wealth == Total(Person, gold) + Total(Purse, world.coins)

Add(f, x, n) == IF x \in DOMAIN f THEN [f EXCEPT ![x] = @ + n] ELSE f

Holder(w, x) == IF x \in Obj THEN w.holder[x] ELSE Nil

\* What an object is in, by a chain of any length.
Above(w, o) ==
    LET up[n \in 0 .. Cardinality(Obj)] == IF n = 0 THEN w.holder[o] ELSE Holder(w, up[n - 1])
    IN  {up[n] : n \in 0 .. Cardinality(Obj)} \ {Nil}

Held(w, x) == {o \in Obj : w.holder[o] = x}

\* What is in o, by a chain of any length.
Inside(w, o) == {x \in Obj : w.holder[x] \in Obj /\ o \in Above(w, x)}

\* What each weighs by itself.
Burden(w) == [x \in Obj |-> IF x \in Purse THEN w.coins[x] \div PerWeight ELSE Weight[x]]

\* get_obj_weight
Heft(w, o) == Total({o} \cup Inside(w, o), Burden(w))

Exists(w, o) == w.holder[o] # Nil
Fresh(w, S) == {o \in S : ~Exists(w, o)}

\* get_eq_char
Worn(w, c, s) == {o \in Held(w, c) : w.slot[o] = s}

Burning(w, c) == {x \in Lamp : \E o \in Lamp : x \in Worn(w, c, SlotOf[o])}

-----------------------------------------------------------------------------
(* handler.c *)

\* unequip_char
Unequip(w, o) ==
    LET c == w.holder[o]  IN
    IF o \in Lamp /\ w.slot[o] # Nil /\ at[c] # Nil
    THEN [w EXCEPT !.slot[o] = Nil, !.light[at[c]] = Max({0, @ - 1})]
    ELSE [w EXCEPT !.slot[o] = Nil]

\* obj_from_char
FromChar(w, o) ==
    LET c == w.holder[o]
        u == Unequip(w, o)
    IN  [u EXCEPT !.holder[o] = Nil, !.number[c] = @ - 1, !.load[c] = @ - Heft(u, o)]

\* obj_to_char
ToChar(w, o, c) ==
    [w EXCEPT !.holder[o] = c, !.number[c] = @ + 1, !.load[c] = @ + Heft(w, o)]

\* obj_from_room, obj_to_room
FromRoom(w, o) == [w EXCEPT !.holder[o] = Nil]
ToRoom(w, o, r) == [w EXCEPT !.holder[o] = r]

\* The person who has x in what he carries, if any.
Carrier(w, x) == Person \cap Above(w, x)

\* Mutant: only who holds the bag itself is told, nobody further up.
ToObjDirect(w, o, k) ==
    [w EXCEPT !.holder[o] = k,
              !.load = [c \in Person |-> @[c] + IF c = w.holder[k] /\ w.slot[k] = Nil THEN Heft(w, o) ELSE 0]]

\* obj_to_obj
ToObj(w, o, k) ==
    [w EXCEPT !.holder[o] = k,
              !.load = [c \in Person |-> @[c] + IF c \in Carrier(w, k) THEN Heft(w, o) ELSE 0]]

\* obj_from_obj
FromObj(w, o) ==
    LET k == w.holder[o]  IN
    [w EXCEPT !.holder[o] = Nil,
              !.load = [c \in Person |-> @[c] - IF c \in Carrier(w, k) THEN Heft(w, o) ELSE 0]]

\* Out of whatever it is in.
Out(w, o) ==
    CASE w.holder[o] \in Person -> FromChar(w, o)
      [] w.holder[o] \in Room   -> FromRoom(w, o)
      [] w.holder[o] \in Obj    -> FromObj(w, o)
      [] OTHER                  -> w

\* extract_obj: and all that is inside.
Extract(w, o) ==
    LET G == {o} \cup Inside(w, o)
        u == Out(w, o)
    IN  [u EXCEPT !.holder = [x \in Obj |-> IF x \in G THEN Nil ELSE @[x]],
                  !.coins  = [x \in Purse |-> IF x \in G THEN 0 ELSE @[x]],
                  !.tombs  = @ \ G]

\* A loop over a list that takes each of S out, or to where To puts it.
ExtractAll(w, S) == FoldSet(LAMBDA o, u : Extract(u, o), w, S)
ToCorpse(w, S, k) == FoldSet(LAMBDA o, u : ToObj(FromChar(u, o), o, k), w, S)

\* equip_char: o goes on, unless its nature is against c's, when it falls.
Equip(w, c, o, zap) ==
    IF zap THEN ToRoom(FromChar(w, o), o, at[c])
    ELSE [w EXCEPT !.slot[o] = SlotOf[o],
                   !.light = IF o \in Lamp /\ at[c] # Nil THEN Add(@, at[c], 1) ELSE @]

People(r) == {c \in Person : at[c] = r}

\* char_from_room: whoever stays in a room that was dark is given a light.
Left(w, c) ==
    LET r == at[c]
        n == IF Burning(w, c) # {} THEN Max({0, w.light[r] - 1}) ELSE w.light[r]
    IN  [w EXCEPT !.light[r] = IF n = 0 /\ People(r) # {c} THEN 1 ELSE n]

\* char_to_room
Entered(w, c, r) == IF Burning(w, c) # {} THEN [w EXCEPT !.light[r] = @ + 1] ELSE w

\* create_money
Coins(w, m, n) == [w EXCEPT !.coins[m] = n]

-----------------------------------------------------------------------------
(* act_obj.c *)

InGame == {c \in Person : at[c] # Nil}

\* get_obj_carry: held, not worn.
Carried(c) == Worn(world, c, Nil)

\* get_obj_here_r: with c, worn or not, or on the floor.
Near(c) == Held(world, c) \cup Held(world, at[c])

CanCarry(c, o) ==
    /\ world.number[c] + 1 <= MaxNumber \/ o \in Purse
    /\ world.load[c] + Heft(world, o) <= MaxWeight

\* get_obj, of what has been taken out.
Gotten(u, c, o) ==
    IF o \in Purse
    THEN /\ gold' = [gold EXCEPT ![c] = @ + world.coins[o]]
         /\ world' = Extract(u, o)
    ELSE /\ world' = ToChar(u, o, c)
         /\ UNCHANGED gold

Affordable(c, o) == o \in Purse => gold[c] + world.coins[o] <= MaxGold

Get(c, o) ==
    /\ c \in InGame /\ o \in Held(world, at[c]) \ Corpse
    /\ CanCarry(c, o) /\ Affordable(c, o)
    /\ Gotten(FromRoom(world, o), c, o)
    /\ UNCHANGED <<at, keeper>>

\* Out of what one carries oneself it may be as heavy as it likes.
GetFrom(c, o, k) ==
    /\ c \in InGame /\ k \in Near(c) \cap (Bag \cup Corpse) /\ o \in Held(world, k)
    /\ world.number[c] + 1 <= MaxNumber \/ o \in Purse
    /\ CanCarry(c, o) \/ world.holder[k] = c
    /\ Affordable(c, o)
    /\ Gotten(FromObj(world, o), c, o)
    /\ UNCHANGED <<at, keeper>>

\* Mutant: a bag may be put into itself.
FitsAnything(o, k) == Heft(world, o) + Heft(world, k) <= Capacity[k]

Fits(o, k) == o # k /\ Heft(world, o) + Heft(world, k) <= Capacity[k]

Put(c, o, k) ==
    /\ c \in InGame /\ o \in Carried(c) /\ k \in Near(c) \cap Bag
    /\ Fits(o, k)
    /\ world' = ToObj(FromChar(world, o), o, k)
    /\ UNCHANGED <<at, gold, keeper>>

Drop(c, o) ==
    /\ c \in InGame /\ o \in Carried(c)
    /\ world' = ToRoom(FromChar(world, o), o, at[c])
    /\ UNCHANGED <<at, gold, keeper>>

\* Mutant: what lay there is not counted.
HeapNew(w, S, n) == n

\* Coins on the floor are made one heap.
Heap(w, S, n) == n + Total(S, w.coins)

DropCoins(c, n, m) ==
    /\ c \in InGame /\ n \in 1 .. gold[c]
    /\ LET S == Held(world, at[c]) \cap Purse
           u == ExtractAll(world, S)
       IN  /\ m \in Fresh(u, Purse)
           /\ world' = ToRoom(Coins(u, m, Heap(world, S, n)), m, at[c])
    /\ gold' = [gold EXCEPT ![c] = @ - n]
    /\ UNCHANGED <<at, keeper>>

\* The two are in one room.
Meet(c, v) == c # v /\ {c, v} \subseteq InGame /\ at[c] = at[v]

Give(c, v, o) ==
    /\ Meet(c, v) /\ o \in Carried(c)
    /\ world.number[v] + 1 <= MaxNumber /\ world.load[v] + Heft(world, o) <= MaxWeight
    /\ world' = ToChar(FromChar(world, o), o, v)
    /\ UNCHANGED <<at, gold, keeper>>

GiveCoins(c, v, n) ==
    /\ Meet(c, v) /\ n \in 1 .. gold[c] /\ gold[v] + n <= MaxGold
    /\ gold' = [gold EXCEPT ![c] = @ - n, ![v] = @ + n]
    /\ UNCHANGED <<world, at, keeper>>

\* remove_obj: room is made for o, if what is there comes off.
Replaced(w, c, o) == FoldSet(LAMBDA x, u : Unequip(u, x), w, Worn(w, c, SlotOf[o]))

\* wear_obj
Wear(c, o, zap) ==
    /\ c \in InGame /\ o \in Carried(c) \cap Thing /\ SlotOf[o] # Nil
    /\ Worn(world, c, SlotOf[o]) \cap NoRemove = {}
    /\ zap => c \in Player /\ o \in Anti
    /\ world' = Equip(Replaced(world, c, o), c, o, zap)
    /\ UNCHANGED <<at, gold, keeper>>

Remove(c, o) ==
    /\ c \in InGame /\ o \in Held(world, c) \ (Carried(c) \cup NoRemove)
    /\ world' = Unequip(world, o)
    /\ UNCHANGED <<at, gold, keeper>>

Sacrifice(c, o, n) ==
    /\ c \in InGame /\ o \in Held(world, at[c]) \ world.tombs
    /\ n <= Fee /\ Wealth + n <= MaxWealth
    /\ gold' = [gold EXCEPT ![c] = @ + n]
    /\ world' = Extract(world, o)
    /\ UNCHANGED <<at, keeper>>

\* eat, quaff, recite; brandish, zap: the last charge of what is held.
Consume(c, o) ==
    /\ c \in InGame /\ o \in Held(world, c)
    /\ world' = Extract(world, o)
    /\ UNCHANGED <<at, gold, keeper>>

Steal(c, v, o) ==
    /\ Meet(c, v) /\ o \in Carried(v) \ Stock
    /\ world.number[c] + 1 <= MaxNumber /\ world.load[c] + Heft(world, o) <= MaxWeight
    /\ world' = ToChar(FromChar(world, o), o, c)
    /\ UNCHANGED <<at, gold, keeper>>

StealCoins(c, v, n) ==
    /\ Meet(c, v) /\ v \notin keeper
    /\ n >= 1 /\ n * Tenth <= gold[v]
    /\ gold' = [gold EXCEPT ![c] = @ + n, ![v] = @ - n]
    /\ UNCHANGED <<world, at, keeper>>

\* A shop sells a copy of its stock, and the thing itself of what it bought.
Buy(c, k, o, n) ==
    /\ Meet(c, k) /\ k \in keeper /\ o \in Carried(k)
    /\ gold[c] >= Price
    /\ world.number[c] + 1 <= MaxNumber /\ world.load[c] + Heft(world, o) <= MaxWeight
    /\ IF o \in Stock
       THEN n \in Fresh(world, Thing \ Stock) /\ world' = ToChar(world, n, c)
       ELSE n = o /\ world' = ToChar(FromChar(world, o), o, c)
    /\ gold' = [gold EXCEPT ![c] = @ - Price, ![k] = @ + Price]
    /\ UNCHANGED <<at, keeper>>

\* A shop that has less than it pays pays all the same.
Till(n) == Max({0, n - Price})

Sell(c, k, o) ==
    /\ Meet(c, k) /\ k \in keeper /\ o \in Carried(c) /\ Wealth + Price <= MaxWealth
    /\ world' = IF o \in Trash THEN Extract(world, o) ELSE ToChar(FromChar(world, o), o, k)
    /\ gold' = [gold EXCEPT ![c] = @ + Price, ![k] = Till(@)]
    /\ UNCHANGED <<at, keeper>>

\* To the donation room, unless it has enough of the kind.
Donate(c, o, enough) ==
    /\ c \in InGame /\ o \in Carried(c)
    /\ world' = IF enough THEN Extract(world, o) ELSE ToRoom(FromChar(world, o), o, Donation)
    /\ UNCHANGED <<at, gold, keeper>>

-----------------------------------------------------------------------------
(* People come, go and die; the world is refilled and decays. *)

Move(c, r) ==
    /\ c \in InGame /\ r # at[c]
    /\ world' = Entered(Left(world, c), c, r)
    /\ at' = [at EXCEPT ![c] = r]
    /\ UNCHANGED <<gold, keeper>>

\* A link that comes back counts the light once more.
Reconnect(c) ==
    /\ c \in InGame \cap Player /\ Burning(world, c) # {}
    /\ world.light[at[c]] < MaxLight
    /\ world' = [world EXCEPT !.light[at[c]] = @ + 1]
    /\ UNCHANGED <<at, gold, keeper>>

\* c has K, and wears what is in on.
Kitted(w, c, K, on) == FoldSet(LAMBDA o, u : IF o \in on THEN Equip(ToChar(u, o, c), c, o, FALSE) ELSE ToChar(u, o, c), w, K)

OnePerSlot(S) == \A x, y \in S : SlotOf[x] # Nil /\ (SlotOf[x] = SlotOf[y] => x = y)

\* nanny: what the file has is put on before the room is entered.
Enter(p, r, K, on) ==
    /\ p \in Player \ InGame /\ K \subseteq Fresh(world, Thing \ Stock)
    /\ on \subseteq K /\ OnePerSlot(on)
    /\ world' = Entered(Kitted(world, p, K, on), p, r)
    /\ at' = [at EXCEPT ![p] = r]
    /\ UNCHANGED <<gold, keeper>>

\* do_quit: extract_char, after the file is written.
Quit(p) ==
    /\ p \in Player \cap InGame
    /\ LET w == ExtractAll(world, Held(world, p))
       IN  world' = Left(w, p)
    /\ at' = [at EXCEPT ![p] = Nil]
    /\ UNCHANGED <<gold, keeper>>

\* reset_area, 'M' and the 'E' and 'G' that follow.
ResetMob(m, r, K, on) ==
    /\ m \in Mob \ InGame /\ K \subseteq Fresh(world, IF m \in keeper THEN Stock ELSE Thing \ Stock)
    /\ on \subseteq K /\ OnePerSlot(on)
    /\ at' = [at EXCEPT ![m] = r]
    /\ LET w == FoldSet(LAMBDA o, u : ToChar(u, o, m), world, K)
       IN  world' = [w EXCEPT !.slot = [o \in Obj |-> IF o \in on THEN SlotOf[o] ELSE @[o]],
                              !.light[r] = @ + Cardinality(on \cap Lamp)]
    /\ UNCHANGED <<gold, keeper>>

\* 'O' and 'P'
ResetObj(o, x) ==
    /\ o \in Fresh(world, Thing \ Stock)
    /\ \/ x \in Room /\ world' = ToRoom(world, o, x)
       \/ x \in Bag \ {o} /\ Exists(world, x) /\ world' = ToObj(world, o, x)
    /\ UNCHANGED <<at, gold, keeper>>

\* make_corpse and extract_char(TRUE).  A keeper's gold is nobody's.
MobDies(m, k, coins, n) ==
    /\ m \in Mob \cap InGame /\ k \in Fresh(world, Corpse)
    /\ LET g == IF m \in keeper THEN 0 ELSE gold[m] + n
           w == IF g > 0 THEN ToObj(Coins(world, coins, g), coins, k) ELSE world
           I == Held(world, m)
           u == ExtractAll(ToCorpse(w, I \ Stock, k), I \cap Stock)
       IN  /\ n <= Fee /\ Wealth + n <= MaxWealth
           /\ g > 0 => coins \in Fresh(world, Purse)
           /\ world' = Left(ToRoom(u, k, at[m]), m)
    /\ gold' = [gold EXCEPT ![m] = 0]
    /\ at' = [at EXCEPT ![m] = Nil]
    /\ UNCHANGED keeper

\* make_corpse and extract_char(FALSE): a killer's corpse lies where he fell and
\* has all he had; anyone else keeps what is unique.
PlayerDies(p, k, pk) ==
    /\ p \in Player \cap InGame /\ k \in Fresh(world, Corpse)
    /\ LET I == Held(world, p)
           T == IF pk THEN I ELSE I \ Unique
           u == ExtractAll(ToCorpse(world, T \ Stock, k), T \cap Stock)
           v == ToRoom(u, k, IF pk THEN at[p] ELSE Morgue)
       IN  world' = [Entered(Left(v, p), p, Moribund) EXCEPT !.tombs = @ \cup {k}]
    /\ at' = [at EXCEPT ![p] = Moribund]
    /\ UNCHANGED <<gold, keeper>>

\* char_update: a lamp of a player has burnt down; it is not one any more when
\* extract_obj takes it off.
Burns(c, o) ==
    /\ c \in InGame \cap Player /\ o \in Burning(world, c)
    /\ world' = Extract([world EXCEPT !.slot[o] = Nil, !.light[at[c]] = @ - 1], o)
    /\ UNCHANGED <<at, gold, keeper>>

\* obj_update: whatever has a timer.
Decay(o) ==
    /\ Exists(world, o)
    /\ world' = Extract(world, o)
    /\ UNCHANGED <<at, gold, keeper>>

-----------------------------------------------------------------------------
Init ==
    /\ world = [holder |-> [o \in Obj |-> Nil], slot |-> [o \in Obj |-> Nil],
                coins |-> [o \in Purse |-> 0], tombs |-> {},
                number |-> [c \in Person |-> 0], load |-> [c \in Person |-> 0],
                light |-> [r \in Room |-> 0]]
    /\ at = [c \in Person |-> Nil]
    /\ keeper \in SUBSET Mob
    /\ gold = [c \in Person |-> IF c \in Player THEN Price ELSE 0]

\* What people do by command; keepers only wait for custom.
MoveCoins ==
    \E c \in InGame \ keeper :
        \/ \E o \in Held(world, at[c]) : Get(c, o)
        \/ \E k \in Near(c) : \E o \in Held(world, k) : GetFrom(c, o, k)
        \/ \E n \in 1 .. gold[c], m \in Purse : DropCoins(c, n, m)
        \/ \E v \in People(at[c]) : \/ \E n \in 1 .. gold[c] : GiveCoins(c, v, n)
                                    \/ \E n \in 1 .. gold[v] : StealCoins(c, v, n)

MoveThings ==
    \E c \in InGame \ keeper :
        \/ \E o \in Held(world, c) :
            \/ \E k \in Near(c) : Put(c, o, k)
            \/ \E v \in People(at[c]) : Give(c, v, o) \/ Sell(c, v, o)
            \/ \E b \in BOOLEAN : Wear(c, o, b) \/ Donate(c, o, b)
            \/ Drop(c, o) \/ Remove(c, o) \/ Consume(c, o)
        \/ \E v \in People(at[c]) : \E o \in Held(world, v) :
            Steal(c, v, o) \/ \E n \in Thing : Buy(c, v, o, n)
        \/ \E o \in Held(world, at[c]), n \in 0 .. Fee : Sacrifice(c, o, n)

Lives ==
    \/ \E c \in InGame :
        \/ \E r \in Room : Move(c, r)
        \/ \E k \in Fresh(world, Corpse) :
            \/ \E m \in Purse, n \in 0 .. Fee : MobDies(c, k, m, n)
            \/ \E pk \in BOOLEAN : PlayerDies(c, k, pk)
        \/ \E o \in Held(world, c) : Burns(c, o)
        \/ Reconnect(c) \/ Quit(c)
    \/ \E c \in Person \ InGame, r \in Room :
        \E K \in SUBSET Fresh(world, Thing) : \E on \in SUBSET K : Enter(c, r, K, on) \/ ResetMob(c, r, K, on)

Times == \E o \in Obj : Decay(o) \/ \E x \in Room \cup Bag : ResetObj(o, x)

Next == MoveCoins \/ MoveThings \/ Lives \/ Times

Spec == Init /\ [][Next]_vars

-----------------------------------------------------------------------------
TypeOK ==
    /\ world.holder \in [Obj -> Place \cup {Nil}] /\ world.slot \in [Obj -> Slot \cup {Nil}]
    /\ world.coins \in [Purse -> Nat] /\ world.tombs \subseteq {k \in Corpse : Exists(world, k)}
    /\ world.light \in [Room -> Nat]
    /\ at \in [Person -> Room \cup {Nil}] /\ gold \in [Person -> Nat]

\* What is worn is worn by who carries it, one thing in a place (equip_char trusts
\* its callers, handler.c:1166, when there is no link).
WornOnce ==
    /\ \A o \in Obj : world.slot[o] # Nil => world.holder[o] \in InGame
    /\ \A c \in Person, s \in Slot : Cardinality(Worn(world, c, s)) <= 1

\* handler.c keeps carried_by, in_room, in_obj and five lists for an object: all that
\* exists is, through things that exist, with one person in the game or in one
\* room, and nothing is inside itself, whatever is extracted around it.
Placed ==
    /\ TypeOK /\ WornOnce
    /\ \A o \in Obj :
          LET A == Above(world, o)
          IN  IF Exists(world, o)
              THEN /\ o \notin A /\ Cardinality(A \cap (Room \cup InGame)) = 1
                   /\ \A x \in A \cap Obj : Exists(world, x)
                   /\ A \cap Person \subseteq InGame
              ELSE world.slot[o] = Nil

CarriedTrue ==
    \A c \in Person :
        /\ world.number[c] = Cardinality(Held(world, c))
        /\ world.load[c] = Total(Held(world, c), [o \in Obj |-> Heft(world, o)])

\* A room's count may well be more than its lamps (char_from_room, handler.c:771).
Lit ==
    \A r \in Room : world.light[r] >= Cardinality({c \in People(r) : Burning(world, c) # {}})

\* carry_number, carry_weight and a room's light are only ever added to and subtracted
\* from (handler.c:1031, 1087, 1507, 1551): the first two are what a count would find,
\* and a room is lit for as long as lamps burn in it.
CountersExact == CarriedTrue /\ Lit

\* Picking coins up, dropping, giving and stealing them neither makes nor loses
\* any, heaps that are merged included (do_drop, act_obj.c:558-576).
CoinsKept == [][Wealth' # Wealth => ~MoveCoins]_<<gold, world.coins>>
=============================================================================
