------------------------------ MODULE Building ------------------------------
(***************************************************************************)
(* One area under construction: its rooms with their exits, its mobiles and *)
(* objects, and its resets, which hang in two lists at once, that of the    *)
(* area and that of their room (build.c); the save of the area, item by     *)
(* item while the builders go on (areasave.c); and the boot that reads the  *)
(* file back and throws away what makes no sense (db.c).                    *)
(*                                                                          *)
(* Only some commands say that the area was modified.  unflagged is a       *)
(* history variable: a change was made, since a save was last begun, by one *)
(* of the others.                                                           *)
(***************************************************************************)
EXTENDS Integers, FiniteSets, SequencesExt

CONSTANTS
    Builder, Writer,    \* all builders, and those who may write to the area
    Room, Home,         \* vnums of rooms, and the one a builder starts from
    Mob, Obj,           \* vnums of mobiles and objects
    Dir, RevDirs,       \* directions, and the opposite of each
    Text, New,          \* what may be said of a thing, and what is said of a new one
    MaxResets,          \* resets that may be in use
    Loops,              \* items per pulse that a builder may ask for
    FlushLoops,         \* items per pulse of a save nobody asked for (10)
    QueueSize,          \* SAVEQUEUESIZE
    MaxCommands, MaxCrashes,    \* bounds of the environment
    World,              \* the area at the first boot
    Careful,            \* builders keep from what the code gets wrong, see Resets below
    Nil

ASSUME BuildingAssumption ==
    /\ Writer \subseteq Builder /\ New \in Text
    /\ Room \cap Mob = {} /\ Room \cap Obj = {} /\ Mob \cap Obj = {}    \* one text for each
    /\ RevDirs \in [Dir -> Dir] /\ \A d \in Dir : RevDirs[RevDirs[d]] = d
    /\ Loops \subseteq Nat \ {0} /\ IsFiniteSet(Loops)
    /\ {MaxResets, FlushLoops, MaxCommands, MaxCrashes} \subseteq Nat
    /\ QueueSize \in Nat /\ QueueSize > 1 /\ Careful \in BOOLEAN

VARIABLES
    w,          \* the area in memory
    at,         \* ch->in_room of the builders
    asked,      \* old_vnum, old_ovnum and old_mob_vnum, one of each for all builders
    modified,   \* pArea->modified
    unflagged,
    save,       \* the queue, and the save under way
    disk,       \* the area's file
    commands, crashes

vars == <<w, at, asked, modified, unflagged, save, disk, commands, crashes>>

Reset == 1 .. MaxResets
Exit == [to : Room \cup {Nil}, door : BOOLEAN]     \* Nil: to_room is NULL, it leads nowhere
Command == [cmd : {"M"}, a : Mob, b : Room] \cup [cmd : {"O"}, a : Obj, b : Room]
             \cup [cmd : {"D"}, a : Room, b : Dir] \cup [cmd : {"E"}, a : Obj, b : {Nil}]

ASSUME NilAssumption == Nil \notin Room \cup Mob \cup Obj \cup Text \cup Exit \cup Command \cup Reset

Kinds == {"room", "obj", "mob"}
Sections == <<"area", "rooms", "mobiles", "mobprogs", "objects", "shops", "resets", "end">>

\* The fields of w: rooms, mobs, objs (the area's lists, in order), text, exit (of a room
\* and a direction: to, and whether it is a door; or Nil), reset (command and arguments of
\* the resets in use, Nil of the freed ones), resets (pArea->first_reset) and listed
\* (pRoomIndex->first_room_reset).
Rooms(a) == Range(a.rooms)
Vnums(a, k) == Range(CASE k = "room" -> a.rooms [] k = "obj" -> a.objs [] k = "mob" -> a.mobs)

-----------------------------------------------------------------------------
(* Lists *)

Before(s, x, y) == \E i, j \in DOMAIN s : i < j /\ s[i] = x /\ s[j] = y

\* The k-th number of K.
Nth(K, k) == CHOOSE i \in K : Cardinality({j \in K : j <= i}) = k

\* UNLINK, of everything in X
Without(s, X) ==
    LET K == {i \in DOMAIN s : s[i] \notin X}
    IN [k \in 1 .. Cardinality(K) |-> s[Nth(K, k)]]

\* A list with x linked in behind m.
Behind(s, x, m) == InsertAt(s, 1 + CHOOSE i \in DOMAIN s : s[i] = m, x)

-----------------------------------------------------------------------------
(* Resets.  f has the contents of those in the list s. *)

\* The loops over pArea->first_reset keep the last mobile in a variable.
Owns(f, s, m, x) ==
    /\ f[m].cmd = "M" /\ Before(s, m, x)
    /\ \A y \in Range(s) : Before(s, m, y) /\ Before(s, y, x) => f[y].cmd # "M"

\* Where the reset x happens.
RoomOf(f, s, x) ==
    LET r == f[x]
        M == {m \in Range(s) : Owns(f, s, m, x)}
    IN CASE r.cmd \in {"M", "O"} -> r.b
         [] r.cmd = "D" -> r.a
         [] r.cmd = "E" -> IF M = {} THEN Nil ELSE f[CHOOSE m \in M : TRUE].b

\* UNLINK from the area's list and free_reset; UNLINK and free the list entries of the rooms R
Unlink(a, X, R) ==
    [a EXCEPT !.resets = Without(@, X),
              !.reset = [x \in Reset |-> IF x \in X THEN Nil ELSE @[x]],
              !.listed = [r \in Room |-> IF r \in R THEN Without(@[r], X) ELSE @[r]]]

\* X has exits: a room and a direction of each.
nuke_exit_resets(a, X) ==
    Unlink(a, {x \in Reset : \E s \in X : x \in Range(a.listed[s[1]]) /\ a.reset[x].cmd = "D" /\ a.reset[x].b = s[2]},
           {s[1] : s \in X})

\* Exits are freed, and their resets.
DropExits(a, X) ==
    nuke_exit_resets([a EXCEPT !.exit = [r \in Room |-> [d \in Dir |-> IF <<r, d>> \in X THEN Nil ELSE @[r][d]]]], X)
DropExit(a, r, d) == DropExits(a, {<<r, d>>})

-----------------------------------------------------------------------------
(* areasave.c *)

\* The lists that the sections write, and what is written of their items.
Written(s, a) ==
    CASE s = "rooms" -> a.rooms [] s = "mobiles" -> a.mobs [] s = "objects" -> a.objs [] s = "resets" -> a.resets
      [] OTHER -> <<>>
\* An exit that leads nowhere has vnum 0 in the file, and fix_exits drops it.
ExitItem(x) == IF x # Nil /\ x.to = Nil THEN Nil ELSE x
RoomItem(a, v) == [vnum |-> v, text |-> a.text[v], exit |-> [d \in Dir |-> ExitItem(a.exit[v][d])]]
MobItem(a, v) == [vnum |-> v, text |-> a.text[v]]
ObjectItem(a, v) == [vnum |-> v, text |-> a.text[v]]
Item(s, a, x) ==
    CASE s = "rooms" -> RoomItem(a, x) [] s = "mobiles" -> MobItem(a, x) [] s = "objects" -> ObjectItem(a, x)
      [] s = "resets" -> a.reset[x]

EmptyFile == [rooms |-> <<>>, mobiles |-> <<>>, objects |-> <<>>, resets |-> <<>>]
FileOf(a) == [s \in DOMAIN EmptyFile |-> [i \in DOMAIN Written(s, a) |-> Item(s, a, Written(s, a)[i])]]

\* The first of the queue is taken and its file opened.  S has the save, the file and
\* whether changes were made that nobody flagged.
Started(S) ==
    [S EXCEPT !.phase = "am", !.loops = Head(S.waiting), !.waiting = Tail(@), !.section = 1, !.at = Nil,
              !.new = EmptyFile, !.unflagged = FALSE]

\* build_save_rooms, _mobs, _objects and _resets: one item, and the end of the section with
\* the last.  at is Pointer or ResetPointer, the item that comes next.
OneWritten(S) ==
    LET s == Sections[S.section]
        l == Written(s, w)
        i == IF S.at = Nil THEN 1 ELSE CHOOSE j \in DOMAIN l : l[j] = S.at
        T == [S EXCEPT !.new[s] = Append(@, Item(s, w, l[i]))]
    IN IF l = <<>> THEN [S EXCEPT !.section = @ + 1]
       ELSE IF i = Len(l) THEN [T EXCEPT !.section = @ + 1, !.at = Nil]
       ELSE [T EXCEPT !.at = l[i + 1]]

\* Mutant: the queue is forgotten.
EndedAlone(S) ==
    [S EXCEPT !.disk = S.new, !.new = EmptyFile, !.section = 0, !.phase = "not"]

\* build_save_end: the new file takes the place of the old one.
Ended(S) ==
    [S EXCEPT !.disk = S.new, !.new = EmptyFile, !.section = 0,
              !.phase = IF S.waiting = <<>> THEN "not" ELSE "start"]

SaveStep(S) ==
    LET T == IF S.phase = "start" THEN Started(S) ELSE S
    IN IF Sections[T.section] = "end" THEN Ended(T) ELSE OneWritten(T)

Longest == CHOOSE n \in Loops \cup {FlushLoops} : \A k \in Loops \cup {FlushLoops} : k <= n

\* build_save: a is compared with the loops of the save that is then under way.  (The
\* quantifier makes TLC evaluate each step once.)
build_save(S) ==
    LET after[a \in 0 .. Longest] ==
          IF a = 0 THEN S
          ELSE CHOOSE R \in {IF a > T.loops \/ T.phase = "not" THEN T ELSE SaveStep(T) : T \in {after[a - 1]}} : TRUE
    IN after[Longest]

\* Everything that a save reads and writes, as a record and back.
Saving == [waiting |-> save.waiting, phase |-> save.phase, section |-> save.section, at |-> save.at,
           loops |-> save.loops, new |-> save.new, disk |-> disk, unflagged |-> unflagged]
Saved(S) ==
    /\ save' = [waiting |-> S.waiting, phase |-> S.phase, section |-> S.section, at |-> S.at,
                loops |-> S.loops, new |-> S.new]
    /\ disk' = S.disk /\ unflagged' = S.unflagged

\* do_savearea
do_savearea(S, loops) ==
    IF Len(S.waiting) >= QueueSize - 1 THEN S
    ELSE build_save([S EXCEPT !.waiting = Append(@, loops),
                              !.phase = IF @ = "not" THEN "start" ELSE @])

\* Nothing is removed, and nothing but resets is added, while the area is being written: what
\* the code does then (it follows freed list entries, or writes resets of things it has not
\* written) is left out.
NotWriting == save.phase # "am"

-----------------------------------------------------------------------------
(* build.c *)

Commands == commands < MaxCommands /\ commands' = commands + 1

\* Mutant: a command that says nothing.
FlaggedNot(a) == w' = a /\ unflagged' = unflagged /\ UNCHANGED <<modified, save, disk, crashes>>

\* area_modified
Flagged(a) == w' = a /\ modified' = TRUE /\ UNCHANGED <<unflagged, save, disk, crashes>>
Unflagged(a) == w' = a /\ unflagged' = TRUE /\ UNCHANGED <<modified, save, disk, crashes>>

\* One of the commands that move a builder.
Walk(b, d) ==
    LET x == w.exit[at[b]][d]
    IN /\ x # Nil /\ x.to # Nil /\ at' = [at EXCEPT ![b] = x.to]
       /\ UNCHANGED <<w, asked, modified, unflagged, save, disk, commands, crashes>>

NewExit(r, door) == [to |-> r, door |-> door]
Nowhere == NewExit(Nil, FALSE)

build_dig(b, d, v, onesided) ==
    LET r == at[b]
    IN /\ b \in Writer /\ NotWriting /\ w.exit[r][d] = Nil /\ v \notin Rooms(w)
       /\ Unflagged([w EXCEPT !.rooms = Append(@, v), !.text[v] = New,
                              !.exit[r][d] = NewExit(v, FALSE),
                              !.exit[v] = [e \in Dir |-> IF e = RevDirs[d] /\ ~onesided THEN NewExit(r, FALSE) ELSE Nil]])
       /\ Commands /\ UNCHANGED <<at, asked>>

build_addmob(b, v) ==
    /\ b \in Writer /\ NotWriting /\ v \in Mob \ Vnums(w, "mob")
    /\ Unflagged([w EXCEPT !.mobs = Append(@, v), !.text[v] = New])
    /\ Commands /\ UNCHANGED <<at, asked>>

build_addobject(b, v) ==
    /\ b \in Writer /\ NotWriting /\ v \in Obj \ Vnums(w, "obj")
    /\ Unflagged([w EXCEPT !.objs = Append(@, v), !.text[v] = New])
    /\ Commands /\ UNCHANGED <<at, asked>>

\* Flags, values and strings, of the room one is in,
build_setroom(b, t) ==
    /\ b \in Writer /\ w.text[at[b]] # t
    /\ Flagged([w EXCEPT !.text[at[b]] = t])
    /\ Commands /\ UNCHANGED <<at, asked>>

\* of a mobile,
build_setmob(b, v, t) ==
    /\ b \in Writer /\ v \in Vnums(w, "mob") /\ w.text[v] # t
    /\ Flagged([w EXCEPT !.text[v] = t])
    /\ Commands /\ UNCHANGED <<at, asked>>

\* and of an object.
build_setobject(b, v, t) ==
    /\ b \in Writer /\ v \in Vnums(w, "obj") /\ w.text[v] # t
    /\ Flagged([w EXCEPT !.text[v] = t])
    /\ Commands /\ UNCHANGED <<at, asked>>

\* clone: y is copied onto the room one is in, or onto the object or mobile one edits.
CloneThing(b, x, y) ==
    /\ b \in Writer /\ w.text[x] # w.text[y]
    /\ Unflagged([w EXCEPT !.text[x] = w.text[y]])
    /\ Commands /\ UNCHANGED <<at, asked>>

CloneRoom(b, y) == y \in Rooms(w) /\ CloneThing(b, at[b], y)
CloneObject(b, x, y) == {x, y} \subseteq Vnums(w, "obj") /\ CloneThing(b, x, y)
CloneMob(b, x, y) == {x, y} \subseteq Vnums(w, "mob") /\ CloneThing(b, x, y)

\* pDestExit of setroom door: the exit of a that comes back from where exit d of r leads
Back(a, r, d) ==
    LET x == a.exit[r][d]
    IN IF x # Nil /\ x.to # Nil /\ a.exit[x.to][RevDirs[d]] # Nil /\ a.exit[x.to][RevDirs[d]].to = r
       THEN <<x.to, RevDirs[d]>> ELSE Nil

\* setroom door makes an exit before it looks at what is wanted.
WithExit(a, r, d) == IF a.exit[r][d] = Nil THEN [a EXCEPT !.exit[r][d] = Nowhere] ELSE a

\* setroom door <d> with a key, a keyword or a description, or to a vnum that no room has
DoorMade(b, d) ==
    /\ b \in Writer /\ NotWriting /\ Flagged(WithExit(w, at[b], d))
    /\ Commands /\ UNCHANGED <<at, asked>>

\* setroom door <d> to <v>
DoorTo(b, d, v, onesided) ==
    LET r == at[b]
        door == w.exit[r][d] # Nil /\ w.exit[r][d].door
        back == Back(w, r, d)
        apart == IF ~onesided /\ back # Nil THEN DropExit(w, back[1], back[2]) ELSE w
        both == IF ~onesided /\ apart.exit[v][RevDirs[d]] = Nil
                THEN [apart EXCEPT !.exit[v][RevDirs[d]] = NewExit(r, door)] ELSE apart
    IN /\ b \in Writer /\ NotWriting /\ v \in Rooms(w)
       /\ Flagged([both EXCEPT !.exit[r][d] = NewExit(v, door)])
       /\ Commands /\ UNCHANGED <<at, asked>>

\* setroom door <d> clear; what leads nowhere stays.  When both sides are to go and there is no
\* other one the code reads through a null pointer: left out.
DoorClear(b, d, onesided) ==
    LET r == at[b]
        x == w.exit[r][d]
        this == DropExit(w, r, d)
        y == this.exit[x.to][RevDirs[d]]
    IN /\ b \in Writer /\ NotWriting /\ x # Nil
       /\ \/ x.to = Nil /\ Flagged(w)
          \/ /\ x.to # Nil /\ (onesided \/ y # Nil)
             /\ Flagged(IF ~onesided /\ y.to = r THEN DropExit(this, x.to, RevDirs[d]) ELSE this)
       /\ Commands /\ UNCHANGED <<at, asked>>

\* setroom door <d> type +/-door
DoorType(b, d, door, onesided) ==
    LET r == at[b]
        sides == {<<r, d>>} \cup (IF onesided \/ Back(w, r, d) = Nil THEN {} ELSE {Back(w, r, d)})
        made == WithExit(w, r, d)
        typed == [made EXCEPT !.exit = [q \in Room |-> [e \in Dir |->
                     IF <<q, e>> \in sides THEN [@[q][e] EXCEPT !.door = door] ELSE @[q][e]]]]
    IN /\ b \in Writer /\ NotWriting
       /\ Flagged(IF door THEN typed ELSE nuke_exit_resets(typed, sides))
       /\ Commands /\ UNCHANGED <<at, asked>>

-----------------------------------------------------------------------------
(* Resets are added and removed.  Careful: no door that leads nowhere gets a reset, *)
(* and of no mobile with equipment, and of no object or mobile that a reset names,  *)
(* the reset or the thing is deleted.                                               *)

\* Mutant: equipment goes to the end of the room's list.
AfterLast(a, x, c, r, m) ==
    [a EXCEPT !.reset[x] = c, !.resets = Behind(@, x, m), !.listed[r] = Append(@, x)]

\* The new reset follows that of its mobile, in both lists.
After(a, x, c, r, m) ==
    [a EXCEPT !.reset[x] = c, !.resets = Behind(@, x, m), !.listed[r] = Behind(@, x, m)]
AtEnd(a, x, c, r) ==
    [a EXCEPT !.reset[x] = c, !.resets = Append(@, x), !.listed[r] = Append(@, x)]

Unused == {x \in Reset : w.reset[x] = Nil}
Free == CHOOSE x \in Unused : \A y \in Unused : x <= y

\* addreset mob, obj and door
DoorsOf(r) == {d \in Dir : w.exit[r][d] # Nil /\ w.exit[r][d].door /\ (Careful => w.exit[r][d].to # Nil)}
PlainResets(r) ==
    [cmd : {"M"}, a : Vnums(w, "mob"), b : {r}] \cup [cmd : {"O"}, a : Vnums(w, "obj"), b : {r}]
      \cup [cmd : {"D"}, a : {r}, b : DoorsOf(r)]

build_addreset(b, c) ==
    /\ b \in Writer /\ Unused # {} /\ c \in PlainResets(at[b])
    /\ Flagged(AtEnd(w, Free, c, at[b]))
    /\ Commands /\ UNCHANGED <<at, asked>>

\* addreset equip and give: m is the n-th reset of that mobile in the room.
Equip(b, m, o) ==
    /\ b \in Writer /\ Unused # {} /\ o \in Vnums(w, "obj")
    /\ m \in Range(w.listed[at[b]]) /\ w.reset[m].cmd = "M"
    /\ Flagged(After(w, Free, [cmd |-> "E", a |-> o, b |-> Nil], at[b], m))
    /\ Commands /\ UNCHANGED <<at, asked>>

\* delreset.  The loop that should go on with the equipment of a mobile looks at the freed
\* reset, and ends: it stays, and is that of the mobile before.
build_delreset(b, i) ==
    LET r == at[b]
        l == w.listed[r]
    IN /\ b \in Writer /\ NotWriting /\ i \in DOMAIN l
       /\ Careful => \A x \in Range(l) : w.reset[x].cmd = "E" => ~Owns(w.reset, l, l[i], x)
       /\ Flagged(Unlink(w, {l[i]}, {r}))
       /\ Commands /\ UNCHANGED <<at, asked>>

-----------------------------------------------------------------------------
(* Deletions, asked for and then confirmed, by anybody.  Home stays *)

Ask(b, k, v) ==
    /\ b \in Writer /\ v \in Vnums(w, k) /\ asked[k] # v
    /\ asked' = [asked EXCEPT ![k] = v]
    /\ Commands /\ UNCHANGED <<w, at, modified, unflagged, save, disk, crashes>>

AskRoom(b, v) == v \notin Range(at) \cup {Home} /\ Ask(b, "room", v)
AskObject(b, v) == Ask(b, "obj", v)
AskMob(b, v) == Ask(b, "mob", v)

\* Mutant: only the exits of the room itself.
OwnExitsOnly(a, v) == DropExits(a, {v} \X Dir)

\* The exits of the room and those that lead to it.
WithoutExits(a, v) ==
    DropExits(a, {x \in Rooms(a) \X Dir : a.exit[x[1]][x[2]] # Nil /\ (x[1] = v \/ a.exit[x[1]][x[2]].to = v)})

Deleted(v) ==
    LET a == WithoutExits(w, v)
        there == {x \in Range(a.resets) : RoomOf(a.reset, a.resets, x) = v}
    IN [Unlink(a, there, {v}) EXCEPT !.rooms = Without(@, {v}), !.listed[v] = <<>>, !.text[v] = Nil]

\* delroom ok
DelRoom(b) ==
    LET v == asked["room"]
    IN /\ v # Nil /\ NotWriting
       /\ asked' = [asked EXCEPT !["room"] = Nil]
       /\ IF v \in Range(at) THEN UNCHANGED <<w, modified, unflagged, save, disk, crashes>>
          ELSE Unflagged(Deleted(v))
       /\ Commands /\ UNCHANGED at

Named(v) == \E x \in Range(w.resets) : w.reset[x].a = v

\* delobject ok and delmobile ok free the resets that name the thing, and the equipment of such a
\* mobile, but not their entries in the rooms' lists; what is done with those is not modelled.
FreeNamed(v) ==
    Unlink(w, {x \in Range(w.resets) :
                 w.reset[x].a = v \/ \E m \in Range(w.resets) : /\ w.reset[x].cmd = "E" /\ w.reset[m].a = v
                                                               /\ Owns(w.reset, w.resets, m, x)}, {})
Unnamed(v) == IF Named(v) THEN FreeNamed(v) ELSE w

DelObject(b) ==
    LET v == asked["obj"]
    IN /\ v # Nil /\ NotWriting /\ (Careful => ~Named(v))
       /\ asked' = [asked EXCEPT !["obj"] = Nil]
       /\ Unflagged([Unnamed(v) EXCEPT !.objs = Without(@, {v}), !.text[v] = Nil])
       /\ Commands /\ UNCHANGED at

DelMob(b) ==
    LET v == asked["mob"]
    IN /\ v # Nil /\ NotWriting /\ (Careful => ~Named(v))
       /\ asked' = [asked EXCEPT !["mob"] = Nil]
       /\ Unflagged([Unnamed(v) EXCEPT !.mobs = Without(@, {v}), !.text[v] = Nil])
       /\ Commands /\ UNCHANGED at

-----------------------------------------------------------------------------
(* Saves and boots *)

SaveArea(b, loops) ==
    /\ Saved(do_savearea(Saving, loops))
    /\ Commands /\ UNCHANGED <<w, at, asked, modified, crashes>>

\* update_handler: the save goes on at every pulse,
Pulse ==
    /\ save.phase # "not" /\ Saved(build_save(Saving))
    /\ UNCHANGED <<w, at, asked, modified, commands, crashes>>

\* and what is modified is saved from time to time: build_save_flush.
Flush ==
    /\ modified /\ modified' = FALSE /\ Saved(do_savearea(Saving, FlushLoops))
    /\ UNCHANGED <<w, at, asked, commands, crashes>>

\* The exits as they are read, and then fixed.
fix_exits(f) ==
    LET known == {f.rooms[i].vnum : i \in DOMAIN f.rooms}
    IN [r \in Room |-> [d \in Dir |->
          IF r \notin known THEN Nil
          ELSE LET x == f.rooms[CHOOSE i \in DOMAIN f.rooms : f.rooms[i].vnum = r].exit[d]
               IN IF x # Nil /\ x.to \in known THEN x ELSE Nil]]

\* What the file says of a thing.
TextIn(f, v) ==
    LET X == {x \in Range(f.rooms) \cup Range(f.mobiles) \cup Range(f.objects) : x.vnum = v}
    IN IF X = {} THEN Nil ELSE (CHOOSE x \in X : TRUE).text

\* The resets of rooms that are there, and equipment that follows a mobile of one.
load_resets(f, known) ==
    LET all == [i \in DOMAIN f |-> i]
        placed == Without(all, {i \in DOMAIN f : f[i].cmd # "E" /\ RoomOf(f, all, i) \notin known})
    IN Without(placed, {i \in DOMAIN f : RoomOf(f, placed, i) = Nil})

\* A door, and one that fix_exits leaves.
IsDoor(x) == x # Nil /\ x.to # Nil /\ x.door

\* check_resets: what the resets name is there.
Makes(a, x) ==
    LET r == a.reset[x]
    IN CASE r.cmd = "M" -> r.a \in Vnums(a, "mob") /\ r.b \in Rooms(a)
         [] r.cmd = "O" -> r.a \in Vnums(a, "obj") /\ r.b \in Rooms(a)
         [] r.cmd = "E" -> r.a \in Vnums(a, "obj") /\ RoomOf(a.reset, a.resets, x) # Nil
         [] r.cmd = "D" -> r.a \in Rooms(a) /\ IsDoor(a.exit[r.a][r.b])

vnums(s) == [i \in DOMAIN s |-> s[i].vnum]
load_rooms(f) == vnums(f.rooms)
load_mobiles(f) == vnums(f.mobiles)
load_objects(f) == vnums(f.objects)

Load(f) ==
    LET order == load_resets(f.resets, Range(load_rooms(f)))
        read == [rooms |-> load_rooms(f), mobs |-> load_mobiles(f), objs |-> load_objects(f),
                 text |-> [v \in Room \cup Mob \cup Obj |-> TextIn(f, v)],
                 exit |-> fix_exits(f),
                 reset |-> [x \in Reset |-> IF x \in Range(order) THEN f.resets[x] ELSE Nil],
                 resets |-> order,
                 listed |-> [r \in Room |-> Without(order, {x \in Range(order) : RoomOf(f.resets, order, x) # r})]]
        bad == {x \in Range(order) : ~Makes(read, x)}
    IN [read EXCEPT !.resets = Without(@, bad), !.reset = [x \in Reset |-> IF x \in bad THEN Nil ELSE @[x]]]

NoSave == [waiting |-> <<>>, phase |-> "not", section |-> 0, at |-> Nil, loops |-> 1, new |-> EmptyFile]

Boot ==
    /\ w' = Load(disk) /\ at' = [b \in Builder |-> Home] /\ asked' = [k \in Kinds |-> Nil]
    /\ modified' = FALSE /\ unflagged' = FALSE /\ save' = NoSave
    /\ UNCHANGED <<disk, commands>>

\* The two calls that put the new file in place of the old one are one step: a crash
\* between them is left out.
Crash == crashes < MaxCrashes /\ crashes' = crashes + 1 /\ Boot

\* do_reboot and do_shutdown, once nothing is left to be saved
Reboot == ~modified /\ save.phase = "not" /\ crashes < MaxCrashes /\ crashes' = crashes + 1 /\ Boot

Init ==
    /\ w = World /\ at = [b \in Builder |-> Home] /\ asked = [k \in Kinds |-> Nil]
    /\ modified = FALSE /\ unflagged = FALSE /\ save = NoSave
    /\ disk = FileOf(w)
    /\ commands = 0 /\ crashes = 0

Next ==
    \/ \E b \in Builder, d \in Dir, v \in Room, onesided \in BOOLEAN :
          \/ build_dig(b, d, v, onesided)
          \/ DoorTo(b, d, v, onesided)
    \/ \E b \in Builder, d \in Dir, onesided \in BOOLEAN :
          \/ DoorClear(b, d, onesided)
          \/ \E door \in BOOLEAN : DoorType(b, d, door, onesided)
    \/ \E b \in Builder, d \in Dir : Walk(b, d) \/ DoorMade(b, d)
    \/ \E b \in Builder, v \in Mob : build_addmob(b, v)
    \/ \E b \in Builder, v \in Obj : build_addobject(b, v)
    \/ \E b \in Builder, t \in Text :
          \/ build_setroom(b, t)
          \/ \E v \in Mob : build_setmob(b, v, t)
          \/ \E v \in Obj : build_setobject(b, v, t)
    \/ \E b \in Builder, y \in Room : CloneRoom(b, y)
    \/ \E b \in Builder, x, y \in Obj : CloneObject(b, x, y)
    \/ \E b \in Builder, x, y \in Mob : CloneMob(b, x, y)
    \/ \E b \in Builder : \E c \in PlainResets(at[b]) : build_addreset(b, c)
    \/ \E b \in Builder, m \in Reset, o \in Obj : Equip(b, m, o)
    \/ \E b \in Builder, i \in Reset : build_delreset(b, i)
    \/ \E b \in Builder, v \in Room : AskRoom(b, v)
    \/ \E b \in Builder, v \in Obj : AskObject(b, v)
    \/ \E b \in Builder, v \in Mob : AskMob(b, v)
    \/ \E b \in Builder : DelRoom(b) \/ DelObject(b) \/ DelMob(b)
    \/ \E b \in Builder, loops \in Loops : SaveArea(b, loops)
    \/ Pulse \/ Flush \/ Crash \/ Reboot

\* The game loop comes round again.
Spec == Init /\ [][Next]_vars /\ WF_vars(Pulse) /\ WF_vars(Flush)

-----------------------------------------------------------------------------
(* Properties *)

Area ==
    [rooms : Seq(Room), mobs : Seq(Mob), objs : Seq(Obj), text : [Room \cup Mob \cup Obj -> Text \cup {Nil}],
     exit : [Room -> [Dir -> Exit \cup {Nil}]], reset : [Reset -> Command \cup {Nil}], resets : Seq(Reset),
     listed : [Room -> Seq(Reset)]]

Typed(a) ==
    /\ a \in Area
    /\ \A s \in {a.rooms, a.objs, a.mobs, a.resets} : IsInjective(s)
    /\ {x \in Reset : a.reset[x] # Nil} = Range(a.resets)

TypeOK ==
    /\ Typed(w)
    /\ at \in [Builder -> Room] /\ asked \in [Kinds -> Room \cup Obj \cup Mob \cup {Nil}]
    /\ {modified, unflagged} \subseteq BOOLEAN
    /\ save.phase \in {"not", "start", "am"} /\ save.section \in 0 .. Len(Sections)
    /\ Len(save.waiting) < QueueSize

Leads(a) == \A r \in Rooms(a), d \in Dir : a.exit[r][d] # Nil => a.exit[r][d].to \in Rooms(a) \cup {Nil}

\* Every exit leads to a room that exists or, as setroom door may leave one (build.c:2217),
\* nowhere; and so every builder is in a room: no deletion of one leaves an exit that points
\* to freed memory (build_delroom).
ExitsLead == TypeOK /\ Leads(w) /\ Range(at) \subseteq Rooms(w)

InStep(a, r) ==
    LET l == a.listed[r]
    IN /\ IsInjective(l) /\ Range(l) = {x \in Range(a.resets) : RoomOf(a.reset, a.resets, x) = r}
       /\ \A x, y \in Range(l) : Before(l, x, y) <=> Before(a.resets, x, y)

ResetsOf(a) == (\A r \in Room : InStep(a, r)) /\ \A x \in Range(a.resets) : Makes(a, x)

\* With Careful: the list of a room holds the resets of the area that happen there, in their
\* order, and no reset that was freed, although the two lists are changed by different code
\* and a reset of equipment belongs to a room only by what precedes it.  Each is about things
\* that exist and doors that are doors: the next boot (load_resets, check_resets) throws
\* none away.  The code breaks this where Careful keeps from it: a reset of a door that leads
\* nowhere (build.c:3641), the equipment of a mobile whose reset is deleted (3785), and resets that
\* are freed with the object or mobile they name (4144, 4310).
ResetsSound == ResetsOf(w)

\* The area at the first boot is one that load_rooms, fix_exits, load_resets and
\* check_resets find nothing wrong with.
ASSUME WorldAssumption == Typed(World) /\ Home \in Rooms(World) /\ Leads(World) /\ ResetsOf(World)

\* With Careful: when no change is flagged and no save waits or is under way, the file is the area, but
\* for changes by commands that do not flag: neither a crash nor a reboot loses any other.
QuietMeansSaved ==
    ~modified /\ save.waiting = <<>> /\ save.phase = "not" /\ ~unflagged => disk = FileOf(w)

\* With Careful: once the builders have stopped, the file becomes and stays the area, but for changes by
\* commands that do not flag.
EditsSaved == <>[](unflagged \/ disk = FileOf(w))
=============================================================================
