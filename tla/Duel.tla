--------------------------------- MODULE Duel ---------------------------------
(***************************************************************************)
(* Sparring (src/src/duel.c) and the places that call into it: movement,   *)
(* death, lost links, idling, quitting, saving, hot reboots and crashes.   *)
(*                                                                         *)
(* A duel goes through three stages.  READY: offered, to be accepted       *)
(* within a minute.  SET: accepted, a countdown runs.  GO: both players    *)
(* are moved to an arena and fight, and what they were before is put back  *)
(* when the duel ends, whatever ends it.                                   *)
(*                                                                         *)
(* Times are kept as the code computes with them, relative to              *)
(* current_time: "challenged" is current_time - duel->challenged, and so   *)
(* on.  A field that the stage does not read is kept at 0.                 *)
(***************************************************************************)
EXTENDS Integers, FiniteSets

CONSTANTS
    Players,        \* the player characters
    Arenas,         \* the vnums DUEL_MIN_ROOM .. DUEL_MAX_ROOM
    Start,          \* DUEL_START_ROOM
    World,          \* every other room
    Moribund,       \* where the dead wake
    Nowhere,        \* not in the game
    QuitRooms,      \* the rooms without ROOM_NO_QUIT (area data)
    LeaveRooms,     \* the rooms a mortal can leave (area data)
    ReadyTime,      \* DUEL_TIMEOUT_READY
    SetTime,        \* DUEL_TIMEOUT_SET
    GoTime,         \* DUEL_TIMEOUT_GO
    LinkTime,       \* DUEL_TIMEOUT_LINKDEAD
    MaxHit,         \* a bound on hit points
    OtherRaces,     \* races a random race duel may give
    Immortals       \* whether immortals transfer and slay duellists

Rooms == Arenas \cup {Start, World, Moribund}

ASSUME DuelAssumption ==
    /\ Arenas \subseteq Nat /\ IsFiniteSet(Arenas)
    /\ {Start, World, Moribund} \cap Arenas = {}
    /\ Start # World /\ Start # Moribund /\ World # Moribund
    /\ Nowhere \notin Rooms
    /\ QuitRooms \subseteq Rooms /\ LeaveRooms \subseteq Rooms
    /\ ReadyTime \in Nat \ {0} /\ SetTime \in Nat \ {0}
    /\ GoTime \in Nat \ {0} /\ LinkTime \in Nat \ {0}
    /\ MaxHit \in Nat \ {0}
    /\ "own" \notin OtherRaces
    /\ Immortals \in BOOLEAN

READY == 1
SET == 2
GO == 3

Body == [hit : 1 .. MaxHit, race : {"own"} \cup OtherRaces]

\* What CREATE_MEMBER's memset leaves in the saved fields.
NoBody == [hit |-> 0, race |-> "none"]

DuelData ==
    [first : Players, second : Players, vnum : Arenas, stage : {READY, SET, GO},
     randrace : BOOLEAN, accepted : SUBSET Players,
     challenged : 0 .. ReadyTime, countdown : 0 .. SetTime, started : 0 .. GoTime,
     linkdead : [Players -> -1 .. LinkTime],    \* -1 for linkdead == 0
     saved : [Players -> Body \cup {NoBody}],
     watchers : SUBSET Players]

VARIABLES
    room,           \* ch->in_room
    desc,           \* the players with a descriptor
    body,           \* what a duel saves and restores
    file,           \* the player files: a body and a room
    duels           \* first_duel .. last_duel

vars == <<room, desc, body, file, duels>>

-----------------------------------------------------------------------------
(* Looking duels up: is_in_duel, find_duel, is_watching_duel. *)

Duellists(d) == {d.first, d.second}

InDuel(ch, minstage) == \E d \in duels : d.stage >= minstage /\ ch \in Duellists(d)

Watching(ch) == \E d \in duels : ch \in d.watchers

Fighting(ch) == InDuel(ch, GO)

AllAccepted(d) == Duellists(d) \subseteq d.accepted

\* The duels that have ch in a stage of S.
DuelsOf(ch, S) == {d \in duels : ch \in Duellists(d) /\ d.stage \in S}

Present == {ch \in Players : room[ch] # Nowhere}

\* A player who can type commands.
Active(ch) == ch \in Present /\ ch \in desc

-----------------------------------------------------------------------------
(* cancel_duel on a set of duels: those in stage GO give their players back  *)
(* what was saved, move them to the start room and save them.                *)

Returning(gone) ==
    UNION {Duellists(d) : d \in {e \in gone : e.stage = GO}}

\* Mutant: the second player gets the first one's numbers back.
SavedInFirst(gone, ch) ==
    LET d == CHOOSE e \in gone : e.stage = GO /\ ch \in Duellists(e)
    IN  d.saved[d.first]

SavedIn(gone, ch) ==
    (CHOOSE d \in gone : d.stage = GO /\ ch \in Duellists(d)).saved[ch]

Restored(gone) ==
    [ch \in Players |-> IF ch \in Returning(gone) THEN SavedIn(gone, ch) ELSE body[ch]]

\* The room of each player after a cancellation.
Released(gone) ==
    [ch \in Players |-> IF ch \in Returning(gone) THEN Start ELSE room[ch]]

\* A player is saved where he stands, or in limbo if he may not quit there.
SavedRoom(r) == IF r \in QuitRooms THEN r ELSE World

\* The file of each player after a cancellation.
Written(gone) ==
    [ch \in Players |-> IF ch \in Returning(gone)
                        THEN [body |-> SavedIn(gone, ch), room |-> SavedRoom(Start)]
                        ELSE file[ch]]

\* char_from_room drops a spectator from the duel he watches.
Unwatched(ds, S) == {[d EXCEPT !.watchers = @ \ S] : d \in ds}

\* cancel_duel, nothing else happening.
Cancel(gone) ==
    /\ body' = Restored(gone)
    /\ room' = Released(gone)
    /\ file' = Written(gone)
    /\ duels' = Unwatched(duels \ gone, Returning(gone))

\* Mutant: only an offer is withdrawn.
AfterLeavingReady(ch) == Unwatched(duels \ DuelsOf(ch, {READY}), {ch})

\* char_from_room: it cancels a duel that has not begun.
AfterLeaving(ch) == Unwatched(duels \ DuelsOf(ch, {READY, SET}), {ch})

-----------------------------------------------------------------------------
(* The commands of do_duel. *)

FreeRooms == {a \in Arenas : \A d \in duels : d.vnum # a}

\* find_duel_room: the first arena no duel uses.
IsDuelRoom(a) == a \in FreeRooms /\ \A b \in FreeRooms : a <= b

NewDuel(ch, victim, a, rr) ==
    [first |-> ch, second |-> victim, vnum |-> a, stage |-> READY,
     randrace |-> rr, accepted |-> {ch},
     challenged |-> 0, countdown |-> 0, started |-> 0,
     linkdead |-> [x \in Players |-> -1],
     saved |-> [x \in Players |-> NoBody],
     watchers |-> {}]

\* Mutant: the victim may be watching another duel.
MayDuelWatching(ch, victim) ==
    /\ ch # victim
    /\ ~InDuel(ch, READY) /\ ~InDuel(victim, READY)
    /\ victim \in desc
    /\ ~Watching(ch)

\* The refusals of do_duel (levels, channels, auctions and equipment are data).
MayDuel(ch, victim) ==
    /\ ch # victim
    /\ ~InDuel(ch, READY) /\ ~InDuel(victim, READY)
    /\ victim \in desc
    /\ ~Watching(ch) /\ ~Watching(victim)

\* spar <victim>
Challenge(ch, victim) ==
    /\ Active(ch) /\ room[ch] = Start /\ room[victim] = Start
    /\ MayDuel(ch, victim)
    /\ \E a \in Arenas, rr \in IF OtherRaces = {} THEN {FALSE} ELSE BOOLEAN :
          /\ IsDuelRoom(a)
          /\ duels' = duels \cup {NewDuel(ch, victim, a, rr)}
    /\ UNCHANGED <<room, desc, body, file>>

\* accept_duel
Accepted(d, ch) ==
    LET acc == [d EXCEPT !.accepted = @ \cup {ch}]
    IN  IF AllAccepted(acc)
        THEN [acc EXCEPT !.stage = SET, !.countdown = SetTime, !.challenged = 0]
        ELSE acc

\* spar accept
Accept(ch) ==
    /\ Active(ch) /\ room[ch] = Start
    /\ \E d \in DuelsOf(ch, {READY, SET, GO}) :
          /\ ch \notin d.accepted
          /\ duels' = (duels \ {d}) \cup {Accepted(d, ch)}
    /\ UNCHANGED <<room, desc, body, file>>

\* spar watch <victim>
Watch(ch, victim) ==
    /\ Active(ch) /\ victim \in Present
    /\ ~Watching(ch) /\ ~InDuel(ch, READY)
    /\ \E d \in DuelsOf(victim, {SET, GO}) :
          duels' = (duels \ {d}) \cup {[d EXCEPT !.watchers = @ \cup {ch}]}
    /\ UNCHANGED <<room, desc, body, file>>

-----------------------------------------------------------------------------
(* duel_update, once a second. *)

\* Mutant: a duel that is fought does not age.
AgedNot(d) ==
    IF d.stage = READY
    THEN IF AllAccepted(d) THEN d ELSE [d EXCEPT !.challenged = @ + 1]
    ELSE IF d.stage = SET
    THEN [d EXCEPT !.countdown = @ - 1]
    ELSE d

\* A second goes by for a duel that goes on.
Aged(d) ==
    IF d.stage = READY
    THEN IF AllAccepted(d) THEN d ELSE [d EXCEPT !.challenged = @ + 1]
    ELSE IF d.stage = SET
    THEN [d EXCEPT !.countdown = @ - 1]
    ELSE [d EXCEPT !.started = @ + 1,
                   !.linkdead = [ch \in Players |-> IF d.linkdead[ch] >= 0 THEN d.linkdead[ch] + 1
                                                    ELSE -1]]

TimedOut(d) ==
    \/ d.stage = READY /\ ~AllAccepted(d) /\ d.challenged >= ReadyTime
    \/ d.stage = GO /\ d.started >= GoTime
    \/ d.stage = GO /\ \E ch \in Duellists(d) : d.linkdead[ch] >= LinkTime

\* start_duel: save the players as they are, before a race is drawn.
Started(d) ==
    [d EXCEPT !.stage = GO, !.started = 0,
              !.saved = [ch \in Players |-> IF ch \in Duellists(d) THEN body[ch] ELSE NoBody]]

\* One second: current_time advances and duel_update visits every duel.
DuelUpdate ==
    LET aged == {Aged(d) : d \in duels}
        gone == {d \in aged : TimedOut(d)}
        ready == {d \in aged : d.stage = SET /\ d.countdown = 0}
        moved(ch) == {d \in ready : ch \in Duellists(d)}
    IN  \E race \in [Players -> {"own"} \cup OtherRaces] :
          /\ \A ch \in Players : race[ch] # "own" => \E d \in moved(ch) : d.randrace
          /\ duels' = Unwatched((aged \ (gone \cup ready)) \cup {Started(d) : d \in ready},
                               Returning(gone) \cup UNION {Duellists(d) : d \in ready})
          /\ room' = [ch \in Players |->
                        IF moved(ch) # {} THEN (CHOOSE d \in moved(ch) : TRUE).vnum
                        ELSE Released(gone)[ch]]
          /\ body' = [ch \in Players |->
                        IF moved(ch) # {} /\ race[ch] # "own"
                        THEN [body[ch] EXCEPT !.race = race[ch]]
                        ELSE Restored(gone)[ch]]
          /\ file' = Written(gone)
          /\ UNCHANGED desc

-----------------------------------------------------------------------------
(* The rest of the server, where it touches duels. *)

\* A character walks, flees, recalls or idles into the void: char_from_room,
\* char_to_room.
Move(ch, to) ==
    /\ ch \in Present /\ room[ch] \in LeaveRooms
    /\ room' = [room EXCEPT ![ch] = to]
    /\ duels' = AfterLeaving(ch)
    /\ UNCHANGED <<desc, body, file>>

\* do_transfer asks nothing about duels.
Transfer(ch, to) ==
    /\ Immortals
    /\ ch \in Present
    /\ room' = [room EXCEPT ![ch] = to]
    /\ duels' = AfterLeaving(ch)
    /\ UNCHANGED <<desc, body, file>>

\* Mutant: it saves everybody.
SaveFileAlways(ch, b, r) == [file EXCEPT ![ch] = [body |-> b, room |-> SavedRoom(r)]]

\* save_char_obj does nothing for a player who duels.
SaveFile(ch, b, r) ==
    IF Fighting(ch) THEN file
    ELSE [file EXCEPT ![ch] = [body |-> b, room |-> SavedRoom(r)]]

Save(ch) ==
    /\ ch \in Present
    /\ file' = SaveFile(ch, body[ch], room[ch])
    /\ UNCHANGED <<room, desc, body, duels>>

\* raw_kill: the dead wake in Moribund.  Of a duel, only char_from_room cares.
Killed(ch, b) ==
    /\ body' = [body EXCEPT ![ch] = b]
    /\ room' = [room EXCEPT ![ch] = Moribund]
    /\ duels' = AfterLeaving(ch)
    /\ file' = SaveFile(ch, b, Moribund)

\* The blow that ends it (duel_rawkill): a duellist loses the duel, not his life.
Lethal(ch) ==
    IF Fighting(ch)
    THEN Cancel(DuelsOf(ch, {GO}))
    ELSE Killed(ch, [body[ch] EXCEPT !.hit = 1])

\* damage, obj_damage
Hurt(ch) ==
    /\ ch \in Present
    /\ IF body[ch].hit > 1
       THEN body' = [body EXCEPT ![ch].hit = @ - 1] /\ UNCHANGED <<room, file, duels>>
       ELSE Lethal(ch)
    /\ UNCHANGED desc

\* do_slay and trig_slay call raw_kill themselves.
Slay(ch) ==
    /\ Immortals
    /\ ch \in Present
    /\ Killed(ch, body[ch])
    /\ UNCHANGED desc

\* gain_update, healing spells
Heal(ch) ==
    /\ ch \in Present /\ body[ch].hit < MaxHit
    /\ body' = [body EXCEPT ![ch].hit = @ + 1]
    /\ UNCHANGED <<room, desc, file, duels>>

\* close_socket on a playing descriptor.
LoseLink(ch) ==
    /\ Active(ch)
    /\ desc' = desc \ {ch}
    /\ duels' = {IF d \in DuelsOf(ch, {GO}) THEN [d EXCEPT !.linkdead[ch] = 0] ELSE d :
                    d \in duels \ DuelsOf(ch, {SET})}
    /\ UNCHANGED <<room, body, file>>

\* check_reconnect
Reconnect(ch) ==
    /\ ch \in Present \ desc
    /\ desc' = desc \cup {ch}
    /\ duels' = {IF d \in DuelsOf(ch, {GO}) THEN [d EXCEPT !.linkdead[ch] = -1] ELSE d :
                    d \in duels}
    /\ UNCHANGED <<room, body, file>>

\* char_update on a duellist who typed nothing for DUEL_TIMEOUT_IDLE minutes.
Idle(ch) ==
    /\ Fighting(ch)
    /\ Cancel(DuelsOf(ch, {GO}))
    /\ UNCHANGED desc

\* do_quit, by the player or by char_update; extract_char leaves a duel in
\* stage GO as it is.  Out of the game, a body is what the file holds.
Quit(ch) ==
    /\ ch \in Present /\ room[ch] \in QuitRooms
    /\ file' = SaveFile(ch, body[ch], room[ch])
    /\ body' = [body EXCEPT ![ch] = file'[ch].body]
    /\ room' = [room EXCEPT ![ch] = Nowhere]
    /\ desc' = desc \ {ch}
    /\ duels' = AfterLeaving(ch)

\* The player returns: load_char_obj.
Login(ch) ==
    /\ ch \notin Present
    /\ room' = [room EXCEPT ![ch] = file[ch].room]
    /\ body' = [body EXCEPT ![ch] = file[ch].body]
    /\ desc' = desc \cup {ch}
    /\ UNCHANGED <<file, duels>>

\* do_hotreboot ends every duel, saves those who have a link, and brings them
\* back where they were; copyover_recover reads their files.
HotReboot ==
    /\ file' = [ch \in Players |-> IF Active(ch)
                                   THEN [body |-> Restored(duels)[ch],
                                         room |-> SavedRoom(Released(duels)[ch])]
                                   ELSE Written(duels)[ch]]
    /\ body' = [ch \in Players |-> file'[ch].body]
    /\ room' = [ch \in Players |-> IF Active(ch) THEN Released(duels)[ch] ELSE Nowhere]
    /\ duels' = {}
    /\ UNCHANGED desc

\* The process dies.
Crash ==
    /\ body' = [ch \in Players |-> file[ch].body]
    /\ room' = [ch \in Players |-> Nowhere]
    /\ desc' = {}
    /\ duels' = {}
    /\ UNCHANGED file

Init ==
    LET b == [hit |-> MaxHit, race |-> "own"]
    IN  /\ room = [ch \in Players |-> Start]
        /\ desc = Players
        /\ body = [ch \in Players |-> b]
        /\ file = [ch \in Players |-> [body |-> b, room |-> SavedRoom(Start)]]
        /\ duels = {}

Next ==
    \/ \E ch, victim \in Players : Challenge(ch, victim) \/ Watch(ch, victim)
    \/ \E ch \in Players :
          \/ Accept(ch) \/ Save(ch) \/ Hurt(ch) \/ Heal(ch) \/ Slay(ch) \/ Idle(ch)
          \/ LoseLink(ch) \/ Reconnect(ch) \/ Quit(ch) \/ Login(ch)
          \/ \E to \in Rooms \ Arenas : Move(ch, to) \/ Transfer(ch, to)
    \/ DuelUpdate \/ HotReboot \/ Crash

Spec == Init /\ [][Next]_vars

\* The game loop calls duel_update every second.
FairSpec == Spec /\ WF_vars(DuelUpdate)

-----------------------------------------------------------------------------
TypeOK ==
    /\ room \in [Players -> Rooms \cup {Nowhere}]
    /\ desc \subseteq Players
    /\ body \in [Players -> Body]
    /\ file \in [Players -> [body : Body, room : Rooms]]
    /\ duels \subseteq DuelData

\* Nobody plays two parts: a player is in one duel at most, and does not watch
\* one while he is in one, or two at once (find_duel and find_watching_duel
\* return the first they meet).
OneRole ==
    \A d \in duels :
        /\ d.first # d.second
        /\ \A e \in duels : d.watchers \cap Duellists(e) = {}
        /\ \A e \in duels \ {d} :
              Duellists(d) \cap Duellists(e) = {} /\ d.watchers \cap e.watchers = {}

\* An arena belongs to one duel from the offer to the end, so find_duel_room
\* never puts two pairs in one room.
ArenasExclusive == \A d, e \in duels : d.vnum = e.vnum => d = e

\* A duel that has begun holds both its players in its arena, and nobody else
\* is in an arena, if immortals stay away.
ArenaHoldsDuellists ==
    \A ch \in Players :
        /\ \A d \in DuelsOf(ch, {GO}) : room[ch] = d.vnum
        /\ room[ch] \in Arenas => Fighting(ch)

\* Until it begins, both players of a duel stand in the sparring room: whoever
\* leaves in any way ends it, so start_duel finds both.
WaitersTogether ==
    \A d \in duels : d.stage # GO => \A ch \in Duellists(d) : room[ch] = Start

\* duel->player->ch and watcher->ch are characters of the game ("After
\* extract_char the ch is no longer valid!", act_comm.c).
NobodyExtracted == \A d \in duels : Duellists(d) \cup d.watchers \subseteq Present

\* Everybody is where his duel takes him to be: in its arena once it has begun, in
\* the sparring room until then, and in the game as long as it names him.
InTheirPlaces == ArenaHoldsDuellists /\ WaitersTogether /\ NobodyExtracted

\* Every timer of a duel is acted on when it runs out, and a stage is never
\* stale: an offer is open, a countdown has begun, a duel has time left.
TimersKept ==
    \A d \in duels :
        /\ d.stage = READY => ~AllAccepted(d) /\ d.challenged < ReadyTime
        /\ d.stage = SET => AllAccepted(d) /\ d.countdown > 0
        /\ d.stage = GO => /\ AllAccepted(d) /\ d.started < GoTime
                           /\ \A ch \in Duellists(d) : d.linkdead[ch] < LinkTime

\* The clock of a lost link stops when the player is back.
LinkClockStops == \A d \in duels : \A ch \in Players : d.linkdead[ch] >= 0 => ch \notin desc

\* A player file never holds what a duel made of a player, so that a crash
\* cannot make it last: files are written only outside duels.
FilesFromOutside ==
    \A ch \in Players :
        /\ file[ch].body.race = "own" /\ file[ch].room \notin Arenas
        /\ ch \in Present /\ ~Fighting(ch) => body[ch].race = "own"

\* What a duel will leave of a player.
Outer(ch) ==
    IF Fighting(ch) THEN (CHOOSE d \in DuelsOf(ch, {GO}) : TRUE).saved[ch] ELSE body[ch]

\* A duel leaves no trace: entering it, fighting it and leaving it, whether by
\* death, by a timer, by idling or by a reboot, a player keeps what he was.
SparLeavesNoTrace ==
    [][\A ch \in Players : (Fighting(ch) \/ Fighting(ch)') /\ ch \in Present'
                              => Outer(ch)' = Outer(ch)]_vars

\* Every duel comes to an end.
DuelsEnd == \A ch \in Players : InDuel(ch, READY) ~> ~InDuel(ch, READY)
==============================================================================
