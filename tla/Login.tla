-------------------------------- MODULE Login --------------------------------
(***************************************************************************)
(* Descriptors, characters and player files: how a connection becomes a    *)
(* player (comm.c: nanny, check_reconnect, check_playing, close_socket),   *)
(* and how he leaves (act_comm.c: do_quit, pdelete.c: do_sdelete, comm.c:  *)
(* do_hotreboot), with the switches of immortals (act_wiz.c) and the       *)
(* auctioneer, who opens the files of absent players (auction.c).          *)
(*                                                                         *)
(* nanny loads a player file as soon as it is given a name.  From then on  *)
(* there are two or more copies of a character: in the world, in logins    *)
(* that wait for a password, and in the file.                              *)
(*                                                                         *)
(* A character is represented by a version: each change of it makes a new  *)
(* one.  Version 0 is below level 2, which is never saved.  Apart from it  *)
(* is kept, as its trace, what a login changes that comes to nothing, for  *)
(* a copy is saved even when the password was wrong or the link was lost:  *)
(* the failures are counted, and the spells are left out.                  *)
(***************************************************************************)
EXTENDS Integers, FiniteSets

CONSTANTS
    Desc,           \* the sockets
    Names,          \* the names of players
    Bodies,         \* the memory of players' characters
    Mob,            \* a mobile that immortals switch into
    Nil,            \* NULL, and no file
    MaxVersion,     \* bound on the changes of a character
    MaxFailures,    \* bound on pcdata->failures
    Careful         \* whether three things the code does not guard against are
                    \* left undone: an immortal who is switched logs in again;
                    \* a character is deleted, or changed by the auctioneer,
                    \* while somebody is being asked for its password

ASSUME LoginAssumption ==
    /\ Mob \notin Bodies /\ Nil \notin Bodies \cup {Mob} \cup Names \cup Desc
    /\ Nil \notin Nat
    /\ Bodies \cap Names = {}
    /\ MaxVersion \in Nat \ {0} /\ MaxFailures \in Nat
    /\ Careful \in BOOLEAN

\* d->connected: CON_GET_NAME, CON_GET_OLD_PASSWORD, CON_CONFIRM_NEW_NAME, all of
\* CON_GET_NEW_PASSWORD .. CON_READ_MOTD, CON_PLAYING.
States == {"closed", "name", "password", "confirm", "create", "playing"}

\* The failed logins since somebody entered, and whether it has spells that a save
\* writes.  (Those of a copy have just been loaded: they are aside, in
\* first_saved_aff, and once it has entered they are in force but never written
\* again, since affect_to_char takes over that they are not to be saved.)
Traces == [failures : 0 .. MaxFailures, spells : BOOLEAN]

Plain == [failures |-> 0, spells |-> FALSE]

VARIABLES
    conn,           \* d->connected
    char,           \* d->character
    orig,           \* d->original
    who,            \* ch->name, Nil for memory that is free
    version,        \* what the character is
    owner,          \* ch->desc
    world,          \* first_player .. last_player
    file,           \* the player files
    trace,          \* the traces of characters, and of the files of names
    overtaken       \* the copies since whose loading another copy was saved, which
                    \* the code does not know

marks == <<trace, overtaken>>
vars == <<conn, char, orig, who, version, owner, world, file, trace, overtaken>>

NameOf(c) == IF c \in Bodies THEN who[c] ELSE Nil

\* CH(d)
CH(d) == IF orig[d] # Nil THEN orig[d] ELSE char[d]

Fresh == {b \in Bodies : who[b] = Nil}

InWorld(n) == {b \in world : who[b] = n}

\* save_char_obj
Saved(c) ==
    IF c \in Bodies /\ version[c] > 0 THEN [file EXCEPT ![who[c]] = version[c]] ELSE file

\* fwrite_char on the trace of c, after f more failures.
SavedTrace(c, f) ==
    IF c \in Bodies /\ version[c] > 0
    THEN [trace EXCEPT ![who[c]] = [failures |-> trace[c].failures + f,
                                    spells |-> c \in world /\ trace[c].spells]]
    ELSE trace

\* Whoever else waits at a prompt with a copy of c, when that of c is saved.
Overtaken(c) ==
    IF c \in Bodies \ world /\ version[c] > 0
    THEN overtaken \cup {b \in Bodies \ (world \cup {c}) : who[b] = who[c]}
    ELSE overtaken

-----------------------------------------------------------------------------
(* close_socket on the descriptors C: a player who is playing stays in the   *)
(* world without a link, any other character is freed.                       *)

Playing(C) == {d \in C : conn[d] = "playing"}

\* do_return, then ch->desc = NULL.
Unlinked(C) == {CH(d) : d \in Playing(C)} \cup {char[d] : d \in C}

Disowned(C) == [b \in DOMAIN owner |-> IF b \in Unlinked(C) THEN Nil ELSE owner[b]]

\* What becomes of the character of a descriptor that does not play.
Copies(C) == {char[d] : d \in C \ Playing(C)} \ {Nil}

Freed(S) == [b \in Bodies |-> IF b \in S THEN Nil ELSE who[b]]

Shut(f, C, x) == [d \in Desc |-> IF d \in C THEN x ELSE f[d]]

Close(C) ==
    /\ conn' = Shut(conn, C, "closed")
    /\ char' = Shut(char, C, Nil)
    /\ orig' = Shut(orig, C, Nil)
    /\ owner' = Disowned(C)
    /\ who' = Freed(Copies(C))

-----------------------------------------------------------------------------
(* Logging in. *)

Connect(d) ==
    /\ conn[d] = "closed"
    /\ conn' = [conn EXCEPT ![d] = "name"]
    /\ UNCHANGED <<char, orig, who, version, owner, world, file, marks>>

\* Mutant: only those who play.
RivalsPlaying(d, n) ==
    {e \in Desc \ {d} : conn[e] = "playing" /\ NameOf(CH(e)) = n}

\* The descriptors check_playing looks for.
Rivals(d, n) ==
    {e \in Desc \ {d} : conn[e] \notin {"closed", "name", "password"} /\ NameOf(CH(e)) = n}

\* CON_GET_NAME.  A copy that is there from an earlier name is lost (leaked).
\* Somebody who is just making this character is thrown out, and the newcomer
\* is left without an answer: he may give a name again.
GiveName(d, n, b) ==
    /\ conn[d] = "name" /\ b \in Fresh
    /\ version' = [version EXCEPT ![b] = IF file[n] = Nil THEN 0 ELSE file[n]]
    /\ \E C \in IF InWorld(n) = {} /\ Rivals(d, n) # {}
                THEN {{e} : e \in Rivals(d, n)} ELSE {{}} :
          /\ conn' = [Shut(conn, C, "closed") EXCEPT ![d] =
                        IF C # {} THEN "name"
                        ELSE IF InWorld(n) # {} \/ file[n] # Nil THEN "password"
                        ELSE "confirm"]
          /\ char' = [Shut(char, C, Nil) EXCEPT ![d] = b]
          /\ orig' = Shut(orig, C, Nil)
          /\ owner' = [Disowned(C \cup {d}) EXCEPT ![b] = d]
          /\ who' = [Freed(Copies(C \cup {d})) EXCEPT ![b] = n]
    /\ trace' = [trace EXCEPT ![b] = IF file[n] = Nil THEN Plain ELSE trace[n]]
    /\ overtaken' = overtaken \ {b}
    /\ UNCHANGED <<world, file>>

\* CON_CONFIRM_NEW_NAME: no.
Refuse(d) ==
    /\ conn[d] = "confirm"
    /\ conn' = [conn EXCEPT ![d] = "name"]
    /\ char' = [char EXCEPT ![d] = Nil]
    /\ owner' = Disowned({d})
    /\ who' = Freed(Copies({d}))
    /\ UNCHANGED <<orig, version, world, file, marks>>

\* CON_CONFIRM_NEW_NAME: yes.
Confirm(d) ==
    /\ conn[d] = "confirm"
    /\ conn' = [conn EXCEPT ![d] = "create"]
    /\ UNCHANGED <<char, orig, who, version, owner, world, file, marks>>

\* CON_READ_MOTD: the character is linked into the world, is told how many logins
\* failed, and gets the spells that were loaded.
Enter(d) ==
    /\ world' = world \cup {char[d]}
    /\ conn' = [conn EXCEPT ![d] = "playing"]
    /\ trace' = [trace EXCEPT ![char[d]] = Plain]
    /\ UNCHANGED <<char, orig, who, version, owner, file, overtaken>>

Created(d) == conn[d] = "create" /\ Enter(d)

\* check_reconnect: d takes b over, once the descriptors C are closed.
TakeOver(d, b, C) ==
    /\ conn' = [Shut(conn, C, "closed") EXCEPT ![d] = "playing"]
    /\ char' = [Shut(char, C, Nil) EXCEPT ![d] = b]
    /\ orig' = Shut(orig, C, Nil)
    /\ owner' = [Disowned(C \cup {d}) EXCEPT ![b] = d]
    /\ who' = Freed(Copies(C \cup {d}))
    /\ UNCHANGED <<version, world, file, marks>>

\* Mutant: whoever is in the world is taken over, with a descriptor or without.
VacantAll(n, C) == InWorld(n)

\* The characters check_reconnect takes, once C are closed.
Vacant(n, C) == {b \in InWorld(n) : Disowned(C)[b] = Nil}

\* CON_GET_OLD_PASSWORD, the password is right: check_reconnect, check_playing,
\* and if neither applies the copy that was loaded enters the world.
RightPassword(d) ==
    LET n == who[char[d]]
    IN  /\ conn[d] = "password"
        /\ Careful => \A e \in Desc : orig[e] # Nil => NameOf(orig[e]) # n
        /\ \/ \E b \in Vacant(n, {}) : TakeOver(d, b, {})
           \/ /\ Vacant(n, {}) = {}
              /\ \E e \in Rivals(d, n) :
                    \/ \E b \in Vacant(n, {e}) : TakeOver(d, b, {e})
                    \/ /\ Vacant(n, {e}) = {}
                       /\ Close({e})
                       /\ UNCHANGED <<version, world, file, marks>>
           \/ Vacant(n, {}) = {} /\ Rivals(d, n) = {} /\ Enter(d)

\* A login that times out, is throttled, or gives no name.
Drop(d) ==
    /\ conn[d] \notin {"closed", "playing"}
    /\ Close({d})
    /\ UNCHANGED <<version, world, file, marks>>

\* Whatever character the descriptor has is saved, with f more failures.
SaveAndClose(d, f) ==
    /\ file' = Saved(char[d])
    /\ trace' = SavedTrace(char[d], f)
    /\ overtaken' = Overtaken(char[d])
    /\ Close({d})
    /\ UNCHANGED <<version, world>>

\* The link is lost.
HangUp(d) == conn[d] # "closed" /\ SaveAndClose(d, 0)

\* CON_GET_OLD_PASSWORD, the password or the challenge is wrong.
WrongPassword(d) ==
    /\ conn[d] = "password" /\ trace[char[d]].failures < MaxFailures
    /\ SaveAndClose(d, 1)

-----------------------------------------------------------------------------
(* Playing. *)

\* Whatever happens to a player, spells that are cast on him and that end included.
Change(b) ==
    /\ b \in world /\ version[b] < MaxVersion
    /\ version' = [version EXCEPT ![b] = @ + 1]
    /\ \E s \in BOOLEAN : trace' = [trace EXCEPT ![b].spells = s]
    /\ UNCHANGED <<conn, char, orig, who, owner, world, file, overtaken>>

Save(b) ==
    /\ b \in world
    /\ file' = Saved(b)
    /\ trace' = SavedTrace(b, 0)
    /\ UNCHANGED <<conn, char, orig, who, version, owner, world, overtaken>>

\* do_switch, by an immortal.
Switch(d) ==
    /\ conn[d] = "playing" /\ orig[d] = Nil
    /\ char[d] \in Bodies /\ version[char[d]] > 0
    /\ owner[char[d]] = d /\ owner[Mob] = Nil
    /\ orig' = [orig EXCEPT ![d] = char[d]]
    /\ char' = [char EXCEPT ![d] = Mob]
    /\ owner' = [owner EXCEPT ![Mob] = d, ![char[d]] = Nil]
    /\ UNCHANGED <<conn, who, version, world, file, marks>>

\* do_return, by command or because the mobile is extracted.
Return(d) ==
    /\ orig[d] # Nil /\ owner[Mob] = d
    /\ char' = [char EXCEPT ![d] = orig[d]]
    /\ orig' = [orig EXCEPT ![d] = Nil]
    /\ owner' = [owner EXCEPT ![orig[d]] = d, ![Mob] = Nil]
    /\ UNCHANGED <<conn, who, version, world, file, marks>>

\* extract_char(b, TRUE), and the descriptors C are closed.
Gone(b, C) ==
    LET D == C \cup {d \in Desc : owner[b] = d}
    IN  /\ world' = world \ {b}
        /\ conn' = Shut(conn, D, "closed")
        /\ char' = Shut(char, D, Nil)
        /\ orig' = Shut(orig, D, Nil)
        /\ owner' = [Disowned(D) EXCEPT ![b] = Nil]
        /\ who' = Freed(Copies(C) \cup {b})
        /\ UNCHANGED <<version, overtaken>>

\* Mutant: logins that wait for a password are let be.
OtherLoginsPlaying(b) ==
    {d \in Desc : conn[d] # "password" /\ NameOf(char[d]) = who[b] /\ owner[b] # d}

\* The other logins do_quit closes ("Possible attempt to utilize eq dup bug").
OtherLogins(b) == {d \in Desc : NameOf(char[d]) = who[b] /\ owner[b] # d}

\* do_quit, typed, or by char_update for a mortal.
Quit(b) ==
    /\ b \in world
    /\ (\E d \in Desc : conn[d] = "playing" /\ char[d] = b) \/ (\A d \in Desc : orig[d] # b)
    /\ file' = Saved(b)
    /\ trace' = SavedTrace(b, 0)
    /\ Gone(b, OtherLogins(b))

AskedFor(n) == \E d \in Desc : conn[d] \in {"name", "password"} /\ NameOf(char[d]) = n

\* do_sdelete
Delete(b) ==
    /\ b \in world /\ version[b] > 0
    /\ \E d \in Desc : conn[d] = "playing" /\ char[d] = b
    /\ Careful => ~AskedFor(who[b])
    /\ file' = [file EXCEPT ![who[b]] = Nil]
    /\ Gone(b, {})
    /\ UNCHANGED trace

\* auction_give: the file of a player who is not there is loaded and saved.
Auction(n) ==
    /\ InWorld(n) = {} /\ file[n] # Nil /\ file[n] < MaxVersion
    /\ Careful => ~AskedFor(n)
    /\ file' = [file EXCEPT ![n] = @ + 1]
    /\ trace' = [trace EXCEPT ![n].spells = FALSE]
    /\ UNCHANGED <<conn, char, orig, who, version, owner, world, overtaken>>

\* "level one characters do not save....you have been advanced!"
Rebooted(b) == IF version[b] = 0 THEN 1 ELSE version[b]

\* do_hotreboot, copyover_recover: those who play are saved and loaded again, all
\* other descriptors are closed, and what has no descriptor is gone.  (The first
\* two guards hold wherever OneBody and HeldAlive do.)
HotReboot ==
    LET stay == {CH(d) : d \in Playing(Desc)}
    IN  /\ \A d, e \in Playing(Desc) : CH(d) = CH(e) => d = e
        /\ stay \subseteq world
        /\ file' = [n \in Names |-> IF \E b \in stay : who[b] = n
                                    THEN Rebooted(CHOOSE b \in stay : who[b] = n)
                                    ELSE file[n]]
        /\ trace' = [c \in Bodies \cup Names |->
                       IF c \in stay THEN Plain
                       ELSE IF \E b \in stay : who[b] = c
                       THEN trace[CHOOSE b \in stay : who[b] = c]
                       ELSE trace[c]]
        /\ overtaken' = {}
        /\ version' = [b \in Bodies |-> IF b \in stay THEN file'[who[b]] ELSE version[b]]
        /\ world' = stay
        /\ who' = Freed(Bodies \ stay)
        /\ conn' = Shut(conn, Desc \ Playing(Desc), "closed")
        /\ char' = [d \in Desc |-> IF d \in Playing(Desc) THEN CH(d) ELSE Nil]
        /\ orig' = [d \in Desc |-> Nil]
        /\ owner' = [b \in DOMAIN owner |->
                       IF b \in stay THEN CHOOSE d \in Playing(Desc) : CH(d) = b ELSE Nil]

Crash ==
    /\ conn' = [d \in Desc |-> "closed"]
    /\ char' = [d \in Desc |-> Nil] /\ orig' = [d \in Desc |-> Nil]
    /\ who' = [b \in Bodies |-> Nil] /\ version' = [b \in Bodies |-> 0]
    /\ owner' = [b \in Bodies \cup {Mob} |-> Nil]
    /\ world' = {}
    /\ trace' = [c \in Bodies \cup Names |-> IF c \in Names THEN trace[c] ELSE Plain]
    /\ overtaken' = {}
    /\ UNCHANGED file

Init ==
    /\ conn = [d \in Desc |-> "closed"]
    /\ char = [d \in Desc |-> Nil] /\ orig = [d \in Desc |-> Nil]
    /\ who = [b \in Bodies |-> Nil] /\ version = [b \in Bodies |-> 0]
    /\ owner = [b \in Bodies \cup {Mob} |-> Nil]
    /\ world = {} /\ file = [n \in Names |-> Nil]
    /\ trace = [c \in Bodies \cup Names |-> Plain] /\ overtaken = {}

Next ==
    \/ \E d \in Desc :
          \/ Connect(d) \/ Refuse(d) \/ Confirm(d) \/ Created(d) \/ RightPassword(d)
          \/ Drop(d) \/ HangUp(d) \/ WrongPassword(d) \/ Switch(d) \/ Return(d)
          \/ \E n \in Names, b \in Bodies : GiveName(d, n, b)
    \/ \E b \in Bodies : Change(b) \/ Save(b) \/ Quit(b) \/ Delete(b)
    \/ \E n \in Names : Auction(n)
    \/ HotReboot \/ Crash

Spec == Init /\ [][Next]_vars

-----------------------------------------------------------------------------
PointersTypeOK ==
    /\ conn \in [Desc -> States]
    /\ char \in [Desc -> Bodies \cup {Mob, Nil}] /\ orig \in [Desc -> Bodies \cup {Nil}]
    /\ who \in [Bodies -> Names \cup {Nil}]
    /\ version \in [Bodies -> 0 .. MaxVersion]
    /\ owner \in [Bodies \cup {Mob} -> Desc \cup {Nil}]
    /\ world \subseteq Bodies
    /\ file \in [Names -> 1 .. MaxVersion \cup {Nil}]

MarksTypeOK == trace \in [Bodies \cup Names -> Traces] /\ overtaken \subseteq Bodies

TypeOK == PointersTypeOK /\ MarksTypeOK

BeyondPassword(d) == conn[d] \in {"confirm", "create", "playing"}

\* No player is in the world twice, however many logins raced for his name, and
\* beyond the password there is one descriptor for a name: what check_reconnect
\* and check_playing are for.
OneBody ==
    /\ \A b, c \in world : who[b] = who[c] => b = c
    /\ \A d, e \in Desc :
          BeyondPassword(d) /\ BeyondPassword(e) /\ NameOf(CH(d)) = NameOf(CH(e)) => d = e

\* No descriptor holds a character that was freed ("After extract_char the ch is
\* no longer valid!", act_comm.c).
HeldAlive ==
    \A d \in Desc :
        /\ char[d] \in Bodies => who[char[d]] # Nil
        /\ orig[d] \in Bodies => orig[d] \in world
        /\ conn[d] = "playing" => CH(d) \in world

\* Who plays a character is who it answers to: d->character, d->original and
\* ch->desc never name a character that was freed and are never at odds, so nobody
\* commands a body whose output goes elsewhere.
Attached ==
    /\ TypeOK /\ HeldAlive
    /\ \A d \in Desc : char[d] # Nil => owner[char[d]] = d
    /\ \A b \in Bodies \cup {Mob} : owner[b] # Nil => char[owner[b]] = b

\* Whoever enters the world is the version that was last saved of him: a copy that
\* was loaded before the player played and quit never comes to life (the "eq dup
\* bug").  What failed logins leave in the file he brings with him too (the number of
\* them, which he is told, and whether spells were left to him), unless a login with
\* another copy failed, or was cut off, after his own copy was loaded: that he is not
\* told of, and the spells which that one left out he still has.
EntersCurrent ==
    [][\A b \in world' \ world :
         LET n == who'[b]
         IN  /\ version'[b] = IF file[n] = Nil THEN 0 ELSE file[n]
             /\ file[n] # Nil /\ b \notin overtaken => trace[b] = trace[n]]_vars
==============================================================================
