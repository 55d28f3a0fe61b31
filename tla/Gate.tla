-------------------------------- MODULE Gate --------------------------------
(***************************************************************************)
(* What a connection goes through before it plays: the name of its address *)
(* is looked up (Dns) and the wrong passwords that came from that address  *)
(* are counted (AuthThrottle).  The two share the clock, and the links.    *)
(***************************************************************************)
EXTENDS Dns

CONSTANTS Slots, Limit, Window      \* AUTH_FAIL_SLOTS, AUTH_FAIL_LIMIT, AUTH_FAIL_WINDOW

ASSUME GateAssumption == {Slots, Limit, Window} \subseteq Nat \ {0}

VARIABLES
    auth_fails, recent,     \* see AuthThrottle
    inside                  \* links that play, CON_PLAYING

A == INSTANCE AuthThrottle WITH Addresses <- Ip, None <- Unknown

counts == <<auth_fails, recent>>
gateVars == <<dnsVars, auth_fails, recent, inside>>

AtPassword(d) == link[d] # Unknown /\ d \notin inside

-----------------------------------------------------------------------------
(* nanny, CON_GET_OLD_PASSWORD: whoever is refused or wrong is disconnected. *)

Refused(d) == AtPassword(d) /\ A!Refuse(link[d].ip) /\ CloseSocket(d) /\ UNCHANGED inside

Wrong(d) == AtPassword(d) /\ A!Fail(link[d].ip) /\ CloseSocket(d) /\ UNCHANGED inside

LogIn(d, c) == AtPassword(d) /\ A!Succeed(link[d].ip) /\ Arrive(d, c) /\ inside' = inside \cup {d}

\* At the first level, with a password or as a new character.
LogInGreen(d) ==
    AtPassword(d) /\ (A!Succeed(link[d].ip) \/ UNCHANGED counts) /\ ArriveGreen(d) /\ inside' = inside \cup {d}

-----------------------------------------------------------------------------
Clock == Second /\ A!Tick /\ UNCHANGED inside /\ Doubts

HungUp(d) == CloseSocket(d) /\ inside' = inside \ {d} /\ UNCHANGED counts

Net ==
    \/ \E q \in net : Answer(q) \/ Lose(q)
    \/ Break
    \/ \E d \in Link, i \in Ip : NewDescriptor(d, i)
    \/ \E c \in Player : Leave(c)

GateInit == DnsInit /\ A!Init /\ inside = {}

GateNext ==
    \/ Clock
    \/ Net /\ UNCHANGED <<counts, inside>> /\ Doubts
    \/ \E d \in Link :
         (Refused(d) \/ Wrong(d) \/ HungUp(d) \/ LogInGreen(d) \/ (\E c \in Player : LogIn(d, c))) /\ Doubts

\* game_loop runs update_handler in every pulse, and that calls dns_update.
GateSpec == GateInit /\ [][GateNext]_gateVars /\ WF_gateVars(Clock)
-----------------------------------------------------------------------------
\* Nobody pays for another, or for what is long ago (comm.c:636-692, 3064-3075).
CountDeserved == A!CountDeserved

\* "rejected temporarily" (README): whoever is refused is let in again after a while,
\* however often he tries meanwhile and whatever the resolver is doing.
RefusedForAWhile == A!RefusedForAWhile
=============================================================================
