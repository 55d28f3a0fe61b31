------------------------------- MODULE CharList -------------------------------
(***************************************************************************)
(* The list of all characters, first_char .. last_char, and the loops that *)
(* walk it while their bodies create and extract characters: handler.c     *)
(* (extract_char, char_reference), merc.h (LINK, UNLINK, CREF), fight.c    *)
(* (violence_update), and the same device in comm.c for descriptors        *)
(* (d_next, close_socket).                                                 *)
(*                                                                         *)
(* There are two ways to survive that.  A loop may keep the character it   *)
(* visits next in a variable and register it (CREF): extract_char moves    *)
(* every registered variable on.  violence_update keeps nothing: it links  *)
(* a marker at the end and moves characters from the front to the end      *)
(* until the marker is in front.                                           *)
(*                                                                         *)
(* LINK appends, so the order of the list is the order of the LINKs: it is *)
(* kept as a number, place.                                                *)
(***************************************************************************)
EXTENDS Integers, FiniteSets

CONSTANTS
    Chars,          \* the memory of characters; what is not linked is free
    Players,        \* those of them that survive their death
    Marker,         \* the dummy of violence_update
    Null,           \* NULL
    Sites,          \* the places of the program that say CREF
    MaxDepth,       \* bound on loops inside loops
    MaxPlace,       \* bound on the LINKs
    Reentry         \* whether a body may come back to a place that is in use

Nodes == Chars \cup {Marker}

ASSUME CharListAssumption ==
    /\ Players \subseteq Chars
    /\ Marker \notin Chars /\ Null \notin Nodes
    /\ Sites # {}
    /\ MaxDepth \in Nat /\ MaxPlace \in Nat
    /\ Reentry \in BOOLEAN

VARIABLES
    list,           \* the nodes that are linked
    place,          \* their order
    used,           \* the last place given
    depth,          \* the number of registered loops that are running
    loop,           \* loop[1 .. depth]: the innermost is the last
    owed,           \* the characters violence_update has still to process
    aborted         \* abort() was called

listVars == <<list, place, used, depth, loop, owed, aborted>>

\* nxt is the registered variable.  due, which the code does not have, are the
\* characters the loop has still to visit.
Loop == [site : Sites, nxt : Nodes \cup {Null}, due : SUBSET Nodes]

\* Where no loop runs.
NoLoop == [site |-> CHOOSE s \in Sites : TRUE, nxt |-> Null, due |-> {}]

Running == 1 .. depth

Behind(c) == {x \in list : place[x] > place[c]}

\* n is c->next.
IsNext(c, n) ==
    IF n = Null THEN Behind(c) = {}
    ELSE n \in Behind(c) /\ \A x \in Behind(c) : place[n] <= place[x]

\* n is first_char.
IsFirst(n) ==
    IF n = Null THEN list = {}
    ELSE n \in list /\ \A x \in list : place[n] <= place[x]

Fights == Marker \in list

-----------------------------------------------------------------------------
(* create_mobile, nanny: a character is linked. *)
Create(c) ==
    /\ c \in Chars \ list /\ used < MaxPlace
    /\ list' = list \cup {c}
    /\ place' = [place EXCEPT ![c] = used + 1]
    /\ used' = used + 1
    /\ loop' = [i \in DOMAIN loop |->
                  IF loop[i].nxt # Null THEN [loop[i] EXCEPT !.due = @ \cup {c}] ELSE loop[i]]
    /\ UNCHANGED <<depth, owed, aborted>>

\* Mutant: only the innermost loop is told.
AdvancedTop(c, n) ==
    [i \in DOMAIN loop |-> IF loop[i].nxt = c /\ i = depth THEN [loop[i] EXCEPT !.nxt = n] ELSE loop[i]]

\* char_ref_list: every registered variable that holds c gets its successor.
Advanced(c, n) ==
    [i \in DOMAIN loop |-> IF loop[i].nxt = c THEN [loop[i] EXCEPT !.nxt = n] ELSE loop[i]]

\* c is no longer there to be visited.
Without(ls, c) == [i \in DOMAIN ls |-> [ls[i] EXCEPT !.due = @ \ {c}]]

(* extract_char(c, TRUE), close_socket. *)
Extract(c, n) ==
    /\ c \in Chars \cap list /\ IsNext(c, n)
    /\ loop' = Without(Advanced(c, n), c)
    /\ list' = list \ {c}
    /\ place' = [place EXCEPT ![c] = 0]
    /\ owed' = owed \ {c}
    /\ UNCHANGED <<used, depth, aborted>>

(* extract_char(c, FALSE): a player dies.  He stays in the list, but the      *)
(* loops whose turn he was pass him over.                                     *)
Die(c, n) ==
    /\ c \in Players \cap list /\ IsNext(c, n)
    /\ loop' = [i \in DOMAIN loop |->
                  IF loop[i].nxt = c THEN [loop[i] EXCEPT !.nxt = n, !.due = @ \ {c}] ELSE loop[i]]
    /\ UNCHANGED <<list, place, used, depth, owed, aborted>>

(* CREF, and ch = first_char. *)
Begin(s, n) ==
    /\ depth < MaxDepth /\ IsFirst(n)
    /\ \A i \in Running : loop[i].site # s
    /\ loop' = [loop EXCEPT ![depth + 1] = [site |-> s, nxt |-> n, due |-> list]]
    /\ depth' = depth + 1
    /\ UNCHANGED <<list, place, used, owed, aborted>>

(* char_reference finds the static entry of this place in use. *)
BeginAgain(s) ==
    /\ Reentry
    /\ \E i \in Running : loop[i].site = s
    /\ aborted' = TRUE
    /\ UNCHANGED <<list, place, used, depth, loop, owed>>

\* Mutant: the next character is read after the visit.
StepOver(n) ==
    /\ depth > 0 /\ loop[depth].nxt # Null
    /\ IF Behind(loop[depth].nxt) = {} THEN n = Null ELSE n \in Behind(loop[depth].nxt)
    /\ loop' = [loop EXCEPT ![depth].nxt = n, ![depth].due = @ \ {loop[depth].nxt}]
    /\ UNCHANGED <<list, place, used, depth, owed, aborted>>

(* ch = ch_next; ch_next = ch->next: the innermost loop goes on. *)
Step(n) ==
    /\ depth > 0 /\ loop[depth].nxt # Null
    /\ IsNext(loop[depth].nxt, n)
    /\ loop' = [loop EXCEPT ![depth].nxt = n, ![depth].due = @ \ {loop[depth].nxt}]
    /\ UNCHANGED <<list, place, used, depth, owed, aborted>>

(* CUREF. *)
End ==
    /\ depth > 0 /\ loop[depth].nxt = Null
    /\ loop' = [loop EXCEPT ![depth] = NoLoop]
    /\ depth' = depth - 1
    /\ UNCHANGED <<list, place, used, owed, aborted>>

\* Mutant: the marker is linked in front (TOPLINK).
FightsBeginTop ==
    /\ depth = 0 /\ ~Fights /\ used < MaxPlace
    /\ list' = list \cup {Marker}
    /\ place' = [place EXCEPT ![Marker] = 0]
    /\ used' = used + 1
    /\ owed' = list
    /\ UNCHANGED <<depth, loop, aborted>>

(* violence_update links its marker, outside any loop. *)
FightsBegin ==
    /\ depth = 0 /\ ~Fights /\ used < MaxPlace
    /\ list' = list \cup {Marker}
    /\ place' = [place EXCEPT ![Marker] = used + 1]
    /\ used' = used + 1
    /\ owed' = list
    /\ UNCHANGED <<depth, loop, aborted>>

(* The first character goes to the end, and fights. *)
Fight(c) ==
    /\ depth = 0 /\ Fights /\ IsFirst(c) /\ c # Marker /\ used < MaxPlace
    /\ place' = [place EXCEPT ![c] = used + 1]
    /\ used' = used + 1
    /\ owed' = owed \ {c}
    /\ UNCHANGED <<list, depth, loop, aborted>>

(* The marker is in front. *)
FightsEnd ==
    /\ depth = 0 /\ IsFirst(Marker)
    /\ list' = list \ {Marker}
    /\ place' = [place EXCEPT ![Marker] = 0]
    /\ UNCHANGED <<used, depth, loop, owed, aborted>>

ListInit ==
    /\ list = {} /\ place = [c \in Nodes |-> 0] /\ used = 0
    /\ depth = 0 /\ loop = [i \in 1 .. MaxDepth |-> NoLoop]
    /\ owed = {} /\ aborted = FALSE

ListNext ==
    /\ ~aborted
    /\ \/ \E c \in Chars : Create(c) \/ Fight(c)
       \/ \E c \in Chars, n \in Nodes \cup {Null} : Extract(c, n) \/ Die(c, n)
       \/ \E s \in Sites : BeginAgain(s) \/ \E n \in Nodes \cup {Null} : Begin(s, n)
       \/ \E n \in Nodes \cup {Null} : Step(n)
       \/ End \/ FightsBegin \/ FightsEnd

ListSpec == ListInit /\ [][ListNext]_listVars

-----------------------------------------------------------------------------
ListTypeOK ==
    /\ list \subseteq Nodes
    /\ place \in [Nodes -> 0 .. MaxPlace] /\ used \in 0 .. MaxPlace
    /\ depth \in 0 .. MaxDepth /\ loop \in [1 .. MaxDepth -> Loop]
    /\ owed \subseteq Chars /\ aborted \in BOOLEAN

\* No loop is ever about to visit a character that has been extracted, however
\* deep in the loops inside it that happened ("Updated pointer referencing",
\* handler.c).
CursorInList == \A i \in Running : loop[i].nxt \in list \cup {Null}

\* What a loop still owes is ahead of it, and what is ahead it still owes: it
\* skips nobody and visits nobody twice.
LoopsExact ==
    \A i \in Running :
        loop[i].due = IF loop[i].nxt = Null THEN {}
                      ELSE {x \in list : place[x] >= place[loop[i].nxt]}

\* "until the marker is at the head of the list.  That will indicate all chars
\* have been processed" (violence_update): those before the marker are those
\* that have not fought yet, whoever was created or extracted meanwhile.
FightsOwed == owed = IF Fights THEN {c \in list : place[c] < place[Marker]} ELSE {}

Promised == INSTANCE Traversal
    WITH alive <- list \ {Marker},
         walks <- [i \in 1 .. MaxDepth |-> IF i <= depth THEN loop[i].due \ {Marker} ELSE {}],
         round <- owed

\* The list keeps the promise of Traversal.
ImplementsTraversal == Promised!Spec
==============================================================================
