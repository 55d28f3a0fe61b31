----------------------------- MODULE AuthThrottle -----------------------------
(***************************************************************************)
(* The table of failed logins by address: auth_fail_index and its callers  *)
(* (comm.c), as nanny uses them in CON_GET_OLD_PASSWORD.                   *)
(*                                                                         *)
(* Times are ages: current_time - window_start, up to Window + 1.          *)
(***************************************************************************)
EXTENDS Integers, FiniteSetsExt

CONSTANTS
    Addresses,      \* the addresses of players
    None,           \* an empty ip: the slot is free
    Slots,          \* AUTH_FAIL_SLOTS
    Limit,          \* AUTH_FAIL_LIMIT
    Window          \* AUTH_FAIL_WINDOW

Entry == [ip : Addresses \cup {None}, count : 0 .. Limit, age : 0 .. Window + 1]

Free == [ip |-> None, count |-> 0, age |-> 0]

VARIABLES
    auth_fails,     \* the table
    recent          \* recent[a][s], which the code does not have: the failures
                    \* of a in the last s seconds, since it was last let in or
                    \* lost its slot to another address

Expired(e) == e.ip # None /\ e.age > Window

Matches(t, a) == {i \in DOMAIN t : t[i].ip = a /\ ~Expired(t[i])}

\* Where the scan ends.
Found(t, a) == Min(Matches(t, a) \cup {Slots + 1})

\* The slots the scan leaves free.
Freed(t, a) ==
    [i \in DOMAIN t |-> IF i < Found(t, a) /\ Expired(t[i]) THEN Free ELSE t[i]]

\* free_i: the first free slot, or the first of all.
FreeSlot(t, a) ==
    LET free == {i \in DOMAIN t : Freed(t, a)[i].ip = None}
    IN  IF free = {} THEN 1 ELSE Min(free)

\* auth_fail_index: the slot of a ...
Index(t, a) == IF Found(t, a) <= Slots THEN Found(t, a) ELSE FreeSlot(t, a)

\* Mutant: the count of whoever had the slot is kept.
LookedUpCounted(t, a) ==
    IF Found(t, a) <= Slots THEN Freed(t, a)
    ELSE [Freed(t, a) EXCEPT ![Index(t, a)] = [ip |-> a, count |-> @.count, age |-> 0]]

\* Mutant: the window begins again whenever it is looked up.
LookedUpAnew(t, a) ==
    [Freed(t, a) EXCEPT ![Index(t, a)] =
        [ip |-> a, count |-> IF Found(t, a) <= Slots THEN @.count ELSE 0, age |-> 0]]

\* ... and what it does to the table.
LookedUp(t, a) ==
    IF Found(t, a) <= Slots THEN Freed(t, a)
    ELSE [Freed(t, a) EXCEPT ![Index(t, a)] = [ip |-> a, count |-> 0, age |-> 0]]

\* auth_is_throttled
Throttled(t, a) == LookedUp(t, a)[Index(t, a)].count >= Limit

\* auth_clear_failures
Cleared(t, a) ==
    LET same == {i \in DOMAIN t : t[i].ip = a}
    IN  IF same = {} THEN t ELSE [t EXCEPT ![Min(same)] = Free]

\* auth_note_failure
Noted(t, a) ==
    LET e == LookedUp(t, a)[Index(t, a)]
    IN  [LookedUp(t, a) EXCEPT ![Index(t, a)] =
            IF e.age > Window THEN [e EXCEPT !.count = 1, !.age = 0] ELSE [e EXCEPT !.count = e.count + 1]]

\* Whom the lookup costs his slot: the table is full.
Overrun(a) == {Freed(auth_fails, a)[Index(auth_fails, a)].ip} \ {None, a}

Forgotten(S) ==
    [a \in Addresses |-> IF a \in S THEN [s \in 0 .. Window |-> 0] ELSE recent[a]]

-----------------------------------------------------------------------------
\* A login from a that has too many failures behind it.
Refuse(a) ==
    /\ Throttled(auth_fails, a)
    /\ auth_fails' = LookedUp(auth_fails, a)
    /\ UNCHANGED recent

\* A wrong password.
Fail(a) ==
    /\ ~Throttled(auth_fails, a)
    /\ auth_fails' = Noted(LookedUp(auth_fails, a), a)
    /\ recent' = [Forgotten(Overrun(a)) EXCEPT ![a] = [s \in 0 .. Window |-> recent[a][s] + 1]]

\* The right one.
Succeed(a) ==
    /\ ~Throttled(auth_fails, a)
    /\ auth_fails' = Cleared(LookedUp(auth_fails, a), a)
    /\ recent' = Forgotten(Overrun(a) \cup {a})

\* A second goes by.
Tick ==
    /\ auth_fails' = [i \in DOMAIN auth_fails |->
                        IF auth_fails[i].ip = None \/ Expired(auth_fails[i]) THEN auth_fails[i]
                        ELSE [auth_fails[i] EXCEPT !.age = @ + 1]]
    /\ recent' = [a \in Addresses |->
                    [s \in 0 .. Window |-> IF s = 0 THEN 0 ELSE recent[a][s - 1]]]

Init ==
    /\ auth_fails = [i \in 1 .. Slots |-> Free]
    /\ recent = [a \in Addresses |-> [s \in 0 .. Window |-> 0]]

-----------------------------------------------------------------------------
TypeOK ==
    /\ auth_fails \in [1 .. Slots -> Entry]
    /\ recent \in [Addresses -> [0 .. Window -> Nat]]

\* Nobody pays for another, or for what is long ago: what is counted against an
\* address it did, within the window, since it was last let in.
CountDeserved ==
    /\ TypeOK
    /\ \A i \in 1 .. Slots :
          LET e == auth_fails[i]
          IN  e.ip # None /\ ~Expired(e) => e.count <= recent[e.ip][e.age]

\* "rejected temporarily" (README): however often it tries meanwhile.
RefusedForAWhile ==
    \A a \in Addresses : []<>~Throttled(auth_fails, a)
==============================================================================
