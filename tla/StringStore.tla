---------------------------- MODULE StringStore ----------------------------
(***************************************************************************)
(* What the string manager promises its clients: a store of counted        *)
(* strings.  A handle is given out only when nobody holds it, keeps its    *)
(* text while it is held, and goes back to the store with the last of the  *)
(* releases that match its acquisitions.  Heap blocks, splits, merges,     *)
(* the free pointer, overflow and the boot-time table are all invisible.   *)
(***************************************************************************)
EXTENDS Integers

CONSTANTS Handle, Text

VARIABLE store      \* from the handles in use to their text and count

Entry == [text : Text, count : Nat \ {0}]
Held  == DOMAIN store

Init == store = [h \in {} |-> 0]

\* A text not yet held under a handle of the caller's gets a fresh handle.
New(h, t) ==
    /\ h \notin Held
    /\ store' = [x \in Held \cup {h} |-> IF x = h THEN [text |-> t, count |-> 1]
                                                  ELSE store[x]]

\* The store once n holders are left to the string at h.
Counted(h, n) == [store EXCEPT ![h] = [text |-> store[h].text, count |-> n]]

\* One more holder of a string that is already held.
Share(h) ==
    /\ h \in Held
    /\ store' = Counted(h, store[h].count + 1)

\* One holder less; the last one frees the handle.
Release(h) ==
    /\ h \in Held
    /\ store' = IF store[h].count > 1
                THEN Counted(h, store[h].count - 1)
                ELSE [x \in Held \ {h} |-> store[x]]

Next ==
    \E h \in Handle : Share(h) \/ Release(h) \/ \E t \in Text : New(h, t)

Spec == Init /\ [][Next]_store
=============================================================================
