---------------------------- MODULE MC_Building ----------------------------
EXTENDS Building

CONSTANTS b1, b2, r1, r2, r3, m1, m2, m3, o1, o2, o3, north, south, plain, fancy

MCRevDirs == (north :> south) @@ (south :> north)

\* Two rooms with a door between them, and an equipped mobile and an object in the second.
MCWorld ==
    [rooms |-> <<r1, r2>>, mobs |-> <<m1, m2>>, objs |-> <<o1, o2>>,
     text |-> [v \in Room \cup Mob \cup Obj |-> IF v \in {r1, r2, m1, m2, o1, o2} THEN fancy ELSE Nil],
     exit |-> [r \in Room |-> [d \in Dir |->
                 CASE r = r1 /\ d = north -> [to |-> r2, door |-> TRUE]
                   [] r = r2 /\ d = south -> [to |-> r1, door |-> TRUE]
                   [] OTHER -> Nil]],
     reset |-> [x \in Reset |-> CASE x = 1 -> [cmd |-> "D", a |-> r1, b |-> north]
                                  [] x = 2 -> [cmd |-> "M", a |-> m1, b |-> r2]
                                  [] x = 3 -> [cmd |-> "E", a |-> o1, b |-> Nil]
                                  [] x = 4 -> [cmd |-> "O", a |-> o1, b |-> r2]
                                  [] OTHER -> Nil],
     resets |-> <<1, 2, 3, 4>>,
     listed |-> [r \in Room |-> CASE r = r1 -> <<1>> [] r = r2 -> <<2, 3, 4>> [] OTHER -> <<>>]]
=============================================================================
