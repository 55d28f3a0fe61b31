--------------------------- MODULE Objects_proofs ---------------------------
(***************************************************************************)
(* Proofs about Objects, for any number of people, rooms and objects, and   *)
(* chains of containers of any length.                                      *)
(***************************************************************************)
EXTENDS Objects, FiniteSetTheorems, WellFoundedInduction, TLAPS

LEMMA Kinds ==
    /\ IsFiniteSet(Obj) /\ IsFiniteSet(Person) /\ Cardinality(Obj) \in Nat
    /\ Nil \notin Place /\ Nil \notin Obj /\ Nil \notin Person /\ Nil \notin Room /\ Nil \notin Slot
    /\ Place = Person \cup Room \cup Obj /\ Obj = Thing \cup Purse \cup Corpse
    /\ Obj \cap Person = {} /\ Obj \cap Room = {} /\ Room \cap Person = {} /\ Person = Player \cup Mob /\ Player \cap Mob = {}
    /\ Thing \cap Purse = {} /\ Thing \cap Corpse = {} /\ Purse \cap Corpse = {}
    /\ Bag \subseteq Thing /\ Lamp \subseteq Thing /\ Stock \subseteq Thing
    /\ {Moribund, Morgue, Donation} \subseteq Room
  BY ObjectsAssumption, FS_CardinalityType DEF Place, Obj, Person, Slot

-----------------------------------------------------------------------------
(* Induction, over the numbers up to n and over the parts of a finite set. *)

LEMMA Counting ==
    ASSUME NEW n \in Nat, NEW K, 0 \in K, \A k \in 1 .. n : k - 1 \in K => k \in K
    PROVE  0 .. n \subseteq K
  <1> DEFINE R == {ss \in Nat \X Nat : ss[1] < ss[2]}
             S == (0 .. n) \ K
  <1>1. IsWellFoundedOn(R, Nat)
    BY NatLessThanWellFounded DEF OpToRel
  <1>2. SUFFICES ASSUME S # {} PROVE FALSE
    OBVIOUS
  <1>3. ASSUME NEW k \in Nat PROVE <<k, k + 1>> \in R
    <2>1. <<k, k + 1>> \in Nat \X Nat /\ <<k, k + 1>>[1] = k /\ <<k, k + 1>>[2] = k + 1
      OBVIOUS
    <2>2. <<k, k + 1>>[1] < <<k, k + 1>>[2]
      BY <2>1
    <2>3. QED BY <2>1, <2>2, Zenon
  <1> HIDE DEF R
  <1>4. S \in SUBSET Nat
    OBVIOUS
  <1> HIDE DEF S
  <1>5. PICK m \in S : \A k \in S : ~(<<k, m>> \in R)
    BY <1>1, <1>2, <1>4, WFMin
  <1>6. m \in 1 .. n /\ m \notin K /\ m - 1 \in Nat /\ m - 1 \in 0 .. n /\ (m - 1) + 1 = m
    BY DEF S
  <1>7. m - 1 \in S
    BY <1>6 DEF S
  <1>8. <<m - 1, m>> \in R
    BY <1>3, <1>6
  <1>9. QED BY <1>5, <1>7, <1>8

One(T) == CHOOSE x \in T : TRUE

LEMMA OneIn == ASSUME NEW T, T # {} PROVE One(T) \in T
  BY DEF One

LEMMA Less ==
    ASSUME NEW S, IsFiniteSet(S), NEW T \in SUBSET S, NEW x \in T
    PROVE  /\ IsFiniteSet(T) /\ Cardinality(T) \in Nat \ {0} /\ Cardinality(T \ {x}) = Cardinality(T) - 1
  <1>1. IsFiniteSet(T)
    BY FS_Subset
  <1>2. Cardinality(T) \in Nat /\ Cardinality(T) # 0
    BY <1>1, FS_CardinalityType, FS_EmptySet
  <1>3. Cardinality(T \ {x}) = Cardinality(T) - 1
    BY <1>1, FS_RemoveElement
  <1>4. QED BY <1>1, <1>2, <1>3

\* What holds of the empty part, and of a part when it holds of all that have one
\* element less, holds of every part.
LEMMA ByParts ==
    ASSUME NEW S, IsFiniteSet(S), NEW K, {} \in K,
           \A T \in SUBSET S : T # {} /\ (\A x \in T : T \ {x} \in K) => T \in K
    PROVE  \A T \in SUBSET S : T \in K
  <1> DEFINE n == Cardinality(S)
             L == {i \in 0 .. n : \A T \in SUBSET S : Cardinality(T) = i => T \in K}
  <1>1. n \in Nat /\ \A T \in SUBSET S : IsFiniteSet(T) /\ Cardinality(T) \in 0 .. n /\ (Cardinality(T) = 0 <=> T = {})
    <2>1. n \in Nat
      BY FS_CardinalityType
    <2>2. \A T \in SUBSET S : IsFiniteSet(T) /\ Cardinality(T) \in Nat /\ Cardinality(T) <= n /\ (Cardinality(T) = 0 <=> T = {})
      BY FS_Subset, FS_CardinalityType, FS_EmptySet
    <2>3. QED BY <2>1, <2>2
  <1>2. 0 \in L
    <2>1. ASSUME NEW T \in SUBSET S, Cardinality(T) = 0 PROVE T \in K
      <3>1. T = {}
        BY <1>1, <2>1
      <3>2. QED BY <3>1
    <2>2. QED BY <1>1, <2>1
  <1>3. ASSUME NEW i \in 1 .. n, i - 1 \in L PROVE i \in L
    <2>1. SUFFICES ASSUME NEW T \in SUBSET S, Cardinality(T) = i PROVE T \in K
      BY <1>1
    <2>2. T # {}
      BY <1>1, <2>1
    <2>3. ASSUME NEW x \in T PROVE T \ {x} \in K
      <3>1. Cardinality(T \ {x}) = i - 1
        BY <2>1, Less
      <3>2. QED BY <1>3, <3>1
    <2>4. QED BY <2>2, <2>3
  <1> HIDE DEF L
  <1>4. 0 .. n \subseteq L
    BY <1>1, <1>2, <1>3, Counting
  <1>5. QED BY <1>1, <1>4 DEF L

-----------------------------------------------------------------------------
(* What an object is in: the least set that has its holder and is closed. *)

Chain(w, o, n, g) == g = [i \in 0 .. n |-> IF i = 0 THEN w.holder[o] ELSE Holder(w, g[i - 1])]

LEMMA ChainExists ==
    ASSUME NEW w, NEW o, NEW n \in Nat
    PROVE  \E g : Chain(w, o, n, g)
  <1> DEFINE K == {i \in 0 .. n : \E g : Chain(w, o, i, g)}
  <1>1. 0 \in K
    <2> DEFINE g == [i \in 0 .. 0 |-> w.holder[o]]
    <2>1. Chain(w, o, 0, g)
      BY DEF Chain
    <2> HIDE DEF g
    <2>2. QED BY <2>1
  <1>2. ASSUME NEW k \in 1 .. n, k - 1 \in K PROVE k \in K
    <2>1. PICK g : Chain(w, o, k - 1, g)
      BY <1>2
    <2> DEFINE h == [i \in 0 .. k |-> IF i = 0 THEN w.holder[o] ELSE Holder(w, g[i - 1])]
    <2>2. \A i \in 0 .. k - 1 : h[i] = g[i]
      <3>1. \A i \in 0 .. k - 1 : i \in 0 .. k
        OBVIOUS
      <3>2. \A i \in 0 .. k - 1 : g[i] = IF i = 0 THEN w.holder[o] ELSE Holder(w, g[i - 1])
        BY <2>1 DEF Chain
      <3>3. QED BY <3>1, <3>2
    <2>3. \A i \in 0 .. k : i # 0 => i - 1 \in 0 .. k - 1
      OBVIOUS
    <2>4. h = [i \in 0 .. k |-> IF i = 0 THEN w.holder[o] ELSE Holder(w, h[i - 1])]
      BY <2>2, <2>3
    <2>5. Chain(w, o, k, h)
      BY <2>4 DEF Chain
    <2> HIDE DEF h
    <2>6. QED BY <2>5
  <1> HIDE DEF K
  <1>3. n \in K
    BY <1>1, <1>2, Counting
  <1>4. QED BY <1>3 DEF K

LEMMA AboveIs ==
    ASSUME NEW w, NEW o
    PROVE  \E g : /\ Chain(w, o, Cardinality(Obj), g)
                  /\ Above(w, o) = {g[n] : n \in 0 .. Cardinality(Obj)} \ {Nil}
  <1> DEFINE g == CHOOSE g : Chain(w, o, Cardinality(Obj), g)
  <1>1. Chain(w, o, Cardinality(Obj), g)
    BY Kinds, ChainExists
  <1>2. Above(w, o) = {g[n] : n \in 0 .. Cardinality(Obj)} \ {Nil}
    BY DEF Above, Chain
  <1> HIDE DEF g
  <1>3. QED BY <1>1, <1>2

Holders == [Obj -> Place \cup {Nil}]

LEMMA HolderIs ==
    ASSUME NEW w, w.holder \in Holders, NEW x
    PROVE  /\ Holder(w, x) \in Place \cup {Nil}
           /\ x \in Obj => Holder(w, x) = w.holder[x]
           /\ x \notin Obj => Holder(w, x) = Nil
  BY DEF Holder, Holders

\* Two places of the chain that are the same go on the same.
LEMMA Periodic ==
    ASSUME NEW w, NEW o, NEW n \in Nat, NEW g, Chain(w, o, n, g),
           NEW i \in 0 .. n, NEW j \in 0 .. n, i < j, g[i] = g[j]
    PROVE  g[i + (n - j)] = g[n]
  <1> DEFINE K == {k \in 0 .. n - j : g[i + k] = g[j + k]}
  <1>1. 0 \in K
    OBVIOUS
  <1>2. ASSUME NEW k \in 1 .. n - j, k - 1 \in K PROVE k \in K
    <2>1. i + k \in 0 .. n /\ j + k \in 0 .. n /\ i + k # 0 /\ j + k # 0
      OBVIOUS
    <2>2. g[i + k] = Holder(w, g[i + k - 1]) /\ g[j + k] = Holder(w, g[j + k - 1])
      BY <2>1 DEF Chain
    <2>3. i + (k - 1) = i + k - 1 /\ j + (k - 1) = j + k - 1
      OBVIOUS
    <2>4. g[i + k - 1] = g[j + k - 1]
      BY <1>2, <2>3
    <2>5. QED BY <2>2, <2>4
  <1> HIDE DEF K
  <1>3. n - j \in Nat
    OBVIOUS
  <1>4. n - j \in K
    BY <1>1, <1>2, <1>3, Counting
  <1>5. j + (n - j) = n
    OBVIOUS
  <1>6. QED BY <1>4, <1>5 DEF K

\* A chain that is as long as there are objects meets one twice, or ends.
LEMMA ChainTurns ==
    ASSUME NEW w, w.holder \in Holders, NEW o \in Obj, NEW g, Chain(w, o, Cardinality(Obj), g), g[Cardinality(Obj)] \in Obj
    PROVE  \E i, j \in 0 .. Cardinality(Obj) : i < j /\ g[i] = g[j]
  <1> DEFINE n == Cardinality(Obj)
             K == {k \in 0 .. n : g[n - k] \in Obj}
  <1>1. n \in Nat
    BY Kinds
  <1>2. 0 \in K
    BY <1>1
  <1>3. ASSUME NEW k \in 1 .. n, k - 1 \in K PROVE k \in K
    <2>1. n - (k - 1) \in 0 .. n /\ n - (k - 1) # 0 /\ n - (k - 1) - 1 = n - k
      BY <1>1
    <2>2. g[n - (k - 1)] = Holder(w, g[n - k])
      BY <2>1 DEF Chain
    <2>3. g[n - k] \in Obj
      BY <1>3, <2>2, HolderIs, Kinds
    <2>4. QED BY <2>3
  <1> HIDE DEF K
  <1>4. 0 .. n \subseteq K
    BY <1>1, <1>2, <1>3, Counting
  <1>5. \A i \in 0 .. n : g[i] \in Obj
    <2>1. SUFFICES ASSUME NEW i \in 0 .. n PROVE g[i] \in Obj
      OBVIOUS
    <2>2. n - i \in 0 .. n /\ n - (n - i) = i
      BY <1>1
    <2>3. n - i \in K
      BY <1>4, <2>2
    <2>4. QED BY <2>2, <2>3 DEF K
  <1>6. g \in [0 .. n -> Obj]
    <2>1. g = [i \in 0 .. n |-> g[i]]
      BY DEF Chain
    <2>2. QED BY <1>5, <2>1
  <1>7. IsFiniteSet(0 .. n) /\ Cardinality(0 .. n) = n + 1
    BY <1>1, FS_Interval
  <1>8. n < Cardinality(0 .. n)
    BY <1>1, <1>7
  <1>9. \E x, y \in 0 .. n : x # y /\ g[x] = g[y]
    <2>1. IsFiniteSet(Obj) /\ Cardinality(Obj) < Cardinality(0 .. n)
      BY <1>8, Kinds
    <2> HIDE DEF n
    <2>2. QED BY <1>6, <1>7, <2>1, FS_PigeonHole
  <1>10. QED BY <1>1, <1>9

LEMMA Aboves ==
    ASSUME NEW w, w.holder \in Holders, NEW o \in Obj
    PROVE  /\ Above(w, o) \subseteq Place
           /\ w.holder[o] # Nil => w.holder[o] \in Above(w, o)
           /\ \A x \in Above(w, o) \cap Obj : w.holder[x] # Nil => w.holder[x] \in Above(w, o)
  <1> DEFINE n == Cardinality(Obj)
  <1>1. n \in Nat
    BY Kinds
  <1>2. PICK g : Chain(w, o, n, g) /\ Above(w, o) = {g[i] : i \in 0 .. n} \ {Nil}
    BY AboveIs
  <1>3. \A i \in 0 .. n : g[i] = IF i = 0 THEN w.holder[o] ELSE Holder(w, g[i - 1])
    BY <1>2 DEF Chain
  <1>4. \A i \in 0 .. n : g[i] \in Place \cup {Nil}
    BY <1>3, HolderIs DEF Holders
  <1>5. 0 \in 0 .. n /\ g[0] = w.holder[o]
    BY <1>1, <1>3
  <1>6. ASSUME NEW x \in Above(w, o) \cap Obj, w.holder[x] # Nil PROVE w.holder[x] \in Above(w, o)
    <2>1. PICK i \in 0 .. n : x = g[i]
      BY <1>2
    <2>2. SUFFICES \E j \in 0 .. n - 1 : x = g[j]
      <3>1. PICK j \in 0 .. n - 1 : x = g[j]
        BY <2>2
      <3>2. j + 1 \in 0 .. n /\ j + 1 # 0 /\ (j + 1) - 1 = j
        BY <1>1
      <3>3. g[j + 1] = Holder(w, x)
        BY <1>3, <3>1, <3>2
      <3>4. g[j + 1] = w.holder[x]
        BY <3>3, HolderIs
      <3>5. QED BY <1>2, <1>6, <3>2, <3>4
    <2>3. CASE i # n
      BY <1>1, <2>1, <2>3
    <2>4. CASE i = n
      <3>0. g[n] \in Obj
        BY <2>1, <2>4
      <3>1. PICK k, j \in 0 .. n : k < j /\ g[k] = g[j]
        <4>1. Chain(w, o, Cardinality(Obj), g)
          BY <1>2
        <4>2. QED BY <3>0, <4>1, ChainTurns
      <3>2. g[k + (n - j)] = g[n]
        <4>1. Chain(w, o, n, g)
          BY <1>2
        <4> HIDE DEF n
        <4>2. QED BY <1>1, <3>1, <4>1, Periodic
      <3>3. k + (n - j) \in 0 .. n - 1
        BY <1>1, <3>1
      <3>4. QED BY <2>1, <2>4, <3>2, <3>3
    <2>5. QED BY <2>3, <2>4
  <1>7. QED BY <1>2, <1>4, <1>5, <1>6

LEMMA AboveLeast ==
    ASSUME NEW w, w.holder \in Holders, NEW o \in Obj, NEW X,
           w.holder[o] # Nil => w.holder[o] \in X,
           \A x \in X \cap Obj : w.holder[x] # Nil => w.holder[x] \in X
    PROVE  Above(w, o) \subseteq X
  <1> DEFINE n == Cardinality(Obj)
  <1>1. n \in Nat
    BY Kinds
  <1>2. PICK g : Chain(w, o, n, g) /\ Above(w, o) = {g[i] : i \in 0 .. n} \ {Nil}
    BY AboveIs
  <1>3. \A i \in 0 .. n : g[i] = IF i = 0 THEN w.holder[o] ELSE Holder(w, g[i - 1])
    BY <1>2 DEF Chain
  <1> DEFINE K == {i \in 0 .. n : g[i] # Nil => g[i] \in X}
  <1>4. 0 \in K
    BY <1>1, <1>3
  <1>5. ASSUME NEW i \in 1 .. n, i - 1 \in K PROVE i \in K
    <2>1. i \in 0 .. n /\ i # 0
      OBVIOUS
    <2>2. g[i] = Holder(w, g[i - 1])
      BY <1>3, <2>1
    <2>3. ASSUME g[i] # Nil PROVE g[i] \in X
      <3>1. g[i - 1] \in Obj /\ g[i] = w.holder[g[i - 1]]
        BY <2>2, <2>3, HolderIs
      <3>2. g[i - 1] \in X
        BY <1>5, <3>1, Kinds
      <3>3. QED BY <2>3, <3>1, <3>2
    <2>4. QED BY <2>1, <2>3
  <1> HIDE DEF K
  <1>6. 0 .. n \subseteq K
    BY <1>1, <1>4, <1>5, Counting
  <1>7. QED BY <1>2, <1>6 DEF K

LEMMA AboveStep ==
    ASSUME NEW w, w.holder \in Holders, NEW o \in Obj
    PROVE  /\ w.holder[o] = Nil => Above(w, o) = {}
           /\ w.holder[o] \in Place \ Obj => Above(w, o) = {w.holder[o]}
           /\ w.holder[o] \in Obj => Above(w, o) = {w.holder[o]} \cup Above(w, w.holder[o])
  <1>1. ASSUME w.holder[o] = Nil PROVE Above(w, o) = {}
    <2> DEFINE X == {}
    <2>0. \A x \in X \cap Obj : w.holder[x] # Nil => w.holder[x] \in X
      OBVIOUS
    <2> HIDE DEF X
    <2>1. Above(w, o) \subseteq X
      BY <1>1, <2>0, AboveLeast
    <2>2. QED BY <2>1 DEF X
  <1>2. ASSUME w.holder[o] \in Place \ Obj PROVE Above(w, o) = {w.holder[o]}
    <2> DEFINE X == {w.holder[o]}
    <2>0. w.holder[o] \in X /\ \A x \in X \cap Obj : w.holder[x] # Nil => w.holder[x] \in X
      BY <1>2
    <2> HIDE DEF X
    <2>1. Above(w, o) \subseteq {w.holder[o]}
      BY <2>0, AboveLeast DEF X
    <2>2. w.holder[o] \in Above(w, o)
      BY <1>2, Aboves, Kinds
    <2>3. QED BY <2>1, <2>2
  <1>3. ASSUME w.holder[o] \in Obj PROVE Above(w, o) = {w.holder[o]} \cup Above(w, w.holder[o])
    <2> DEFINE k == w.holder[o]
               X == {k} \cup Above(w, k)
    <2>1. \A x \in X \cap Obj : w.holder[x] # Nil => w.holder[x] \in X
      BY <1>3, Aboves
    <2>2. Above(w, o) \subseteq X
      <3> HIDE DEF X
      <3>1. w.holder[o] \in X
        BY DEF X
      <3>2. QED BY <2>1, <3>1, AboveLeast
    <2>3. k \in Above(w, o) /\ \A x \in Above(w, o) \cap Obj : w.holder[x] # Nil => w.holder[x] \in Above(w, o)
      BY <1>3, Aboves, Kinds
    <2>4. Above(w, k) \subseteq Above(w, o)
      BY <1>3, <2>3, AboveLeast
    <2>5. QED BY <2>2, <2>3, <2>4
  <1>4. QED BY <1>1, <1>2, <1>3

LEMMA AboveAbove ==
    ASSUME NEW w, w.holder \in Holders, NEW o \in Obj, NEW x \in Above(w, o), x \in Obj
    PROVE  Above(w, x) \subseteq Above(w, o) /\ w.holder[o] \in Obj
  <1>1. Above(w, x) \subseteq Above(w, o)
    <2> DEFINE X == Above(w, o)
    <2>1. /\ w.holder[x] # Nil => w.holder[x] \in X
          /\ \A z \in X \cap Obj : w.holder[z] # Nil => w.holder[z] \in X
      BY Aboves
    <2> HIDE DEF X
    <2>2. Above(w, x) \subseteq X
      BY <2>1, AboveLeast
    <2>3. QED BY <2>2 DEF X
  <1>2. w.holder[o] \in Obj
    <2>1. w.holder[o] # Nil
      BY AboveStep
    <2>2. w.holder[o] \notin Place \ Obj
      BY AboveStep
    <2>3. QED BY <2>1, <2>2 DEF Holders
  <1>3. QED BY <1>1, <1>2

\* What is in o at any depth, and o itself.
Mass(w, o) == {o} \cup Inside(w, o)

LEMMA MassIs ==
    ASSUME NEW w, w.holder \in Holders, NEW o \in Obj
    PROVE  /\ Mass(w, o) = {x \in Obj : x = o \/ o \in Above(w, x)}
           /\ \A x \in Obj : w.holder[x] \in Mass(w, o) => x \in Mass(w, o)
           /\ \A x \in Mass(w, o) : x # o => w.holder[x] \in Mass(w, o)
  <1>1. \A x \in Obj : o \in Above(w, x) => w.holder[x] \in Obj
    BY AboveAbove
  <1>2. Mass(w, o) = {x \in Obj : x = o \/ o \in Above(w, x)}
    BY <1>1 DEF Mass, Inside
  <1>3. ASSUME NEW x \in Obj, w.holder[x] \in Mass(w, o) PROVE x \in Mass(w, o)
    <2>1. w.holder[x] \in Obj
      BY <1>2, <1>3
    <2>2. Above(w, x) = {w.holder[x]} \cup Above(w, w.holder[x])
      BY <2>1, AboveStep
    <2>3. QED BY <1>2, <1>3, <2>2
  <1>4. ASSUME NEW x \in Mass(w, o), x # o PROVE w.holder[x] \in Mass(w, o)
    <2>1. x \in Obj /\ o \in Above(w, x) /\ w.holder[x] \in Obj
      BY <1>1, <1>2, <1>4
    <2>2. Above(w, x) = {w.holder[x]} \cup Above(w, w.holder[x])
      BY <2>1, AboveStep
    <2>3. QED BY <1>2, <2>1, <2>2
  <1>5. QED BY <1>2, <1>3, <1>4

\* Whoever has what is in o has o.
LEMMA Through ==
    ASSUME NEW w, w.holder \in Holders, NEW o \in Obj, NEW x \in Mass(w, o)
    PROVE  /\ Above(w, x) \ Obj = Above(w, o) \ Obj
           /\ Above(w, o) \subseteq Above(w, x)
  <1> DEFINE X == Above(w, o) \cup Mass(w, o)
  <1>1. x \in Obj /\ (x = o \/ o \in Above(w, x))
    BY MassIs
  <1>2. Above(w, o) \subseteq Above(w, x)
    BY <1>1, AboveAbove
  <1>3. \A y \in X \cap Obj : w.holder[y] # Nil => w.holder[y] \in X
    BY MassIs, Aboves
  <1>4. w.holder[x] # Nil => w.holder[x] \in X
    BY MassIs, Aboves
  <1> HIDE DEF X
  <1>5. Above(w, x) \subseteq X
    BY <1>1, <1>3, <1>4, AboveLeast
  <1>6. Mass(w, o) \subseteq Obj
    BY MassIs
  <1>7. QED BY <1>2, <1>5, <1>6 DEF X

\* The two worlds have the same places, except of G.
Apart(w, u, G) == \A x \in Obj \ G : u.holder[x] = w.holder[x]

LEMMA AboveSame ==
    ASSUME NEW w, w.holder \in Holders, NEW u, u.holder \in Holders, NEW G, Apart(w, u, G),
           NEW x \in Obj, x \notin G, Above(w, x) \cap G = {}
    PROVE  Above(u, x) = Above(w, x)
  <1>1. u.holder[x] = w.holder[x]
    BY DEF Apart
  <1>2. w.holder[x] # Nil => w.holder[x] \in Above(w, x)
    BY Aboves
  <1>3. \A y \in Above(w, x) \cap Obj : u.holder[y] # Nil => u.holder[y] \in Above(w, x)
    BY Aboves DEF Apart
  <1>4. Above(u, x) \subseteq Above(w, x)
    BY <1>1, <1>2, <1>3, AboveLeast
  <1>5. \A y \in Above(u, x) \cap Obj : w.holder[y] # Nil => w.holder[y] \in Above(u, x)
    BY <1>4, Aboves DEF Apart
  <1>6. u.holder[x] # Nil => u.holder[x] \in Above(u, x)
    BY Aboves
  <1>7. Above(w, x) \subseteq Above(u, x)
    BY <1>1, <1>5, <1>6, AboveLeast
  <1>8. QED BY <1>4, <1>7

LEMMA AboveCut ==
    ASSUME NEW w, w.holder \in Holders, NEW u, u.holder \in Holders, NEW G, Apart(w, u, G),
           \A x \in Obj \cap G : u.holder[x] = Nil, NEW x \in Obj
    PROVE  Above(u, x) \subseteq Above(w, x)
  <1>1. u.holder[x] # Nil => u.holder[x] \in Above(w, x)
    BY Aboves DEF Apart
  <1>2. \A y \in Above(w, x) \cap Obj : u.holder[y] # Nil => u.holder[y] \in Above(w, x)
    BY Aboves DEF Apart
  <1>3. QED BY <1>1, <1>2, AboveLeast

\* Nothing is in itself.
Tree(w) == w.holder \in Holders /\ \A o \in Obj : o \notin Above(w, o)

LEMMA TreeSame ==
    ASSUME NEW w, Tree(w), NEW u, u.holder = w.holder
    PROVE  Tree(u) /\ \A x \in Obj : Above(u, x) = Above(w, x) /\ Mass(u, x) = Mass(w, x)
  <1>1. w.holder \in Holders /\ u.holder \in Holders /\ Apart(w, u, {})
    BY DEF Tree, Apart
  <1>2. ASSUME NEW x \in Obj PROVE Above(u, x) = Above(w, x)
    <2> DEFINE G == {}
    <2>1. x \notin G /\ Above(w, x) \cap G = {} /\ Apart(w, u, G)
      BY <1>1
    <2> HIDE DEF G
    <2>2. QED BY <1>1, <2>1, AboveSame
  <1>3. ASSUME NEW x \in Obj PROVE Mass(u, x) = Mass(w, x)
    <2>1. /\ Mass(u, x) = {y \in Obj : y = x \/ x \in Above(u, y)}
          /\ Mass(w, x) = {y \in Obj : y = x \/ x \in Above(w, y)}
      BY <1>1, MassIs
    <2>2. QED BY <1>2, <2>1
  <1>4. QED BY <1>1, <1>2, <1>3 DEF Tree

LEMMA TreeCut ==
    ASSUME NEW w, Tree(w), NEW u, u.holder \in Holders, NEW G, Apart(w, u, G), \A x \in Obj \cap G : u.holder[x] = Nil
    PROVE  Tree(u)
  <1>1. \A x \in Obj : Above(u, x) \subseteq Above(w, x)
    BY AboveCut DEF Tree
  <1>2. QED BY <1>1 DEF Tree

\* o is taken out of whatever it is in.
LEMMA Outs ==
    ASSUME NEW w, Tree(w), NEW o \in Obj, NEW u, u.holder = [w.holder EXCEPT ![o] = Nil]
    PROVE  /\ Tree(u) /\ Mass(u, o) = Mass(w, o) /\ Above(u, o) = {}
           /\ \A x \in Obj \ Mass(w, o) : Above(u, x) = Above(w, x)
           /\ \A x \in Mass(w, o) : Above(u, x) \subseteq Obj
  <1>1. w.holder \in Holders /\ u.holder \in Holders /\ u.holder[o] = Nil /\ Apart(w, u, {o})
    BY DEF Tree, Holders, Apart
  <1>2. Tree(u)
    BY <1>1, TreeCut
  <1>3. ASSUME NEW x \in Obj \ Mass(w, o) PROVE Above(u, x) = Above(w, x)
    <2>1. x # o /\ Above(w, x) \cap {o} = {}
      BY <1>1, MassIs
    <2>2. QED BY <1>1, <2>1, AboveSame
  <1>4. Above(u, o) = {}
    BY <1>1, AboveStep
  <1>5. ASSUME NEW x \in Obj \ Mass(w, o) PROVE x \notin Mass(u, o)
    BY <1>1, <1>3, MassIs
  <1> DEFINE X == Mass(u, o)
  <1>6. ASSUME NEW x \in Mass(w, o) PROVE x \in Mass(u, o)
    <2>1. x \in Obj /\ (x = o \/ o \in Above(w, x))
      BY <1>1, MassIs
    <2>2. ASSUME x \notin Mass(u, o) PROVE FALSE
      <3>1. x # o /\ Above(u, x) \cap {o} = {}
        BY <1>1, <2>1, <2>2, MassIs
      <3>2. Apart(u, w, {o})
        BY <1>1 DEF Apart
      <3>3. Above(w, x) = Above(u, x)
        BY <1>1, <2>1, <3>1, <3>2, AboveSame
      <3>4. QED BY <2>1, <3>1, <3>3
    <2>3. QED BY <2>2
  <1>7. Mass(u, o) = Mass(w, o)
    <2>1. Mass(u, o) \subseteq Obj /\ Mass(w, o) \subseteq Obj
      BY <1>1, MassIs
    <2>2. QED BY <1>5, <1>6, <2>1
  <1>8. ASSUME NEW x \in Mass(w, o) PROVE Above(u, x) \subseteq Obj
    BY <1>1, <1>4, <1>7, Through
  <1>9. QED BY <1>2, <1>3, <1>4, <1>7, <1>8

\* o, that is nowhere, is put somewhere, not inside itself.
LEMMA Ins ==
    ASSUME NEW w, Tree(w), NEW o \in Obj, w.holder[o] = Nil, NEW y \in Place, y \notin Mass(w, o),
           NEW u, u.holder = [w.holder EXCEPT ![o] = y]
    PROVE  /\ Tree(u) /\ Mass(u, o) = Mass(w, o)
           /\ Above(u, o) = {y} \cup (IF y \in Obj THEN Above(w, y) ELSE {})
           /\ \A x \in Obj \ Mass(w, o) : Above(u, x) = Above(w, x)
           /\ \A x \in Mass(w, o) : Above(u, x) \ Obj = Above(u, o) \ Obj
  <1>1. w.holder \in Holders /\ u.holder \in Holders /\ u.holder[o] = y /\ Apart(w, u, {o}) /\ Apart(u, w, {o})
    BY DEF Tree, Holders, Apart
  <1>2. ASSUME NEW x \in Obj \ Mass(w, o) PROVE Above(u, x) = Above(w, x)
    <2>1. x # o /\ Above(w, x) \cap {o} = {}
      BY <1>1, MassIs
    <2>2. QED BY <1>1, <2>1, AboveSame
  <1>3. Above(u, o) = {y} \cup (IF y \in Obj THEN Above(w, y) ELSE {})
    BY <1>1, <1>2, AboveStep, Kinds
  <1>4. ASSUME NEW x \in Mass(w, o) PROVE x \in Mass(u, o)
    <2>1. x \in Obj /\ (x = o \/ o \in Above(w, x))
      BY <1>1, MassIs
    <2>2. ASSUME x \notin Mass(u, o) PROVE FALSE
      <3>1. x # o /\ Above(u, x) \cap {o} = {}
        BY <1>1, <2>1, <2>2, MassIs
      <3>2. Above(w, x) = Above(u, x)
        BY <1>1, <2>1, <3>1, AboveSame
      <3>3. QED BY <2>1, <3>1, <3>2
    <2>3. QED BY <2>2
  <1>5. Mass(u, o) = Mass(w, o)
    <2>1. Mass(u, o) \subseteq Obj /\ Mass(w, o) \subseteq Obj
      BY <1>1, MassIs
    <2>2. ASSUME NEW x \in Obj \ Mass(w, o) PROVE x \notin Mass(u, o)
      BY <1>1, <1>2, MassIs
    <2>3. QED BY <1>4, <2>1, <2>2
  <1>6. \A x \in Mass(w, o) : Above(u, x) \ Obj = Above(u, o) \ Obj
    BY <1>1, <1>5, Through
  <1>7. o \notin Above(u, o)
    <2>1. y # o /\ (y \in Obj => o \notin Above(w, y))
      BY <1>1, MassIs
    <2>2. QED BY <1>3, <2>1
  <1>8. ASSUME NEW x \in Obj PROVE x \notin Above(u, x)
    <2>1. CASE x \notin Mass(w, o)
      BY <1>2, <2>1 DEF Tree
    <2>2. CASE x \in Mass(w, o)
      <3>1. SUFFICES ASSUME x \in Above(u, x) PROVE FALSE
        OBVIOUS
      <3>2. x # o
        BY <1>7, <3>1
      <3> DEFINE X == {z \in Above(w, x) : z \in Mass(w, o)} \cup Above(u, o)
      <3>3. u.holder[x] # Nil => u.holder[x] \in X
        BY <1>1, <2>2, <3>2, Aboves, MassIs DEF Apart
      <3>4. ASSUME NEW z \in X \cap Obj, u.holder[z] # Nil PROVE u.holder[z] \in X
        <4>1. CASE z = o
          BY <1>1, <3>4, <4>1, Aboves
        <4>2. CASE z \in Above(u, o)
          BY <1>1, <3>4, <4>2, Aboves
        <4>3. CASE z # o /\ z \in Above(w, x) /\ z \in Mass(w, o)
          <5>1. u.holder[z] = w.holder[z]
            BY <1>1, <3>4, <4>3 DEF Apart
          <5>2. w.holder[z] \in Above(w, x) /\ w.holder[z] \in Mass(w, o)
            BY <1>1, <3>4, <4>3, <5>1, Aboves, MassIs
          <5>3. QED BY <5>1, <5>2
        <4>4. QED BY <3>4, <4>1, <4>2, <4>3
      <3> HIDE DEF X
      <3>5. x \in X
        BY <1>1, <3>1, <3>3, <3>4, AboveLeast
      <3>6. x \in Above(u, o)
        BY <3>5 DEF X, Tree
      <3>7. o \in Above(u, x)
        BY <1>1, <1>4, <2>2, <3>2, MassIs
      <3>8. QED BY <1>1, <1>7, <3>6, <3>7, AboveAbove
    <2>3. QED BY <2>1, <2>2
  <1>9. QED BY <1>1, <1>2, <1>3, <1>5, <1>6, <1>8 DEF Tree

\* o is gone, and all that was in it.
LEMMA Gone ==
    ASSUME NEW w, Tree(w), NEW o \in Obj,
           NEW u, u.holder = [x \in Obj |-> IF x \in Mass(w, o) THEN Nil ELSE w.holder[x]]
    PROVE  /\ Tree(u)
           /\ \A x \in Obj \ Mass(w, o) : Above(u, x) = Above(w, x) /\ w.holder[x] \notin Mass(w, o)
           /\ \A x \in Mass(w, o) : Above(u, x) = {}
  <1>1. w.holder \in Holders /\ u.holder \in Holders /\ Apart(w, u, Mass(w, o)) /\ \A x \in Mass(w, o) : x \in Obj /\ u.holder[x] = Nil
    BY MassIs DEF Tree, Holders, Apart
  <1>2. Tree(u)
    BY <1>1, TreeCut
  <1>3. ASSUME NEW x \in Obj \ Mass(w, o) PROVE Above(u, x) = Above(w, x) /\ w.holder[x] \notin Mass(w, o)
    <2>1. ASSUME NEW y \in Above(w, x) \cap Mass(w, o) PROVE FALSE
      <3>1. y \in Obj /\ (y = o \/ o \in Above(w, y))
        BY <1>1, MassIs
      <3>2. o \in Above(w, x)
        BY <1>1, <3>1, AboveAbove
      <3>3. QED BY <1>1, <3>2, MassIs
    <2>2. QED BY <1>1, <2>1, AboveSame, MassIs
  <1>4. \A x \in Mass(w, o) : Above(u, x) = {}
    BY <1>1, AboveStep
  <1>5. QED BY <1>2, <1>3, <1>4

-----------------------------------------------------------------------------
(* Loops over a finite set, and sums. *)

\* One turn of the loops of the module.
Do(p, o, u) ==
    CASE p[1] = "sum"     -> p[2][o] + u
      [] p[1] = "extract" -> Extract(u, o)
      [] p[1] = "corpse"  -> ToObj(FromChar(u, o), o, p[2])
      [] p[1] = "strip"   -> Unequip(u, o)
      [] p[1] = "give"    -> ToChar(u, o, p[2])
      [] p[1] = "kit"     -> IF o \in p[3] THEN Equip(ToChar(u, o, p[2]), p[2], o, FALSE) ELSE ToChar(u, o, p[2])

LEMMA Does ==
    ASSUME NEW o, NEW u, NEW f, NEW on
    PROVE  /\ Do(<<"sum", f>>, o, u) = f[o] + u
           /\ Do(<<"extract">>, o, u) = Extract(u, o)
           /\ Do(<<"corpse", f>>, o, u) = ToObj(FromChar(u, o), o, f)
           /\ Do(<<"strip">>, o, u) = Unequip(u, o)
           /\ Do(<<"give", f>>, o, u) = ToChar(u, o, f)
           /\ Do(<<"kit", f, on>>, o, u) = IF o \in on THEN Equip(ToChar(u, o, f), f, o, FALSE) ELSE ToChar(u, o, f)
  BY DEF Do

Goes(p, S, b, g) == g = [T \in SUBSET S |-> IF T = {} THEN b ELSE Do(p, One(T), g[T \ {One(T)}])]

LEMMA GoesExists ==
    ASSUME NEW p, NEW S, IsFiniteSet(S), NEW b
    PROVE  \E g : Goes(p, S, b, g)
  <1> DEFINE N == Cardinality(S)
             P(n) == {T \in SUBSET S : Cardinality(T) <= n}
             Is(g, n) == g = [T \in P(n) |-> IF T = {} THEN b ELSE Do(p, One(T), g[T \ {One(T)}])]
             K == {n \in 0 .. N : \E g : Is(g, n)}
  <1>1. N \in Nat
    BY FS_CardinalityType
  <1>2. \A T \in SUBSET S : Cardinality(T) \in Nat /\ Cardinality(T) <= N /\ (Cardinality(T) = 0 <=> T = {})
    BY FS_Subset, FS_CardinalityType, FS_EmptySet
  <1>3. 0 \in K
    <2>1. \A T \in P(0) : T = {}
      BY <1>2
    <2> HIDE DEF P
    <2> DEFINE z == [T \in P(0) |-> b]
    <2>2. Is(z, 0)
      BY <2>1
    <2>3. \E g : Is(g, 0)
      BY <2>2, Zenon
    <2>4. 0 \in 0 .. N
      BY <1>1
    <2> HIDE DEF Is
    <2>5. QED BY <2>3, <2>4, Zenon
  <1>4. ASSUME NEW n \in 1 .. N, n - 1 \in K PROVE n \in K
    <2>1. PICK g : Is(g, n - 1)
      BY <1>4
    <2> DEFINE h == [T \in P(n) |-> IF T = {} THEN b ELSE Do(p, One(T), g[T \ {One(T)}])]
    <2>2. ASSUME NEW T \in P(n), T # {} PROVE T \ {One(T)} \in P(n - 1)
      <3>1. Cardinality(T) \in Nat \ {0} /\ Cardinality(T \ {One(T)}) = Cardinality(T) - 1
        BY <2>2, OneIn, Less
      <3>2. QED BY <1>1, <3>1
    <2>3. \A T \in P(n - 1) : T \in P(n)
      BY <1>1, <1>2
    <2>4. \A T \in P(n - 1) : h[T] = g[T]
      BY <2>1, <2>3
    <2>5. Is(h, n)
      BY <2>2, <2>4
    <2> HIDE DEF h
    <2>6. \E x : Is(x, n)
      BY <2>5, Zenon
    <2>7. n \in 0 .. N
      BY <1>1
    <2>8. QED BY <2>6, <2>7
  <1> HIDE DEF K
  <1>5. 0 .. N \subseteq K
    BY <1>1, <1>3, <1>4, Counting
  <1>6. N \in K
    BY <1>1, <1>5
  <1>7. P(N) = SUBSET S
    BY <1>2
  <1>8. PICK g : Is(g, N)
    BY <1>6 DEF K
  <1>9. Goes(p, S, b, g)
    BY <1>7, <1>8 DEF Goes
  <1>10. QED BY <1>9

LEMMA GoesOn ==
    ASSUME NEW p, NEW S, NEW b, NEW g, Goes(p, S, b, g)
    PROVE  g[{}] = b /\ \A T \in SUBSET S : T # {} => g[T] = Do(p, One(T), g[T \ {One(T)}])
  <1>1. {} \in SUBSET S
    OBVIOUS
  <1>2. QED BY <1>1 DEF Goes

\* A part goes the same, whatever it is a part of.
LEMMA GoesPart ==
    ASSUME NEW p, NEW S, IsFiniteSet(S), NEW b, NEW g, Goes(p, S, b, g),
           NEW T \in SUBSET S, NEW h, Goes(p, T, b, h)
    PROVE  h[T] = g[T]
  <1> DEFINE K == {U \in SUBSET T : h[U] = g[U]}
  <1>1. {} \in K
    <2>1. h[{}] = b /\ g[{}] = b
      <3>1. h[{}] = b
        BY GoesOn
      <3>2. g[{}] = b
        BY GoesOn
      <3>3. QED BY <3>1, <3>2
    <2>2. QED BY <2>1
  <1>2. ASSUME NEW U \in SUBSET T, U # {}, \A x \in U : U \ {x} \in K PROVE U \in K
    <2>1. h[U] = Do(p, One(U), h[U \ {One(U)}]) /\ g[U] = Do(p, One(U), g[U \ {One(U)}])
      <3>1. \A V \in SUBSET T : V # {} => h[V] = Do(p, One(V), h[V \ {One(V)}])
        BY DEF Goes
      <3>2. \A V \in SUBSET S : V # {} => g[V] = Do(p, One(V), g[V \ {One(V)}])
        BY DEF Goes
      <3>3. QED BY <1>2, <3>1, <3>2
    <2>2. U \ {One(U)} \in K
      BY <1>2, OneIn
    <2>3. QED BY <2>1, <2>2
  <1>3. IsFiniteSet(T)
    BY FS_Subset
  <1> HIDE DEF K
  <1>4. T \in K
    BY <1>1, <1>2, <1>3, ByParts
  <1>5. QED BY <1>4 DEF K

Sums(f, S, g) == g = [T \in SUBSET S |-> IF T = {} THEN 0 ELSE f[One(T)] + g[T \ {One(T)}]]

LEMMA TotalIs ==
    ASSUME NEW f, NEW S, IsFiniteSet(S)
    PROVE  \E g : Goes(<<"sum", f>>, S, 0, g) /\ Total(S, f) = g[S]
  <1> DEFINE g == CHOOSE g : Sums(f, S, g)
  <1>1. PICK h : Goes(<<"sum", f>>, S, 0, h)
    BY GoesExists
  <1>0. \A y, o : Do(<<"sum", f>>, o, y) = f[o] + y
    BY Does
  <1>2. Sums(f, S, h)
    BY <1>0, <1>1 DEF Goes, Sums
  <1>3. Sums(f, S, g)
    BY <1>2
  <1>4. Total(S, f) = g[S]
    BY DEF Total, MapThenSumSet, MapThenFoldSet, Sums, One
  <1> HIDE DEF g
  <1>5. Goes(<<"sum", f>>, S, 0, g)
    BY <1>0, <1>3 DEF Goes, Sums
  <1>6. QED BY <1>4, <1>5

LEMMA TotalStep ==
    ASSUME NEW f, NEW S, IsFiniteSet(S)
    PROVE  Total({}, f) = 0 /\ (S # {} => Total(S, f) = f[One(S)] + Total(S \ {One(S)}, f))
  <1>1. PICK g : Goes(<<"sum", f>>, S, 0, g) /\ Total(S, f) = g[S]
    BY TotalIs
  <1>2. ASSUME NEW T \in SUBSET S PROVE Total(T, f) = g[T]
    <2>1. IsFiniteSet(T)
      BY FS_Subset
    <2>2. PICK h : Goes(<<"sum", f>>, T, 0, h) /\ Total(T, f) = h[T]
      BY <2>1, TotalIs
    <2>3. h[T] = g[T]
      BY <1>1, <2>2, GoesPart
    <2>4. QED BY <2>2, <2>3
  <1>3. g[{}] = 0 /\ (S # {} => g[S] = f[One(S)] + g[S \ {One(S)}])
    <2>1. g[{}] = 0 /\ \A T \in SUBSET S : T # {} => g[T] = Do(<<"sum", f>>, One(T), g[T \ {One(T)}])
      BY <1>1, GoesOn
    <2>2. \A x, y : Do(<<"sum", f>>, x, y) = f[x] + y
      BY Does
    <2>3. S \in SUBSET S
      OBVIOUS
    <2>4. QED BY <2>1, <2>2, <2>3
  <1>4. {} \in SUBSET S /\ S \ {One(S)} \in SUBSET S
    OBVIOUS
  <1>5. QED BY <1>1, <1>2, <1>3, <1>4

LEMMA TotalInt ==
    ASSUME NEW S, IsFiniteSet(S), NEW f, \A x \in S : f[x] \in Int
    PROVE  \A T \in SUBSET S : Total(T, f) \in Int
  <1> DEFINE K == {T \in SUBSET S : Total(T, f) \in Int}
  <1>1. {} \in K
    <2>1. Total({}, f) = 0
      BY TotalStep
    <2>2. QED BY <2>1
  <1>2. ASSUME NEW T \in SUBSET S, T # {}, \A x \in T : T \ {x} \in K PROVE T \in K
    <2>1. IsFiniteSet(T) /\ One(T) \in T
      BY <1>2, FS_Subset, OneIn
    <2>2. Total(T, f) = f[One(T)] + Total(T \ {One(T)}, f)
      BY <1>2, <2>1, TotalStep
    <2>3. QED BY <1>2, <2>1, <2>2
  <1> HIDE DEF K
  <1>3. \A T \in SUBSET S : T \in K
    BY <1>1, <1>2, ByParts
  <1>4. QED BY <1>3 DEF K

\* It does not matter who is added last.
LEMMA TotalAdd ==
    ASSUME NEW S, IsFiniteSet(S), NEW f, \A x \in S : f[x] \in Int
    PROVE  \A T \in SUBSET S : \A a \in T : Total(T, f) = f[a] + Total(T \ {a}, f)
  <1> DEFINE K == {T \in SUBSET S : \A a \in T : Total(T, f) = f[a] + Total(T \ {a}, f)}
  <1>1. {} \in K
    OBVIOUS
  <1>2. ASSUME NEW T \in SUBSET S, T # {}, \A x \in T : T \ {x} \in K PROVE T \in K
    <2> DEFINE c == One(T)
    <2>0. IsFiniteSet(T)
      BY FS_Subset
    <2>1. c \in T /\ Total(T, f) = f[c] + Total(T \ {c}, f)
      BY <1>2, <2>0, OneIn, TotalStep
    <2> HIDE DEF c
    <2>2. ASSUME NEW a \in T, a # c PROVE Total(T, f) = f[a] + Total(T \ {a}, f)
      <3>1. Total(T \ {c}, f) = f[a] + Total((T \ {c}) \ {a}, f)
        BY <1>2, <2>1, <2>2
      <3>2. Total(T \ {a}, f) = f[c] + Total((T \ {a}) \ {c}, f)
        BY <1>2, <2>1, <2>2
      <3>3. (T \ {c}) \ {a} = (T \ {a}) \ {c}
        OBVIOUS
      <3> DEFINE V == (T \ {a}) \ {c}
      <3>4. Total(T \ {c}, f) = f[a] + Total(V, f) /\ Total(T \ {a}, f) = f[c] + Total(V, f)
        BY <3>1, <3>2, <3>3
      <3>5. V \in SUBSET S
        OBVIOUS
      <3> HIDE DEF V
      <3>6. Total(V, f) \in Int /\ f[a] \in Int /\ f[c] \in Int
        BY <2>1, <3>5, TotalInt
      <3>7. QED BY <2>1, <3>4, <3>6
    <2>3. QED BY <2>1, <2>2
  <1> HIDE DEF K
  <1>3. \A T \in SUBSET S : T \in K
    BY <1>1, <1>2, ByParts
  <1>4. QED BY <1>3 DEF K

LEMMA TotalNat ==
    ASSUME NEW S, IsFiniteSet(S), NEW f, \A x \in S : f[x] \in Nat
    PROVE  Total(S, f) \in Nat
  <1> DEFINE K == {T \in SUBSET S : Total(T, f) \in Nat}
  <1>1. {} \in K
    <2>1. Total({}, f) = 0
      BY TotalStep
    <2>2. QED BY <2>1
  <1>2. ASSUME NEW T \in SUBSET S, T # {}, \A x \in T : T \ {x} \in K PROVE T \in K
    <2>1. IsFiniteSet(T) /\ One(T) \in T
      BY <1>2, FS_Subset, OneIn
    <2>2. Total(T, f) = f[One(T)] + Total(T \ {One(T)}, f)
      BY <1>2, <2>1, TotalStep
    <2>3. QED BY <1>2, <2>1, <2>2
  <1> HIDE DEF K
  <1>3. \A T \in SUBSET S : T \in K
    BY <1>1, <1>2, ByParts
  <1>4. QED BY <1>3 DEF K

LEMMA TotalSame ==
    ASSUME NEW S, IsFiniteSet(S), NEW f, NEW g, \A x \in S : g[x] = f[x]
    PROVE  Total(S, g) = Total(S, f)
  <1> DEFINE K == {T \in SUBSET S : Total(T, g) = Total(T, f)}
  <1>1. {} \in K
    <2>1. Total({}, f) = 0 /\ Total({}, g) = 0
      BY TotalStep
    <2>2. QED BY <2>1
  <1>2. ASSUME NEW T \in SUBSET S, T # {}, \A x \in T : T \ {x} \in K PROVE T \in K
    <2>1. IsFiniteSet(T) /\ One(T) \in T
      BY <1>2, FS_Subset, OneIn
    <2>2. Total(T, f) = f[One(T)] + Total(T \ {One(T)}, f) /\ Total(T, g) = g[One(T)] + Total(T \ {One(T)}, g)
      BY <1>2, <2>1, TotalStep
    <2>3. QED BY <1>2, <2>1, <2>2
  <1> HIDE DEF K
  <1>3. \A T \in SUBSET S : T \in K
    BY <1>1, <1>2, ByParts
  <1>4. QED BY <1>3 DEF K

\* A sum is that of a part and that of the rest.
LEMMA TotalPart ==
    ASSUME NEW S, IsFiniteSet(S), NEW f, \A x \in S : f[x] \in Int, NEW B \in SUBSET S
    PROVE  Total(S, f) = Total(B, f) + Total(S \ B, f)
  <1> DEFINE K == {T \in SUBSET S : Total(T, f) = Total(T \cap B, f) + Total(T \ B, f)}
  <1>0. \A T \in SUBSET S : Total(T, f) \in Int
    BY TotalInt
  <1>1. {} \in K
    <2>1. Total({}, f) = 0 /\ {} \cap B = {} /\ {} \ B = {}
      BY TotalStep
    <2>2. QED BY <2>1
  <1>2. ASSUME NEW T \in SUBSET S, T # {}, \A x \in T : T \ {x} \in K PROVE T \in K
    <2>1. PICK c \in T : TRUE
      BY <1>2
    <2>2. Total(T, f) = f[c] + Total(T \ {c}, f)
      BY TotalAdd
    <2>3. Total(T \ {c}, f) = Total((T \ {c}) \cap B, f) + Total((T \ {c}) \ B, f)
      BY <1>2
    <2>4. CASE c \in B
      <3>1. (T \ {c}) \cap B = (T \cap B) \ {c} /\ (T \ {c}) \ B = T \ B
        BY <2>4
      <3>2. T \cap B \in SUBSET S /\ c \in T \cap B /\ T \ B \in SUBSET S /\ (T \cap B) \ {c} \in SUBSET S
        BY <2>4
      <3>3. Total(T \cap B, f) = f[c] + Total((T \cap B) \ {c}, f)
        BY <3>2, TotalAdd
      <3>4. Total((T \cap B) \ {c}, f) \in Int /\ Total(T \ B, f) \in Int /\ f[c] \in Int
        BY <1>0, <3>2
      <3>5. Total(T \ {c}, f) = Total((T \cap B) \ {c}, f) + Total(T \ B, f)
        BY <2>3, <3>1, Zenon
      <3>6. Total(T, f) = Total(T \cap B, f) + Total(T \ B, f)
        BY <2>2, <3>3, <3>4, <3>5
      <3>7. QED BY <3>6
    <2>5. CASE c \notin B
      <3>1. (T \ {c}) \ B = (T \ B) \ {c} /\ (T \ {c}) \cap B = T \cap B
        BY <2>5
      <3>2. T \ B \in SUBSET S /\ c \in T \ B /\ T \cap B \in SUBSET S /\ (T \ B) \ {c} \in SUBSET S
        BY <2>5
      <3>3. Total(T \ B, f) = f[c] + Total((T \ B) \ {c}, f)
        BY <3>2, TotalAdd
      <3>4. Total((T \ B) \ {c}, f) \in Int /\ Total(T \cap B, f) \in Int /\ f[c] \in Int
        BY <1>0, <3>2
      <3>5. Total(T \ {c}, f) = Total(T \cap B, f) + Total((T \ B) \ {c}, f)
        BY <2>3, <3>1, Zenon
      <3>6. Total(T, f) = Total(T \cap B, f) + Total(T \ B, f)
        BY <2>2, <3>3, <3>4, <3>5
      <3>7. QED BY <3>6
    <2>6. QED BY <2>4, <2>5
  <1> HIDE DEF K
  <1>3. S \in K
    <2>1. \A T \in SUBSET S : T \in K
      BY <1>1, <1>2, ByParts
    <2>2. QED BY <2>1
  <1>4. S \cap B = B
    OBVIOUS
  <1>5. QED BY <1>3, <1>4 DEF K

\* The sum of what every D has, when no two of them share.
LEMMA TotalOfTotals ==
    ASSUME NEW D, IsFiniteSet(D), NEW S, IsFiniteSet(S), NEW f, \A x \in S : f[x] \in Int,
           NEW M, \A d \in D : M[d] \in SUBSET S,
           \A d, e \in D : d # e => M[d] \cap M[e] = {},
           NEW h, \A d \in D : h[d] = Total(M[d], f)
    PROVE  Total(D, h) = Total(UNION {M[d] : d \in D}, f)
  <1> DEFINE U(T) == UNION {M[d] : d \in T}
             K == {T \in SUBSET D : Total(T, h) = Total(U(T), f)}
  <1>0. /\ \A T \in SUBSET S : Total(T, f) \in Int
        /\ \A T \in SUBSET D : U(T) \in SUBSET S
    <2>1. \A T \in SUBSET S : Total(T, f) \in Int
      BY TotalInt
    <2>2. QED BY <2>1
  <1>1. {} \in K
    <2>1. Total({}, f) = 0 /\ Total({}, h) = 0 /\ U({}) = {}
      BY TotalStep
    <2>2. QED BY <2>1
  <1>2. ASSUME NEW T \in SUBSET D, T # {}, \A x \in T : T \ {x} \in K PROVE T \in K
    <2>1. IsFiniteSet(T) /\ One(T) \in T
      BY <1>2, FS_Subset, OneIn
    <2> DEFINE c == One(T)
    <2>2. Total(T, h) = h[c] + Total(T \ {c}, h)
      BY <1>2, <2>1, TotalStep
    <2> HIDE DEF c
    <2>3. c \in T
      BY <2>1 DEF c
    <2>4. U(T \ {c}) = U(T) \ M[c] /\ M[c] \in SUBSET U(T) /\ U(T) \in SUBSET S /\ IsFiniteSet(U(T))
      <3>1. \A d \in T \ {c} : M[d] \cap M[c] = {}
        BY <2>3
      <3>2. U(T) \in SUBSET S
        BY <1>0
      <3>3. IsFiniteSet(U(T))
        BY <3>2, FS_Subset
      <3>4. QED BY <2>3, <3>1, <3>2, <3>3
    <2> HIDE DEF U
    <2>5. Total(U(T), f) = Total(M[c], f) + Total(U(T) \ M[c], f)
      <3>1. \A x \in U(T) : f[x] \in Int
        BY <2>4
      <3>2. QED BY <2>4, <3>1, TotalPart
    <2>6. Total(T \ {c}, h) = Total(U(T \ {c}), f)
      BY <1>2, <2>3
    <2>7. QED BY <2>2, <2>3, <2>4, <2>5, <2>6
  <1> HIDE DEF K
  <1>3. D \in K
    <2>1. \A T \in SUBSET D : T \in K
      BY <1>1, <1>2, ByParts
    <2>2. QED BY <2>1
  <1>4. QED BY <1>3 DEF K

-----------------------------------------------------------------------------
(* What is true of the world between the calls of a command.  P are those who  *)
(* may own something, L what is in nobody's hands just now: taken out of where  *)
(* it was, or made, and not yet put anywhere.                                   *)

World == [holder : Holders, slot : [Obj -> Slot \cup {Nil}], coins : [Purse -> Nat], tombs : SUBSET Corpse,
          number : [Person -> Int], load : [Person -> Int], light : [Room -> Nat]]

Owned(w, P) == \A x \in Obj : w.holder[x] \in Person => w.holder[x] \in P

Loose(w, L) ==
    /\ L \subseteq Obj /\ \A x \in L : w.holder[x] = Nil
    /\ \A x \in Obj : w.holder[x] \in Obj => w.holder[x] \in Bag \cup Corpse /\ (Exists(w, w.holder[x]) \/ w.holder[x] \in L)
    /\ \A k \in w.tombs : Exists(w, k) \/ k \in L
    /\ \A m \in Purse : Exists(w, m) \/ m \in L \/ w.coins[m] = 0

Dressed(w) ==
    /\ \A x \in Obj : w.slot[x] # Nil => x \in Thing /\ w.holder[x] \in Person /\ w.slot[x] = SlotOf[x]
    /\ \A x, y \in Obj : w.slot[x] # Nil /\ w.slot[y] = w.slot[x] /\ w.holder[y] = w.holder[x] => x = y

Carry(w, c) == {x \in Obj : c \in Above(w, x)}

Counted(w) ==
    \A c \in Person : w.number[c] = Cardinality(Held(w, c)) /\ w.load[c] = Total(Carry(w, c), Burden(w))

Bright(w, r) == {c \in People(r) : Burning(w, c) # {}}

Shining(w) == \A r \in Room : Cardinality(Bright(w, r)) <= w.light[r]

Fine(w, P, L) == w \in World /\ Tree(w) /\ Owned(w, P) /\ Loose(w, L) /\ Dressed(w) /\ Counted(w) /\ Shining(w)

Where == at \in [Person -> Room \cup {Nil}]

LEMMA BurdenNat ==
    ASSUME NEW w \in World
    PROVE  Burden(w) \in [Obj -> Nat]
  <1>1. ASSUME NEW x \in Purse PROVE w.coins[x] \div PerWeight \in Nat
    <2>1. w.coins[x] \in Nat /\ PerWeight \in Nat /\ PerWeight # 0
      BY ObjectsAssumption DEF World
    <2>2. \A i, j \in Nat : j # 0 => i \div j \in Nat
      OBVIOUS
    <2>3. QED BY <2>1, <2>2
  <1>2. \A x \in Obj : x \notin Purse => Weight[x] \in Nat
    BY ObjectsAssumption, Kinds
  <1>3. QED BY <1>1, <1>2 DEF Burden

LEMMA HeftIs ==
    ASSUME NEW w \in World, NEW o \in Obj
    PROVE  Heft(w, o) = Total(Mass(w, o), Burden(w)) /\ Heft(w, o) \in Nat
  <1>1. Heft(w, o) = Total(Mass(w, o), Burden(w))
    BY DEF Heft, Mass
  <1>2. Mass(w, o) \in SUBSET Obj /\ IsFiniteSet(Mass(w, o))
    <2>1. Mass(w, o) \in SUBSET Obj
      BY MassIs DEF World
    <2>2. QED BY <2>1, Kinds, FS_Subset
  <1>3. \A x \in Mass(w, o) : Burden(w)[x] \in Nat
    BY <1>2, BurdenNat
  <1>4. QED BY <1>1, <1>2, <1>3, TotalNat

\* A lamp that burns is worn, and there is no other with the same person.
LEMMA BurningIs ==
    ASSUME NEW w \in World, Dressed(w), NEW c
    PROVE  /\ Burning(w, c) = {x \in Lamp : w.holder[x] = c /\ w.slot[x] # Nil}
           /\ \A x, y \in Burning(w, c) : x = y
  <1>1. \A x \in Lamp : x \in Obj /\ x \in Thing /\ SlotOf[x] # Nil /\ \A y \in Lamp : SlotOf[x] = SlotOf[y]
    BY ObjectsAssumption, Kinds
  <1>2. Burning(w, c) = {x \in Lamp : w.holder[x] = c /\ w.slot[x] # Nil}
    <2>1. \A x, l : x \in Worn(w, c, SlotOf[l]) <=> x \in Obj /\ w.holder[x] = c /\ w.slot[x] = SlotOf[l]
      BY DEF Worn, Held
    <2>2. \A x : x \in Burning(w, c) <=> x \in Lamp /\ \E l \in Lamp : x \in Worn(w, c, SlotOf[l])
      BY DEF Burning
    <2>3. \A x \in Lamp : w.slot[x] # Nil => w.slot[x] = SlotOf[x]
      BY <1>1 DEF Dressed
    <2>4. \A x : x \in Burning(w, c) <=> x \in Lamp /\ w.holder[x] = c /\ w.slot[x] # Nil
      BY <1>1, <2>1, <2>2, <2>3
    <2>5. QED BY <2>4
  <1>3. \A x, y \in Burning(w, c) : x = y
    BY <1>1, <1>2 DEF Dressed
  <1>4. QED BY <1>2, <1>3

LEMMA BrightFinite ==
    ASSUME NEW w, NEW r
    PROVE  IsFiniteSet(People(r)) /\ IsFiniteSet(Bright(w, r)) /\ Cardinality(Bright(w, r)) \in Nat
  <1>1. People(r) \in SUBSET Person
    BY DEF People
  <1>2. IsFiniteSet(People(r))
    BY <1>1, Kinds, FS_Subset
  <1>3. Bright(w, r) \in SUBSET People(r)
    BY DEF Bright
  <1>4. IsFiniteSet(Bright(w, r))
    BY <1>2, <1>3, FS_Subset
  <1>5. QED BY <1>2, <1>4, FS_CardinalityType

LEMMA HeldFinite ==
    ASSUME NEW w, NEW x
    PROVE  IsFiniteSet(Held(w, x)) /\ Cardinality(Held(w, x)) \in Nat /\ Held(w, x) \in SUBSET Obj
  <1>1. Held(w, x) \in SUBSET Obj
    BY DEF Held
  <1>2. IsFiniteSet(Held(w, x))
    BY <1>1, Kinds, FS_Subset
  <1>3. QED BY <1>1, <1>2, FS_CardinalityType

\* Where fewer lamps burn, and the light is the same, it is still enough.
LEMMA ShiningLess ==
    ASSUME NEW w, Shining(w), w.light \in [Room -> Nat], NEW u, u.light = w.light, \A c \in InGame : Burning(u, c) # {} => Burning(w, c) # {}
    PROVE  Shining(u)
  <1>1. ASSUME NEW r \in Room PROVE Cardinality(Bright(u, r)) <= u.light[r]
    <2>1. Bright(u, r) \in SUBSET Bright(w, r)
      BY Kinds DEF Bright, People, InGame
    <2>2. IsFiniteSet(Bright(w, r)) /\ Cardinality(Bright(w, r)) \in Nat /\ Cardinality(Bright(u, r)) \in Nat
      BY BrightFinite
    <2>3. Cardinality(Bright(u, r)) <= Cardinality(Bright(w, r))
      BY <2>1, <2>2, FS_Subset
    <2>4. Cardinality(Bright(w, r)) <= w.light[r] /\ w.light[r] \in Nat
      BY DEF Shining
    <2>5. QED BY <2>2, <2>3, <2>4
  <1>2. QED BY <1>1 DEF Shining

LEMMA MaxIs ==
    ASSUME NEW m \in Int
    PROVE  Max({0, m}) \in Nat /\ Max({0, m}) >= m /\ (m <= 0 => Max({0, m}) = 0) /\ (m >= 0 => Max({0, m}) = m)
  <1> DEFINE S == {0, m}
  <1>1. \E x \in S : \A y \in S : x >= y
    <2>1. CASE m <= 0
      BY <2>1
    <2>2. CASE ~(m <= 0)
      BY <2>2
    <2>3. QED BY <2>1, <2>2
  <1> HIDE DEF S
  <1>2. Max(S) \in S /\ \A y \in S : Max(S) >= y
    BY <1>1 DEF Max
  <1>3. QED BY <1>2 DEF S

\* o is off: there is one lamp less, and one light less if there was one.
UnequipIs(w, o, u) ==
    /\ u \in World /\ u.holder = w.holder /\ u.coins = w.coins /\ u.tombs = w.tombs /\ u.number = w.number /\ u.load = w.load
    /\ u.slot = [w.slot EXCEPT ![o] = Nil]

LEMMA UnequipWhat ==
    ASSUME NEW w \in World, Where, NEW o \in Obj, w.holder[o] \in Person
    PROVE  /\ UnequipIs(w, o, Unequip(w, o))
           /\ IF o \in Lamp /\ w.slot[o] # Nil /\ at[w.holder[o]] # Nil
              THEN Unequip(w, o).light = [w.light EXCEPT ![at[w.holder[o]]] = Max({0, @ - 1})]
              ELSE Unequip(w, o).light = w.light
  <1>2. CASE ~(o \in Lamp /\ w.slot[o] # Nil /\ at[w.holder[o]] # Nil)
    <2>1. Unequip(w, o) = [w EXCEPT !.slot[o] = Nil]
      BY <1>2 DEF Unequip
    <2>2. QED BY <1>2, <2>1 DEF UnequipIs, World
  <1>3. CASE o \in Lamp /\ w.slot[o] # Nil /\ at[w.holder[o]] # Nil
    <2> DEFINE r == at[w.holder[o]]
               n == Max({0, w.light[r] - 1})
    <2>1. Unequip(w, o) = [w EXCEPT !.slot[o] = Nil, !.light[r] = Max({0, @ - 1})]
      BY <1>3 DEF Unequip
    <2>2. r \in Room /\ w.light[r] \in Nat
      BY <1>3 DEF Where, World
    <2>3. n \in Nat
      BY <2>2, MaxIs
    <2>4. Unequip(w, o) = [w EXCEPT !.slot = [w.slot EXCEPT ![o] = Nil], !.light = [w.light EXCEPT ![r] = n]]
      BY <2>1 DEF World
    <2> HIDE DEF n, r
    <2> DEFINE s == [w.slot EXCEPT ![o] = Nil]
               l == [w.light EXCEPT ![r] = n]
    <2>5. s \in [Obj -> Slot \cup {Nil}] /\ l \in [Room -> Nat]
      BY <2>2, <2>3 DEF World
    <2> HIDE DEF s, l
    <2>6. Unequip(w, o) = [w EXCEPT !.slot = s, !.light = l]
      BY <2>4 DEF s, l
    <2>7. /\ Unequip(w, o) \in World /\ Unequip(w, o).slot = s /\ Unequip(w, o).light = l
          /\ \A f \in {"holder", "coins", "tombs", "number", "load"} : Unequip(w, o)[f] = w[f]
      BY <2>5, <2>6 DEF World
    <2>8. UnequipIs(w, o, Unequip(w, o)) /\ Unequip(w, o).light = l
      BY <2>7 DEF UnequipIs, s
    <2>9. QED BY <1>3, <2>8 DEF n, r, l
  <1>4. QED BY <1>2, <1>3

\* The parts of a world that are seen in the holders and the coins alone.
LEMMA SameHolders ==
    ASSUME NEW w \in World, Tree(w), NEW u \in World, u.holder = w.holder
    PROVE  /\ Tree(u)
           /\ \A x \in Obj : Above(u, x) = Above(w, x) /\ Mass(u, x) = Mass(w, x)
           /\ \A c : Carry(u, c) = Carry(w, c) /\ Held(u, c) = Held(w, c)
           /\ u.coins = w.coins => Burden(u) = Burden(w) /\ \A x \in Obj : Heft(u, x) = Heft(w, x)
           /\ u.coins = w.coins /\ u.number = w.number /\ u.load = w.load /\ Counted(w) => Counted(u)
  <1>1. Tree(u) /\ \A x \in Obj : Above(u, x) = Above(w, x) /\ Mass(u, x) = Mass(w, x)
    BY TreeSame
  <1>2. \A c : Carry(u, c) = Carry(w, c) /\ Held(u, c) = Held(w, c)
    BY <1>1 DEF Carry, Held
  <1>3. u.coins = w.coins => Burden(u) = Burden(w)
    BY DEF Burden
  <1>4. ASSUME u.coins = w.coins, NEW x \in Obj PROVE Heft(u, x) = Heft(w, x)
    BY <1>1, <1>3, <1>4, HeftIs
  <1>5. u.coins = w.coins /\ u.number = w.number /\ u.load = w.load /\ Counted(w) => Counted(u)
    BY <1>2, <1>3 DEF Counted
  <1>6. QED BY <1>1, <1>2, <1>3, <1>4, <1>5

LEMMA UnequipFine ==
    ASSUME NEW w, NEW P, NEW L, Fine(w, P, L), Where, NEW o \in Obj, w.holder[o] \in Person
    PROVE  Fine(Unequip(w, o), P, L) /\ UnequipIs(w, o, Unequip(w, o))
  <1> DEFINE u == Unequip(w, o)
             c == w.holder[o]
             r == at[c]
  <1>1. w \in World /\ UnequipIs(w, o, u) /\ u \in World /\ u.holder = w.holder
    BY UnequipWhat DEF Fine, UnequipIs
  <1>2. u.light = IF o \in Lamp /\ w.slot[o] # Nil /\ r # Nil THEN [w.light EXCEPT ![r] = Max({0, @ - 1})] ELSE w.light
    BY <1>1, UnequipWhat
  <1> HIDE DEF u
  <1>3. Tree(u) /\ Counted(u)
    BY <1>1, SameHolders DEF Fine, UnequipIs
  <1>4. Owned(u, P) /\ Loose(u, L)
    BY <1>1 DEF Fine, UnequipIs, Owned, Loose, Exists
  <1>5. \A x \in Obj : u.slot[x] = IF x = o THEN Nil ELSE w.slot[x]
    BY <1>1 DEF UnequipIs, World
  <1>6. Dressed(u)
    BY <1>1, <1>5 DEF Fine, Dressed
  <1>7. \A d : Burning(u, d) = {x \in Lamp : u.holder[x] = d /\ u.slot[x] # Nil} /\ Burning(w, d) = {x \in Lamp : w.holder[x] = d /\ w.slot[x] # Nil}
    BY <1>1, <1>6, BurningIs DEF Fine
  <1>8. Lamp \subseteq Obj
    BY Kinds
  <1>9. \A d : Burning(u, d) # {} => Burning(w, d) # {}
    BY <1>1, <1>5, <1>7, <1>8
  <1>10. CASE ~(o \in Lamp /\ w.slot[o] # Nil /\ r # Nil)
    <2>1. u.light = w.light /\ w.light \in [Room -> Nat] /\ Shining(w)
      BY <1>2, <1>10 DEF Fine, World
    <2>2. Shining(u)
      BY <1>9, <2>1, ShiningLess
    <2>3. Fine(u, P, L)
      BY <1>1, <1>3, <1>4, <1>6, <2>2 DEF Fine
    <2>4. QED BY <1>1, <2>3 DEF u
  <1>11. CASE o \in Lamp /\ w.slot[o] # Nil /\ r # Nil
    <2>1. c \in Person /\ r \in Room /\ c \in People(r)
      BY <1>11 DEF Where, People
    <2>2. o \in Burning(w, c) /\ Burning(u, c) = {}
      <3>1. o \in Burning(w, c)
        BY <1>7, <1>11
      <3>2. \A x \in Burning(w, c) : x = o
        BY <1>1, <3>1, BurningIs DEF Fine
      <3>3. \A x \in Burning(u, c) : x \in Burning(w, c) /\ x # o
        BY <1>1, <1>5, <1>7, <1>8
      <3>4. QED BY <3>1, <3>2, <3>3
    <2>3. \A d \in Person : d # c => Burning(u, d) = Burning(w, d)
      BY <1>1, <1>5, <1>7, <1>8, SMTT(40)
    <2>4. w.light \in [Room -> Nat] /\ Shining(w)
      BY DEF Fine, World
    <2>5. ASSUME NEW q \in Room PROVE Cardinality(Bright(u, q)) <= u.light[q]
      <3>1. Cardinality(Bright(w, q)) <= w.light[q] /\ IsFiniteSet(Bright(w, q)) /\ Cardinality(Bright(w, q)) \in Nat /\ w.light[q] \in Nat
        BY <2>4, BrightFinite DEF Shining
      <3>2. CASE q # r
        <4>1. Bright(u, q) = Bright(w, q)
          BY <1>9, <2>1, <2>3, <3>2 DEF Bright, People
        <4>2. u.light[q] = w.light[q]
          BY <1>2, <1>11, <2>4, <3>2
        <4>3. QED BY <3>1, <4>1, <4>2
      <3>3. CASE q = r
        <4>1. Bright(u, r) = Bright(w, r) \ {c} /\ c \in Bright(w, r)
          BY <1>9, <2>1, <2>2, <2>3 DEF Bright, People
        <4>2. Cardinality(Bright(u, r)) = Cardinality(Bright(w, r)) - 1
          <5>1. IsFiniteSet(Bright(w, r))
            BY <3>1, <3>3
          <5>2. Cardinality(Bright(w, r) \ {c}) = Cardinality(Bright(w, r)) - 1
            BY <4>1, <5>1, FS_RemoveElement
          <5>3. QED BY <4>1, <5>2
        <4>3. u.light[r] = Max({0, w.light[r] - 1})
          BY <1>2, <1>11, <2>1, <2>4
        <4>4. w.light[r] - 1 \in Int
          BY <3>1, <3>3
        <4> HIDE DEF r
        <4>5. Max({0, w.light[r] - 1}) \in Nat /\ Max({0, w.light[r] - 1}) >= w.light[r] - 1
          BY <4>4, MaxIs
        <4>6. QED BY <3>1, <3>3, <4>2, <4>3, <4>5
      <3>4. QED BY <3>2, <3>3
    <2>6. Shining(u)
      BY <2>5 DEF Shining
    <2>7. Fine(u, P, L)
      BY <1>1, <1>3, <1>4, <1>6, <2>6 DEF Fine
    <2>8. QED BY <1>1, <2>7 DEF u
  <1>12. QED BY <1>1, <1>10, <1>11 DEF u

\* u is w without o, that was not worn.
OutIs(w, o, u) ==
    /\ u \in World /\ u.holder = [w.holder EXCEPT ![o] = Nil] /\ u.slot = w.slot
    /\ u.coins = w.coins /\ u.tombs = w.tombs /\ u.light = w.light
    /\ \A c \in Person : /\ u.number[c] = w.number[c] - (IF c = w.holder[o] THEN 1 ELSE 0)
                         /\ u.load[c] = w.load[c] - (IF c \in Above(w, o) THEN Heft(w, o) ELSE 0)

\* The loads of those who have o.
LEMMA CarryPart ==
    ASSUME NEW w \in World, NEW o \in Obj, NEW c \in Person, c \in Above(w, o)
    PROVE  Mass(w, o) \subseteq Carry(w, c) /\ Total(Carry(w, c), Burden(w)) = Heft(w, o) + Total(Carry(w, c) \ Mass(w, o), Burden(w))
  <1>1. w.holder \in Holders
    BY DEF World
  <1>2. ASSUME NEW x \in Mass(w, o) PROVE x \in Carry(w, c)
    BY <1>1, <1>2, Through, MassIs DEF Carry
  <1>3. Carry(w, c) \in SUBSET Obj /\ IsFiniteSet(Carry(w, c))
    <2>1. Carry(w, c) \in SUBSET Obj
      BY DEF Carry
    <2>2. QED BY <2>1, Kinds, FS_Subset
  <1>4. \A x \in Carry(w, c) : Burden(w)[x] \in Int
    BY <1>3, BurdenNat
  <1>5. Mass(w, o) \in SUBSET Carry(w, c)
    BY <1>2
  <1>6. QED BY <1>3, <1>4, <1>5, TotalPart, HeftIs

LEMMA CarryInt ==
    ASSUME NEW w \in World, NEW c, NEW S
    PROVE  Total(Carry(w, c) \ S, Burden(w)) \in Int
  <1>1. Carry(w, c) \ S \in SUBSET Obj
    BY DEF Carry
  <1>2. \A x \in Obj : Burden(w)[x] \in Int
    BY BurdenNat
  <1>3. QED BY <1>1, <1>2, Kinds, TotalInt

LEMMA OutCounted ==
    ASSUME NEW w \in World, Tree(w), Counted(w), NEW o \in Obj, NEW u, OutIs(w, o, u)
    PROVE  Counted(u)
  <1>1. w.holder \in Holders /\ \A x \in Obj : u.holder[x] = IF x = o THEN Nil ELSE w.holder[x]
    BY DEF World, OutIs, Holders
  <1>2. /\ \A x \in Obj \ Mass(w, o) : Above(u, x) = Above(w, x)
        /\ \A x \in Mass(w, o) : Above(u, x) \subseteq Obj
    BY Outs DEF OutIs
  <1>3. Burden(u) = Burden(w)
    BY DEF Burden, OutIs
  <1>4. ASSUME NEW c \in Person PROVE u.number[c] = Cardinality(Held(u, c))
    <2>1. w.number[c] = Cardinality(Held(w, c)) /\ u.number[c] = w.number[c] - (IF c = w.holder[o] THEN 1 ELSE 0)
      BY DEF Counted, OutIs
    <2>2. IsFiniteSet(Held(w, c)) /\ Cardinality(Held(w, c)) \in Nat
      BY HeldFinite
    <2>3. Held(u, c) = Held(w, c) \ {o} /\ (o \in Held(w, c) <=> c = w.holder[o])
      BY <1>1, Kinds DEF Held
    <2>4. Cardinality(Held(w, c) \ {o}) = IF o \in Held(w, c) THEN Cardinality(Held(w, c)) - 1 ELSE Cardinality(Held(w, c))
      BY <2>2, FS_RemoveElement
    <2>5. QED BY <2>1, <2>2, <2>3, <2>4
  <1>5. ASSUME NEW c \in Person PROVE u.load[c] = Total(Carry(u, c), Burden(u))
    <2>1. w.load[c] = Total(Carry(w, c), Burden(w)) /\ u.load[c] = w.load[c] - (IF c \in Above(w, o) THEN Heft(w, o) ELSE 0)
      BY DEF Counted, OutIs
    <2>2. c \notin Obj
      BY Kinds
    <2>3. \A x \in Mass(w, o) : x \in Obj /\ x \notin Carry(u, c)
      BY <1>1, <1>2, <2>2, MassIs DEF Carry
    <2>4. Carry(u, c) = Carry(w, c) \ Mass(w, o)
      BY <1>2, <2>3 DEF Carry
    <2>5. CASE c \in Above(w, o)
      <3>1. Total(Carry(w, c), Burden(w)) = Heft(w, o) + Total(Carry(w, c) \ Mass(w, o), Burden(w))
        BY <2>5, CarryPart
      <3>2. Total(Carry(w, c) \ Mass(w, o), Burden(w)) \in Int /\ Heft(w, o) \in Int
        BY CarryInt, HeftIs
      <3>3. u.load[c] = Total(Carry(w, c) \ Mass(w, o), Burden(w))
        BY <2>1, <2>5, <3>1, <3>2
      <3>4. QED BY <1>3, <2>4, <3>3
    <2>6. CASE c \notin Above(w, o)
      <3>1. \A x \in Mass(w, o) : x \notin Carry(w, c)
        BY <1>1, <2>2, <2>6, Through DEF Carry
      <3>2. Carry(u, c) = Carry(w, c)
        BY <2>4, <3>1
      <3>3. Total(Carry(w, c) \ {}, Burden(w)) \in Int /\ Carry(w, c) \ {} = Carry(w, c)
        BY CarryInt
      <3>4. u.load[c] = Total(Carry(w, c), Burden(w))
        BY <2>1, <2>6, <3>3
      <3>5. QED BY <1>3, <3>2, <3>4
    <2>7. QED BY <2>5, <2>6
  <1>6. QED BY <1>4, <1>5 DEF Counted

LEMMA OutFine ==
    ASSUME NEW w, NEW P, NEW L, Fine(w, P, L), NEW o \in Obj, w.slot[o] = Nil, NEW u, OutIs(w, o, u)
    PROVE  Fine(u, P, L \cup {o})
  <1>1. /\ w \in World /\ u \in World /\ w.holder \in Holders /\ \A x \in Obj : u.holder[x] = IF x = o THEN Nil ELSE w.holder[x]
        /\ u.slot = w.slot /\ u.coins = w.coins /\ u.tombs = w.tombs /\ u.light = w.light /\ w.light \in [Room -> Nat]
    BY DEF World, OutIs, Holders, Fine
  <1>2. Tree(u) /\ Counted(u)
    BY <1>1, Outs, OutCounted DEF OutIs, Fine
  <1>3. Owned(u, P)
    BY <1>1, Kinds DEF Owned, Fine
  <1>4. Loose(u, L \cup {o})
    <2>1. w.tombs \subseteq Obj /\ Purse \subseteq Obj
      BY <1>1, Kinds DEF World
    <2>2. QED BY <1>1, <2>1, Kinds DEF Loose, Fine, Exists
  <1>5. Dressed(u)
    <2>1. \A x \in Obj : u.slot[x] # Nil => x # o
      BY <1>1
    <2>2. QED BY <1>1, <2>1 DEF Dressed, Fine
  <1>6. \A c : Burning(u, c) = {x \in Lamp : u.holder[x] = c /\ u.slot[x] # Nil} /\ Burning(w, c) = {x \in Lamp : w.holder[x] = c /\ w.slot[x] # Nil}
    BY <1>1, <1>5, BurningIs DEF Fine
  <1>7. Shining(u)
    <2>1. Lamp \subseteq Obj
      BY Kinds
    <2>2. \A c \in InGame : Burning(u, c) # {} => Burning(w, c) # {}
      <3>1. \A c \in InGame : Burning(u, c) \subseteq Burning(w, c)
        BY <1>1, <1>6, <2>1
      <3>2. QED BY <3>1
    <2>3. QED BY <1>1, <2>2, ShiningLess DEF Fine
  <1>8. QED BY <1>1, <1>2, <1>3, <1>4, <1>5, <1>7 DEF Fine

\* u is w with o, that was nowhere, in y.
InIs(w, o, y, u) ==
    /\ u \in World /\ u.holder = [w.holder EXCEPT ![o] = y] /\ u.slot = w.slot
    /\ u.coins = w.coins /\ u.tombs = w.tombs /\ u.light = w.light
    /\ \A c \in Person : /\ u.number[c] = w.number[c] + (IF c = y THEN 1 ELSE 0)
                         /\ u.load[c] = w.load[c] + (IF c = y \/ (y \in Obj /\ c \in Above(w, y)) THEN Heft(w, o) ELSE 0)

LEMMA InCounted ==
    ASSUME NEW w \in World, Tree(w), Counted(w), NEW o \in Obj, w.holder[o] = Nil, NEW y \in Place, y \notin Mass(w, o), NEW u, InIs(w, o, y, u)
    PROVE  Counted(u)
  <1>1. w.holder \in Holders /\ u \in World /\ u.holder \in Holders /\ \A x \in Obj : u.holder[x] = IF x = o THEN y ELSE w.holder[x]
    BY DEF World, InIs, Holders
  <1>2. /\ Mass(u, o) = Mass(w, o) /\ Above(u, o) = {y} \cup (IF y \in Obj THEN Above(w, y) ELSE {})
        /\ \A x \in Obj \ Mass(w, o) : Above(u, x) = Above(w, x)
        /\ \A x \in Mass(w, o) : Above(u, x) \ Obj = Above(u, o) \ Obj
    BY Ins DEF InIs
  <1>3. Burden(u) = Burden(w)
    BY DEF Burden, InIs
  <1>4. ASSUME NEW c \in Person PROVE u.number[c] = Cardinality(Held(u, c))
    <2>1. w.number[c] = Cardinality(Held(w, c)) /\ u.number[c] = w.number[c] + (IF c = y THEN 1 ELSE 0)
      BY DEF Counted, InIs
    <2>2. IsFiniteSet(Held(w, c)) /\ Cardinality(Held(w, c)) \in Nat
      BY HeldFinite
    <2>3. CASE c = y
      <3>1. Held(u, c) = Held(w, c) \cup {o} /\ o \notin Held(w, c)
        BY <1>1, <2>3, Kinds DEF Held
      <3>2. Cardinality(Held(w, c) \cup {o}) = IF o \in Held(w, c) THEN Cardinality(Held(w, c)) ELSE Cardinality(Held(w, c)) + 1
        BY <2>2, FS_AddElement
      <3>3. QED BY <2>1, <2>3, <3>1, <3>2
    <2>4. CASE c # y
      <3>1. Held(u, c) = Held(w, c)
        BY <1>1, <2>4, Kinds DEF Held
      <3>2. QED BY <2>1, <2>2, <2>4, <3>1
    <2>5. QED BY <2>3, <2>4
  <1>5. ASSUME NEW c \in Person PROVE u.load[c] = Total(Carry(u, c), Burden(u))
    <2>1. w.load[c] = Total(Carry(w, c), Burden(w)) /\ u.load[c] = w.load[c] + (IF c = y \/ (y \in Obj /\ c \in Above(w, y)) THEN Heft(w, o) ELSE 0)
      BY DEF Counted, InIs
    <2>2. c \notin Obj
      BY Kinds
    <2>3. Mass(w, o) \subseteq Obj /\ c \notin Above(w, o)
      BY <1>1, MassIs, AboveStep
    <2>4. ASSUME NEW x \in Mass(w, o) PROVE x \notin Carry(w, c)
      <3>1. Above(w, x) \ Obj = Above(w, o) \ Obj
        BY <1>1, Through
      <3>2. QED BY <2>2, <2>3, <3>1 DEF Carry
    <2>5. Total(Carry(w, c), Burden(w)) \in Int /\ Heft(w, o) \in Int
      <3>1. Carry(w, c) \ {} = Carry(w, c)
        OBVIOUS
      <3>2. Total(Carry(w, c) \ {}, Burden(w)) \in Int
        BY CarryInt
      <3>3. QED BY <3>1, <3>2, HeftIs
    <2>6. CASE c \in Above(u, o)
      <3>1. Carry(u, c) \ Mass(u, o) = Carry(w, c)
        BY <1>2, <2>3, <2>4 DEF Carry
      <3>2. Total(Carry(u, c), Burden(u)) = Heft(u, o) + Total(Carry(u, c) \ Mass(u, o), Burden(u))
        BY <1>1, <2>6, CarryPart
      <3>3. Heft(u, o) = Heft(w, o)
        <4>1. Heft(u, o) = Total(Mass(u, o), Burden(u)) /\ Heft(w, o) = Total(Mass(w, o), Burden(w))
          BY <1>1, HeftIs
        <4>2. QED BY <1>2, <1>3, <4>1
      <3>0. c = y \/ (y \in Obj /\ c \in Above(w, y))
        <4>1. c \in {y} \cup (IF y \in Obj THEN Above(w, y) ELSE {})
          BY <1>2, <2>6
        <4>2. QED BY <4>1
      <3>4. u.load[c] = w.load[c] + Heft(w, o)
        BY <2>1, <3>0
      <3>5. Total(Carry(u, c), Burden(u)) = Heft(w, o) + Total(Carry(w, c), Burden(w))
        BY <1>3, <3>1, <3>2, <3>3
      <3>6. QED BY <2>1, <2>5, <3>4, <3>5
    <2>7. CASE c \notin Above(u, o)
      <3>1. \A x \in Mass(w, o) : x \notin Carry(u, c)
        BY <1>2, <2>2, <2>7 DEF Carry
      <3>2. Carry(u, c) = Carry(w, c)
        BY <1>2, <2>3, <2>4, <3>1 DEF Carry
      <3>0. ~(c = y \/ (y \in Obj /\ c \in Above(w, y)))
        BY <1>2, <2>7
      <3>3. u.load[c] = w.load[c] + 0
        BY <2>1, <3>0
      <3>4. QED BY <1>3, <2>1, <2>5, <3>2, <3>3
    <2>8. QED BY <2>6, <2>7
  <1>6. QED BY <1>4, <1>5 DEF Counted

LEMMA InFine ==
    ASSUME NEW w, NEW P, NEW L, Fine(w, P, L), NEW o \in Obj, w.holder[o] = Nil, NEW y \in Place, y \notin Mass(w, o),
           y \in Person => y \in P, y \in Obj => y \in Bag \cup Corpse /\ (Exists(w, y) \/ y \in L), NEW u, InIs(w, o, y, u)
    PROVE  Fine(u, P, L \ {o})
  <1>1. /\ w \in World /\ u \in World /\ w.holder \in Holders /\ \A x \in Obj : u.holder[x] = IF x = o THEN y ELSE w.holder[x]
        /\ u.slot = w.slot /\ u.coins = w.coins /\ u.tombs = w.tombs /\ u.light = w.light /\ w.light \in [Room -> Nat]
    BY DEF World, InIs, Holders, Fine
  <1>2. Tree(u) /\ Counted(u)
    BY <1>1, Ins, InCounted DEF InIs, Fine
  <1>3. Owned(u, P)
    BY <1>1 DEF Owned, Fine
  <1>4. y # o /\ y # Nil
    BY <1>1, Kinds, MassIs
  <1>5. Loose(u, L \ {o})
    <2>1. w.tombs \subseteq Obj /\ Purse \subseteq Obj
      BY <1>1, Kinds DEF World
    <2>2. QED BY <1>1, <1>4, <2>1, Kinds DEF Loose, Fine, Exists
  <1>6. w.slot[o] = Nil
    BY Kinds DEF Fine, Dressed
  <1>7. Dressed(u)
    <2>1. \A x \in Obj : u.slot[x] # Nil => x # o
      BY <1>1, <1>6
    <2>2. QED BY <1>1, <2>1 DEF Dressed, Fine
  <1>8. \A c : Burning(u, c) = {x \in Lamp : u.holder[x] = c /\ u.slot[x] # Nil} /\ Burning(w, c) = {x \in Lamp : w.holder[x] = c /\ w.slot[x] # Nil}
    BY <1>1, <1>7, BurningIs DEF Fine
  <1>9. Shining(u)
    <2>1. Lamp \subseteq Obj
      BY Kinds
    <2>2. \A c \in InGame : Burning(u, c) # {} => Burning(w, c) # {}
      <3>1. \A c \in InGame : Burning(u, c) \subseteq Burning(w, c)
        BY <1>1, <1>6, <1>8, <2>1
      <3>2. QED BY <3>1
    <2>3. QED BY <1>1, <2>2, ShiningLess DEF Fine
  <1>10. QED BY <1>1, <1>2, <1>3, <1>5, <1>7, <1>9 DEF Fine

-----------------------------------------------------------------------------
(* The operations of handler.c. *)

\* u has the objects of w where h says, and the same coins and corpses.
Moved(w, u, h) == u.holder = h /\ u.coins = w.coins /\ u.tombs = w.tombs

LEMMA FromCharFine ==
    ASSUME NEW w, NEW P, NEW L, Fine(w, P, L), Where, NEW o \in Obj, w.holder[o] \in Person
    PROVE  LET v == FromChar(w, o)
           IN  /\ Fine(v, P, L \cup {o}) /\ Moved(w, v, [w.holder EXCEPT ![o] = Nil])
               /\ v.slot = [w.slot EXCEPT ![o] = Nil]
  <1> DEFINE c == w.holder[o]
             u == Unequip(w, o)
             v == FromChar(w, o)
  <1>1. Fine(u, P, L) /\ UnequipIs(w, o, u) /\ u \in World
    BY UnequipFine DEF Fine
  <1>2. v = [u EXCEPT !.holder[o] = Nil, !.number[c] = @ - 1, !.load[c] = @ - Heft(u, o)]
    BY DEF FromChar
  <1> HIDE DEF u, v
  <1>3. Heft(u, o) \in Int /\ u.holder[o] = c /\ c \in Person /\ c \in Place \ Obj /\ u.holder \in Holders
    <2>1. Heft(u, o) \in Int
      BY <1>1, HeftIs
    <2>2. QED BY <1>1, <2>1, Kinds DEF UnequipIs, World
  <1>4. Above(u, o) = {c}
    BY <1>3, AboveStep
  <1> HIDE DEF c
  <1> DEFINE h == [u.holder EXCEPT ![o] = Nil]
             n == [u.number EXCEPT ![c] = @ - 1]
             l == [u.load EXCEPT ![c] = @ - Heft(u, o)]
  <1>5. /\ h \in Holders /\ n \in [Person -> Int] /\ l \in [Person -> Int]
        /\ \A d \in Person : n[d] = u.number[d] - (IF d = c THEN 1 ELSE 0) /\ l[d] = u.load[d] - (IF d = c THEN Heft(u, o) ELSE 0)
    BY <1>1, <1>3 DEF World, Holders
  <1>6. v = [u EXCEPT !.holder = h, !.number = n, !.load = l]
    BY <1>1, <1>2 DEF World
  <1> HIDE DEF h, n, l
  <1>7. /\ v \in World /\ v.holder = h /\ v.number = n /\ v.load = l
        /\ v.slot = u.slot /\ v.coins = u.coins /\ v.tombs = u.tombs /\ v.light = u.light
    BY <1>1, <1>5, <1>6 DEF World
  <1>8. OutIs(u, o, v)
    BY <1>3, <1>4, <1>5, <1>7 DEF OutIs, h
  <1>9. u.slot[o] = Nil
    BY <1>1 DEF UnequipIs, World, Fine
  <1>10. Fine(v, P, L \cup {o})
    BY <1>1, <1>8, <1>9, OutFine
  <1>11. Moved(w, v, [w.holder EXCEPT ![o] = Nil]) /\ v.slot = [w.slot EXCEPT ![o] = Nil]
    BY <1>1, <1>7 DEF UnequipIs, Moved, h
  <1>12. QED BY <1>10, <1>11 DEF v

LEMMA ToCharFine ==
    ASSUME NEW w, NEW P, NEW L, Fine(w, P, L), NEW o \in Obj, w.holder[o] = Nil, NEW c \in Person, c \in P
    PROVE  LET v == ToChar(w, o, c)
           IN  Fine(v, P, L \ {o}) /\ Moved(w, v, [w.holder EXCEPT ![o] = c]) /\ v.slot = w.slot /\ v.light = w.light
  <1> DEFINE v == ToChar(w, o, c)
             h == [w.holder EXCEPT ![o] = c]
             n == [w.number EXCEPT ![c] = @ + 1]
             l == [w.load EXCEPT ![c] = @ + Heft(w, o)]
  <1>1. w \in World /\ Heft(w, o) \in Int /\ c \in Place /\ c \notin Obj /\ w.holder \in Holders
    <2>1. w \in World
      BY DEF Fine
    <2>2. Heft(w, o) \in Int
      BY <2>1, HeftIs
    <2>3. QED BY <2>1, <2>2, Kinds DEF World
  <1>2. /\ h \in Holders /\ n \in [Person -> Int] /\ l \in [Person -> Int]
        /\ \A d \in Person : n[d] = w.number[d] + (IF d = c THEN 1 ELSE 0) /\ l[d] = w.load[d] + (IF d = c THEN Heft(w, o) ELSE 0)
    BY <1>1 DEF World, Holders
  <1>3. v = [w EXCEPT !.holder = h, !.number = n, !.load = l]
    BY <1>1 DEF World, ToChar
  <1> HIDE DEF h, n, l, v
  <1>4. /\ v \in World /\ v.holder = h /\ v.number = n /\ v.load = l
        /\ v.slot = w.slot /\ v.coins = w.coins /\ v.tombs = w.tombs /\ v.light = w.light
    BY <1>1, <1>2, <1>3 DEF World
  <1>5. InIs(w, o, c, v)
    BY <1>1, <1>2, <1>4 DEF InIs, h
  <1>6. c \notin Mass(w, o)
    BY <1>1, MassIs
  <1>7. Fine(v, P, L \ {o})
    BY <1>1, <1>5, <1>6, InFine
  <1>8. QED BY <1>4, <1>7 DEF Moved, h, v

LEMMA FromRoomFine ==
    ASSUME NEW w, NEW P, NEW L, Fine(w, P, L), NEW o \in Obj, w.holder[o] \in Room
    PROVE  LET v == FromRoom(w, o)
           IN  Fine(v, P, L \cup {o}) /\ Moved(w, v, [w.holder EXCEPT ![o] = Nil]) /\ v.slot = w.slot
  <1> DEFINE v == FromRoom(w, o)
             h == [w.holder EXCEPT ![o] = Nil]
  <1>1. w \in World /\ w.holder[o] \in Place \ Obj /\ w.holder[o] \notin Person /\ w.holder \in Holders
    BY Kinds DEF Fine, World
  <1>2. Above(w, o) = {w.holder[o]}
    BY <1>1, AboveStep
  <1>3. h \in Holders
    BY <1>1 DEF Holders
  <1>4. v = [w EXCEPT !.holder = h]
    BY <1>1 DEF World, FromRoom
  <1> HIDE DEF h, v
  <1>5. /\ v \in World /\ v.holder = h /\ v.number = w.number /\ v.load = w.load
        /\ v.slot = w.slot /\ v.coins = w.coins /\ v.tombs = w.tombs /\ v.light = w.light
    BY <1>1, <1>3, <1>4 DEF World
  <1>6. \A c \in Person : w.number[c] \in Int /\ w.load[c] \in Int /\ c # w.holder[o] /\ c \notin Above(w, o)
    BY <1>1, <1>2 DEF World
  <1>7. OutIs(w, o, v)
    BY <1>5, <1>6 DEF OutIs, h
  <1>8. w.slot[o] = Nil
    BY <1>1 DEF Fine, Dressed
  <1>9. Fine(v, P, L \cup {o})
    BY <1>7, <1>8, OutFine
  <1>10. QED BY <1>5, <1>9 DEF Moved, h, v

LEMMA ToRoomFine ==
    ASSUME NEW w, NEW P, NEW L, Fine(w, P, L), NEW o \in Obj, w.holder[o] = Nil, NEW r \in Room
    PROVE  LET v == ToRoom(w, o, r)
           IN  Fine(v, P, L \ {o}) /\ Moved(w, v, [w.holder EXCEPT ![o] = r]) /\ v.slot = w.slot /\ v.light = w.light
  <1> DEFINE v == ToRoom(w, o, r)
             h == [w.holder EXCEPT ![o] = r]
  <1>1. w \in World /\ r \in Place /\ r \notin Obj /\ r \notin Person /\ w.holder \in Holders
    BY Kinds DEF Fine, World
  <1>2. h \in Holders
    BY <1>1 DEF Holders
  <1>3. v = [w EXCEPT !.holder = h]
    BY <1>1 DEF World, ToRoom
  <1> HIDE DEF h, v
  <1>4. /\ v \in World /\ v.holder = h /\ v.number = w.number /\ v.load = w.load
        /\ v.slot = w.slot /\ v.coins = w.coins /\ v.tombs = w.tombs /\ v.light = w.light
    BY <1>1, <1>2, <1>3 DEF World
  <1>5. \A c \in Person : w.number[c] \in Int /\ w.load[c] \in Int /\ c # r
    BY <1>1 DEF World
  <1>6. InIs(w, o, r, v)
    BY <1>1, <1>4, <1>5 DEF InIs, h
  <1>7. r \notin Mass(w, o)
    BY <1>1, MassIs
  <1>8. Fine(v, P, L \ {o})
    BY <1>1, <1>6, <1>7, InFine
  <1>9. QED BY <1>4, <1>8 DEF Moved, h, v

LEMMA ToObjFine ==
    ASSUME NEW w, NEW P, NEW L, Fine(w, P, L), NEW o \in Obj, w.holder[o] = Nil,
           NEW k \in Bag \cup Corpse, k \notin Mass(w, o), Exists(w, k) \/ k \in L
    PROVE  LET v == ToObj(w, o, k)
           IN  Fine(v, P, L \ {o}) /\ Moved(w, v, [w.holder EXCEPT ![o] = k]) /\ v.slot = w.slot /\ v.light = w.light
  <1> DEFINE v == ToObj(w, o, k)
             h == [w.holder EXCEPT ![o] = k]
             l == [c \in Person |-> w.load[c] + IF c \in Carrier(w, k) THEN Heft(w, o) ELSE 0]
  <1>1. w \in World /\ Heft(w, o) \in Int /\ k \in Obj /\ k \in Place /\ k \notin Person /\ w.holder \in Holders
    <2>1. w \in World
      BY DEF Fine
    <2>2. Heft(w, o) \in Int
      BY <2>1, HeftIs
    <2>3. QED BY <2>1, <2>2, Kinds DEF World
  <1>2. /\ h \in Holders /\ l \in [Person -> Int]
        /\ \A c \in Person : l[c] = w.load[c] + (IF c \in Carrier(w, k) THEN Heft(w, o) ELSE 0)
    BY <1>1 DEF World, Holders
  <1>3. v = [w EXCEPT !.holder = h, !.load = l]
    BY <1>1 DEF World, ToObj
  <1> HIDE DEF h, l, v
  <1>4. /\ v \in World /\ v.holder = h /\ v.number = w.number /\ v.load = l
        /\ v.slot = w.slot /\ v.coins = w.coins /\ v.tombs = w.tombs /\ v.light = w.light
    BY <1>1, <1>2, <1>3 DEF World
  <1>5. \A c \in Person : w.number[c] \in Int /\ c # k /\ (c \in Carrier(w, k) <=> c \in Above(w, k))
    BY <1>1 DEF World, Carrier
  <1>6. InIs(w, o, k, v)
    BY <1>1, <1>2, <1>4, <1>5 DEF InIs, h
  <1>7. Fine(v, P, L \ {o})
    BY <1>1, <1>6, InFine
  <1>8. QED BY <1>4, <1>7 DEF Moved, h, v

LEMMA FromObjFine ==
    ASSUME NEW w, NEW P, NEW L, Fine(w, P, L), NEW o \in Obj, w.holder[o] \in Obj
    PROVE  LET v == FromObj(w, o)
           IN  Fine(v, P, L \cup {o}) /\ Moved(w, v, [w.holder EXCEPT ![o] = Nil]) /\ v.slot = w.slot
  <1> DEFINE k == w.holder[o]
             v == FromObj(w, o)
             h == [w.holder EXCEPT ![o] = Nil]
             l == [c \in Person |-> w.load[c] - IF c \in Carrier(w, k) THEN Heft(w, o) ELSE 0]
  <1>1. w \in World /\ Heft(w, o) \in Int /\ k \in Obj /\ k \notin Person /\ w.holder \in Holders
    <2>1. w \in World
      BY DEF Fine
    <2>2. Heft(w, o) \in Int
      BY <2>1, HeftIs
    <2>3. QED BY <2>1, <2>2, Kinds DEF World
  <1>2. Above(w, o) = {k} \cup Above(w, k)
    BY <1>1, AboveStep
  <1>3. /\ h \in Holders /\ l \in [Person -> Int]
        /\ \A c \in Person : l[c] = w.load[c] - (IF c \in Carrier(w, k) THEN Heft(w, o) ELSE 0)
    BY <1>1 DEF World, Holders
  <1>4. v = [w EXCEPT !.holder = h, !.load = l]
    BY <1>1 DEF World, FromObj
  <1> HIDE DEF h, l, v
  <1>5. /\ v \in World /\ v.holder = h /\ v.number = w.number /\ v.load = l
        /\ v.slot = w.slot /\ v.coins = w.coins /\ v.tombs = w.tombs /\ v.light = w.light
    BY <1>1, <1>3, <1>4 DEF World
  <1>6. \A c \in Person : w.number[c] \in Int /\ c # k /\ (c \in Carrier(w, k) <=> c \in Above(w, o))
    BY <1>1, <1>2 DEF World, Carrier
  <1>7. OutIs(w, o, v)
    BY <1>1, <1>3, <1>5, <1>6 DEF OutIs, h
  <1>8. w.slot[o] = Nil
    BY <1>1 DEF Fine, Dressed
  <1>9. Fine(v, P, L \cup {o})
    BY <1>7, <1>8, OutFine
  <1>10. QED BY <1>5, <1>9 DEF Moved, h, v

LEMMA NoChange ==
    ASSUME NEW S, NEW T, NEW s \in [S -> T], NEW o \in S, NEW v, s[o] = v
    PROVE  [s EXCEPT ![o] = v] = s
  <1> DEFINE e == [s EXCEPT ![o] = v]
  <1>1. e = [x \in S |-> e[x]] /\ \A x \in S : e[x] = s[x]
    OBVIOUS
  <1>2. s = [x \in S |-> s[x]]
    OBVIOUS
  <1> HIDE DEF e
  <1>3. e = s
    BY <1>1, <1>2
  <1>4. QED BY <1>3 DEF e

LEMMA OutCases ==
    ASSUME NEW w, NEW o
    PROVE  /\ w.holder[o] \in Person => Out(w, o) = FromChar(w, o)
           /\ w.holder[o] \in Room => Out(w, o) = FromRoom(w, o)
           /\ w.holder[o] \in Obj => Out(w, o) = FromObj(w, o)
           /\ w.holder[o] = Nil => Out(w, o) = w
  <1> DEFINE a == FromChar(w, o)
             b == FromRoom(w, o)
             c == FromObj(w, o)
             x == w.holder[o]
  <1>1. Out(w, o) = CASE x \in Person -> a [] x \in Room -> b [] x \in Obj -> c [] OTHER -> w
    BY DEF Out
  <1> HIDE DEF a, b, c, x
  <1>2. /\ x \in Person => Out(w, o) = a
        /\ x \in Room => Out(w, o) = b
        /\ x \in Obj => Out(w, o) = c
        /\ x = Nil => Out(w, o) = w
    BY <1>1, Kinds
  <1>3. QED BY <1>2 DEF a, b, c, x

LEMMA TakenFine ==
    ASSUME NEW w, NEW P, NEW L, Fine(w, P, L), Where, NEW o \in Obj
    PROVE  LET v == Out(w, o)
           IN  /\ Fine(v, P, L \cup {o}) /\ Moved(w, v, [w.holder EXCEPT ![o] = Nil])
               /\ v.slot = [w.slot EXCEPT ![o] = Nil]
  <1> DEFINE v == Out(w, o)
             Goal(u) == /\ Fine(u, P, L \cup {o}) /\ Moved(w, u, [w.holder EXCEPT ![o] = Nil])
                        /\ u.slot = [w.slot EXCEPT ![o] = Nil]
  <1>1. w \in World /\ w.holder \in Holders /\ w.slot \in [Obj -> Slot \cup {Nil}]
    BY DEF Fine, World
  <1>2. w.holder[o] \in Place \cup {Nil}
    BY <1>1 DEF Holders
  <1>3. ASSUME w.holder[o] \notin Person PROVE w.slot = [w.slot EXCEPT ![o] = Nil]
    <2>1. w.slot[o] = Nil
      BY <1>3 DEF Fine, Dressed
    <2> DEFINE s == w.slot
    <2>2. s \in [Obj -> Slot \cup {Nil}] /\ s[o] = Nil
      BY <1>1, <2>1
    <2> HIDE DEF s
    <2>3. [s EXCEPT ![o] = Nil] = s
      BY <2>2, NoChange
    <2>4. QED BY <2>3 DEF s
  <1>4. CASE w.holder[o] \in Person
    <2>1. v = FromChar(w, o)
      BY <1>4, OutCases
    <2> HIDE DEF v
    <2>2. Goal(v)
      BY <1>4, <2>1, FromCharFine
    <2>3. QED BY <2>2 DEF v
  <1>5. CASE w.holder[o] \in Room
    <2>1. v = FromRoom(w, o) /\ w.holder[o] \notin Person
      BY <1>5, Kinds DEF Out
    <2> HIDE DEF v
    <2>2. Goal(v)
      BY <1>3, <1>5, <2>1, FromRoomFine
    <2>3. QED BY <2>2 DEF v
  <1>6. CASE w.holder[o] \in Obj
    <2>1. v = FromObj(w, o) /\ w.holder[o] \notin Person
      BY <1>6, Kinds DEF Out
    <2> HIDE DEF v
    <2>2. Goal(v)
      BY <1>3, <1>6, <2>1, FromObjFine
    <2>3. QED BY <2>2 DEF v
  <1>7. CASE w.holder[o] = Nil
    <2>1. v = w /\ w.holder[o] \notin Person
      BY <1>7, Kinds DEF Out
    <2>2. w.holder = [w.holder EXCEPT ![o] = Nil]
      BY <1>1, <1>7 DEF Holders
    <2>3. Loose(w, L \cup {o})
      BY <1>7 DEF Fine, Loose, Exists
    <2>4. Fine(w, P, L \cup {o})
      BY <2>3 DEF Fine
    <2>5. QED BY <1>3, <2>1, <2>2, <2>4 DEF Moved
  <1>8. QED BY <1>2, <1>4, <1>5, <1>6, <1>7, Kinds

\* u has lost o and what was in it.
GoneIs(w, o, u) ==
    /\ u.holder = [x \in Obj |-> IF x \in Mass(w, o) THEN Nil ELSE w.holder[x]]
    /\ u.coins = [x \in Purse |-> IF x \in Mass(w, o) THEN 0 ELSE w.coins[x]]
    /\ u.tombs = w.tombs \ Mass(w, o)
    /\ u.slot = [w.slot EXCEPT ![o] = Nil]

LEMMA GoneFine ==
    ASSUME NEW w, NEW P, NEW L, NEW o \in Obj, Fine(w, P, L \cup {o}), w.holder[o] = Nil, NEW v \in World, GoneIs(w, o, v),
           v.number = w.number, v.load = w.load, v.light = w.light
    PROVE  Fine(v, P, L \ {o})
  <1> DEFINE G == Mass(w, o)
  <1>1. w \in World /\ w.holder \in Holders /\ v.holder \in Holders /\ w.slot \in [Obj -> Slot \cup {Nil}] /\ w.coins \in [Purse -> Nat]
    BY DEF Fine, World
  <1>2. /\ G \subseteq Obj /\ o \in G /\ \A x \in G : x # o => w.holder[x] \in G
        /\ \A x \in Obj : w.holder[x] \in G => x \in G
    BY <1>1, MassIs
  <1>3. \A x \in G : w.holder[x] \notin Person
    BY <1>2, Kinds
  <1>4. \A x \in Obj : v.holder[x] = IF x \in G THEN Nil ELSE w.holder[x]
    BY DEF GoneIs
  <1>5. \A x \in Obj : v.slot[x] = w.slot[x]
    <2>1. w.slot[o] = Nil
      BY <1>2, <1>3 DEF Fine, Dressed
    <2>2. QED BY <1>1, <2>1 DEF GoneIs
  <1>6. Tree(v) /\ (\A x \in Obj \ G : Above(v, x) = Above(w, x)) /\ \A x \in G : Above(v, x) = {}
    BY Gone DEF GoneIs, Fine
  <1>7. \A x \in G : Above(w, x) \subseteq Obj
    <2>1. Above(w, o) = {}
      BY <1>1, AboveStep
    <2>2. QED BY <1>1, <2>1, Through
  <1> HIDE DEF G
  <1>8. Owned(v, P)
    BY <1>4, Kinds DEF Fine, Owned
  <1>9. Loose(v, L \ {o})
    <2>1. v.tombs = w.tombs \ G /\ w.tombs \subseteq Obj /\ Purse \subseteq Obj /\ Nil \notin Obj
      BY <1>1, Kinds DEF GoneIs, G, World
    <2>2. \A m \in Purse : v.coins[m] = IF m \in G THEN 0 ELSE w.coins[m]
      BY DEF GoneIs, G
    <2>3. Loose(w, L \cup {o})
      BY DEF Fine
    <2>4. /\ L \ {o} \subseteq Obj /\ \A x \in L \ {o} : v.holder[x] = Nil
      BY <1>4, <2>3 DEF Loose
    <2>5. \A x \in Obj : v.holder[x] \in Obj => v.holder[x] \in Bag \cup Corpse /\ (Exists(v, v.holder[x]) \/ v.holder[x] \in L \ {o})
      BY <1>2, <1>4, <2>1, <2>3 DEF Loose, Exists
    <2>6. \A k \in v.tombs : Exists(v, k) \/ k \in L \ {o}
      BY <1>2, <1>4, <2>1, <2>3 DEF Loose, Exists
    <2>7. \A m \in Purse : Exists(v, m) \/ m \in L \ {o} \/ v.coins[m] = 0
      BY <1>2, <1>4, <2>1, <2>2, <2>3 DEF Loose, Exists
    <2>8. QED BY <2>4, <2>5, <2>6, <2>7 DEF Loose
  <1>10. Dressed(v)
    BY <1>3, <1>4, <1>5 DEF Fine, Dressed
  <1>11. Counted(v)
    <2>1. ASSUME NEW c \in Person PROVE v.number[c] = Cardinality(Held(v, c)) /\ v.load[c] = Total(Carry(v, c), Burden(v))
      <3>1. c \notin Obj /\ c # Nil
        BY Kinds
      <3>2. Held(v, c) = Held(w, c)
        BY <1>3, <1>4, <3>1 DEF Held
      <3>3. Carry(v, c) = Carry(w, c) /\ Carry(v, c) \cap G = {}
        BY <1>2, <1>6, <1>7, <3>1 DEF Carry
      <3>4. \A x \in Carry(v, c) : Burden(v)[x] = Burden(w)[x]
        <4>1. \A x \in Purse : x \notin G => v.coins[x] = w.coins[x]
          BY DEF GoneIs, G
        <4>2. QED BY <3>3, <4>1 DEF Burden, Carry
      <3>5. IsFiniteSet(Carry(v, c))
        <4>1. Carry(v, c) \in SUBSET Obj
          BY DEF Carry
        <4>2. QED BY <4>1, Kinds, FS_Subset
      <3>6. Total(Carry(v, c), Burden(v)) = Total(Carry(v, c), Burden(w))
        BY <3>4, <3>5, TotalSame
      <3>7. QED BY <3>2, <3>3, <3>6 DEF Fine, Counted
    <2>2. QED BY <2>1 DEF Counted
  <1>12. Shining(v)
    <2>1. \A c : Burning(v, c) = {x \in Lamp : v.holder[x] = c /\ v.slot[x] # Nil} /\ Burning(w, c) = {x \in Lamp : w.holder[x] = c /\ w.slot[x] # Nil}
      BY <1>1, <1>10, BurningIs DEF Fine
    <2>2. Lamp \subseteq Obj
      BY Kinds
    <2>3. \A c \in InGame : Burning(v, c) \subseteq Burning(w, c)
      BY <1>4, <1>5, <2>1, <2>2, Kinds DEF InGame
    <2>4. \A c \in InGame : Burning(v, c) # {} => Burning(w, c) # {}
      BY <2>3
    <2>5. w.light \in [Room -> Nat]
      BY <1>1 DEF World
    <2>6. QED BY <2>4, <2>5, ShiningLess DEF Fine
  <1>13. QED BY <1>6, <1>8, <1>9, <1>10, <1>11, <1>12 DEF Fine

LEMMA ExtractFine ==
    ASSUME NEW w, NEW P, NEW L, Fine(w, P, L), Where, NEW o \in Obj
    PROVE  Fine(Extract(w, o), P, L \ {o}) /\ GoneIs(w, o, Extract(w, o))
  <1> DEFINE u == Out(w, o)
             v == Extract(w, o)
             G == Mass(w, o)
  <1>1. Fine(u, P, L \cup {o}) /\ Moved(w, u, [w.holder EXCEPT ![o] = Nil]) /\ u.slot = [w.slot EXCEPT ![o] = Nil]
    BY TakenFine
  <1>2. v = [u EXCEPT !.holder = [x \in Obj |-> IF x \in G THEN Nil ELSE u.holder[x]],
                      !.coins  = [x \in Purse |-> IF x \in G THEN 0 ELSE u.coins[x]],
                      !.tombs  = u.tombs \ G]
    BY DEF Extract, Mass
  <1> HIDE DEF u, v
  <1>3. w \in World /\ u \in World /\ w.holder \in Holders
    BY <1>1 DEF Fine, World
  <1>4. Mass(u, o) = G /\ G \subseteq Obj /\ o \in G
    <2>1. Mass(u, o) = G
      BY <1>1, Outs DEF Fine, Moved
    <2>2. QED BY <1>3, <2>1, MassIs
  <1> HIDE DEF G
  <1> DEFINE h == [x \in Obj |-> IF x \in G THEN Nil ELSE u.holder[x]]
             n == [x \in Purse |-> IF x \in G THEN 0 ELSE u.coins[x]]
             t == u.tombs \ G
  <1>5. h \in Holders /\ n \in [Purse -> Nat] /\ t \in SUBSET Corpse
    BY <1>3 DEF World, Holders
  <1> HIDE DEF h, n, t
  <1>6. v = [u EXCEPT !.holder = h, !.coins = n, !.tombs = t]
    BY <1>2 DEF h, n, t
  <1>7. /\ v \in World /\ v.holder = h /\ v.coins = n /\ v.tombs = t
        /\ v.slot = u.slot /\ v.number = u.number /\ v.load = u.load /\ v.light = u.light
    BY <1>3, <1>5, <1>6 DEF World
  <1>8. GoneIs(u, o, v)
    <2>1. u.slot = [u.slot EXCEPT ![o] = Nil]
      BY <1>1, <1>3 DEF World
    <2>2. QED BY <1>4, <1>7, <2>1 DEF GoneIs, h, n, t
  <1>9. u.holder[o] = Nil
    BY <1>1, <1>3 DEF Moved, Holders
  <1>10. Fine(v, P, L \ {o})
    BY <1>1, <1>7, <1>8, <1>9, GoneFine
  <1>11. GoneIs(w, o, v)
    <2>1. h = [x \in Obj |-> IF x \in G THEN Nil ELSE w.holder[x]]
      BY <1>1, <1>3, <1>4 DEF h, Moved, Holders
    <2>2. QED BY <1>1, <1>7, <2>1 DEF GoneIs, G, n, t, Moved
  <1>12. QED BY <1>10, <1>11 DEF v

LEMMA More ==
    ASSUME NEW w, NEW P, NEW L, Fine(w, P, L)
    PROVE  /\ \A Q : Owned(w, Q) => Fine(w, Q, L)
           /\ \A Q : P \subseteq Q => Fine(w, Q, L)
           /\ \A o \in Obj : w.holder[o] = Nil => Fine(w, P, L \cup {o})
  <1>1. ASSUME NEW Q, P \subseteq Q PROVE Owned(w, Q)
    BY <1>1 DEF Fine, Owned
  <1>2. ASSUME NEW o \in Obj, w.holder[o] = Nil PROVE Loose(w, L \cup {o})
    BY <1>2 DEF Fine, Loose
  <1>3. QED BY <1>1, <1>2 DEF Fine

\* v is w with n coins in the purse m.
Minted(w, m, n, v) == v.holder = w.holder /\ v.slot = w.slot /\ v.coins = [w.coins EXCEPT ![m] = n]

LEMMA CoinsFine ==
    ASSUME NEW w, NEW P, NEW L, Fine(w, P, L), NEW m \in Purse, w.holder[m] = Nil, NEW n \in Nat
    PROVE  Fine(Coins(w, m, n), P, L \cup {m}) /\ Minted(w, m, n, Coins(w, m, n))
  <1> DEFINE v == Coins(w, m, n)
             k == [w.coins EXCEPT ![m] = n]
  <1>1. w \in World /\ w.holder \in Holders /\ m \in Obj
    BY Kinds DEF Fine, World
  <1>2. k \in [Purse -> Nat] /\ \A x \in Purse : x # m => k[x] = w.coins[x]
    BY <1>1 DEF World
  <1>3. v = [w EXCEPT !.coins = k]
    BY <1>1 DEF World, Coins
  <1> HIDE DEF k, v
  <1>4. /\ v \in World /\ v.holder = w.holder /\ v.coins = k
        /\ v.slot = w.slot /\ v.number = w.number /\ v.load = w.load /\ v.tombs = w.tombs /\ v.light = w.light
    BY <1>1, <1>2, <1>3 DEF World
  <1>5. Tree(v) /\ \A c : Carry(v, c) = Carry(w, c) /\ Held(v, c) = Held(w, c)
    BY <1>4, SameHolders DEF Fine
  <1>6. Owned(v, P) /\ Dressed(v)
    BY <1>4 DEF Fine, Owned, Dressed
  <1>7. Loose(v, L \cup {m})
    BY <1>1, <1>2, <1>4 DEF Fine, Loose, Exists
  <1>8. Counted(v)
    <2>1. ASSUME NEW c \in Person PROVE v.load[c] = Total(Carry(v, c), Burden(v))
      <3>1. m \notin Carry(w, c)
        BY <1>1, AboveStep DEF Carry
      <3>2. \A x \in Carry(v, c) : Burden(v)[x] = Burden(w)[x]
        BY <1>2, <1>4, <1>5, <3>1 DEF Burden, Carry
      <3>3. IsFiniteSet(Carry(v, c))
        <4>1. Carry(v, c) \in SUBSET Obj
          BY DEF Carry
        <4>2. QED BY <4>1, Kinds, FS_Subset
      <3>4. Total(Carry(v, c), Burden(v)) = Total(Carry(v, c), Burden(w))
        BY <3>2, <3>3, TotalSame
      <3>5. QED BY <1>4, <1>5, <3>4 DEF Fine, Counted
    <2>2. QED BY <1>4, <1>5, <2>1 DEF Fine, Counted
  <1>9. Shining(v)
    <2>1. \A c : Burning(v, c) = Burning(w, c)
      BY <1>4, <1>6, BurningIs DEF Fine
    <2>2. w.light \in [Room -> Nat]
      BY <1>1 DEF World
    <2>3. QED BY <1>4, <2>1, <2>2, ShiningLess DEF Fine
  <1>10. QED BY <1>4, <1>5, <1>6, <1>7, <1>8, <1>9 DEF Fine, Minted, v, k

-----------------------------------------------------------------------------
(* Light. *)

\* Where people are is as a says.
Shines(w, a) == \A r \in Room : Cardinality({c \in Person : a[c] = r /\ Burning(w, c) # {}}) <= w.light[r]

Sound(w, P, L) == w \in World /\ Tree(w) /\ Owned(w, P) /\ Loose(w, L) /\ Dressed(w) /\ Counted(w)

LEMMA FineIs ==
    ASSUME NEW w, NEW P, NEW L
    PROVE  Fine(w, P, L) <=> Sound(w, P, L) /\ Shines(w, at)
  <1>1. \A r : Bright(w, r) = {c \in Person : at[c] = r /\ Burning(w, c) # {}}
    BY DEF Bright, People
  <1>2. QED BY <1>1 DEF Fine, Sound, Shines, Shining

\* u is w with another light.
Relit(w, u) ==
    /\ u \in World /\ u.holder = w.holder /\ u.slot = w.slot /\ u.coins = w.coins /\ u.tombs = w.tombs
    /\ u.number = w.number /\ u.load = w.load

LEMMA RelitSound ==
    ASSUME NEW w, NEW P, NEW L, Sound(w, P, L), NEW u, Relit(w, u)
    PROVE  Sound(u, P, L) /\ \A c : Burning(u, c) = Burning(w, c)
  <1>1. Tree(u) /\ Counted(u)
    BY SameHolders DEF Sound, Relit
  <1>2. Owned(u, P) /\ Loose(u, L) /\ Dressed(u)
    BY DEF Sound, Relit, Owned, Loose, Dressed, Exists
  <1>3. \A c : Burning(u, c) = Burning(w, c)
    BY <1>2, BurningIs DEF Sound, Relit
  <1>4. QED BY <1>1, <1>2, <1>3 DEF Sound, Relit

\* c goes to y, and there is light enough in u for the rest, and for c in y.
LEMMA SettledFine ==
    ASSUME NEW w, NEW P, NEW L, Fine(w, P, L), NEW u, Relit(w, u), Where, NEW c \in Person, NEW y,
           \A q \in Room : Cardinality(Bright(w, q) \ {c}) + (IF q = y /\ Burning(w, c) # {} THEN 1 ELSE 0) <= u.light[q]
    PROVE  Sound(u, P, L) /\ Shines(u, [at EXCEPT ![c] = y])
  <1>1. Sound(u, P, L) /\ \A d : Burning(u, d) = Burning(w, d)
    BY FineIs, RelitSound
  <1> DEFINE a == [at EXCEPT ![c] = y]
  <1>2. \A d \in Person : a[d] = IF d = c THEN y ELSE at[d]
    BY DEF Where
  <1> HIDE DEF a
  <1>3. ASSUME NEW q \in Room PROVE Cardinality({d \in Person : a[d] = q /\ Burning(u, d) # {}}) <= u.light[q]
    <2> DEFINE S == {d \in Person : a[d] = q /\ Burning(u, d) # {}}
               T == Bright(w, q) \ {c}
    <2>1. T \in SUBSET Bright(w, q) /\ IsFiniteSet(Bright(w, q)) /\ c \notin T
      BY BrightFinite
    <2>2. IsFiniteSet(T) /\ Cardinality(T) \in Nat
      BY <2>1, FS_Subset, FS_CardinalityType
    <2>3. u.light[q] \in Nat
      BY DEF Relit, World
    <2>4. CASE q = y /\ Burning(w, c) # {}
      <3>1. S = T \cup {c}
        BY <1>1, <1>2, <2>4 DEF Bright, People
      <3> HIDE DEF S, T
      <3>2. Cardinality(S) = Cardinality(T) + 1
        BY <2>1, <2>2, <3>1, FS_AddElement
      <3>3. QED BY <2>4, <3>2 DEF S, T
    <2>5. CASE ~(q = y /\ Burning(w, c) # {})
      <3>1. S = T
        BY <1>1, <1>2, <2>5 DEF Bright, People
      <3>2. Cardinality(T) + 0 <= u.light[q]
        BY <2>5
      <3> HIDE DEF S, T
      <3>3. Cardinality(S) <= u.light[q]
        BY <2>2, <2>3, <3>1, <3>2
      <3>4. QED BY <3>3 DEF S
    <2>6. QED BY <2>4, <2>5
  <1>4. QED BY <1>1, <1>3 DEF Shines, a

LEMMA LeftIs ==
    ASSUME NEW w, NEW P, NEW L, Fine(w, P, L), Where, NEW c \in InGame
    PROVE  LET u == Left(w, c)
           IN  Relit(w, u) /\ \A q \in Room : Cardinality(Bright(w, q) \ {c}) <= u.light[q]
  <1> DEFINE r == at[c]
             b == Burning(w, c) # {}
             n == IF b THEN Max({0, w.light[r] - 1}) ELSE w.light[r]
             m == IF n = 0 /\ People(r) # {c} THEN 1 ELSE n
             u == Left(w, c)
  <1>1. r \in Room /\ c \in People(r) /\ c \in Person /\ w \in World
    BY DEF Where, InGame, People, Fine
  <1>2. w.light \in [Room -> Nat] /\ w.light[r] \in Nat
    BY <1>1 DEF World
  <1>3. u = [w EXCEPT !.light[r] = m]
    BY DEF Left
  <1> HIDE DEF r, b, u
  <1>4. n \in Nat /\ (b => n >= w.light[r] - 1) /\ (~b => n = w.light[r])
    <2>1. w.light[r] - 1 \in Int
      BY <1>2
    <2>2. Max({0, w.light[r] - 1}) \in Nat /\ Max({0, w.light[r] - 1}) >= w.light[r] - 1
      BY <2>1, MaxIs
    <2>3. QED BY <1>2, <2>2
  <1> HIDE DEF n
  <1>5. m \in Nat /\ m >= n
    BY <1>4
  <1> HIDE DEF m
  <1> DEFINE l == [w.light EXCEPT ![r] = m]
  <1>6. l \in [Room -> Nat] /\ l[r] = m /\ \A q \in Room : q # r => l[q] = w.light[q]
    BY <1>1, <1>2, <1>5
  <1>7. u = [w EXCEPT !.light = l]
    BY <1>1, <1>3 DEF World
  <1> HIDE DEF l
  <1>8. Relit(w, u) /\ u.light = l
    BY <1>1, <1>6, <1>7 DEF World, Relit
  <1>9. ASSUME NEW q \in Room PROVE Cardinality(Bright(w, q) \ {c}) <= u.light[q]
    <2>1. Cardinality(Bright(w, q)) <= w.light[q] /\ w.light[q] \in Nat /\ IsFiniteSet(Bright(w, q)) /\ Cardinality(Bright(w, q)) \in Nat
      BY <1>2, BrightFinite DEF Fine, Shining
    <2>2. CASE c \notin Bright(w, q)
      <3>1. Bright(w, q) \ {c} = Bright(w, q)
        BY <2>2
      <3>2. q = r => ~b
        BY <1>1, <2>2 DEF Bright, b
      <3>3. u.light[q] >= w.light[q]
        BY <1>2, <1>4, <1>5, <1>6, <1>8, <2>1, <3>2
      <3>4. u.light[q] \in Nat
        BY <1>6, <1>8
      <3>5. QED BY <2>1, <3>1, <3>3, <3>4
    <2>3. CASE c \in Bright(w, q)
      <3>1. q = r /\ b
        BY <2>3 DEF Bright, People, b, r
      <3>2. Cardinality(Bright(w, q) \ {c}) = Cardinality(Bright(w, q)) - 1
        BY <2>1, <2>3, FS_RemoveElement
      <3>3. u.light[q] = m
        BY <1>6, <1>8, <3>1
      <3>4. QED BY <1>4, <1>5, <2>1, <3>1, <3>2, <3>3
    <2>4. QED BY <2>2, <2>3
  <1>10. QED BY <1>8, <1>9 DEF u

\* u is w with one light more in r.
LEMMA LightUp ==
    ASSUME NEW w \in World, NEW r \in Room
    PROVE  LET u == [w EXCEPT !.light[r] = @ + 1]
           IN  Relit(w, u) /\ \A q \in Room : u.light[q] = w.light[q] + IF q = r THEN 1 ELSE 0
  <1> DEFINE l == [w.light EXCEPT ![r] = @ + 1]
             u == [w EXCEPT !.light[r] = @ + 1]
  <1>1. l \in [Room -> Nat] /\ \A q \in Room : l[q] = w.light[q] + IF q = r THEN 1 ELSE 0
    BY DEF World
  <1>2. u = [w EXCEPT !.light = l]
    BY DEF World
  <1> HIDE DEF l, u
  <1>3. Relit(w, u) /\ u.light = l
    BY <1>1, <1>2 DEF World, Relit
  <1>4. QED BY <1>1, <1>3 DEF u

\* c leaves, or comes from nowhere, and may come into y.
LEMMA GoneOffFine ==
    ASSUME NEW w, NEW P, NEW L, Fine(w, P, L), Where, NEW c \in InGame
    PROVE  Sound(Left(w, c), P, L) /\ Shines(Left(w, c), [at EXCEPT ![c] = Nil])
  <1> DEFINE u == Left(w, c)
  <1>1. Relit(w, u) /\ \A q \in Room : Cardinality(Bright(w, q) \ {c}) <= u.light[q]
    BY LeftIs
  <1> HIDE DEF u
  <1>2. c \in Person /\ \A q \in Room : Nil # q
    BY Kinds DEF InGame
  <1>3. ASSUME NEW q \in Room PROVE Cardinality(Bright(w, q) \ {c}) + (IF q = Nil /\ Burning(w, c) # {} THEN 1 ELSE 0) <= u.light[q]
    <2>1. Bright(w, q) \ {c} \in SUBSET Bright(w, q) /\ IsFiniteSet(Bright(w, q))
      BY BrightFinite
    <2>2. Cardinality(Bright(w, q) \ {c}) \in Nat
      BY <2>1, FS_Subset, FS_CardinalityType
    <2>3. QED BY <1>1, <1>2, <2>2
  <1>4. Sound(u, P, L) /\ Shines(u, [at EXCEPT ![c] = Nil])
    BY <1>1, <1>2, <1>3, SettledFine
  <1>5. QED BY <1>4 DEF u

LEMMA WentFine ==
    ASSUME NEW w, NEW P, NEW L, Fine(w, P, L), Where, NEW c \in InGame, NEW y \in Room
    PROVE  LET v == Entered(Left(w, c), c, y)
           IN  Sound(v, P, L) /\ Shines(v, [at EXCEPT ![c] = y]) /\ v.holder = w.holder /\ v.tombs = w.tombs /\ v.slot = w.slot
  <1> DEFINE u == Left(w, c)
             v == Entered(u, c, y)
  <1>1. Relit(w, u) /\ \A q \in Room : Cardinality(Bright(w, q) \ {c}) <= u.light[q]
    BY LeftIs
  <1> HIDE DEF u
  <1>2. c \in Person
    BY DEF InGame
  <1>3. u \in World /\ Burning(u, c) = Burning(w, c)
    BY <1>1, FineIs, RelitSound DEF Relit
  <1>4. Relit(w, v) /\ \A q \in Room : v.light[q] = u.light[q] + IF q = y /\ Burning(w, c) # {} THEN 1 ELSE 0
    <2>1. CASE Burning(w, c) = {}
      <3>1. v = u
        BY <1>3, <2>1 DEF Entered
      <3>2. u.light \in [Room -> Nat]
        BY <1>3 DEF World
      <3>3. QED BY <1>1, <2>1, <3>1, <3>2
    <2>2. CASE Burning(w, c) # {}
      <3>1. v = [u EXCEPT !.light[y] = @ + 1]
        BY <1>3, <2>2 DEF Entered
      <3>2. Relit(u, v) /\ \A q \in Room : v.light[q] = u.light[q] + IF q = y THEN 1 ELSE 0
        BY <1>3, <3>1, LightUp
      <3>3. QED BY <1>1, <2>2, <3>2 DEF Relit
    <2>3. QED BY <2>1, <2>2
  <1> HIDE DEF v
  <1>5. ASSUME NEW q \in Room PROVE Cardinality(Bright(w, q) \ {c}) + (IF q = y /\ Burning(w, c) # {} THEN 1 ELSE 0) <= v.light[q]
    <2>1. Bright(w, q) \ {c} \in SUBSET Bright(w, q) /\ IsFiniteSet(Bright(w, q))
      BY BrightFinite
    <2>2. Cardinality(Bright(w, q) \ {c}) \in Nat /\ u.light[q] \in Nat
      BY <1>3, <2>1, FS_Subset, FS_CardinalityType DEF World
    <2>3. QED BY <1>1, <1>4, <2>2
  <1>6. Sound(v, P, L) /\ Shines(v, [at EXCEPT ![c] = y])
    BY <1>2, <1>4, <1>5, SettledFine
  <1>7. QED BY <1>4, <1>6 DEF v, u, Relit

LEMMA CameFine ==
    ASSUME NEW w, NEW P, NEW L, Fine(w, P, L), Where, NEW c \in Person \ InGame, NEW y \in Room
    PROVE  LET v == Entered(w, c, y)
           IN  Sound(v, P, L) /\ Shines(v, [at EXCEPT ![c] = y]) /\ v.holder = w.holder
  <1> DEFINE v == Entered(w, c, y)
  <1>1. c \in Person /\ w \in World
    BY DEF Fine
  <1>2. Relit(w, v) /\ \A q \in Room : v.light[q] = w.light[q] + IF q = y /\ Burning(w, c) # {} THEN 1 ELSE 0
    <2>1. CASE Burning(w, c) = {}
      <3>1. v = w
        BY <2>1 DEF Entered
      <3>2. w.light \in [Room -> Nat]
        BY <1>1 DEF World
      <3>3. QED BY <1>1, <2>1, <3>1, <3>2 DEF Relit
    <2>2. CASE Burning(w, c) # {}
      <3>1. v = [w EXCEPT !.light[y] = @ + 1]
        BY <2>2 DEF Entered
      <3>2. Relit(w, v) /\ \A q \in Room : v.light[q] = w.light[q] + IF q = y THEN 1 ELSE 0
        BY <1>1, <3>1, LightUp
      <3>3. QED BY <2>2, <3>2
    <2>3. QED BY <2>1, <2>2
  <1> HIDE DEF v
  <1>3. ASSUME NEW q \in Room PROVE Cardinality(Bright(w, q) \ {c}) + (IF q = y /\ Burning(w, c) # {} THEN 1 ELSE 0) <= v.light[q]
    <2>1. Bright(w, q) \ {c} = Bright(w, q)
      BY Kinds DEF Bright, People, InGame
    <2>2. Cardinality(Bright(w, q)) \in Nat /\ w.light[q] \in Nat /\ Cardinality(Bright(w, q)) <= w.light[q]
      BY <1>1, BrightFinite DEF World, Fine, Shining
    <2>3. QED BY <1>2, <2>1, <2>2
  <1>4. Sound(v, P, L) /\ Shines(v, [at EXCEPT ![c] = y])
    BY <1>1, <1>2, <1>3, SettledFine
  <1>5. QED BY <1>2, <1>4 DEF v, Relit

\* u is w with another dress: o is worn where it goes.
EquipIs(w, o, u) ==
    /\ u \in World /\ u.holder = w.holder /\ u.coins = w.coins /\ u.tombs = w.tombs /\ u.number = w.number /\ u.load = w.load
    /\ u.slot = [w.slot EXCEPT ![o] = SlotOf[o]]

LEMMA EquipWhat ==
    ASSUME NEW w \in World, Where, NEW o \in Thing, SlotOf[o] # Nil, NEW c \in Person
    PROVE  LET u == Equip(w, c, o, FALSE)
           IN  /\ EquipIs(w, o, u)
               /\ \A q \in Room : u.light[q] = w.light[q] + IF o \in Lamp /\ at[c] = q THEN 1 ELSE 0
  <1> DEFINE u == Equip(w, c, o, FALSE)
             r == at[c]
             s == [w.slot EXCEPT ![o] = SlotOf[o]]
             l == IF o \in Lamp /\ r # Nil THEN Add(w.light, r, 1) ELSE w.light
  <1>1. w.light \in [Room -> Nat] /\ r \in Room \cup {Nil} /\ o \in Obj /\ SlotOf[o] \in Slot
    BY Kinds DEF World, Where, Slot
  <1>2. s \in [Obj -> Slot \cup {Nil}]
    BY <1>1 DEF World
  <1>3. u = [w EXCEPT !.slot = s, !.light = l]
    BY DEF Equip, World
  <1>4. l \in [Room -> Nat] /\ \A q \in Room : l[q] = w.light[q] + IF o \in Lamp /\ r = q THEN 1 ELSE 0
    <2>1. CASE o \in Lamp /\ r # Nil
      <3>1. l = [w.light EXCEPT ![r] = @ + 1]
        BY <1>1, <2>1 DEF Add
      <3> HIDE DEF l, r
      <3>2. QED BY <1>1, <2>1, <3>1
    <2>2. CASE ~(o \in Lamp /\ r # Nil)
      <3>1. l = w.light
        BY <2>2
      <3> HIDE DEF l, r
      <3>2. QED BY <1>1, <2>2, <3>1, Kinds
    <2>3. QED BY <2>1, <2>2
  <1> HIDE DEF u, s, l, r
  <1>5. EquipIs(w, o, u) /\ u.light = l
    BY <1>2, <1>3, <1>4 DEF EquipIs, World, s
  <1>6. QED BY <1>4, <1>5 DEF u, r

LEMMA EquipFine ==
    ASSUME NEW w, NEW P, NEW L, Fine(w, P, L), Where, NEW o \in Thing, SlotOf[o] # Nil, NEW c \in Person, w.holder[o] = c,
           \A y \in Obj : w.holder[y] = c => w.slot[y] # SlotOf[o]
    PROVE  Fine(Equip(w, c, o, FALSE), P, L) /\ EquipIs(w, o, Equip(w, c, o, FALSE))
  <1> DEFINE u == Equip(w, c, o, FALSE)
  <1>1. w \in World /\ o \in Obj /\ Lamp \subseteq Obj
    BY Kinds DEF Fine
  <1>2. /\ EquipIs(w, o, u)
        /\ \A q \in Room : u.light[q] = w.light[q] + IF o \in Lamp /\ at[c] = q THEN 1 ELSE 0
    BY <1>1, EquipWhat
  <1> HIDE DEF u
  <1>3. Tree(u) /\ Counted(u)
    BY <1>2, SameHolders DEF Fine, EquipIs
  <1>4. Owned(u, P) /\ Loose(u, L)
    BY <1>2 DEF Fine, EquipIs, Owned, Loose, Exists
  <1>5. \A x \in Obj : u.slot[x] = IF x = o THEN SlotOf[o] ELSE w.slot[x]
    BY <1>1, <1>2 DEF EquipIs, World
  <1>6. Dressed(u)
    BY <1>1, <1>2, <1>5 DEF Fine, Dressed, EquipIs
  <1>7. \A d : Burning(u, d) = {x \in Lamp : u.holder[x] = d /\ u.slot[x] # Nil} /\ Burning(w, d) = {x \in Lamp : w.holder[x] = d /\ w.slot[x] # Nil}
    BY <1>1, <1>2, <1>6, BurningIs DEF Fine, EquipIs
  <1>8. /\ \A d : d # c => Burning(u, d) = Burning(w, d)
        /\ o \notin Lamp => \A d : Burning(u, d) = Burning(w, d)
    BY <1>1, <1>2, <1>5, <1>7, SMTT(40) DEF EquipIs
  <1>9. ASSUME NEW q \in Room PROVE Cardinality(Bright(u, q)) <= u.light[q]
    <2>1. Cardinality(Bright(w, q)) <= w.light[q] /\ w.light[q] \in Nat /\ IsFiniteSet(Bright(w, q)) /\ Cardinality(Bright(w, q)) \in Nat
      BY <1>1, BrightFinite DEF Fine, Shining, World
    <2>2. CASE o \in Lamp /\ at[c] = q
      <3>1. Bright(u, q) \in SUBSET (Bright(w, q) \cup {c})
        BY <1>8 DEF Bright, People
      <3>2. IsFiniteSet(Bright(w, q) \cup {c}) /\ Cardinality(Bright(w, q) \cup {c}) <= Cardinality(Bright(w, q)) + 1
        <4> DEFINE B == Bright(w, q)
        <4>1. IsFiniteSet(B) /\ Cardinality(B) \in Nat
          BY <2>1
        <4> HIDE DEF B
        <4>2. IsFiniteSet(B \cup {c}) /\ (c \in B => Cardinality(B \cup {c}) = Cardinality(B)) /\ (c \notin B => Cardinality(B \cup {c}) = Cardinality(B) + 1)
          BY <4>1, FS_AddElement
        <4>3. Cardinality(B \cup {c}) <= Cardinality(B) + 1
          BY <4>1, <4>2
        <4>4. QED BY <4>2, <4>3 DEF B
      <3>3. Cardinality(Bright(u, q)) <= Cardinality(Bright(w, q) \cup {c})
        BY <3>1, <3>2, FS_Subset
      <3>4. u.light[q] = w.light[q] + 1
        BY <1>2, <2>2
      <3>5. Cardinality(Bright(u, q)) \in Nat /\ Cardinality(Bright(w, q) \cup {c}) \in Nat
        BY <3>2, BrightFinite, FS_CardinalityType
      <3>6. QED BY <2>1, <3>2, <3>3, <3>4, <3>5
    <2>3. CASE ~(o \in Lamp /\ at[c] = q)
      <3>1. Bright(u, q) = Bright(w, q)
        BY <1>8, <2>3 DEF Bright, People
      <3>2. u.light[q] = w.light[q]
        BY <1>2, <2>1, <2>3
      <3>3. QED BY <2>1, <3>1, <3>2
    <2>4. QED BY <2>2, <2>3
  <1>10. Shining(u)
    BY <1>9 DEF Shining
  <1>11. QED BY <1>2, <1>3, <1>4, <1>6, <1>10 DEF Fine, EquipIs, u

-----------------------------------------------------------------------------
(* The loops, turn by turn. *)

LEMMA ExtractAllIs ==
    ASSUME NEW w, NEW S, IsFiniteSet(S)
    PROVE  \E g : Goes(<<"extract">>, S, w, g) /\ ExtractAll(w, S) = g[S]
  <1> DEFINE Is(g) == g = [T \in SUBSET S |-> IF T = {} THEN w ELSE Extract(g[T \ {One(T)}], One(T))]
             g == CHOOSE g : Is(g)
  <1>1. PICK h : Goes(<<"extract">>, S, w, h)
    BY GoesExists
  <1>2. \A u, o : Do(<<"extract">>, o, u) = Extract(u, o)
    BY Does
  <1>3. Is(h)
    BY <1>1, <1>2 DEF Goes
  <1>4. Is(g)
    BY <1>3
  <1>5. ExtractAll(w, S) = g[S]
    BY DEF ExtractAll, FoldSet, MapThenFoldSet, One
  <1> HIDE DEF g
  <1>6. Goes(<<"extract">>, S, w, g)
    BY <1>2, <1>4 DEF Goes
  <1>7. QED BY <1>5, <1>6

LEMMA PurseHasNothing ==
    ASSUME NEW w, NEW P, NEW L, Fine(w, P, L), NEW m \in Purse
    PROVE  Mass(w, m) = {m}
  <1>1. w.holder \in Holders /\ m \in Obj /\ m \notin Bag \cup Corpse
    BY Kinds DEF Fine, World
  <1>2. \A x \in Obj : w.holder[x] # m
    BY <1>1 DEF Fine, Loose
  <1>3. ASSUME NEW x \in Obj PROVE m \notin Above(w, x)
    <2> DEFINE X == Above(w, x) \ {m}
    <2>1. w.holder[x] # Nil => w.holder[x] \in X
      BY <1>1, <1>2, Aboves
    <2>2. \A y \in X \cap Obj : w.holder[y] # Nil => w.holder[y] \in X
      BY <1>1, <1>2, Aboves
    <2> HIDE DEF X
    <2>3. Above(w, x) \subseteq X
      BY <1>1, <2>1, <2>2, AboveLeast
    <2>4. QED BY <2>3 DEF X
  <1>4. QED BY <1>1, <1>3, MassIs

\* S is gone, and everything else is where it was or gone.
AllGone(w, S, v) ==
    /\ \A x \in Obj : v.holder[x] = Nil \/ v.holder[x] = w.holder[x]
    /\ \A x \in S : v.holder[x] = Nil
    /\ S \subseteq Purse => \A m \in Purse : v.coins[m] = IF m \in S THEN 0 ELSE w.coins[m]

LEMMA ExtractAllFine ==
    ASSUME NEW w, NEW P, NEW L, Fine(w, P, L), Where, NEW S \in SUBSET Obj
    PROVE  Fine(ExtractAll(w, S), P, L \ S) /\ AllGone(w, S, ExtractAll(w, S))
  <1> DEFINE p == <<"extract">>
             Ok(u, T) == /\ Fine(u, P, L \ T)
                         /\ \A x \in Obj : u.holder[x] = Nil \/ u.holder[x] = w.holder[x]
                         /\ \A x \in T : u.holder[x] = Nil
                         /\ T \subseteq Purse => \A m \in Purse : u.coins[m] = IF m \in T THEN 0 ELSE w.coins[m]
  <1>1. IsFiniteSet(S)
    BY Kinds, FS_Subset
  <1>2. PICK g : Goes(p, S, w, g) /\ ExtractAll(w, S) = g[S]
    BY <1>1, ExtractAllIs
  <1>3. g[{}] = w /\ \A T \in SUBSET S : T # {} => g[T] = Extract(g[T \ {One(T)}], One(T))
    <2>1. g[{}] = w /\ \A T \in SUBSET S : T # {} => g[T] = Do(p, One(T), g[T \ {One(T)}])
      BY <1>2, GoesOn
    <2>2. \A o, u : Do(p, o, u) = Extract(u, o)
      BY Does
    <2> HIDE DEF p
    <2>3. QED BY <2>1, <2>2
  <1> DEFINE K == {T \in SUBSET S : Ok(g[T], T)}
  <1>4. {} \in K
    <2>1. L \ {} = L
      OBVIOUS
    <2>2. QED BY <1>3, <2>1
  <1>5. ASSUME NEW T \in SUBSET S, T # {}, \A x \in T : T \ {x} \in K PROVE T \in K
    <2>1. PICK o : o = One(T)
      OBVIOUS
    <2>2. o \in T /\ o \in Obj /\ T \ {o} \in K /\ T \ {o} \in SUBSET S
      BY <1>5, <2>1, OneIn
    <2>3. PICK R : R = T \ {o}
      OBVIOUS
    <2>4. PICK u : u = g[R]
      OBVIOUS
    <2>5. PICK v : v = g[T]
      OBVIOUS
    <2>6. Ok(u, R) /\ v = Extract(u, o)
      BY <1>3, <1>5, <2>1, <2>2, <2>3, <2>4, <2>5
    <2>7. Fine(v, P, (L \ R) \ {o}) /\ GoneIs(u, o, v)
      BY <2>2, <2>6, ExtractFine
    <2>8. (L \ R) \ {o} = L \ T
      BY <2>2, <2>3
    <2>9. u.holder \in Holders
      BY <2>6 DEF Fine, World
    <2>10. o \in Mass(u, o) /\ \A x \in Obj : v.holder[x] = IF x \in Mass(u, o) THEN Nil ELSE u.holder[x]
      BY <2>7 DEF GoneIs, Mass
    <2>11. T \subseteq Purse => \A m \in Purse : v.coins[m] = IF m \in T THEN 0 ELSE w.coins[m]
      <3>1. HAVE T \subseteq Purse
      <3>2. Mass(u, o) = {o}
        BY <2>2, <2>6, <3>1, PurseHasNothing
      <3>3. \A m \in Purse : v.coins[m] = IF m = o THEN 0 ELSE u.coins[m]
        BY <2>7, <3>2 DEF GoneIs
      <3>4. QED BY <2>2, <2>3, <2>6, <3>1, <3>3
    <2>12. Ok(v, T)
      BY <2>2, <2>3, <2>6, <2>7, <2>8, <2>10, <2>11
    <2>13. QED BY <2>5, <2>12
  <1> HIDE DEF K
  <1>6. S \in K
    BY <1>1, <1>4, <1>5, ByParts
  <1>7. Ok(g[S], S)
    BY <1>6 DEF K
  <1>8. QED BY <1>2, <1>7 DEF AllGone

LEMMA DoesFill ==
    ASSUME NEW k
    PROVE  \A o, u : Do(<<"corpse", k>>, o, u) = ToObj(FromChar(u, o), o, k)
  BY DEF Do

LEMMA ToCorpseIs ==
    ASSUME NEW w, NEW S, IsFiniteSet(S), NEW k
    PROVE  \E g : Goes(<<"corpse", k>>, S, w, g) /\ ToCorpse(w, S, k) = g[S]
  <1> DEFINE Is(g) == g = [T \in SUBSET S |-> IF T = {} THEN w ELSE ToObj(FromChar(g[T \ {One(T)}], One(T)), One(T), k)]
             g == CHOOSE g : Is(g)
  <1>1. PICK h : Goes(<<"corpse", k>>, S, w, h)
    BY GoesExists
  <1>2. \A u, o : Do(<<"corpse", k>>, o, u) = ToObj(FromChar(u, o), o, k)
    BY Does
  <1>3. Is(h)
    BY <1>1, <1>2 DEF Goes
  <1>4. Is(g)
    BY <1>3
  <1>5. ToCorpse(w, S, k) = g[S]
    BY DEF ToCorpse, FoldSet, MapThenFoldSet, One
  <1> HIDE DEF g
  <1>6. Goes(<<"corpse", k>>, S, w, g)
    BY <1>2, <1>4 DEF Goes
  <1>7. QED BY <1>5, <1>6

LEMMA ToCorpseFine ==
    ASSUME NEW w, NEW P, NEW L, Fine(w, P, L), Where, NEW k \in Corpse, k \in L,
           NEW S \in SUBSET Obj, \A x \in S : w.holder[x] \in Person
    PROVE  LET v == ToCorpse(w, S, k)
           IN  Fine(v, P, L) /\ \A x \in Obj : v.holder[x] = IF x \in S THEN k ELSE w.holder[x]
  <1> DEFINE p == <<"corpse", k>>
             Ok(u, T) == Fine(u, P, L) /\ \A x \in Obj : u.holder[x] = IF x \in T THEN k ELSE w.holder[x]
  <1>0. k \in Obj /\ w.holder[k] = Nil /\ k \notin Person
    BY Kinds DEF Fine, Loose
  <1>1. IsFiniteSet(S)
    BY Kinds, FS_Subset
  <1>2. PICK g : Goes(p, S, w, g) /\ ToCorpse(w, S, k) = g[S]
    BY <1>1, ToCorpseIs
  <1> HIDE DEF p
  <1>3. g[{}] = w /\ \A T \in SUBSET S : T # {} => g[T] = ToObj(FromChar(g[T \ {One(T)}], One(T)), One(T), k)
    <2>1. g[{}] = w /\ \A T \in SUBSET S : T # {} => g[T] = Do(p, One(T), g[T \ {One(T)}])
      BY <1>2, GoesOn
    <2>2. \A o, u : Do(p, o, u) = ToObj(FromChar(u, o), o, k)
      BY DoesFill DEF p
    <2>3. QED BY <2>1, <2>2
  <1> DEFINE K == {T \in SUBSET S : Ok(g[T], T)}
  <1>4. {} \in K
    BY <1>3
  <1>5. ASSUME NEW T \in SUBSET S, T # {}, \A x \in T : T \ {x} \in K PROVE T \in K
    <2>1. PICK o : o = One(T)
      OBVIOUS
    <2>2. o \in T /\ o \in Obj /\ T \ {o} \in K /\ T \ {o} \in SUBSET S /\ w.holder[o] \in Person
      BY <1>5, <2>1, OneIn
    <2>3. PICK R : R = T \ {o}
      OBVIOUS
    <2>4. PICK u : u = g[R]
      OBVIOUS
    <2>5. PICK v : v = g[T]
      OBVIOUS
    <2>6. Ok(u, R) /\ v = ToObj(FromChar(u, o), o, k)
      BY <1>3, <1>5, <2>1, <2>2, <2>3, <2>4, <2>5
    <2>7. PICK f : f = FromChar(u, o)
      OBVIOUS
    <2>8. Fine(u, P, L) /\ u.holder[o] \in Person /\ u.holder[o] = w.holder[o]
      BY <2>2, <2>3, <2>6
    <2>9. Fine(f, P, L \cup {o}) /\ Moved(u, f, [u.holder EXCEPT ![o] = Nil])
      BY <2>2, <2>7, <2>8, FromCharFine
    <2>10. u.holder \in Holders /\ f.holder \in Holders
      BY <2>8, <2>9 DEF Fine, World
    <2>11. o # k /\ f.holder[o] = Nil /\ f.holder[k] = Nil /\ \A x \in Obj : x # o => f.holder[x] = u.holder[x]
      BY <1>0, <2>2, <2>9, <2>10, Kinds DEF Fine, Loose, Moved, Holders
    <2>12. k \notin Mass(f, o)
      BY <1>0, <2>2, <2>10, <2>11, MassIs, AboveStep
    <2>13. o \notin L
      BY <2>8, Kinds DEF Fine, Loose
    <2>14. Fine(v, P, (L \cup {o}) \ {o}) /\ Moved(f, v, [f.holder EXCEPT ![o] = k])
      BY <2>2, <2>6, <2>7, <2>9, <2>11, <2>12, ToObjFine
    <2>15. (L \cup {o}) \ {o} = L
      BY <2>13
    <2>16. \A x \in Obj : v.holder[x] = IF x = o THEN k ELSE f.holder[x]
      BY <2>10, <2>14 DEF Moved, Holders
    <2>17. Ok(v, T)
      BY <2>2, <2>3, <2>6, <2>11, <2>14, <2>15, <2>16
    <2>18. QED BY <2>5, <2>17
  <1> HIDE DEF K
  <1>6. S \in K
    BY <1>1, <1>4, <1>5, ByParts
  <1>7. Ok(g[S], S)
    BY <1>6 DEF K
  <1>8. QED BY <1>2, <1>7

LEMMA ReplacedIs ==
    ASSUME NEW w, NEW c, NEW o
    PROVE  \E g : Goes(<<"strip">>, Worn(w, c, SlotOf[o]), w, g) /\ Replaced(w, c, o) = g[Worn(w, c, SlotOf[o])]
  <1> DEFINE S == Worn(w, c, SlotOf[o])
             Is(g) == g = [T \in SUBSET S |-> IF T = {} THEN w ELSE Unequip(g[T \ {One(T)}], One(T))]
             g == CHOOSE g : Is(g)
  <1>0. IsFiniteSet(S)
    <2>1. S \in SUBSET Obj
      BY DEF Worn, Held
    <2>2. QED BY <2>1, Kinds, FS_Subset
  <1>1. Replaced(w, c, o) = g[S]
    BY DEF Replaced, FoldSet, MapThenFoldSet, One
  <1> HIDE DEF S
  <1>2. PICK h : Goes(<<"strip">>, S, w, h)
    BY <1>0, GoesExists
  <1>3. \A u, x : Do(<<"strip">>, x, u) = Unequip(u, x)
    BY Does
  <1>4. Is(h)
    BY <1>2, <1>3 DEF Goes
  <1>5. Is(g)
    BY <1>4
  <1> HIDE DEF g
  <1>6. Goes(<<"strip">>, S, w, g)
    BY <1>3, <1>5 DEF Goes
  <1>7. QED BY <1>1, <1>6 DEF S

LEMMA ReplacedFine ==
    ASSUME NEW w, NEW P, NEW L, Fine(w, P, L), Where, NEW c \in Person, NEW o
    PROVE  LET v == Replaced(w, c, o)
           IN  /\ Fine(v, P, L) /\ v.holder = w.holder /\ v.coins = w.coins
               /\ \A x \in Obj : v.slot[x] = IF x \in Worn(w, c, SlotOf[o]) THEN Nil ELSE w.slot[x]
  <1> DEFINE p == <<"strip">>
             S == Worn(w, c, SlotOf[o])
             Ok(u, T) == /\ Fine(u, P, L) /\ u.holder = w.holder /\ u.coins = w.coins
                         /\ \A x \in Obj : u.slot[x] = IF x \in T THEN Nil ELSE w.slot[x]
  <1>0. PICK g : Goes(p, S, w, g) /\ Replaced(w, c, o) = g[S]
    BY ReplacedIs
  <1>1. S \in SUBSET Obj /\ \A x \in S : w.holder[x] = c
    BY DEF Worn, Held
  <1> HIDE DEF S
  <1>2. IsFiniteSet(S)
    BY <1>1, Kinds, FS_Subset
  <1> HIDE DEF p
  <1>3. g[{}] = w /\ \A T \in SUBSET S : T # {} => g[T] = Unequip(g[T \ {One(T)}], One(T))
    <2>1. g[{}] = w /\ \A T \in SUBSET S : T # {} => g[T] = Do(p, One(T), g[T \ {One(T)}])
      BY <1>0, GoesOn
    <2>2. \A x, u : Do(p, x, u) = Unequip(u, x)
      BY Does DEF p
    <2>3. QED BY <2>1, <2>2
  <1> DEFINE K == {T \in SUBSET S : Ok(g[T], T)}
  <1>4. {} \in K
    BY <1>3
  <1>5. ASSUME NEW T \in SUBSET S, T # {}, \A x \in T : T \ {x} \in K PROVE T \in K
    <2>1. PICK y : y = One(T)
      OBVIOUS
    <2>2. y \in T /\ y \in Obj /\ T \ {y} \in K /\ T \ {y} \in SUBSET S /\ w.holder[y] \in Person
      BY <1>1, <1>5, <2>1, OneIn
    <2>3. PICK R : R = T \ {y}
      OBVIOUS
    <2>4. PICK u : u = g[R]
      OBVIOUS
    <2>5. PICK v : v = g[T]
      OBVIOUS
    <2>6. Ok(u, R) /\ v = Unequip(u, y)
      BY <1>3, <1>5, <2>1, <2>2, <2>3, <2>4, <2>5
    <2>7. Fine(u, P, L) /\ u.holder[y] \in Person /\ u.slot \in [Obj -> Slot \cup {Nil}]
      BY <2>2, <2>6 DEF Fine, World
    <2>8. Fine(v, P, L) /\ UnequipIs(u, y, v)
      BY <2>2, <2>6, <2>7, UnequipFine
    <2>9. Ok(v, T)
      BY <2>2, <2>3, <2>6, <2>7, <2>8 DEF UnequipIs
    <2>10. QED BY <2>5, <2>9
  <1> HIDE DEF K
  <1>6. S \in K
    <2>1. \A T \in SUBSET S : T \in K
      BY <1>2, <1>4, <1>5, ByParts
    <2>2. QED BY <2>1
  <1>7. Ok(g[S], S)
    BY <1>6 DEF K
  <1>8. QED BY <1>0, <1>7 DEF S

LEMMA DoesGive ==
    ASSUME NEW c
    PROVE  \A o, u : Do(<<"give", c>>, o, u) = ToChar(u, o, c)
  BY DEF Do

LEMMA DoesKit ==
    ASSUME NEW c, NEW on
    PROVE  \A o, u : Do(<<"kit", c, on>>, o, u) = IF o \in on THEN Equip(ToChar(u, o, c), c, o, FALSE) ELSE ToChar(u, o, c)
  BY DEF Do

GiveAll(w, c, K) == FoldSet(LAMBDA o, u : ToChar(u, o, c), w, K)

LEMMA GiveAllIs ==
    ASSUME NEW w, NEW c, NEW K, IsFiniteSet(K)
    PROVE  \E g : Goes(<<"give", c>>, K, w, g) /\ GiveAll(w, c, K) = g[K]
  <1> DEFINE Is(g) == g = [T \in SUBSET K |-> IF T = {} THEN w ELSE ToChar(g[T \ {One(T)}], One(T), c)]
             g == CHOOSE g : Is(g)
  <1>1. PICK h : Goes(<<"give", c>>, K, w, h)
    BY GoesExists
  <1>2. \A u, o : Do(<<"give", c>>, o, u) = ToChar(u, o, c)
    BY DoesGive
  <1>3. Is(h)
    BY <1>1, <1>2 DEF Goes
  <1>4. Is(g)
    BY <1>3
  <1>5. GiveAll(w, c, K) = g[K]
    BY DEF GiveAll, FoldSet, MapThenFoldSet, One
  <1> HIDE DEF g
  <1>6. Goes(<<"give", c>>, K, w, g)
    BY <1>2, <1>4 DEF Goes
  <1>7. QED BY <1>5, <1>6

LEMMA GiveAllFine ==
    ASSUME NEW w, NEW P, Fine(w, P, {}), NEW c \in Person, c \in P, NEW K \in SUBSET Obj, \A x \in K : w.holder[x] = Nil
    PROVE  LET v == GiveAll(w, c, K)
           IN  /\ Fine(v, P, {}) /\ v.slot = w.slot
               /\ \A x \in Obj : v.holder[x] = IF x \in K THEN c ELSE w.holder[x]
  <1> DEFINE p == <<"give", c>>
             Ok(u, T) == /\ Fine(u, P, {}) /\ u.slot = w.slot
                         /\ \A x \in Obj : u.holder[x] = IF x \in T THEN c ELSE w.holder[x]
  <1>1. IsFiniteSet(K)
    BY Kinds, FS_Subset
  <1>2. PICK g : Goes(p, K, w, g) /\ GiveAll(w, c, K) = g[K]
    BY <1>1, GiveAllIs
  <1> HIDE DEF p
  <1>3. g[{}] = w /\ \A T \in SUBSET K : T # {} => g[T] = ToChar(g[T \ {One(T)}], One(T), c)
    <2>1. g[{}] = w /\ \A T \in SUBSET K : T # {} => g[T] = Do(p, One(T), g[T \ {One(T)}])
      BY <1>2, GoesOn, SMTT(40)
    <2>2. \A o, u : Do(p, o, u) = ToChar(u, o, c)
      BY DoesGive DEF p
    <2>3. QED BY <2>1, <2>2
  <1> DEFINE Q == {T \in SUBSET K : Ok(g[T], T)}
  <1>4. {} \in Q
    BY <1>3
  <1>5. ASSUME NEW T \in SUBSET K, T # {}, \A x \in T : T \ {x} \in Q PROVE T \in Q
    <2>1. PICK o : o = One(T)
      OBVIOUS
    <2>2. o \in T /\ o \in Obj /\ T \ {o} \in Q /\ T \ {o} \in SUBSET K /\ w.holder[o] = Nil
      BY <1>5, <2>1, OneIn
    <2>3. PICK R : R = T \ {o}
      OBVIOUS
    <2>4. PICK u : u = g[R]
      OBVIOUS
    <2>5. PICK v : v = g[T]
      OBVIOUS
    <2>6. Ok(u, R) /\ v = ToChar(u, o, c)
      BY <1>3, <1>5, <2>1, <2>2, <2>3, <2>4, <2>5
    <2>7. Fine(u, P, {}) /\ u.holder[o] = Nil /\ u.holder \in Holders
      BY <2>2, <2>3, <2>6 DEF Fine, World
    <2>8. Fine(v, P, {} \ {o}) /\ Moved(u, v, [u.holder EXCEPT ![o] = c]) /\ v.slot = u.slot
      BY <2>2, <2>6, <2>7, ToCharFine
    <2>9. {} \ {o} = {}
      OBVIOUS
    <2>10. \A x \in Obj : v.holder[x] = IF x = o THEN c ELSE u.holder[x]
      BY <2>7, <2>8 DEF Moved, Holders
    <2>11. Ok(v, T)
      BY <2>2, <2>3, <2>6, <2>8, <2>9, <2>10
    <2>12. QED BY <2>5, <2>11
  <1> HIDE DEF Q
  <1>6. K \in Q
    BY <1>1, <1>4, <1>5, ByParts
  <1>7. Ok(g[K], K)
    BY <1>6 DEF Q
  <1>8. QED BY <1>2, <1>7

LEMMA KittedIs ==
    ASSUME NEW w, NEW c, NEW K, IsFiniteSet(K), NEW on
    PROVE  \E g : Goes(<<"kit", c, on>>, K, w, g) /\ Kitted(w, c, K, on) = g[K]
  <1> DEFINE Turn(u, o) == IF o \in on THEN Equip(ToChar(u, o, c), c, o, FALSE) ELSE ToChar(u, o, c)
             Is(g) == g = [T \in SUBSET K |-> IF T = {} THEN w ELSE Turn(g[T \ {One(T)}], One(T))]
             g == CHOOSE g : Is(g)
             p == <<"kit", c, on>>
  <1>1. Kitted(w, c, K, on) = g[K]
    BY DEF Kitted, FoldSet, MapThenFoldSet, One
  <1>2. \A o, u : Do(p, o, u) = Turn(u, o)
    BY DoesKit
  <1> HIDE DEF p, Turn
  <1>3. PICK h : Goes(p, K, w, h)
    BY GoesExists
  <1>4. Is(h)
    BY <1>2, <1>3 DEF Goes
  <1>5. Is(g)
    BY <1>4
  <1> HIDE DEF g
  <1>6. Goes(p, K, w, g)
    BY <1>2, <1>5 DEF Goes
  <1>7. QED BY <1>1, <1>6 DEF p

LEMMA KittedFine ==
    ASSUME NEW w, NEW P, Fine(w, P, {}), Where, NEW c \in Person, c \in P, NEW K \in SUBSET Thing, \A x \in K : w.holder[x] = Nil,
           NEW on \in SUBSET K, OnePerSlot(on), \A x \in Obj : w.holder[x] # c
    PROVE  Fine(Kitted(w, c, K, on), P, {})
  <1> DEFINE p == <<"kit", c, on>>
             Ok(u, T) == /\ Fine(u, P, {})
                         /\ \A x \in Obj : /\ u.holder[x] = IF x \in T THEN c ELSE w.holder[x]
                                           /\ u.slot[x] = IF x \in T /\ x \in on THEN SlotOf[x] ELSE w.slot[x]
  <1>0. K \in SUBSET Obj /\ \A x \in K : w.slot[x] = Nil
    BY Kinds DEF Fine, Dressed
  <1>1. IsFiniteSet(K)
    BY <1>0, Kinds, FS_Subset
  <1>2. PICK g : Goes(p, K, w, g) /\ Kitted(w, c, K, on) = g[K]
    BY <1>1, KittedIs
  <1> HIDE DEF p
  <1>3. g[{}] = w /\ \A T \in SUBSET K : T # {} => g[T] = IF One(T) \in on THEN Equip(ToChar(g[T \ {One(T)}], One(T), c), c, One(T), FALSE)
                                                         ELSE ToChar(g[T \ {One(T)}], One(T), c)
    <2>1. g[{}] = w /\ \A T \in SUBSET K : T # {} => g[T] = Do(p, One(T), g[T \ {One(T)}])
      BY <1>2, GoesOn
    <2>2. \A o, u : Do(p, o, u) = IF o \in on THEN Equip(ToChar(u, o, c), c, o, FALSE) ELSE ToChar(u, o, c)
      BY DoesKit DEF p
    <2>3. QED BY <2>1, <2>2
  <1> DEFINE Q == {T \in SUBSET K : Ok(g[T], T)}
  <1>4. {} \in Q
    BY <1>3
  <1>5. ASSUME NEW T \in SUBSET K, T # {}, \A x \in T : T \ {x} \in Q PROVE T \in Q
    <2>1. PICK o : o = One(T)
      OBVIOUS
    <2>2. o \in T /\ o \in Obj /\ o \in Thing /\ T \ {o} \in Q /\ T \ {o} \in SUBSET K /\ w.holder[o] = Nil /\ w.slot[o] = Nil
      BY <1>0, <1>5, <2>1, OneIn
    <2>3. PICK R : R = T \ {o}
      OBVIOUS
    <2>4. PICK u : u = g[R]
      OBVIOUS
    <2>5. PICK v : v = g[T]
      OBVIOUS
    <2>6. PICK f : f = ToChar(u, o, c)
      OBVIOUS
    <2>7. Ok(u, R) /\ v = IF o \in on THEN Equip(f, c, o, FALSE) ELSE f
      BY <1>3, <1>5, <2>1, <2>2, <2>3, <2>4, <2>5, <2>6
    <2>8. Fine(u, P, {}) /\ u.holder[o] = Nil /\ u.holder \in Holders
      BY <2>2, <2>3, <2>7 DEF Fine, World
    <2>9. Fine(f, P, {} \ {o}) /\ Moved(u, f, [u.holder EXCEPT ![o] = c]) /\ f.slot = u.slot
      BY <2>2, <2>6, <2>8, ToCharFine
    <2>10. {} \ {o} = {}
      OBVIOUS
    <2>11. \A x \in Obj : f.holder[x] = IF x = o THEN c ELSE u.holder[x]
      BY <2>8, <2>9 DEF Moved, Holders
    <2>12. \A x \in Obj : f.holder[x] = (IF x \in T THEN c ELSE w.holder[x]) /\ f.slot[x] = IF x \in R /\ x \in on THEN SlotOf[x] ELSE w.slot[x]
      BY <2>2, <2>3, <2>7, <2>9, <2>11
    <2>13. CASE o \in on
      <3>1. SlotOf[o] # Nil /\ \A y \in on : y # o => SlotOf[y] # SlotOf[o]
        BY <2>13 DEF OnePerSlot
      <3>2. \A y \in Obj : f.holder[y] = c => f.slot[y] # SlotOf[o]
        BY <1>0, <2>3, <2>12, <3>1
      <3>3. Fine(f, P, {}) /\ f.holder[o] = c /\ v = Equip(f, c, o, FALSE)
        BY <2>2, <2>7, <2>9, <2>10, <2>12, <2>13
      <3>4. Fine(v, P, {}) /\ EquipIs(f, o, v)
        BY <2>2, <3>1, <3>2, <3>3, EquipFine
      <3>5. f.slot \in [Obj -> Slot \cup {Nil}]
        BY <3>3 DEF Fine, World
      <3>6. \A x \in Obj : v.slot[x] = (IF x = o THEN SlotOf[o] ELSE f.slot[x]) /\ v.holder[x] = f.holder[x]
        BY <2>2, <3>4, <3>5 DEF EquipIs
      <3>7. Ok(v, T)
        BY <2>2, <2>3, <2>12, <2>13, <3>4, <3>6
      <3>8. QED BY <2>5, <3>7
    <2>14. CASE o \notin on
      <3>1. v = f
        BY <2>7, <2>14
      <3>2. Ok(v, T)
        BY <2>2, <2>3, <2>9, <2>10, <2>12, <2>14, <3>1
      <3>3. QED BY <2>5, <3>2
    <2>15. QED BY <2>13, <2>14
  <1> HIDE DEF Q
  <1>6. K \in Q
    BY <1>1, <1>4, <1>5, ByParts
  <1>7. Ok(g[K], K)
    BY <1>6 DEF Q
  <1>8. QED BY <1>2, <1>7

-----------------------------------------------------------------------------
(* From one holder to the next. *)

LEMMA CharToChar ==
    ASSUME NEW w, NEW P, Fine(w, P, {}), Where, NEW o \in Obj, w.holder[o] \in Person, NEW c \in Person, c \in P
    PROVE  Fine(ToChar(FromChar(w, o), o, c), P, {})
  <1> DEFINE u == FromChar(w, o)
  <1>1. Fine(u, P, {} \cup {o}) /\ Moved(w, u, [w.holder EXCEPT ![o] = Nil])
    BY FromCharFine
  <1> HIDE DEF u
  <1>2. u.holder[o] = Nil
    BY <1>1 DEF Fine, Loose
  <1>3. Fine(ToChar(u, o, c), P, ({} \cup {o}) \ {o})
    BY <1>1, <1>2, ToCharFine
  <1>4. ({} \cup {o}) \ {o} = {}
    OBVIOUS
  <1>5. QED BY <1>3, <1>4 DEF u

LEMMA CharToRoom ==
    ASSUME NEW w, NEW P, Fine(w, P, {}), Where, NEW o \in Obj, w.holder[o] \in Person, NEW r \in Room
    PROVE  Fine(ToRoom(FromChar(w, o), o, r), P, {})
  <1> DEFINE u == FromChar(w, o)
  <1>1. Fine(u, P, {} \cup {o}) /\ Moved(w, u, [w.holder EXCEPT ![o] = Nil])
    BY FromCharFine
  <1> HIDE DEF u
  <1>2. u.holder[o] = Nil
    BY <1>1 DEF Fine, Loose
  <1>3. Fine(ToRoom(u, o, r), P, ({} \cup {o}) \ {o})
    BY <1>1, <1>2, ToRoomFine
  <1>4. ({} \cup {o}) \ {o} = {}
    OBVIOUS
  <1>5. QED BY <1>3, <1>4 DEF u

LEMMA Extracted ==
    ASSUME NEW w, NEW P, Fine(w, P, {}), Where, NEW o \in Obj
    PROVE  Fine(Extract(w, o), P, {})
  <1>1. Fine(Extract(w, o), P, {} \ {o})
    BY ExtractFine
  <1>2. {} \ {o} = {}
    OBVIOUS
  <1>3. QED BY <1>1, <1>2

-----------------------------------------------------------------------------
(* The invariant, and what the commands do to it. *)

Inner == Sound(world, InGame, {}) /\ Shines(world, at) /\ Where

IInv == Inner /\ gold \in [Person -> Nat]

LEMMA InnerFine == ASSUME Inner PROVE Fine(world, InGame, {}) /\ Where
  BY FineIs DEF Inner

\* Where nobody has moved.
LEMMA Stays ==
    ASSUME Where, at' = at, Fine(world', InGame, {})
    PROVE  Inner'
  <1>1. Sound(world', InGame, {}) /\ Shines(world', at)
    BY FineIs
  <1>2. InGame' = InGame
    BY DEF InGame
  <1>3. QED BY <1>1, <1>2 DEF Inner, Where

\* c is in y now, or in the game no more.
LEMMA Settles ==
    ASSUME Where, NEW c \in Person, NEW y \in Room \cup {Nil}, at' = [at EXCEPT ![c] = y],
           Sound(world', IF y = Nil THEN InGame \ {c} ELSE InGame \cup {c}, {}), Shines(world', [at EXCEPT ![c] = y])
    PROVE  Inner'
  <1>1. InGame' = IF y = Nil THEN InGame \ {c} ELSE InGame \cup {c}
    BY DEF InGame, Where
  <1>2. Where'
    BY DEF Where
  <1>3. QED BY <1>1, <1>2 DEF Inner

LEMMA Someone ==
    ASSUME Inner, NEW c \in InGame
    PROVE  c \in Person /\ at[c] \in Room /\ at[c] \notin Person /\ at[c] \notin Obj /\ \A o \in Held(world, c) : o \in Obj /\ world.holder[o] \in Person
  BY Kinds DEF Inner, Where, InGame, Held

LEMMA GottenFine ==
    ASSUME IInv, NEW c \in InGame, NEW o \in Obj, NEW u, Fine(u, InGame, {} \cup {o}), Gotten(u, c, o), at' = at
    PROVE  IInv'
  <1>1. Where /\ u.holder[o] = Nil /\ ({} \cup {o}) \ {o} = {} /\ c \in Person
    BY Someone DEF IInv, Inner, Fine, Loose
  <1>2. CASE o \in Purse
    <2>1. Fine(Extract(u, o), InGame, ({} \cup {o}) \ {o})
      BY <1>1, ExtractFine
    <2>2. world' = Extract(u, o) /\ gold' = [gold EXCEPT ![c] = @ + world.coins[o]]
      BY <1>2 DEF Gotten
    <2>3. Inner'
      BY <1>1, <2>1, <2>2, Stays
    <2>4. world.coins[o] \in Nat
      BY <1>2 DEF IInv, Inner, Sound, World
    <2>5. gold' \in [Person -> Nat]
      BY <1>1, <2>2, <2>4 DEF IInv
    <2>6. QED BY <2>3, <2>5 DEF IInv
  <1>3. CASE o \notin Purse
    <2>1. Fine(ToChar(u, o, c), InGame, ({} \cup {o}) \ {o})
      BY <1>1, ToCharFine
    <2>2. world' = ToChar(u, o, c) /\ gold' = gold
      BY <1>3 DEF Gotten
    <2>3. Inner'
      BY <1>1, <2>1, <2>2, Stays
    <2>4. QED BY <2>2, <2>3 DEF IInv
  <1>4. QED BY <1>2, <1>3

LEMMA GetFine ==
    ASSUME IInv, NEW c, NEW o, Get(c, o)
    PROVE  IInv'
  <1>1. Fine(world, InGame, {}) /\ c \in InGame /\ o \in Obj /\ world.holder[o] \in Room
    BY InnerFine, Someone DEF IInv, Get, Held
  <1>2. Fine(FromRoom(world, o), InGame, {} \cup {o})
    BY <1>1, FromRoomFine
  <1>3. QED BY <1>1, <1>2, GottenFine DEF Get

LEMMA GetFromFine ==
    ASSUME IInv, NEW c, NEW o, NEW k, GetFrom(c, o, k)
    PROVE  IInv'
  <1>1. Fine(world, InGame, {}) /\ c \in InGame /\ o \in Obj /\ world.holder[o] \in Obj
    BY InnerFine, Kinds DEF IInv, GetFrom, Held
  <1>2. Fine(FromObj(world, o), InGame, {} \cup {o})
    BY <1>1, FromObjFine
  <1>3. QED BY <1>1, <1>2, GottenFine DEF GetFrom

LEMMA PutFine ==
    ASSUME IInv, NEW c, NEW o, NEW k, Put(c, o, k)
    PROVE  IInv'
  <1> DEFINE u == FromChar(world, o)
  <1>1. Fine(world, InGame, {}) /\ Where /\ c \in InGame /\ o \in Obj /\ world.holder[o] = c /\ c \in Person
    BY InnerFine, Someone DEF IInv, Put, Carried, Worn, Held
  <1>2. k \in Bag /\ k \in Obj /\ k # o /\ world.holder[k] \in Person \cup Room
    BY <1>1, Kinds, Someone DEF IInv, Put, Near, Held, Fits
  <1>3. Fine(u, InGame, {} \cup {o}) /\ Moved(world, u, [world.holder EXCEPT ![o] = Nil])
    BY <1>1, FromCharFine
  <1> HIDE DEF u
  <1>4. u.holder \in Holders /\ world.holder \in Holders
    BY <1>1, <1>3 DEF Fine, World
  <1>5. u.holder[o] = Nil /\ u.holder[k] \in Person \cup Room
    BY <1>1, <1>2, <1>3, <1>4 DEF Moved, Holders
  <1>6. k \notin Mass(u, o)
    <2>1. Above(u, k) = {u.holder[k]}
      BY <1>2, <1>4, <1>5, AboveStep, Kinds
    <2>2. QED BY <1>1, <1>2, <1>4, <1>5, <2>1, MassIs, Kinds
  <1>7. Exists(u, k)
    BY <1>5, Kinds DEF Exists
  <1>8. Fine(ToObj(u, o, k), InGame, ({} \cup {o}) \ {o}) /\ ({} \cup {o}) \ {o} = {}
    BY <1>1, <1>2, <1>3, <1>5, <1>6, <1>7, ToObjFine
  <1>9. world' = ToObj(u, o, k) /\ at' = at /\ gold' = gold
    BY DEF Put, u
  <1>10. Inner'
    BY <1>1, <1>8, <1>9, Stays
  <1>11. QED BY <1>9, <1>10 DEF IInv

LEMMA DropFine ==
    ASSUME IInv, NEW c, NEW o, Drop(c, o)
    PROVE  IInv'
  <1>1. Fine(world, InGame, {}) /\ Where /\ c \in InGame /\ o \in Obj /\ world.holder[o] \in Person /\ at[c] \in Room
    BY InnerFine, Someone DEF IInv, Drop, Carried, Worn
  <1>2. Fine(world', InGame, {}) /\ at' = at /\ gold' = gold
    BY <1>1, CharToRoom DEF Drop
  <1>3. QED BY <1>1, <1>2, Stays DEF IInv

LEMMA DropCoinsFine ==
    ASSUME IInv, NEW c, NEW n, NEW m, DropCoins(c, n, m)
    PROVE  IInv'
  <1> DEFINE S == Held(world, at[c]) \cap Purse
             u == ExtractAll(world, S)
             h == Heap(world, S, n)
             v == Coins(u, m, h)
  <1>1. Fine(world, InGame, {}) /\ Where /\ c \in InGame /\ c \in Person /\ at[c] \in Room /\ n \in 1 .. gold[c]
    BY InnerFine, Someone DEF IInv, DropCoins
  <1>2. m \in Fresh(u, Purse) /\ world' = ToRoom(v, m, at[c]) /\ gold' = [gold EXCEPT ![c] = @ - n] /\ at' = at
    BY DEF DropCoins
  <1>3. S \in SUBSET Obj /\ \A x \in S : world.coins[x] \in Nat
    BY <1>1 DEF Held, Fine, World
  <1>4. h \in Nat
    <2>1. IsFiniteSet(S)
      BY <1>3, Kinds, FS_Subset
    <2> HIDE DEF S
    <2>2. Total(S, world.coins) \in Nat
      BY <1>3, <2>1, TotalNat
    <2>3. n \in Nat
      BY <1>1 DEF IInv
    <2>4. QED BY <2>2, <2>3 DEF Heap
  <1> HIDE DEF S, h
  <1>5. Fine(u, InGame, {} \ S) /\ {} \ S = {}
    BY <1>1, <1>3, ExtractAllFine
  <1> HIDE DEF u
  <1>6. Fine(u, InGame, {}) /\ m \in Purse /\ u.holder[m] = Nil /\ m \in Obj
    BY <1>2, <1>5, Kinds DEF Fresh, Exists
  <1>7. Fine(v, InGame, {} \cup {m}) /\ v.holder = u.holder
    <2>1. Fine(v, InGame, {} \cup {m}) /\ Minted(u, m, h, v)
      BY <1>4, <1>6, CoinsFine
    <2>2. QED BY <2>1 DEF Minted
  <1> HIDE DEF v
  <1>8. Fine(ToRoom(v, m, at[c]), InGame, ({} \cup {m}) \ {m}) /\ ({} \cup {m}) \ {m} = {}
    BY <1>1, <1>6, <1>7, ToRoomFine
  <1>9. Inner'
    BY <1>1, <1>2, <1>8, Stays
  <1>10. gold' \in [Person -> Nat]
    BY <1>1, <1>2 DEF IInv
  <1>11. QED BY <1>9, <1>10 DEF IInv

LEMMA GiveFine ==
    ASSUME IInv, NEW c, NEW v, NEW o, Give(c, v, o)
    PROVE  IInv'
  <1>1. Fine(world, InGame, {}) /\ Where /\ c \in InGame /\ v \in InGame /\ v \in Person /\ o \in Obj /\ world.holder[o] \in Person
    BY InnerFine, Someone DEF IInv, Give, Meet, Carried, Worn
  <1>2. Fine(world', InGame, {}) /\ at' = at /\ gold' = gold
    BY <1>1, CharToChar DEF Give
  <1>3. QED BY <1>1, <1>2, Stays DEF IInv

LEMMA GiveCoinsFine ==
    ASSUME IInv, NEW c, NEW v, NEW n, GiveCoins(c, v, n)
    PROVE  IInv'
  <1>1. Fine(world, InGame, {}) /\ Where /\ c \in Person /\ v \in Person /\ c # v
    BY InnerFine, Someone DEF IInv, GiveCoins, Meet
  <1>2. Inner'
    BY <1>1, Stays DEF GiveCoins
  <1>3. n \in Nat /\ gold[c] - n \in Nat /\ gold[v] + n \in Nat
    BY <1>1 DEF IInv, GiveCoins
  <1>4. gold' \in [Person -> Nat]
    BY <1>1, <1>3 DEF IInv, GiveCoins
  <1>5. QED BY <1>2, <1>4 DEF IInv

LEMMA WearFine ==
    ASSUME IInv, NEW c, NEW o, NEW zap, Wear(c, o, zap)
    PROVE  IInv'
  <1> DEFINE u == Replaced(world, c, o)
  <1>1. Fine(world, InGame, {}) /\ Where /\ c \in InGame /\ c \in Person /\ o \in Obj /\ o \in Thing /\ world.holder[o] = c /\ at[c] \in Room
    BY InnerFine, Someone DEF IInv, Wear, Carried, Worn, Held
  <1>2. SlotOf[o] # Nil /\ world' = Equip(u, c, o, zap) /\ at' = at /\ gold' = gold
    BY DEF Wear
  <1>3. /\ Fine(u, InGame, {}) /\ u.holder = world.holder
        /\ \A x \in Obj : u.slot[x] = IF x \in Worn(world, c, SlotOf[o]) THEN Nil ELSE world.slot[x]
    BY <1>1, ReplacedFine
  <1>4. \A y \in Obj : u.holder[y] = c => u.slot[y] # SlotOf[o]
    BY <1>2, <1>3 DEF Worn, Held
  <1> HIDE DEF u
  <1>5. CASE zap
    <2>1. world' = ToRoom(FromChar(u, o), o, at[c])
      BY <1>2, <1>5 DEF Equip
    <2>2. Fine(world', InGame, {})
      BY <1>1, <1>3, <2>1, CharToRoom
    <2>3. QED BY <1>1, <1>2, <2>2, Stays DEF IInv
  <1>6. CASE ~zap
    <2>1. world' = Equip(u, c, o, FALSE)
      BY <1>2, <1>6 DEF Equip
    <2>2. Fine(world', InGame, {})
      BY <1>1, <1>2, <1>3, <1>4, <2>1, EquipFine
    <2>3. QED BY <1>1, <1>2, <2>2, Stays DEF IInv
  <1>7. QED BY <1>5, <1>6

LEMMA RemoveFine ==
    ASSUME IInv, NEW c, NEW o, Remove(c, o)
    PROVE  IInv'
  <1>1. Fine(world, InGame, {}) /\ Where /\ o \in Obj /\ world.holder[o] \in Person
    BY InnerFine, Someone DEF IInv, Remove
  <1>2. Fine(world', InGame, {}) /\ at' = at /\ gold' = gold
    BY <1>1, UnequipFine DEF Remove
  <1>3. QED BY <1>1, <1>2, Stays DEF IInv

LEMMA SacrificeFine ==
    ASSUME IInv, NEW c, NEW o, NEW n, n \in Nat, Sacrifice(c, o, n)
    PROVE  IInv'
  <1>1. Fine(world, InGame, {}) /\ Where /\ o \in Obj /\ c \in Person
    BY InnerFine, Someone DEF IInv, Sacrifice, Held
  <1>2. Fine(world', InGame, {}) /\ at' = at
    BY <1>1, Extracted DEF Sacrifice
  <1>3. gold' \in [Person -> Nat]
    BY <1>1 DEF IInv, Sacrifice
  <1>4. QED BY <1>1, <1>2, <1>3, Stays DEF IInv

LEMMA ConsumeFine ==
    ASSUME IInv, NEW c, NEW o, Consume(c, o)
    PROVE  IInv'
  <1>1. Fine(world, InGame, {}) /\ Where /\ o \in Obj
    BY InnerFine DEF IInv, Consume, Held
  <1>2. Fine(world', InGame, {}) /\ at' = at /\ gold' = gold
    BY <1>1, Extracted DEF Consume
  <1>3. QED BY <1>1, <1>2, Stays DEF IInv

LEMMA StealFine ==
    ASSUME IInv, NEW c, NEW v, NEW o, Steal(c, v, o)
    PROVE  IInv'
  <1>1. Fine(world, InGame, {}) /\ Where /\ c \in InGame /\ v \in InGame /\ c \in Person /\ o \in Obj /\ world.holder[o] \in Person
    BY InnerFine, Someone DEF IInv, Steal, Meet, Carried, Worn
  <1>2. Fine(world', InGame, {}) /\ at' = at /\ gold' = gold
    BY <1>1, CharToChar DEF Steal
  <1>3. QED BY <1>1, <1>2, Stays DEF IInv

LEMMA StealCoinsFine ==
    ASSUME IInv, NEW c, NEW v, NEW n, n \in Nat, StealCoins(c, v, n)
    PROVE  IInv'
  <1>1. Fine(world, InGame, {}) /\ Where /\ c \in Person /\ v \in Person /\ c # v
    BY InnerFine, Someone DEF IInv, StealCoins, Meet
  <1>2. Inner'
    BY <1>1, Stays DEF StealCoins
  <1>3. n <= gold[v]
    <2>1. n * Tenth <= gold[v] /\ Tenth \in Nat \ {0} /\ gold[v] \in Nat
      BY <1>1, ObjectsAssumption DEF IInv, StealCoins
    <2> DEFINE t == Tenth
               d == t - 1
    <2>2. t = d + 1 /\ d \in Nat /\ n * t <= gold[v] /\ gold[v] \in Nat
      BY <2>1
    <2> HIDE DEF t, d
    <2>3. n * t = n * d + n /\ n * d >= 0 /\ n * d \in Nat
      BY <2>2
    <2>4. QED BY <2>2, <2>3
  <1>4. gold[v] - n \in Nat /\ gold[c] + n \in Nat
    BY <1>1, <1>3 DEF IInv
  <1>5. gold' \in [Person -> Nat]
    BY <1>1, <1>4 DEF IInv, StealCoins
  <1>6. QED BY <1>2, <1>5 DEF IInv

LEMMA BuyFine ==
    ASSUME IInv, NEW c, NEW k, NEW o, NEW n, Buy(c, k, o, n)
    PROVE  IInv'
  <1>1. Fine(world, InGame, {}) /\ Where /\ c \in InGame /\ c \in Person /\ k \in Person /\ c # k /\ o \in Obj /\ world.holder[o] \in Person
    BY InnerFine, Someone DEF IInv, Buy, Meet, Carried, Worn
  <1>2. Fine(world', InGame, {})
    <2>1. CASE o \in Stock
      <3>1. n \in Obj /\ world.holder[n] = Nil /\ world' = ToChar(world, n, c)
        BY <2>1, Kinds DEF Buy, Fresh, Exists
      <3>2. Fine(ToChar(world, n, c), InGame, {} \ {n}) /\ {} \ {n} = {}
        BY <1>1, <3>1, ToCharFine
      <3>3. QED BY <3>1, <3>2
    <2>2. CASE o \notin Stock
      <3>1. world' = ToChar(FromChar(world, o), o, c)
        BY <2>2 DEF Buy
      <3>2. QED BY <1>1, <3>1, CharToChar
    <2>3. QED BY <2>1, <2>2
  <1>3. at' = at
    BY DEF Buy
  <1>4. gold' \in [Person -> Nat]
    <2>1. Price \in Nat /\ gold[c] >= Price /\ gold' = [gold EXCEPT ![c] = @ - Price, ![k] = @ + Price]
      BY ObjectsAssumption DEF Buy
    <2>2. QED BY <1>1, <2>1 DEF IInv
  <1>5. QED BY <1>1, <1>2, <1>3, <1>4, Stays DEF IInv

LEMMA SellFine ==
    ASSUME IInv, NEW c, NEW k, NEW o, Sell(c, k, o)
    PROVE  IInv'
  <1>1. /\ Fine(world, InGame, {}) /\ Where /\ c \in InGame /\ c \in Person /\ k \in InGame /\ k \in Person /\ c # k
        /\ o \in Obj /\ world.holder[o] \in Person
    BY InnerFine, Someone DEF IInv, Sell, Meet, Carried, Worn
  <1>2. Fine(world', InGame, {})
    <2>1. CASE o \in Trash
      <3>1. world' = Extract(world, o)
        BY <2>1 DEF Sell
      <3>2. QED BY <1>1, <3>1, Extracted
    <2>2. CASE o \notin Trash
      <3>1. world' = ToChar(FromChar(world, o), o, k)
        BY <2>2 DEF Sell
      <3>2. QED BY <1>1, <3>1, CharToChar
    <2>3. QED BY <2>1, <2>2
  <1>3. at' = at
    BY DEF Sell
  <1>4. gold' \in [Person -> Nat]
    <2>1. Price \in Nat /\ gold' = [gold EXCEPT ![c] = @ + Price, ![k] = Till(@)]
      BY ObjectsAssumption DEF Sell
    <2>2. gold[k] - Price \in Int
      BY <1>1, <2>1 DEF IInv
    <2>3. Till(gold[k]) \in Nat
      BY <2>2, MaxIs DEF Till
    <2>4. QED BY <1>1, <2>1, <2>3 DEF IInv
  <1>5. QED BY <1>1, <1>2, <1>3, <1>4, Stays DEF IInv

LEMMA DonateFine ==
    ASSUME IInv, NEW c, NEW o, NEW enough, Donate(c, o, enough)
    PROVE  IInv'
  <1>1. Fine(world, InGame, {}) /\ Where /\ o \in Obj /\ world.holder[o] \in Person /\ Donation \in Room
    BY InnerFine, Someone, Kinds DEF IInv, Donate, Carried, Worn
  <1>2. Fine(world', InGame, {})
    <2>1. CASE enough
      <3>1. world' = Extract(world, o)
        BY <2>1 DEF Donate
      <3>2. QED BY <1>1, <3>1, Extracted
    <2>2. CASE ~enough
      <3>1. world' = ToRoom(FromChar(world, o), o, Donation)
        BY <2>2 DEF Donate
      <3>2. QED BY <1>1, <3>1, CharToRoom
    <2>3. QED BY <2>1, <2>2
  <1>3. at' = at /\ gold' = gold
    BY DEF Donate
  <1>4. QED BY <1>1, <1>2, <1>3, Stays DEF IInv

LEMMA MoveFine ==
    ASSUME IInv, NEW c, NEW r \in Room, Move(c, r)
    PROVE  IInv'
  <1>1. Fine(world, InGame, {}) /\ Where /\ c \in InGame /\ c \in Person /\ r # Nil /\ InGame \cup {c} = InGame
    BY InnerFine, Someone, Kinds DEF IInv, Move
  <1>2. world' = Entered(Left(world, c), c, r) /\ at' = [at EXCEPT ![c] = r] /\ gold' = gold
    BY DEF Move
  <1>3. Sound(world', InGame, {}) /\ Shines(world', [at EXCEPT ![c] = r])
    BY <1>1, <1>2, WentFine
  <1>4. Inner'
    BY <1>1, <1>2, <1>3, Settles
  <1>5. QED BY <1>2, <1>4 DEF IInv

LEMMA ReconnectFine ==
    ASSUME IInv, NEW c, Reconnect(c)
    PROVE  IInv'
  <1> DEFINE r == at[c]
  <1>1. Fine(world, InGame, {}) /\ Where /\ c \in InGame /\ c \in Person /\ r \in Room
    BY InnerFine, Someone DEF IInv, Reconnect
  <1>2. world' = [world EXCEPT !.light[r] = @ + 1] /\ at' = at /\ gold' = gold
    BY DEF Reconnect
  <1> HIDE DEF r
  <1>3. Relit(world, world') /\ \A q \in Room : world'.light[q] = world.light[q] + IF q = r THEN 1 ELSE 0
    BY <1>1, <1>2, LightUp DEF Fine
  <1>4. Sound(world', InGame, {}) /\ \A d : Burning(world', d) = Burning(world, d)
    BY <1>1, <1>3, FineIs, RelitSound
  <1>5. ASSUME NEW q \in Room PROVE Cardinality(Bright(world', q)) <= world'.light[q]
    <2>1. Bright(world', q) = Bright(world, q)
      BY <1>4 DEF Bright
    <2>2. Cardinality(Bright(world, q)) \in Nat /\ world.light[q] \in Nat /\ Cardinality(Bright(world, q)) <= world.light[q]
      BY <1>1, BrightFinite DEF World, Fine, Shining
    <2>3. QED BY <1>3, <2>1, <2>2
  <1>6. Shining(world')
    BY <1>5 DEF Shining
  <1>7. Fine(world', InGame, {})
    BY <1>4, <1>6 DEF Fine, Sound
  <1>8. QED BY <1>1, <1>2, <1>7, Stays DEF IInv

LEMMA EnterFine ==
    ASSUME IInv, NEW p, NEW r \in Room, NEW K, NEW on, Enter(p, r, K, on)
    PROVE  IInv'
  <1> DEFINE P == InGame \cup {p}
             w == Kitted(world, p, K, on)
  <1>1. Fine(world, InGame, {}) /\ Where /\ p \in Person /\ p \notin InGame /\ r # Nil /\ p \in P /\ InGame \subseteq P
    BY InnerFine, Kinds DEF IInv, Enter
  <1>2. K \in SUBSET Thing /\ (\A x \in K : world.holder[x] = Nil) /\ on \in SUBSET K /\ OnePerSlot(on)
    BY DEF Enter, Fresh, Exists
  <1>3. \A x \in Obj : world.holder[x] # p
    BY <1>1 DEF Fine, Owned
  <1> HIDE DEF P
  <1>4. Fine(world, P, {})
    BY <1>1, More
  <1>5. Fine(w, P, {})
    BY <1>1, <1>2, <1>3, <1>4, KittedFine
  <1>6. world' = Entered(w, p, r) /\ at' = [at EXCEPT ![p] = r] /\ gold' = gold
    BY DEF Enter
  <1> HIDE DEF w
  <1>7. Sound(world', P, {}) /\ Shines(world', [at EXCEPT ![p] = r])
    BY <1>1, <1>5, <1>6, CameFine
  <1>8. Inner'
    BY <1>1, <1>6, <1>7, Settles DEF P
  <1>9. QED BY <1>6, <1>8 DEF IInv

LEMMA QuitFine ==
    ASSUME IInv, NEW p, Quit(p)
    PROVE  IInv'
  <1> DEFINE S == Held(world, p)
             w == ExtractAll(world, S)
             P == InGame \ {p}
  <1>1. Fine(world, InGame, {}) /\ Where /\ p \in InGame /\ p \in Person /\ p # Nil
    BY InnerFine, Someone, Kinds DEF IInv, Quit
  <1>2. S \in SUBSET Obj /\ \A x \in Obj : world.holder[x] = p => x \in S
    BY DEF Held
  <1>3. world' = Left(w, p) /\ at' = [at EXCEPT ![p] = Nil] /\ gold' = gold
    BY DEF Quit
  <1> HIDE DEF S
  <1>4. /\ Fine(w, InGame, {} \ S) /\ {} \ S = {}
        /\ \A x \in Obj : w.holder[x] = Nil \/ w.holder[x] = world.holder[x]
        /\ \A x \in S : w.holder[x] = Nil
    <2>1. Fine(w, InGame, {} \ S) /\ AllGone(world, S, w)
      BY <1>1, <1>2, ExtractAllFine
    <2>2. {} \ S = {}
      OBVIOUS
    <2>3. QED BY <2>1, <2>2 DEF AllGone
  <1> HIDE DEF w, P
  <1>5. Owned(w, P)
    BY <1>1, <1>2, <1>4 DEF Fine, Owned, P
  <1>6. Fine(w, P, {})
    BY <1>4, <1>5, More
  <1>7. Sound(world', P, {}) /\ Shines(world', [at EXCEPT ![p] = Nil])
    BY <1>1, <1>3, <1>6, GoneOffFine
  <1>8. Inner'
    BY <1>1, <1>3, <1>7, Settles DEF P
  <1>9. QED BY <1>3, <1>8 DEF IInv

\* Who has just been given things, and is nowhere yet, wears them.
LEMMA DressedUp ==
    ASSUME NEW w, NEW P, Fine(w, P, {}), Where, NEW m \in Person \ InGame, NEW on \in SUBSET Thing, OnePerSlot(on),
           \A x \in on : w.holder[x] = m, \A x \in Obj : w.holder[x] = m => w.slot[x] = Nil,
           NEW s, s = [o \in Obj |-> IF o \in on THEN SlotOf[o] ELSE w.slot[o]], NEW u, u = [w EXCEPT !.slot = s]
    PROVE  /\ Fine(u, P, {}) /\ u.light = w.light /\ u.holder = w.holder
           /\ Cardinality(on \cap Lamp) \in Nat /\ (Burning(u, m) # {} => Cardinality(on \cap Lamp) >= 1)
  <1>1. w \in World /\ on \subseteq Obj /\ Lamp \subseteq Obj /\ \A x \in on : SlotOf[x] \in Slot
    BY Kinds DEF Fine, OnePerSlot, Slot
  <1>2. s \in [Obj -> Slot \cup {Nil}] /\ \A x \in Obj : s[x] = IF x \in on THEN SlotOf[x] ELSE w.slot[x]
    BY <1>1 DEF World
  <1>3. /\ u \in World /\ u.holder = w.holder /\ u.slot = s /\ u.coins = w.coins /\ u.tombs = w.tombs
        /\ u.number = w.number /\ u.load = w.load /\ u.light = w.light
    BY <1>1, <1>2 DEF World
  <1>4. Tree(u) /\ Counted(u)
    BY <1>3, SameHolders DEF Fine
  <1>5. Owned(u, P) /\ Loose(u, {})
    BY <1>3 DEF Fine, Owned, Loose, Exists
  <1>6. Dressed(u)
    <2>1. \A x \in Obj : u.slot[x] # Nil => x \in Thing /\ u.holder[x] \in Person /\ u.slot[x] = SlotOf[x]
      BY <1>2, <1>3 DEF Fine, Dressed
    <2>2. \A x, y \in Obj : u.slot[x] # Nil /\ u.slot[y] = u.slot[x] /\ u.holder[y] = u.holder[x] => x = y
      <3>1. ASSUME NEW x \in Obj, NEW y \in Obj, u.slot[x] # Nil, u.slot[y] = u.slot[x], u.holder[y] = u.holder[x] PROVE x = y
        <4>1. (x \in on <=> y \in on)
          BY <1>2, <1>3, <3>1
        <4>2. CASE x \in on
          BY <1>2, <1>3, <3>1, <4>1, <4>2 DEF OnePerSlot
        <4>3. CASE x \notin on
          BY <1>2, <1>3, <3>1, <4>1, <4>3 DEF Fine, Dressed
        <4>4. QED BY <4>2, <4>3
      <3>2. QED BY <3>1
    <2>3. QED BY <2>1, <2>2 DEF Dressed
  <1>7. \A d : Burning(u, d) = {x \in Lamp : u.holder[x] = d /\ u.slot[x] # Nil} /\ Burning(w, d) = {x \in Lamp : w.holder[x] = d /\ w.slot[x] # Nil}
    BY <1>1, <1>3, <1>6, BurningIs DEF Fine
  <1>8. ASSUME NEW d, d # m PROVE Burning(u, d) = Burning(w, d)
    <2>1. ASSUME NEW x \in Lamp, u.holder[x] = d PROVE u.slot[x] = w.slot[x]
      <3>1. x \in Obj /\ w.holder[x] # m
        BY <1>1, <1>3, <1>8, <2>1
      <3>2. x \notin on
        BY <3>1
      <3>3. QED BY <1>2, <1>3, <3>1, <3>2
    <2>2. {x \in Lamp : u.holder[x] = d /\ u.slot[x] # Nil} = {x \in Lamp : w.holder[x] = d /\ w.slot[x] # Nil}
      BY <1>3, <2>1
    <2>3. QED BY <1>7, <2>2
  <1>9. Shining(u)
    <2>1. \A d \in InGame : Burning(u, d) # {} => Burning(w, d) # {}
      BY <1>8
    <2>2. w.light \in [Room -> Nat] /\ Shining(w)
      BY <1>1 DEF World, Fine
    <2>3. QED BY <1>3, <2>1, <2>2, ShiningLess
  <1>10. IsFiniteSet(on \cap Lamp)
    <2>1. on \cap Lamp \in SUBSET Obj
      BY <1>1
    <2>2. QED BY <2>1, Kinds, FS_Subset
  <1>11. Burning(u, m) # {} => on \cap Lamp # {}
    BY <1>1, <1>2, <1>3, <1>7
  <1>12. Cardinality(on \cap Lamp) \in Nat /\ (on \cap Lamp # {} => Cardinality(on \cap Lamp) >= 1)
    BY <1>10, FS_CardinalityType, FS_EmptySet
  <1>13. QED BY <1>3, <1>4, <1>5, <1>6, <1>9, <1>11, <1>12 DEF Fine

LEMMA ResetMobFine ==
    ASSUME IInv, NEW m, NEW r \in Room, NEW K, NEW on, ResetMob(m, r, K, on)
    PROVE  IInv'
  <1> DEFINE P == InGame \cup {m}
             w == GiveAll(world, m, K)
             s == [o \in Obj |-> IF o \in on THEN SlotOf[o] ELSE w.slot[o]]
             n == Cardinality(on \cap Lamp)
             u == [w EXCEPT !.slot = s]
             l == [u.light EXCEPT ![r] = @ + n]
  <1>1. Fine(world, InGame, {}) /\ Where /\ m \in Person /\ m \in Person \ InGame /\ m \notin InGame /\ r # Nil /\ m \in P /\ InGame \subseteq P
    BY InnerFine, Kinds DEF IInv, ResetMob
  <1>2. K \in SUBSET Thing /\ K \in SUBSET Obj /\ (\A x \in K : world.holder[x] = Nil) /\ on \in SUBSET K /\ OnePerSlot(on) /\ on \in SUBSET Thing
    BY Kinds DEF ResetMob, Fresh, Exists
  <1>3. \A x \in Obj : world.holder[x] # m
    BY <1>1 DEF Fine, Owned
  <1> HIDE DEF P
  <1>4. Fine(world, P, {})
    BY <1>1, More
  <1>5. /\ Fine(w, P, {}) /\ w.slot = world.slot
        /\ \A x \in Obj : w.holder[x] = IF x \in K THEN m ELSE world.holder[x]
    BY <1>1, <1>2, <1>4, GiveAllFine
  <1>6. world' = [w EXCEPT !.slot = [o \in Obj |-> IF o \in on THEN SlotOf[o] ELSE @[o]], !.light[r] = @ + n]
    BY DEF ResetMob, GiveAll
  <1>7. at' = [at EXCEPT ![m] = r] /\ gold' = gold
    BY DEF ResetMob
  <1> HIDE DEF w
  <1>8. (\A x \in on : w.holder[x] = m) /\ \A x \in Obj : w.holder[x] = m => w.slot[x] = Nil
    <2>1. \A x \in on : x \in K /\ x \in Obj
      BY <1>2
    <2>2. ASSUME NEW x \in Obj, w.holder[x] = m PROVE w.slot[x] = Nil
      <3>1. x \in K
        BY <1>3, <1>5, <2>2
      <3>2. world.holder[x] \notin Person
        BY <1>2, <3>1, Kinds
      <3>3. world.slot[x] = Nil
        BY <1>1, <3>2 DEF Fine, Dressed
      <3>4. QED BY <1>5, <3>3
    <2>3. QED BY <1>5, <2>1, <2>2
  <1>9. w \in World
    BY <1>5 DEF Fine
  <1>10. world' = [w EXCEPT !.slot = s, !.light = [w.light EXCEPT ![r] = @ + n]]
    BY <1>6, <1>9 DEF World
  <1> HIDE DEF s
  <1>11. /\ Fine(u, P, {}) /\ u.light = w.light /\ u.holder = w.holder
         /\ Cardinality(on \cap Lamp) \in Nat /\ (Burning(u, m) # {} => Cardinality(on \cap Lamp) >= 1)
    <2>1. s = [o \in Obj |-> IF o \in on THEN SlotOf[o] ELSE w.slot[o]]
      BY DEF s
    <2> HIDE DEF u
    <2>2. u = [w EXCEPT !.slot = s]
      BY DEF u
    <2>3. QED BY <1>1, <1>2, <1>5, <1>8, <2>1, <2>2, DressedUp
  <1>12. world' = [u EXCEPT !.light = l]
    BY <1>9, <1>10, <1>11 DEF World
  <1> HIDE DEF u, n
  <1>13. u \in World /\ n \in Nat /\ (Burning(u, m) # {} => n >= 1)
    BY <1>11 DEF Fine, n
  <1>14. l \in [Room -> Nat] /\ \A q \in Room : l[q] = u.light[q] + IF q = r THEN n ELSE 0
    BY <1>13 DEF World
  <1> HIDE DEF l
  <1>15. Relit(u, world') /\ world'.light = l
    BY <1>12, <1>13, <1>14 DEF World, Relit
  <1>16. ASSUME NEW q \in Room PROVE Cardinality(Bright(u, q) \ {m}) + (IF q = r /\ Burning(u, m) # {} THEN 1 ELSE 0) <= world'.light[q]
    <2>1. Bright(u, q) \ {m} = Bright(u, q)
      BY <1>1, Kinds DEF Bright, People, InGame
    <2>2. Cardinality(Bright(u, q)) \in Nat /\ u.light[q] \in Nat /\ Cardinality(Bright(u, q)) <= u.light[q]
      BY <1>11, <1>13, BrightFinite DEF World, Fine, Shining
    <2>3. QED BY <1>13, <1>14, <1>15, <2>1, <2>2
  <1>17. Sound(world', P, {}) /\ Shines(world', [at EXCEPT ![m] = r])
    BY <1>1, <1>11, <1>15, <1>16, SettledFine
  <1>18. Inner'
    BY <1>1, <1>7, <1>17, Settles DEF P
  <1>19. QED BY <1>7, <1>18 DEF IInv

LEMMA ResetObjFine ==
    ASSUME IInv, NEW o, NEW x, ResetObj(o, x)
    PROVE  IInv'
  <1>1. Fine(world, InGame, {}) /\ Where /\ o \in Obj /\ world.holder[o] = Nil /\ {} \ {o} = {} /\ at' = at /\ gold' = gold
    BY InnerFine, Kinds DEF IInv, ResetObj, Fresh, Exists
  <1>2. CASE x \in Room /\ world' = ToRoom(world, o, x)
    <2>1. Fine(world', InGame, {} \ {o})
      BY <1>1, <1>2, ToRoomFine
    <2>2. QED BY <1>1, <2>1, Stays DEF IInv
  <1>3. CASE x \in Bag \ {o} /\ Exists(world, x) /\ world' = ToObj(world, o, x)
    <2>1. x \in Obj /\ x # o /\ x \in Bag \cup Corpse /\ world.holder \in Holders /\ world.holder[x] # Nil
      BY <1>1, <1>3, Kinds DEF Fine, World, Exists
    <2>2. x \notin Mass(world, o)
      <3>1. \A y \in Obj : world.holder[y] # o
        BY <1>1, Kinds DEF Fine, Loose, Exists
      <3>2. ASSUME x \in Mass(world, o) PROVE FALSE
        <4>1. \A y \in Mass(world, o) : y # o => world.holder[y] \in Mass(world, o)
          BY <1>1, <2>1, MassIs
        <4>2. o \in Above(world, x) /\ Tree(world)
          BY <1>1, <2>1, <3>2, MassIs DEF Fine
        <4> DEFINE X == Above(world, x) \ {o}
        <4>3. world.holder[x] \in X /\ \A y \in X \cap Obj : world.holder[y] # Nil => world.holder[y] \in X
          BY <2>1, <3>1, Aboves
        <4> HIDE DEF X
        <4>4. Above(world, x) \subseteq X
          BY <2>1, <4>3, AboveLeast
        <4>5. QED BY <4>2, <4>4 DEF X
      <3>3. QED BY <3>2
    <2>3. Fine(world', InGame, {} \ {o})
      BY <1>1, <1>3, <2>1, <2>2, ToObjFine
    <2>4. QED BY <1>1, <2>3, Stays DEF IInv
  <1>4. QED BY <1>2, <1>3 DEF ResetObj

\* m is in k, if there is anything in it.
Filled(w, m, g, k, v) == v.slot = w.slot /\ \A x \in Obj : v.holder[x] = IF g > 0 /\ x = m THEN k ELSE w.holder[x]

LEMMA Gaining ==
    ASSUME NEW w, NEW P, NEW k \in Corpse, w.holder[k] = Nil, Fine(w, P, {}), Where, NEW m \in Purse, NEW g \in Nat, g > 0 => w.holder[m] = Nil
    PROVE  LET v == IF g > 0 THEN ToObj(Coins(w, m, g), m, k) ELSE w
           IN  Fine(v, P, {} \cup {k}) /\ Filled(w, m, g, k, v)
  <1> DEFINE K == {} \cup {k}
             u == Coins(w, m, g)
             v == IF g > 0 THEN ToObj(u, m, k) ELSE w
  <1>1. k \in Obj /\ m \in Obj /\ k # m /\ k \in K /\ m \notin K
    BY Kinds
  <1>2. Fine(w, P, K)
    BY <1>1, More
  <1> HIDE DEF K
  <1>3. CASE ~(g > 0)
    <2>1. v = w
      BY <1>3
    <2> HIDE DEF v
    <2>2. QED BY <1>2, <1>3, <2>1 DEF v, K, Filled
  <1>4. CASE g > 0
    <2>1. Fine(u, P, K \cup {m}) /\ u.holder = w.holder /\ u.slot = w.slot
      <3>1. Fine(w, P, K) /\ w.holder[m] = Nil
        BY <1>2, <1>4
      <3>2. Fine(u, P, K \cup {m}) /\ Minted(w, m, g, u)
        BY <3>1, CoinsFine
      <3>3. QED BY <3>2 DEF Minted
    <2> HIDE DEF u
    <2>2. u.holder \in Holders /\ u.holder[m] = Nil /\ u.holder[k] = Nil /\ k \in K \cup {m} /\ k \in Bag \cup Corpse
      BY <1>1, <1>4, <2>1 DEF Fine, World
    <2>3. k \notin Mass(u, m)
      BY <1>1, <2>2, MassIs, AboveStep
    <2>4. Fine(ToObj(u, m, k), P, (K \cup {m}) \ {m}) /\ Moved(u, ToObj(u, m, k), [u.holder EXCEPT ![m] = k]) /\ ToObj(u, m, k).slot = u.slot
      BY <1>1, <2>1, <2>2, <2>3, ToObjFine
    <2>5. (K \cup {m}) \ {m} = K
      BY <1>1
    <2>6. v = ToObj(u, m, k)
      BY <1>4
    <2> HIDE DEF v
    <2>7. \A x \in Obj : v.holder[x] = IF x = m THEN k ELSE w.holder[x]
      BY <2>1, <2>2, <2>4, <2>6 DEF Moved, Holders
    <2>8. Fine(v, P, K) /\ v.slot = w.slot
      BY <2>1, <2>4, <2>5, <2>6
    <2>9. QED BY <1>4, <2>7, <2>8 DEF v, u, K, Filled
  <1>5. QED BY <1>3, <1>4

\* T has gone from those who had it, and the corpse is in r.
Grave(w, T, k, r, v) ==
    /\ v.holder[k] = r /\ \A x \in T : v.holder[x] \notin Person
    /\ \A x \in Obj : v.holder[x] \in Person => v.holder[x] = w.holder[x]

\* make_corpse: T goes into the corpse, but what a shop never runs out of.
LEMMA Buried ==
    ASSUME NEW w, NEW P, NEW k \in Corpse, Fine(w, P, {} \cup {k}), Where, NEW T \in SUBSET Obj, \A x \in T : w.holder[x] \in Person, NEW r \in Room
    PROVE  LET u == ExtractAll(ToCorpse(w, T \ Stock, k), T \cap Stock)
               v == ToRoom(u, k, r)
           IN  Fine(v, P, {}) /\ Grave(w, T, k, r, v)
  <1> DEFINE K == {} \cup {k}
             A == T \ Stock
             B == T \cap Stock
             t == ToCorpse(w, A, k)
             u == ExtractAll(t, B)
             v == ToRoom(u, k, r)
  <1>1. /\ k \in K /\ k \notin B /\ k \in Obj /\ k \notin Person /\ r \notin Person /\ Nil \notin Person
        /\ A \in SUBSET Obj /\ B \in SUBSET Obj /\ (\A x \in A : w.holder[x] \in Person) /\ T = A \cup B
    BY Kinds
  <1>2. K \ B = K /\ K \ {k} = {}
    BY <1>1
  <1>3. Fine(w, P, K)
    OBVIOUS
  <1> HIDE DEF K, A, B
  <1>4. Fine(t, P, K) /\ \A x \in Obj : t.holder[x] = IF x \in A THEN k ELSE w.holder[x]
    BY <1>1, <1>3, ToCorpseFine
  <1> HIDE DEF t
  <1>5. Fine(u, P, K \ B) /\ AllGone(t, B, u)
    BY <1>1, <1>4, ExtractAllFine
  <1>6. \A x \in Obj : u.holder[x] = Nil \/ u.holder[x] = t.holder[x]
    BY <1>5 DEF AllGone
  <1>7. \A x \in B : u.holder[x] = Nil
    BY <1>5 DEF AllGone
  <1> HIDE DEF u
  <1>8. Fine(u, P, K) /\ u.holder[k] = Nil
    BY <1>1, <1>2, <1>5 DEF Fine, Loose
  <1>9. Fine(v, P, K \ {k}) /\ Moved(u, v, [u.holder EXCEPT ![k] = r])
    BY <1>1, <1>8, ToRoomFine
  <1> HIDE DEF v
  <1>10. \A x \in Obj : v.holder[x] = IF x = k THEN r ELSE u.holder[x]
    BY <1>8, <1>9 DEF Moved, Fine, World, Holders
  <1>11. \A x \in T : v.holder[x] \notin Person
    BY <1>1, <1>4, <1>6, <1>7, <1>10
  <1>12. \A x \in Obj : v.holder[x] \in Person => v.holder[x] = w.holder[x]
    BY <1>1, <1>4, <1>6, <1>10
  <1>13. Fine(v, P, {}) /\ v.holder[k] = r
    BY <1>1, <1>2, <1>9, <1>10
  <1>14. QED BY <1>11, <1>12, <1>13 DEF Grave, v, u, t, A, B

LEMMA MobDiesFine ==
    ASSUME IInv, NEW m, NEW k, NEW coins \in Purse, NEW n \in Nat, MobDies(m, k, coins, n)
    PROVE  IInv'
  <1> DEFINE g == IF m \in keeper THEN 0 ELSE gold[m] + n
             w == IF g > 0 THEN ToObj(Coins(world, coins, g), coins, k) ELSE world
             I == Held(world, m)
             u == ExtractAll(ToCorpse(w, I \ Stock, k), I \cap Stock)
             v == ToRoom(u, k, at[m])
             P == InGame \ {m}
  <1>1. Fine(world, InGame, {}) /\ Where /\ m \in InGame /\ m \in Person /\ m # Nil /\ at[m] \in Room /\ k \in Corpse /\ world.holder[k] = Nil
    BY InnerFine, Someone, Kinds DEF IInv, MobDies, Fresh, Exists
  <1>2. g \in Nat /\ (g > 0 => world.holder[coins] = Nil)
    BY <1>1 DEF IInv, MobDies, Fresh, Exists
  <1>3. world' = Left(v, m) /\ at' = [at EXCEPT ![m] = Nil] /\ gold' = [gold EXCEPT ![m] = 0]
    BY DEF MobDies
  <1>4. I \in SUBSET Obj /\ \A x \in I : world.holder[x] = m
    BY DEF Held
  <1>5. \A x \in Obj : world.holder[x] = m => x \in I
    BY DEF Held
  <1> HIDE DEF g, I
  <1>6. /\ Fine(w, InGame, {} \cup {k})
        /\ \A x \in Obj : w.holder[x] = IF g > 0 /\ x = coins THEN k ELSE world.holder[x]
    <2>1. Fine(w, InGame, {} \cup {k}) /\ Filled(world, coins, g, k, w)
      BY <1>1, <1>2, Gaining
    <2>2. QED BY <2>1 DEF Filled
  <1> HIDE DEF w
  <1>7. k \notin Person /\ Nil \notin Person
    BY <1>1, Kinds
  <1>8. \A x \in I : w.holder[x] \in Person
    <2>1. g > 0 => coins \notin I
      BY <1>1, <1>2, <1>4
    <2>2. QED BY <1>1, <1>4, <1>6, <2>1
  <1>9. /\ Fine(v, InGame, {})
        /\ \A x \in I : v.holder[x] \notin Person
        /\ \A x \in Obj : v.holder[x] \in Person => v.holder[x] = w.holder[x]
    <2>1. Fine(v, InGame, {}) /\ Grave(w, I, k, at[m], v)
      BY <1>1, <1>4, <1>6, <1>8, Buried
    <2>2. QED BY <2>1 DEF Grave
  <1> HIDE DEF v
  <1>10. \A x \in Obj : v.holder[x] # m
    BY <1>1, <1>5, <1>6, <1>7, <1>9
  <1>11. Owned(v, P)
    BY <1>9, <1>10 DEF Fine, Owned
  <1> HIDE DEF P
  <1>12. Fine(v, P, {})
    BY <1>9, <1>11, More
  <1>13. Sound(world', P, {}) /\ Shines(world', [at EXCEPT ![m] = Nil])
    BY <1>1, <1>3, <1>12, GoneOffFine
  <1>14. Inner'
    BY <1>1, <1>3, <1>13, Settles DEF P
  <1>15. gold' \in [Person -> Nat]
    BY <1>3 DEF IInv
  <1>16. QED BY <1>14, <1>15 DEF IInv

LEMMA PlayerDiesFine ==
    ASSUME IInv, NEW p, NEW k, NEW pk, PlayerDies(p, k, pk)
    PROVE  IInv'
  <1> DEFINE I == Held(world, p)
             T == IF pk THEN I ELSE I \ Unique
             u == ExtractAll(ToCorpse(world, T \ Stock, k), T \cap Stock)
             r == IF pk THEN at[p] ELSE Morgue
             v == ToRoom(u, k, r)
             e == Entered(Left(v, p), p, Moribund)
             d == e.tombs \cup {k}
  <1>1. Fine(world, InGame, {}) /\ Where /\ p \in InGame /\ p \in Person /\ r \in Room /\ k \in Corpse /\ k \in Obj /\ world.holder[k] = Nil
    BY InnerFine, Someone, Kinds DEF IInv, PlayerDies, Fresh, Exists
  <1>2. Moribund \in Room /\ Moribund # Nil /\ InGame \cup {p} = InGame /\ r # Nil
    BY <1>1, Kinds
  <1>3. world' = [e EXCEPT !.tombs = d] /\ at' = [at EXCEPT ![p] = Moribund] /\ gold' = gold
    BY DEF PlayerDies
  <1>4. T \in SUBSET Obj /\ \A x \in T : world.holder[x] \in Person
    BY <1>1 DEF Held
  <1> HIDE DEF T, r
  <1>5. Fine(world, InGame, {} \cup {k})
    BY <1>1, More
  <1>6. Fine(v, InGame, {}) /\ v.holder[k] = r
    <2>1. Fine(v, InGame, {}) /\ Grave(world, T, k, r, v)
      BY <1>1, <1>4, <1>5, Buried
    <2>2. QED BY <2>1 DEF Grave
  <1> HIDE DEF v
  <1>7. Sound(e, InGame, {}) /\ Shines(e, [at EXCEPT ![p] = Moribund]) /\ e.holder = v.holder
    BY <1>1, <1>2, <1>6, WentFine
  <1> HIDE DEF e
  <1>8. d \in SUBSET Corpse /\ e \in World
    BY <1>1, <1>7 DEF Sound, World
  <1> HIDE DEF d
  <1>9. /\ world' \in World /\ world'.holder = e.holder /\ world'.slot = e.slot /\ world'.coins = e.coins /\ world'.tombs = d
        /\ world'.number = e.number /\ world'.load = e.load /\ world'.light = e.light
    BY <1>3, <1>8 DEF World
  <1>10. Tree(world') /\ Counted(world')
    BY <1>7, <1>8, <1>9, SameHolders DEF Sound
  <1>11. Owned(world', InGame) /\ Dressed(world')
    BY <1>7, <1>9 DEF Sound, Owned, Dressed
  <1>12. Loose(world', {})
    <2>1. e.holder[k] # Nil /\ Loose(e, {})
      BY <1>2, <1>6, <1>7 DEF Sound
    <2>2. QED BY <1>9, <2>1 DEF Loose, Exists, d
  <1>13. Sound(world', InGame, {})
    BY <1>9, <1>10, <1>11, <1>12 DEF Sound
  <1>14. Shines(world', [at EXCEPT ![p] = Moribund])
    <2>1. \A c : Burning(world', c) = Burning(e, c)
      BY <1>8, <1>9, <1>11, <1>7, BurningIs, SMTT(40) DEF Sound
    <2>2. QED BY <1>7, <1>9, <2>1 DEF Shines
  <1>15. Inner'
    BY <1>1, <1>2, <1>3, <1>13, <1>14, Settles
  <1>16. QED BY <1>3, <1>15 DEF IInv

LEMMA BurnsFine ==
    ASSUME IInv, NEW c, NEW o, Burns(c, o)
    PROVE  IInv'
  <1> DEFINE u == [world EXCEPT !.slot[o] = Nil, !.light[at[c]] = @ - 1]
             r == at[c]
             l == world.light[r] - 1
  <1>1. Fine(world, InGame, {}) /\ Where /\ c \in InGame /\ c \in Person /\ r \in Room /\ world \in World
    BY InnerFine, Someone DEF IInv, Burns, Fine
  <1>2. o \in Lamp /\ world.holder[o] = c /\ world.slot[o] # Nil /\ o \in Obj
    BY <1>1, BurningIs, Kinds DEF Burns, Fine
  <1>3. world.light[r] \in Nat /\ world.light[r] >= 1
    <2>1. c \in Bright(world, r)
      BY <1>1 DEF Bright, People, Burns
    <2>2. IsFiniteSet(Bright(world, r)) /\ Cardinality(Bright(world, r)) \in Nat
      BY BrightFinite
    <2>3. Cardinality(Bright(world, r)) # 0
      BY <2>1, <2>2, FS_EmptySet
    <2>4. world.light[r] \in Nat /\ Cardinality(Bright(world, r)) <= world.light[r]
      BY <1>1 DEF World, Fine, Shining
    <2>5. QED BY <2>2, <2>3, <2>4
  <1>4. l \in Int /\ l \in Nat /\ Max({0, l}) = l
    <2>1. l \in Int /\ l >= 0 /\ l \in Nat
      BY <1>3
    <2> HIDE DEF l
    <2>2. QED BY <2>1, MaxIs
  <1>5. u = Unequip(world, o)
    <2>1. Unequip(world, o) = [world EXCEPT !.slot[o] = Nil, !.light[r] = Max({0, @ - 1})]
      BY <1>1, <1>2, Kinds DEF Unequip
    <2> DEFINE s == [world.slot EXCEPT ![o] = Nil]
    <2>2. Unequip(world, o) = [world EXCEPT !.slot = s, !.light = [world.light EXCEPT ![r] = Max({0, l})]]
      BY <1>1, <2>1 DEF World
    <2>3. u = [world EXCEPT !.slot = s, !.light = [world.light EXCEPT ![r] = l]]
      BY <1>1 DEF World
    <2> HIDE DEF u, s, l, r
    <2>4. QED BY <1>4, <2>2, <2>3
  <1>6. world' = Extract(u, o) /\ at' = at /\ gold' = gold
    BY DEF Burns
  <1> HIDE DEF u
  <1>7. Fine(u, InGame, {})
    BY <1>1, <1>2, <1>5, UnequipFine
  <1>8. Fine(world', InGame, {})
    BY <1>1, <1>2, <1>6, <1>7, Extracted
  <1>9. QED BY <1>1, <1>6, <1>8, Stays DEF IInv

LEMMA DecayFine ==
    ASSUME IInv, NEW o \in Obj, Decay(o)
    PROVE  IInv'
  <1>1. Fine(world, InGame, {}) /\ Where
    BY InnerFine DEF IInv
  <1>2. Fine(world', InGame, {}) /\ at' = at /\ gold' = gold
    BY <1>1, Extracted DEF Decay
  <1>3. QED BY <1>1, <1>2, Stays DEF IInv

-----------------------------------------------------------------------------
(* The invariant holds. *)

LEMMA InitIInv == Init => IInv
  <1>1. SUFFICES ASSUME Init PROVE IInv
    OBVIOUS
  <1> DEFINE h == [o \in Obj |-> Nil]
             n == [c \in Person |-> 0]
             k == [o \in Purse |-> 0]
             l == [r \in Room |-> 0]
  <1>2. world = [holder |-> h, slot |-> h, coins |-> k, tombs |-> {}, number |-> n, load |-> n, light |-> l]
    BY <1>1 DEF Init
  <1>3. /\ h \in Holders /\ h \in [Obj -> Slot \cup {Nil}] /\ k \in [Purse -> Nat] /\ n \in [Person -> Int] /\ l \in [Room -> Nat]
        /\ (\A o \in Obj : h[o] = Nil) /\ (\A c \in Person : n[c] = 0) /\ (\A m \in Purse : k[m] = 0) /\ \A r \in Room : l[r] = 0
    BY DEF Holders
  <1> HIDE DEF h, n, k, l
  <1>4. /\ world \in World /\ world.holder = h /\ world.slot = h /\ world.coins = k /\ world.tombs = {}
        /\ world.number = n /\ world.load = n /\ world.light = l
    BY <1>2, <1>3 DEF World
  <1>5. \A o \in Obj : Above(world, o) = {}
    BY <1>3, <1>4, AboveStep
  <1>6. Where /\ \A c \in Person : at[c] = Nil
    BY <1>1 DEF Init, Where
  <1>7. Tree(world)
    BY <1>3, <1>4, <1>5 DEF Tree
  <1>8. Owned(world, InGame) /\ Dressed(world) /\ Loose(world, {})
    BY <1>3, <1>4, Kinds DEF Owned, Dressed, Loose, Exists
  <1>9. Counted(world)
    <2>1. ASSUME NEW c \in Person PROVE world.number[c] = Cardinality(Held(world, c)) /\ world.load[c] = Total(Carry(world, c), Burden(world))
      <3>1. Held(world, c) = {} /\ Carry(world, c) = {}
        BY <1>3, <1>4, <1>5, Kinds DEF Held, Carry
      <3>2. Cardinality({}) = 0 /\ IsFiniteSet({})
        BY FS_EmptySet
      <3>3. Total({}, Burden(world)) = 0
        BY <3>2, TotalStep
      <3>4. QED BY <1>3, <1>4, <3>1, <3>2, <3>3
    <2>2. QED BY <2>1 DEF Counted
  <1>10. Shines(world, at)
    <2>1. ASSUME NEW r \in Room PROVE Cardinality({c \in Person : at[c] = r /\ Burning(world, c) # {}}) <= world.light[r]
      <3>1. {c \in Person : at[c] = r /\ Burning(world, c) # {}} = {}
        BY <1>6, Kinds
      <3>2. Cardinality({}) = 0
        BY FS_EmptySet
      <3>3. QED BY <1>3, <1>4, <3>1, <3>2
    <2>2. QED BY <2>1 DEF Shines
  <1>11. gold \in [Person -> Nat]
    BY <1>1, ObjectsAssumption DEF Init
  <1>12. QED BY <1>4, <1>6, <1>7, <1>8, <1>9, <1>10, <1>11 DEF IInv, Inner, Sound

LEMMA NextIInv == IInv /\ [Next]_vars => IInv'
  <1>1. SUFFICES ASSUME IInv, [Next]_vars PROVE IInv'
    OBVIOUS
  <1>2. ASSUME UNCHANGED vars PROVE IInv'
    <2>1. world' = world /\ at' = at /\ gold' = gold
      BY <1>2 DEF vars
    <2>2. Inner'
      BY <1>1, <2>1, InnerFine, Stays DEF IInv
    <2>3. QED BY <1>1, <2>1, <2>2 DEF IInv
  <1>3. ASSUME MoveCoins PROVE IInv'
    <2>1. PICK c \in InGame \ keeper : \/ \E o \in Held(world, at[c]) : Get(c, o)
                                       \/ \E k \in Near(c) : \E o \in Held(world, k) : GetFrom(c, o, k)
                                       \/ \E n \in 1 .. gold[c], m \in Purse : DropCoins(c, n, m)
                                       \/ \E v \in People(at[c]) : \/ \E n \in 1 .. gold[c] : GiveCoins(c, v, n)
                                                                   \/ \E n \in 1 .. gold[v] : StealCoins(c, v, n)
      BY <1>3 DEF MoveCoins
    <2>2. CASE \E o \in Held(world, at[c]) : Get(c, o)
      BY <1>1, <2>2, GetFine
    <2>3. CASE \E k \in Near(c) : \E o \in Held(world, k) : GetFrom(c, o, k)
      BY <1>1, <2>3, GetFromFine
    <2>4. CASE \E n \in 1 .. gold[c], m \in Purse : DropCoins(c, n, m)
      BY <1>1, <2>4, DropCoinsFine
    <2>5. CASE \E v \in People(at[c]) : \E n \in 1 .. gold[c] : GiveCoins(c, v, n)
      BY <1>1, <2>5, GiveCoinsFine
    <2>6. CASE \E v \in People(at[c]) : \E n \in 1 .. gold[v] : StealCoins(c, v, n)
      <3>1. PICK v \in People(at[c]) : \E n \in 1 .. gold[v] : StealCoins(c, v, n)
        BY <2>6
      <3>2. gold[v] \in Nat
        BY <1>1, <3>1 DEF IInv, People
      <3>3. PICK n \in 1 .. gold[v] : StealCoins(c, v, n)
        BY <3>1
      <3>4. QED BY <1>1, <3>2, <3>3, StealCoinsFine
    <2>7. QED BY <2>1, <2>2, <2>3, <2>4, <2>5, <2>6
  <1>4. ASSUME MoveThings PROVE IInv'
    <2>1. PICK c \in InGame \ keeper :
            \/ \E o \in Held(world, c) :
                \/ \E k \in Near(c) : Put(c, o, k)
                \/ \E v \in People(at[c]) : Give(c, v, o) \/ Sell(c, v, o)
                \/ \E b \in BOOLEAN : Wear(c, o, b) \/ Donate(c, o, b)
                \/ Drop(c, o) \/ Remove(c, o) \/ Consume(c, o)
            \/ \E v \in People(at[c]) : \E o \in Held(world, v) :
                Steal(c, v, o) \/ \E n \in Thing : Buy(c, v, o, n)
            \/ \E o \in Held(world, at[c]), n \in 0 .. Fee : Sacrifice(c, o, n)
      BY <1>4 DEF MoveThings
    <2>2. CASE \E o \in Held(world, c) :
                \/ \E k \in Near(c) : Put(c, o, k)
                \/ \E v \in People(at[c]) : Give(c, v, o) \/ Sell(c, v, o)
                \/ \E b \in BOOLEAN : Wear(c, o, b) \/ Donate(c, o, b)
                \/ Drop(c, o) \/ Remove(c, o) \/ Consume(c, o)
      <3>1. PICK o : \/ \E k \in Near(c) : Put(c, o, k)
                     \/ \E v \in People(at[c]) : Give(c, v, o)
                     \/ \E v \in People(at[c]) : Sell(c, v, o)
                     \/ \E b \in BOOLEAN : Wear(c, o, b)
                     \/ \E b \in BOOLEAN : Donate(c, o, b)
                     \/ Drop(c, o) \/ Remove(c, o) \/ Consume(c, o)
        BY <2>2
      <3>2. CASE \E k \in Near(c) : Put(c, o, k)
        BY <1>1, <3>2, PutFine
      <3>3. CASE \E v \in People(at[c]) : Give(c, v, o)
        BY <1>1, <3>3, GiveFine
      <3>4. CASE \E v \in People(at[c]) : Sell(c, v, o)
        BY <1>1, <3>4, SellFine
      <3>5. CASE \E b \in BOOLEAN : Wear(c, o, b)
        BY <1>1, <3>5, WearFine
      <3>6. CASE \E b \in BOOLEAN : Donate(c, o, b)
        BY <1>1, <3>6, DonateFine
      <3>7. CASE Drop(c, o)
        BY <1>1, <3>7, DropFine
      <3>8. CASE Remove(c, o)
        BY <1>1, <3>8, RemoveFine
      <3>9. CASE Consume(c, o)
        BY <1>1, <3>9, ConsumeFine
      <3>10. QED BY <3>1, <3>2, <3>3, <3>4, <3>5, <3>6, <3>7, <3>8, <3>9
    <2>3. CASE \E v \in People(at[c]) : \E o \in Held(world, v) : Steal(c, v, o) \/ \E n \in Thing : Buy(c, v, o, n)
      <3>1. PICK v, o : Steal(c, v, o) \/ \E n \in Thing : Buy(c, v, o, n)
        BY <2>3
      <3>2. CASE Steal(c, v, o)
        BY <1>1, <3>2, StealFine
      <3>3. CASE \E n \in Thing : Buy(c, v, o, n)
        BY <1>1, <3>3, BuyFine
      <3>4. QED BY <3>1, <3>2, <3>3
    <2>4. CASE \E o \in Held(world, at[c]), n \in 0 .. Fee : Sacrifice(c, o, n)
      <3>1. PICK o \in Held(world, at[c]), n \in 0 .. Fee : Sacrifice(c, o, n)
        BY <2>4
      <3>2. n \in Nat
        BY <3>1, ObjectsAssumption
      <3>3. QED BY <1>1, <3>1, <3>2, SacrificeFine
    <2>5. QED BY <2>1, <2>2, <2>3, <2>4
  <1>5. ASSUME Lives PROVE IInv'
    <2>1. CASE \E c \in InGame :
                \/ \E r \in Room : Move(c, r)
                \/ \E k \in Fresh(world, Corpse) :
                    \/ \E m \in Purse, n \in 0 .. Fee : MobDies(c, k, m, n)
                    \/ \E pk \in BOOLEAN : PlayerDies(c, k, pk)
                \/ \E o \in Held(world, c) : Burns(c, o)
                \/ Reconnect(c) \/ Quit(c)
      <3>1. PICK c : \/ \E r \in Room : Move(c, r)
                     \/ \E k : \E m \in Purse, n \in 0 .. Fee : MobDies(c, k, m, n)
                     \/ \E k : \E pk \in BOOLEAN : PlayerDies(c, k, pk)
                     \/ \E o \in Held(world, c) : Burns(c, o)
                     \/ Reconnect(c) \/ Quit(c)
        BY <2>1
      <3>2. CASE \E r \in Room : Move(c, r)
        BY <1>1, <3>2, MoveFine
      <3>3. CASE \E k : \E m \in Purse, n \in 0 .. Fee : MobDies(c, k, m, n)
        <4>1. PICK k : \E m \in Purse, n \in 0 .. Fee : MobDies(c, k, m, n)
          BY <3>3
        <4>2. PICK m \in Purse, n \in 0 .. Fee : MobDies(c, k, m, n)
          BY <4>1
        <4>3. n \in Nat
          BY <4>2, ObjectsAssumption
        <4>4. QED BY <1>1, <4>2, <4>3, MobDiesFine
      <3>4. CASE \E k : \E pk \in BOOLEAN : PlayerDies(c, k, pk)
        BY <1>1, <3>4, PlayerDiesFine
      <3>5. CASE \E o \in Held(world, c) : Burns(c, o)
        BY <1>1, <3>5, BurnsFine
      <3>6. CASE Reconnect(c)
        BY <1>1, <3>6, ReconnectFine
      <3>7. CASE Quit(c)
        BY <1>1, <3>7, QuitFine
      <3>8. QED BY <3>1, <3>2, <3>3, <3>4, <3>5, <3>6, <3>7
    <2>2. CASE \E c \in Person \ InGame, r \in Room :
                \E K \in SUBSET Fresh(world, Thing) : \E on \in SUBSET K : Enter(c, r, K, on) \/ ResetMob(c, r, K, on)
      <3>1. PICK c \in Person \ InGame, r \in Room : \E K, on : Enter(c, r, K, on) \/ ResetMob(c, r, K, on)
        BY <2>2
      <3>2. PICK K, on : Enter(c, r, K, on) \/ ResetMob(c, r, K, on)
        BY <3>1
      <3>3. CASE Enter(c, r, K, on)
        BY <1>1, <3>3, EnterFine
      <3>4. CASE ResetMob(c, r, K, on)
        BY <1>1, <3>4, ResetMobFine
      <3>5. QED BY <3>2, <3>3, <3>4
    <2>3. QED BY <1>5, <2>1, <2>2 DEF Lives
  <1>6. ASSUME Times PROVE IInv'
    <2>1. PICK o \in Obj : Decay(o) \/ \E x \in Room \cup Bag : ResetObj(o, x)
      BY <1>6 DEF Times
    <2>2. CASE Decay(o)
      BY <1>1, <2>2, DecayFine
    <2>3. CASE \E x \in Room \cup Bag : ResetObj(o, x)
      BY <1>1, <2>3, ResetObjFine
    <2>4. QED BY <2>1, <2>2, <2>3
  <1>7. QED BY <1>1, <1>2, <1>3, <1>4, <1>5, <1>6 DEF Next

\* The invariant of the proof holds: what is known of the world between two calls of
\* the operations of handler.c is known between two commands, with nothing in hand.
THEOREM InvariantHolds == Spec => []IInv
  <1>1. IInv /\ [Next]_vars => IInv'
    BY NextIInv
  <1>2. QED BY InitIInv, <1>1, PTL DEF Spec

-----------------------------------------------------------------------------
(* What the invariant says of an object and of the sums. *)

\* All that exists is, at the end of its chain, in one place.
Topmost(w, P, x) == \E t \in Room \cup (Person \cap P) : Above(w, x) \ Obj = {t}

\* Of what has x, x included, one is with a person at most.
OneOwned(w, x) ==
    \A d, e \in {x} \cup Above(w, x) :
        d \in Obj /\ e \in Obj /\ w.holder[d] \in Person /\ w.holder[e] \in Person => d = e

LEMMA Chains ==
    ASSUME NEW w, NEW P, Fine(w, P, {}), NEW x \in Obj, w.holder[x] # Nil
    PROVE  Topmost(w, P, x) /\ OneOwned(w, x)
  <1>1. w.holder \in Holders /\ Tree(w)
    BY DEF Fine, World
  <1>2. \A y \in Obj : w.holder[y] \in Obj => w.holder[w.holder[y]] # Nil
    BY DEF Fine, Loose, Exists
  <1> DEFINE Ok(y) == Topmost(w, P, y) /\ OneOwned(w, y)
             K == {T \in SUBSET Obj : \A y \in Obj : w.holder[y] # Nil /\ Above(w, y) \cap Obj = T => Ok(y)}
  <1>3. ASSUME NEW y \in Obj, w.holder[y] # Nil, w.holder[y] \notin Obj PROVE Ok(y)
    <2>1. w.holder[y] \in Room \cup Person
      BY <1>1, <1>3, Kinds DEF Holders
    <2>2. Above(w, y) = {w.holder[y]} /\ Above(w, y) \ Obj = {w.holder[y]}
      BY <1>1, <1>3, <2>1, AboveStep, Kinds
    <2>3. w.holder[y] \in Person => w.holder[y] \in P
      BY DEF Fine, Owned
    <2>4. Topmost(w, P, y)
      BY <2>1, <2>2, <2>3 DEF Topmost
    <2>5. OneOwned(w, y)
      BY <1>3, <2>2 DEF OneOwned
    <2>6. QED BY <2>4, <2>5
  <1>4. ASSUME NEW y \in Obj, w.holder[y] \in Obj PROVE Above(w, y) = {w.holder[y]} \cup Above(w, w.holder[y]) /\ w.holder[y] \notin Above(w, w.holder[y])
    BY <1>1, <1>4, AboveStep DEF Tree
  <1>5. {} \in K
    <2>1. ASSUME NEW y \in Obj, w.holder[y] # Nil, Above(w, y) \cap Obj = {} PROVE Ok(y)
      BY <1>3, <1>4, <2>1
    <2>2. QED BY <2>1
  <1>6. ASSUME NEW T \in SUBSET Obj, T # {}, \A z \in T : T \ {z} \in K PROVE T \in K
    <2>1. ASSUME NEW y \in Obj, w.holder[y] # Nil, Above(w, y) \cap Obj = T PROVE Ok(y)
      <3>1. PICK h : h = w.holder[y]
        OBVIOUS
      <3>2. CASE h \notin Obj
        BY <1>3, <2>1, <3>1, <3>2
      <3>3. CASE h \in Obj
        <4>1. Above(w, y) = {h} \cup Above(w, h) /\ h \notin Above(w, h) /\ h \in T /\ w.holder[h] # Nil
          BY <1>2, <1>4, <2>1, <3>1, <3>3
        <4>2. Above(w, h) \cap Obj = T \ {h}
          BY <2>1, <3>3, <4>1
        <4>3. Ok(h)
          BY <1>6, <3>3, <4>1, <4>2
        <4>4. Topmost(w, P, y)
          <5>1. Above(w, y) \ Obj = Above(w, h) \ Obj
            BY <3>3, <4>1
          <5>2. QED BY <4>3, <5>1 DEF Topmost
        <4>5. OneOwned(w, y)
          <5>1. w.holder[y] \notin Person
            BY <3>1, <3>3, Kinds
          <5>2. QED BY <4>1, <4>3, <5>1 DEF OneOwned
        <4>6. QED BY <4>4, <4>5
      <3>4. QED BY <3>2, <3>3
    <2>2. QED BY <2>1
  <1> HIDE DEF K
  <1>7. \A T \in SUBSET Obj : T \in K
    BY <1>5, <1>6, Kinds, ByParts
  <1>8. Above(w, x) \cap Obj \in K
    BY <1>7
  <1>9. QED BY <1>8 DEF K

\* A person has what is in what he holds, and nothing of it twice.
LEMMA CarryIs ==
    ASSUME NEW w, NEW P, Fine(w, P, {}), NEW c \in Person
    PROVE  /\ Carry(w, c) = UNION {Mass(w, d) : d \in Held(w, c)}
           /\ \A d, e \in Held(w, c) : d # e => Mass(w, d) \cap Mass(w, e) = {}
  <1>1. w.holder \in Holders /\ c \notin Obj /\ c # Nil /\ c \in Place \ Obj
    BY Kinds DEF Fine, World
  <1>2. \A d \in Held(w, c) : d \in Obj /\ w.holder[d] = c /\ Above(w, d) = {c}
    BY <1>1, AboveStep DEF Held
  <1>3. ASSUME NEW d \in Held(w, c), NEW x \in Mass(w, d) PROVE x \in Carry(w, c) /\ w.holder[x] # Nil /\ d \in {x} \cup Above(w, x)
    <2>1. d \in Obj /\ Above(w, d) = {c}
      BY <1>2
    <2>2. x \in Obj /\ (x = d \/ d \in Above(w, x))
      BY <1>1, <2>1, MassIs
    <2>3. Above(w, x) \ Obj = Above(w, d) \ Obj
      BY <1>1, <2>1, Through
    <2>4. c \in Above(w, x)
      BY <1>1, <2>1, <2>3
    <2>5. w.holder[x] # Nil
      BY <1>1, <2>2, <2>4, AboveStep
    <2>6. QED BY <2>2, <2>4, <2>5 DEF Carry
  <1>4. ASSUME NEW x \in Carry(w, c) PROVE \E d \in Held(w, c) : x \in Mass(w, d)
    <2>1. x \in Obj /\ c \in Above(w, x)
      BY DEF Carry
    <2>2. ASSUME \A d \in Held(w, c) : x \notin Mass(w, d) PROVE FALSE
      <3>1. \A d \in Held(w, c) : d # x /\ d \notin Above(w, x)
        BY <1>1, <1>2, <2>1, <2>2, MassIs
      <3> DEFINE X == Above(w, x) \ {c}
      <3>2. w.holder[x] # Nil => w.holder[x] \in X
        BY <1>1, <2>1, <3>1, Aboves DEF Held
      <3>3. \A y \in X \cap Obj : w.holder[y] # Nil => w.holder[y] \in X
        BY <1>1, <2>1, <3>1, Aboves DEF Held
      <3> HIDE DEF X
      <3>4. Above(w, x) \subseteq X
        BY <1>1, <2>1, <3>2, <3>3, AboveLeast
      <3>5. QED BY <2>1, <3>4 DEF X
    <2>3. QED BY <2>2
  <1>5. ASSUME NEW d \in Held(w, c), NEW e \in Held(w, c), NEW x, x \in Mass(w, d), x \in Mass(w, e) PROVE d = e
    <2>1. x \in Obj /\ w.holder[x] # Nil /\ d \in {x} \cup Above(w, x) /\ e \in {x} \cup Above(w, x)
      BY <1>3, <1>5 DEF Carry
    <2>2. OneOwned(w, x)
      BY <2>1, Chains
    <2>3. QED BY <1>2, <2>1, <2>2 DEF OneOwned
  <1>6. \A x : x \in Carry(w, c) <=> \E d \in Held(w, c) : x \in Mass(w, d)
    BY <1>3, <1>4
  <1>7. QED BY <1>5, <1>6

LEMMA TypeFollows == IInv => TypeOK /\ WornOnce
  <1>1. SUFFICES ASSUME IInv PROVE TypeOK /\ WornOnce
    OBVIOUS
  <1>2. Fine(world, InGame, {}) /\ world \in World /\ Loose(world, {}) /\ Dressed(world) /\ Owned(world, InGame) /\ Where
    BY <1>1, InnerFine DEF IInv, Fine
  <1>3. TypeOK
    BY <1>1, <1>2 DEF TypeOK, IInv, World, Holders, Loose, Exists, Where
  <1>4. \A o \in Obj : world.slot[o] # Nil => world.holder[o] \in InGame
    BY <1>2 DEF Dressed, Owned
  <1>5. ASSUME NEW c \in Person, NEW s \in Slot PROVE Cardinality(Worn(world, c, s)) <= 1
    <2> DEFINE W == Worn(world, c, s)
    <2>1. s # Nil
      BY DEF Slot
    <2>2. \A x, y \in W : x = y
      BY <1>2, <2>1 DEF Worn, Held, Dressed
    <2> HIDE DEF W
    <2>3. CASE W = {}
      <3>1. Cardinality(W) = 0
        BY <2>3, FS_EmptySet
      <3>2. QED BY <3>1 DEF W
    <2>4. CASE W # {}
      <3>1. PICK x : x \in W
        BY <2>4
      <3>2. W = {x}
        BY <2>2, <3>1
      <3>3. Cardinality(W) = 1
        BY <3>2, FS_Singleton
      <3>4. QED BY <3>3 DEF W
    <2>5. QED BY <2>3, <2>4
  <1>6. QED BY <1>3, <1>4, <1>5 DEF WornOnce

LEMMA PlacedFollows == IInv => Placed
  <1>1. SUFFICES ASSUME IInv PROVE Placed
    OBVIOUS
  <1>2. Fine(world, InGame, {}) /\ world.holder \in Holders /\ Tree(world) /\ Dressed(world)
    BY <1>1, InnerFine DEF IInv, Fine, World
  <1>3. ASSUME NEW o \in Obj, Exists(world, o)
        PROVE  LET A == Above(world, o)
               IN  /\ o \notin A /\ Cardinality(A \cap (Room \cup InGame)) = 1
                   /\ \A x \in A \cap Obj : Exists(world, x)
                   /\ A \cap Person \subseteq InGame
    <2> DEFINE A == Above(world, o)
    <2>1. Topmost(world, InGame, o)
      BY <1>2, <1>3, Chains DEF Exists
    <2>2. PICK t \in Room \cup (Person \cap InGame) : A \ Obj = {t}
      BY <2>1 DEF Topmost
    <2>3. A \subseteq Place /\ o \notin A
      BY <1>2, Aboves DEF Tree
    <2>4. \A x \in A \cap Obj : Exists(world, x)
      <3> DEFINE X == {y \in Place : y \in Obj => world.holder[y] # Nil}
      <3>1. \A y \in Obj : world.holder[y] # Nil => world.holder[y] \in X
        BY <1>2 DEF Fine, Loose, Exists, Holders
      <3>2. \A y \in X \cap Obj : world.holder[y] # Nil => world.holder[y] \in X
        BY <3>1
      <3> HIDE DEF X
      <3>3. A \subseteq X
        BY <1>2, <3>1, <3>2, AboveLeast
      <3>4. QED BY <3>3 DEF X, Exists
    <2> HIDE DEF A
    <2>5. A \cap (Room \cup InGame) = {t}
      BY <2>2, Kinds DEF InGame
    <2>6. Cardinality(A \cap (Room \cup InGame)) = 1
      BY <2>5, FS_Singleton
    <2>7. A \cap Person \subseteq InGame
      BY <2>2, Kinds
    <2>8. QED BY <2>3, <2>4, <2>6, <2>7 DEF A
  <1>4. ASSUME NEW o \in Obj, ~Exists(world, o) PROVE world.slot[o] = Nil
    BY <1>2, <1>4, Kinds DEF Dressed, Exists
  <1>5. QED BY <1>1, <1>3, <1>4, TypeFollows DEF Placed

LEMMA CountersFollow == IInv => CountersExact
  <1>1. SUFFICES ASSUME IInv PROVE CountersExact
    OBVIOUS
  <1>2. Fine(world, InGame, {}) /\ world \in World /\ world.holder \in Holders
    BY <1>1, InnerFine DEF IInv, Fine, World
  <1>3. ASSUME NEW c \in Person PROVE world.load[c] = Total(Held(world, c), [o \in Obj |-> Heft(world, o)])
    <2> DEFINE D == Held(world, c)
               b == Burden(world)
               M == [d \in D |-> Mass(world, d)]
               h == [o \in Obj |-> Heft(world, o)]
    <2>1. world.load[c] = Total(Carry(world, c), b)
      BY <1>2 DEF Fine, Counted
    <2>2. /\ Carry(world, c) = UNION {Mass(world, d) : d \in D}
          /\ \A d, e \in D : d # e => Mass(world, d) \cap Mass(world, e) = {}
      BY <1>2, CarryIs
    <2>3. IsFiniteSet(D) /\ D \in SUBSET Obj /\ IsFiniteSet(Obj)
      BY HeldFinite, Kinds
    <2>4. \A x \in Obj : b[x] \in Int
      BY <1>2, BurdenNat
    <2>5. \A d \in D : Mass(world, d) \in SUBSET Obj /\ Heft(world, d) = Total(Mass(world, d), b)
      BY <1>2, <2>3, HeftIs, MassIs
    <2> HIDE DEF D, b
    <2>6. (\A d \in D : M[d] = Mass(world, d)) /\ \A d \in D : h[d] = Total(M[d], b)
      BY <2>3, <2>5
    <2>7. UNION {M[d] : d \in D} = UNION {Mass(world, d) : d \in D}
      BY <2>6
    <2> HIDE DEF M, h
    <2>8. Total(D, h) = Total(UNION {M[d] : d \in D}, b)
      <3>1. \A d \in D : M[d] \in SUBSET Obj
        BY <2>5, <2>6
      <3>2. \A d, e \in D : d # e => M[d] \cap M[e] = {}
        BY <2>2, <2>6
      <3>3. \A d \in D : h[d] = Total(M[d], b)
        BY <2>6
      <3>4. QED BY <2>3, <2>4, <3>1, <3>2, <3>3, TotalOfTotals
    <2>9. world.load[c] = Total(D, h)
      BY <2>1, <2>2, <2>7, <2>8
    <2>10. QED BY <2>9 DEF D, h
  <1>4. CarriedTrue
    BY <1>2, <1>3 DEF CarriedTrue, Fine, Counted
  <1>5. Lit
    <2>1. \A r \in Room : Bright(world, r) = {c \in People(r) : Burning(world, c) # {}}
      BY DEF Bright
    <2>2. ASSUME NEW r \in Room PROVE world.light[r] >= Cardinality({c \in People(r) : Burning(world, c) # {}})
      <3>1. Cardinality(Bright(world, r)) <= world.light[r] /\ world.light[r] \in Nat /\ Cardinality(Bright(world, r)) \in Nat
        BY <1>2, BrightFinite DEF Fine, Shining, World
      <3>2. QED BY <2>1, <3>1
    <2>3. QED BY <2>2 DEF Lit
  <1>6. QED BY <1>4, <1>5 DEF CountersExact

\* handler.c: wherever a command has moved it, an object that exists is in one place, at
\* the end of a chain of things that exist, however long; it is not inside itself; and it
\* is worn by who carries it, one thing in a place.
THEOREM ObjectsPlaced == Spec => []Placed
  BY InvariantHolds, PlacedFollows, PTL

\* handler.c: carry_number and carry_weight are what a count would find, through the bags
\* a person carries, and a room's light is no less than the lamps that burn in it.
THEOREM ObjectsCounted == Spec => []CountersExact
  BY InvariantHolds, CountersFollow, PTL

-----------------------------------------------------------------------------
(* Gold. *)

\* One of them changes.
LEMMA TotalChange ==
    ASSUME NEW S, IsFiniteSet(S), NEW f, \A x \in S : f[x] \in Int, NEW g, \A x \in S : g[x] \in Int,
           NEW a \in S, \A x \in S \ {a} : g[x] = f[x]
    PROVE  Total(S, g) = Total(S, f) - f[a] + g[a]
  <1> DEFINE R == S \ {a}
  <1>1. S \in SUBSET S /\ R \in SUBSET S /\ IsFiniteSet(R)
    BY FS_Subset
  <1>2. Total(S, f) = f[a] + Total(R, f) /\ Total(S, g) = g[a] + Total(R, g)
    BY <1>1, TotalAdd
  <1>3. Total(R, f) \in Int
    BY <1>1, TotalInt
  <1>4. Total(R, g) = Total(R, f)
    BY <1>1, TotalSame
  <1> HIDE DEF R
  <1>5. QED BY <1>2, <1>3, <1>4

LEMMA TotalZero ==
    ASSUME NEW S, IsFiniteSet(S), NEW f, \A x \in S : f[x] = 0
    PROVE  Total(S, f) = 0
  <1> DEFINE K == {T \in SUBSET S : Total(T, f) = 0}
  <1>1. {} \in K
    <2>1. Total({}, f) = 0
      BY TotalStep
    <2>2. QED BY <2>1
  <1>2. ASSUME NEW T \in SUBSET S, T # {}, \A x \in T : T \ {x} \in K PROVE T \in K
    <2>1. IsFiniteSet(T) /\ One(T) \in T
      BY <1>2, FS_Subset, OneIn
    <2>2. Total(T, f) = f[One(T)] + Total(T \ {One(T)}, f)
      BY <1>2, <2>1, TotalStep
    <2>3. QED BY <1>2, <2>1, <2>2
  <1> HIDE DEF K
  <1>3. \A T \in SUBSET S : T \in K
    BY <1>1, <1>2, ByParts
  <1>4. S \in K
    BY <1>3
  <1>5. QED BY <1>4 DEF K

LEMMA GoldFinite == IsFiniteSet(Person) /\ IsFiniteSet(Purse)
  <1>1. Purse \in SUBSET Obj
    BY Kinds
  <1>2. QED BY <1>1, Kinds, FS_Subset

LEMMA Paid ==
    ASSUME IInv, NEW c \in Person, NEW v \in Person, c # v, NEW n \in Nat, gold' = [gold EXCEPT ![c] = @ - n, ![v] = @ + n], world' = world
    PROVE  Wealth' = Wealth
  <1> DEFINE f == gold
             g == [f EXCEPT ![c] = @ - n]
             h == [g EXCEPT ![v] = @ + n]
  <1>1. /\ \A x \in Person : f[x] \in Int /\ g[x] \in Int /\ h[x] \in Int
        /\ g[c] = f[c] - n /\ h[v] = g[v] + n
        /\ \A x \in Person \ {c} : g[x] = f[x]
        /\ \A x \in Person \ {v} : h[x] = g[x]
    BY DEF IInv
  <1>2. gold' = h
    OBVIOUS
  <1> HIDE DEF f, g, h
  <1>3. Total(Person, g) = Total(Person, f) - f[c] + g[c]
    BY <1>1, GoldFinite, TotalChange
  <1>4. Total(Person, h) = Total(Person, g) - g[v] + h[v]
    BY <1>1, GoldFinite, TotalChange
  <1>5. Total(Person, f) \in Int /\ Total(Person, g) \in Int
    BY <1>1, GoldFinite, TotalInt
  <1>6. Total(Person, h) = Total(Person, f)
    <2>1. f[c] \in Int /\ g[c] \in Int /\ g[v] \in Int /\ h[v] \in Int
      BY <1>1
    <2>2. Total(Person, g) = Total(Person, f) - n
      BY <1>1, <1>3, <1>5, <2>1
    <2>3. QED BY <1>1, <1>4, <1>5, <2>1, <2>2
  <1>7. Total(Person, gold') = Total(Person, gold)
    BY <1>2, <1>6 DEF f
  <1>8. QED BY <1>7 DEF Wealth

LEMMA PickedUp ==
    ASSUME IInv, NEW c \in InGame, NEW o \in Obj, NEW u, Fine(u, InGame, {} \cup {o}), u.coins = world.coins, Gotten(u, c, o)
    PROVE  Wealth' = Wealth
  <1>1. Where /\ u.holder[o] = Nil /\ c \in Person /\ world \in World
    BY Someone DEF IInv, Inner, Fine, Loose, Sound
  <1>2. CASE o \in Purse
    <2> DEFINE v == Extract(u, o)
               k == world.coins
               g == [gold EXCEPT ![c] = @ + k[o]]
    <2>1. GoneIs(u, o, v)
      BY <1>1, ExtractFine
    <2>2. Mass(u, o) = {o}
      BY <1>2, PurseHasNothing
    <2>3. world' = v /\ gold' = g
      BY <1>2 DEF Gotten
    <2> HIDE DEF v
    <2>4. \A m \in Purse : k[m] \in Int /\ v.coins[m] = IF m = o THEN 0 ELSE k[m]
      BY <1>1, <2>1, <2>2 DEF GoneIs, World
    <2>5. Total(Purse, v.coins) = Total(Purse, k) - k[o] + v.coins[o]
      <3> DEFINE z == v.coins
      <3>1. \A m \in Purse : k[m] \in Int /\ z[m] \in Int /\ (m # o => z[m] = k[m])
        BY <2>4
      <3> HIDE DEF z, k
      <3>2. Total(Purse, z) = Total(Purse, k) - k[o] + z[o]
        BY <1>2, <3>1, GoldFinite, TotalChange
      <3>3. QED BY <3>2 DEF z
    <2>6. Total(Person, g) = Total(Person, gold) - gold[c] + g[c] /\ g[c] = gold[c] + k[o] /\ gold[c] \in Int
      <3> DEFINE f == gold
      <3>1. \A x \in Person : f[x] \in Int /\ g[x] \in Int /\ (x # c => g[x] = f[x])
        BY <1>2, <2>4 DEF IInv
      <3>2. g[c] = f[c] + k[o]
        BY <1>1 DEF IInv
      <3> HIDE DEF f, g, k
      <3>3. Total(Person, g) = Total(Person, f) - f[c] + g[c]
        BY <1>1, <3>1, GoldFinite, TotalChange
      <3>4. f[c] \in Int
        BY <1>1, <3>1
      <3>5. QED BY <3>2, <3>3, <3>4 DEF f
    <2>7. Total(Purse, k) \in Int /\ Total(Person, gold) \in Int
      <3>1. \A x \in Person : gold[x] \in Int
        BY DEF IInv
      <3>2. Total(Person, gold) \in Int
        BY <3>1, GoldFinite, TotalInt
      <3> HIDE DEF k
      <3>3. Total(Purse, k) \in Int
        BY <2>4, GoldFinite, TotalInt
      <3>4. QED BY <3>2, <3>3
    <2>8. v.coins[o] = 0 /\ k[o] \in Int
      BY <1>2, <2>4
    <2> HIDE DEF g
    <2>9. Total(Person, g) + Total(Purse, v.coins) = Total(Person, gold) + Total(Purse, k)
      <3> HIDE DEF k
      <3>1. QED BY <2>5, <2>6, <2>7, <2>8
    <2>10. QED BY <2>3, <2>9 DEF Wealth
  <1>3. CASE o \notin Purse
    <2>1. world' = ToChar(u, o, c) /\ gold' = gold
      BY <1>3 DEF Gotten
    <2>2. Moved(u, ToChar(u, o, c), [u.holder EXCEPT ![o] = c])
      BY <1>1, ToCharFine
    <2>3. world'.coins = world.coins
      BY <2>1, <2>2 DEF Moved
    <2>4. QED BY <2>1, <2>3 DEF Wealth
  <1>4. QED BY <1>2, <1>3

LEMMA PutDown ==
    ASSUME IInv, NEW c, NEW n, NEW m, DropCoins(c, n, m)
    PROVE  Wealth' = Wealth
  <1> DEFINE S == Held(world, at[c]) \cap Purse
             u == ExtractAll(world, S)
             t == Total(S, world.coins)
             v == Coins(u, m, Heap(world, S, n))
             f == gold
             g == [f EXCEPT ![c] = @ - n]
             k == world.coins
             x == ToRoom(v, m, at[c])
  <1>1. /\ Fine(world, InGame, {}) /\ Where /\ c \in Person /\ at[c] \in Room /\ n \in Nat /\ world \in World
        /\ k \in [Purse -> Nat] /\ f \in [Person -> Nat]
    BY InnerFine, Someone DEF IInv, DropCoins, Fine, World
  <1>2. m \in Fresh(u, Purse) /\ world' = x /\ gold' = g
    BY DEF DropCoins
  <1>3. S \in SUBSET Obj /\ S \subseteq Purse /\ S \in SUBSET Purse
    BY DEF Held
  <1>4. Heap(world, S, n) = n + t
    BY DEF Heap
  <1> HIDE DEF S, f
  <1>5. t \in Nat
    <2>1. IsFiniteSet(S) /\ \A y \in S : world.coins[y] \in Nat
      BY <1>1, <1>3, GoldFinite, FS_Subset
    <2>2. QED BY <2>1, TotalNat
  <1>6. /\ Fine(u, InGame, {} \ S) /\ {} \ S = {}
        /\ \A y \in Purse : u.coins[y] = IF y \in S THEN 0 ELSE k[y]
    <2>1. Fine(u, InGame, {} \ S) /\ AllGone(world, S, u)
      BY <1>1, <1>3, ExtractAllFine
    <2>2. QED BY <1>3, <2>1 DEF AllGone
  <1> HIDE DEF t, k, u
  <1>7. Fine(u, InGame, {}) /\ m \in Purse /\ u.holder[m] = Nil /\ u.coins[m] = 0 /\ u.coins \in [Purse -> Nat] /\ m \in Obj
    BY <1>2, <1>6, Kinds DEF Fresh, Exists, Fine, Loose, World
  <1>8. /\ Fine(v, InGame, {} \cup {m}) /\ v.holder = u.holder /\ v.coins = [u.coins EXCEPT ![m] = n + t]
    <2>1. n + t \in Nat
      BY <1>1, <1>5
    <2>2. Fine(v, InGame, {} \cup {m}) /\ Minted(u, m, n + t, v)
      BY <1>4, <1>7, <2>1, CoinsFine
    <2>3. QED BY <2>2 DEF Minted
  <1> HIDE DEF v
  <1>9. x.coins = v.coins
    <2>1. Moved(v, x, [v.holder EXCEPT ![m] = at[c]])
      BY <1>1, <1>7, <1>8, ToRoomFine
    <2>2. QED BY <2>1 DEF Moved
  <1> HIDE DEF x
  <1> DEFINE a == u.coins
             b == v.coins
  <1>10. /\ \A y \in Purse : k[y] \in Int /\ a[y] \in Int /\ b[y] \in Int
         /\ \A y \in S : a[y] = 0
         /\ \A y \in Purse \ S : a[y] = k[y]
         /\ \A y \in Purse \ {m} : b[y] = a[y]
         /\ a[m] = 0 /\ b[m] = n + t
    BY <1>1, <1>3, <1>5, <1>6, <1>7, <1>8
  <1> HIDE DEF a, b
  <1>11. Total(Purse, b) = Total(Purse, a) - a[m] + b[m]
    BY <1>7, <1>10, GoldFinite, TotalChange
  <1>12. Total(Purse, a) = Total(S, a) + Total(Purse \ S, a) /\ Total(Purse, k) = Total(S, k) + Total(Purse \ S, k)
    BY <1>3, <1>10, GoldFinite, TotalPart
  <1>13. Total(S, a) = 0 /\ Total(Purse \ S, a) = Total(Purse \ S, k) /\ Total(Purse \ S, k) \in Int
    <2>1. Purse \ S \in SUBSET Purse /\ IsFiniteSet(S) /\ IsFiniteSet(Purse \ S)
      BY <1>3, GoldFinite, FS_Subset
    <2>2. Total(S, a) = 0
      BY <1>10, <2>1, TotalZero
    <2>3. Total(Purse \ S, a) = Total(Purse \ S, k)
      BY <1>10, <2>1, TotalSame
    <2>4. Total(Purse \ S, k) \in Int
      BY <1>10, <2>1, GoldFinite, TotalInt
    <2>5. QED BY <2>2, <2>3, <2>4
  <1>14. Total(S, k) = t
    BY DEF t, k
  <1>15. Total(Person, g) = Total(Person, f) - n /\ Total(Person, f) \in Int
    <2>1. \A y \in Person : f[y] \in Int /\ g[y] \in Int /\ (y # c => g[y] = f[y])
      BY <1>1
    <2>2. g[c] = f[c] - n
      BY <1>1
    <2> HIDE DEF g
    <2>3. Total(Person, g) = Total(Person, f) - f[c] + g[c]
      BY <1>1, <2>1, GoldFinite, TotalChange
    <2>4. Total(Person, f) \in Int
      BY <2>1, GoldFinite, TotalInt
    <2>5. QED BY <1>1, <2>1, <2>2, <2>3, <2>4
  <1> HIDE DEF g
  <1>16. Total(Person, g) + Total(Purse, b) = Total(Person, f) + Total(Purse, k)
    BY <1>1, <1>5, <1>10, <1>11, <1>12, <1>13, <1>14, <1>15
  <1>17. QED BY <1>2, <1>9, <1>16 DEF Wealth, b, f, k

LEMMA MoveCoinsKeeps == IInv /\ MoveCoins => Wealth' = Wealth
  <1>1. SUFFICES ASSUME IInv, MoveCoins PROVE Wealth' = Wealth
    OBVIOUS
  <1>2. PICK c \in InGame \ keeper : \/ \E o \in Held(world, at[c]) : Get(c, o)
                                     \/ \E k \in Near(c) : \E o \in Held(world, k) : GetFrom(c, o, k)
                                     \/ \E n \in 1 .. gold[c], m \in Purse : DropCoins(c, n, m)
                                     \/ \E v \in People(at[c]) : \/ \E n \in 1 .. gold[c] : GiveCoins(c, v, n)
                                                                 \/ \E n \in 1 .. gold[v] : StealCoins(c, v, n)
    BY <1>1 DEF MoveCoins
  <1>3. CASE \E o \in Held(world, at[c]) : Get(c, o)
    <2>1. PICK o : Get(c, o)
      BY <1>3
    <2>2. Fine(world, InGame, {}) /\ o \in Obj /\ world.holder[o] \in Room
      BY <1>1, <2>1, InnerFine, Someone DEF IInv, Get, Held
    <2>3. Fine(FromRoom(world, o), InGame, {} \cup {o}) /\ Moved(world, FromRoom(world, o), [world.holder EXCEPT ![o] = Nil])
      BY <2>2, FromRoomFine
    <2>4. QED BY <1>1, <2>1, <2>2, <2>3, PickedUp DEF Get, Moved
  <1>4. CASE \E k \in Near(c) : \E o \in Held(world, k) : GetFrom(c, o, k)
    <2>1. PICK k, o : GetFrom(c, o, k)
      BY <1>4
    <2>2. Fine(world, InGame, {}) /\ o \in Obj /\ world.holder[o] \in Obj
      BY <1>1, <2>1, InnerFine, Kinds DEF IInv, GetFrom, Held
    <2>3. Fine(FromObj(world, o), InGame, {} \cup {o}) /\ Moved(world, FromObj(world, o), [world.holder EXCEPT ![o] = Nil])
      BY <2>2, FromObjFine
    <2>4. QED BY <1>1, <2>1, <2>2, <2>3, PickedUp DEF GetFrom, Moved
  <1>5. CASE \E n \in 1 .. gold[c], m \in Purse : DropCoins(c, n, m)
    BY <1>1, <1>5, PutDown
  <1>6. CASE \E v \in People(at[c]) : \E n \in 1 .. gold[c] : GiveCoins(c, v, n)
    <2>1. PICK v \in People(at[c]) : \E n \in 1 .. gold[c] : GiveCoins(c, v, n)
      BY <1>6
    <2>2. PICK n \in 1 .. gold[c] : GiveCoins(c, v, n)
      BY <2>1
    <2>3. c \in Person /\ v \in Person /\ c # v /\ n \in Nat
      BY <1>1, <2>1, <2>2, Someone DEF IInv, GiveCoins, Meet, People
    <2>4. QED BY <1>1, <2>2, <2>3, Paid DEF GiveCoins
  <1>7. CASE \E v \in People(at[c]) : \E n \in 1 .. gold[v] : StealCoins(c, v, n)
    <2>1. PICK v \in People(at[c]) : \E n \in 1 .. gold[v] : StealCoins(c, v, n)
      BY <1>7
    <2>2. PICK n \in 1 .. gold[v] : StealCoins(c, v, n)
      BY <2>1
    <2>3. c \in Person /\ v \in Person /\ c # v /\ n \in Nat
      BY <1>1, <2>1, <2>2, Someone DEF IInv, StealCoins, Meet, People
    <2>4. gold' = [gold EXCEPT ![v] = @ - n, ![c] = @ + n] /\ world' = world
      BY <1>1, <2>2, <2>3 DEF StealCoins, IInv
    <2>5. QED BY <1>1, <2>3, <2>4, Paid
  <1>8. QED BY <1>2, <1>3, <1>4, <1>5, <1>6, <1>7

\* do_get, do_drop, do_give, do_steal: coins that are picked up, put down on others, given
\* or stolen are neither made nor lost, whatever heaps there are.
THEOREM CoinsAreKept == Spec => CoinsKept
  <1>1. IInv /\ [Next]_vars => [Wealth' # Wealth => ~MoveCoins]_<<gold, world.coins>>
    BY MoveCoinsKeeps
  <1>2. QED BY InvariantHolds, <1>1, PTL DEF Spec, CoinsKept

=============================================================================
