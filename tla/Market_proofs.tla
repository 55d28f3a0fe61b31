---------------------------- MODULE Market_proofs ----------------------------
(***************************************************************************)
(* Proofs about Market, for any number of players, items and auctions, and *)
(* any amounts.  Where the items are, who trades with whom and what is on  *)
(* disk comes first (BInv, Things1), and does not depend on the sums.      *)
(* What is promised and what everybody owns are sums over finite sets; the *)
(* lemmas about those are proved by induction on the size of the set.      *)
(***************************************************************************)
EXTENDS Market, FiniteSetTheorems, WellFoundedInduction, TLAPS

LEMMA Constants ==
    /\ NoDrop \subseteq Item /\ Token \subseteq Item /\ Clan \subseteq Player /\ Kinds \subseteq {"bank", "qp"}
    /\ Fee \in Nat /\ Cost \in Nat /\ Reserve \in Nat /\ Duration \in Nat /\ Extension \in Nat
    /\ Amounts \subseteq Nat \ {0}
    /\ Player \cap Item = {} /\ Auctions \notin Player \cup Item /\ Treasury \notin Player \cup Item /\ Nil \notin Player \cup Item
    /\ Auctions # Treasury /\ Nil \notin Body /\ Nil \notin Auction /\ IsFiniteSet(Item) /\ IsFiniteSet(Player)
  BY MarketAssumption

-----------------------------------------------------------------------------
(* Sums over finite sets, by induction on their size. *)

Added(f, S) == SumFunctionOnSet(f, S)

LEMMA Counting ==
    ASSUME NEW n \in Nat, NEW K, 0 \in K, \A k \in 1 .. n : k - 1 \in K => k \in K
    PROVE  0 .. n \subseteq K
  <1> DEFINE R == {ss \in Nat \X Nat : ss[1] < ss[2]}
             S == (0 .. n) \ K
  <1>1. IsWellFoundedOn(R, Nat)
    BY NatLessThanWellFounded DEF OpToRel
  <1>2. SUFFICES ASSUME S # {} PROVE FALSE
    OBVIOUS
  <1>3. ASSUME NEW k \in Nat PROVE <<k, k + 1>> \in R
    <2>1. <<k, k + 1>> \in Nat \X Nat /\ <<k, k + 1>>[1] = k /\ <<k, k + 1>>[2] = k + 1
      OBVIOUS
    <2>2. <<k, k + 1>>[1] < <<k, k + 1>>[2]
      BY <2>1
    <2>3. QED BY <2>1, <2>2, Zenon
  <1> HIDE DEF R
  <1>4. S \in SUBSET Nat
    OBVIOUS
  <1> HIDE DEF S
  <1>5. PICK m \in S : \A k \in S : ~(<<k, m>> \in R)
    BY <1>1, <1>2, <1>4, WFMin
  <1>6. m \in 1 .. n /\ m \notin K /\ m - 1 \in Nat /\ m - 1 \in 0 .. n /\ (m - 1) + 1 = m
    BY DEF S
  <1>7. m - 1 \in S
    BY <1>6 DEF S
  <1>8. <<m - 1, m>> \in R
    BY <1>3, <1>6
  <1>9. QED BY <1>5, <1>7, <1>8

One(T) == CHOOSE x \in T : TRUE

\* g is what the definition of the sums of f over the parts of S says.
Adds(f, S, g) == g = [T \in SUBSET S |-> IF T = {} THEN 0 ELSE f[One(T)] + g[T \ {One(T)}]]

LEMMA SumIs == ASSUME NEW f, NEW S PROVE Added(f, S) = (CHOOSE g : Adds(f, S, g))[S]
  BY DEF Added, SumFunctionOnSet, FoldFunctionOnSet, MapThenFoldSet, Adds, One

LEMMA OneIn == ASSUME NEW T, T # {} PROVE One(T) \in T
  BY DEF One

\* Subsets are one smaller.
LEMMA Less ==
    ASSUME NEW S, IsFiniteSet(S), NEW T \in SUBSET S, T # {}
    PROVE  /\ Cardinality(T) \in Nat \ {0} /\ Cardinality(T \ {One(T)}) = Cardinality(T) - 1
  <1>1. IsFiniteSet(T) /\ One(T) \in T
    BY FS_Subset, OneIn
  <1>2. Cardinality(T) \in Nat /\ Cardinality(T) # 0
    BY <1>1, FS_CardinalityType, FS_EmptySet
  <1>3. Cardinality(T \ {One(T)}) = Cardinality(T) - 1
    BY <1>1, FS_RemoveElement
  <1>4. QED BY <1>2, <1>3

\* Functions that satisfy it up to size n.
LEMMA AddsExists ==
    ASSUME NEW f, NEW S, IsFiniteSet(S)
    PROVE  \E g : Adds(f, S, g)
  <1> DEFINE N == Cardinality(S)
             P(n) == {T \in SUBSET S : Cardinality(T) <= n}
             Is(g, n) == g = [T \in P(n) |-> IF T = {} THEN 0 ELSE f[One(T)] + g[T \ {One(T)}]]
             K == {n \in 0 .. N : \E g : Is(g, n)}
  <1>1. N \in Nat
    BY FS_CardinalityType
  <1>2. \A T \in SUBSET S : Cardinality(T) \in Nat /\ Cardinality(T) <= N /\ (Cardinality(T) = 0 <=> T = {})
    BY FS_Subset, FS_CardinalityType, FS_EmptySet
  <1>3. 0 \in K
    <2>1. \A T \in P(0) : T = {}
      BY <1>2
    <2> HIDE DEF P
    <2> DEFINE z == [T \in P(0) |-> 0]
    <2>2. Is(z, 0)
      BY <2>1
    <2>3. \E g : Is(g, 0)
      BY <2>2, Zenon
    <2>4. 0 \in 0 .. N
      BY <1>1
    <2> HIDE DEF Is
    <2>5. QED BY <2>3, <2>4, Zenon
  <1>4. ASSUME NEW n \in 1 .. N, n - 1 \in K PROVE n \in K
    <2>1. PICK g : Is(g, n - 1)
      BY <1>4
    <2> DEFINE h == [T \in P(n) |-> IF T = {} THEN 0 ELSE f[One(T)] + g[T \ {One(T)}]]
    <2>2. ASSUME NEW T \in P(n), T # {} PROVE T \ {One(T)} \in P(n - 1)
      <3>1. Cardinality(T) \in Nat \ {0} /\ Cardinality(T \ {One(T)}) = Cardinality(T) - 1
        BY <2>2, Less
      <3>2. QED BY <1>1, <3>1
    <2>3. \A T \in P(n - 1) : T \in P(n)
      BY <1>1, <1>2
    <2>4. \A T \in P(n - 1) : h[T] = g[T]
      BY <2>1, <2>3
    <2>5. Is(h, n)
      BY <2>2, <2>4
    <2> HIDE DEF h
    <2>6. \E x : Is(x, n)
      BY <2>5, Zenon
    <2>7. n \in 0 .. N
      BY <1>1
    <2>8. QED BY <2>6, <2>7
  <1> HIDE DEF K
  <1>5. 0 .. N \subseteq K
    BY <1>1, <1>3, <1>4, Counting
  <1>6. N \in K
    BY <1>1, <1>5
  <1>7. P(N) = SUBSET S
    BY <1>2
  <1>8. PICK g : Is(g, N)
    BY <1>6 DEF K
  <1>9. Adds(f, S, g)
    BY <1>7, <1>8 DEF Adds
  <1>10. QED BY <1>9

\* What the sums of the parts of S are.
LEMMA AddsAre ==
    ASSUME NEW f, NEW S, NEW g, Adds(f, S, g)
    PROVE  g[{}] = 0 /\ \A T \in SUBSET S : T # {} => g[T] = f[One(T)] + g[T \ {One(T)}]
  <1>1. {} \in SUBSET S
    OBVIOUS
  <1>2. QED BY <1>1 DEF Adds

\* A part has one sum, whatever it is a part of.
LEMMA PartSum ==
    ASSUME NEW f, NEW S, IsFiniteSet(S), NEW g, Adds(f, S, g), NEW T \in SUBSET S
    PROVE  Added(f, T) = g[T]
  <1> DEFINE h == CHOOSE x : Adds(f, T, x)
             N == Cardinality(T)
             K == {n \in 0 .. N : \A U \in SUBSET T : Cardinality(U) = n => h[U] = g[U]}
  <1>1. IsFiniteSet(T) /\ N \in Nat
    BY FS_Subset, FS_CardinalityType
  <1>2. Adds(f, T, h)
    BY <1>1, AddsExists
  <1>3. Added(f, T) = h[T]
    BY SumIs
  <1> HIDE DEF h
  <1>4. \A U \in SUBSET T : Cardinality(U) \in 0 .. N /\ (Cardinality(U) = 0 => U = {})
    BY <1>1, FS_Subset, FS_CardinalityType, FS_EmptySet
  <1>5. 0 \in K
    <2>1. h[{}] = 0 /\ g[{}] = 0
      BY <1>2, AddsAre
    <2>2. QED BY <1>1, <1>4, <2>1
  <1>6. ASSUME NEW n \in 1 .. N, n - 1 \in K PROVE n \in K
    <2>1. SUFFICES ASSUME NEW U \in SUBSET T, Cardinality(U) = n PROVE h[U] = g[U]
      BY <1>1
    <2>2. U # {}
      BY <2>1, FS_EmptySet
    <2>3. Cardinality(U \ {One(U)}) = n - 1
      BY <1>1, <2>1, <2>2, Less
    <2>4. h[U \ {One(U)}] = g[U \ {One(U)}]
      BY <1>6, <2>3
    <2>5. h[U] = f[One(U)] + h[U \ {One(U)}]
      BY <1>2, <2>2, AddsAre
    <2>6. g[U] = f[One(U)] + g[U \ {One(U)}]
      <3>1. \A V \in SUBSET S : V # {} => g[V] = f[One(V)] + g[V \ {One(V)}]
        BY AddsAre
      <3>2. QED BY <2>2, <3>1
    <2>7. QED BY <2>4, <2>5, <2>6
  <1> HIDE DEF K
  <1>7. 0 .. N \subseteq K
    BY <1>1, <1>5, <1>6, Counting
  <1>8. N \in K
    BY <1>1, <1>7
  <1>9. h[T] = g[T]
    BY <1>8 DEF K
  <1>10. QED BY <1>3, <1>9

LEMMA SumStep ==
    ASSUME NEW f, NEW S, IsFiniteSet(S)
    PROVE  Added(f, {}) = 0 /\ (S # {} => Added(f, S) = f[One(S)] + Added(f, S \ {One(S)}))
  <1>1. PICK g : Adds(f, S, g)
    BY AddsExists
  <1>2. Added(f, {}) = g[{}] /\ Added(f, S) = g[S] /\ Added(f, S \ {One(S)}) = g[S \ {One(S)}]
    <2>1. {} \in SUBSET S /\ S \in SUBSET S /\ S \ {One(S)} \in SUBSET S
      OBVIOUS
    <2>2. ASSUME NEW T \in SUBSET S PROVE Added(f, T) = g[T]
      BY <1>1, PartSum
    <2>3. QED BY <2>1, <2>2, Zenon
  <1>3. g[{}] = 0 /\ \A T \in SUBSET S : T # {} => g[T] = f[One(T)] + g[T \ {One(T)}]
    <2>1. {} \in SUBSET S
      OBVIOUS
    <2>2. QED BY <1>1, <2>1 DEF Adds
  <1>4. QED BY <1>2, <1>3

\* Sums of integers are integers.
LEMMA SumInt ==
    ASSUME NEW S, IsFiniteSet(S), NEW f, \A x \in S : f[x] \in Int
    PROVE  Added(f, S) \in Int
  <1> DEFINE N == Cardinality(S)
             K == {n \in 0 .. N : \A T \in SUBSET S : Cardinality(T) = n => Added(f, T) \in Int}
  <1>1. N \in Nat /\ \A T \in SUBSET S : IsFiniteSet(T) /\ (Cardinality(T) = 0 => T = {})
    BY FS_Subset, FS_CardinalityType, FS_EmptySet
  <1>2. 0 \in K
    <2>1. Added(f, {}) = 0
      BY SumStep
    <2>2. QED BY <1>1, <2>1
  <1>3. ASSUME NEW n \in 1 .. N, n - 1 \in K PROVE n \in K
    <2>1. SUFFICES ASSUME NEW T \in SUBSET S, Cardinality(T) = n PROVE Added(f, T) \in Int
      BY <1>1
    <2>2. T # {}
      BY <2>1, FS_EmptySet
    <2>3. Cardinality(T \ {One(T)}) = n - 1 /\ One(T) \in T
      BY <1>1, <2>1, <2>2, Less, OneIn
    <2>4. Added(f, T \ {One(T)}) \in Int
      BY <1>3, <2>3
    <2>5. Added(f, T) = f[One(T)] + Added(f, T \ {One(T)})
      BY <1>1, <2>2, SumStep
    <2>6. QED BY <2>3, <2>4, <2>5
  <1> HIDE DEF K
  <1>4. 0 .. N \subseteq K
    BY <1>1, <1>2, <1>3, Counting
  <1>5. N \in K
    BY <1>1, <1>4
  <1>6. QED BY <1>5 DEF K

\* It does not matter who is added last.
LEMMA SumAdd ==
    ASSUME NEW S, IsFiniteSet(S), NEW f, \A x \in S : f[x] \in Int, NEW a \in S
    PROVE  Added(f, S) = f[a] + Added(f, S \ {a})
  <1> DEFINE N == Cardinality(S)
             K == {n \in 0 .. N : \A T \in SUBSET S : Cardinality(T) = n =>
                                      \A b \in T : Added(f, T) = f[b] + Added(f, T \ {b})}
  <1>1. N \in Nat /\ \A T \in SUBSET S : IsFiniteSet(T) /\ (Cardinality(T) = 0 => T = {})
    BY FS_Subset, FS_CardinalityType, FS_EmptySet
  <1>2. 0 \in K
    BY <1>1
  <1>3. ASSUME NEW n \in 1 .. N, n - 1 \in K PROVE n \in K
    <2>1. SUFFICES ASSUME NEW T \in SUBSET S, Cardinality(T) = n, NEW b \in T
                   PROVE  Added(f, T) = f[b] + Added(f, T \ {b})
      BY <1>1
    <2> DEFINE c == One(T)
    <2>2. c \in T /\ Added(f, T) = f[c] + Added(f, T \ {c})
      BY <1>1, OneIn, SumStep
    <2>3. CASE b = c
      BY <2>2, <2>3
    <2>4. CASE b # c
      <3>1. /\ Cardinality(T \ {c}) = n - 1 /\ Cardinality(T \ {b}) = n - 1
        BY <1>1, <2>1, <2>2, FS_RemoveElement
      <3>2. T \ {c} \in SUBSET S /\ T \ {b} \in SUBSET S /\ b \in T \ {c} /\ c \in T \ {b}
        BY <2>2, <2>4
      <3>3. Added(f, T \ {c}) = f[b] + Added(f, (T \ {c}) \ {b})
        BY <1>3, <3>1, <3>2
      <3>4. Added(f, T \ {b}) = f[c] + Added(f, (T \ {b}) \ {c})
        BY <1>3, <3>1, <3>2
      <3>5. (T \ {c}) \ {b} = (T \ {b}) \ {c}
        OBVIOUS
      <3>6. Added(f, (T \ {b}) \ {c}) \in Int
        <4>1. (T \ {b}) \ {c} \in SUBSET S
          OBVIOUS
        <4>2. IsFiniteSet((T \ {b}) \ {c}) /\ \A x \in (T \ {b}) \ {c} : f[x] \in Int
          BY <1>1, <4>1
        <4> DEFINE V == (T \ {b}) \ {c}
        <4>3. IsFiniteSet(V) /\ \A x \in V : f[x] \in Int
          BY <4>2
        <4> HIDE DEF V
        <4>4. Added(f, V) \in Int
          BY <4>3, SumInt
        <4>5. QED BY <4>4 DEF V
      <3>7. f[b] \in Int /\ f[c] \in Int
        BY <2>2
      <3> HIDE DEF c
      <3>8. \A x, y, z \in Int : x + (y + z) = y + (x + z)
        OBVIOUS
      <3>9. f[c] + (f[b] + Added(f, (T \ {b}) \ {c})) = f[b] + (f[c] + Added(f, (T \ {b}) \ {c}))
        BY <3>6, <3>7, <3>8, Zenon
      <3>10. QED BY <2>2, <3>3, <3>4, <3>5, <3>9, Zenon
    <2>5. QED BY <2>3, <2>4
  <1> HIDE DEF K
  <1>4. 0 .. N \subseteq K
    BY <1>1, <1>2, <1>3, Counting
  <1>5. N \in K
    BY <1>1, <1>4
  <1>6. S \in SUBSET S
    OBVIOUS
  <1>7. QED BY <1>5, <1>6 DEF K

\* f is at most g, and so is its sum.
LEMMA SumLess ==
    ASSUME NEW S, IsFiniteSet(S), NEW f, NEW g, \A x \in S : f[x] \in Int /\ g[x] \in Int /\ f[x] <= g[x]
    PROVE  Added(f, S) <= Added(g, S)
  <1> DEFINE N == Cardinality(S)
             K == {n \in 0 .. N : \A T \in SUBSET S : Cardinality(T) = n => Added(f, T) <= Added(g, T)}
  <1>1. N \in Nat /\ \A T \in SUBSET S : IsFiniteSet(T) /\ (Cardinality(T) = 0 => T = {})
    BY FS_Subset, FS_CardinalityType, FS_EmptySet
  <1>2. 0 \in K
    <2>1. Added(f, {}) = 0 /\ Added(g, {}) = 0
      BY SumStep
    <2>2. QED BY <1>1, <2>1
  <1>3. ASSUME NEW n \in 1 .. N, n - 1 \in K PROVE n \in K
    <2>1. SUFFICES ASSUME NEW T \in SUBSET S, Cardinality(T) = n PROVE Added(f, T) <= Added(g, T)
      BY <1>1
    <2> DEFINE U == T \ {One(T)}
    <2>2. T # {}
      BY <2>1, FS_EmptySet
    <2>3. Cardinality(U) = n - 1 /\ One(T) \in T
      BY <1>1, <2>1, <2>2, Less, OneIn
    <2>4. U \in SUBSET S
      OBVIOUS
    <2>5. Added(f, T) = f[One(T)] + Added(f, U) /\ Added(g, T) = g[One(T)] + Added(g, U)
      BY <1>1, <2>2, SumStep
    <2>6. Added(f, U) \in Int /\ Added(g, U) \in Int
      BY <1>1, <2>4, SumInt
    <2> HIDE DEF U
    <2>7. Added(f, U) <= Added(g, U)
      BY <1>3, <2>3, <2>4
    <2>8. f[One(T)] \in Int /\ g[One(T)] \in Int /\ f[One(T)] <= g[One(T)]
      BY <2>3
    <2>9. QED BY <2>5, <2>6, <2>7, <2>8
  <1> HIDE DEF K
  <1>4. 0 .. N \subseteq K
    BY <1>1, <1>2, <1>3, Counting
  <1>5. N \in K
    BY <1>1, <1>4
  <1>6. S \in SUBSET S
    OBVIOUS
  <1>7. QED BY <1>5, <1>6 DEF K

\* Where f and g do not differ, their sums do not.
LEMMA SumSame ==
    ASSUME NEW S, IsFiniteSet(S), NEW f, NEW g, \A x \in S : f[x] \in Int /\ g[x] = f[x]
    PROVE  Added(f, S) = Added(g, S)
  <1>1. \A x \in S : f[x] \in Int /\ g[x] \in Int /\ f[x] <= g[x] /\ g[x] <= f[x]
    OBVIOUS
  <1>2. Added(f, S) <= Added(g, S) /\ Added(g, S) <= Added(f, S)
    BY <1>1, SumLess
  <1>3. Added(f, S) \in Int /\ Added(g, S) \in Int
    BY <1>1, SumInt
  <1>4. QED BY <1>2, <1>3

\* The sums of f and g that only differ at a.
LEMMA SumOne ==
    ASSUME NEW S, IsFiniteSet(S), NEW f, NEW g, NEW a \in S,
           \A x \in S : f[x] \in Int /\ g[x] \in Int /\ (x # a => g[x] = f[x])
    PROVE  Added(g, S) = Added(f, S) - f[a] + g[a]
  <1> DEFINE U == S \ {a}
  <1>1. IsFiniteSet(U)
    BY FS_Subset
  <1>2. \A x \in U : f[x] \in Int /\ g[x] \in Int /\ g[x] = f[x]
    OBVIOUS
  <1>3. Added(f, S) = f[a] + Added(f, U)
    BY SumAdd
  <1>4. Added(g, S) = g[a] + Added(g, U)
    BY SumAdd
  <1> HIDE DEF U
  <1>5. Added(f, U) = Added(g, U) /\ Added(f, U) \in Int
    BY <1>1, <1>2, SumSame, SumInt
  <1>6. f[a] \in Int /\ g[a] \in Int
    OBVIOUS
  <1>7. QED BY <1>3, <1>4, <1>5, <1>6

\* A sum of what is not negative is at least each part of it.
LEMMA SumPart ==
    ASSUME NEW S, IsFiniteSet(S), NEW f, \A x \in S : f[x] \in Nat
    PROVE  Added(f, S) \in Nat /\ \A a \in S : f[a] <= Added(f, S)
  <1>1. ASSUME NEW U \in SUBSET S PROVE Added(f, U) \in Int /\ 0 <= Added(f, U)
    <2> DEFINE N == Cardinality(U)
               K == {n \in 0 .. N : \A T \in SUBSET U : Cardinality(T) = n =>
                                        Added(f, T) \in Int /\ 0 <= Added(f, T)}
    <2>1. IsFiniteSet(U) /\ N \in Nat /\ \A T \in SUBSET U : IsFiniteSet(T) /\ (Cardinality(T) = 0 => T = {})
      BY FS_Subset, FS_CardinalityType, FS_EmptySet
    <2>2. 0 \in K
      <3>1. Added(f, {}) = 0
        BY SumStep
      <3>2. QED BY <2>1, <3>1
    <2>3. ASSUME NEW n \in 1 .. N, n - 1 \in K PROVE n \in K
      <3>1. SUFFICES ASSUME NEW T \in SUBSET U, Cardinality(T) = n PROVE Added(f, T) \in Int /\ 0 <= Added(f, T)
        BY <2>1
      <3>2. T # {}
        BY <3>1, FS_EmptySet
      <3>3. Cardinality(T \ {One(T)}) = n - 1 /\ One(T) \in T
        BY <2>1, <3>1, <3>2, Less, OneIn
      <3>4. Added(f, T \ {One(T)}) \in Int /\ 0 <= Added(f, T \ {One(T)})
        BY <2>3, <3>3
      <3>5. Added(f, T) = f[One(T)] + Added(f, T \ {One(T)})
        BY <2>1, <3>2, SumStep
      <3>6. f[One(T)] \in Nat
        BY <3>3
      <3>7. QED BY <3>4, <3>5, <3>6
    <2> HIDE DEF K
    <2>4. 0 .. N \subseteq K
      BY <2>1, <2>2, <2>3, Counting
    <2>5. N \in K
      BY <2>1, <2>4
    <2>6. QED BY <2>5 DEF K
  <1>2. ASSUME NEW a \in S PROVE f[a] <= Added(f, S)
    <2>1. \A x \in S : f[x] \in Int
      OBVIOUS
    <2>2. Added(f, S) = f[a] + Added(f, S \ {a})
      BY <2>1, SumAdd
    <2>3. Added(f, S \ {a}) \in Int /\ 0 <= Added(f, S \ {a}) /\ f[a] \in Nat
      BY <1>1
    <2>4. QED BY <2>2, <2>3
  <1>3. Added(f, S) \in Nat
    BY <1>1
  <1>4. QED BY <1>2, <1>3

LEMMA SumZero ==
    ASSUME NEW S, IsFiniteSet(S), NEW f, \A x \in S : f[x] = 0
    PROVE  Added(f, S) = 0
  <1> DEFINE N == Cardinality(S)
             K == {n \in 0 .. N : \A T \in SUBSET S : Cardinality(T) = n => Added(f, T) = 0}
  <1>1. N \in Nat /\ \A T \in SUBSET S : IsFiniteSet(T) /\ (Cardinality(T) = 0 => T = {})
    BY FS_Subset, FS_CardinalityType, FS_EmptySet
  <1>2. 0 \in K
    <2>1. Added(f, {}) = 0
      BY SumStep
    <2>2. QED BY <1>1, <2>1
  <1>3. ASSUME NEW n \in 1 .. N, n - 1 \in K PROVE n \in K
    <2>1. SUFFICES ASSUME NEW T \in SUBSET S, Cardinality(T) = n PROVE Added(f, T) = 0
      BY <1>1
    <2>2. T # {}
      BY <2>1, FS_EmptySet
    <2>3. Cardinality(T \ {One(T)}) = n - 1 /\ One(T) \in T
      BY <1>1, <2>1, <2>2, Less, OneIn
    <2>4. Added(f, T \ {One(T)}) = 0
      BY <1>3, <2>3
    <2>5. Added(f, T) = f[One(T)] + Added(f, T \ {One(T)})
      BY <1>1, <2>2, SumStep
    <2>6. QED BY <2>3, <2>4, <2>5
  <1> HIDE DEF K
  <1>4. 0 .. N \subseteq K
    BY <1>1, <1>2, <1>3, Counting
  <1>5. N \in K
    BY <1>1, <1>4
  <1>6. QED BY <1>5 DEF K

\* The sums of f and g that only differ at a and at b.
LEMMA SumTwo ==
    ASSUME NEW S, IsFiniteSet(S), NEW f, NEW g, NEW a \in S, NEW b \in S, a # b,
           \A x \in S : f[x] \in Int /\ g[x] \in Int /\ (x \notin {a, b} => g[x] = f[x])
    PROVE  Added(g, S) = Added(f, S) - f[a] + g[a] - f[b] + g[b]
  <1> DEFINE h == [x \in S |-> IF x = a THEN g[a] ELSE f[x]]
  <1>1. h[a] = g[a] /\ h[b] = f[b] /\ \A x \in S : h[x] \in Int /\ (x # a => h[x] = f[x]) /\ (x # b => g[x] = h[x])
    OBVIOUS
  <1> HIDE DEF h
  <1>2. Added(h, S) = Added(f, S) - f[a] + h[a]
    <2>1. \A x \in S : f[x] \in Int /\ h[x] \in Int /\ (x # a => h[x] = f[x])
      BY <1>1
    <2>2. QED BY <2>1, SumOne
  <1>3. Added(g, S) = Added(h, S) - h[b] + g[b]
    <2>1. \A x \in S : h[x] \in Int /\ g[x] \in Int /\ (x # b => g[x] = h[x])
      BY <1>1
    <2>2. QED BY <2>1, SumOne
  <1>4. Added(f, S) \in Int /\ f[a] \in Int /\ g[a] \in Int /\ f[b] \in Int /\ g[b] \in Int
    BY SumInt
  <1>5. QED BY <1>1, <1>2, <1>3, <1>4

-----------------------------------------------------------------------------
(* What becomes of somebody's things. *)

LEMMA Things ==
    ASSUME NEW b \in Body
    PROVE  /\ b.items \in SUBSET Item /\ b.gold \in Nat /\ b.bank \in Int /\ b.qp \in Int /\ b # Nil
           /\ \A I \in SUBSET Item : /\ Take(b, I) \in Body /\ Take(b, I).items = b.items \cup I
                                     /\ Lose(b, I) \in Body /\ Lose(b, I).items = b.items \ I
                                     /\ Take(b, I).gold = b.gold /\ Lose(b, I).gold = b.gold
  BY Constants DEF Body, Take, Lose

LEMMA Gains ==
    ASSUME NEW b \in Body, NEW n \in Int
    PROVE  /\ Gain(b, "bank", n) \in Body /\ Gain(b, "bank", n).items = b.items /\ Gain(b, "bank", n).gold = b.gold
           /\ Gain(b, "qp", n) \in Body /\ Gain(b, "qp", n).items = b.items /\ Gain(b, "qp", n).gold = b.gold
           /\ b.gold + n >= 0 => Gain(b, "gold", n) \in Body /\ Gain(b, "gold", n).items = b.items
  <1>1. Gain(b, "bank", n) \in Body /\ Gain(b, "bank", n).items = b.items /\ Gain(b, "bank", n).gold = b.gold
    BY DEF Body, Gain
  <1>2. Gain(b, "qp", n) \in Body /\ Gain(b, "qp", n).items = b.items /\ Gain(b, "qp", n).gold = b.gold
    BY DEF Body, Gain
  <1>3. b.gold + n >= 0 => Gain(b, "gold", n) \in Body /\ Gain(b, "gold", n).items = b.items
    BY DEF Body, Gain
  <1>4. QED BY <1>1, <1>2, <1>3

-----------------------------------------------------------------------------
(* The invariant. *)

Present == \A p \in online : body[p] # Nil

Filed == \A p \in Player : body[p] # Nil => saved[p] # Nil

Alone == \A p \in Player : with[p] # p

\* The owners and the bidders of the auctions f have files among s, and are not the same.
Known(f, s) ==
    \A i \in Item : f[i] # Nil => /\ s[f[i].owner] # Nil /\ f[i].bidder # f[i].owner
                                  /\ f[i].bidder # Nil => s[f[i].bidder] # Nil

Parties == Known(auc, saved) /\ Known(aucFile, saved)

InTodo(x) == \E k \in DOMAIN todo : todo[k] = x

\* Whoever is to be saved is in memory, and is saved before the next auction ends.
Agenda ==
    /\ \A j, k \in DOMAIN todo : todo[j] = todo[k] => j = k
    /\ \A k \in DOMAIN todo : todo[k] \in Player => body[todo[k]] # Nil
    /\ \A k \in DOMAIN todo : todo[k] \in Item => auc[todo[k]] # Nil /\ todo[Len(todo)] = Auctions
    /\ \A j, k \in DOMAIN todo : todo[j] \in Item /\ todo[k] \in Player => k < j

\* Whatever is not on disk as it is in memory is still to be written.
ToWrite ==
    /\ auc # aucFile => InTodo(Auctions)
    /\ hoard # hoardFile => InTodo(Treasury)
    /\ \A p \in Player : (IF p \in online THEN saved[p] # body[p] ELSE body[p] # Nil) => InTodo(p)

BInv == TypeOK /\ Present /\ Filed /\ Alone /\ TradeMutual /\ Parties /\ Agenda /\ ToWrite

Owns(p, i) == Now(p) # Nil /\ i \in Now(p).items

Once == \A i \in Item : /\ \A p, q \in Player : Owns(p, i) /\ Owns(q, i) => p = q
                        /\ auc[i] # Nil => \A p \in Player : ~Owns(p, i)

Kept == \A i \in Item : (\A p \in Player : ~Owns(p, i)) /\ auc[i] = Nil
                            => i \in Token \/ \E p \in Player : Now(p) = Nil

Things1 == Once /\ Kept

LEMMA Typed ==
    ASSUME TypeOK
    PROVE  /\ body \in [Player -> Body \cup {Nil}] /\ saved \in [Player -> Body \cup {Nil}] /\ online \subseteq Player
           /\ auc \in [Item -> Auction \cup {Nil}] /\ aucFile \in [Item -> Auction \cup {Nil}]
           /\ hoard \in [gold : Nat, qp : Nat] /\ hoardFile \in [gold : Nat, qp : Nat]
           /\ with \in [Player -> Player \cup {Nil}] /\ offer \in [Player -> SUBSET Item]
           /\ stake \in [Player -> Nat] /\ accepts \in [Player -> BOOLEAN]
           /\ todo \in Seq(Player \cup Item \cup {Auctions, Treasury})
  BY DEF TypeOK

LEMMA NobodyWaits == Idle => Agenda /\ DOMAIN todo = {}
  BY DEF Idle, Agenda

LEMMA DiskIsTrue == BInv => DiskTrue
  BY NobodyWaits, Typed DEF BInv, ToWrite, InTodo, DiskTrue

LEMMA PartiesThere == BInv => PartiesExist
  <1>1. SUFFICES ASSUME BInv, NEW i \in Open
                 PROVE  Now(auc[i].owner) # Nil /\ (auc[i].bidder # Nil => Now(auc[i].bidder) # Nil)
    BY DEF PartiesExist
  <1>2. /\ saved[auc[i].owner] # Nil
        /\ auc[i].bidder # Nil => saved[auc[i].bidder] # Nil
    BY <1>1 DEF BInv, Parties, Known, Open
  <1>3. QED BY <1>2 DEF Now

LEMMA OnePlaceEach == BInv /\ Things1 => OnePlace
  <1>1. SUFFICES ASSUME BInv, Things1 PROVE ItemsOnce
    BY DiskIsTrue DEF OnePlace, BInv
  <1>2. SUFFICES ASSUME NEW i \in Item
                 PROVE  /\ Cardinality(Holders(i)) + (IF auc[i] = Nil THEN 0 ELSE 1) <= 1
                        /\ Nowhere(i) => i \in Token \/ Someone # Player
    BY DEF ItemsOnce
  <1>3. Holders(i) = {p \in Player : Owns(p, i)}
    BY DEF Holders, Owns, Someone
  <1>4. Holders(i) = {} \/ \E p \in Player : Holders(i) = {p} /\ auc[i] = Nil
    <2>1. \A p, q \in Holders(i) : p = q
      BY <1>1, <1>3 DEF Things1, Once
    <2>2. Holders(i) # {} => auc[i] = Nil
      BY <1>1, <1>3 DEF Things1, Once
    <2>3. QED BY <1>3, <2>1, <2>2
  <1>5. Cardinality({}) = 0 /\ \A p : Cardinality({p}) = 1
    BY FS_EmptySet, FS_Singleton
  <1>6. Cardinality(Holders(i)) + (IF auc[i] = Nil THEN 0 ELSE 1) <= 1
    <2>1. CASE Holders(i) = {}
      BY <1>5, <2>1
    <2>2. ASSUME NEW p \in Player, Holders(i) = {p}, auc[i] = Nil
          PROVE  Cardinality(Holders(i)) + (IF auc[i] = Nil THEN 0 ELSE 1) <= 1
      <3>1. Cardinality(Holders(i)) = 1
        BY <2>2, FS_Singleton, Zenon
      <3>2. QED BY <2>2, <3>1
    <2>3. QED BY <1>4, <2>1, <2>2
  <1>7. ASSUME Nowhere(i) PROVE i \in Token \/ Someone # Player
    <2>1. (\A p \in Player : ~Owns(p, i)) /\ auc[i] = Nil
      BY <1>3, <1>7 DEF Nowhere
    <2>2. i \in Token \/ \E p \in Player : Now(p) = Nil
      BY <1>1, <2>1 DEF Things1, Kept
    <2>3. QED BY <2>2 DEF Someone
  <1>8. QED BY <1>6, <1>7

\* Nothing changes hands.
LEMMA SameThings ==
    ASSUME Things1, \A p \in Player : /\ Now(p)' = Nil <=> Now(p) = Nil
                                      /\ Now(p) # Nil => Now(p)'.items = Now(p).items,
           \A i \in Item : auc'[i] = Nil <=> auc[i] = Nil
    PROVE  Things1'
  <1>1. \A p \in Player, i \in Item : Owns(p, i)' <=> Owns(p, i)
    BY DEF Owns
  <1>2. Once'
    BY <1>1 DEF Things1, Once
  <1>3. Kept'
    BY <1>1 DEF Things1, Kept
  <1>4. QED BY <1>2, <1>3 DEF Things1

-----------------------------------------------------------------------------
(* Steps that only talk, and steps that change what one player has. *)

LEMMA TalkKeeps ==
    ASSUME BInv, UNCHANGED <<body, online, auc, hoard, disk, todo>>,
           with' \in [Player -> Player \cup {Nil}], offer' \in [Player -> SUBSET Item],
           stake' \in [Player -> Nat], accepts' \in [Player -> BOOLEAN],
           Alone', TradeMutual'
    PROVE  BInv'
  <1> USE DEF disk, BInv
  <1>1. TypeOK'
    BY DEF TypeOK
  <1>2. Present' /\ Filed' /\ Parties' /\ Agenda' /\ ToWrite'
    BY DEF Present, Filed, Parties, Known, Agenda, ToWrite, InTodo
  <1>3. QED BY <1>1, <1>2

\* What a command leaves to do: to save a player, and a file before or after it.
Short(p, t) == t = <<p>> \/ t = <<Treasury, p>> \/ t = <<p, Auctions>> \/ t = <<Auctions>>

LEMMA ShortAgenda ==
    ASSUME NEW p \in Player, Short(p, todo'), body'[p] # Nil
    PROVE  /\ Agenda' /\ todo' \in Seq(Player \cup Item \cup {Auctions, Treasury})
           /\ todo' # <<Auctions>> => InTodo(p)'
           /\ todo' = <<Treasury, p>> => InTodo(Treasury)'
           /\ todo' = <<p, Auctions>> \/ todo' = <<Auctions>> => InTodo(Auctions)'
  <1> USE Constants
  <1>1. CASE todo' = <<p>>
    <2>1. DOMAIN todo' = {1} /\ todo'[1] = p
      BY <1>1
    <2>2. QED BY <1>1, <2>1 DEF Agenda, InTodo
  <1>2. CASE todo' = <<Treasury, p>>
    <2>1. DOMAIN todo' = {1, 2} /\ todo'[1] = Treasury /\ todo'[2] = p
      BY <1>2
    <2>2. QED BY <1>2, <2>1 DEF Agenda, InTodo
  <1>3. CASE todo' = <<p, Auctions>>
    <2>1. DOMAIN todo' = {1, 2} /\ todo'[1] = p /\ todo'[2] = Auctions
      BY <1>3
    <2>2. QED BY <1>3, <2>1 DEF Agenda, InTodo
  <1>4. CASE todo' = <<Auctions>>
    <2>1. DOMAIN todo' = {1} /\ todo'[1] = Auctions
      BY <1>4
    <2>2. QED BY <1>4, <2>1 DEF Agenda, InTodo
  <1>5. QED BY <1>1, <1>2, <1>3, <1>4 DEF Short

LEMMA AccountKeeps ==
    ASSUME BInv, Idle, NEW p \in online, NEW b \in Body, body' = [body EXCEPT ![p] = b],
           UNCHANGED <<online, disk, trade>>,
           with[p] # Nil => offer[p] \subseteq b.items,
           \/ todo' = <<p>> /\ UNCHANGED <<auc, hoard>>
           \/ todo' = <<Treasury, p>> /\ auc' = auc /\ hoard' \in [gold : Nat, qp : Nat]
           \/ todo' = <<p, Auctions>> /\ hoard' = hoard /\ auc' \in [Item -> Auction \cup {Nil}] /\ Known(auc', saved)
    PROVE  BInv'
  <1> USE Constants
  <1>1. /\ body \in [Player -> Body \cup {Nil}] /\ online \subseteq Player /\ p \in Player /\ body'[p] = b /\ b # Nil /\ body[p] # Nil
        /\ \A q \in Player \ {p} : body'[q] = body[q]
    BY Typed DEF BInv, Present
  <1>2. /\ Agenda' /\ todo' \in Seq(Player \cup Item \cup {Auctions, Treasury}) /\ InTodo(p)'
        /\ todo' = <<Treasury, p>> => InTodo(Treasury)'
        /\ todo' = <<p, Auctions>> => InTodo(Auctions)'
    <2>1. Short(p, todo') /\ todo' # <<Auctions>>
      BY <1>1 DEF Short
    <2>2. QED BY <1>1, <2>1, ShortAgenda
  <1>3. TypeOK'
    <2>1. body' \in [Player -> Body \cup {Nil}] /\ todo' \in Seq(Player \cup Item \cup {Auctions, Treasury})
      BY <1>1, <1>2
    <2>2. auc' \in [Item -> Auction \cup {Nil}] /\ hoard' \in [gold : Nat, qp : Nat]
      BY Typed DEF BInv
    <2>3. QED BY <2>1, <2>2, Typed DEF BInv, TypeOK, disk, trade
  <1>4. Present' /\ Filed' /\ Alone' /\ TradeMutual'
    <2>1. Present' /\ Filed' /\ Alone'
      BY <1>1 DEF BInv, Present, Filed, Alone, disk, trade
    <2>2. TradeMutual'
      <3>1. \A q \in Player : with[q] # Nil => offer[q] \subseteq body'[q].items
        BY <1>1 DEF BInv, TradeMutual
      <3>2. QED BY <3>1 DEF BInv, TradeMutual, trade
    <2>3. QED BY <2>1, <2>2
  <1>5. Parties'
    BY DEF BInv, Parties, disk
  <1>6. aucFile = auc /\ hoardFile = hoard /\ (\A q \in online : saved[q] = body[q]) /\ \A q \in Player \ online : body[q] = Nil
    BY NobodyWaits, Typed DEF BInv, ToWrite, InTodo
  <1>7. ToWrite'
    BY <1>1, <1>2, <1>6 DEF ToWrite, disk
  <1>8. QED BY <1>2, <1>3, <1>4, <1>5, <1>7 DEF BInv

\* ... if he has the same items as before.
LEMMA AccountKeepsThings ==
    ASSUME BInv, Things1, NEW p \in online, NEW b \in Body, body' = [body EXCEPT ![p] = b], b.items = body[p].items,
           UNCHANGED <<online, disk, auc>>
    PROVE  Things1'
  <1> USE Constants
  <1>1. /\ body \in [Player -> Body \cup {Nil}] /\ p \in Player /\ body'[p] = b /\ b # Nil /\ body[p] # Nil
        /\ \A q \in Player \ {p} : body'[q] = body[q]
    BY Typed DEF BInv, Present
  <1>2. \A q \in Player : /\ Now(q)' = Nil <=> Now(q) = Nil
                          /\ Now(q) # Nil => Now(q)'.items = Now(q).items
    BY <1>1 DEF Now, disk
  <1>3. QED BY <1>2, SameThings

\* Whoever plays, between two commands.
LEMMA Playing ==
    ASSUME BInv, NEW p \in online
    PROVE  /\ p \in Player /\ body[p] \in Body /\ body[p] # Nil /\ saved[p] # Nil
           /\ with[p] # Nil => offer[p] \subseteq body[p].items
  BY Typed DEF BInv, Present, Filed, TradeMutual

LEMMA BankingKeeps ==
    ASSUME BInv, NEW p \in Player, NEW n \in Amounts,
           BankDeposit(p, n) \/ BankWithdraw(p, n) \/ SpendQp(p, n) \/ Tax(p, n)
    PROVE  BInv' /\ (Things1 => Things1')
  <1>1. Idle /\ p \in online /\ todo' = <<p>> /\ UNCHANGED <<online, auc, hoard, disk, trade>>
    BY DEF BankDeposit, BankWithdraw, SpendQp, Tax
  <1>2. n \in Int /\ n >= 0 /\ -n \in Int
    BY Constants
  <1>3. body[p] \in Body /\ body[p].gold \in Nat
    BY <1>1, Playing, Things
  <1>4. \E b \in Body : body' = [body EXCEPT ![p] = b] /\ b.items = body[p].items
    <2>1. CASE BankDeposit(p, n)
      <3> DEFINE b1 == Gain(body[p], "gold", -n)
                 b2 == Gain(b1, "bank", n)
      <3>1. body' = [body EXCEPT ![p] = b2] /\ body[p].gold + (-n) >= 0
        BY <1>2, <1>3, <2>1 DEF BankDeposit
      <3>2. b1 \in Body /\ b1.items = body[p].items
        BY <1>2, <1>3, <3>1, Gains
      <3> HIDE DEF b1
      <3>3. b2 \in Body /\ b2.items = b1.items
        BY <1>2, <3>2, Gains
      <3> HIDE DEF b2
      <3>4. QED BY <3>1, <3>2, <3>3
    <2>2. CASE BankWithdraw(p, n)
      <3> DEFINE b1 == Gain(body[p], "bank", -n)
                 b2 == Gain(b1, "gold", n)
      <3>1. body' = [body EXCEPT ![p] = b2]
        BY <2>2 DEF BankWithdraw
      <3>2. b1 \in Body /\ b1.items = body[p].items /\ b1.gold = body[p].gold
        BY <1>2, <1>3, Gains
      <3> HIDE DEF b1
      <3>3. b1.gold + n >= 0
        BY <1>2, <1>3, <3>2
      <3>4. b2 \in Body /\ b2.items = b1.items
        BY <1>2, <3>2, <3>3, Gains
      <3> HIDE DEF b2
      <3>5. QED BY <3>1, <3>2, <3>4
    <2>3. CASE SpendQp(p, n)
      <3>1. body' = [body EXCEPT ![p] = Gain(body[p], "qp", -n)]
        BY <2>3 DEF SpendQp
      <3>2. QED BY <1>2, <1>3, <3>1, Gains
    <2>4. CASE Tax(p, n)
      <3>1. body' = [body EXCEPT ![p] = Gain(body[p], "bank", -n)]
        BY <2>4 DEF Tax
      <3>2. QED BY <1>2, <1>3, <3>1, Gains
    <2>5. QED BY <2>1, <2>2, <2>3, <2>4
  <1>5. PICK b \in Body : body' = [body EXCEPT ![p] = b] /\ b.items = body[p].items
    BY <1>4
  <1>6. BInv'
    <2>1. with[p] # Nil => offer[p] \subseteq b.items
      BY <1>1, <1>5, Playing
    <2>2. UNCHANGED <<online, disk, trade>> /\ UNCHANGED <<auc, hoard>>
      BY <1>1
    <2>3. QED BY <1>1, <1>5, <2>1, <2>2, AccountKeeps
  <1>7. Things1 => Things1'
    BY <1>1, <1>5, AccountKeepsThings
  <1>8. QED BY <1>6, <1>7

LEMMA TreasuryKeeps ==
    ASSUME BInv, NEW p \in Player, NEW n \in Amounts, NEW k \in {"gold", "qp"},
           TreasuryDeposit(p, k, n) \/ TreasuryWithdraw(p, k, n)
    PROVE  BInv' /\ (Things1 => Things1')
  <1>1. Idle /\ p \in online /\ with[p] = Nil /\ todo' = <<Treasury, p>> /\ UNCHANGED <<online, auc, disk, trade>>
    BY DEF TreasuryDeposit, TreasuryWithdraw
  <1>2. n \in Int /\ n >= 0 /\ -n \in Int
    BY Constants
  <1>3. body[p] \in Body /\ body[p].gold \in Nat
    BY <1>1, Playing, Things
  <1>4. hoard \in [gold : Nat, qp : Nat]
    BY Typed DEF BInv
  <1>5. \E m \in {n, -n} : /\ body' = [body EXCEPT ![p] = Gain(body[p], k, -m)] /\ hoard' = [hoard EXCEPT ![k] = hoard[k] + m]
                           /\ hoard[k] + m >= 0 /\ (k = "gold" => body[p].gold + (-m) >= 0)
    <2>1. hoard[k] \in Nat
      BY <1>4
    <2>2. CASE TreasuryDeposit(p, k, n)
      <3>1. /\ body' = [body EXCEPT ![p] = Gain(body[p], k, -n)] /\ hoard' = [hoard EXCEPT ![k] = hoard[k] + n]
            /\ k = "gold" => n <= body[p].gold
        BY <2>2 DEF TreasuryDeposit
      <3>2. QED BY <1>2, <1>3, <2>1, <3>1
    <2>3. CASE TreasuryWithdraw(p, k, n)
      <3>1. /\ body' = [body EXCEPT ![p] = Gain(body[p], k, n)] /\ hoard' = [hoard EXCEPT ![k] = hoard[k] - n] /\ n <= hoard[k]
        BY <2>3 DEF TreasuryWithdraw
      <3> DEFINE m == -n
      <3>2. n = -m /\ hoard[k] - n = hoard[k] + m /\ hoard[k] + m >= 0 /\ body[p].gold + (-m) >= 0 /\ m \in {n, -n}
        BY <1>2, <1>3, <2>1, <3>1
      <3> HIDE DEF m
      <3>3. /\ body' = [body EXCEPT ![p] = Gain(body[p], k, -m)] /\ hoard' = [hoard EXCEPT ![k] = hoard[k] + m]
        BY <3>1, <3>2
      <3>4. QED BY <3>2, <3>3
    <2>4. QED BY <2>2, <2>3
  <1>6. PICK m \in {n, -n} : /\ body' = [body EXCEPT ![p] = Gain(body[p], k, -m)] /\ hoard' = [hoard EXCEPT ![k] = hoard[k] + m]
                             /\ hoard[k] + m >= 0 /\ (k = "gold" => body[p].gold + (-m) >= 0)
    BY <1>5
  <1>7. m \in Int /\ -m \in Int
    BY <1>2
  <1>8. hoard' \in [gold : Nat, qp : Nat]
    BY <1>4, <1>6, <1>7
  <1> DEFINE b == Gain(body[p], k, -m)
  <1>9. b \in Body /\ b.items = body[p].items /\ body' = [body EXCEPT ![p] = b]
    <2>1. CASE k = "gold"
      BY <1>3, <1>6, <1>7, <2>1, Gains
    <2>2. CASE k = "qp"
      BY <1>3, <1>6, <1>7, <2>2, Gains
    <2>3. QED BY <2>1, <2>2
  <1> HIDE DEF b
  <1>10. BInv'
    <2>1. UNCHANGED <<online, disk, trade>> /\ auc' = auc
      BY <1>1
    <2>2. QED BY <1>1, <1>8, <1>9, <2>1, AccountKeeps
  <1>11. Things1 => Things1'
    BY <1>1, <1>9, AccountKeepsThings
  <1>12. QED BY <1>10, <1>11

LEMMA TokenKeeps ==
    ASSUME BInv, NEW p \in Player, NEW i \in Item, CashIn(p, i) \/ MakeToken(p, i)
    PROVE  BInv' /\ (Things1 => Things1')
  <1>1. Idle /\ p \in online /\ with[p] = Nil /\ todo' = <<p>> /\ UNCHANGED <<online, auc, hoard, disk, trade>>
    BY DEF CashIn, MakeToken
  <1>2. body[p] \in Body /\ i \in Token
    <2>1. i \in Token
      BY DEF CashIn, MakeToken
    <2>2. QED BY <1>1, <2>1, Playing
  <1>3. \E b \in Body : /\ body' = [body EXCEPT ![p] = b]
                        /\ \/ b.items = body[p].items \ {i}
                           \/ b.items = body[p].items \cup {i} /\ Nowhere(i)
    <2>1. CASE CashIn(p, i)
      <3> DEFINE b1 == Lose(body[p], {i})
                 n == 1
                 b2 == Gain(b1, "qp", n)
      <3>1. body' = [body EXCEPT ![p] = b2]
        BY <2>1 DEF CashIn
      <3>2. b1 \in Body /\ b1.items = body[p].items \ {i}
        BY <1>2, Things
      <3>3. n \in Int
        OBVIOUS
      <3> HIDE DEF b1, n
      <3>4. b2 \in Body /\ b2.items = b1.items
        BY <3>2, <3>3, Gains
      <3> HIDE DEF b2
      <3>5. QED BY <3>1, <3>2, <3>4
    <2>2. CASE MakeToken(p, i)
      <3> DEFINE b1 == Take(body[p], {i})
                 n == -1
                 b2 == Gain(b1, "qp", n)
      <3>1. body' = [body EXCEPT ![p] = b2] /\ Nowhere(i)
        BY <2>2 DEF MakeToken
      <3>2. b1 \in Body /\ b1.items = body[p].items \cup {i}
        BY <1>2, Things
      <3>3. n \in Int
        OBVIOUS
      <3> HIDE DEF b1, n
      <3>4. b2 \in Body /\ b2.items = b1.items
        BY <3>2, <3>3, Gains
      <3> HIDE DEF b2
      <3>5. QED BY <3>1, <3>2, <3>4
    <2>3. QED BY <2>1, <2>2
  <1>4. PICK b \in Body : /\ body' = [body EXCEPT ![p] = b]
                          /\ \/ b.items = body[p].items \ {i}
                             \/ b.items = body[p].items \cup {i} /\ Nowhere(i)
    BY <1>3
  <1>5. BInv'
    <2>1. UNCHANGED <<online, disk, trade>> /\ UNCHANGED <<auc, hoard>>
      BY <1>1
    <2>2. QED BY <1>1, <1>4, <2>1, AccountKeeps
  <1>6. /\ \A q \in Player \ {p}, j \in Item : Owns(q, j)' <=> Owns(q, j)
        /\ \A j \in Item \ {i} : Owns(p, j)' <=> Owns(p, j)
        /\ Nowhere(i) \/ ~Owns(p, i)'
        /\ \A q \in Player : Now(q)' = Nil <=> Now(q) = Nil
    <2>1. p \in Player /\ body'[p] = b /\ b # Nil /\ body[p] # Nil /\ \A q \in Player \ {p} : body'[q] = body[q]
      BY <1>1, <1>4, Playing, Typed, Things DEF BInv
    <2>2. saved' = saved
      BY <1>1 DEF disk
    <2>3. Now(p) = body[p] /\ Now(p)' = b
      BY <2>1 DEF Now
    <2>4. \A q \in Player \ {p} : Now(q)' = Now(q)
      BY <2>1, <2>2 DEF Now
    <2>5. QED BY <1>4, <2>1, <2>3, <2>4 DEF Owns
  <1>7. Nowhere(i) => (\A q \in Player : ~Owns(q, i)) /\ auc[i] = Nil
    BY DEF Nowhere, Holders, Owns, Someone
  <1>8. auc' = auc
    BY <1>1
  <1>9. Things1 => Once'
    BY <1>6, <1>7, <1>8 DEF Things1, Once
  <1>10. Things1 => Kept'
    BY <1>2, <1>6, <1>8 DEF Things1, Kept
  <1>11. QED BY <1>5, <1>9, <1>10 DEF Things1

LEMMA AuctionAddKeeps ==
    ASSUME BInv, NEW p \in Player, NEW i \in Item, NEW k \in Kinds, AuctionAdd(p, i, k)
    PROVE  BInv' /\ (Things1 => Things1')
  <1> DEFINE new == [owner |-> p, bidder |-> Nil, amount |-> 0, kind |-> k, left |-> Duration]
  <1>1. /\ Idle /\ p \in online /\ with[p] = Nil /\ i \in body[p].items /\ todo' = <<p, Auctions>>
        /\ auc' = [auc EXCEPT ![i] = new] /\ UNCHANGED <<online, hoard, disk, trade>>
    BY DEF AuctionAdd, MayAuction
  <1>2. body[p] \in Body /\ body[p] # Nil /\ saved[p] # Nil /\ auc \in [Item -> Auction \cup {Nil}]
    BY <1>1, Playing, Typed DEF BInv
  <1>3. \E b \in Body : body' = [body EXCEPT ![p] = b] /\ b.items = body[p].items \ {i}
    <2>1. CASE k = "bank"
      <3> DEFINE b1 == Gain(body[p], "gold", -Fee)
                 n == IF i \in NoDrop THEN -Cost ELSE 0
                 b2 == Gain(b1, "qp", n)
                 b3 == Lose(b2, {i})
      <3>1. body' = [body EXCEPT ![p] = b3] /\ body[p].gold >= Fee
        BY <2>1 DEF AuctionAdd
      <3>2. n \in Int /\ -Fee \in Int /\ body[p].gold + (-Fee) >= 0
        BY <1>2, <3>1, Constants, Things
      <3>3. b1 \in Body /\ b1.items = body[p].items
        BY <1>2, <3>2, Gains
      <3> HIDE DEF b1, n
      <3>4. b2 \in Body /\ b2.items = body[p].items
        BY <3>2, <3>3, Gains
      <3> HIDE DEF b2
      <3>5. b3 \in Body /\ b3.items = body[p].items \ {i}
        BY <3>4, Things
      <3> HIDE DEF b3
      <3>6. QED BY <3>1, <3>5
    <2>2. CASE k # "bank"
      <3> DEFINE n == -Fee - (IF i \in NoDrop THEN Cost ELSE 0)
                 b2 == Gain(body[p], "qp", n)
                 b3 == Lose(b2, {i})
      <3>1. body' = [body EXCEPT ![p] = b3]
        BY <2>2 DEF AuctionAdd
      <3>2. n \in Int
        BY Constants
      <3> HIDE DEF n
      <3>3. b2 \in Body /\ b2.items = body[p].items
        BY <1>2, <3>2, Gains
      <3> HIDE DEF b2
      <3>4. b3 \in Body /\ b3.items = body[p].items \ {i}
        BY <3>3, Things
      <3> HIDE DEF b3
      <3>5. QED BY <3>1, <3>4
    <2>3. QED BY <2>1, <2>2
  <1>4. PICK b \in Body : body' = [body EXCEPT ![p] = b] /\ b.items = body[p].items \ {i}
    BY <1>3
  <1>5. new \in Auction /\ new.owner = p /\ new.bidder = Nil
    BY Constants DEF Auction
  <1> HIDE DEF new
  <1>6. auc' \in [Item -> Auction \cup {Nil}] /\ auc'[i] # Nil /\ \A j \in Item \ {i} : auc'[j] = auc[j]
    BY <1>1, <1>2, <1>5, Constants
  <1>7. BInv'
    <2>1. Known(auc', saved)
      BY <1>1, <1>2, <1>5, Constants DEF BInv, Parties, Known
    <2>2. UNCHANGED <<online, disk, trade>> /\ hoard' = hoard
      BY <1>1
    <2>3. QED BY <1>1, <1>4, <1>6, <2>1, <2>2, AccountKeeps
  <1>8. /\ \A q \in Player \ {p}, j \in Item : Owns(q, j)' <=> Owns(q, j)
        /\ \A j \in Item \ {i} : Owns(p, j)' <=> Owns(p, j)
        /\ Owns(p, i) /\ ~Owns(p, i)'
        /\ \A q \in Player : Now(q)' = Nil <=> Now(q) = Nil
    <2>1. p \in Player /\ body'[p] = b /\ b # Nil /\ body[p] # Nil /\ \A q \in Player \ {p} : body'[q] = body[q]
      BY <1>1, <1>4, Playing, Typed, Things DEF BInv
    <2>2. saved' = saved
      BY <1>1 DEF disk
    <2>3. Now(p) = body[p] /\ Now(p)' = b
      BY <2>1 DEF Now
    <2>4. \A q \in Player \ {p} : Now(q)' = Now(q)
      BY <2>1, <2>2 DEF Now
    <2>5. QED BY <1>1, <1>4, <2>1, <2>3, <2>4 DEF Owns
  <1>9. Things1 => Once'
    BY <1>6, <1>8 DEF Things1, Once
  <1>10. Things1 => Kept'
    BY <1>6, <1>8 DEF Things1, Kept
  <1>11. QED BY <1>7, <1>9, <1>10 DEF Things1

-----------------------------------------------------------------------------
(* Trades. *)

LEMMA Mutual ==
    ASSUME BInv, NEW p \in Player, with[p] # Nil
    PROVE  /\ with[p] \in Player /\ with[p] # p /\ with[with[p]] = p /\ p \in online /\ with[p] \in online
           /\ offer[p] \subseteq body[p].items /\ ~(accepts[p] /\ accepts[with[p]])
  BY Typed DEF BInv, TradeMutual, Alone

\* A trade is over for both.
LEMMA Clearing ==
    ASSUME BInv, NEW p \in Player, NEW P \in SUBSET Player, Clear(P),
           (P = {} /\ with[p] = Nil) \/ (P = {p, with[p]} /\ with[p] # Nil)
    PROVE  /\ with' \in [Player -> Player \cup {Nil}] /\ offer' \in [Player -> SUBSET Item]
           /\ stake' \in [Player -> Nat] /\ accepts' \in [Player -> BOOLEAN] /\ Alone'
           /\ \A q \in Player : with'[q] = Nil => offer'[q] = {} /\ stake'[q] = 0 /\ ~accepts'[q]
           /\ \A q \in Player : with'[q] # Nil =>
                 /\ q \notin P \cup {p} /\ with[q] \notin P \cup {p} /\ with'[q] = with[q] /\ with'[with[q]] = q
                 /\ offer'[q] = offer[q] /\ stake'[q] = stake[q] /\ accepts'[q] = accepts[q] /\ accepts'[with[q]] = accepts[with[q]]
  <1>1. /\ with' = [q \in Player |-> IF q \in P THEN Nil ELSE with[q]]
        /\ offer' = [q \in Player |-> IF q \in P THEN {} ELSE offer[q]]
        /\ stake' = [q \in Player |-> IF q \in P THEN 0 ELSE stake[q]]
        /\ accepts' = [q \in Player |-> IF q \in P THEN FALSE ELSE accepts[q]]
    BY DEF Clear, Cleared
  <1>2. /\ with \in [Player -> Player \cup {Nil}] /\ offer \in [Player -> SUBSET Item]
        /\ stake \in [Player -> Nat] /\ accepts \in [Player -> BOOLEAN]
    BY Typed DEF BInv
  <1>3. /\ with' \in [Player -> Player \cup {Nil}] /\ offer' \in [Player -> SUBSET Item]
        /\ stake' \in [Player -> Nat]
    BY <1>1, <1>2
  <1>4. accepts' \in [Player -> BOOLEAN]
    BY <1>1, <1>2, Zenon
  <1>5. Alone'
    <2>1. Nil \notin Player /\ \A q \in Player : with[q] # q
      BY Constants DEF BInv, Alone
    <2>2. QED BY <1>1, <2>1 DEF Alone
  <1>6. \A q \in Player : with'[q] = Nil => offer'[q] = {} /\ stake'[q] = 0 /\ ~accepts'[q]
    BY <1>1 DEF BInv, TradeMutual
  <1>7. ASSUME NEW q \in Player, with'[q] # Nil
        PROVE  /\ q \notin P \cup {p} /\ with[q] \notin P \cup {p} /\ with'[q] = with[q] /\ with'[with[q]] = q
               /\ offer'[q] = offer[q] /\ stake'[q] = stake[q] /\ accepts'[q] = accepts[q] /\ accepts'[with[q]] = accepts[with[q]]
    <2>1. q \notin P /\ with'[q] = with[q] /\ with[q] # Nil
      BY <1>1, <1>7
    <2>2. with[q] \in Player /\ with[with[q]] = q
      BY <2>1, Mutual
    <2>3. with[p] # Nil => with[p] \in Player /\ with[with[p]] = p
      BY Mutual
    <2>4. q # p /\ with[q] # p /\ with[q] \notin P
      <3>1. CASE with[p] = Nil
        BY <2>1, <2>2, <3>1, Constants
      <3>2. CASE with[p] # Nil /\ P = {p, with[p]}
        BY <2>1, <2>2, <2>3, <3>2
      <3>3. QED BY <3>1, <3>2
    <2>5. with'[with[q]] = q /\ accepts'[with[q]] = accepts[with[q]]
      BY <1>1, <2>2, <2>4
    <2>6. offer'[q] = offer[q] /\ stake'[q] = stake[q] /\ accepts'[q] = accepts[q]
      BY <1>1, <2>1
    <2>7. QED BY <2>1, <2>4, <2>5, <2>6
  <1>8. QED BY <1>3, <1>4, <1>5, <1>6, <1>7

\* Whoever still trades does so as before.
LEMMA ClearedMutual ==
    ASSUME BInv, NEW p \in Player, NEW P \in SUBSET Player, Clear(P),
           (P = {} /\ with[p] = Nil) \/ (P = {p, with[p]} /\ with[p] # Nil),
           \A q \in Player \ (P \cup {p}) : body'[q] = body[q] /\ (q \in online => q \in online')
    PROVE  TradeMutual'
  <1>1. /\ \A q \in Player : with'[q] = Nil => offer'[q] = {} /\ stake'[q] = 0 /\ ~accepts'[q]
        /\ \A q \in Player : with'[q] # Nil =>
                 /\ q \notin P \cup {p} /\ with[q] \notin P \cup {p} /\ with'[q] = with[q] /\ with'[with[q]] = q
                 /\ offer'[q] = offer[q] /\ stake'[q] = stake[q] /\ accepts'[q] = accepts[q] /\ accepts'[with[q]] = accepts[with[q]]
    BY Clearing
  <1>2. ASSUME NEW q \in Player, with'[q] # Nil
        PROVE  /\ with'[with'[q]] = q /\ {q, with'[q]} \subseteq online' /\ offer'[q] \subseteq body'[q].items
               /\ ~(accepts'[q] /\ accepts'[with'[q]])
    <2>1. /\ q \notin P \cup {p} /\ with[q] \notin P \cup {p} /\ with'[q] = with[q] /\ with'[with[q]] = q
          /\ offer'[q] = offer[q] /\ accepts'[q] = accepts[q] /\ accepts'[with[q]] = accepts[with[q]]
      BY <1>1, <1>2
    <2>2. /\ with[q] \in Player /\ q \in online /\ with[q] \in online
          /\ offer[q] \subseteq body[q].items /\ ~(accepts[q] /\ accepts[with[q]])
      BY <1>2, <2>1, Mutual
    <2>3. QED BY <2>1, <2>2
  <1>3. QED BY <1>1, <1>2 DEF TradeMutual

LEMMA TradeTalkKeeps ==
    ASSUME BInv, NEW p \in Player,
           \/ \E q \in Player : TradeStart(p, q)
           \/ TradeAbort(p) \/ TradeAccept(p)
           \/ \E i \in Item : TradeAdd(p, i)
           \/ \E n \in Amounts : TradeGold(p, n)
    PROVE  BInv' /\ (Things1 => Things1')
  <1>1. UNCHANGED <<body, online, auc, hoard, disk, todo>>
    BY DEF TradeStart, TradeAbort, TradeAccept, TradeAdd, TradeGold
  <1>2. Things1 => Things1'
    BY <1>1, SameThings DEF Now, disk
  <1>3. /\ with \in [Player -> Player \cup {Nil}] /\ offer \in [Player -> SUBSET Item]
        /\ stake \in [Player -> Nat] /\ accepts \in [Player -> BOOLEAN]
    BY Typed DEF BInv
  <1>4. ASSUME NEW q \in Player, TradeStart(p, q) PROVE BInv'
    <2>1. /\ p \in online /\ q \in online /\ p # q /\ with[p] = Nil /\ with[q] = Nil
          /\ with' = [with EXCEPT ![p] = q, ![q] = p]
          /\ offer' = [c \in Player |-> IF c \in {p, q} THEN {} ELSE offer[c]]
          /\ stake' = [c \in Player |-> IF c \in {p, q} THEN 0 ELSE stake[c]]
          /\ accepts' = [c \in Player |-> IF c \in {p, q} THEN FALSE ELSE accepts[c]]
      BY <1>4 DEF TradeStart, Cleared
    <2>2. with' \in [Player -> Player \cup {Nil}] /\ offer' \in [Player -> SUBSET Item] /\ stake' \in [Player -> Nat]
      BY <1>3, <2>1
    <2>3. accepts' \in [Player -> BOOLEAN]
      BY <1>3, <2>1, Zenon
    <2>4. /\ with'[p] = q /\ with'[q] = p /\ \A c \in Player \ {p, q} : with'[c] = with[c]
          /\ offer'[p] = {} /\ offer'[q] = {} /\ \A c \in Player \ {p, q} : offer'[c] = offer[c]
          /\ stake'[p] = 0 /\ stake'[q] = 0 /\ \A c \in Player \ {p, q} : stake'[c] = stake[c]
          /\ ~accepts'[p] /\ ~accepts'[q] /\ \A c \in Player \ {p, q} : accepts'[c] = accepts[c]
      BY <1>3, <2>1
    <2>5. \A c \in Player \ {p, q} : with[c] # Nil => with[c] \in Player \ {p, q}
      BY <2>1, Mutual, Constants
    <2>6. Alone'
      BY <2>1, <2>4 DEF BInv, Alone
    <2>7. TradeMutual'
      <3>1. ASSUME NEW c \in Player, with'[c] # Nil
            PROVE  /\ with'[with'[c]] = c /\ {c, with'[c]} \subseteq online' /\ offer'[c] \subseteq body'[c].items
                   /\ ~(accepts'[c] /\ accepts'[with'[c]])
        <4>1. CASE c \in {p, q}
          BY <1>1, <2>1, <2>4, <4>1
        <4>2. CASE c \notin {p, q}
          <5>1. with[c] # Nil /\ with'[c] = with[c] /\ with[c] \in Player \ {p, q}
            BY <2>4, <2>5, <3>1, <4>2
          <5>2. /\ with[with[c]] = c /\ c \in online /\ with[c] \in online
                /\ offer[c] \subseteq body[c].items /\ ~(accepts[c] /\ accepts[with[c]])
            BY <5>1, Mutual
          <5>3. QED BY <1>1, <2>4, <4>2, <5>1, <5>2
        <4>3. QED BY <4>1, <4>2
      <3>2. ASSUME NEW c \in Player, with'[c] = Nil PROVE offer'[c] = {} /\ stake'[c] = 0 /\ ~accepts'[c]
        <4>1. c \notin {p, q} => with[c] = Nil
          BY <2>4, <3>2
        <4>2. QED BY <2>4, <4>1 DEF BInv, TradeMutual
      <3>3. QED BY <3>1, <3>2 DEF TradeMutual
    <2>8. QED BY <1>1, <2>2, <2>3, <2>6, <2>7, TalkKeeps
  <1>5. CASE TradeAbort(p)
    <2> DEFINE P == IF with[p] = Nil THEN {} ELSE {p, with[p]}
    <2>1. Clear(P) /\ with[p] # Nil
      BY <1>5 DEF TradeAbort, Abort
    <2>2. P \in SUBSET Player /\ P = {p, with[p]}
      BY <2>1, Mutual
    <2> HIDE DEF P
    <2>3. /\ with' \in [Player -> Player \cup {Nil}] /\ offer' \in [Player -> SUBSET Item]
          /\ stake' \in [Player -> Nat] /\ accepts' \in [Player -> BOOLEAN] /\ Alone'
      BY <2>1, <2>2, Clearing
    <2>4. TradeMutual'
      <3>1. \A q \in Player \ (P \cup {p}) : body'[q] = body[q] /\ (q \in online => q \in online')
        BY <1>1
      <3>2. Clear(P) /\ ((P = {} /\ with[p] = Nil) \/ (P = {p, with[p]} /\ with[p] # Nil))
        BY <2>1, <2>2
      <3>3. QED BY <2>2, <3>1, <3>2, ClearedMutual
    <2>5. QED BY <1>1, <1>2, <2>3, <2>4, TalkKeeps
  <1>6. CASE TradeAccept(p)
    <2>1. /\ with[p] # Nil /\ ~accepts[with[p]] /\ accepts' = [accepts EXCEPT ![p] = TRUE] /\ UNCHANGED <<with, offer, stake>>
      BY <1>6 DEF TradeAccept
    <2>2. accepts' \in [Player -> BOOLEAN]
      BY <1>3, <2>1
    <2>3. Alone'
      BY <2>1 DEF BInv, Alone
    <2>4. \A c \in Player : accepts'[c] = accepts[c] \/ c = p
      BY <1>3, <2>1
    <2>5. ASSUME NEW c \in Player, with[c] # Nil PROVE ~(accepts'[c] /\ accepts'[with[c]])
      <3>1. with[c] \in Player /\ with[c] # c /\ with[with[c]] = c /\ ~(accepts[c] /\ accepts[with[c]])
        BY <2>5, Mutual
      <3>2. CASE c = p
        BY <2>1, <2>4, <3>1, <3>2
      <3>3. CASE c # p
        <4>1. CASE with[c] = p
          BY <2>1, <2>4, <3>1, <3>3, <4>1
        <4>2. CASE with[c] # p
          BY <2>4, <3>1, <3>3, <4>2
        <4>3. QED BY <4>1, <4>2
      <3>4. QED BY <3>2, <3>3
    <2>6. \A c \in Player : with[c] = Nil => ~accepts'[c]
      BY <2>1, <2>4 DEF BInv, TradeMutual
    <2>7. TradeMutual'
      <3>1. UNCHANGED <<body, online>> /\ UNCHANGED <<with, offer, stake>> /\ TradeMutual
        BY <1>1, <2>1 DEF BInv
      <3>2. ASSUME NEW c \in Player, with[c] # Nil
            PROVE  /\ with[with[c]] = c /\ {c, with[c]} \subseteq online /\ offer[c] \subseteq body[c].items
                   /\ ~(accepts'[c] /\ accepts'[with[c]])
        BY <2>5, <3>2, Mutual
      <3>3. ASSUME NEW c \in Player, with[c] = Nil PROVE offer[c] = {} /\ stake[c] = 0 /\ ~accepts'[c]
        BY <2>6, <3>1, <3>3 DEF TradeMutual
      <3>4. QED BY <3>1, <3>2, <3>3 DEF TradeMutual
    <2>8. QED BY <1>1, <1>2, <1>3, <2>1, <2>2, <2>3, <2>7, TalkKeeps
  <1>7. ASSUME NEW i \in Item, TradeAdd(p, i) PROVE BInv'
    <2>1. /\ with[p] # Nil /\ i \in body[p].items /\ offer' = [offer EXCEPT ![p] = @ \cup {i}] /\ UNCHANGED <<with, stake, accepts>>
      BY <1>7 DEF TradeAdd, OpenToChange
    <2>2. offer' \in [Player -> SUBSET Item] /\ offer'[p] = offer[p] \cup {i} /\ \A c \in Player \ {p} : offer'[c] = offer[c]
      BY <1>3, <2>1
    <2>3. Alone'
      BY <2>1 DEF BInv, Alone
    <2>4. TradeMutual'
      BY <1>1, <2>1, <2>2 DEF BInv, TradeMutual
    <2>5. QED BY <1>1, <1>3, <2>1, <2>2, <2>3, <2>4, TalkKeeps
  <1>8. ASSUME NEW n \in Amounts, TradeGold(p, n) PROVE BInv'
    <2>1. with[p] # Nil /\ stake' = [stake EXCEPT ![p] = n] /\ UNCHANGED <<with, offer, accepts>>
      BY <1>8 DEF TradeGold, OpenToChange
    <2>2. stake' \in [Player -> Nat] /\ \A c \in Player \ {p} : stake'[c] = stake[c]
      BY <1>3, <2>1, Constants
    <2>3. Alone'
      BY <2>1 DEF BInv, Alone
    <2>4. TradeMutual'
      BY <1>1, <2>1, <2>2 DEF BInv, TradeMutual
    <2>5. QED BY <1>1, <1>3, <2>1, <2>2, <2>3, <2>4, TalkKeeps
  <1>9. QED BY <1>2, <1>4, <1>5, <1>6, <1>7, <1>8

LEMMA Transfer ==
    ASSUME BInv, NEW b \in [Player -> Body \cup {Nil}], NEW p \in Player, with[p] # Nil, b[p] \in Body, b[with[p]] \in Body
    PROVE  /\ Transferred(b, p) \in [Player -> Body \cup {Nil}]
           /\ Transferred(b, p)[p] \in Body /\ Transferred(b, p)[p].items = b[p].items \ offer[p]
           /\ Transferred(b, p)[with[p]] \in Body /\ Transferred(b, p)[with[p]].items = b[with[p]].items \cup offer[p]
           /\ \A q \in Player \ {p, with[p]} : Transferred(b, p)[q] = b[q]
  <1> DEFINE w == with[p]
             s == stake[p]
             m == -stake[p]
             c == -Cost * Cardinality(offer[p] \cap NoDrop)
             x1 == Lose(b[p], offer[p])
             x2 == Gain(x1, "bank", m)
             x3 == Gain(x2, "qp", c)
             y1 == Take(b[w], offer[p])
             y2 == Gain(y1, "bank", s)
  <1>1. w \in Player /\ w # p /\ offer[p] \in SUBSET Item
    BY Mutual, Typed DEF BInv
  <1>2. s \in Int /\ m \in Int
    BY Typed DEF BInv
  <1>3. c \in Int
    <2>1. IsFiniteSet(offer[p] \cap NoDrop)
      BY <1>1, Constants, FS_Subset
    <2>2. Cardinality(offer[p] \cap NoDrop) \in Nat
      BY <2>1, FS_CardinalityType
    <2> DEFINE n == Cardinality(offer[p] \cap NoDrop)
               d == -Cost
    <2>3. n \in Int /\ d \in Int /\ c = d * n
      BY <2>2, Constants
    <2> HIDE DEF n, d, c
    <2>4. d * n \in Int
      BY <2>3
    <2>5. QED BY <2>3, <2>4
  <1>4. Transferred(b, p) = [b EXCEPT ![p] = x3, ![w] = y2]
    BY <1>1 DEF Transferred
  <1> HIDE DEF s, m, c
  <1>5. x1 \in Body /\ x1.items = b[p].items \ offer[p]
    BY <1>1, Things
  <1> HIDE DEF x1
  <1>6. x2 \in Body /\ x2.items = x1.items
    BY <1>2, <1>5, Gains
  <1> HIDE DEF x2
  <1>7. x3 \in Body /\ x3.items = x2.items
    BY <1>3, <1>6, Gains
  <1> HIDE DEF x3
  <1>8. y1 \in Body /\ y1.items = b[w].items \cup offer[p]
    BY <1>1, Things
  <1> HIDE DEF y1
  <1>9. y2 \in Body /\ y2.items = y1.items
    BY <1>2, <1>8, Gains
  <1> HIDE DEF y2
  <1>10. QED BY <1>1, <1>4, <1>5, <1>6, <1>7, <1>8, <1>9

LEMMA TradeFinishKeeps ==
    ASSUME BInv, NEW p \in Player, TradeFinish(p)
    PROVE  BInv' /\ (Things1 => Things1')
  <1> DEFINE b == Transferred(body, p)
  <1>0. with[p] # Nil
    BY DEF TradeFinish
  <1>w. PICK w \in Player : w = with[p] /\ w # p /\ with[w] = p /\ p \in online /\ w \in online
    BY <1>0, Mutual
  <1> DEFINE P == {p, w}
  <1>1. /\ Idle /\ with[p] # Nil /\ body' = Transferred(b, w) /\ Clear(P) /\ todo' = <<w, p>>
        /\ UNCHANGED <<online, auc, hoard, disk>>
    BY <1>w DEF TradeFinish
  <1>2. w \in Player /\ w = with[p] /\ w # p /\ with[w] = p /\ p \in online /\ w \in online
    BY <1>w
  <1>3. /\ body \in [Player -> Body \cup {Nil}] /\ body[p] \in Body /\ body[w] \in Body
        /\ offer[p] \subseteq body[p].items /\ offer[w] \subseteq body[w].items
    BY <1>1, <1>2, Playing, Typed, Constants DEF BInv
  <1>4. /\ b \in [Player -> Body \cup {Nil}] /\ b[p] \in Body /\ b[w] \in Body
        /\ b[p].items = body[p].items \ offer[p] /\ b[w].items = body[w].items \cup offer[p]
        /\ \A q \in Player \ {p, w} : b[q] = body[q]
    BY <1>1, <1>2, <1>3, Transfer
  <1> HIDE DEF b
  <1>5. /\ body' \in [Player -> Body \cup {Nil}] /\ body'[p] \in Body /\ body'[w] \in Body
        /\ body'[w].items = b[w].items \ offer[w] /\ body'[p].items = b[p].items \cup offer[w]
        /\ \A q \in Player \ {p, w} : body'[q] = b[q]
    <2>1. with[w] # Nil /\ w \in Player /\ b[with[w]] \in Body
      BY <1>2, <1>4, Constants
    <2>2. /\ Transferred(b, w) \in [Player -> Body \cup {Nil}]
          /\ Transferred(b, w)[w] \in Body /\ Transferred(b, w)[w].items = b[w].items \ offer[w]
          /\ Transferred(b, w)[with[w]] \in Body /\ Transferred(b, w)[with[w]].items = b[with[w]].items \cup offer[w]
          /\ \A q \in Player \ {w, with[w]} : Transferred(b, w)[q] = b[q]
      BY <1>4, <2>1, Transfer
    <2>3. QED BY <1>1, <1>2, <2>2
  <1>6. body'[p] # Nil /\ body'[w] # Nil /\ body[p] # Nil /\ body[w] # Nil
    BY <1>3, <1>5, Constants
  <1>7. P \in SUBSET Player /\ P = {p, with[p]} /\ with[p] # Nil
    BY <1>1, <1>2
  <1> HIDE DEF P
  <1>8. /\ with' \in [Player -> Player \cup {Nil}] /\ offer' \in [Player -> SUBSET Item]
        /\ stake' \in [Player -> Nat] /\ accepts' \in [Player -> BOOLEAN] /\ Alone'
    BY <1>1, <1>7, Clearing
  <1>9. TradeMutual'
    <2>1. \A q \in Player \ (P \cup {p}) : body'[q] = body[q] /\ (q \in online => q \in online')
      BY <1>1, <1>2, <1>4, <1>5, <1>7
    <2>2. QED BY <1>1, <1>7, <2>1, ClearedMutual
  <1>10. Agenda' /\ InTodo(p)' /\ InTodo(w)' /\ todo' \in Seq(Player \cup Item \cup {Auctions, Treasury})
    <2>1. DOMAIN todo' = {1, 2} /\ todo'[1] = w /\ todo'[2] = p
      BY <1>1
    <2>2. Player \cap Item = {}
      BY Constants
    <2>3. QED BY <1>1, <1>2, <1>6, <2>1, <2>2 DEF Agenda, InTodo
  <1>11. aucFile = auc /\ hoardFile = hoard /\ (\A q \in online : saved[q] = body[q]) /\ \A q \in Player \ online : body[q] = Nil
    BY <1>1, NobodyWaits, Typed DEF BInv, ToWrite, InTodo
  <1>12. ToWrite'
    <2>1. \A q \in Player : q \notin {p, w} => body'[q] = body[q]
      BY <1>4, <1>5
    <2>2. QED BY <1>1, <1>10, <1>11, <2>1 DEF ToWrite, disk
  <1>13. TypeOK'
    BY <1>1, <1>5, <1>8, <1>10, Typed DEF BInv, TypeOK, disk
  <1>14. Present' /\ Filed' /\ Parties'
    <2>1. \A q \in Player : body'[q] = Nil <=> body[q] = Nil
      BY <1>4, <1>5, <1>6
    <2>2. UNCHANGED <<online, auc, aucFile, saved>>
      BY <1>1 DEF disk
    <2>3. Present' /\ Filed'
      BY <2>1, <2>2, Typed DEF BInv, Present, Filed
    <2>4. QED BY <2>2, <2>3 DEF BInv, Parties
  <1>15. ASSUME Things1 PROVE Things1'
    <2> DEFINE A == offer[p]
               B == offer[w]
    <2>1. Now(p) = body[p] /\ Now(w) = body[w] /\ Now(p)' = body'[p] /\ Now(w)' = body'[w]
      BY <1>6 DEF Now
    <2>2. saved' = saved /\ auc' = auc
      BY <1>1 DEF disk
    <2>3. \A q \in Player \ {p, w} : Now(q)' = Now(q)
      BY <1>4, <1>5, <2>2 DEF Now
    <2>4. /\ \A q \in Player \ {p, w}, i \in Item : Owns(q, i)' <=> Owns(q, i)
          /\ \A i \in Item : /\ Owns(p, i)' <=> (Owns(p, i) /\ i \notin A) \/ i \in B
                             /\ Owns(w, i)' <=> (Owns(w, i) \/ i \in A) /\ i \notin B
                             /\ i \in A => Owns(p, i)
                             /\ i \in B => Owns(w, i)
      BY <1>3, <1>4, <1>5, <1>6, <2>1, <2>3 DEF Owns
    <2> HIDE DEF A, B
    <2>5. \A i \in Item : (\E q \in Player : Owns(q, i)') => \E q \in Player : Owns(q, i)
      BY <1>2, <2>4
    <2>6. \A i \in Item : (\E q \in Player : Owns(q, i)) => \E q \in Player : Owns(q, i)'
      BY <1>2, <1>15, <2>4 DEF Things1, Once
    <2>7. Once'
      <3>1. \A i \in Item : auc'[i] # Nil => \A q \in Player : ~Owns(q, i)'
        BY <1>15, <2>2, <2>5 DEF Things1, Once
      <3>2. ASSUME NEW i \in Item, NEW q \in Player, NEW r \in Player, Owns(q, i)', Owns(r, i)' PROVE q = r
        BY <1>2, <1>15, <2>4, <3>2 DEF Things1, Once
      <3>3. QED BY <3>1, <3>2 DEF Once
    <2>8. \A q \in Player : Now(q)' = Nil <=> Now(q) = Nil
      BY <1>6, <2>1, <2>3
    <2>9. Kept'
      BY <1>15, <2>2, <2>6, <2>8 DEF Things1, Kept
    <2>10. QED BY <2>7, <2>9 DEF Things1
  <1>16. QED BY <1>8, <1>9, <1>10, <1>12, <1>13, <1>14, <1>15 DEF BInv

-----------------------------------------------------------------------------
(* Files. *)

LEMMA NobodyIsLoaded ==
    ASSUME BInv, \A p \in Player : ~InTodo(p)
    PROVE  (\A p \in online : saved[p] = body[p]) /\ (\A p \in Player \ online : body[p] = Nil)
  BY Typed DEF BInv, ToWrite

\* The command goes on: the first thing it had to do is done.
LEMMA Rest ==
    ASSUME BInv, ~Idle
    PROVE  /\ Head(todo) \in Player \cup Item \cup {Auctions, Treasury} /\ 1 \in DOMAIN todo /\ todo[1] = Head(todo)
           /\ Tail(todo) \in Seq(Player \cup Item \cup {Auctions, Treasury})
           /\ \A k \in DOMAIN Tail(todo) : /\ k + 1 \in DOMAIN todo /\ Tail(todo)[k] = todo[k + 1] /\ todo[k + 1] # Head(todo)
                                           /\ Tail(todo)[Len(Tail(todo))] = todo[Len(todo)]
           /\ \A k \in DOMAIN todo : todo[k] # Head(todo) => k - 1 \in DOMAIN Tail(todo) /\ Tail(todo)[k - 1] = todo[k]
  <1>1. todo \in Seq(Player \cup Item \cup {Auctions, Treasury}) /\ todo # <<>>
    BY Typed DEF BInv, Idle
  <1>2. /\ Head(todo) \in Player \cup Item \cup {Auctions, Treasury} /\ 1 \in DOMAIN todo /\ todo[1] = Head(todo)
        /\ Tail(todo) \in Seq(Player \cup Item \cup {Auctions, Treasury})
        /\ Len(todo) \in Nat /\ Len(todo) > 0 /\ DOMAIN todo = 1 .. Len(todo)
        /\ Len(Tail(todo)) = Len(todo) - 1 /\ DOMAIN Tail(todo) = 1 .. (Len(todo) - 1)
        /\ \A k \in 1 .. (Len(todo) - 1) : Tail(todo)[k] = todo[k + 1]
    BY <1>1
  <1>3. ASSUME NEW k \in DOMAIN Tail(todo)
        PROVE  /\ k + 1 \in DOMAIN todo /\ Tail(todo)[k] = todo[k + 1] /\ todo[k + 1] # Head(todo)
               /\ Tail(todo)[Len(Tail(todo))] = todo[Len(todo)]
    <2>1. k + 1 \in DOMAIN todo /\ k + 1 # 1 /\ Tail(todo)[k] = todo[k + 1]
      BY <1>2
    <2>2. todo[k + 1] # todo[1]
      BY <1>2, <2>1 DEF BInv, Agenda
    <2>3. Len(todo) - 1 \in 1 .. (Len(todo) - 1) /\ (Len(todo) - 1) + 1 = Len(todo)
      BY <1>2
    <2>4. QED BY <1>2, <2>1, <2>2, <2>3
  <1>4. \A k \in DOMAIN todo : todo[k] # Head(todo) => k - 1 \in DOMAIN Tail(todo) /\ Tail(todo)[k - 1] = todo[k]
    <2>1. ASSUME NEW k \in DOMAIN todo, todo[k] # Head(todo)
          PROVE  k - 1 \in DOMAIN Tail(todo) /\ Tail(todo)[k - 1] = todo[k]
      <3>1. k # 1
        BY <1>2, <2>1
      <3>2. k - 1 \in 1 .. (Len(todo) - 1) /\ (k - 1) + 1 = k
        BY <1>2, <3>1
      <3>3. QED BY <1>2, <3>2
    <2>2. QED BY <2>1
  <1>5. QED BY <1>2, <1>3, <1>4

LEMMA RestAgenda ==
    ASSUME BInv, ~Idle, todo' = Tail(todo), NEW h, h = Head(todo),
           \A p \in Player \ {h} : body[p] # Nil => body'[p] # Nil,
           \A i \in Item \ {h} : auc[i] # Nil => auc'[i] # Nil
    PROVE  /\ Agenda' /\ todo' \in Seq(Player \cup Item \cup {Auctions, Treasury})
           /\ \A x : InTodo(x) /\ x # h => InTodo(x)'
  <1> DEFINE t == Tail(todo)
  <1>1. /\ t \in Seq(Player \cup Item \cup {Auctions, Treasury})
        /\ \A k \in DOMAIN t : k + 1 \in DOMAIN todo /\ t[k] = todo[k + 1] /\ t[k] # h /\ t[Len(t)] = todo[Len(todo)]
        /\ \A k \in DOMAIN todo : todo[k] # h => k - 1 \in DOMAIN t /\ t[k - 1] = todo[k]
        /\ \A k \in DOMAIN t : k \in Int
    BY Rest
  <1>2. todo' = t
    OBVIOUS
  <1> HIDE DEF t
  <1>3. \A x : InTodo(x) /\ x # h => InTodo(x)'
    <2>1. ASSUME NEW x, InTodo(x), x # h PROVE InTodo(x)'
      <3>1. PICK k \in DOMAIN todo : todo[k] = x
        BY <2>1 DEF InTodo
      <3>2. k - 1 \in DOMAIN t /\ t[k - 1] = x
        BY <1>1, <2>1, <3>1
      <3>3. QED BY <1>2, <3>2 DEF InTodo
    <2>2. QED BY <2>1
  <1>4. \A j, k \in DOMAIN t : t[j] = t[k] => j = k
    <2>1. ASSUME NEW j \in DOMAIN t, NEW k \in DOMAIN t, t[j] = t[k] PROVE j = k
      <3>1. j + 1 = k + 1
        BY <1>1, <2>1 DEF BInv, Agenda
      <3>2. QED BY <1>1, <3>1
    <2>2. QED BY <2>1
  <1>5. \A k \in DOMAIN t : t[k] \in Player => body'[t[k]] # Nil
    BY <1>1 DEF BInv, Agenda
  <1>6. \A k \in DOMAIN t : t[k] \in Item => auc'[t[k]] # Nil /\ t[Len(t)] = Auctions
    <2>1. ASSUME NEW k \in DOMAIN t, t[k] \in Item PROVE auc'[t[k]] # Nil /\ t[Len(t)] = Auctions
      <3>1. k + 1 \in DOMAIN todo /\ t[k] = todo[k + 1] /\ t[k] # h /\ t[Len(t)] = todo[Len(todo)]
        BY <1>1
      <3>2. auc[todo[k + 1]] # Nil /\ todo[Len(todo)] = Auctions
        BY <2>1, <3>1 DEF BInv, Agenda
      <3>3. QED BY <2>1, <3>1, <3>2
    <2>2. QED BY <2>1
  <1>7. \A j, k \in DOMAIN t : t[j] \in Item /\ t[k] \in Player => k < j
    <2>1. ASSUME NEW j \in DOMAIN t, NEW k \in DOMAIN t, t[j] \in Item, t[k] \in Player PROVE k < j
      <3>1. k + 1 < j + 1
        BY <1>1, <2>1 DEF BInv, Agenda
      <3>2. QED BY <1>1, <3>1
    <2>2. QED BY <2>1
  <1>8. Agenda'
    BY <1>2, <1>4, <1>5, <1>6, <1>7 DEF Agenda
  <1>9. QED BY <1>1, <1>2, <1>3, <1>8

LEMMA SaveCharKeeps ==
    ASSUME BInv, SaveChar
    PROVE  BInv' /\ (Things1 => Things1')
  <1>0. ~Idle /\ Head(todo) \in Player
    BY DEF SaveChar
  <1>h. PICK h \in Player : h = Head(todo)
    BY <1>0
  <1>1. /\ ~Idle /\ saved' = [saved EXCEPT ![h] = body[h]]
        /\ body' = IF h \in online THEN body ELSE [body EXCEPT ![h] = Nil]
        /\ todo' = Tail(todo) /\ UNCHANGED <<online, auc, aucFile, hoard, hoardFile, trade>>
    BY <1>h DEF SaveChar
  <1>2. body[h] # Nil
    BY <1>h, <1>1, Rest DEF BInv, Agenda
  <1>3. /\ body \in [Player -> Body \cup {Nil}] /\ saved \in [Player -> Body \cup {Nil}] /\ online \subseteq Player
    BY Typed DEF BInv
  <1>4. /\ body' \in [Player -> Body \cup {Nil}] /\ saved' \in [Player -> Body \cup {Nil}]
        /\ saved'[h] = body[h] /\ body'[h] = (IF h \in online THEN body[h] ELSE Nil)
        /\ \A q \in Player \ {h} : saved'[q] = saved[q] /\ body'[q] = body[q]
    BY <1>1, <1>3
  <1>5. /\ Agenda' /\ todo' \in Seq(Player \cup Item \cup {Auctions, Treasury})
        /\ \A x : InTodo(x) /\ x # h => InTodo(x)'
    BY <1>h, <1>1, <1>4, RestAgenda
  <1>6. TypeOK'
    BY <1>1, <1>4, <1>5, Typed DEF BInv, TypeOK, trade
  <1>7. Present' /\ Filed' /\ Alone'
    BY <1>1, <1>2, <1>3, <1>4 DEF BInv, Present, Filed, Alone, trade
  <1>8. TradeMutual'
    <2>1. \A q \in Player : with[q] # Nil => body'[q] = body[q]
      BY <1>4, Mutual
    <2>2. QED BY <1>1, <2>1 DEF BInv, TradeMutual, trade
  <1>9. Parties'
    <2>1. \A q \in Player : saved[q] # Nil => saved'[q] # Nil
      BY <1>2, <1>4
    <2>2. auc \in [Item -> Auction \cup {Nil}] /\ aucFile \in [Item -> Auction \cup {Nil}]
      BY Typed DEF BInv
    <2>3. \A a \in Auction : a.owner \in Player /\ (a.bidder # Nil => a.bidder \in Player)
      BY DEF Auction
    <2>4. Known(auc, saved') /\ Known(aucFile, saved')
      BY <2>1, <2>2, <2>3 DEF BInv, Parties, Known
    <2>5. QED BY <1>1, <2>4 DEF Parties
  <1>10. ToWrite'
    <2>1. h \notin {Auctions, Treasury}
      BY Constants
    <2>2. \A q \in Player \ {h} : (IF q \in online THEN saved'[q] # body'[q] ELSE body'[q] # Nil) => InTodo(q)'
      BY <1>4, <1>5 DEF BInv, ToWrite
    <2>3. (auc # aucFile => InTodo(Auctions)') /\ (hoard # hoardFile => InTodo(Treasury)')
      BY <1>5, <2>1 DEF BInv, ToWrite
    <2>4. QED BY <1>1, <1>4, <2>2, <2>3 DEF ToWrite
  <1>11. Things1 => Things1'
    <2>1. \A q \in Player : Now(q)' = Now(q)
      BY <1>2, <1>4 DEF Now
    <2>2. QED BY <1>1, <2>1, SameThings
  <1>12. QED BY <1>5, <1>6, <1>7, <1>8, <1>9, <1>10, <1>11 DEF BInv

LEMMA SaveFileKeeps ==
    ASSUME BInv, SaveAuctions \/ SaveTreasuries
    PROVE  BInv' /\ (Things1 => Things1')
  <1>0. /\ ~Idle /\ todo' = Tail(todo) /\ UNCHANGED <<body, online, saved, auc, hoard, trade>>
        /\ \/ Head(todo) = Auctions /\ aucFile' = auc /\ hoardFile' = hoardFile
           \/ Head(todo) = Treasury /\ aucFile' = aucFile /\ hoardFile' = hoard
    BY DEF SaveAuctions, SaveTreasuries
  <1>h. PICK h \in {Auctions, Treasury} : h = Head(todo)
    BY <1>0
  <1>1. /\ Agenda' /\ todo' \in Seq(Player \cup Item \cup {Auctions, Treasury})
        /\ \A x : InTodo(x) /\ x # h => InTodo(x)'
    BY <1>h, <1>0, RestAgenda
  <1>2. TypeOK'
    BY <1>0, <1>1, Typed DEF BInv, TypeOK, trade
  <1>3. Present' /\ Filed' /\ Alone' /\ Parties'
    BY <1>0 DEF BInv, Present, Filed, Alone, Parties, trade
  <1>4. TradeMutual'
    BY <1>0 DEF BInv, TradeMutual, trade
  <1>5. ToWrite'
    <2>1. \A q \in Player : q # h
      BY Constants
    <2>2. (aucFile' = auc \/ h # Auctions) /\ (hoardFile' = hoard \/ h # Treasury)
      BY <1>0, <1>h, Constants
    <2>3. QED BY <1>0, <1>1, <2>1, <2>2 DEF BInv, ToWrite
  <1>6. Things1 => Things1'
    BY <1>0, SameThings DEF Now
  <1>7. QED BY <1>1, <1>2, <1>3, <1>4, <1>5, <1>6 DEF BInv

-----------------------------------------------------------------------------
(* Auctions. *)

\* Whatever changes about the auctions that are on: the same are on as before.
LEMMA SaleKeeps ==
    ASSUME BInv, UNCHANGED <<body, online, saved, hoard, hoardFile, trade>>, Idle,
           auc' \in [Item -> Auction \cup {Nil}], aucFile' \in [Item -> Auction \cup {Nil}],
           \A i \in Item : auc'[i] = Nil <=> auc[i] = Nil,
           Known(auc', saved), Known(aucFile', saved),
           Agenda', todo' \in Seq(Player \cup Item \cup {Auctions, Treasury}), auc' # aucFile' => InTodo(Auctions)'
    PROVE  BInv' /\ (Things1 => Things1')
  <1>1. TypeOK'
    BY Typed DEF BInv, TypeOK, trade
  <1>2. Present' /\ Filed' /\ Alone' /\ Parties'
    BY DEF BInv, Present, Filed, Alone, Parties, trade
  <1>3. TradeMutual'
    BY DEF BInv, TradeMutual, trade
  <1>4. ToWrite'
    BY NobodyWaits DEF BInv, ToWrite, InTodo
  <1>5. Things1 => Things1'
    BY SameThings DEF Now
  <1>6. QED BY <1>1, <1>2, <1>3, <1>4, <1>5 DEF BInv

LEMMA BidKeeps ==
    ASSUME BInv, NEW p \in Player, NEW i \in Item, NEW n \in Amounts, Bid(p, i, n)
    PROVE  BInv' /\ (Things1 => Things1')
  <1> DEFINE l == IF auc[i].left <= 1 THEN auc[i].left + Extension ELSE auc[i].left
             new == [auc[i] EXCEPT !.bidder = p, !.amount = n, !.left = l]
  <1>1. /\ Idle /\ p \in online /\ auc[i] # Nil /\ auc[i].owner # p /\ auc' = [auc EXCEPT ![i] = new]
        /\ todo' = <<Auctions>> /\ UNCHANGED <<body, online, hoard, disk, trade>>
    BY DEF Bid
  <1>2. auc \in [Item -> Auction \cup {Nil}] /\ auc[i] \in Auction
    BY <1>1, Typed DEF BInv
  <1>3. l \in Nat
    BY <1>2, Constants DEF Auction
  <1> HIDE DEF l
  <1>4. new \in Auction /\ new.owner = auc[i].owner /\ new.bidder = p
    BY <1>2, <1>3, Constants DEF Auction
  <1> HIDE DEF new
  <1>5. auc' \in [Item -> Auction \cup {Nil}] /\ auc'[i] = new /\ new # Nil /\ \A j \in Item \ {i} : auc'[j] = auc[j]
    BY <1>1, <1>2, <1>4, Constants
  <1>6. Known(auc', saved)
    BY <1>1, <1>4, <1>5, Playing DEF BInv, Parties, Known
  <1>7. Agenda' /\ todo' \in Seq(Player \cup Item \cup {Auctions, Treasury}) /\ InTodo(Auctions)'
    <2>1. Short(p, todo') /\ body'[p] # Nil
      BY <1>1, Playing DEF Short
    <2>2. QED BY <1>1, <2>1, ShortAgenda
  <1>8. Known(aucFile, saved) /\ aucFile \in [Item -> Auction \cup {Nil}] /\ UNCHANGED <<aucFile, saved, hoardFile>>
    BY <1>1, Typed DEF BInv, Parties, disk
  <1>9. \A j \in Item : auc'[j] = Nil <=> auc[j] = Nil
    BY <1>1, <1>5
  <1>10. Known(aucFile', saved) /\ aucFile' \in [Item -> Auction \cup {Nil}]
    BY <1>8
  <1>11. QED BY <1>1, <1>5, <1>6, <1>7, <1>8, <1>9, <1>10, SaleKeeps

LEMMA Later ==
    ASSUME NEW n \in Nat
    PROVE  Max({0, n - 1}) \in Nat
  <1>1. \E x \in {0, n - 1} : \A y \in {0, n - 1} : x >= y
    OBVIOUS
  <1>2. Max({0, n - 1}) \in {0, n - 1} /\ \A y \in {0, n - 1} : Max({0, n - 1}) >= y
    BY <1>1 DEF Max
  <1>3. QED BY <1>2

LEMMA Ageing ==
    ASSUME NEW f \in [Item -> Auction \cup {Nil}]
    PROVE  /\ Aged(f) \in [Item -> Auction \cup {Nil}]
           /\ \A i \in Item : Aged(f)[i] = Nil <=> f[i] = Nil
           /\ \A s : Known(f, s) => Known(Aged(f), s)
  <1>1. ASSUME NEW i \in Item, f[i] # Nil
        PROVE  Aged(f)[i] \in Auction /\ Aged(f)[i].owner = f[i].owner /\ Aged(f)[i].bidder = f[i].bidder
    <2> DEFINE l == Max({0, f[i].left - 1})
    <2>1. f[i] \in Auction
      BY <1>1
    <2>2. l \in Nat
      BY <2>1, Later DEF Auction
    <2>3. Aged(f)[i] = [f[i] EXCEPT !.left = l]
      BY <1>1 DEF Aged
    <2> HIDE DEF l
    <2>4. QED BY <2>1, <2>2, <2>3 DEF Auction
  <1>2. \A i \in Item : f[i] = Nil => Aged(f)[i] = Nil
    BY DEF Aged
  <1>3. Aged(f) \in [Item -> Auction \cup {Nil}]
    <2>1. \A i \in Item : Aged(f)[i] \in Auction \cup {Nil}
      BY <1>1, <1>2
    <2>2. Aged(f) = [i \in Item |-> Aged(f)[i]]
      BY DEF Aged
    <2>3. QED BY <2>1, <2>2
  <1>4. \A i \in Item : Aged(f)[i] = Nil <=> f[i] = Nil
    BY <1>1, <1>2, Constants
  <1>5. \A s : Known(f, s) => Known(Aged(f), s)
    BY <1>1, <1>4 DEF Known
  <1>6. QED BY <1>3, <1>4, <1>5

\* What auc_update leaves to do: the auctions that are due, in some order, and the file.
LEMMA DueAgenda ==
    ASSUME NEW f \in [Item -> Auction \cup {Nil}], AucUpdate(f)
    PROVE  /\ Agenda' /\ todo' \in Seq(Player \cup Item \cup {Auctions, Treasury})
           /\ Due(f) # {} => InTodo(Auctions)'
  <1> DEFINE N == Cardinality(Due(f))
  <1>1. Due(f) \subseteq Item /\ IsFiniteSet(Due(f)) /\ N \in Nat /\ (Due(f) # {} => N # 0)
    <2>1. Due(f) \subseteq Item
      BY DEF Due
    <2>2. IsFiniteSet(Due(f))
      BY <2>1, Constants, FS_Subset
    <2>3. QED BY <2>1, <2>2, FS_CardinalityType, FS_EmptySet
  <1>2. auc' = f
    BY DEF AucUpdate
  <1>3. PICK s \in SetToSeqs(Due(f)) : todo' = IF s = <<>> THEN <<>> ELSE Append(s, Auctions)
    BY DEF AucUpdate
  <1>4. s \in [1 .. N -> Due(f)] /\ \A j, k \in 1 .. N : j # k => s[j] # s[k]
    BY <1>3 DEF SetToSeqs
  <1> HIDE DEF N
  <1>5. s \in Seq(Item) /\ Len(s) = N /\ DOMAIN s = 1 .. N
    BY <1>1, <1>4
  <1>6. CASE s = <<>>
    <2>1. N = 0 /\ todo' = <<>>
      BY <1>1, <1>3, <1>5, <1>6
    <2>2. Agenda'
      BY <2>1 DEF Agenda
    <2>3. QED BY <1>1, <2>1, <2>2
  <1>7. CASE s # <<>>
    <2>1. todo' = Append(s, Auctions)
      BY <1>3, <1>7
    <2>2. /\ Len(todo') = N + 1 /\ DOMAIN todo' = 1 .. (N + 1) /\ todo'[N + 1] = Auctions
          /\ \A k \in 1 .. N : todo'[k] = s[k]
      BY <1>1, <1>5, <2>1
    <2>3. todo' \in Seq(Player \cup Item \cup {Auctions, Treasury})
      <3>1. s \in Seq(Player \cup Item \cup {Auctions, Treasury})
        BY <1>5
      <3>2. QED BY <2>1, <3>1
    <2>4. \A k \in 1 .. (N + 1) : k \in 1 .. N \/ k = N + 1
      BY <1>1
    <2>5. \A k \in 1 .. N : todo'[k] \in Due(f) /\ todo'[k] \in Item /\ todo'[k] # Auctions /\ todo'[k] \notin Player
      BY <1>1, <1>4, <2>2, Constants
    <2>6. \A j, k \in 1 .. N : todo'[j] = todo'[k] => j = k
      BY <1>4, <2>2
    <2>7. \A j, k \in 1 .. (N + 1) : todo'[j] = todo'[k] => j = k
      BY <2>2, <2>4, <2>5, <2>6
    <2>8. \A k \in 1 .. (N + 1) : todo'[k] \notin Player
      BY <2>2, <2>4, <2>5, Constants
    <2>9. \A k \in 1 .. (N + 1) : todo'[k] \in Item => auc'[todo'[k]] # Nil /\ todo'[Len(todo')] = Auctions
      BY <1>2, <2>2, <2>4, <2>5, Constants DEF Due
    <2>10. Agenda'
      BY <2>2, <2>7, <2>8, <2>9 DEF Agenda
    <2>11. InTodo(Auctions)'
      <3>1. N + 1 \in DOMAIN todo'
        BY <1>1, <2>2
      <3>2. QED BY <2>2, <3>1 DEF InTodo
    <2>12. QED BY <2>3, <2>10, <2>11
  <1>8. QED BY <1>6, <1>7

LEMMA UpdateKeeps ==
    ASSUME BInv, Tick \/ \E i \in Item : ForceEnd(i)
    PROVE  BInv' /\ (Things1 => Things1')
  <1>1. /\ auc \in [Item -> Auction \cup {Nil}] /\ aucFile \in [Item -> Auction \cup {Nil}]
        /\ Known(auc, saved) /\ Known(aucFile, saved)
    BY Typed DEF BInv, Parties
  <1>2. CASE Tick
    <2>1. /\ Idle /\ AucUpdate(Aged(auc)) /\ auc' = Aged(auc) /\ aucFile' = Aged(aucFile)
          /\ UNCHANGED <<body, online, saved, hoard, hoardFile, trade>>
      BY <1>2 DEF Tick, AucUpdate
    <2>2. /\ auc' \in [Item -> Auction \cup {Nil}] /\ aucFile' \in [Item -> Auction \cup {Nil}]
          /\ \A i \in Item : auc'[i] = Nil <=> auc[i] = Nil
          /\ Known(auc', saved) /\ Known(aucFile', saved)
      BY <1>1, <2>1, Ageing
    <2>3. Agenda' /\ todo' \in Seq(Player \cup Item \cup {Auctions, Treasury})
      BY <2>1, <2>2, DueAgenda
    <2>4. auc' = aucFile'
      BY <2>1, NobodyWaits DEF BInv, ToWrite, InTodo
    <2>5. QED BY <2>1, <2>2, <2>3, <2>4, SaleKeeps
  <1>3. ASSUME NEW i \in Item, ForceEnd(i) PROVE BInv' /\ (Things1 => Things1')
    <2> DEFINE new == [auc[i] EXCEPT !.left = 0]
               f == [auc EXCEPT ![i] = new]
    <2>1. Idle /\ auc[i] # Nil /\ AucUpdate(f) /\ auc' = f /\ UNCHANGED <<body, online, hoard, disk, trade>>
      BY <1>3 DEF ForceEnd, AucUpdate
    <2>2. new \in Auction /\ new.owner = auc[i].owner /\ new.bidder = auc[i].bidder /\ new.left = 0 /\ new # Nil
      BY <1>1, <2>1, Constants DEF Auction
    <2> HIDE DEF new
    <2>3. f \in [Item -> Auction \cup {Nil}] /\ f[i] = new /\ \A j \in Item \ {i} : f[j] = auc[j]
      BY <1>1, <2>2
    <2> HIDE DEF f
    <2>4. i \in Due(f)
      BY <2>2, <2>3 DEF Due
    <2>5. Agenda' /\ todo' \in Seq(Player \cup Item \cup {Auctions, Treasury}) /\ InTodo(Auctions)'
      BY <2>1, <2>3, <2>4, DueAgenda
    <2>6. Known(f, saved) /\ \A j \in Item : f[j] = Nil <=> auc[j] = Nil
      BY <1>1, <2>1, <2>2, <2>3 DEF Known
    <2>7. UNCHANGED <<saved, aucFile, hoardFile>>
      BY <2>1 DEF disk
    <2>8. Known(auc', saved) /\ Known(aucFile', saved) /\ auc' \in [Item -> Auction \cup {Nil}] /\ aucFile' \in [Item -> Auction \cup {Nil}]
          /\ \A j \in Item : auc'[j] = Nil <=> auc[j] = Nil
      BY <1>1, <2>1, <2>3, <2>6, <2>7
    <2>9. QED BY <2>1, <2>5, <2>7, <2>8, SaleKeeps
  <1>4. QED BY <1>2, <1>3

\* The first of todo, and then the rest.
LEMMA GivenAgenda ==
    ASSUME NEW s \in Seq(Player), NEW r \in Seq(Player \cup Item \cup {Auctions, Treasury}), todo' = s \o r,
           \A j, k \in DOMAIN s : s[j] = s[k] => j = k,
           \A k \in DOMAIN s : body'[s[k]] # Nil,
           \A j, k \in DOMAIN r : r[j] = r[k] => j = k,
           \A k \in DOMAIN r : r[k] \notin Player,
           \A k \in DOMAIN r : r[k] \in Item => auc'[r[k]] # Nil,
           Len(r) # 0, r[Len(r)] = Auctions
    PROVE  /\ Agenda' /\ todo' \in Seq(Player \cup Item \cup {Auctions, Treasury}) /\ InTodo(Auctions)'
           /\ \A k \in DOMAIN s : InTodo(s[k])'
           /\ \A k \in DOMAIN r : InTodo(r[k])'
  <1> DEFINE n == Len(s)
             m == Len(r)
  <1>1. /\ n \in Nat /\ m \in Nat /\ DOMAIN s = 1 .. n /\ DOMAIN r = 1 .. m
        /\ Len(todo') = n + m /\ DOMAIN todo' = 1 .. (n + m)
        /\ \A k \in 1 .. n : todo'[k] = s[k]
        /\ \A k \in 1 .. m : todo'[n + k] = r[k]
        /\ todo' \in Seq(Player \cup Item \cup {Auctions, Treasury})
    OBVIOUS
  <1> HIDE DEF n, m
  <1>2. \A k \in 1 .. (n + m) : k \in 1 .. n \/ (k - n \in 1 .. m /\ n + (k - n) = k)
    BY <1>1
  <1>3. \A k \in 1 .. (n + m) : \/ k \in 1 .. n /\ todo'[k] = s[k] /\ todo'[k] \in Player
                                \/ k - n \in 1 .. m /\ todo'[k] = r[k - n] /\ todo'[k] \notin Player
    <2>1. ASSUME NEW k \in 1 .. (n + m)
          PROVE  \/ k \in 1 .. n /\ todo'[k] = s[k] /\ todo'[k] \in Player
                 \/ k - n \in 1 .. m /\ todo'[k] = r[k - n] /\ todo'[k] \notin Player
      <3>1. CASE k \in 1 .. n
        BY <1>1, <3>1
      <3>2. CASE k - n \in 1 .. m /\ n + (k - n) = k
        <4>1. todo'[k] = r[k - n]
          BY <1>1, <3>2
        <4>2. QED BY <1>1, <3>2, <4>1
      <3>3. QED BY <1>2, <3>1, <3>2
    <2>2. QED BY <2>1
  <1>4. \A j, k \in 1 .. (n + m) : todo'[j] = todo'[k] => j = k
    <2>1. ASSUME NEW j \in 1 .. (n + m), NEW k \in 1 .. (n + m), todo'[j] = todo'[k] PROVE j = k
      <3>1. CASE j \in 1 .. n /\ todo'[j] = s[j] /\ todo'[j] \in Player
        BY <1>1, <1>3, <2>1, <3>1
      <3>2. CASE j - n \in 1 .. m /\ todo'[j] = r[j - n] /\ todo'[j] \notin Player
        <4>1. k - n \in 1 .. m /\ todo'[k] = r[k - n]
          BY <1>3, <2>1, <3>2
        <4>2. j - n = k - n
          BY <1>1, <2>1, <3>2, <4>1
        <4>3. QED BY <1>1, <4>2
      <3>3. QED BY <1>3, <3>1, <3>2
    <2>2. QED BY <2>1
  <1>5. todo'[n + m] = Auctions /\ n + m \in DOMAIN todo'
    BY <1>1 DEF m
  <1>6. \A k \in 1 .. (n + m) : todo'[k] \in Player => body'[todo'[k]] # Nil
    BY <1>1, <1>3
  <1>7. \A k \in 1 .. (n + m) : todo'[k] \in Item => auc'[todo'[k]] # Nil
    <2>1. \A x \in Player : x \notin Item
      BY Constants
    <2>2. ASSUME NEW k \in 1 .. (n + m), todo'[k] \in Item PROVE auc'[todo'[k]] # Nil
      <3>1. k - n \in DOMAIN r /\ todo'[k] = r[k - n]
        BY <1>1, <1>3, <2>1, <2>2
      <3>2. QED BY <2>2, <3>1
    <2>3. QED BY <2>2
  <1>8. \A j, k \in 1 .. (n + m) : todo'[j] \in Item /\ todo'[k] \in Player => k < j
    <2>1. ASSUME NEW j \in 1 .. (n + m), NEW k \in 1 .. (n + m), todo'[j] \in Item, todo'[k] \in Player PROVE k < j
      <3>1. todo'[j] \notin Player
        BY <2>1, Constants
      <3>2. k \in 1 .. n /\ j - n \in 1 .. m
        BY <1>3, <2>1, <3>1
      <3>3. QED BY <1>1, <3>2
    <2>2. QED BY <2>1
  <1>9. Agenda'
    BY <1>1, <1>4, <1>5, <1>6, <1>7, <1>8 DEF Agenda
  <1>10. InTodo(Auctions)'
    BY <1>5 DEF InTodo
  <1>11. ASSUME NEW k \in DOMAIN s PROVE InTodo(s[k])'
    <2>1. k \in DOMAIN todo' /\ todo'[k] = s[k]
      BY <1>1
    <2>2. QED BY <2>1 DEF InTodo
  <1>12. ASSUME NEW k \in DOMAIN r PROVE InTodo(r[k])'
    <2>1. n + k \in DOMAIN todo' /\ todo'[n + k] = r[k]
      BY <1>1
    <2>2. QED BY <2>1 DEF InTodo
  <1>13. QED BY <1>1, <1>9, <1>10, <1>11, <1>12

\* Whom the item goes to, and who is paid for it.
LEMMA Settling ==
    ASSUME BInv, NEW i \in Item, auc[i] # Nil, NEW w \in Player, w \in {auc[i].owner, auc[i].bidder},
           body' = Settled(i, w)
    PROVE  /\ Now(w) # Nil /\ Now(auc[i].owner) # Nil /\ auc[i].owner \in Player /\ auc[i].bidder # auc[i].owner
           /\ body' \in [Player -> Body \cup {Nil}]
           /\ body'[w] \in Body /\ body'[w].items = Now(w).items \cup {i}
           /\ w = auc[i].bidder => body'[auc[i].owner] \in Body /\ body'[auc[i].owner].items = Now(auc[i].owner).items
           /\ \A q \in Player : q = w \/ (w = auc[i].bidder /\ q = auc[i].owner) \/ body'[q] = body[q]
  <1>0. w # Nil
    BY Constants
  <1>1. /\ auc[i] \in Auction /\ saved[auc[i].owner] # Nil /\ auc[i].bidder # auc[i].owner /\ saved[w] # Nil
    BY <1>0, Typed DEF BInv, Parties, Known
  <1>o. PICK o \in Player : o = auc[i].owner
    BY <1>1 DEF Auction
  <1>d. PICK d : d = auc[i].bidder
    OBVIOUS
  <1>k. PICK k \in {"bank", "qp"} : k = auc[i].kind
    BY <1>1, Constants DEF Auction
  <1>m. PICK m \in Nat : m = auc[i].amount
    BY <1>1 DEF Auction
  <1>2. /\ body \in [Player -> Body \cup {Nil}] /\ saved \in [Player -> Body \cup {Nil}]
    BY Typed DEF BInv
  <1>3. Now(w) \in Body /\ Now(o) \in Body /\ Now(w) # Nil /\ Now(o) # Nil /\ o # d
    BY <1>1, <1>o, <1>d, <1>2, Constants DEF Now
  <1> DEFINE x1 == Take(Now(w), {i})
             x2 == Gain(x1, k, -m)
             y == Gain(Now(o), k, m)
  <1>4. body' = [p \in Player |-> IF p = w /\ w = d THEN x2
                                  ELSE IF p = w THEN x1
                                  ELSE IF w = d /\ p = o THEN y
                                  ELSE body[p]]
    BY <1>o, <1>d, <1>k, <1>m, <1>3 DEF Settled
  <1>5. m \in Int /\ -m \in Int
    BY <1>m
  <1>6. x1 \in Body /\ x1.items = Now(w).items \cup {i}
    BY <1>3, Things
  <1> HIDE DEF x1
  <1>7. x2 \in Body /\ x2.items = x1.items
    BY <1>5, <1>6, Gains
  <1> HIDE DEF x2
  <1>8. y \in Body /\ y.items = Now(o).items
    BY <1>3, <1>5, Gains
  <1> HIDE DEF y
  <1>9. body' \in [Player -> Body \cup {Nil}]
    BY <1>2, <1>4, <1>6, <1>7, <1>8
  <1>10. body'[w] \in Body /\ body'[w].items = Now(w).items \cup {i}
    BY <1>4, <1>6, <1>7
  <1>11. w = d => body'[o] \in Body /\ body'[o].items = Now(o).items
    BY <1>3, <1>4, <1>8
  <1>12. \A q \in Player : q = w \/ (w = d /\ q = o) \/ body'[q] = body[q]
    BY <1>4
  <1>13. QED BY <1>o, <1>d, <1>3, <1>9, <1>10, <1>11, <1>12

\* An auction is over, and nobody is waiting to be saved.
LEMMA GiveKeeps ==
    ASSUME BInv, NEW i \in Item, auc[i] # Nil, NEW w \in Player, w \in {auc[i].owner, auc[i].bidder},
           NEW r \in Seq(Player \cup Item \cup {Auctions, Treasury}), Give(i, w, r),
           \A p \in Player : ~InTodo(p),
           \A j, k \in DOMAIN r : r[j] = r[k] => j = k,
           \A k \in DOMAIN r : r[k] \notin Player /\ (r[k] \in Item => r[k] # i /\ auc[r[k]] # Nil),
           Len(r) # 0, r[Len(r)] = Auctions,
           hoard # hoardFile => \E k \in DOMAIN r : r[k] = Treasury
    PROVE  BInv' /\ (Things1 => Things1')
  <1>0. w # Nil
    BY Constants
  <1>1. Now(w) # Nil
    <2>1. saved[w] # Nil
      BY <1>0 DEF BInv, Parties, Known
    <2>2. QED BY <2>1 DEF Now
  <1>2. /\ body' = Settled(i, w) /\ todo' = ToSave(i, w) \o r /\ auc' = [auc EXCEPT ![i] = Nil]
        /\ UNCHANGED <<online, hoard, disk, trade>>
    BY <1>1 DEF Give
  <1>3. /\ Now(auc[i].owner) # Nil /\ auc[i].owner \in Player /\ auc[i].bidder # auc[i].owner
        /\ body' \in [Player -> Body \cup {Nil}]
        /\ body'[w] \in Body /\ body'[w].items = Now(w).items \cup {i}
        /\ w = auc[i].bidder => body'[auc[i].owner] \in Body /\ body'[auc[i].owner].items = Now(auc[i].owner).items
        /\ \A q \in Player : q = w \/ (w = auc[i].bidder /\ q = auc[i].owner) \/ body'[q] = body[q]
    BY <1>2, Settling
  <1>4. \E s \in Seq(Player) :
           /\ todo' = s \o r /\ \A j, k \in DOMAIN s : s[j] = s[k] => j = k
           /\ \E k \in DOMAIN s : s[k] = w
           /\ \A k \in DOMAIN s : body'[s[k]] \in Body /\ saved[s[k]] # Nil
                                  /\ body'[s[k]].items = Now(s[k]).items \cup (IF s[k] = w THEN {i} ELSE {})
           /\ \A q \in Player : (\E k \in DOMAIN s : s[k] = q) \/ body'[q] = body[q]
    <2>0. saved[w] # Nil /\ saved[auc[i].owner] # Nil
      BY <1>0 DEF BInv, Parties, Known
    <2>1. CASE w = auc[i].bidder
      <3>o. PICK o \in Player : o = auc[i].owner
        BY <1>3
      <3> DEFINE s == <<w, o>>
      <3>1. s \in Seq(Player) /\ DOMAIN s = {1, 2} /\ s[1] = w /\ s[2] = o
        OBVIOUS
      <3>2. todo' = s \o r /\ o # w
        BY <1>2, <1>3, <2>1, <3>o DEF ToSave
      <3> HIDE DEF s
      <3>3. \A j, k \in DOMAIN s : s[j] = s[k] => j = k
        BY <3>1, <3>2
      <3>4. \A k \in DOMAIN s : body'[s[k]] \in Body /\ saved[s[k]] # Nil
                                /\ body'[s[k]].items = Now(s[k]).items \cup (IF s[k] = w THEN {i} ELSE {})
        BY <1>3, <2>0, <2>1, <3>o, <3>1, <3>2
      <3>5. \A q \in Player : (\E k \in DOMAIN s : s[k] = q) \/ body'[q] = body[q]
        BY <1>3, <3>o, <3>1
      <3>6. QED BY <3>1, <3>2, <3>3, <3>4, <3>5
    <2>2. CASE w # auc[i].bidder
      <3> DEFINE s == <<w>>
      <3>1. s \in Seq(Player) /\ DOMAIN s = {1} /\ s[1] = w
        OBVIOUS
      <3>2. todo' = s \o r
        BY <1>2, <2>2 DEF ToSave
      <3> HIDE DEF s
      <3>3. \A j, k \in DOMAIN s : s[j] = s[k] => j = k
        BY <3>1, <3>2
      <3>4. \A k \in DOMAIN s : body'[s[k]] \in Body /\ saved[s[k]] # Nil
                                /\ body'[s[k]].items = Now(s[k]).items \cup (IF s[k] = w THEN {i} ELSE {})
        BY <1>3, <2>0, <3>1
      <3>5. \A q \in Player : (\E k \in DOMAIN s : s[k] = q) \/ body'[q] = body[q]
        BY <1>3, <2>2, <3>1
      <3>6. QED BY <3>1, <3>2, <3>3, <3>4, <3>5
    <2>3. QED BY <2>1, <2>2
  <1>5. PICK s \in Seq(Player) :
           /\ todo' = s \o r /\ \A j, k \in DOMAIN s : s[j] = s[k] => j = k
           /\ \E k \in DOMAIN s : s[k] = w
           /\ \A k \in DOMAIN s : body'[s[k]] \in Body /\ saved[s[k]] # Nil
                                  /\ body'[s[k]].items = Now(s[k]).items \cup (IF s[k] = w THEN {i} ELSE {})
           /\ \A q \in Player : (\E k \in DOMAIN s : s[k] = q) \/ body'[q] = body[q]
    BY <1>4
  <1>6. auc \in [Item -> Auction \cup {Nil}] /\ auc' \in [Item -> Auction \cup {Nil}] /\ auc'[i] = Nil
        /\ \A j \in Item \ {i} : auc'[j] = auc[j]
    BY <1>2, Typed DEF BInv
  <1>7. /\ Agenda' /\ todo' \in Seq(Player \cup Item \cup {Auctions, Treasury}) /\ InTodo(Auctions)'
        /\ \A k \in DOMAIN s : InTodo(s[k])'
        /\ \A k \in DOMAIN r : InTodo(r[k])'
    <2>1. \A k \in DOMAIN s : body'[s[k]] # Nil
      BY <1>5, Constants
    <2>2. \A k \in DOMAIN r : r[k] \in Item => auc'[r[k]] # Nil
      BY <1>6
    <2>3. todo' = s \o r /\ \A j, k \in DOMAIN s : s[j] = s[k] => j = k
      BY <1>5
    <2>4. QED BY <2>1, <2>2, <2>3, GivenAgenda
  <1>8. TypeOK'
    BY <1>2, <1>3, <1>6, <1>7, Typed DEF BInv, TypeOK, disk, trade
  <1>9. \A q \in Player : \/ body'[q] = body[q]
                          \/ body'[q] \in Body /\ body'[q] # Nil /\ saved[q] # Nil /\ Now(q) # Nil /\ InTodo(q)'
                             /\ body'[q].items = Now(q).items \cup (IF q = w THEN {i} ELSE {})
    <2>1. ASSUME NEW q \in Player, NEW k \in DOMAIN s, s[k] = q
          PROVE  body'[q] \in Body /\ body'[q] # Nil /\ saved[q] # Nil /\ Now(q) # Nil /\ InTodo(q)'
                 /\ body'[q].items = Now(q).items \cup (IF q = w THEN {i} ELSE {})
      <3>1. body'[q] \in Body /\ saved[q] # Nil /\ body'[q].items = Now(q).items \cup (IF q = w THEN {i} ELSE {})
        BY <1>5, <2>1
      <3>2. Now(q) # Nil
        BY <3>1 DEF Now
      <3>3. InTodo(q)'
        BY <1>7, <2>1
      <3>4. QED BY <3>1, <3>2, <3>3, Constants
    <2>2. QED BY <1>5, <2>1
  <1>10. UNCHANGED <<online, hoard, saved, aucFile, hoardFile, with, offer, stake, accepts>>
    BY <1>2 DEF disk, trade
  <1>11. Present' /\ Filed' /\ Alone'
    <2>1. online \subseteq Player
      BY Typed DEF BInv
    <2>2. QED BY <1>9, <1>10, <2>1 DEF BInv, Present, Filed, Alone
  <1>12. TradeMutual'
    <2>1. ASSUME NEW q \in Player, with[q] # Nil PROVE offer[q] \subseteq body'[q].items
      <3>1. q \in online /\ offer[q] \subseteq body[q].items
        BY <2>1, Mutual
      <3>2. Now(q) = body[q]
        BY <3>1 DEF BInv, Present, Now
      <3>3. QED BY <1>9, <3>1, <3>2
    <2>2. QED BY <1>10, <2>1 DEF BInv, TradeMutual
  <1>13. Parties'
    <2>1. Known(auc', saved)
      BY <1>6 DEF BInv, Parties, Known
    <2>2. QED BY <1>10, <2>1 DEF BInv, Parties
  <1>14. ToWrite'
    <2>1. hoard # hoardFile => InTodo(Treasury)'
      BY <1>7
    <2>2. \A q \in Player : (IF q \in online THEN saved[q] # body'[q] ELSE body'[q] # Nil) => InTodo(q)'
      BY <1>9, NobodyIsLoaded
    <2>3. QED BY <1>7, <1>10, <2>1, <2>2 DEF ToWrite
  <1>15. ASSUME Things1 PROVE Things1'
    <2>1. ASSUME NEW q \in Player
          PROVE  (Now(q)' = Nil <=> Now(q) = Nil) /\ \A j \in Item : Owns(q, j)' <=> Owns(q, j) \/ (q = w /\ j = i)
      <3>1. CASE body'[q] = body[q]
        <4>1. Now(q)' = Now(q)
          BY <1>10, <3>1 DEF Now
        <4>2. q = w => body[q] # Nil /\ Now(q) = body[q] /\ i \in body[q].items
          <5>1. q = w => body'[q] \in Body /\ i \in body'[q].items
            BY <1>3
          <5>2. QED BY <3>1, <5>1, Constants DEF Now
        <4>3. QED BY <4>1, <4>2 DEF Owns
      <3>2. CASE body'[q] # Nil /\ Now(q) # Nil /\ body'[q].items = Now(q).items \cup (IF q = w THEN {i} ELSE {})
        <4>1. Now(q)' = body'[q]
          BY <3>2 DEF Now
        <4>2. QED BY <3>2, <4>1 DEF Owns
      <3>3. QED BY <1>9, <3>1, <3>2
    <2>2. Once'
      BY <1>6, <1>15, <2>1 DEF Things1, Once
    <2>3. Kept'
      <3>1. ASSUME NEW j \in Item, \A q \in Player : ~Owns(q, j)', auc'[j] = Nil
            PROVE  j \in Token \/ \E q \in Player : Now(q)' = Nil
        <4>1. j # i
          BY <2>1, <3>1
        <4>2. (\A q \in Player : ~Owns(q, j)) /\ auc[j] = Nil
          BY <1>6, <2>1, <3>1, <4>1
        <4>3. QED BY <1>15, <2>1, <4>2 DEF Things1, Kept
      <3>2. QED BY <3>1 DEF Kept
    <2>4. QED BY <2>2, <2>3 DEF Things1
  <1>16. QED BY <1>7, <1>8, <1>11, <1>12, <1>13, <1>14, <1>15 DEF BInv

LEMMA EndKeeps ==
    ASSUME BInv, End
    PROVE  BInv' /\ (Things1 => Things1')
  <1>0. ~Idle /\ Head(todo) \in Item /\ Give(Head(todo), Winner(auc[Head(todo)]), Tail(todo))
    BY DEF End
  <1>i. PICK i \in Item : i = Head(todo)
    BY <1>0
  <1>1. /\ 1 \in DOMAIN todo /\ todo[1] = i
        /\ Tail(todo) \in Seq(Player \cup Item \cup {Auctions, Treasury})
        /\ \A k \in DOMAIN Tail(todo) : /\ k + 1 \in DOMAIN todo /\ Tail(todo)[k] = todo[k + 1] /\ todo[k + 1] # i
                                        /\ Tail(todo)[Len(Tail(todo))] = todo[Len(todo)]
        /\ \A k \in DOMAIN todo : todo[k] # i => k - 1 \in DOMAIN Tail(todo) /\ Tail(todo)[k - 1] = todo[k]
    BY <1>0, <1>i, Rest
  <1>2. /\ auc[i] # Nil /\ todo[Len(todo)] = Auctions
        /\ \A j, k \in DOMAIN todo : todo[j] = todo[k] => j = k
        /\ \A k \in DOMAIN todo : todo[k] \in Item => auc[todo[k]] # Nil
        /\ \A k \in DOMAIN todo : todo[k] \in Player => k < 1
    BY <1>1 DEF BInv, Agenda
  <1>3. todo \in Seq(Player \cup Item \cup {Auctions, Treasury}) /\ \A k \in DOMAIN todo : k \in Int /\ k >= 1 /\ Len(todo) \in DOMAIN todo
    BY Typed DEF BInv
  <1>4. \A k \in DOMAIN todo : todo[k] \notin Player
    BY <1>2, <1>3
  <1>r. PICK r \in Seq(Player \cup Item \cup {Auctions, Treasury}) : r = Tail(todo)
    BY <1>1
  <1>5. auc[i] \in Auction
    BY <1>2, Typed DEF BInv
  <1>w. PICK w \in Player : w = Winner(auc[i]) /\ w \in {auc[i].owner, auc[i].bidder}
    BY <1>5 DEF Winner, Auction
  <1>6. Give(i, w, r)
    BY <1>0, <1>i, <1>r, <1>w
  <1>7. \A j, k \in DOMAIN r : r[j] = r[k] => j = k
    <2>1. ASSUME NEW j \in DOMAIN r, NEW k \in DOMAIN r, r[j] = r[k] PROVE j = k
      <3>1. j + 1 = k + 1 /\ j \in Int /\ k \in Int
        BY <1>1, <1>2, <1>r, <2>1
      <3>2. QED BY <3>1
    <2>2. QED BY <2>1
  <1>8. \A k \in DOMAIN r : r[k] \notin Player /\ (r[k] \in Item => r[k] # i /\ auc[r[k]] # Nil)
    BY <1>1, <1>2, <1>4, <1>r
  <1>9. Len(r) # 0 /\ r[Len(r)] = Auctions
    <2>1. Len(todo) \in DOMAIN todo /\ todo[Len(todo)] # i
      BY <1>1, <1>2, <1>3, Constants
    <2>2. Len(todo) - 1 \in DOMAIN r
      BY <1>1, <1>r, <2>1
    <2>3. QED BY <1>1, <1>2, <1>r, <2>2
  <1>10. hoard # hoardFile => \E k \in DOMAIN r : r[k] = Treasury
    <2>1. ASSUME NEW k \in DOMAIN todo, todo[k] = Treasury PROVE \E l \in DOMAIN r : r[l] = Treasury
      <3>1. k - 1 \in DOMAIN r /\ r[k - 1] = Treasury
        BY <1>1, <1>r, <2>1, Constants
      <3>2. QED BY <3>1
    <2>2. QED BY <2>1 DEF BInv, ToWrite, InTodo
  <1>11. \A p \in Player : ~InTodo(p)
    BY <1>4 DEF InTodo
  <1>12. QED BY <1>2, <1>6, <1>7, <1>8, <1>9, <1>10, <1>11, <1>w, GiveKeeps

LEMMA CancelKeeps ==
    ASSUME BInv, NEW i \in Item, Cancel(i)
    PROVE  BInv' /\ (Things1 => Things1')
  <1>1. Idle /\ auc[i] # Nil /\ Give(i, auc[i].owner, <<Auctions>>)
    BY DEF Cancel
  <1>2. auc[i] \in Auction
    BY <1>1, Typed DEF BInv
  <1>w. PICK w \in Player : w = auc[i].owner
    BY <1>2 DEF Auction
  <1> DEFINE r == <<Auctions>>
  <1>3. r \in Seq(Player \cup Item \cup {Auctions, Treasury}) /\ DOMAIN r = {1} /\ Len(r) = 1 /\ r[1] = Auctions /\ Give(i, w, r)
    BY <1>1, <1>w
  <1> HIDE DEF r
  <1>4. \A p \in Player : ~InTodo(p)
    BY <1>1, NobodyWaits DEF InTodo
  <1>5. hoard = hoardFile
    BY <1>1, NobodyWaits DEF BInv, ToWrite, InTodo
  <1>6. /\ \A j, k \in DOMAIN r : r[j] = r[k] => j = k
        /\ \A k \in DOMAIN r : r[k] \notin Player /\ (r[k] \in Item => r[k] # i /\ auc[r[k]] # Nil)
        /\ Len(r) # 0 /\ r[Len(r)] = Auctions
    BY <1>3, Constants
  <1>7. QED BY <1>1, <1>3, <1>4, <1>5, <1>6, <1>w, GiveKeeps, ZenonT(40)

-----------------------------------------------------------------------------
(* Coming and going. *)

LEMMA Leisure ==
    ASSUME BInv, Idle
    PROVE  /\ aucFile = auc /\ hoardFile = hoard
           /\ \A q \in online : saved[q] = body[q]
           /\ \A q \in Player \ online : body[q] = Nil
           /\ \A q \in Player : Now(q) = saved[q]
  <1>1. aucFile = auc /\ hoardFile = hoard /\ (\A q \in online : saved[q] = body[q]) /\ \A q \in Player \ online : body[q] = Nil
    BY NobodyWaits, Typed DEF BInv, ToWrite, InTodo
  <1>2. QED BY <1>1 DEF Now

LEMMA NothingToDo ==
    ASSUME todo' = <<>>
    PROVE  Agenda' /\ todo' \in Seq(Player \cup Item \cup {Auctions, Treasury})
  BY DEF Agenda

LEMMA EnterKeeps ==
    ASSUME BInv, NEW p \in Player, Enter(p)
    PROVE  BInv' /\ (Things1 => Things1')
  <1>1. /\ Idle /\ p \notin online /\ saved[p] # Nil /\ online' = online \cup {p} /\ body' = [body EXCEPT ![p] = saved[p]]
        /\ UNCHANGED <<auc, hoard, disk, trade, todo>> /\ todo' = <<>>
    BY DEF Enter, Idle
  <1>2. body \in [Player -> Body \cup {Nil}] /\ saved \in [Player -> Body \cup {Nil}] /\ online \subseteq Player
    BY Typed DEF BInv
  <1>3. body' \in [Player -> Body \cup {Nil}] /\ body'[p] = saved[p] /\ \A q \in Player \ {p} : body'[q] = body[q]
    BY <1>1, <1>2
  <1>4. UNCHANGED <<auc, aucFile, hoard, hoardFile, saved, with, offer, stake, accepts>>
    BY <1>1 DEF disk, trade
  <1>5. /\ aucFile = auc /\ hoardFile = hoard /\ (\A q \in online : saved[q] = body[q])
        /\ (\A q \in Player \ online : body[q] = Nil) /\ \A q \in Player : Now(q) = saved[q]
    BY <1>1, Leisure
  <1>6. Agenda' /\ todo' \in Seq(Player \cup Item \cup {Auctions, Treasury})
    BY <1>1, NothingToDo
  <1>7. TypeOK'
    BY <1>1, <1>2, <1>3, <1>4, <1>6, Typed DEF BInv, TypeOK
  <1>8. Present' /\ Filed' /\ Alone' /\ Parties'
    BY <1>1, <1>2, <1>3, <1>4 DEF BInv, Present, Filed, Alone, Parties
  <1>9. TradeMutual'
    <2>1. \A q \in Player : with[q] # Nil => q # p
      BY <1>1, Mutual
    <2>2. QED BY <1>1, <1>3, <1>4, <2>1 DEF BInv, TradeMutual
  <1>10. ToWrite'
    BY <1>1, <1>3, <1>4, <1>5 DEF ToWrite
  <1>11. Things1 => Things1'
    <2>1. \A q \in Player : Now(q)' = Now(q)
      BY <1>1, <1>3, <1>4, <1>5 DEF Now
    <2>2. QED BY <1>4, <2>1, SameThings
  <1>12. QED BY <1>6, <1>7, <1>8, <1>9, <1>10, <1>11 DEF BInv

\* He leaves with a file, or without.
LEMMA LeaveKeeps ==
    ASSUME BInv, NEW p \in Player, Quit(p) \/ Delete(p)
    PROVE  BInv' /\ (Things1 => Things1')
  <1> DEFINE P == IF with[p] = Nil THEN {} ELSE {p, with[p]}
  <1>1. /\ Idle /\ p \in online /\ Clear(P) /\ online' = online \ {p} /\ body' = [body EXCEPT ![p] = Nil]
        /\ \/ saved' = [saved EXCEPT ![p] = body[p]]
           \/ saved' = [saved EXCEPT ![p] = Nil] /\ ~Involved(p)
        /\ UNCHANGED <<auc, aucFile, hoard, hoardFile, todo>> /\ todo' = <<>>
    <2>1. CASE Quit(p)
      BY <2>1 DEF Quit, Abort, Idle
    <2>2. CASE Delete(p)
      BY <2>2 DEF Delete, Abort, Idle
    <2>3. QED BY <2>1, <2>2, Zenon
  <1>2. P \in SUBSET Player /\ ((P = {} /\ with[p] = Nil) \/ (P = {p, with[p]} /\ with[p] # Nil))
    BY Mutual
  <1> HIDE DEF P
  <1>3. /\ body \in [Player -> Body \cup {Nil}] /\ saved \in [Player -> Body \cup {Nil}] /\ online \subseteq Player /\ body[p] # Nil
    BY <1>1, Typed, Playing DEF BInv
  <1>4. /\ aucFile = auc /\ hoardFile = hoard /\ (\A q \in online : saved[q] = body[q])
        /\ (\A q \in Player \ online : body[q] = Nil) /\ \A q \in Player : Now(q) = saved[q]
    BY <1>1, Leisure
  <1>5. /\ body' \in [Player -> Body \cup {Nil}] /\ saved' \in [Player -> Body \cup {Nil}] /\ body'[p] = Nil
        /\ \A q \in Player \ {p} : body'[q] = body[q] /\ saved'[q] = saved[q]
        /\ saved'[p] = saved[p] \/ (saved'[p] = Nil /\ ~Involved(p))
    <2>1. body' \in [Player -> Body \cup {Nil}] /\ body'[p] = Nil /\ \A q \in Player \ {p} : body'[q] = body[q]
      BY <1>1, <1>3
    <2>2. \E x \in Body \cup {Nil} : saved' = [saved EXCEPT ![p] = x] /\ (x = body[p] \/ (x = Nil /\ ~Involved(p)))
      <3>1. body[p] \in Body \cup {Nil} /\ Nil \in Body \cup {Nil}
        BY <1>1, <1>3
      <3>2. QED BY <1>1, <3>1, Zenon
    <2>x. PICK x \in Body \cup {Nil} : saved' = [saved EXCEPT ![p] = x] /\ (x = body[p] \/ (x = Nil /\ ~Involved(p)))
      BY <2>2
    <2>3. saved' \in [Player -> Body \cup {Nil}] /\ saved'[p] = x /\ \A q \in Player \ {p} : saved'[q] = saved[q]
      BY <1>3, <2>x
    <2>4. saved[p] = body[p]
      BY <1>1, <1>4
    <2>5. QED BY <2>1, <2>x, <2>3, <2>4
  <1>6. /\ with' \in [Player -> Player \cup {Nil}] /\ offer' \in [Player -> SUBSET Item]
        /\ stake' \in [Player -> Nat] /\ accepts' \in [Player -> BOOLEAN] /\ Alone'
    BY <1>1, <1>2, Clearing
  <1>7. TradeMutual'
    <2>1. \A q \in Player \ (P \cup {p}) : body'[q] = body[q] /\ (q \in online => q \in online')
      BY <1>1, <1>5
    <2>2. QED BY <1>1, <1>2, <2>1, ClearedMutual
  <1>8. Agenda' /\ todo' \in Seq(Player \cup Item \cup {Auctions, Treasury})
    BY <1>1, NothingToDo
  <1>9. TypeOK'
    BY <1>1, <1>3, <1>5, <1>6, <1>8, Typed DEF BInv, TypeOK
  <1>10. Present' /\ Filed'
    BY <1>1, <1>3, <1>5 DEF BInv, Present, Filed
  <1>11. Parties'
    <2>1. auc \in [Item -> Auction \cup {Nil}]
      BY Typed DEF BInv
    <2>2. ASSUME NEW i \in Item, auc[i] # Nil
          PROVE  /\ saved'[auc[i].owner] # Nil /\ auc[i].bidder # auc[i].owner
                 /\ auc[i].bidder # Nil => saved'[auc[i].bidder] # Nil
      <3>1. auc[i].owner \in Player /\ (auc[i].bidder # Nil => auc[i].bidder \in Player)
        BY <2>1, <2>2 DEF Auction
      <3>2. /\ saved[auc[i].owner] # Nil /\ auc[i].bidder # auc[i].owner
            /\ auc[i].bidder # Nil => saved[auc[i].bidder] # Nil
        BY <2>2 DEF BInv, Parties, Known
      <3>3. saved'[p] = saved[p] \/ p \notin {auc[i].owner, auc[i].bidder}
        BY <1>5, <2>2 DEF Involved, Open
      <3>4. QED BY <1>5, <3>1, <3>2, <3>3
    <2>3. Known(auc, saved')
      BY <2>2 DEF Known
    <2>4. QED BY <1>1, <1>4, <2>3 DEF Parties
  <1>12. ToWrite'
    BY <1>1, <1>4, <1>5 DEF ToWrite
  <1>13. ASSUME Things1 PROVE Things1'
    <2>1. \A q \in Player \ {p} : Now(q)' = Now(q)
      BY <1>5 DEF Now
    <2>2. Now(p)' = Now(p) \/ Now(p)' = Nil
      BY <1>4, <1>5 DEF Now
    <2>3. \A q \in Player, i \in Item : Owns(q, i)' => Owns(q, i)
      BY <2>1, <2>2 DEF Owns
    <2>4. Once'
      BY <1>1, <1>13, <2>3 DEF Things1, Once
    <2>5. Kept'
      <3>1. CASE Now(p)' = Nil
        BY <3>1 DEF Kept
      <3>2. CASE Now(p)' = Now(p)
        <4>1. \A q \in Player : Now(q)' = Now(q)
          BY <2>1, <3>2
        <4>2. QED BY <1>1, <1>13, <4>1, SameThings DEF Things1
      <3>3. QED BY <2>2, <3>1, <3>2
    <2>6. QED BY <2>4, <2>5 DEF Things1
  <1>14. QED BY <1>6, <1>7, <1>8, <1>9, <1>10, <1>11, <1>12, <1>13 DEF BInv

LEMMA RestartKeeps ==
    ASSUME BInv, Restart
    PROVE  BInv' /\ (Careful /\ Things1 => Things1')
  <1>1. /\ Careful => Idle
        /\ body' = [p \in Player |-> Nil] /\ online' = {} /\ auc' = aucFile /\ hoard' = hoardFile
        /\ with' = [p \in Player |-> Nil] /\ offer' = [p \in Player |-> {}]
        /\ stake' = [p \in Player |-> 0] /\ accepts' = [p \in Player |-> FALSE]
        /\ todo' = <<>> /\ UNCHANGED <<saved, aucFile, hoardFile>>
    BY DEF Restart, Clear, Cleared, disk
  <1>2. Agenda' /\ todo' \in Seq(Player \cup Item \cup {Auctions, Treasury})
    BY <1>1, NothingToDo
  <1>3. TypeOK'
    <2>1. accepts' \in [Player -> BOOLEAN]
      BY <1>1, Zenon
    <2>2. body' \in [Player -> Body \cup {Nil}] /\ with' \in [Player -> Player \cup {Nil}] /\ offer' \in [Player -> SUBSET Item] /\ stake' \in [Player -> Nat]
      BY <1>1
    <2>3. QED BY <1>1, <1>2, <2>1, <2>2, Typed DEF BInv, TypeOK
  <1>4. Present' /\ Filed' /\ Alone' /\ Parties' /\ TradeMutual' /\ ToWrite'
    <2>1. Present' /\ Filed'
      BY <1>1 DEF Present, Filed
    <2>2. Alone'
      BY <1>1, Constants DEF Alone
    <2>3. Parties'
      BY <1>1 DEF BInv, Parties
    <2>4. TradeMutual'
      BY <1>1 DEF TradeMutual
    <2>5. ToWrite'
      BY <1>1 DEF ToWrite
    <2>6. QED BY <2>1, <2>2, <2>3, <2>4, <2>5
  <1>5. ASSUME Careful, Things1 PROVE Things1'
    <2>1. Idle
      BY <1>1, <1>5
    <2>2. aucFile = auc /\ \A q \in Player : Now(q) = saved[q]
      BY <2>1, Leisure
    <2>3. \A q \in Player : Now(q)' = Now(q)
      BY <1>1, <2>2 DEF Now
    <2>4. QED BY <1>1, <1>5, <2>2, <2>3, SameThings
  <1>6. QED BY <1>2, <1>3, <1>4, <1>5 DEF BInv

-----------------------------------------------------------------------------
(* All of it. *)

LEMMA Starting == Init => BInv /\ Things1
  <1> SUFFICES ASSUME Init PROVE BInv /\ Things1
    OBVIOUS
  <1>1. /\ body = [p \in Player |-> Nil] /\ online = {} /\ saved = Start
        /\ auc = [i \in Item |-> Nil] /\ aucFile = auc
        /\ hoard = [gold |-> 0, qp |-> 0] /\ hoardFile = hoard
        /\ with = [p \in Player |-> Nil] /\ offer = [p \in Player |-> {}]
        /\ stake = [p \in Player |-> 0] /\ accepts = [p \in Player |-> FALSE]
        /\ todo = <<>>
    BY DEF Init
  <1>2. /\ \A p \in Player : Start[p] \in Body /\ Start[p] # Nil
        /\ Start \in [Player -> Body]
        /\ \A i \in Item : \E p \in Player : \A q \in Player : i \in Start[q].items <=> q = p
    <2>1. Start \in [Player -> [items : SUBSET Item, gold : Nat, bank : Nat, qp : Nat]]
      BY MarketAssumption
    <2>2. [items : SUBSET Item, gold : Nat, bank : Nat, qp : Nat] \subseteq Body
      BY DEF Body
    <2>3. \A i \in Item : \E p \in Player : \A q \in Player : i \in Start[q].items <=> q = p
      BY MarketAssumption
    <2>4. QED BY <2>1, <2>2, <2>3, Constants
  <1>3. TypeOK
    <2>1. accepts \in [Player -> BOOLEAN]
      BY <1>1, Zenon
    <2>2. body \in [Player -> Body \cup {Nil}] /\ saved \in [Player -> Body \cup {Nil}]
      BY <1>1, <1>2
    <2>3. /\ auc \in [Item -> Auction \cup {Nil}] /\ aucFile \in [Item -> Auction \cup {Nil}]
          /\ with \in [Player -> Player \cup {Nil}] /\ offer \in [Player -> SUBSET Item] /\ stake \in [Player -> Nat]
      BY <1>1
    <2>4. hoard \in [gold : Nat, qp : Nat] /\ hoardFile \in [gold : Nat, qp : Nat]
      BY <1>1
    <2>5. todo \in Seq(Player \cup Item \cup {Auctions, Treasury}) /\ online \subseteq Player
      BY <1>1
    <2>6. QED BY <2>1, <2>2, <2>3, <2>4, <2>5 DEF TypeOK
  <1>4. Present /\ Filed /\ Parties /\ Agenda /\ ToWrite
    <2>1. Present /\ Filed
      BY <1>1 DEF Present, Filed
    <2>2. Parties
      BY <1>1 DEF Parties, Known
    <2>3. Agenda
      BY <1>1 DEF Agenda
    <2>4. ToWrite
      BY <1>1 DEF ToWrite
    <2>5. QED BY <2>1, <2>2, <2>3, <2>4
  <1>5. Alone /\ TradeMutual
    BY <1>1, Constants DEF Alone, TradeMutual
  <1>6. \A p \in Player, i \in Item : Owns(p, i) <=> i \in Start[p].items
    BY <1>1, <1>2 DEF Owns, Now
  <1>7. Once /\ Kept
    <2>1. Once
      BY <1>1, <1>2, <1>6 DEF Once
    <2>2. Kept
      BY <1>2, <1>6 DEF Kept
    <2>3. QED BY <2>1, <2>2
  <1>8. QED BY <1>3, <1>4, <1>5, <1>7 DEF BInv, Things1

LEMMA StepKeeps ==
    ASSUME BInv, [Next]_vars
    PROVE  BInv' /\ (Careful /\ Things1 => Things1')
  <1>1. ASSUME NEW p \in Player, Enter(p) \/ Quit(p) \/ Delete(p) PROVE BInv' /\ (Things1 => Things1')
    BY <1>1, EnterKeeps, LeaveKeeps
  <1>2. ASSUME NEW p \in Player,
               \/ TradeAbort(p) \/ TradeAccept(p)
               \/ \E q \in Player : TradeStart(p, q)
               \/ \E i \in Item : TradeAdd(p, i)
               \/ \E n \in Amounts : TradeGold(p, n)
        PROVE  BInv' /\ (Things1 => Things1')
    BY <1>2, TradeTalkKeeps
  <1>3. ASSUME NEW p \in Player, TradeFinish(p) PROVE BInv' /\ (Things1 => Things1')
    BY <1>3, TradeFinishKeeps
  <1>4. ASSUME NEW p \in Player, NEW i \in Item, CashIn(p, i) \/ MakeToken(p, i) PROVE BInv' /\ (Things1 => Things1')
    BY <1>4, TokenKeeps
  <1>5. ASSUME NEW p \in Player, NEW i \in Item, NEW k \in Kinds, AuctionAdd(p, i, k) PROVE BInv' /\ (Things1 => Things1')
    BY <1>5, AuctionAddKeeps
  <1>6. ASSUME NEW p \in Player, NEW n \in Amounts, BankDeposit(p, n) \/ BankWithdraw(p, n) \/ SpendQp(p, n) \/ Tax(p, n)
        PROVE  BInv' /\ (Things1 => Things1')
    BY <1>6, BankingKeeps
  <1>7. ASSUME NEW p \in Player, NEW n \in Amounts, NEW i \in Item, Bid(p, i, n) PROVE BInv' /\ (Things1 => Things1')
    BY <1>7, BidKeeps
  <1>8. ASSUME NEW p \in Player, NEW n \in Amounts, NEW k \in {"gold", "qp"}, TreasuryDeposit(p, k, n) \/ TreasuryWithdraw(p, k, n)
        PROVE  BInv' /\ (Things1 => Things1')
    BY <1>8, TreasuryKeeps
  <1>9. ASSUME NEW i \in Item, ForceEnd(i) \/ Cancel(i) PROVE BInv' /\ (Things1 => Things1')
    BY <1>9, UpdateKeeps, CancelKeeps
  <1>10. CASE Tick \/ End \/ SaveChar \/ SaveAuctions \/ SaveTreasuries
    BY <1>10, UpdateKeeps, EndKeeps, SaveCharKeeps, SaveFileKeeps
  <1>11. CASE Restart
    BY <1>11, RestartKeeps
  <1>12. CASE UNCHANGED vars
    <2>1. UNCHANGED <<body, online, auc, hoard, disk, todo>> /\ UNCHANGED <<with, offer, stake, accepts>>
      BY <1>12 DEF vars, disk
    <2>2. Alone' /\ TradeMutual'
      BY <2>1 DEF BInv, Alone, TradeMutual
    <2>3. /\ with' \in [Player -> Player \cup {Nil}] /\ offer' \in [Player -> SUBSET Item]
          /\ stake' \in [Player -> Nat] /\ accepts' \in [Player -> BOOLEAN]
      BY <2>1, Typed DEF BInv
    <2>4. BInv'
      BY <2>1, <2>2, <2>3, TalkKeeps
    <2>5. Things1 => Things1'
      BY <2>1, SameThings DEF Now, disk
    <2>6. QED BY <2>4, <2>5
  <1>13. QED BY <1>1, <1>2, <1>3, <1>4, <1>5, <1>6, <1>7, <1>8, <1>9, <1>10, <1>11, <1>12 DEF Next

LEMMA AlwaysB == Spec => []BInv
  <1>1. Init => BInv
    BY Starting
  <1>2. BInv /\ [Next]_vars => BInv'
    BY StepKeeps
  <1>3. QED BY <1>1, <1>2, PTL DEF Spec

\* Who trades with whom is mutual, between two who are there and who own what they offer,
\* whatever else goes on, and wherever the machine stops: trade_abort, quitting,
\* leaving, buying and selling leave nobody with half a trade.
THEOREM MarketTradeMutual == Spec => []TradeMutual
  <1>1. BInv => TradeMutual
    BY DEF BInv
  <1>2. QED BY <1>1, AlwaysB, PTL

\* The owner and the bidder of every auction exist as long as it is on, in the game or
\* in a file (the comment at auction.c:54 rests on it), wherever the machine stops.
THEOREM MarketPartiesExist == Spec => []PartiesExist
  BY PartiesThere, AlwaysB, PTL

\* An item is with one player or in one auction, none is lost or doubled, and between
\* two commands the disk says what the memory says: for any number of players, items
\* and auctions, as long as the machine does not stop in the middle of a command.
THEOREM MarketOnePlace ==
    ASSUME Careful
    PROVE  Spec => []OnePlace
  <1>1. Init => BInv /\ Things1
    BY Starting
  <1>2. (BInv /\ Things1) /\ [Next]_vars => (BInv /\ Things1)'
    BY StepKeeps
  <1>3. BInv /\ Things1 => OnePlace
    BY OnePlaceEach
  <1>4. QED BY <1>1, <1>2, <1>3, PTL DEF Spec

\* Whoever leaves a trade takes along only his own.
LEMMA ClearBinds ==
    ASSUME BInv, NEW a \in Player, NEW P \in SUBSET Player, Clear(P),
           (P = {} /\ with[a] = Nil) \/ (P = {a, with[a]} /\ with[a] # Nil),
           NEW p \in Player, with[p] # Nil, with'[p] = with[p], NEW q \in {p, with[p]}
    PROVE  offer'[q] = offer[q] /\ stake'[q] = stake[q]
  <1>1. \A c \in Player : with'[c] # Nil => with'[with[c]] = c /\ offer'[c] = offer[c] /\ stake'[c] = stake[c]
    BY Clearing
  <1>2. with[p] \in Player /\ with'[p] # Nil
    BY Mutual
  <1>3. with'[with[p]] = p /\ p # Nil
    BY <1>1, <1>2, Constants
  <1>4. QED BY <1>1, <1>2, <1>3

LEMMA BindingStep ==
    ASSUME BInv, Next, NEW p \in Player, accepts[p], with[p] # Nil, with'[p] = with[p], NEW q \in {p, with[p]}
    PROVE  offer'[q] = offer[q] /\ stake'[q] = stake[q]
  <1>1. with[p] \in Player /\ with[with[p]] = p /\ q \in Player /\ with[q] # Nil
    BY Mutual, Constants
  <1>2. offer \in [Player -> SUBSET Item] /\ stake \in [Player -> Nat]
    BY Typed DEF BInv
  <1>3. CASE UNCHANGED <<offer, stake>>
    BY <1>3
  <1>4. ASSUME NEW a \in Player, NEW b \in Player, TradeStart(a, b) PROVE offer'[q] = offer[q] /\ stake'[q] = stake[q]
    <2>1. q \notin {a, b}
      BY <1>1, <1>4 DEF TradeStart
    <2>2. /\ offer' = [c \in Player |-> IF c \in {a, b} THEN {} ELSE offer[c]]
          /\ stake' = [c \in Player |-> IF c \in {a, b} THEN 0 ELSE stake[c]]
      BY <1>4 DEF TradeStart, Cleared
    <2>3. QED BY <1>1, <2>1, <2>2
  <1>5. ASSUME NEW a \in Player, OpenToChange(a) PROVE q # a
    BY <1>1, <1>5 DEF OpenToChange
  <1>6. ASSUME NEW a \in Player, NEW i \in Item, TradeAdd(a, i) PROVE offer'[q] = offer[q] /\ stake'[q] = stake[q]
    BY <1>1, <1>2, <1>5, <1>6 DEF TradeAdd
  <1>7. ASSUME NEW a \in Player, NEW n \in Amounts, TradeGold(a, n) PROVE offer'[q] = offer[q] /\ stake'[q] = stake[q]
    BY <1>1, <1>2, <1>5, <1>7 DEF TradeGold
  <1>8. ASSUME NEW a \in Player, TradeAbort(a) \/ TradeFinish(a) \/ Quit(a) \/ Delete(a)
        PROVE  offer'[q] = offer[q] /\ stake'[q] = stake[q]
    <2> DEFINE P == IF with[a] = Nil THEN {} ELSE {a, with[a]}
    <2>1. P \in SUBSET Player /\ ((P = {} /\ with[a] = Nil) \/ (P = {a, with[a]} /\ with[a] # Nil))
      BY Mutual
    <2>2. Clear(P)
      BY <1>8 DEF TradeAbort, TradeFinish, Quit, Delete, Abort
    <2> HIDE DEF P
    <2>3. QED BY <2>1, <2>2, ClearBinds
  <1>9. CASE Restart
    <2>1. with' = [c \in Player |-> Nil]
      BY <1>9 DEF Restart, Clear, Cleared
    <2>2. QED BY <2>1
  <1>10. ASSUME NEW a \in Player,
                \/ Enter(a) \/ TradeAccept(a)
                \/ \E i \in Item : CashIn(a, i) \/ MakeToken(a, i) \/ \E k \in Kinds : AuctionAdd(a, i, k)
                \/ \E n \in Amounts : \/ BankDeposit(a, n) \/ BankWithdraw(a, n) \/ SpendQp(a, n) \/ Tax(a, n)
                                      \/ \E i \in Item : Bid(a, i, n)
                                      \/ \E k \in {"gold", "qp"} : TreasuryDeposit(a, k, n) \/ TreasuryWithdraw(a, k, n)
         PROVE  UNCHANGED <<offer, stake>>
    BY <1>10 DEF Enter, TradeAccept, CashIn, MakeToken, AuctionAdd, BankDeposit, BankWithdraw, SpendQp, Tax, Bid,
                 TreasuryDeposit, TreasuryWithdraw, trade
  <1>11. ASSUME \/ \E i \in Item : ForceEnd(i) \/ Cancel(i)
                \/ Tick \/ End \/ SaveChar \/ SaveAuctions \/ SaveTreasuries
         PROVE  UNCHANGED <<offer, stake>>
    BY <1>11 DEF ForceEnd, Cancel, Tick, End, Give, SaveChar, SaveAuctions, SaveTreasuries, trade
  <1>12. QED BY <1>3, <1>4, <1>6, <1>7, <1>8, <1>9, <1>10, <1>11 DEF Next

\* Once a side has accepted, what either side offers does not change until the trade is
\* over: no sequence of commands of the two, or of anybody else, swaps an item or the
\* gold behind the back of the one who said yes.
THEOREM MarketBinding == Spec => Binding
  <1>1. BInv /\ [Next]_vars =>
          [\A p \in Player :
             accepts[p] /\ with[p] # Nil /\ with'[p] = with[p] =>
                 \A q \in {p, with[p]} : offer'[q] = offer[q] /\ stake'[q] = stake[q]]_vars
    BY BindingStep
  <1>2. QED BY <1>1, AlwaysB, PTL DEF Spec, Binding

-----------------------------------------------------------------------------
(* Who can keep what he promised. *)

\* What p has bid of k in each of the auctions f, and in all of them; and the price of
\* what he offers in a trade.
Pledged(f, p, k) ==
    [i \in Item |-> IF f[i] # Nil /\ f[i].kind = k /\ f[i].bidder = p THEN f[i].amount ELSE 0]

Held(f, p, k) == Added(Pledged(f, p, k), Item)

Price(o) == Cost * Cardinality(o \cap NoDrop)

\* b is enough for what p promised.
Solvent(b, f, p, s, o) == b.bank >= Held(f, p, "bank") + s /\ b.qp >= Held(f, p, "qp") + Price(o)

\* In g nobody bids what he did not bid in f.
Weaker(f, g) ==
    \A i \in Item : \/ g[i] = Nil
                    \/ g[i].bidder = Nil
                    \/ f[i] # Nil /\ g[i].bidder = f[i].bidder /\ g[i].amount = f[i].amount /\ g[i].kind = f[i].kind

Sales == [Item -> Auction \cup {Nil}]

LEMMA PledgedNat ==
    ASSUME NEW f \in Sales, NEW p \in Player, NEW k
    PROVE  \A i \in Item : /\ Pledged(f, p, k)[i] \in Nat
                           /\ Pledged(f, p, k)[i] = IF f[i] # Nil /\ f[i].kind = k /\ f[i].bidder = p
                                                    THEN f[i].amount ELSE 0
  BY DEF Pledged, Sales, Auction

LEMMA HeldNat ==
    ASSUME NEW f \in Sales, NEW p \in Player, NEW k
    PROVE  Held(f, p, k) \in Nat
  <1>1. \A i \in Item : Pledged(f, p, k)[i] \in Nat
    BY PledgedNat
  <1>2. IsFiniteSet(Item)
    BY Constants
  <1>3. QED BY <1>1, <1>2, SumPart, Zenon DEF Held

LEMMA HeldLess ==
    ASSUME NEW f \in Sales, NEW g \in Sales, Weaker(f, g), NEW p \in Player, NEW k
    PROVE  Held(g, p, k) <= Held(f, p, k)
  <1> DEFINE F == Pledged(f, p, k)
             G == Pledged(g, p, k)
  <1>1. \A i \in Item : F[i] \in Int /\ G[i] \in Int
    BY PledgedNat
  <1>2. \A i \in Item : G[i] <= F[i]
    <2>1. SUFFICES ASSUME NEW i \in Item PROVE G[i] <= F[i]
      OBVIOUS
    <2>2. /\ F[i] \in Nat /\ F[i] = IF f[i] # Nil /\ f[i].kind = k /\ f[i].bidder = p THEN f[i].amount ELSE 0
          /\ G[i] \in Nat /\ G[i] = IF g[i] # Nil /\ g[i].kind = k /\ g[i].bidder = p THEN g[i].amount ELSE 0
      BY PledgedNat
    <2> HIDE DEF F, G
    <2>3. p # Nil
      BY Constants
    <2>4. QED BY <2>2, <2>3 DEF Weaker
  <1> HIDE DEF F, G
  <1>3. \A i \in Item : G[i] \in Int /\ F[i] \in Int /\ G[i] <= F[i]
    BY <1>1, <1>2
  <1>4. IsFiniteSet(Item)
    BY Constants
  <1>5. Added(G, Item) <= Added(F, Item)
    BY <1>3, <1>4, SumLess
  <1>6. QED BY <1>5 DEF Held, F, G

\* One auction changes.
LEMMA HeldOne ==
    ASSUME NEW f \in Sales, NEW g \in Sales, NEW i \in Item, \A j \in Item \ {i} : g[j] = f[j], NEW p \in Player, NEW k
    PROVE  Held(g, p, k) = Held(f, p, k) - Pledged(f, p, k)[i] + Pledged(g, p, k)[i]
  <1> DEFINE F == Pledged(f, p, k)
             G == Pledged(g, p, k)
  <1>1. \A j \in Item : F[j] \in Int /\ G[j] \in Int
    BY PledgedNat
  <1>2. \A j \in Item : j # i => G[j] = F[j]
    BY DEF Pledged
  <1> HIDE DEF F, G
  <1>3. \A j \in Item : F[j] \in Int /\ G[j] \in Int /\ (j # i => G[j] = F[j])
    BY <1>1, <1>2
  <1>4. IsFiniteSet(Item)
    BY Constants
  <1>5. Added(G, Item) = Added(F, Item) - F[i] + G[i]
    BY <1>3, <1>4, SumOne
  <1>6. QED BY <1>5 DEF Held, F, G

LEMMA PriceNat ==
    /\ \A o \in SUBSET Item : Price(o) \in Nat
    /\ Price({}) = 0
  <1>1. ASSUME NEW o \in SUBSET Item PROVE Cardinality(o \cap NoDrop) \in Nat
    <2>1. IsFiniteSet(o \cap NoDrop)
      BY Constants, FS_Subset
    <2>2. QED BY <2>1, FS_CardinalityType
  <1>2. \A n \in Nat : Cost * n \in Nat
    BY Constants
  <1>3. {} \cap NoDrop = {} /\ Cardinality({}) = 0 /\ Cost * 0 = 0
    BY FS_EmptySet, Constants
  <1>4. Price({}) = 0
    BY <1>3 DEF Price
  <1>5. QED BY <1>1, <1>2, <1>4 DEF Price

LEMMA ReservedIs ==
    ASSUME NEW p, NEW k
    PROVE  Reserved(p, k) = Held(auc, p, k) /\ Reserved(p, k)' = Held(auc', p, k)
  <1>1. Pledge(p, k) = Pledged(auc, p, k) /\ Pledge(p, k)' = Pledged(auc', p, k)
    BY DEF Pledge, Pledged, Open
  <1>2. DOMAIN Pledged(auc, p, k) = Item /\ DOMAIN Pledged(auc', p, k) = Item
    BY DEF Pledged
  <1>3. QED BY <1>1, <1>2, Zenon DEF Reserved, Held, SumFunction, Added

LEMMA FundedIs ==
    /\ Funded <=> \A p \in Player : Now(p) # Nil => Solvent(Now(p), auc, p, stake[p], offer[p])
    /\ Funded' <=> \A p \in Player : Now(p)' # Nil => Solvent(Now(p)', auc', p, stake'[p], offer'[p])
  <1>1. ASSUME NEW p \in Player
        PROVE  /\ Promised(p, "bank") = Held(auc, p, "bank") + stake[p]
               /\ Promised(p, "qp") = Held(auc, p, "qp") + Price(offer[p])
               /\ Promised(p, "bank")' = Held(auc', p, "bank") + stake'[p]
               /\ Promised(p, "qp")' = Held(auc', p, "qp") + Price(offer'[p])
    <2>1. "qp" # "bank"
      OBVIOUS
    <2>2. QED BY <2>1, ReservedIs, Zenon DEF Promised, Price
  <1>2. (Funded <=> \A p \in Player : Now(p) # Nil => Solvent(Now(p), auc, p, stake[p], offer[p]))
    <2>1. ASSUME NEW p \in Player
          PROVE (Now(p).bank >= Promised(p, "bank") /\ Now(p).qp >= Promised(p, "qp")) <=> Solvent(Now(p), auc, p, stake[p], offer[p])
      BY <1>1, Zenon DEF Solvent
    <2>2. QED BY <2>1, Zenon DEF Funded, Someone
  <1>3. (Funded' <=> \A p \in Player : Now(p)' # Nil => Solvent(Now(p)', auc', p, stake'[p], offer'[p]))
    <2>1. ASSUME NEW p \in Player
          PROVE (Now(p)'.bank >= Promised(p, "bank")' /\ Now(p)'.qp >= Promised(p, "qp")') <=> Solvent(Now(p)', auc', p, stake'[p], offer'[p])
      BY <1>1, Zenon DEF Solvent
    <2>2. QED BY <2>1, Zenon DEF Funded, Someone
  <1>4. QED BY <1>2, <1>3

LEMMA SumsOfGains ==
    ASSUME NEW b \in Body, NEW n \in Int
    PROVE  /\ Gain(b, "bank", n).bank = b.bank + n /\ Gain(b, "bank", n).qp = b.qp
           /\ Gain(b, "qp", n).qp = b.qp + n /\ Gain(b, "qp", n).bank = b.bank
           /\ Gain(b, "gold", n).gold = b.gold + n /\ Gain(b, "gold", n).bank = b.bank /\ Gain(b, "gold", n).qp = b.qp
  BY DEF Gain, Body

LEMMA SumsOfGain ==
    ASSUME NEW b \in Body, NEW k \in {"bank", "qp"}, NEW n \in Int
    PROVE  /\ Gain(b, k, n).gold = b.gold
           /\ k = "bank" => Gain(b, k, n).bank = b.bank + n /\ Gain(b, k, n).qp = b.qp
           /\ k = "qp" => Gain(b, k, n).qp = b.qp + n /\ Gain(b, k, n).bank = b.bank
  <1>1. CASE k = "bank"
    BY <1>1 DEF Gain, Body
  <1>2. CASE k = "qp"
    BY <1>2 DEF Gain, Body
  <1>3. QED BY <1>1, <1>2

LEMMA SumsOfThings ==
    ASSUME NEW b \in Body, NEW I
    PROVE  /\ Take(b, I).bank = b.bank /\ Take(b, I).qp = b.qp /\ Take(b, I).gold = b.gold
           /\ Lose(b, I).bank = b.bank /\ Lose(b, I).qp = b.qp /\ Lose(b, I).gold = b.gold
  BY DEF Take, Lose, Body

\* Nobody promises more, or has less.
LEMMA Calm ==
    ASSUME TypeOK, TypeOK', Funded, Weaker(auc, auc'),
           \A p \in Player : /\ Now(p)' # Nil => Now(p) # Nil /\ Now(p)'.bank >= Now(p).bank /\ Now(p)'.qp >= Now(p).qp
                             /\ stake'[p] \in {stake[p], 0} /\ offer'[p] \in {offer[p], {}}
    PROVE  Funded'
  <1>1. SUFFICES ASSUME NEW p \in Player, Now(p)' # Nil PROVE Solvent(Now(p)', auc', p, stake'[p], offer'[p])
    BY FundedIs
  <1>2. Now(p) # Nil /\ Solvent(Now(p), auc, p, stake[p], offer[p])
    BY <1>1, FundedIs
  <1>3. auc \in Sales /\ auc' \in Sales
    BY DEF TypeOK, Sales
  <1>4. Held(auc', p, "bank") <= Held(auc, p, "bank") /\ Held(auc', p, "qp") <= Held(auc, p, "qp")
    BY <1>3, HeldLess
  <1>5. /\ Held(auc', p, "bank") \in Nat /\ Held(auc, p, "bank") \in Nat
        /\ Held(auc', p, "qp") \in Nat /\ Held(auc, p, "qp") \in Nat
    BY <1>3, HeldNat
  <1>6. stake[p] \in Nat /\ stake'[p] \in Nat /\ stake'[p] <= stake[p]
    <2>1. stake[p] \in Nat /\ stake'[p] \in Nat /\ stake'[p] \in {stake[p], 0}
      BY Typed
    <2>2. QED BY <2>1
  <1>7. Price(offer[p]) \in Nat /\ Price(offer'[p]) \in Nat /\ Price(offer'[p]) <= Price(offer[p])
    <2>1. offer[p] \in SUBSET Item /\ offer'[p] \in {offer[p], {}} /\ {} \in SUBSET Item
      BY Typed
    <2>2. Price(offer[p]) \in Nat /\ Price({}) = 0
      BY <2>1, PriceNat
    <2>3. Price(offer'[p]) = Price(offer[p]) \/ Price(offer'[p]) = 0
      BY <2>1, <2>2
    <2>4. QED BY <2>2, <2>3
  <1>8. /\ Now(p).bank \in Int /\ Now(p).qp \in Int /\ Now(p)'.bank \in Int /\ Now(p)'.qp \in Int
        /\ Now(p)'.bank >= Now(p).bank /\ Now(p)'.qp >= Now(p).qp
    BY <1>1, <1>2 DEF TypeOK, Now, Body
  <1>9. QED BY <1>2, <1>4, <1>5, <1>6, <1>7, <1>8 DEF Solvent

\* One player has another account, which is enough.
LEMMA Spends ==
    ASSUME TypeOK, TypeOK', Funded, NEW p \in Player, NEW b \in Body, body' = [body EXCEPT ![p] = b], saved' = saved,
           Weaker(auc, auc'), UNCHANGED <<stake, offer>>, Solvent(b, auc, p, stake[p], offer[p])
    PROVE  Funded'
  <1>1. body \in [Player -> Body \cup {Nil}] /\ b # Nil
    BY Constants DEF TypeOK
  <1>2. SUFFICES ASSUME NEW q \in Player, Now(q)' # Nil PROVE Solvent(Now(q)', auc', q, stake[q], offer[q])
    BY FundedIs
  <1>3. auc \in Sales /\ auc' \in Sales
    BY DEF TypeOK, Sales
  <1>4. Held(auc', q, "bank") <= Held(auc, q, "bank") /\ Held(auc', q, "qp") <= Held(auc, q, "qp")
    BY <1>3, HeldLess
  <1>5. /\ Held(auc', q, "bank") \in Nat /\ Held(auc, q, "bank") \in Nat
        /\ Held(auc', q, "qp") \in Nat /\ Held(auc, q, "qp") \in Nat
    BY <1>3, HeldNat
  <1>6. stake[q] \in Nat /\ Price(offer[q]) \in Nat
    BY PriceNat DEF TypeOK
  <1>7. Now(q)' \in Body /\ Solvent(Now(q)', auc, q, stake[q], offer[q])
    <2>1. CASE q = p
      BY <1>1, <2>1 DEF Now
    <2>2. CASE q # p
      <3>1. Now(q)' = Now(q)
        BY <1>1, <2>2 DEF Now
      <3>2. Now(q)' \in Body
        BY <1>1, <1>2, <3>1 DEF Now, TypeOK
      <3>3. QED BY <1>2, <3>1, <3>2, FundedIs
    <2>3. QED BY <2>1, <2>2
  <1>8. Now(q)'.bank \in Int /\ Now(q)'.qp \in Int
    BY <1>7 DEF Body
  <1>9. QED BY <1>4, <1>5, <1>6, <1>7, <1>8 DEF Solvent

\* What is available is there beside all bids.
LEMMA AvailableIs ==
    ASSUME BInv, Funded, NEW p \in online
    PROVE  /\ body[p].bank \in Int /\ body[p].qp \in Int /\ body[p] \in Body
           /\ Available(p, "bank") = body[p].bank - Held(auc, p, "bank") /\ Held(auc, p, "bank") \in Nat
           /\ Available(p, "qp") = body[p].qp - Held(auc, p, "qp") /\ Held(auc, p, "qp") \in Nat
           /\ Solvent(body[p], auc, p, stake[p], offer[p]) /\ stake[p] \in Nat /\ Price(offer[p]) \in Nat
           /\ with[p] = Nil => stake[p] = 0 /\ offer[p] = {} /\ Price(offer[p]) = 0
  <1>1. p \in Player /\ body[p] \in Body /\ body[p] # Nil
    BY Playing
  <1>2. body[p].bank \in Int /\ body[p].qp \in Int
    BY <1>1 DEF Body
  <1>3. auc \in Sales
    BY Typed DEF BInv, Sales
  <1>4. Held(auc, p, "bank") \in Nat /\ Held(auc, p, "qp") \in Nat
    BY <1>1, <1>3, HeldNat
  <1>5. stake[p] \in Nat /\ Price(offer[p]) \in Nat
    BY <1>1, PriceNat, Typed DEF BInv
  <1>6. Solvent(body[p], auc, p, stake[p], offer[p])
    BY <1>1, FundedIs DEF Now
  <1>7. with[p] = Nil => stake[p] = 0 /\ offer[p] = {} /\ Price(offer[p]) = 0
    BY <1>1, PriceNat DEF BInv, TradeMutual
  <1>8. body[p].bank >= Held(auc, p, "bank") /\ body[p].qp >= Held(auc, p, "qp")
    BY <1>2, <1>4, <1>5, <1>6 DEF Solvent
  <1>9. \A x, y \in Int : x >= y => Max({0, x - y}) = x - y
    <2>1. SUFFICES ASSUME NEW x \in Int, NEW y \in Int, x >= y PROVE Max({0, x - y}) = x - y
      OBVIOUS
    <2> DEFINE d == x - y
    <2>2. d \in Nat
      BY <2>1
    <2> HIDE DEF d
    <2>3. \E z \in {0, d} : \A v \in {0, d} : z >= v
      BY <2>2
    <2>4. Max({0, d}) \in {0, d} /\ \A v \in {0, d} : Max({0, d}) >= v
      BY <2>3 DEF Max
    <2>5. Max({0, d}) = d
      BY <2>2, <2>4
    <2>6. QED BY <2>5 DEF d
  <1>10. Available(p, "bank") = body[p].bank - Held(auc, p, "bank")
    BY <1>2, <1>4, <1>8, <1>9, ReservedIs DEF Available
  <1>11. Available(p, "qp") = body[p].qp - Held(auc, p, "qp")
    BY <1>2, <1>4, <1>8, <1>9, ReservedIs DEF Available
  <1>12. QED BY <1>1, <1>2, <1>4, <1>5, <1>6, <1>7, <1>10, <1>11

-----------------------------------------------------------------------------
(* Nobody promises what he cannot pay. *)

LEMMA BankingFunded ==
    ASSUME BInv, BInv', Funded, Careful, NEW p \in Player, NEW n \in Amounts,
           BankDeposit(p, n) \/ BankWithdraw(p, n) \/ SpendQp(p, n) \/ Tax(p, n)
    PROVE  Funded'
  <1>1. p \in online /\ UNCHANGED <<online, auc, hoard, disk, trade>>
    BY DEF BankDeposit, BankWithdraw, SpendQp, Tax
  <1>2. n \in Int /\ n >= 0 /\ -n \in Int
    BY Constants
  <1>3. /\ body[p] \in Body /\ body[p].bank \in Int /\ body[p].qp \in Int
        /\ Held(auc, p, "bank") \in Nat /\ Held(auc, p, "qp") \in Nat /\ stake[p] \in Nat /\ Price(offer[p]) \in Nat
        /\ Solvent(body[p], auc, p, stake[p], offer[p])
    BY <1>1, AvailableIs
  <1>4. \E b \in Body : body' = [body EXCEPT ![p] = b] /\ Solvent(b, auc, p, stake[p], offer[p])
    <2>1. CASE BankDeposit(p, n)
      <3> DEFINE b1 == Gain(body[p], "gold", -n)
                 b2 == Gain(b1, "bank", n)
      <3>1. body' = [body EXCEPT ![p] = b2] /\ body[p].gold + (-n) >= 0
        BY <1>2, <1>3, <2>1, Things DEF BankDeposit
      <3>2. b1 \in Body /\ b1.bank = body[p].bank /\ b1.qp = body[p].qp
        BY <1>2, <1>3, <3>1, Gains, SumsOfGains
      <3> HIDE DEF b1
      <3>3. b2 \in Body /\ b2.bank = b1.bank + n /\ b2.qp = b1.qp
        BY <1>2, <3>2, Gains, SumsOfGains
      <3> HIDE DEF b2
      <3>4. Solvent(b2, auc, p, stake[p], offer[p])
        BY <1>2, <1>3, <3>2, <3>3 DEF Solvent
      <3>5. QED BY <3>1, <3>3, <3>4
    <2>2. CASE BankWithdraw(p, n)
      <3> DEFINE b1 == Gain(body[p], "bank", -n)
                 b2 == Gain(b1, "gold", n)
      <3>1. body' = [body EXCEPT ![p] = b2]
        BY <2>2 DEF BankWithdraw
      <3>2. b1 \in Body /\ b1.bank = body[p].bank - n /\ b1.qp = body[p].qp
        BY <1>2, <1>3, Gains, SumsOfGains
      <3> HIDE DEF b1
      <3>3. b1.gold + n >= 0
        <4>1. b1.gold \in Nat
          BY <3>2, Things
        <4>2. QED BY <1>2, <4>1
      <3>4. b2 \in Body /\ b2.bank = b1.bank /\ b2.qp = b1.qp
        BY <1>2, <3>2, <3>3, Gains, SumsOfGains
      <3> HIDE DEF b2
      <3>5. n <= body[p].bank - Held(auc, p, "bank") /\ stake[p] = 0
        BY <1>1, <2>2, AvailableIs DEF BankWithdraw
      <3>6. Solvent(b2, auc, p, stake[p], offer[p])
        BY <1>2, <1>3, <3>2, <3>4, <3>5 DEF Solvent
      <3>7. QED BY <3>1, <3>4, <3>6
    <2>3. CASE SpendQp(p, n)
      <3> DEFINE b1 == Gain(body[p], "qp", -n)
      <3>1. body' = [body EXCEPT ![p] = b1]
        BY <2>3 DEF SpendQp
      <3>2. b1 \in Body /\ b1.bank = body[p].bank /\ b1.qp = body[p].qp - n
        BY <1>2, <1>3, Gains, SumsOfGains
      <3> HIDE DEF b1
      <3>3. body[p].qp - n >= Held(auc, p, "qp") + Price(offer[p])
        BY <2>3, ReservedIs DEF SpendQp, Promised, Price
      <3>4. Solvent(b1, auc, p, stake[p], offer[p])
        BY <1>3, <3>2, <3>3 DEF Solvent
      <3>5. QED BY <3>1, <3>2, <3>4
    <2>4. CASE Tax(p, n)
      <3> DEFINE b1 == Gain(body[p], "bank", -n)
      <3>1. body' = [body EXCEPT ![p] = b1]
        BY <2>4 DEF Tax
      <3>2. b1 \in Body /\ b1.qp = body[p].qp /\ b1.bank = body[p].bank - n
        BY <1>2, <1>3, Gains, SumsOfGains
      <3> HIDE DEF b1
      <3>3. body[p].bank - n >= Held(auc, p, "bank") + stake[p]
        BY <2>4, ReservedIs DEF Tax, Promised
      <3>4. Solvent(b1, auc, p, stake[p], offer[p])
        BY <1>3, <3>2, <3>3 DEF Solvent
      <3>5. QED BY <3>1, <3>2, <3>4
    <2>5. QED BY <2>1, <2>2, <2>3, <2>4
  <1>5. PICK b \in Body : body' = [body EXCEPT ![p] = b] /\ Solvent(b, auc, p, stake[p], offer[p])
    BY <1>4
  <1>6. TypeOK /\ TypeOK' /\ saved' = saved /\ UNCHANGED <<stake, offer>>
    BY <1>1 DEF BInv, disk, trade
  <1>7. Weaker(auc, auc')
    BY <1>1 DEF Weaker
  <1>8. QED BY <1>5, <1>6, <1>7, Spends

LEMMA TreasuryFunded ==
    ASSUME BInv, BInv', Funded, NEW p \in Player, NEW n \in Amounts, NEW k \in {"gold", "qp"},
           TreasuryDeposit(p, k, n) \/ TreasuryWithdraw(p, k, n)
    PROVE  Funded'
  <1>1. p \in online /\ with[p] = Nil /\ UNCHANGED <<online, auc, disk, trade>>
    BY DEF TreasuryDeposit, TreasuryWithdraw
  <1>2. n \in Int /\ n >= 0 /\ -n \in Int
    BY Constants
  <1>3. /\ body[p] \in Body /\ body[p].bank \in Int /\ body[p].qp \in Int /\ body[p].gold \in Nat
        /\ Held(auc, p, "bank") \in Nat /\ Held(auc, p, "qp") \in Nat /\ stake[p] = 0 /\ Price(offer[p]) = 0
        /\ Solvent(body[p], auc, p, stake[p], offer[p])
    BY <1>1, AvailableIs, Things
  <1>4. \E b \in Body : body' = [body EXCEPT ![p] = b] /\ Solvent(b, auc, p, stake[p], offer[p])
    <2>1. CASE TreasuryDeposit(p, k, n) /\ k = "gold"
      <3> DEFINE b1 == Gain(body[p], "gold", -n)
      <3>1. body' = [body EXCEPT ![p] = b1] /\ body[p].gold + (-n) >= 0
        BY <1>2, <1>3, <2>1 DEF TreasuryDeposit
      <3>2. b1 \in Body /\ b1.bank = body[p].bank /\ b1.qp = body[p].qp
        BY <1>2, <1>3, <3>1, Gains, SumsOfGains
      <3> HIDE DEF b1
      <3>3. QED BY <1>3, <3>1, <3>2 DEF Solvent
    <2>2. CASE TreasuryDeposit(p, k, n) /\ k = "qp"
      <3> DEFINE b1 == Gain(body[p], "qp", -n)
      <3>1. body' = [body EXCEPT ![p] = b1] /\ n <= body[p].qp - Held(auc, p, "qp")
        BY <1>1, <2>2, AvailableIs DEF TreasuryDeposit
      <3>2. b1 \in Body /\ b1.bank = body[p].bank /\ b1.qp = body[p].qp - n
        BY <1>2, <1>3, Gains, SumsOfGains
      <3> HIDE DEF b1
      <3>3. Solvent(b1, auc, p, stake[p], offer[p])
        BY <1>2, <1>3, <3>1, <3>2 DEF Solvent
      <3>4. QED BY <3>1, <3>2, <3>3
    <2>3. CASE TreasuryWithdraw(p, k, n) /\ k = "gold"
      <3> DEFINE b1 == Gain(body[p], "gold", n)
      <3>1. body' = [body EXCEPT ![p] = b1] /\ body[p].gold + n >= 0
        BY <1>2, <1>3, <2>3 DEF TreasuryWithdraw
      <3>2. b1 \in Body /\ b1.bank = body[p].bank /\ b1.qp = body[p].qp
        BY <1>2, <1>3, <3>1, Gains, SumsOfGains
      <3> HIDE DEF b1
      <3>3. QED BY <1>3, <3>1, <3>2 DEF Solvent
    <2>4. CASE TreasuryWithdraw(p, k, n) /\ k = "qp"
      <3> DEFINE b1 == Gain(body[p], "qp", n)
      <3>1. body' = [body EXCEPT ![p] = b1]
        BY <2>4 DEF TreasuryWithdraw
      <3>2. b1 \in Body /\ b1.bank = body[p].bank /\ b1.qp = body[p].qp + n
        BY <1>2, <1>3, Gains, SumsOfGains
      <3> HIDE DEF b1
      <3>3. Solvent(b1, auc, p, stake[p], offer[p])
        BY <1>2, <1>3, <3>1, <3>2 DEF Solvent
      <3>4. QED BY <3>1, <3>2, <3>3
    <2>5. QED BY <2>1, <2>2, <2>3, <2>4
  <1>5. PICK b \in Body : body' = [body EXCEPT ![p] = b] /\ Solvent(b, auc, p, stake[p], offer[p])
    BY <1>4
  <1>6. TypeOK /\ TypeOK' /\ saved' = saved /\ UNCHANGED <<stake, offer>>
    BY <1>1 DEF BInv, disk, trade
  <1>7. Weaker(auc, auc')
    BY <1>1 DEF Weaker
  <1>8. QED BY <1>5, <1>6, <1>7, Spends

LEMMA TokenFunded ==
    ASSUME BInv, BInv', Funded, NEW p \in Player, NEW i \in Item, CashIn(p, i) \/ MakeToken(p, i)
    PROVE  Funded'
  <1>1. p \in online /\ with[p] = Nil /\ UNCHANGED <<online, auc, hoard, disk, trade>>
    BY DEF CashIn, MakeToken
  <1>2. /\ body[p] \in Body /\ body[p].bank \in Int /\ body[p].qp \in Int
        /\ Held(auc, p, "bank") \in Nat /\ Held(auc, p, "qp") \in Nat /\ stake[p] = 0 /\ Price(offer[p]) = 0
        /\ Solvent(body[p], auc, p, stake[p], offer[p])
    BY <1>1, AvailableIs
  <1>3. {i} \in SUBSET Item /\ 1 \in Int /\ -1 \in Int
    OBVIOUS
  <1>4. \E b \in Body : body' = [body EXCEPT ![p] = b] /\ Solvent(b, auc, p, stake[p], offer[p])
    <2>1. CASE CashIn(p, i)
      <3> DEFINE b1 == Lose(body[p], {i})
                 b2 == Gain(b1, "qp", 1)
      <3>1. body' = [body EXCEPT ![p] = b2]
        BY <2>1 DEF CashIn
      <3>2. b1 \in Body /\ b1.bank = body[p].bank /\ b1.qp = body[p].qp
        BY <1>2, <1>3, Things, SumsOfThings
      <3> HIDE DEF b1
      <3>3. b2 \in Body /\ b2.bank = b1.bank /\ b2.qp = b1.qp + 1
        BY <1>3, <3>2, Gains, SumsOfGains
      <3> HIDE DEF b2
      <3>4. Solvent(b2, auc, p, stake[p], offer[p])
        BY <1>2, <3>1, <3>2, <3>3 DEF Solvent
      <3>5. QED BY <3>1, <3>3, <3>4
    <2>2. CASE MakeToken(p, i)
      <3> DEFINE b1 == Take(body[p], {i})
                 b2 == Gain(b1, "qp", -1)
      <3>1. body' = [body EXCEPT ![p] = b2] /\ body[p].qp - Held(auc, p, "qp") >= 1
        BY <1>1, <2>2, AvailableIs DEF MakeToken
      <3>2. b1 \in Body /\ b1.bank = body[p].bank /\ b1.qp = body[p].qp
        BY <1>2, <1>3, Things, SumsOfThings
      <3> HIDE DEF b1
      <3>3. b2 \in Body /\ b2.bank = b1.bank /\ b2.qp = b1.qp - 1
        BY <1>3, <3>2, Gains, SumsOfGains
      <3> HIDE DEF b2
      <3>4. Solvent(b2, auc, p, stake[p], offer[p])
        BY <1>2, <3>1, <3>2, <3>3 DEF Solvent
      <3>5. QED BY <3>1, <3>3, <3>4
    <2>3. QED BY <2>1, <2>2
  <1>5. PICK b \in Body : body' = [body EXCEPT ![p] = b] /\ Solvent(b, auc, p, stake[p], offer[p])
    BY <1>4
  <1>6. TypeOK /\ TypeOK' /\ saved' = saved /\ UNCHANGED <<stake, offer>>
    BY <1>1 DEF BInv, disk, trade
  <1>7. Weaker(auc, auc')
    BY <1>1 DEF Weaker
  <1>8. QED BY <1>5, <1>6, <1>7, Spends

LEMMA AuctionAddFunded ==
    ASSUME BInv, BInv', Funded, NEW p \in Player, NEW i \in Item, NEW k \in Kinds, AuctionAdd(p, i, k)
    PROVE  Funded'
  <1>1. p \in online /\ with[p] = Nil /\ UNCHANGED <<online, hoard, disk, trade>>
    BY DEF AuctionAdd
  <1>2. /\ body[p] \in Body /\ body[p].bank \in Int /\ body[p].qp \in Int
        /\ Held(auc, p, "bank") \in Nat /\ Held(auc, p, "qp") \in Nat /\ stake[p] = 0 /\ Price(offer[p]) = 0
        /\ Solvent(body[p], auc, p, stake[p], offer[p])
    BY <1>1, AvailableIs
  <1> DEFINE extra == IF i \in NoDrop THEN Cost ELSE 0
  <1>3. {i} \in SUBSET Item /\ Fee \in Nat /\ -Fee \in Int /\ extra \in Nat /\ -extra \in Int /\ -Fee - extra \in Int
    BY Constants
  <1>4. \E b \in Body : body' = [body EXCEPT ![p] = b] /\ Solvent(b, auc, p, stake[p], offer[p])
    <2>1. CASE k = "bank"
      <3> DEFINE b1 == Gain(body[p], "gold", -Fee)
                 b2 == Gain(b1, "qp", IF i \in NoDrop THEN -Cost ELSE 0)
                 b3 == Lose(b2, {i})
      <3>1. body' = [body EXCEPT ![p] = b3] /\ body[p].gold >= Fee /\ (i \in NoDrop => Available(p, "qp") >= Cost)
        BY <2>1 DEF AuctionAdd
      <3>2. (IF i \in NoDrop THEN -Cost ELSE 0) = -extra
        OBVIOUS
      <3>3. b1 \in Body /\ b1.bank = body[p].bank /\ b1.qp = body[p].qp
        <4>1. body[p].gold + (-Fee) >= 0
          BY <1>2, <1>3, <3>1, Things
        <4>2. QED BY <1>2, <1>3, <4>1, Gains, SumsOfGains
      <3> HIDE DEF b1, extra
      <3>4. b2 \in Body /\ b2.bank = b1.bank /\ b2.qp = b1.qp + (-extra)
        BY <1>3, <3>2, <3>3, Gains, SumsOfGains
      <3> HIDE DEF b2
      <3>5. b3 \in Body /\ b3.bank = b2.bank /\ b3.qp = b2.qp
        BY <1>3, <3>4, Things, SumsOfThings
      <3> HIDE DEF b3
      <3>6. body[p].qp - extra >= Held(auc, p, "qp")
        <4>1. Available(p, "qp") = body[p].qp - Held(auc, p, "qp")
          BY <1>1, AvailableIs
        <4>2. body[p].qp >= Held(auc, p, "qp")
          BY <1>2 DEF Solvent
        <4>3. CASE i \in NoDrop
          <5>1. body[p].qp - Held(auc, p, "qp") >= extra
            BY <3>1, <4>1, <4>3 DEF extra
          <5>2. QED BY <1>2, <1>3, <5>1
        <4>4. CASE i \notin NoDrop
          BY <1>2, <4>2, <4>4 DEF extra
        <4>5. QED BY <4>3, <4>4
      <3>7. Solvent(b3, auc, p, stake[p], offer[p])
        BY <1>2, <1>3, <3>3, <3>4, <3>5, <3>6 DEF Solvent
      <3>8. QED BY <3>1, <3>5, <3>7
    <2>2. CASE k = "qp"
      <3> DEFINE b1 == Gain(body[p], "qp", -Fee - extra)
                 b2 == Lose(b1, {i})
      <3>1. body' = [body EXCEPT ![p] = b2] /\ body[p].qp - Held(auc, p, "qp") >= Fee + extra
        BY <1>1, <2>2, AvailableIs DEF AuctionAdd
      <3> HIDE DEF extra
      <3>2. b1 \in Body /\ b1.bank = body[p].bank /\ b1.qp = body[p].qp + (-Fee - extra)
        BY <1>2, <1>3, Gains, SumsOfGains
      <3> HIDE DEF b1
      <3>3. b2 \in Body /\ b2.bank = b1.bank /\ b2.qp = b1.qp
        BY <1>3, <3>2, Things, SumsOfThings
      <3> HIDE DEF b2
      <3>4. Solvent(b2, auc, p, stake[p], offer[p])
        BY <1>2, <1>3, <3>1, <3>2, <3>3 DEF Solvent
      <3>5. QED BY <3>1, <3>3, <3>4
    <2>3. QED BY <2>1, <2>2, Constants
  <1>5. PICK b \in Body : body' = [body EXCEPT ![p] = b] /\ Solvent(b, auc, p, stake[p], offer[p])
    BY <1>4
  <1>6. TypeOK /\ TypeOK' /\ saved' = saved /\ UNCHANGED <<stake, offer>>
    BY <1>1 DEF BInv, disk, trade
  <1>7. Weaker(auc, auc')
    <2> DEFINE a == [owner |-> p, bidder |-> Nil, amount |-> 0, kind |-> k, left |-> Duration]
    <2>1. auc' = [auc EXCEPT ![i] = a] /\ a.bidder = Nil
      BY DEF AuctionAdd
    <2> HIDE DEF a
    <2>2. QED BY <2>1, Typed DEF BInv, Weaker
  <1>8. QED BY <1>5, <1>6, <1>7, Spends

\* A bid is made of what is available, and of the bid it raises.
LEMMA BidFunded ==
    ASSUME BInv, BInv', Funded, NEW p \in Player, NEW i \in Item, NEW n \in Amounts, Bid(p, i, n)
    PROVE  Funded'
  <1>1. /\ p \in online /\ with[p] = Nil /\ UNCHANGED <<body, online, hoard, disk, trade>> /\ auc[i] # Nil
        /\ n <= Has(p, auc[i]) /\ n \in Nat
    BY Constants DEF Bid
  <1>2. auc \in Sales /\ auc' \in Sales /\ auc[i] \in Auction /\ auc[i].kind \in {"bank", "qp"} /\ auc[i].amount \in Nat
    BY <1>1, Constants DEF BInv, TypeOK, Sales, Auction
  <1>3. /\ auc'[i] # Nil /\ auc'[i].bidder = p /\ auc'[i].amount = n /\ auc'[i].kind = auc[i].kind
        /\ \A j \in Item \ {i} : auc'[j] = auc[j]
    <2> DEFINE l == IF auc[i].left <= 1 THEN auc[i].left + Extension ELSE auc[i].left
               new == [auc[i] EXCEPT !.bidder = p, !.amount = n, !.left = l]
    <2>1. auc' = [auc EXCEPT ![i] = new]
      BY DEF Bid
    <2>2. l \in Nat
      BY <1>2, Constants DEF Auction
    <2> HIDE DEF l
    <2>3. new \in Auction /\ new.bidder = p /\ new.amount = n /\ new.kind = auc[i].kind
      BY <1>1, <1>2, <2>2, Constants DEF Auction
    <2> HIDE DEF new
    <2>4. QED BY <1>2, <2>1, <2>3, Constants DEF Sales
  <1>4. /\ body[p].bank \in Int /\ body[p].qp \in Int /\ body[p] \in Body /\ body[p] # Nil
        /\ Available(p, "bank") = body[p].bank - Held(auc, p, "bank")
        /\ Available(p, "qp") = body[p].qp - Held(auc, p, "qp")
        /\ Solvent(body[p], auc, p, stake[p], offer[p]) /\ stake[p] = 0 /\ Price(offer[p]) = 0
    BY <1>1, AvailableIs, Playing
  <1>5. ASSUME NEW q \in Player, NEW k \in {"bank", "qp"}
        PROVE  /\ Held(auc, q, k) \in Nat /\ Held(auc', q, k) \in Nat
               /\ Pledged(auc, q, k)[i] \in Nat
               /\ Pledged(auc, q, k)[i] = IF auc[i].kind = k /\ auc[i].bidder = q THEN auc[i].amount ELSE 0
               /\ Pledged(auc', q, k)[i] = IF auc[i].kind = k /\ p = q THEN n ELSE 0
               /\ Held(auc', q, k) = Held(auc, q, k) - Pledged(auc, q, k)[i] + Pledged(auc', q, k)[i]
    BY <1>1, <1>2, <1>3, HeldNat, PledgedNat, HeldOne
  <1>6. ASSUME NEW q \in Player \ {p}, NEW k \in {"bank", "qp"} PROVE Held(auc', q, k) <= Held(auc, q, k)
    BY <1>5
  <1>7. ASSUME NEW k \in {"bank", "qp"} PROVE body[p][k] >= Held(auc', p, k)
    <2>1. body[p][k] \in Int /\ body[p][k] >= Held(auc, p, k) /\ Available(p, k) = body[p][k] - Held(auc, p, k)
      <3>1. CASE k = "bank"
        BY <1>4, <1>5, <3>1 DEF Solvent
      <3>2. CASE k = "qp"
        BY <1>4, <1>5, <3>2 DEF Solvent
      <3>3. QED BY <3>1, <3>2
    <2>2. CASE auc[i].kind = k
      <3>1. n <= body[p][k] - Held(auc, p, k) + Pledged(auc, p, k)[i]
        BY <1>1, <1>5, <2>1, <2>2 DEF Has
      <3>2. Held(auc', p, k) = Held(auc, p, k) - Pledged(auc, p, k)[i] + n
        BY <1>5, <2>2
      <3>3. Held(auc, p, k) \in Nat /\ Pledged(auc, p, k)[i] \in Nat /\ n \in Nat
        BY <1>1, <1>5
      <3>4. QED BY <2>1, <3>1, <3>2, <3>3
    <2>3. CASE auc[i].kind # k
      <3>1. Held(auc', p, k) = Held(auc, p, k)
        BY <1>5, <2>3
      <3>2. QED BY <2>1, <3>1
    <2>4. QED BY <2>2, <2>3
  <1>8. SUFFICES ASSUME NEW q \in Player, Now(q)' # Nil PROVE Solvent(Now(q)', auc', q, stake'[q], offer'[q])
    BY FundedIs
  <1>9. Now(q)' = Now(q) /\ stake' = stake /\ offer' = offer
    BY <1>1 DEF Now, disk, trade
  <1>10. CASE q = p
    <2>1. Now(q) = body[p]
      BY <1>4, <1>10 DEF Now
    <2>2. body[p].bank >= Held(auc', p, "bank") /\ body[p].qp >= Held(auc', p, "qp")
      BY <1>7
    <2>3. Held(auc', p, "bank") \in Nat /\ Held(auc', p, "qp") \in Nat
      BY <1>5
    <2>4. QED BY <1>4, <1>9, <1>10, <2>1, <2>2, <2>3 DEF Solvent
  <1>11. CASE q # p
    <2>1. Solvent(Now(q), auc, q, stake[q], offer[q])
      BY <1>8, <1>9, FundedIs
    <2>2. Held(auc', q, "bank") <= Held(auc, q, "bank") /\ Held(auc', q, "qp") <= Held(auc, q, "qp")
      BY <1>6, <1>11
    <2>3. /\ Held(auc', q, "bank") \in Nat /\ Held(auc, q, "bank") \in Nat
          /\ Held(auc', q, "qp") \in Nat /\ Held(auc, q, "qp") \in Nat
      BY <1>5
    <2>4. Now(q).bank \in Int /\ Now(q).qp \in Int /\ stake[q] \in Nat /\ Price(offer[q]) \in Nat
      <3>1. Now(q) \in Body
        BY <1>8, <1>9, Typed DEF BInv, Now
      <3>2. QED BY <3>1, PriceNat, Typed DEF BInv, Body
    <2>5. QED BY <1>9, <2>1, <2>2, <2>3, <2>4 DEF Solvent
  <1>12. QED BY <1>10, <1>11

\* Where nobody's account changes and no bid is made.
LEMMA StillFunded ==
    ASSUME BInv, BInv', Funded, Weaker(auc, auc'),
           \A p \in Player : Now(p)' # Nil => Now(p)' = Now(p),
           \A p \in Player : stake'[p] \in {stake[p], 0} /\ offer'[p] \in {offer[p], {}}
    PROVE  Funded'
  <1>1. ASSUME NEW p \in Player, Now(p)' # Nil
        PROVE  Now(p) # Nil /\ Now(p)'.bank >= Now(p).bank /\ Now(p)'.qp >= Now(p).qp
    <2>1. Now(p)' = Now(p) /\ Now(p) \in Body
      BY <1>1, Typed DEF BInv, Now
    <2>2. Now(p).bank \in Int /\ Now(p).qp \in Int
      BY <2>1 DEF Body
    <2>3. QED BY <1>1, <2>1, <2>2
  <1>2. TypeOK /\ TypeOK'
    BY DEF BInv
  <1>3. QED BY <1>1, <1>2, Calm

LEMMA ClockFunded ==
    ASSUME BInv, BInv', Funded, Tick \/ \E i \in Item : ForceEnd(i)
    PROVE  Funded'
  <1>1. UNCHANGED <<body, saved, trade>>
    BY DEF Tick, ForceEnd, disk
  <1>2. Weaker(auc, auc')
    <2>1. \A i \in Item : auc[i] = Nil \/ auc[i] \in Auction
      BY Typed DEF BInv
    <2>2. CASE Tick
      <3>1. auc' = Aged(auc)
        BY <2>2 DEF Tick, AucUpdate
      <3>2. QED BY <2>1, <3>1 DEF Aged, Weaker, Auction
    <2>3. ASSUME NEW i \in Item, ForceEnd(i) PROVE Weaker(auc, auc')
      <3>1. auc' = [auc EXCEPT ![i].left = 0] /\ auc[i] # Nil
        BY <2>3 DEF ForceEnd, AucUpdate
      <3>2. auc' = [auc EXCEPT ![i] = [auc[i] EXCEPT !.left = 0]]
        BY <3>1
      <3>3. \A j \in Item : auc'[j] = IF j = i THEN [auc[i] EXCEPT !.left = 0] ELSE auc[j]
        BY <3>2, Typed DEF BInv
      <3>4. QED BY <2>1, <3>1, <3>3 DEF Weaker, Auction
    <2>4. QED BY <2>2, <2>3
  <1>3. \A p \in Player : Now(p)' = Now(p) /\ stake'[p] \in {stake[p], 0} /\ offer'[p] \in {offer[p], {}}
    BY <1>1 DEF Now, trade
  <1>4. QED BY <1>2, <1>3, StillFunded

LEMMA FilesFunded ==
    ASSUME BInv, BInv', Funded, SaveChar \/ SaveAuctions \/ SaveTreasuries
    PROVE  Funded'
  <1>1. UNCHANGED <<auc, trade>>
    BY DEF SaveChar, SaveAuctions, SaveTreasuries
  <1>2. \A p \in Player : Now(p)' = Now(p)
    <2>1. CASE SaveChar
      <3> DEFINE h == Head(todo)
      <3>1. /\ h \in Player /\ saved' = [saved EXCEPT ![h] = body[h]]
            /\ body' = IF h \in online THEN body ELSE [body EXCEPT ![h] = Nil]
            /\ ~Idle
        BY <2>1 DEF SaveChar
      <3>2. 1 \in DOMAIN todo /\ todo[1] = h
        BY <3>1, Rest
      <3> HIDE DEF h
      <3>3. body[h] # Nil
        BY <3>1, <3>2 DEF BInv, Agenda
      <3>4. QED BY <3>1, <3>3, Typed DEF BInv, Now
    <2>2. CASE SaveAuctions \/ SaveTreasuries
      BY <2>2 DEF SaveAuctions, SaveTreasuries, Now
    <2>3. QED BY <2>1, <2>2
  <1>3. Weaker(auc, auc')
    BY <1>1 DEF Weaker
  <1>4. QED BY <1>1, <1>2, <1>3, StillFunded DEF trade

\* trade_clear only takes promises back.
LEMMA ClearsPromises ==
    ASSUME BInv, NEW P, Clear(P)
    PROVE  \A p \in Player : stake'[p] \in {stake[p], 0} /\ offer'[p] \in {offer[p], {}}
  BY DEF Clear, Cleared

LEMMA ComingFunded ==
    ASSUME BInv, BInv', Funded, NEW p \in Player, Enter(p) \/ Quit(p) \/ Delete(p)
    PROVE  Funded'
  <1>1. Idle /\ auc' = auc
    BY DEF Enter, Quit, Delete
  <1>2. \A q \in Player \ online : body[q] = Nil
    BY <1>1, Leisure
  <1>3. \A q \in Player : Now(q)' # Nil => Now(q)' = Now(q)
    <2>1. CASE Enter(p)
      <3>1. p \notin online /\ saved[p] # Nil /\ saved' = saved /\ body' = [body EXCEPT ![p] = saved[p]]
        BY <2>1 DEF Enter, disk
      <3>2. QED BY <1>2, <3>1, Typed DEF BInv, Now
    <2>2. CASE Quit(p)
      <3>1. p \in online /\ saved' = [saved EXCEPT ![p] = body[p]] /\ body' = [body EXCEPT ![p] = Nil]
        BY <2>2 DEF Quit
      <3>2. body[p] # Nil
        BY <3>1, Playing
      <3>3. QED BY <3>1, <3>2, Typed DEF BInv, Now
    <2>3. CASE Delete(p)
      <3>1. saved' = [saved EXCEPT ![p] = Nil] /\ body' = [body EXCEPT ![p] = Nil]
        BY <2>3 DEF Delete
      <3>2. QED BY <3>1, Typed DEF BInv, Now
    <2>4. QED BY <2>1, <2>2, <2>3
  <1>4. \A q \in Player : stake'[q] \in {stake[q], 0} /\ offer'[q] \in {offer[q], {}}
    <2>1. CASE Enter(p)
      BY <2>1 DEF Enter, trade
    <2>2. CASE Quit(p) \/ Delete(p)
      BY <2>2, ClearsPromises DEF Quit, Delete, Abort
    <2>3. QED BY <2>1, <2>2
  <1>5. Weaker(auc, auc')
    BY <1>1 DEF Weaker
  <1>6. QED BY <1>3, <1>4, <1>5, StillFunded

LEMMA RestartFunded ==
    ASSUME BInv, BInv', Funded, Careful, Restart
    PROVE  Funded'
  <1>1. Idle /\ body' = [q \in Player |-> Nil] /\ auc' = aucFile /\ saved' = saved /\ Clear(Player)
    BY DEF Restart, disk
  <1>2. aucFile = auc /\ \A q \in Player : Now(q) = saved[q]
    BY <1>1, Leisure
  <1>3. \A q \in Player : Now(q)' = Now(q)
    BY <1>1, <1>2 DEF Now
  <1>4. Weaker(auc, auc')
    BY <1>1, <1>2 DEF Weaker
  <1>5. QED BY <1>1, <1>3, <1>4, ClearsPromises, StillFunded

LEMMA TalkFunded ==
    ASSUME BInv, BInv', Funded, NEW p \in Player,
           \/ TradeAbort(p) \/ TradeAccept(p)
           \/ \E q \in Player : TradeStart(p, q)
           \/ \E i \in Item : TradeAdd(p, i)
           \/ \E n \in Amounts : TradeGold(p, n)
    PROVE  Funded'
  <1>1. UNCHANGED <<body, online, auc, hoard, disk, todo>>
    BY DEF TradeAbort, TradeAccept, TradeStart, TradeAdd, TradeGold
  <1>2. Weaker(auc, auc') /\ \A q \in Player : Now(q)' = Now(q)
    BY <1>1 DEF Weaker, Now, disk
  <1>3. CASE TradeAbort(p) \/ TradeAccept(p) \/ \E q \in Player : TradeStart(p, q)
    <2>1. \A q \in Player : stake'[q] \in {stake[q], 0} /\ offer'[q] \in {offer[q], {}}
      <3>1. CASE TradeAbort(p)
        BY <3>1, ClearsPromises DEF TradeAbort, Abort
      <3>2. CASE TradeAccept(p)
        BY <3>2 DEF TradeAccept
      <3>3. CASE \E q \in Player : TradeStart(p, q)
        BY <3>3 DEF TradeStart, Cleared
      <3>4. QED BY <1>3, <3>1, <3>2, <3>3
    <2>2. QED BY <1>2, <2>1, StillFunded
  <1>4. ASSUME NEW f \in Sales, f = auc, p \in online,
               \A q \in Player \ {p} : stake'[q] = stake[q] /\ offer'[q] = offer[q],
               Solvent(body[p], f, p, stake'[p], offer'[p])
        PROVE  Funded'
    <2>1. body[p] # Nil
      BY <1>4, Playing
    <2>2. SUFFICES ASSUME NEW q \in Player, Now(q)' # Nil PROVE Solvent(Now(q)', auc', q, stake'[q], offer'[q])
      BY FundedIs
    <2>3. CASE q = p
      BY <1>1, <1>2, <1>4, <2>1, <2>3 DEF Now
    <2>4. CASE q # p
      BY <1>1, <1>2, <1>4, <2>2, <2>4, FundedIs
    <2>5. QED BY <2>3, <2>4
  <1>5. auc \in Sales /\ offer \in [Player -> SUBSET Item] /\ stake \in [Player -> Nat]
    BY Typed DEF BInv, Sales
  <1>6. ASSUME NEW i \in Item, TradeAdd(p, i) PROVE Funded'
    <2>1. /\ with[p] # Nil /\ i \in body[p].items \ offer[p] /\ stake' = stake
          /\ i \in NoDrop => Available(p, "qp") >= Cost * (1 + Cardinality(offer[p] \cap NoDrop))
          /\ offer'[p] = offer[p] \cup {i} /\ \A q \in Player \ {p} : offer'[q] = offer[q]
      BY <1>5, <1>6 DEF TradeAdd, OpenToChange
    <2>2. p \in online
      BY <2>1, Mutual
    <2>3. /\ Solvent(body[p], auc, p, stake[p], offer[p]) /\ Available(p, "qp") = body[p].qp - Held(auc, p, "qp")
          /\ body[p].qp \in Int /\ Held(auc, p, "qp") \in Nat
      BY <2>2, AvailableIs
    <2>4. Solvent(body[p], auc, p, stake'[p], offer'[p])
      <3> DEFINE O == offer[p] \cap NoDrop
      <3>1. CASE i \notin NoDrop
        <4>1. offer'[p] \cap NoDrop = offer[p] \cap NoDrop
          BY <2>1, <3>1
        <4>2. Price(offer'[p]) = Price(offer[p])
          BY <4>1, Zenon DEF Price
        <4>3. QED BY <2>1, <2>3, <4>2 DEF Solvent
      <3>2. CASE i \in NoDrop
        <4>1. offer'[p] \cap NoDrop = O \cup {i} /\ i \notin O
          BY <2>1, <3>2
        <4>2. IsFiniteSet(O)
          BY <1>5, Constants, FS_Subset
        <4> HIDE DEF O
        <4>3. Cardinality(O) \in Nat /\ Cardinality(O \cup {i}) = Cardinality(O) + 1
          BY <4>1, <4>2, FS_CardinalityType, FS_AddElement
        <4>4. Cardinality(O \cup {i}) = 1 + Cardinality(O)
          BY <4>3
        <4>5. Price(offer'[p]) = Cost * (1 + Cardinality(O))
          BY <4>1, <4>4, Zenon DEF Price
        <4>6. Available(p, "qp") >= Cost * (1 + Cardinality(O))
          BY <2>1, <3>2 DEF O
        <4>7. Price(offer'[p]) \in Nat
          BY <1>5, <2>1, PriceNat
        <4>8. body[p].qp >= Held(auc, p, "qp") + Price(offer'[p])
          BY <2>3, <4>5, <4>6, <4>7
        <4>9. body[p].bank >= Held(auc, p, "bank") + stake'[p]
          BY <2>1, <2>3 DEF Solvent
        <4>10. QED BY <4>8, <4>9 DEF Solvent
      <3>3. QED BY <3>1, <3>2
    <2>5. QED BY <1>4, <1>5, <2>1, <2>2, <2>4
  <1>7. ASSUME NEW n \in Amounts, TradeGold(p, n) PROVE Funded'
    <2>1. /\ with[p] # Nil /\ stake[p] = 0 /\ n <= Available(p, "bank") /\ offer' = offer /\ n \in Nat
          /\ stake'[p] = n /\ \A q \in Player \ {p} : stake'[q] = stake[q]
      BY <1>5, <1>7, Constants DEF TradeGold, OpenToChange
    <2>2. p \in online
      BY <2>1, Mutual
    <2>3. /\ Solvent(body[p], auc, p, stake[p], offer[p]) /\ Available(p, "bank") = body[p].bank - Held(auc, p, "bank")
          /\ body[p].bank \in Int /\ Held(auc, p, "bank") \in Nat
      BY <2>2, AvailableIs
    <2>4. Solvent(body[p], auc, p, stake'[p], offer'[p])
      BY <2>1, <2>3 DEF Solvent
    <2>5. QED BY <1>4, <1>5, <2>1, <2>2, <2>4
  <1>8. QED BY <1>3, <1>6, <1>7

\* What becomes of the sums of the two who trade.
LEMMA TransferSums ==
    ASSUME BInv, NEW b \in [Player -> Body \cup {Nil}], NEW p \in Player, with[p] # Nil, b[p] \in Body, b[with[p]] \in Body
    PROVE  /\ Transferred(b, p)[p].bank = b[p].bank - stake[p] /\ Transferred(b, p)[p].qp = b[p].qp - Price(offer[p])
           /\ Transferred(b, p)[with[p]].bank = b[with[p]].bank + stake[p] /\ Transferred(b, p)[with[p]].qp = b[with[p]].qp
           /\ Transferred(b, p)[p].gold = b[p].gold /\ Transferred(b, p)[with[p]].gold = b[with[p]].gold
  <1> DEFINE q == with[p]
             c == Cost * Cardinality(offer[p] \cap NoDrop)
             x1 == Lose(b[p], offer[p])
             x2 == Gain(x1, "bank", -stake[p])
             x3 == Gain(x2, "qp", -Cost * Cardinality(offer[p] \cap NoDrop))
             y1 == Take(b[q], offer[p])
             y2 == Gain(y1, "bank", stake[p])
  <1>1. q \in Player /\ q # p
    BY Mutual
  <1>2. offer[p] \in SUBSET Item /\ stake[p] \in Nat /\ -stake[p] \in Int /\ stake[p] \in Int
    BY Typed DEF BInv
  <1>3. Price(offer[p]) \in Nat /\ -Cost * Cardinality(offer[p] \cap NoDrop) = -Price(offer[p])
    <2>1. Cardinality(offer[p] \cap NoDrop) \in Nat
      BY <1>2, Constants, FS_Subset, FS_CardinalityType
    <2>2. Cost \in Nat
      BY Constants
    <2>3. \A x, y \in Nat : -x * y = -(x * y)
      OBVIOUS
    <2>4. QED BY <1>2, <2>1, <2>2, <2>3, PriceNat DEF Price
  <1>4. Transferred(b, p)[p] = x3 /\ Transferred(b, p)[q] = y2
    BY <1>1 DEF Transferred
  <1>5. x1 \in Body /\ x1.bank = b[p].bank /\ x1.qp = b[p].qp /\ x1.gold = b[p].gold
    BY <1>2, Things, SumsOfThings
  <1> HIDE DEF x1
  <1>6. x2 \in Body /\ x2.bank = x1.bank + (-stake[p]) /\ x2.qp = x1.qp /\ x2.gold = x1.gold
    BY <1>2, <1>5, Gains, SumsOfGains
  <1> HIDE DEF x2
  <1>7. x3.bank = x2.bank /\ x3.qp = x2.qp + (-Price(offer[p])) /\ x3.gold = x2.gold
    <2> DEFINE n == -Price(offer[p])
    <2>1. x3 = Gain(x2, "qp", n)
      BY <1>3, Zenon
    <2>2. n \in Int
      BY <1>3
    <2> HIDE DEF n, x3
    <2>3. x3.bank = x2.bank /\ x3.qp = x2.qp + n /\ x3.gold = x2.gold
      BY <1>6, <2>1, <2>2, Gains, SumsOfGains
    <2>4. QED BY <2>3 DEF n
  <1> HIDE DEF x3
  <1>8. y1 \in Body /\ y1.bank = b[q].bank /\ y1.qp = b[q].qp /\ y1.gold = b[q].gold
    BY <1>2, Things, SumsOfThings
  <1> HIDE DEF y1
  <1>9. y2.bank = y1.bank + stake[p] /\ y2.qp = y1.qp /\ y2.gold = y1.gold
    BY <1>2, <1>8, Gains, SumsOfGains
  <1> HIDE DEF y2
  <1>10. b[p].bank \in Int /\ b[p].qp \in Int
    BY DEF Body
  <1>11. QED BY <1>2, <1>3, <1>4, <1>5, <1>6, <1>7, <1>8, <1>9, <1>10

\* Both have what they stake, whatever they get.
LEMMA TradeFinishFunded ==
    ASSUME BInv, BInv', Funded, NEW p \in Player, TradeFinish(p)
    PROVE  Funded'
  <1> DEFINE q == with[p]
             b == Transferred(body, p)
             c == Transferred(b, q)
  <1>1. /\ body' = c /\ Clear({p, q}) /\ saved' = saved /\ auc' = auc /\ with[p] # Nil
    BY DEF TradeFinish, disk
  <1>2. q \in Player /\ q # p /\ with[q] = p /\ p \in online /\ q \in online /\ p # Nil
    BY <1>1, Mutual, Constants
  <1>3. body \in [Player -> Body \cup {Nil}] /\ body[p] \in Body /\ body[q] \in Body /\ body[p] # Nil /\ body[q] # Nil
    BY <1>2, Playing, Typed DEF BInv
  <1>4. /\ b \in [Player -> Body \cup {Nil}] /\ b[p] \in Body /\ b[q] \in Body
        /\ \A r \in Player \ {p, q} : b[r] = body[r]
        /\ b[p].bank = body[p].bank - stake[p] /\ b[p].qp = body[p].qp - Price(offer[p])
        /\ b[q].bank = body[q].bank + stake[p] /\ b[q].qp = body[q].qp
    BY <1>1, <1>3, Transfer, TransferSums
  <1> HIDE DEF b
  <1>5. /\ c[p] \in Body /\ c[q] \in Body /\ \A r \in Player \ {p, q} : c[r] = b[r]
        /\ c[q].bank = b[q].bank - stake[q] /\ c[q].qp = b[q].qp - Price(offer[q])
        /\ c[p].bank = b[p].bank + stake[q] /\ c[p].qp = b[p].qp
    <2>1. with[q] = p /\ with[q] # Nil
      BY <1>2
    <2>2. b[q] \in Body /\ b[with[q]] \in Body
      BY <1>4, <2>1
    <2>3. QED BY <1>2, <1>4, <2>1, <2>2, Transfer, TransferSums
  <1> HIDE DEF c
  <1>6. ASSUME NEW r \in online
        PROVE  /\ body[r].bank \in Int /\ body[r].qp \in Int /\ Held(auc, r, "bank") \in Nat /\ Held(auc, r, "qp") \in Nat
               /\ stake[r] \in Nat /\ Price(offer[r]) \in Nat
               /\ body[r].bank >= Held(auc, r, "bank") + stake[r] /\ body[r].qp >= Held(auc, r, "qp") + Price(offer[r])
    BY AvailableIs DEF Solvent
  <1>7. stake'[p] = 0 /\ stake'[q] = 0 /\ offer'[p] = {} /\ offer'[q] = {} /\ Price({}) = 0
    BY <1>1, <1>2, PriceNat DEF Clear, Cleared
  <1>8. SUFFICES ASSUME NEW r \in Player, Now(r)' # Nil PROVE Solvent(Now(r)', auc', r, stake'[r], offer'[r])
    BY FundedIs
  <1>9. CASE r = p
    <2>1. Now(r)' = c[p]
      BY <1>1, <1>3, <1>5, <1>9, Constants DEF Now
    <2>2. c[p].bank >= Held(auc, p, "bank") /\ c[p].qp >= Held(auc, p, "qp")
      BY <1>2, <1>4, <1>5, <1>6
    <2>3. Held(auc, p, "bank") \in Nat /\ Held(auc, p, "qp") \in Nat
      BY <1>2, <1>6
    <2>4. QED BY <1>1, <1>7, <1>9, <2>1, <2>2, <2>3 DEF Solvent
  <1>10. CASE r = q
    <2> HIDE DEF q
    <2>1. Now(r)' = c[q]
      BY <1>1, <1>3, <1>5, <1>10, Constants DEF Now
    <2>2. c[q].bank >= Held(auc, q, "bank") /\ c[q].qp >= Held(auc, q, "qp")
      <3>1. /\ body[q].bank \in Int /\ body[q].qp \in Int /\ Held(auc, q, "bank") \in Nat /\ Held(auc, q, "qp") \in Nat
            /\ stake[q] \in Nat /\ Price(offer[q]) \in Nat
            /\ body[q].bank >= Held(auc, q, "bank") + stake[q] /\ body[q].qp >= Held(auc, q, "qp") + Price(offer[q])
        BY <1>2, <1>6
      <3>2. stake[p] \in Nat
        BY <1>2, <1>6
      <3>3. c[q].bank = body[q].bank + stake[p] - stake[q] /\ c[q].qp = body[q].qp - Price(offer[q])
        BY <1>4, <1>5, <3>1, <3>2
      <3>4. QED BY <3>1, <3>2, <3>3
    <2>3. Held(auc, q, "bank") \in Nat /\ Held(auc, q, "qp") \in Nat
      BY <1>2, <1>6
    <2>4. QED BY <1>1, <1>7, <1>10, <2>1, <2>2, <2>3 DEF Solvent
  <1>11. CASE r \notin {p, q}
    <2>1. Now(r)' = Now(r) /\ stake'[r] = stake[r] /\ offer'[r] = offer[r]
      BY <1>1, <1>4, <1>5, <1>11 DEF Now, Clear, Cleared
    <2>2. QED BY <1>1, <1>8, <2>1, FundedIs
  <1>12. QED BY <1>9, <1>10, <1>11

\* What becomes of the sums of the two who are parties of an auction.
Settlement(w, o, d, k, m) ==
    /\ Now(w) \in Body /\ Now(w)' \in Body /\ Now(w)'.gold = Now(w).gold
    /\ w = d => /\ o # w /\ Now(o) \in Body /\ Now(o)' \in Body /\ Now(o)'.gold = Now(o).gold
                /\ k = "bank" => /\ Now(w)'.bank = Now(w).bank - m /\ Now(w)'.qp = Now(w).qp
                                 /\ Now(o)'.bank = Now(o).bank + m /\ Now(o)'.qp = Now(o).qp
                /\ k = "qp" => /\ Now(w)'.qp = Now(w).qp - m /\ Now(w)'.bank = Now(w).bank
                               /\ Now(o)'.qp = Now(o).qp + m /\ Now(o)'.bank = Now(o).bank
    /\ w # d => Now(w)'.bank = Now(w).bank /\ Now(w)'.qp = Now(w).qp
    /\ \A q \in Player : q = w \/ (w = d /\ q = o) \/ Now(q)' = Now(q)

LEMMA SettlingSums ==
    ASSUME BInv, NEW i \in Item, auc[i] # Nil, NEW w \in Player, NEW o \in Player, NEW d, NEW k \in {"bank", "qp"}, NEW m \in Nat,
           o = auc[i].owner, d = auc[i].bidder, k = auc[i].kind, m = auc[i].amount, w \in {o, d},
           body' = Settled(i, w), saved' = saved
    PROVE  Settlement(w, o, d, k, m)
  <1>1. /\ Now(w) # Nil /\ Now(o) # Nil /\ d # o /\ body'[w] \in Body /\ (w = d => body'[o] \in Body)
        /\ \A q \in Player : q = w \/ (w = d /\ q = o) \/ body'[q] = body[q]
    BY Settling
  <1>2. Now(w) \in Body /\ Now(o) \in Body
    BY <1>1, Typed DEF BInv, Now
  <1>3. \A b \in Body : b # Nil
    BY Constants
  <1>4. Now(w)' = body'[w] /\ (w = d => Now(o)' = body'[o])
    BY <1>1, <1>3 DEF Now
  <1>5. \A q \in Player : q = w \/ (w = d /\ q = o) \/ Now(q)' = Now(q)
    BY <1>1 DEF Now
  <1>6. m \in Int /\ -m \in Int /\ {i} \in SUBSET Item
    OBVIOUS
  <1> DEFINE n == -m
             t == Take(Now(w), {i})
             x == Gain(t, k, n)
             y == Gain(Now(o), k, m)
  <1>7. body' = [p \in Player |-> IF p = w /\ w = d THEN x
                                  ELSE IF p = w THEN t
                                  ELSE IF w = d /\ p = o /\ Now(o) # Nil THEN y
                                  ELSE body[p]]
    <2>1. \A p \in Player : p = o => Now(p) = Now(o)
      OBVIOUS
    <2>2. \A p \in Player : p = w => Now(p) = Now(w)
      OBVIOUS
    <2>3. QED BY <2>1, <2>2 DEF Settled
  <1>8. n \in Int /\ \A z \in Int : z + n = z - m
    BY <1>6
  <1> HIDE DEF n
  <1>9. t \in Body /\ t.bank = Now(w).bank /\ t.qp = Now(w).qp /\ t.gold = Now(w).gold
    BY <1>2, <1>6, Things, SumsOfThings
  <1> HIDE DEF t
  <1>10. /\ x.gold = t.gold
         /\ k = "bank" => x.bank = t.bank + n /\ x.qp = t.qp
         /\ k = "qp" => x.qp = t.qp + n /\ x.bank = t.bank
    BY <1>8, <1>9, SumsOfGain
  <1> HIDE DEF x
  <1>11. /\ y.gold = Now(o).gold
         /\ k = "bank" => y.bank = Now(o).bank + m /\ y.qp = Now(o).qp
         /\ k = "qp" => y.qp = Now(o).qp + m /\ y.bank = Now(o).bank
    BY <1>2, <1>6, SumsOfGain
  <1> HIDE DEF y
  <1>12. t.bank \in Int /\ t.qp \in Int
    BY <1>9, Things
  <1>13. CASE w # d
    <2>1. body'[w] = t
      BY <1>7, <1>13
    <2>2. QED BY <1>1, <1>2, <1>4, <1>5, <1>9, <1>13, <2>1 DEF Settlement
  <1>14. CASE w = d
    <2>1. o # w /\ body'[w] = x /\ body'[o] = y
      BY <1>1, <1>7, <1>14
    <2>2. k = "bank" => x.bank = Now(w).bank - m
      BY <1>8, <1>9, <1>10, <1>12
    <2>3. k = "qp" => x.qp = Now(w).qp - m
      BY <1>8, <1>9, <1>10, <1>12
    <2>4. QED BY <1>1, <1>2, <1>4, <1>5, <1>9, <1>10, <1>11, <1>14, <2>1, <2>2, <2>3 DEF Settlement
  <1>15. QED BY <1>13, <1>14

\* Who pays for what he bought has one bid less.
LEMMA GiveFunded ==
    ASSUME BInv, BInv', Funded, NEW i \in Item, auc[i] # Nil, NEW w \in Player, w \in {auc[i].owner, auc[i].bidder},
           NEW r, Give(i, w, r)
    PROVE  Funded'
  <1>1. Now(w) # Nil
    <2>1. w # Nil /\ i \in Open
      BY Constants DEF Open
    <2>2. QED BY <2>1, PartiesThere DEF PartiesExist
  <1>2. body' = Settled(i, w) /\ auc' = [auc EXCEPT ![i] = Nil] /\ saved' = saved /\ stake' = stake /\ offer' = offer
    BY <1>1 DEF Give, disk, trade
  <1>a. auc[i] \in Auction
    BY Typed DEF BInv
  <1>o. PICK o \in Player : o = auc[i].owner
    BY <1>a DEF Auction
  <1>x. PICK x : x = auc[i].bidder
    OBVIOUS
  <1>k. PICK k \in {"bank", "qp"} : k = auc[i].kind
    BY <1>a, Constants DEF Auction
  <1>m. PICK a \in Nat : a = auc[i].amount
    BY <1>a DEF Auction
  <1>3. /\ Now(w) \in Body /\ Now(w)' \in Body
        /\ w = x => /\ o # w /\ Now(o) \in Body /\ Now(o)' \in Body
                    /\ k = "bank" => /\ Now(w)'.bank = Now(w).bank - a /\ Now(w)'.qp = Now(w).qp
                                     /\ Now(o)'.bank = Now(o).bank + a /\ Now(o)'.qp = Now(o).qp
                    /\ k = "qp" => /\ Now(w)'.qp = Now(w).qp - a /\ Now(w)'.bank = Now(w).bank
                                   /\ Now(o)'.qp = Now(o).qp + a /\ Now(o)'.bank = Now(o).bank
        /\ w # x => Now(w)'.bank = Now(w).bank /\ Now(w)'.qp = Now(w).qp
        /\ \A q \in Player : q = w \/ (w = x /\ q = o) \/ Now(q)' = Now(q)
    <2>1. w \in {o, x}
      BY <1>o, <1>x
    <2>2. Settlement(w, o, x, k, a)
      BY <1>2, <1>o, <1>x, <1>k, <1>m, <2>1, SettlingSums
    <2>3. QED BY <2>2 DEF Settlement
  <1>4. auc \in Sales /\ auc' \in Sales /\ auc'[i] = Nil /\ \A j \in Item \ {i} : auc'[j] = auc[j]
    BY <1>2, Typed DEF BInv, Sales
  <1>5. ASSUME NEW q \in Player, NEW l \in {"bank", "qp"}
        PROVE  /\ Held(auc, q, l) \in Nat /\ Held(auc', q, l) \in Nat
               /\ Held(auc', q, l) = Held(auc, q, l) - (IF k = l /\ x = q THEN a ELSE 0)
    <2>1. /\ Pledged(auc, q, l)[i] = IF k = l /\ x = q THEN a ELSE 0
          /\ Pledged(auc', q, l)[i] = 0
      BY <1>4, <1>k, <1>x, <1>m, PledgedNat
    <2>2. Held(auc', q, l) = Held(auc, q, l) - Pledged(auc, q, l)[i] + Pledged(auc', q, l)[i]
      BY <1>4, HeldOne
    <2>3. Held(auc, q, l) \in Nat /\ Held(auc', q, l) \in Nat
      BY <1>4, HeldNat
    <2>4. (IF k = l /\ x = q THEN a ELSE 0) \in Nat
      OBVIOUS
    <2>5. QED BY <2>1, <2>2, <2>3, <2>4
  <1>6. ASSUME NEW q \in Player PROVE /\ Held(auc', q, "bank") <= Held(auc, q, "bank")
                                      /\ Held(auc', q, "qp") <= Held(auc, q, "qp")
                                      /\ stake[q] \in Nat /\ Price(offer[q]) \in Nat
    <2>1. (IF k = "bank" /\ x = q THEN a ELSE 0) \in Nat /\ (IF k = "qp" /\ x = q THEN a ELSE 0) \in Nat
      OBVIOUS
    <2>2. Held(auc', q, "bank") <= Held(auc, q, "bank") /\ Held(auc', q, "qp") <= Held(auc, q, "qp")
      BY <1>5, <2>1
    <2>3. QED BY <2>2, PriceNat, Typed DEF BInv
  <1>7. SUFFICES ASSUME NEW q \in Player, Now(q)' # Nil PROVE Solvent(Now(q)', auc', q, stake[q], offer[q])
    BY <1>2, FundedIs
  <1>8. ASSUME Now(q) # Nil
        PROVE  /\ Now(q).bank \in Int /\ Now(q).qp \in Int
               /\ Now(q).bank >= Held(auc, q, "bank") + stake[q] /\ Now(q).qp >= Held(auc, q, "qp") + Price(offer[q])
    <2>1. Now(q) \in Body
      BY <1>8, Typed DEF BInv, Now
    <2>2. QED BY <1>8, <2>1, FundedIs DEF Body, Solvent
  <1>9. /\ Held(auc, q, "bank") \in Nat /\ Held(auc', q, "bank") \in Nat
        /\ Held(auc, q, "qp") \in Nat /\ Held(auc', q, "qp") \in Nat
        /\ Held(auc', q, "bank") <= Held(auc, q, "bank") /\ Held(auc', q, "qp") <= Held(auc, q, "qp")
        /\ stake[q] \in Nat /\ Price(offer[q]) \in Nat
    BY <1>5, <1>6
  <1>10. CASE q = w /\ w = x
    <2>0. /\ Now(q).bank \in Int /\ Now(q).qp \in Int
          /\ Now(q).bank >= Held(auc, q, "bank") + stake[q] /\ Now(q).qp >= Held(auc, q, "qp") + Price(offer[q])
      BY <1>1, <1>8, <1>10
    <2>1. CASE k = "bank"
      <3>1. Held(auc', q, "bank") = Held(auc, q, "bank") - a
        BY <1>5, <1>10, <2>1
      <3>2. Now(q)'.bank = Now(q).bank - a /\ Now(q)'.qp = Now(q).qp
        BY <1>3, <1>10, <2>1
      <3>3. QED BY <1>9, <2>0, <3>1, <3>2 DEF Solvent
    <2>2. CASE k = "qp"
      <3>1. Held(auc', q, "qp") = Held(auc, q, "qp") - a
        BY <1>5, <1>10, <2>2
      <3>2. Now(q)'.qp = Now(q).qp - a /\ Now(q)'.bank = Now(q).bank
        BY <1>3, <1>10, <2>2
      <3>3. QED BY <1>9, <2>0, <3>1, <3>2 DEF Solvent
    <2>3. QED BY <2>1, <2>2
  <1>11. CASE q = w /\ w # x
    <2>1. /\ Now(q).bank \in Int /\ Now(q).qp \in Int
          /\ Now(q).bank >= Held(auc, q, "bank") + stake[q] /\ Now(q).qp >= Held(auc, q, "qp") + Price(offer[q])
      BY <1>1, <1>8, <1>11
    <2>2. Now(q)'.bank = Now(q).bank /\ Now(q)'.qp = Now(q).qp
      BY <1>3, <1>11
    <2>3. QED BY <1>9, <2>1, <2>2 DEF Solvent
  <1>12. CASE q # w /\ w = x /\ q = o
    <2>1. Now(q) # Nil
      BY <1>3, <1>12, Constants
    <2>2. /\ Now(q).bank \in Int /\ Now(q).qp \in Int
          /\ Now(q).bank >= Held(auc, q, "bank") + stake[q] /\ Now(q).qp >= Held(auc, q, "qp") + Price(offer[q])
      BY <1>8, <2>1
    <2>3. \/ Now(q)'.bank = Now(q).bank + a /\ Now(q)'.qp = Now(q).qp
          \/ Now(q)'.qp = Now(q).qp + a /\ Now(q)'.bank = Now(q).bank
      BY <1>3, <1>12
    <2>4. Now(q)'.bank \in Int /\ Now(q)'.qp \in Int /\ Now(q)'.bank >= Now(q).bank /\ Now(q)'.qp >= Now(q).qp
      BY <2>2, <2>3
    <2>5. QED BY <1>9, <2>2, <2>4 DEF Solvent
  <1>13. CASE q # w /\ ~(w = x /\ q = o)
    <2>1. Now(q)' = Now(q)
      BY <1>3, <1>13
    <2>2. /\ Now(q).bank \in Int /\ Now(q).qp \in Int
          /\ Now(q).bank >= Held(auc, q, "bank") + stake[q] /\ Now(q).qp >= Held(auc, q, "qp") + Price(offer[q])
      BY <1>7, <1>8, <2>1
    <2>3. QED BY <1>9, <2>1, <2>2 DEF Solvent
  <1>14. QED BY <1>10, <1>11, <1>12, <1>13
LEMMA EndFunded ==
    ASSUME BInv, BInv', Funded, End
    PROVE  Funded'
  <1>1. ~Idle /\ Head(todo) \in Item /\ Give(Head(todo), Winner(auc[Head(todo)]), Tail(todo))
    BY DEF End
  <1>i. PICK i \in Item : i = Head(todo)
    BY <1>1
  <1>2. 1 \in DOMAIN todo /\ todo[1] = i
    BY <1>1, <1>i, Rest
  <1>3. auc[i] # Nil
    BY <1>2 DEF BInv, Agenda
  <1>4. auc[i] \in Auction
    BY <1>3, Typed DEF BInv
  <1>w. PICK w \in Player : w = Winner(auc[i]) /\ w \in {auc[i].owner, auc[i].bidder}
    BY <1>4 DEF Winner, Auction
  <1>r. PICK r : r = Tail(todo)
    OBVIOUS
  <1>5. Give(i, w, r)
    BY <1>1, <1>i, <1>r, <1>w
  <1>6. QED BY <1>3, <1>5, <1>w, GiveFunded

LEMMA CancelFunded ==
    ASSUME BInv, BInv', Funded, NEW i \in Item, Cancel(i)
    PROVE  Funded'
  <1>1. auc[i] # Nil /\ Give(i, auc[i].owner, <<Auctions>>)
    BY DEF Cancel
  <1>2. auc[i] \in Auction
    BY <1>1, Typed DEF BInv
  <1>w. PICK w \in Player : w = auc[i].owner
    BY <1>2 DEF Auction
  <1>r. PICK r : r = <<Auctions>>
    OBVIOUS
  <1>3. Give(i, w, r)
    BY <1>1, <1>w, <1>r
  <1>4. QED BY <1>1, <1>3, <1>w, GiveFunded

LEMMA StartFunded == Init => Funded
  <1>1. SUFFICES ASSUME Init, NEW p \in Player, Now(p) # Nil PROVE Solvent(Now(p), auc, p, stake[p], offer[p])
    BY FundedIs
  <1>2. body[p] = Nil /\ saved = Start /\ auc = [i \in Item |-> Nil] /\ offer[p] = {} /\ stake[p] = 0
    BY <1>1 DEF Init
  <1>3. ASSUME NEW k PROVE Held(auc, p, k) = 0
    <2>1. IsFiniteSet(Item)
      BY Constants
    <2>2. \A i \in Item : Pledged(auc, p, k)[i] = 0
      BY <1>2 DEF Pledged
    <2>3. QED BY <2>1, <2>2, SumZero, Zenon DEF Held
  <1>4. Start[p].bank \in Nat /\ Start[p].qp \in Nat
    BY MarketAssumption
  <1>5. Now(p) = Start[p] /\ Price(offer[p]) = 0
    BY <1>2, PriceNat DEF Now
  <1>6. QED BY <1>2, <1>3, <1>4, <1>5 DEF Solvent

LEMMA StepFunded ==
    ASSUME BInv, BInv', Funded, Careful, [Next]_vars
    PROVE  Funded'
  <1>1. ASSUME NEW p \in Player, Enter(p) \/ Quit(p) \/ Delete(p) PROVE Funded'
    BY <1>1, ComingFunded
  <1>2. ASSUME NEW p \in Player,
               \/ TradeAbort(p) \/ TradeAccept(p)
               \/ \E q \in Player : TradeStart(p, q)
               \/ \E i \in Item : TradeAdd(p, i)
               \/ \E n \in Amounts : TradeGold(p, n)
        PROVE  Funded'
    BY <1>2, TalkFunded
  <1>3. ASSUME NEW p \in Player, TradeFinish(p) PROVE Funded'
    BY <1>3, TradeFinishFunded
  <1>4. ASSUME NEW p \in Player, NEW i \in Item, CashIn(p, i) \/ MakeToken(p, i) PROVE Funded'
    BY <1>4, TokenFunded
  <1>5. ASSUME NEW p \in Player, NEW i \in Item, NEW k \in Kinds, AuctionAdd(p, i, k) PROVE Funded'
    BY <1>5, AuctionAddFunded
  <1>6. ASSUME NEW p \in Player, NEW n \in Amounts, BankDeposit(p, n) \/ BankWithdraw(p, n) \/ SpendQp(p, n) \/ Tax(p, n)
        PROVE  Funded'
    BY <1>6, BankingFunded
  <1>7. ASSUME NEW p \in Player, NEW n \in Amounts, NEW i \in Item, Bid(p, i, n) PROVE Funded'
    BY <1>7, BidFunded
  <1>8. ASSUME NEW p \in Player, NEW n \in Amounts, NEW k \in {"gold", "qp"}, TreasuryDeposit(p, k, n) \/ TreasuryWithdraw(p, k, n)
        PROVE  Funded'
    BY <1>8, TreasuryFunded
  <1>9. ASSUME NEW i \in Item, ForceEnd(i) \/ Cancel(i) PROVE Funded'
    BY <1>9, ClockFunded, CancelFunded
  <1>10. CASE Tick \/ End \/ SaveChar \/ SaveAuctions \/ SaveTreasuries
    BY <1>10, ClockFunded, EndFunded, FilesFunded
  <1>11. CASE Restart
    BY <1>11, RestartFunded
  <1>12. CASE UNCHANGED vars
    <2>1. Weaker(auc, auc') /\ \A p \in Player : Now(p)' = Now(p) /\ stake'[p] = stake[p] /\ offer'[p] = offer[p]
      BY <1>12 DEF vars, Weaker, Now
    <2>2. QED BY <2>1, StillFunded
  <1>13. QED BY <1>1, <1>2, <1>3, <1>4, <1>5, <1>6, <1>7, <1>8, <1>9, <1>10, <1>11, <1>12 DEF Next

\* Nobody ever promises more than he has, in all his bids and in his trade together, and
\* whoever promises, or is promised, something is there to keep it: for any number of
\* players, items and auctions and any amounts, as long as the machine does not stop in
\* the middle of a command and taxes and purchases leave alone what is promised.
THEOREM MarketPromisesHold ==
    ASSUME Careful
    PROVE  Spec => []PromisesHold
  <1>1. Init => BInv /\ Funded
    BY Starting, StartFunded
  <1>2. (BInv /\ Funded) /\ [Next]_vars => (BInv /\ Funded)'
    BY StepKeeps, StepFunded
  <1>3. BInv /\ Funded => PromisesHold
    BY PartiesThere DEF BInv, PromisesHold
  <1>4. QED BY <1>1, <1>2, <1>3, PTL DEF Spec

-----------------------------------------------------------------------------
(* Gold and quest points are not made. *)

\* What everybody is, what of k they own together, and the tokens that are somewhere.
Souls == [Player -> Body \cup {Nil}]
Nows == [p \in Player |-> Now(p)]
Worth(b, k) == IF b = Nil THEN 0 ELSE b[k]
Wealth(c, k) == Added([p \in Player |-> Worth(c[p], k)], Player)
Goods(c, f) == {i \in Token : f[i] # Nil \/ \E p \in Player : c[p] # Nil /\ i \in c[p].items}
Gold(c, h) == Wealth(c, "gold") + h["gold"] + Wealth(c, "bank")
Points(c, f, h) == Wealth(c, "qp") + h["qp"] + Cardinality(Goods(c, f))

\* What a step may do.
Thrift ==
    /\ Total("gold")' + Total("bank")' <= Total("gold") + Total("bank")
    /\ Total("qp")' + Tokens' <= Total("qp") + Tokens

Hoards == [gold : Nat, qp : Nat]

LEMMA WorthInt ==
    ASSUME NEW c \in Souls, NEW p \in Player, NEW k \in {"gold", "bank", "qp"}
    PROVE  Worth(c[p], k) \in Int
  <1>1. c[p] = Nil \/ c[p] \in Body
    BY DEF Souls
  <1>2. ASSUME c[p] \in Body PROVE c[p]["gold"] \in Int /\ c[p]["bank"] \in Int /\ c[p]["qp"] \in Int
    BY <1>2 DEF Body
  <1>3. QED BY <1>1, <1>2 DEF Worth

LEMMA WealthInt ==
    ASSUME NEW c \in Souls, NEW k \in {"gold", "bank", "qp"}
    PROVE  Wealth(c, k) \in Int
  <1> DEFINE F == [p \in Player |-> Worth(c[p], k)]
  <1>1. \A p \in Player : F[p] \in Int
    BY WorthInt
  <1> HIDE DEF F
  <1>2. Added(F, Player) \in Int
    BY <1>1, Constants, SumInt
  <1>3. QED BY <1>2 DEF Wealth, F

LEMMA GoodsNat ==
    ASSUME NEW c, NEW f
    PROVE  IsFiniteSet(Goods(c, f)) /\ Cardinality(Goods(c, f)) \in Nat
  <1>1. Goods(c, f) \subseteq Item /\ IsFiniteSet(Item)
    BY Constants DEF Goods
  <1>2. QED BY <1>1, FS_Subset, FS_CardinalityType

LEMMA GoodsLess ==
    ASSUME NEW c, NEW f, NEW d, NEW g, Goods(d, g) \subseteq Goods(c, f)
    PROVE  Cardinality(Goods(d, g)) <= Cardinality(Goods(c, f))
  BY GoodsNat, FS_Subset

\* One owns something else.
LEMMA WealthOne ==
    ASSUME NEW c \in Souls, NEW d \in Souls, NEW p \in Player, \A q \in Player \ {p} : d[q] = c[q],
           NEW k \in {"gold", "bank", "qp"}
    PROVE  Wealth(d, k) = Wealth(c, k) - Worth(c[p], k) + Worth(d[p], k)
  <1> DEFINE F == [q \in Player |-> Worth(c[q], k)]
             G == [q \in Player |-> Worth(d[q], k)]
  <1>1. \A q \in Player : F[q] \in Int /\ G[q] \in Int /\ (q # p => G[q] = F[q])
    BY WorthInt
  <1>2. F[p] = Worth(c[p], k) /\ G[p] = Worth(d[p], k)
    OBVIOUS
  <1> HIDE DEF F, G
  <1>3. Added(G, Player) = Added(F, Player) - F[p] + G[p]
    BY <1>1, Constants, SumOne
  <1>4. QED BY <1>2, <1>3 DEF Wealth, F, G

\* Two do.
LEMMA WealthTwo ==
    ASSUME NEW c \in Souls, NEW d \in Souls, NEW p \in Player, NEW r \in Player, p # r,
           \A q \in Player \ {p, r} : d[q] = c[q], NEW k \in {"gold", "bank", "qp"}
    PROVE  Wealth(d, k) = Wealth(c, k) - Worth(c[p], k) + Worth(d[p], k) - Worth(c[r], k) + Worth(d[r], k)
  <1> DEFINE F == [q \in Player |-> Worth(c[q], k)]
             G == [q \in Player |-> Worth(d[q], k)]
  <1>1. \A q \in Player : F[q] \in Int /\ G[q] \in Int /\ (q \notin {p, r} => G[q] = F[q])
    BY WorthInt
  <1>2. F[p] = Worth(c[p], k) /\ G[p] = Worth(d[p], k) /\ F[r] = Worth(c[r], k) /\ G[r] = Worth(d[r], k)
    OBVIOUS
  <1> HIDE DEF F, G
  <1>f. IsFiniteSet(Player) /\ p # r
    BY Constants
  <1>3. Added(G, Player) = Added(F, Player) - F[p] + G[p] - F[r] + G[r]
    BY <1>f, <1>1, SumTwo
  <1>4. QED BY <1>2, <1>3 DEF Wealth, F, G

LEMMA ThriftIs ==
    ASSUME TypeOK, TypeOK'
    PROVE  /\ Nows \in Souls /\ Nows' \in Souls /\ auc \in Sales /\ auc' \in Sales /\ hoard \in Hoards /\ hoard' \in Hoards
           /\ \A p \in Player : Nows[p] = Now(p) /\ Nows'[p] = Now(p)'
           /\ Gold(Nows', hoard') <= Gold(Nows, hoard) /\ Points(Nows', auc', hoard') <= Points(Nows, auc, hoard) => Thrift
  <1>1. Nows \in Souls /\ Nows' \in Souls
    BY DEF Nows, Souls, Now, TypeOK
  <1>2. /\ auc \in Sales /\ auc' \in Sales /\ hoard \in Hoards /\ hoard' \in Hoards
        /\ \A p \in Player : Nows[p] = Now(p) /\ Nows'[p] = Now(p)'
    BY DEF Nows, Sales, Hoards, TypeOK
  <1>3. ASSUME NEW k PROVE /\ SumFunction(Purse(k)) = Wealth(Nows, k)
                           /\ SumFunction(Purse(k))' = Wealth(Nows', k)
    <2>1. /\ Purse(k) = [p \in Player |-> Worth(Nows[p], k)]
          /\ Purse(k)' = [p \in Player |-> Worth(Nows'[p], k)]
      BY DEF Purse, Someone, Worth, Nows
    <2>2. DOMAIN Purse(k) = Player /\ DOMAIN Purse(k)' = Player
      BY <2>1
    <2>3. QED BY <2>1, <2>2, Zenon DEF SumFunction, Wealth, Added
  <1>4. /\ Total("gold") = Wealth(Nows, "gold") + hoard["gold"] /\ Total("gold")' = Wealth(Nows', "gold") + hoard'["gold"]
        /\ Total("qp") = Wealth(Nows, "qp") + hoard["qp"] /\ Total("qp")' = Wealth(Nows', "qp") + hoard'["qp"]
        /\ Total("bank") = Wealth(Nows, "bank") + 0 /\ Total("bank")' = Wealth(Nows', "bank") + 0
    <2>1. "gold" # "bank" /\ "qp" # "bank"
      OBVIOUS
    <2>2. QED BY <1>3, <2>1, Zenon DEF Total
  <1>5. Tokens = Cardinality(Goods(Nows, auc)) /\ Tokens' = Cardinality(Goods(Nows', auc'))
    <2>1. {i \in Token : ~Nowhere(i)} = Goods(Nows, auc)
      BY DEF Nowhere, Holders, Someone, Goods, Nows
    <2>2. {i \in Token : ~Nowhere(i)'} = Goods(Nows', auc')
      BY DEF Nowhere, Holders, Someone, Goods, Nows
    <2>3. QED BY <2>1, <2>2, Zenon DEF Tokens
  <1>6. ASSUME Gold(Nows', hoard') <= Gold(Nows, hoard), Points(Nows', auc', hoard') <= Points(Nows, auc, hoard)
        PROVE  Thrift
    <2>1. /\ Wealth(Nows, "bank") \in Int /\ Wealth(Nows', "bank") \in Int
      BY <1>1, WealthInt
    <2>2. QED BY <1>4, <1>5, <1>6, <2>1 DEF Gold, Points, Thrift
  <1>7. QED BY <1>1, <1>2, <1>6

\* Nobody owns anything else.
LEMMA NothingMoves ==
    ASSUME TypeOK, TypeOK', \A p \in Player : Now(p)' = Now(p), hoard' = hoard, \A i \in Item : auc'[i] = Nil <=> auc[i] = Nil
    PROVE  Thrift
  <1>1. Nows' = Nows /\ Goods(Nows', auc') = Goods(Nows, auc)
    <2>1. Nows' = Nows
      BY DEF Nows
    <2>2. Token \subseteq Item
      BY Constants
    <2> HIDE DEF Nows
    <2>3. QED BY <2>1, <2>2 DEF Goods
  <1>2. Nows \in Souls /\ hoard \in Hoards
    BY ThriftIs
  <1>3. Gold(Nows, hoard) \in Int /\ Points(Nows, auc, hoard) \in Int
    BY <1>2, WealthInt, GoodsNat DEF Gold, Points, Hoards
  <1>4. Gold(Nows', hoard') <= Gold(Nows, hoard)
    BY <1>1, <1>3
  <1>5. Points(Nows', auc', hoard') <= Points(Nows, auc, hoard)
    <2>1. Points(Nows', auc', hoard') = Points(Nows, auc, hoard)
      BY <1>1 DEF Points
    <2>2. QED BY <1>3, <2>1
  <1>6. QED BY <1>4, <1>5, ThriftIs

\* One owns something else: t tokens more than before.
LEMMA OneMoves ==
    ASSUME TypeOK, TypeOK', NEW p \in Player, Now(p) \in Body, Now(p)' \in Body,
           \A q \in Player \ {p} : Now(q)' = Now(q), NEW t \in Int,
           Cardinality(Goods(Nows', auc')) <= Cardinality(Goods(Nows, auc)) + t,
           Now(p)'.gold + Now(p)'.bank + hoard'["gold"] <= Now(p).gold + Now(p).bank + hoard["gold"],
           Now(p)'.qp + hoard'["qp"] + t <= Now(p).qp + hoard["qp"]
    PROVE  Thrift
  <1>1. /\ Nows \in Souls /\ Nows' \in Souls /\ Nows[p] = Now(p) /\ Nows'[p] = Now(p)'
        /\ \A q \in Player \ {p} : Nows'[q] = Nows[q]
    BY ThriftIs
  <1>2. /\ Worth(Nows[p], "gold") = Now(p).gold /\ Worth(Nows[p], "bank") = Now(p).bank /\ Worth(Nows[p], "qp") = Now(p).qp
        /\ Worth(Nows'[p], "gold") = Now(p)'.gold /\ Worth(Nows'[p], "bank") = Now(p)'.bank /\ Worth(Nows'[p], "qp") = Now(p)'.qp
    BY <1>1, Constants DEF Worth
  <1>3. /\ Now(p).gold \in Int /\ Now(p).bank \in Int /\ Now(p).qp \in Int
        /\ Now(p)'.gold \in Int /\ Now(p)'.bank \in Int /\ Now(p)'.qp \in Int
    BY DEF Body
  <1>4. /\ Wealth(Nows', "gold") = Wealth(Nows, "gold") - Worth(Nows[p], "gold") + Worth(Nows'[p], "gold")
        /\ Wealth(Nows', "bank") = Wealth(Nows, "bank") - Worth(Nows[p], "bank") + Worth(Nows'[p], "bank")
        /\ Wealth(Nows', "qp") = Wealth(Nows, "qp") - Worth(Nows[p], "qp") + Worth(Nows'[p], "qp")
    BY <1>1, WealthOne
  <1>5. /\ Wealth(Nows, "gold") \in Int /\ Wealth(Nows, "bank") \in Int /\ Wealth(Nows, "qp") \in Int
    BY <1>1, WealthInt
  <1>6. hoard["gold"] \in Int /\ hoard["qp"] \in Int /\ hoard'["gold"] \in Int /\ hoard'["qp"] \in Int
    BY ThriftIs DEF Hoards
  <1>7. Cardinality(Goods(Nows, auc)) \in Int /\ Cardinality(Goods(Nows', auc')) \in Int
    BY GoodsNat
  <1>8. Gold(Nows', hoard') <= Gold(Nows, hoard)
    BY <1>2, <1>3, <1>4, <1>5, <1>6 DEF Gold
  <1>9. Points(Nows', auc', hoard') <= Points(Nows, auc, hoard)
    BY <1>2, <1>3, <1>4, <1>5, <1>6, <1>7 DEF Points
  <1>10. QED BY <1>8, <1>9, ThriftIs

\* Two exchange what they own.
LEMMA TwoMove ==
    ASSUME TypeOK, TypeOK', NEW p \in Player, NEW r \in Player, p # r,
           Now(p) \in Body, Now(p)' \in Body, Now(r) \in Body, Now(r)' \in Body,
           \A q \in Player \ {p, r} : Now(q)' = Now(q), hoard' = hoard,
           Goods(Nows', auc') \subseteq Goods(Nows, auc),
           Now(p)'.gold = Now(p).gold, Now(r)'.gold = Now(r).gold,
           Now(p)'.bank + Now(r)'.bank <= Now(p).bank + Now(r).bank,
           Now(p)'.qp + Now(r)'.qp <= Now(p).qp + Now(r).qp
    PROVE  Thrift
  <1>1. /\ Nows \in Souls /\ Nows' \in Souls /\ Nows[p] = Now(p) /\ Nows'[p] = Now(p)'
        /\ Nows[r] = Now(r) /\ Nows'[r] = Now(r)'
        /\ \A q \in Player \ {p, r} : Nows'[q] = Nows[q]
    BY ThriftIs
  <1>2. \A q \in {p, r} :
           /\ Worth(Nows[q], "gold") = Now(q).gold /\ Worth(Nows[q], "bank") = Now(q).bank /\ Worth(Nows[q], "qp") = Now(q).qp
           /\ Worth(Nows'[q], "gold") = Now(q)'.gold /\ Worth(Nows'[q], "bank") = Now(q)'.bank
           /\ Worth(Nows'[q], "qp") = Now(q)'.qp
    BY <1>1, Constants DEF Worth
  <1>3. \A q \in {p, r} :
           /\ Now(q).gold \in Int /\ Now(q).bank \in Int /\ Now(q).qp \in Int
           /\ Now(q)'.gold \in Int /\ Now(q)'.bank \in Int /\ Now(q)'.qp \in Int
    BY DEF Body
  <1>4. ASSUME NEW k \in {"gold", "bank", "qp"}
        PROVE  Wealth(Nows', k) = Wealth(Nows, k) - Worth(Nows[p], k) + Worth(Nows'[p], k) - Worth(Nows[r], k) + Worth(Nows'[r], k)
    BY <1>1, WealthTwo
  <1>5. /\ Wealth(Nows, "gold") \in Int /\ Wealth(Nows, "bank") \in Int /\ Wealth(Nows, "qp") \in Int
        /\ hoard["gold"] \in Int /\ hoard["qp"] \in Int
    BY <1>1, WealthInt, ThriftIs DEF Hoards
  <1>6. Cardinality(Goods(Nows', auc')) <= Cardinality(Goods(Nows, auc))
        /\ Cardinality(Goods(Nows, auc)) \in Int /\ Cardinality(Goods(Nows', auc')) \in Int
    BY GoodsNat, GoodsLess
  <1>7. Wealth(Nows', "gold") = Wealth(Nows, "gold")
    BY <1>2, <1>3, <1>4, <1>5
  <1>8. Wealth(Nows', "bank") <= Wealth(Nows, "bank") /\ Wealth(Nows', "bank") \in Int
    BY <1>2, <1>3, <1>4, <1>5
  <1>9. Wealth(Nows', "qp") <= Wealth(Nows, "qp") /\ Wealth(Nows', "qp") \in Int
    BY <1>2, <1>3, <1>4, <1>5
  <1>10. Gold(Nows', hoard') <= Gold(Nows, hoard)
    BY <1>5, <1>7, <1>8 DEF Gold
  <1>11. Points(Nows', auc', hoard') <= Points(Nows, auc, hoard)
    BY <1>5, <1>6, <1>9 DEF Points
  <1>12. QED BY <1>10, <1>11, ThriftIs

LEMMA Account ==
    ASSUME TypeOK, Present, NEW p \in online, NEW b \in Body, body' = [body EXCEPT ![p] = b], saved' = saved
    PROVE  /\ p \in Player /\ Now(p) = body[p] /\ body[p] \in Body /\ Now(p)' = b
           /\ \A q \in Player \ {p} : Now(q)' = Now(q)
  <1>1. p \in Player /\ body[p] \in Body /\ body[p] # Nil /\ b # Nil
    BY Constants DEF TypeOK, Present
  <1>2. QED BY <1>1 DEF Now, TypeOK

\* His things stay his.
LEMMA SameGoods ==
    ASSUME TypeOK, TypeOK', NEW p \in Player, Now(p) \in Body, Now(p)' \in Body, Now(p)'.items = Now(p).items,
           \A q \in Player \ {p} : Now(q)' = Now(q), auc' = auc
    PROVE  Cardinality(Goods(Nows', auc')) <= Cardinality(Goods(Nows, auc)) + 0
  <1>1. \A q \in Player : Nows[q] = Now(q) /\ Nows'[q] = Now(q)'
    BY ThriftIs
  <1>2. Now(p) # Nil /\ Now(p)' # Nil
    BY Constants
  <1> HIDE DEF Nows
  <1>3. Goods(Nows', auc') \subseteq Goods(Nows, auc)
    BY <1>1, <1>2 DEF Goods
  <1>4. Cardinality(Goods(Nows', auc')) \in Int /\ Cardinality(Goods(Nows, auc)) \in Int
    BY GoodsNat
  <1>5. QED BY <1>3, <1>4, GoodsLess

\* A change of account only.
LEMMA AccountThrift ==
    ASSUME BInv, BInv', NEW p \in online, NEW b \in Body, body' = [body EXCEPT ![p] = b], saved' = saved,
           auc' = auc, b.items = body[p].items,
           b.gold + b.bank + hoard'["gold"] <= body[p].gold + body[p].bank + hoard["gold"],
           b.qp + hoard'["qp"] <= body[p].qp + hoard["qp"]
    PROVE  Thrift
  <1>1. TypeOK /\ TypeOK' /\ Present
    BY DEF BInv
  <1>2. /\ p \in Player /\ Now(p) = body[p] /\ body[p] \in Body /\ Now(p)' = b
        /\ \A q \in Player \ {p} : Now(q)' = Now(q)
    BY <1>1, Account
  <1>3. Cardinality(Goods(Nows', auc')) <= Cardinality(Goods(Nows, auc)) + 0
    BY <1>1, <1>2, SameGoods
  <1>4. b.qp + hoard'["qp"] + 0 <= body[p].qp + hoard["qp"]
    <2>1. b.qp \in Int /\ hoard'["qp"] \in Int
      BY <1>1, Things, ThriftIs DEF Hoards
    <2>2. QED BY <2>1
  <1>5. 0 \in Int
    OBVIOUS
  <1>6. /\ Now(p) \in Body /\ Now(p)' \in Body
        /\ Now(p)'.gold + Now(p)'.bank + hoard'["gold"] <= Now(p).gold + Now(p).bank + hoard["gold"]
        /\ Now(p)'.qp + hoard'["qp"] + 0 <= Now(p).qp + hoard["qp"]
    BY <1>2, <1>4
  <1>7. QED BY <1>1, <1>2, <1>3, <1>5, <1>6, OneMoves

LEMMA BankingThrift ==
    ASSUME BInv, BInv', NEW p \in Player, NEW n \in Amounts,
           BankDeposit(p, n) \/ BankWithdraw(p, n) \/ SpendQp(p, n) \/ Tax(p, n)
    PROVE  Thrift
  <1>1. p \in online /\ auc' = auc /\ hoard' = hoard /\ saved' = saved
    BY DEF BankDeposit, BankWithdraw, SpendQp, Tax, disk
  <1>2. n \in Int /\ n >= 0 /\ -n \in Int
    BY Constants
  <1>3. body[p] \in Body /\ hoard["gold"] \in Int /\ hoard["qp"] \in Int
    BY <1>1, Playing, Typed DEF BInv
  <1>4. body[p].gold \in Nat /\ body[p].bank \in Int /\ body[p].qp \in Int
    BY <1>3, Things
  <1>5. \E b \in Body : /\ body' = [body EXCEPT ![p] = b] /\ b.items = body[p].items
                        /\ b.gold + b.bank <= body[p].gold + body[p].bank /\ b.qp <= body[p].qp
    <2>1. CASE BankDeposit(p, n)
      <3> DEFINE b1 == Gain(body[p], "gold", -n)
                 b2 == Gain(b1, "bank", n)
      <3>1. body' = [body EXCEPT ![p] = b2] /\ body[p].gold + (-n) >= 0
        BY <1>2, <1>3, <1>4, <2>1 DEF BankDeposit
      <3>2. /\ b1 \in Body /\ b1.bank = body[p].bank /\ b1.qp = body[p].qp /\ b1.gold = body[p].gold + (-n)
            /\ b1.items = body[p].items
        BY <1>2, <1>3, <3>1, Gains, SumsOfGains
      <3> HIDE DEF b1
      <3>3. b2 \in Body /\ b2.bank = b1.bank + n /\ b2.qp = b1.qp /\ b2.gold = b1.gold /\ b2.items = b1.items
        BY <1>2, <3>2, Gains, SumsOfGains
      <3> HIDE DEF b2
      <3>4. b2.gold + b2.bank <= body[p].gold + body[p].bank /\ b2.qp <= body[p].qp
        BY <1>2, <1>4, <3>2, <3>3
      <3>5. QED BY <3>1, <3>2, <3>3, <3>4
    <2>2. CASE BankWithdraw(p, n)
      <3> DEFINE b1 == Gain(body[p], "bank", -n)
                 b2 == Gain(b1, "gold", n)
      <3>1. body' = [body EXCEPT ![p] = b2]
        BY <2>2 DEF BankWithdraw
      <3>2. /\ b1 \in Body /\ b1.bank = body[p].bank + (-n) /\ b1.qp = body[p].qp /\ b1.gold = body[p].gold
            /\ b1.items = body[p].items
        BY <1>2, <1>3, Gains, SumsOfGains
      <3> HIDE DEF b1
      <3>3. b1.gold + n >= 0
        BY <1>2, <1>4, <3>2
      <3>4. b2 \in Body /\ b2.bank = b1.bank /\ b2.qp = b1.qp /\ b2.gold = b1.gold + n /\ b2.items = b1.items
        BY <1>2, <3>2, <3>3, Gains, SumsOfGains
      <3> HIDE DEF b2
      <3>5. b2.gold + b2.bank <= body[p].gold + body[p].bank /\ b2.qp <= body[p].qp
        BY <1>2, <1>4, <3>2, <3>4
      <3>6. QED BY <3>1, <3>2, <3>4, <3>5
    <2>3. CASE SpendQp(p, n)
      <3> DEFINE b1 == Gain(body[p], "qp", -n)
      <3>1. body' = [body EXCEPT ![p] = b1]
        BY <2>3 DEF SpendQp
      <3>2. /\ b1 \in Body /\ b1.bank = body[p].bank /\ b1.qp = body[p].qp + (-n) /\ b1.gold = body[p].gold
            /\ b1.items = body[p].items
        BY <1>2, <1>3, Gains, SumsOfGains
      <3> HIDE DEF b1
      <3>3. b1.gold + b1.bank <= body[p].gold + body[p].bank /\ b1.qp <= body[p].qp
        BY <1>2, <1>4, <3>2
      <3>4. QED BY <3>1, <3>2, <3>3
    <2>4. CASE Tax(p, n)
      <3> DEFINE b1 == Gain(body[p], "bank", -n)
      <3>1. body' = [body EXCEPT ![p] = b1]
        BY <2>4 DEF Tax
      <3>2. /\ b1 \in Body /\ b1.bank = body[p].bank + (-n) /\ b1.qp = body[p].qp /\ b1.gold = body[p].gold
            /\ b1.items = body[p].items
        BY <1>2, <1>3, Gains, SumsOfGains
      <3> HIDE DEF b1
      <3>3. b1.gold + b1.bank <= body[p].gold + body[p].bank /\ b1.qp <= body[p].qp
        BY <1>2, <1>4, <3>2
      <3>4. QED BY <3>1, <3>2, <3>3
    <2>5. QED BY <2>1, <2>2, <2>3, <2>4
  <1>6. PICK b \in Body : /\ body' = [body EXCEPT ![p] = b] /\ b.items = body[p].items
                         /\ b.gold + b.bank <= body[p].gold + body[p].bank /\ b.qp <= body[p].qp
    BY <1>5
  <1>7. b.gold \in Int /\ b.bank \in Int /\ b.qp \in Int
    BY Things
  <1>8. /\ b.gold + b.bank + hoard'["gold"] <= body[p].gold + body[p].bank + hoard["gold"]
        /\ b.qp + hoard'["qp"] <= body[p].qp + hoard["qp"]
    BY <1>1, <1>3, <1>4, <1>6, <1>7
  <1>9. QED BY <1>1, <1>6, <1>8, AccountThrift

LEMMA TreasuryThrift ==
    ASSUME BInv, BInv', NEW p \in Player, NEW n \in Amounts, NEW k \in {"gold", "qp"},
           TreasuryDeposit(p, k, n) \/ TreasuryWithdraw(p, k, n)
    PROVE  Thrift
  <1>1. p \in online /\ auc' = auc /\ saved' = saved
    BY DEF TreasuryDeposit, TreasuryWithdraw, disk
  <1>2. n \in Int /\ n >= 0 /\ -n \in Int
    BY Constants
  <1>3. body[p] \in Body /\ hoard \in [gold : Nat, qp : Nat]
    BY <1>1, Playing, Typed DEF BInv
  <1>4. body[p].gold \in Nat /\ body[p].bank \in Int /\ body[p].qp \in Int /\ hoard["gold"] \in Int /\ hoard["qp"] \in Int
    BY <1>3, Things
  <1>5. \E m \in Int : /\ body' = [body EXCEPT ![p] = Gain(body[p], k, m)] /\ hoard' = [hoard EXCEPT ![k] = hoard[k] - m]
                       /\ k = "gold" => body[p].gold + m >= 0
    <2>1. hoard[k] \in Int
      BY <1>4
    <2>2. CASE TreasuryDeposit(p, k, n)
      <3> DEFINE m == -n
      <3>1. /\ body' = [body EXCEPT ![p] = Gain(body[p], k, m)] /\ hoard' = [hoard EXCEPT ![k] = hoard[k] + n]
            /\ k = "gold" => n <= body[p].gold
        BY <2>2 DEF TreasuryDeposit
      <3>2. m \in Int /\ hoard[k] + n = hoard[k] - m /\ (k = "gold" => body[p].gold + m >= 0)
        BY <1>2, <1>4, <2>1, <3>1
      <3> HIDE DEF m
      <3>3. hoard' = [hoard EXCEPT ![k] = hoard[k] - m]
        BY <3>1, <3>2, Zenon
      <3>4. QED BY <3>1, <3>2, <3>3
    <2>3. CASE TreasuryWithdraw(p, k, n)
      <3>1. body' = [body EXCEPT ![p] = Gain(body[p], k, n)] /\ hoard' = [hoard EXCEPT ![k] = hoard[k] - n]
        BY <2>3 DEF TreasuryWithdraw
      <3>2. body[p].gold + n >= 0
        BY <1>2, <1>4
      <3>3. QED BY <1>2, <3>1, <3>2
    <2>4. QED BY <2>2, <2>3
  <1>6. PICK m \in Int : /\ body' = [body EXCEPT ![p] = Gain(body[p], k, m)] /\ hoard' = [hoard EXCEPT ![k] = hoard[k] - m]
                         /\ k = "gold" => body[p].gold + m >= 0
    BY <1>5
  <1> DEFINE b == Gain(body[p], k, m)
  <1>7. CASE k = "gold"
    <2>1. /\ b \in Body /\ b.items = body[p].items /\ b.gold = body[p].gold + m /\ b.bank = body[p].bank /\ b.qp = body[p].qp
      BY <1>3, <1>6, <1>7, Gains, SumsOfGains
    <2>2. body' = [body EXCEPT ![p] = b] /\ hoard'["gold"] = hoard["gold"] - m /\ hoard'["qp"] = hoard["qp"]
      BY <1>3, <1>6, <1>7
    <2> HIDE DEF b
    <2>3. /\ b.gold + b.bank + hoard'["gold"] <= body[p].gold + body[p].bank + hoard["gold"]
          /\ b.qp + hoard'["qp"] <= body[p].qp + hoard["qp"]
      BY <1>4, <2>1, <2>2
    <2>4. QED BY <1>1, <2>1, <2>2, <2>3, AccountThrift
  <1>8. CASE k = "qp"
    <2>1. /\ b \in Body /\ b.items = body[p].items /\ b.gold = body[p].gold /\ b.bank = body[p].bank /\ b.qp = body[p].qp + m
      BY <1>3, <1>8, Gains, SumsOfGains
    <2>2. body' = [body EXCEPT ![p] = b] /\ hoard'["gold"] = hoard["gold"] /\ hoard'["qp"] = hoard["qp"] - m
      BY <1>3, <1>6, <1>8
    <2> HIDE DEF b
    <2>3. /\ b.gold + b.bank + hoard'["gold"] <= body[p].gold + body[p].bank + hoard["gold"]
          /\ b.qp + hoard'["qp"] <= body[p].qp + hoard["qp"]
      BY <1>4, <2>1, <2>2
    <2>4. QED BY <1>1, <2>1, <2>2, <2>3, AccountThrift
  <1>9. QED BY <1>7, <1>8

\* A token becomes a quest point, or the other way round.
LEMMA TokenThrift ==
    ASSUME BInv, BInv', Things1, NEW p \in Player, NEW i \in Item, CashIn(p, i) \/ MakeToken(p, i)
    PROVE  Thrift
  <1>1. p \in online /\ auc' = auc /\ hoard' = hoard /\ saved' = saved /\ i \in Token
    BY DEF CashIn, MakeToken, disk
  <1>2. body[p] \in Body /\ hoard["gold"] \in Int /\ hoard["qp"] \in Int /\ {i} \in SUBSET Item
    BY <1>1, Playing, Typed DEF BInv
  <1>3. body[p].gold \in Int /\ body[p].bank \in Int /\ body[p].qp \in Int
    BY <1>2, Things
  <1>4. TypeOK /\ TypeOK' /\ Present
    BY DEF BInv
  <1>5. /\ IsFiniteSet(Goods(Nows, auc)) /\ Cardinality(Goods(Nows, auc)) \in Int /\ Cardinality(Goods(Nows', auc')) \in Int
        /\ \A q \in Player : Nows[q] = Now(q) /\ Nows'[q] = Now(q)'
    BY <1>4, GoodsNat, ThriftIs
  <1> HIDE DEF Nows
  <1>6. CASE CashIn(p, i)
    <2> DEFINE b1 == Lose(body[p], {i})
               b2 == Gain(b1, "qp", 1)
    <2>1. body' = [body EXCEPT ![p] = b2] /\ i \in body[p].items
      BY <1>6 DEF CashIn
    <2>2. b1 \in Body /\ b1.items = body[p].items \ {i} /\ b1.gold = body[p].gold /\ b1.bank = body[p].bank /\ b1.qp = body[p].qp
      BY <1>2, Things, SumsOfThings
    <2> HIDE DEF b1
    <2>3. b2 \in Body /\ b2.items = b1.items /\ b2.gold = b1.gold /\ b2.bank = b1.bank /\ b2.qp = b1.qp + 1
      BY <2>2, Gains, SumsOfGains
    <2> HIDE DEF b2
    <2>4. /\ p \in Player /\ Now(p) = body[p] /\ body[p] \in Body /\ Now(p)' = b2
          /\ \A q \in Player \ {p} : Now(q)' = Now(q)
      BY <1>1, <1>4, <2>1, <2>3, Account
    <2>5. Now(p) # Nil /\ Now(p)' # Nil
      BY <2>3, <2>4, Constants
    <2>6. Owns(p, i) /\ auc[i] = Nil /\ \A q \in Player \ {p} : ~Owns(q, i)
      BY <2>1, <2>4, <2>5 DEF Owns, Things1, Once
    <2>7. i \in Goods(Nows, auc) /\ i \notin Goods(Nows', auc') /\ Goods(Nows', auc') \subseteq Goods(Nows, auc)
      <3>1. i \in Goods(Nows, auc)
        BY <1>1, <1>5, <2>5, <2>6 DEF Goods, Owns
      <3>2. i \notin Goods(Nows', auc')
        BY <1>1, <1>5, <2>2, <2>3, <2>4, <2>6 DEF Goods, Owns
      <3>3. Goods(Nows', auc') \subseteq Goods(Nows, auc)
        BY <1>1, <1>5, <2>2, <2>3, <2>4, <2>5 DEF Goods
      <3>4. QED BY <3>1, <3>2, <3>3
    <2>8. Cardinality(Goods(Nows', auc')) <= Cardinality(Goods(Nows, auc)) + (-1)
      <3> DEFINE G == Goods(Nows, auc)
                 H == Goods(Nows', auc')
      <3>1. IsFiniteSet(G \ {i}) /\ Cardinality(G \ {i}) = Cardinality(G) - 1
        BY <1>5, <2>7, FS_RemoveElement
      <3>2. H \subseteq G \ {i}
        BY <2>7
      <3>3. Cardinality(H) <= Cardinality(G \ {i})
        BY <3>1, <3>2, FS_Subset
      <3>4. QED BY <1>5, <3>1, <3>3
    <2>9. /\ Now(p)'.gold + Now(p)'.bank + hoard'["gold"] <= Now(p).gold + Now(p).bank + hoard["gold"]
          /\ Now(p)'.qp + hoard'["qp"] + (-1) <= Now(p).qp + hoard["qp"]
      BY <1>1, <1>2, <1>3, <2>2, <2>3, <2>4
    <2>10. -1 \in Int
      OBVIOUS
    <2>11. Now(p) \in Body /\ Now(p)' \in Body
      BY <2>3, <2>4
    <2>12. QED BY <1>4, <2>4, <2>8, <2>9, <2>10, <2>11, OneMoves
  <1>7. CASE MakeToken(p, i)
    <2> DEFINE b1 == Take(body[p], {i})
               n == -1
               b2 == Gain(b1, "qp", n)
    <2>0. n \in Int
      OBVIOUS
    <2>1. body' = [body EXCEPT ![p] = b2] /\ Nowhere(i)
      BY <1>7 DEF MakeToken
    <2>2. b1 \in Body /\ b1.items = body[p].items \cup {i} /\ b1.gold = body[p].gold /\ b1.bank = body[p].bank /\ b1.qp = body[p].qp
      BY <1>2, Things, SumsOfThings
    <2> HIDE DEF b1, n
    <2>3. b2 \in Body /\ b2.items = b1.items /\ b2.gold = b1.gold /\ b2.bank = b1.bank /\ b2.qp = b1.qp + n
      BY <2>0, <2>2, Gains, SumsOfGains
    <2> HIDE DEF b2
    <2>4. /\ p \in Player /\ Now(p) = body[p] /\ body[p] \in Body /\ Now(p)' = b2
          /\ \A q \in Player \ {p} : Now(q)' = Now(q)
      BY <1>1, <1>4, <2>1, <2>3, Account
    <2>5. Now(p) # Nil /\ Now(p)' # Nil
      BY <2>3, <2>4, Constants
    <2>6. i \notin Goods(Nows, auc) /\ Goods(Nows', auc') \subseteq Goods(Nows, auc) \cup {i}
      <3>1. i \notin Goods(Nows, auc)
        BY <1>5, <2>1 DEF Goods, Nowhere, Holders, Someone
      <3>2. Goods(Nows', auc') \subseteq Goods(Nows, auc) \cup {i}
        BY <1>1, <1>5, <2>2, <2>3, <2>4, <2>5 DEF Goods
      <3>3. QED BY <3>1, <3>2
    <2>7. Cardinality(Goods(Nows', auc')) <= Cardinality(Goods(Nows, auc)) + 1
      <3> DEFINE G == Goods(Nows, auc)
                 H == Goods(Nows', auc')
      <3>1. IsFiniteSet(G \cup {i}) /\ Cardinality(G \cup {i}) = Cardinality(G) + 1
        BY <1>5, <2>6, FS_AddElement
      <3>2. H \subseteq G \cup {i}
        BY <2>6
      <3>3. Cardinality(H) <= Cardinality(G \cup {i})
        BY <3>1, <3>2, FS_Subset
      <3>4. QED BY <1>5, <3>1, <3>3
    <2>8. /\ Now(p)'.gold + Now(p)'.bank + hoard'["gold"] <= Now(p).gold + Now(p).bank + hoard["gold"]
          /\ Now(p)'.qp + hoard'["qp"] + 1 <= Now(p).qp + hoard["qp"]
      BY <1>1, <1>2, <1>3, <2>2, <2>3, <2>4 DEF n
    <2>9. 1 \in Int
      OBVIOUS
    <2>10. Now(p) \in Body /\ Now(p)' \in Body
      BY <2>3, <2>4
    <2>11. QED BY <1>4, <2>4, <2>7, <2>8, <2>9, <2>10, OneMoves
  <1>8. QED BY <1>6, <1>7

\* What is sold is his until then, and the fee is lost.
LEMMA AuctionAddThrift ==
    ASSUME BInv, BInv', NEW p \in Player, NEW i \in Item, NEW k \in Kinds, AuctionAdd(p, i, k)
    PROVE  Thrift
  <1>1. p \in online /\ saved' = saved /\ hoard' = hoard /\ i \in body[p].items
    BY DEF AuctionAdd, disk, MayAuction
  <1>2. body[p] \in Body /\ hoard["gold"] \in Int /\ hoard["qp"] \in Int /\ {i} \in SUBSET Item
    BY <1>1, Playing, Typed DEF BInv
  <1>3. body[p].gold \in Nat /\ body[p].bank \in Int /\ body[p].qp \in Int
    BY <1>2, Things
  <1> DEFINE extra == IF i \in NoDrop THEN Cost ELSE 0
             m == -extra
             f == -Fee
             s == -Fee - extra
  <1>4. m \in Int /\ m <= 0 /\ f \in Int /\ f <= 0 /\ s \in Int /\ s <= 0
    BY Constants
  <1>5. \E b \in Body : /\ body' = [body EXCEPT ![p] = b] /\ b.items = body[p].items \ {i}
                        /\ b.gold <= body[p].gold /\ b.bank = body[p].bank /\ b.qp <= body[p].qp
    <2>1. CASE k = "bank"
      <3> DEFINE b1 == Gain(body[p], "gold", f)
                 b2 == Gain(b1, "qp", m)
                 b3 == Lose(b2, {i})
      <3>1. body' = [body EXCEPT ![p] = b3] /\ body[p].gold >= Fee
        <4>1. (IF i \in NoDrop THEN -Cost ELSE 0) = m
          OBVIOUS
        <4>2. /\ body' = [body EXCEPT ![p] = Lose(Gain(b1, "qp", IF i \in NoDrop THEN -Cost ELSE 0), {i})]
              /\ body[p].gold >= Fee
          BY <2>1 DEF AuctionAdd
        <4> HIDE DEF m
        <4>3. QED BY <4>1, <4>2, Zenon
      <3>2. body[p].gold + f >= 0
        BY <1>3, <3>1, Constants
      <3> HIDE DEF f, m
      <3>3. b1 \in Body /\ b1.items = body[p].items /\ b1.gold = body[p].gold + f /\ b1.bank = body[p].bank /\ b1.qp = body[p].qp
        BY <1>2, <1>4, <3>2, Gains, SumsOfGains
      <3> HIDE DEF b1
      <3>4. b2 \in Body /\ b2.items = b1.items /\ b2.gold = b1.gold /\ b2.bank = b1.bank /\ b2.qp = b1.qp + m
        BY <1>4, <3>3, Gains, SumsOfGains
      <3> HIDE DEF b2
      <3>5. b3 \in Body /\ b3.items = b2.items \ {i} /\ b3.gold = b2.gold /\ b3.bank = b2.bank /\ b3.qp = b2.qp
        BY <1>2, <3>4, Things, SumsOfThings
      <3> HIDE DEF b3
      <3>6. b3.gold <= body[p].gold /\ b3.qp <= body[p].qp
        BY <1>3, <1>4, <3>3, <3>4, <3>5
      <3>7. QED BY <3>1, <3>3, <3>4, <3>5, <3>6
    <2>2. CASE k = "qp"
      <3> DEFINE b1 == Gain(body[p], "qp", s)
                 b2 == Lose(b1, {i})
      <3>1. body' = [body EXCEPT ![p] = b2]
        BY <2>2 DEF AuctionAdd
      <3> HIDE DEF s
      <3>2. b1 \in Body /\ b1.items = body[p].items /\ b1.gold = body[p].gold /\ b1.bank = body[p].bank /\ b1.qp = body[p].qp + s
        BY <1>2, <1>4, Gains, SumsOfGains
      <3> HIDE DEF b1
      <3>3. b2 \in Body /\ b2.items = b1.items \ {i} /\ b2.gold = b1.gold /\ b2.bank = b1.bank /\ b2.qp = b1.qp
        BY <1>2, <3>2, Things, SumsOfThings
      <3> HIDE DEF b2
      <3>4. b2.gold <= body[p].gold /\ b2.qp <= body[p].qp
        BY <1>3, <1>4, <3>2, <3>3
      <3>5. QED BY <3>1, <3>2, <3>3, <3>4
    <2>3. QED BY <2>1, <2>2, Constants
  <1>6. PICK b \in Body : /\ body' = [body EXCEPT ![p] = b] /\ b.items = body[p].items \ {i}
                          /\ b.gold <= body[p].gold /\ b.bank = body[p].bank /\ b.qp <= body[p].qp
    BY <1>5
  <1>7. TypeOK /\ TypeOK' /\ Present
    BY DEF BInv
  <1>8. /\ p \in Player /\ Now(p) = body[p] /\ body[p] \in Body /\ Now(p)' = b
        /\ \A q \in Player \ {p} : Now(q)' = Now(q)
    BY <1>1, <1>6, <1>7, Account
  <1>9. \A j \in Item \ {i} : auc'[j] = auc[j]
    BY Typed DEF BInv, AuctionAdd
  <1>10. Cardinality(Goods(Nows', auc')) <= Cardinality(Goods(Nows, auc)) + 0
    <2>1. \A q \in Player : Nows[q] = Now(q) /\ Nows'[q] = Now(q)'
      BY <1>7, ThriftIs
    <2>2. Now(p) # Nil /\ Now(p)' # Nil /\ Token \subseteq Item
      BY <1>8, Constants
    <2> HIDE DEF Nows
    <2>3. Goods(Nows', auc') \subseteq Goods(Nows, auc)
      BY <1>1, <1>6, <1>8, <1>9, <2>1, <2>2 DEF Goods
    <2>4. Cardinality(Goods(Nows', auc')) \in Int /\ Cardinality(Goods(Nows, auc)) \in Int
      BY GoodsNat
    <2>5. QED BY <2>3, <2>4, GoodsLess
  <1>11. b.gold \in Int /\ b.bank \in Int /\ b.qp \in Int
    BY Things
  <1>12. /\ Now(p)'.gold + Now(p)'.bank + hoard'["gold"] <= Now(p).gold + Now(p).bank + hoard["gold"]
         /\ Now(p)'.qp + hoard'["qp"] + 0 <= Now(p).qp + hoard["qp"]
    BY <1>1, <1>2, <1>3, <1>6, <1>8, <1>11
  <1>13. 0 \in Int
    OBVIOUS
  <1>14. Now(p) \in Body /\ Now(p)' \in Body
    BY <1>8
  <1>15. QED BY <1>7, <1>8, <1>10, <1>12, <1>13, <1>14, OneMoves

\* Who deletes himself takes along what he has, which is not less than nothing.
LEMMA DeleteThrift ==
    ASSUME BInv, BInv', Funded, NEW p \in Player, Delete(p)
    PROVE  Thrift
  <1>1. /\ p \in online /\ auc' = auc /\ hoard' = hoard
        /\ saved' = [saved EXCEPT ![p] = Nil] /\ body' = [body EXCEPT ![p] = Nil]
    BY DEF Delete
  <1>2. body[p] \in Body /\ body[p] # Nil /\ TypeOK /\ TypeOK'
    BY <1>1, Playing DEF BInv
  <1>3. Now(p) = body[p] /\ Now(p)' = Nil /\ \A q \in Player \ {p} : Now(q)' = Now(q)
    BY <1>1, <1>2 DEF Now, TypeOK
  <1>4. body[p].gold \in Nat /\ body[p].bank \in Nat /\ body[p].qp \in Nat
    <2>1. /\ body[p].bank \in Int /\ body[p].qp \in Int /\ Solvent(body[p], auc, p, stake[p], offer[p])
          /\ Held(auc, p, "bank") \in Nat /\ Held(auc, p, "qp") \in Nat /\ stake[p] \in Nat /\ Price(offer[p]) \in Nat
      BY <1>1, AvailableIs
    <2>2. body[p].bank \in Nat /\ body[p].qp \in Nat
      BY <2>1 DEF Solvent
    <2>3. QED BY <1>2, <2>2, Things
  <1>5. /\ Nows \in Souls /\ Nows' \in Souls /\ \A q \in Player : Nows[q] = Now(q) /\ Nows'[q] = Now(q)'
        /\ hoard["gold"] \in Int /\ hoard["qp"] \in Int
    BY <1>2, ThriftIs DEF Hoards
  <1> HIDE DEF Nows
  <1>6. ASSUME NEW k \in {"gold", "bank", "qp"}
        PROVE  Wealth(Nows', k) <= Wealth(Nows, k) /\ Wealth(Nows', k) \in Int /\ Wealth(Nows, k) \in Int
    <2>1. Wealth(Nows', k) = Wealth(Nows, k) - Worth(Nows[p], k) + Worth(Nows'[p], k)
      BY <1>3, <1>5, WealthOne
    <2>2. Worth(Nows[p], k) \in Nat /\ Worth(Nows'[p], k) = 0
      BY <1>2, <1>3, <1>4, <1>5 DEF Worth
    <2>3. Wealth(Nows, k) \in Int
      BY <1>5, WealthInt
    <2>4. QED BY <2>1, <2>2, <2>3
  <1>7. Goods(Nows', auc') \subseteq Goods(Nows, auc)
    BY <1>1, <1>3, <1>5 DEF Goods
  <1>8. Cardinality(Goods(Nows', auc')) <= Cardinality(Goods(Nows, auc))
        /\ Cardinality(Goods(Nows', auc')) \in Int /\ Cardinality(Goods(Nows, auc)) \in Int
    BY <1>7, GoodsNat, GoodsLess
  <1>9. Gold(Nows', hoard') <= Gold(Nows, hoard)
    <2>1. /\ Wealth(Nows', "gold") <= Wealth(Nows, "gold") /\ Wealth(Nows', "gold") \in Int /\ Wealth(Nows, "gold") \in Int
          /\ Wealth(Nows', "bank") <= Wealth(Nows, "bank") /\ Wealth(Nows', "bank") \in Int /\ Wealth(Nows, "bank") \in Int
      BY <1>6
    <2>2. QED BY <1>1, <1>5, <2>1 DEF Gold
  <1>10. Points(Nows', auc', hoard') <= Points(Nows, auc, hoard)
    <2>1. Wealth(Nows', "qp") <= Wealth(Nows, "qp") /\ Wealth(Nows', "qp") \in Int /\ Wealth(Nows, "qp") \in Int
      BY <1>6
    <2>2. QED BY <1>1, <1>5, <1>8, <2>1 DEF Points
  <1>11. QED BY <1>2, <1>9, <1>10, ThriftIs

\* What one pays the other gets, and what cannot be dropped costs something.
LEMMA TradeFinishThrift ==
    ASSUME BInv, BInv', NEW p \in Player, TradeFinish(p)
    PROVE  Thrift
  <1>0. with[p] # Nil
    BY DEF TradeFinish
  <1>q. PICK q \in Player : q = with[p]
    BY <1>0, Mutual
  <1> DEFINE b == Transferred(body, p)
             c == Transferred(b, q)
  <1>1. body' = c /\ saved' = saved /\ auc' = auc /\ hoard' = hoard
    BY <1>q DEF TradeFinish, disk
  <1>2. q \in Player /\ q # p /\ with[q] = p /\ p \in online /\ q \in online /\ p # Nil
    BY <1>0, <1>q, Mutual, Constants
  <1>3. body \in [Player -> Body \cup {Nil}] /\ body[p] \in Body /\ body[q] \in Body /\ body[p] # Nil /\ body[q] # Nil
    BY <1>2, Playing, Typed DEF BInv
  <1>4. /\ b \in [Player -> Body \cup {Nil}] /\ b[p] \in Body /\ b[q] \in Body
        /\ \A r \in Player \ {p, q} : b[r] = body[r]
        /\ b[p].bank = body[p].bank - stake[p] /\ b[p].qp = body[p].qp - Price(offer[p])
        /\ b[q].bank = body[q].bank + stake[p] /\ b[q].qp = body[q].qp
        /\ b[p].gold = body[p].gold /\ b[q].gold = body[q].gold
        /\ b[p].items = body[p].items \ offer[p] /\ b[q].items = body[q].items \cup offer[p]
    BY <1>0, <1>q, <1>3, Transfer, TransferSums
  <1> HIDE DEF b
  <1>5. /\ c[p] \in Body /\ c[q] \in Body /\ \A r \in Player \ {p, q} : c[r] = b[r]
        /\ c[q].bank = b[q].bank - stake[q] /\ c[q].qp = b[q].qp - Price(offer[q])
        /\ c[p].bank = b[p].bank + stake[q] /\ c[p].qp = b[p].qp
        /\ c[p].gold = b[p].gold /\ c[q].gold = b[q].gold
        /\ c[q].items = b[q].items \ offer[q] /\ c[p].items = b[p].items \cup offer[q]
    <2>1. with[q] = p /\ with[q] # Nil
      BY <1>2
    <2>2. b[q] \in Body /\ b[with[q]] \in Body
      BY <1>4, <2>1
    <2>3. QED BY <1>2, <1>4, <2>1, <2>2, Transfer, TransferSums
  <1> HIDE DEF c
  <1>6. offer[p] \subseteq body[p].items /\ offer[q] \subseteq body[q].items
    BY <1>0, <1>q, <1>2, Mutual
  <1>7. /\ stake[p] \in Nat /\ stake[q] \in Nat /\ Price(offer[p]) \in Nat /\ Price(offer[q]) \in Nat
    BY <1>2, PriceNat, Typed DEF BInv
  <1>8. /\ Now(p) = body[p] /\ Now(q) = body[q] /\ Now(p)' = c[p] /\ Now(q)' = c[q]
        /\ \A r \in Player \ {p, q} : Now(r)' = Now(r)
    <2>1. c[p] # Nil /\ c[q] # Nil
      BY <1>5, Constants
    <2>2. body'[p] = c[p] /\ body'[q] = c[q] /\ \A r \in Player \ {p, q} : body'[r] = body[r]
      BY <1>1, <1>4, <1>5
    <2>3. QED BY <1>1, <1>3, <2>1, <2>2 DEF Now
  <1>9. /\ body[p].bank \in Int /\ body[p].qp \in Int /\ body[q].bank \in Int /\ body[q].qp \in Int
    BY <1>3, Things
  <1>10. /\ Now(p)'.gold = Now(p).gold /\ Now(q)'.gold = Now(q).gold
         /\ Now(p)'.bank + Now(q)'.bank <= Now(p).bank + Now(q).bank
         /\ Now(p)'.qp + Now(q)'.qp <= Now(p).qp + Now(q).qp
    <2>1. c[p].gold = body[p].gold /\ c[q].gold = body[q].gold
      BY <1>4, <1>5
    <2>2. c[p].bank = body[p].bank - stake[p] + stake[q] /\ c[q].bank = body[q].bank + stake[p] - stake[q]
      BY <1>4, <1>5, <1>7, <1>9
    <2>3. c[p].qp = body[p].qp - Price(offer[p]) /\ c[q].qp = body[q].qp - Price(offer[q])
      BY <1>4, <1>5
    <2>4. c[p].bank + c[q].bank <= body[p].bank + body[q].bank
      BY <1>7, <1>9, <2>2
    <2>5. c[p].qp + c[q].qp <= body[p].qp + body[q].qp
      BY <1>7, <1>9, <2>3
    <2>6. QED BY <1>8, <2>1, <2>4, <2>5
  <1>11. TypeOK /\ TypeOK'
    BY DEF BInv
  <1>12. Goods(Nows', auc') \subseteq Goods(Nows, auc)
    <2>1. \A r \in Player : Nows[r] = Now(r) /\ Nows'[r] = Now(r)'
      BY <1>11, ThriftIs
    <2> HIDE DEF Nows
    <2>2. Now(p) # Nil /\ Now(q) # Nil
      BY <1>3, <1>8
    <2>3. Now(p)'.items \cup Now(q)'.items \subseteq Now(p).items \cup Now(q).items
      BY <1>4, <1>5, <1>6, <1>8
    <2>4. ASSUME NEW i \in Goods(Nows', auc') PROVE i \in Goods(Nows, auc)
      <3>1. i \in Token /\ (auc[i] # Nil \/ \E r \in Player : Now(r)' # Nil /\ i \in Now(r)'.items)
        BY <1>1, <2>1 DEF Goods
      <3>2. auc[i] # Nil \/ \E r \in Player : Now(r) # Nil /\ i \in Now(r).items
        <4>1. SUFFICES ASSUME NEW r \in Player, Now(r)' # Nil, i \in Now(r)'.items
                       PROVE  \E s \in Player : Now(s) # Nil /\ i \in Now(s).items
          BY <3>1
        <4>2. CASE r \in {p, q}
          <5>1. i \in Now(p)'.items \cup Now(q)'.items
            BY <4>1, <4>2
          <5>2. i \in Now(p).items \/ i \in Now(q).items
            BY <2>3, <5>1
          <5>3. QED BY <1>2, <2>2, <5>2
        <4>3. CASE r \notin {p, q}
          BY <1>8, <4>1, <4>3
        <4>4. QED BY <4>2, <4>3
      <3>3. QED BY <2>1, <3>1, <3>2 DEF Goods
    <2>5. QED BY <2>4
  <1>13. /\ Now(p) \in Body /\ Now(p)' \in Body /\ Now(q) \in Body /\ Now(q)' \in Body /\ q \in Player /\ p # q
         /\ hoard' = hoard
    BY <1>1, <1>2, <1>3, <1>5, <1>8, Zenon
  <1>14. QED BY <1>8, <1>10, <1>11, <1>12, <1>13, TwoMove

\* An item goes from the auction to its owner, or to the winner who pays him.
LEMMA GiveThrift ==
    ASSUME BInv, BInv', NEW i \in Item, auc[i] # Nil, NEW w \in Player, w \in {auc[i].owner, auc[i].bidder},
           NEW r, Give(i, w, r)
    PROVE  Thrift
  <1>1. Now(w) # Nil
    <2>1. w # Nil /\ i \in Open
      BY Constants DEF Open
    <2>2. QED BY <2>1, PartiesThere DEF PartiesExist
  <1>2. body' = Settled(i, w) /\ auc' = [auc EXCEPT ![i] = Nil] /\ saved' = saved /\ hoard' = hoard
    BY <1>1 DEF Give, disk
  <1>a. auc[i] \in Auction
    BY Typed DEF BInv
  <1>o. PICK o \in Player : o = auc[i].owner
    BY <1>a DEF Auction
  <1>x. PICK x : x = auc[i].bidder
    OBVIOUS
  <1>k. PICK k \in {"bank", "qp"} : k = auc[i].kind
    BY <1>a, Constants DEF Auction
  <1>m. PICK a \in Nat : a = auc[i].amount
    BY <1>a DEF Auction
  <1>3. /\ Now(w) \in Body /\ Now(w)' \in Body /\ Now(w)'.gold = Now(w).gold
        /\ w = x => /\ o # w /\ Now(o) \in Body /\ Now(o)' \in Body /\ Now(o)'.gold = Now(o).gold
                    /\ \/ /\ Now(w)'.bank = Now(w).bank - a /\ Now(w)'.qp = Now(w).qp
                          /\ Now(o)'.bank = Now(o).bank + a /\ Now(o)'.qp = Now(o).qp
                       \/ /\ Now(w)'.qp = Now(w).qp - a /\ Now(w)'.bank = Now(w).bank
                          /\ Now(o)'.qp = Now(o).qp + a /\ Now(o)'.bank = Now(o).bank
        /\ w # x => Now(w)'.bank = Now(w).bank /\ Now(w)'.qp = Now(w).qp
        /\ \A q \in Player : q = w \/ (w = x /\ q = o) \/ Now(q)' = Now(q)
    <2>1. w \in {o, x}
      BY <1>o, <1>x
    <2>2. Settlement(w, o, x, k, a)
      BY <1>2, <1>o, <1>x, <1>k, <1>m, <2>1, SettlingSums
    <2>3. k = "bank" \/ k = "qp"
      OBVIOUS
    <2>4. QED BY <2>2, <2>3 DEF Settlement
  <1>4. auc \in Sales /\ auc'[i] = Nil /\ \A j \in Item \ {i} : auc'[j] = auc[j]
    BY <1>2, Typed DEF BInv, Sales
  <1>5. /\ Now(w)' = body'[w] /\ body'[w].items = Now(w).items \cup {i}
        /\ w = x => Now(o)' = body'[o] /\ body'[o].items = Now(o).items
    <2>1. /\ body'[w] \in Body /\ body'[w].items = Now(w).items \cup {i}
          /\ w = x => body'[o] \in Body /\ body'[o].items = Now(o).items
      BY <1>2, <1>o, <1>x, Settling
    <2>2. QED BY <2>1, Constants DEF Now
  <1>6. TypeOK /\ TypeOK' /\ hoard["gold"] \in Int /\ hoard["qp"] \in Int
    BY Typed DEF BInv
  <1>7. Goods(Nows', auc') \subseteq Goods(Nows, auc)
    <2>1. \A q \in Player : Nows[q] = Now(q) /\ Nows'[q] = Now(q)'
      BY <1>6, ThriftIs
    <2> HIDE DEF Nows
    <2>2. ASSUME NEW j \in Goods(Nows', auc') PROVE j \in Goods(Nows, auc)
      <3>1. j \in Token /\ j \in Item /\ (auc'[j] # Nil \/ \E q \in Player : Now(q)' # Nil /\ j \in Now(q)'.items)
        BY <2>1, Constants DEF Goods
      <3>2. auc[j] # Nil \/ \E q \in Player : Now(q) # Nil /\ j \in Now(q).items
        <4>1. CASE auc'[j] # Nil
          BY <1>4, <3>1, <4>1
        <4>2. CASE j = i
          BY <4>2
        <4>3. ASSUME j # i, NEW q \in Player, Now(q)' # Nil, j \in Now(q)'.items
              PROVE  \E s \in Player : Now(s) # Nil /\ j \in Now(s).items
          <5>1. CASE q = w
            BY <1>1, <1>5, <4>3, <5>1
          <5>2. CASE q # w /\ w = x /\ q = o
            <6>1. Now(o) # Nil
              BY <1>3, <5>2, Constants
            <6>2. j \in Now(o).items
              BY <1>5, <4>3, <5>2
            <6>3. QED BY <6>1, <6>2
          <5>3. CASE q # w /\ ~(w = x /\ q = o)
            BY <1>3, <4>3, <5>3
          <5>4. QED BY <5>1, <5>2, <5>3
        <4>4. QED BY <3>1, <4>1, <4>2, <4>3
      <3>3. QED BY <2>1, <3>1, <3>2 DEF Goods
    <2>3. QED BY <2>2
  <1>8. Now(w).gold \in Int /\ Now(w).bank \in Int /\ Now(w).qp \in Int
    BY <1>3, Things
  <1>9. CASE w = x
    <2>1. Now(o).gold \in Int /\ Now(o).bank \in Int /\ Now(o).qp \in Int
      BY <1>3, <1>9, Things
    <2>2. /\ o # w /\ Now(o) \in Body /\ Now(o)' \in Body /\ Now(o)'.gold = Now(o).gold
          /\ \/ /\ Now(w)'.bank = Now(w).bank - a /\ Now(w)'.qp = Now(w).qp
                /\ Now(o)'.bank = Now(o).bank + a /\ Now(o)'.qp = Now(o).qp
             \/ /\ Now(w)'.qp = Now(w).qp - a /\ Now(w)'.bank = Now(w).bank
                /\ Now(o)'.qp = Now(o).qp + a /\ Now(o)'.bank = Now(o).bank
      BY <1>3, <1>9
    <2>3. /\ Now(w)'.bank + Now(o)'.bank <= Now(w).bank + Now(o).bank
          /\ Now(w)'.qp + Now(o)'.qp <= Now(w).qp + Now(o).qp
      BY <1>8, <2>1, <2>2
    <2>4. \A q \in Player \ {w, o} : Now(q)' = Now(q)
      BY <1>3
    <2>5. QED BY <1>2, <1>3, <1>6, <1>7, <2>2, <2>3, <2>4, TwoMove
  <1>10. CASE w # x
    <2>1. Now(w)'.bank = Now(w).bank /\ Now(w)'.qp = Now(w).qp /\ \A q \in Player \ {w} : Now(q)' = Now(q)
      BY <1>3, <1>10
    <2>2. /\ Now(w)'.gold + Now(w)'.bank + hoard'["gold"] <= Now(w).gold + Now(w).bank + hoard["gold"]
          /\ Now(w)'.qp + hoard'["qp"] + 0 <= Now(w).qp + hoard["qp"]
      BY <1>2, <1>3, <1>6, <1>8, <2>1
    <2>3. Cardinality(Goods(Nows', auc')) <= Cardinality(Goods(Nows, auc)) + 0
      <3>1. Cardinality(Goods(Nows', auc')) \in Int /\ Cardinality(Goods(Nows, auc)) \in Int
        BY GoodsNat
      <3>2. QED BY <1>7, <3>1, GoodsLess
    <2>4. 0 \in Int
      OBVIOUS
    <2>5. QED BY <1>3, <1>6, <2>1, <2>2, <2>3, <2>4, OneMoves
  <1>11. QED BY <1>9, <1>10

LEMMA EndThrift ==
    ASSUME BInv, BInv', End \/ \E i \in Item : Cancel(i)
    PROVE  Thrift
  <1>1. CASE End
    <2>1. ~Idle /\ Head(todo) \in Item /\ Give(Head(todo), Winner(auc[Head(todo)]), Tail(todo))
      BY <1>1 DEF End
    <2>i. PICK i \in Item : i = Head(todo)
      BY <2>1
    <2>2. 1 \in DOMAIN todo /\ todo[1] = i
      BY <2>1, <2>i, Rest
    <2>3. auc[i] # Nil
      BY <2>2 DEF BInv, Agenda
    <2>4. auc[i] \in Auction
      BY <2>3, Typed DEF BInv
    <2>w. PICK w \in Player : w = Winner(auc[i]) /\ w \in {auc[i].owner, auc[i].bidder}
      BY <2>4 DEF Winner, Auction
    <2>r. PICK r : r = Tail(todo)
      OBVIOUS
    <2>5. Give(i, w, r)
      BY <2>1, <2>i, <2>r, <2>w
    <2>6. QED BY <2>3, <2>5, <2>w, GiveThrift
  <1>2. ASSUME NEW i \in Item, Cancel(i) PROVE Thrift
    <2>1. auc[i] # Nil /\ Give(i, auc[i].owner, <<Auctions>>)
      BY <1>2 DEF Cancel
    <2>2. auc[i] \in Auction
      BY <2>1, Typed DEF BInv
    <2>w. PICK w \in Player : w = auc[i].owner
      BY <2>2 DEF Auction
    <2>r. PICK r : r = <<Auctions>>
      OBVIOUS
    <2>3. Give(i, w, r)
      BY <2>1, <2>w, <2>r
    <2>4. QED BY <2>1, <2>3, <2>w, GiveThrift
  <1>3. QED BY <1>1, <1>2

\* A bid, a tick and the immortals' end of an auction open and close none.
LEMMA StaysOpen ==
    ASSUME BInv, \/ Tick \/ \E i \in Item : ForceEnd(i)
                 \/ \E p \in Player, n \in Amounts, i \in Item : Bid(p, i, n)
    PROVE  \A j \in Item : auc'[j] = Nil <=> auc[j] = Nil
  <1>1. auc \in [Item -> Auction \cup {Nil}]
    BY Typed DEF BInv
  <1>2. CASE Tick
    <2>1. auc' = Aged(auc)
      BY <1>2 DEF Tick, AucUpdate
    <2>2. QED BY <1>1, <2>1, Ageing
  <1>3. ASSUME NEW i \in Item, ForceEnd(i) PROVE \A j \in Item : auc'[j] = Nil <=> auc[j] = Nil
    <2> DEFINE new == [auc[i] EXCEPT !.left = 0]
    <2>1. auc[i] # Nil /\ auc' = [auc EXCEPT ![i] = new]
      BY <1>3 DEF ForceEnd, AucUpdate
    <2>2. new \in Auction
      BY <1>1, <2>1 DEF Auction
    <2> HIDE DEF new
    <2>3. QED BY <1>1, <2>1, <2>2, Constants
  <1>4. ASSUME NEW p \in Player, NEW n \in Amounts, NEW i \in Item, Bid(p, i, n)
        PROVE  \A j \in Item : auc'[j] = Nil <=> auc[j] = Nil
    <2> DEFINE l == IF auc[i].left <= 1 THEN auc[i].left + Extension ELSE auc[i].left
               new == [auc[i] EXCEPT !.bidder = p, !.amount = n, !.left = l]
    <2>1. auc[i] # Nil /\ auc' = [auc EXCEPT ![i] = new]
      BY <1>4 DEF Bid
    <2>2. auc[i] \in Auction
      BY <1>1, <2>1
    <2>3. l \in Nat
      BY <2>2, Constants DEF Auction
    <2> HIDE DEF l
    <2>4. new \in Auction
      BY <2>2, <2>3, Constants DEF Auction
    <2> HIDE DEF new
    <2>5. QED BY <1>1, <2>1, <2>4, Constants
  <1>5. QED BY <1>2, <1>3, <1>4

\* The hour, the saves and the restart leave everybody with what he has.
LEMMA ClockThrift ==
    ASSUME BInv, BInv', Careful,
           \/ Tick \/ \E i \in Item : ForceEnd(i)
           \/ \E p \in Player, n \in Amounts, i \in Item : Bid(p, i, n)
           \/ SaveChar \/ SaveAuctions \/ SaveTreasuries \/ Restart \/ UNCHANGED vars
    PROVE  Thrift
  <1>1. TypeOK /\ TypeOK'
    BY DEF BInv
  <1>2. CASE UNCHANGED vars
    <2>1. auc' = auc /\ hoard' = hoard /\ \A q \in Player : Now(q)' = Now(q)
      BY <1>2 DEF vars, disk, Now
    <2>2. QED BY <1>1, <2>1, NothingMoves
  <1>4. CASE Tick \/ (\E i \in Item : ForceEnd(i)) \/ \E p \in Player, n \in Amounts, i \in Item : Bid(p, i, n)
    <2>1. UNCHANGED <<body, saved, hoard>>
      BY <1>4 DEF Tick, ForceEnd, Bid, disk
    <2>2. \A q \in Player : Now(q)' = Now(q)
      BY <2>1 DEF Now
    <2>3. \A i \in Item : auc'[i] = Nil <=> auc[i] = Nil
      BY <1>4, StaysOpen
    <2>4. QED BY <1>1, <2>1, <2>2, <2>3, NothingMoves
  <1>5. CASE SaveChar \/ SaveAuctions \/ SaveTreasuries
    <2>1. auc' = auc /\ hoard' = hoard
      BY <1>5 DEF SaveChar, SaveAuctions, SaveTreasuries
    <2>2. \A q \in Player : Now(q)' = Now(q)
      <3>1. CASE SaveChar
        <4>0. ~Idle /\ Head(todo) \in Player
          BY <3>1 DEF SaveChar
        <4>h. PICK h \in Player : h = Head(todo)
          BY <4>0
        <4>1. /\ saved' = [saved EXCEPT ![h] = body[h]]
              /\ body' = IF h \in online THEN body ELSE [body EXCEPT ![h] = Nil]
          BY <3>1, <4>h DEF SaveChar
        <4>2. 1 \in DOMAIN todo /\ todo[1] = h
          BY <4>0, <4>h, Rest
        <4>3. body[h] # Nil
          BY <4>2 DEF BInv, Agenda
        <4>4. QED BY <4>1, <4>3, Typed DEF BInv, Now
      <3>2. CASE SaveAuctions \/ SaveTreasuries
        BY <3>2 DEF SaveAuctions, SaveTreasuries, Now
      <3>3. QED BY <1>5, <3>1, <3>2
    <2>3. QED BY <1>1, <2>1, <2>2, NothingMoves
  <1>6. CASE Restart
    <2>1. /\ Idle /\ body' = [q \in Player |-> Nil] /\ auc' = aucFile /\ saved' = saved /\ hoard' = hoardFile
      BY <1>6 DEF Restart, disk
    <2>2. aucFile = auc /\ hoardFile = hoard /\ \A q \in Player : Now(q) = saved[q]
      BY <2>1, Leisure
    <2>3. \A q \in Player : Now(q)' = Now(q)
      BY <2>1, <2>2 DEF Now
    <2>4. auc' = auc /\ hoard' = hoard
      BY <2>1, <2>2
    <2>5. QED BY <1>1, <2>3, <2>4, NothingMoves
  <1>7. QED BY <1>2, <1>4, <1>5, <1>6

\* So do coming, leaving, and the talk before a trade.
LEMMA StillThrift ==
    ASSUME BInv, BInv', NEW p \in Player,
           \/ Enter(p) \/ Quit(p)
           \/ TradeAbort(p) \/ TradeAccept(p)
           \/ \E q \in Player : TradeStart(p, q)
           \/ \E i \in Item : TradeAdd(p, i)
           \/ \E n \in Amounts : TradeGold(p, n)
    PROVE  Thrift
  <1>1. TypeOK /\ TypeOK'
    BY DEF BInv
  <1>2. CASE Enter(p) \/ Quit(p)
    <2>1. Idle /\ auc' = auc /\ hoard' = hoard
      BY <1>2 DEF Enter, Quit
    <2>2. \A q \in Player \ online : body[q] = Nil
      BY <2>1, Leisure
    <2>3. \A q \in Player : Now(q)' = Now(q)
      <3>1. CASE Enter(p)
        <4>1. p \notin online /\ saved[p] # Nil /\ saved' = saved /\ body' = [body EXCEPT ![p] = saved[p]]
          BY <3>1 DEF Enter, disk
        <4>2. QED BY <2>2, <4>1, Typed DEF BInv, Now
      <3>2. CASE Quit(p)
        <4>1. p \in online /\ saved' = [saved EXCEPT ![p] = body[p]] /\ body' = [body EXCEPT ![p] = Nil]
          BY <3>2 DEF Quit
        <4>2. body[p] # Nil
          BY <4>1, Playing
        <4>3. QED BY <4>1, <4>2, Typed DEF BInv, Now
      <3>3. QED BY <1>2, <3>1, <3>2
    <2>4. QED BY <1>1, <2>1, <2>3, NothingMoves
  <1>3. CASE \/ TradeAbort(p) \/ TradeAccept(p)
             \/ \E q \in Player : TradeStart(p, q)
             \/ \E i \in Item : TradeAdd(p, i)
             \/ \E n \in Amounts : TradeGold(p, n)
    <2>1. UNCHANGED <<body, saved, auc, hoard>>
      BY <1>3 DEF TradeAbort, TradeAccept, TradeStart, TradeAdd, TradeGold, disk
    <2>2. \A q \in Player : Now(q)' = Now(q)
      BY <2>1 DEF Now
    <2>3. QED BY <1>1, <2>1, <2>2, NothingMoves
  <1>4. QED BY <1>2, <1>3

LEMMA StepThrift ==
    ASSUME BInv, BInv', Things1, Funded, Careful, [Next]_vars
    PROVE  Thrift
  <1>1. ASSUME NEW p \in Player, Delete(p) PROVE Thrift
    BY <1>1, DeleteThrift
  <1>2. ASSUME NEW p \in Player, TradeFinish(p) PROVE Thrift
    BY <1>2, TradeFinishThrift
  <1>3. ASSUME NEW p \in Player, NEW i \in Item, CashIn(p, i) \/ MakeToken(p, i) PROVE Thrift
    BY <1>3, TokenThrift
  <1>4. ASSUME NEW p \in Player, NEW i \in Item, NEW k \in Kinds, AuctionAdd(p, i, k) PROVE Thrift
    BY <1>4, AuctionAddThrift
  <1>5. ASSUME NEW p \in Player, NEW n \in Amounts, BankDeposit(p, n) \/ BankWithdraw(p, n) \/ SpendQp(p, n) \/ Tax(p, n)
        PROVE  Thrift
    BY <1>5, BankingThrift
  <1>6. ASSUME NEW p \in Player, NEW n \in Amounts, NEW k \in {"gold", "qp"}, TreasuryDeposit(p, k, n) \/ TreasuryWithdraw(p, k, n)
        PROVE  Thrift
    BY <1>6, TreasuryThrift
  <1>7. CASE End \/ \E i \in Item : Cancel(i)
    BY <1>7, EndThrift
  <1>8. ASSUME NEW p \in Player,
               \/ Enter(p) \/ Quit(p)
               \/ TradeAbort(p) \/ TradeAccept(p)
               \/ \E q \in Player : TradeStart(p, q)
               \/ \E i \in Item : TradeAdd(p, i)
               \/ \E n \in Amounts : TradeGold(p, n)
        PROVE  Thrift
    BY <1>8, StillThrift
  <1>9. CASE \/ Tick \/ \E i \in Item : ForceEnd(i)
             \/ \E p \in Player, n \in Amounts, i \in Item : Bid(p, i, n)
             \/ SaveChar \/ SaveAuctions \/ SaveTreasuries \/ Restart \/ UNCHANGED vars
    BY <1>9, ClockThrift
  <1>10. QED BY <1>1, <1>2, <1>3, <1>4, <1>5, <1>6, <1>7, <1>8, <1>9 DEF Next

\* Gold and quest points are moved, spent, lost, and never made: no trade, sale, return,
\* deposit, withdrawal, token or restart leaves more of them in the world than before,
\* for any number of players, items and auctions and any amounts, as long as the machine
\* does not stop in the middle of a command and what is promised is left alone.
THEOREM MarketNothingFromNowhere ==
    ASSUME Careful
    PROVE  Spec => NothingFromNowhere
  <1>1. Init => BInv /\ Things1 /\ Funded
    BY Starting, StartFunded
  <1>2. (BInv /\ Things1 /\ Funded) /\ [Next]_vars => (BInv /\ Things1 /\ Funded)'
    BY StepKeeps, StepFunded
  <1>3. (BInv /\ Things1 /\ Funded) /\ (BInv /\ Things1 /\ Funded)' /\ [Next]_vars =>
          [/\ Total("gold")' + Total("bank")' <= Total("gold") + Total("bank")
           /\ Total("qp")' + Tokens' <= Total("qp") + Tokens]_vars
    BY StepThrift DEF Thrift
  <1>4. QED BY <1>1, <1>2, <1>3, PTL DEF Spec, NothingFromNowhere
=============================================================================
