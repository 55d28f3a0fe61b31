--------------------------- MODULE Building_proofs ---------------------------
(***************************************************************************)
(* Proofs about Building, for any area, any number of builders and saves of  *)
(* any length.                                                             *)
(***************************************************************************)
EXTENDS Building, FiniteSetTheorems, WellFoundedInduction, TLAPS

-----------------------------------------------------------------------------
(* Lists: of each, what is in it and what comes before what. *)

LEMMA Least ==
    ASSUME NEW S \in SUBSET Nat, S # {}
    PROVE  \E m \in S : \A k \in S : m <= k
  <1> DEFINE R == {ss \in Nat \X Nat : ss[1] < ss[2]}
  <1>1. IsWellFoundedOn(R, Nat)
    BY NatLessThanWellFounded DEF OpToRel
  <1>2. ASSUME NEW k \in Nat, NEW m \in Nat, k < m PROVE <<k, m>> \in R
    <2>1. <<k, m>> \in Nat \X Nat /\ <<k, m>>[1] = k /\ <<k, m>>[2] = m
      OBVIOUS
    <2>2. <<k, m>>[1] < <<k, m>>[2]
      BY <1>2, <2>1
    <2>3. QED BY <2>1, <2>2, Zenon
  <1> HIDE DEF R
  <1>3. PICK m \in S : \A k \in S : ~(<<k, m>> \in R)
    BY <1>1, WFMin
  <1>4. ASSUME NEW k \in S PROVE m <= k
    <2>1. k \in Nat /\ m \in Nat
      OBVIOUS
    <2>2. ~(k < m)
      BY <1>2, <1>3, <2>1
    <2>3. QED BY <2>1, <2>2
  <1>5. QED BY <1>4

LEMMA Counting ==
    ASSUME NEW n \in Nat, NEW K, 0 \in K, \A k \in 1 .. n : k - 1 \in K => k \in K
    PROVE  0 .. n \subseteq K
  <1> DEFINE S == (0 .. n) \ K
  <1>1. SUFFICES ASSUME S # {} PROVE FALSE
    OBVIOUS
  <1>2. S \in SUBSET Nat
    OBVIOUS
  <1> HIDE DEF S
  <1>3. PICK m \in S : \A k \in S : m <= k
    BY <1>1, <1>2, Least
  <1>4. m \in 1 .. n /\ m \notin K /\ m - 1 \in 0 .. n /\ ~(m <= m - 1)
    BY DEF S
  <1>5. m - 1 \in S
    BY <1>4 DEF S
  <1>6. QED BY <1>3, <1>4, <1>5

\* How many of K come up to i.
UpTo(K, i) == Cardinality({j \in K : j <= i})

LEMMA UpTos ==
    ASSUME NEW n \in Nat, NEW K \in SUBSET (1 .. n)
    PROVE  /\ Cardinality(K) \in Nat
           /\ \A i \in K : UpTo(K, i) \in 1 .. Cardinality(K)
           /\ \A i, j \in K : i < j => UpTo(K, i) < UpTo(K, j)
           /\ \A k \in 1 .. Cardinality(K) : \E i \in K : UpTo(K, i) = k
  <1>1. IsFiniteSet(K) /\ Cardinality(K) \in Nat
    <2>1. IsFiniteSet(1 .. n)
      BY FS_Interval
    <2>2. IsFiniteSet(K)
      BY <2>1, FS_Subset
    <2>3. QED BY <2>2, FS_CardinalityType
  <1>0. \A i, j \in K : i \in Nat /\ j \in Nat /\ (i = j \/ i < j \/ j < i)
    OBVIOUS
  <1>2. ASSUME NEW i \in K PROVE IsFiniteSet({j \in K : j <= i}) /\ UpTo(K, i) \in 1 .. Cardinality(K)
    <2>1. {j \in K : j <= i} \in SUBSET K /\ i \in {j \in K : j <= i}
      OBVIOUS
    <2>2. IsFiniteSet({j \in K : j <= i}) /\ UpTo(K, i) <= Cardinality(K)
      BY <1>1, <2>1, FS_Subset DEF UpTo
    <2>3. UpTo(K, i) \in Nat /\ UpTo(K, i) # 0
      BY <2>1, <2>2, FS_CardinalityType, FS_EmptySet DEF UpTo
    <2>4. QED BY <1>1, <2>2, <2>3
  <1>3. ASSUME NEW i \in K, NEW j \in K, i < j PROVE UpTo(K, i) < UpTo(K, j)
    <2> DEFINE A == {k \in K : k <= i}
               B == {k \in K : k <= j}
    <2>1. A \in SUBSET B /\ j \in B /\ j \notin A
      <3>1. \A k \in K : k <= i => k <= j
        BY <1>3, <1>0
      <3>2. ~(j <= i) /\ j <= j
        BY <1>3, <1>0
      <3>3. QED BY <3>1, <3>2
    <2>2. IsFiniteSet(B) /\ UpTo(K, i) = Cardinality(A) /\ UpTo(K, j) = Cardinality(B)
      BY <1>2 DEF UpTo
    <2> HIDE DEF A, B
    <2>3. Cardinality(A) <= Cardinality(B) /\ Cardinality(A) # Cardinality(B)
      <3>1. IsFiniteSet(A) /\ Cardinality(A) <= Cardinality(B) /\ (Cardinality(B) = Cardinality(A) => B = A)
        BY <2>1, <2>2, FS_Subset
      <3>2. B # A
        BY <2>1
      <3>3. QED BY <3>1, <3>2
    <2>4. UpTo(K, i) \in 1 .. Cardinality(K) /\ UpTo(K, j) \in 1 .. Cardinality(K)
      BY <1>2
    <2>5. Cardinality(A) \in Int /\ Cardinality(B) \in Int
      BY <1>1, <2>2, <2>4
    <2>6. QED BY <2>2, <2>3, <2>5
  <1> DEFINE c == Cardinality(K)
             f == [i \in K |-> UpTo(K, i)]
  <1>4. f \in Injection(K, 1 .. c)
    <2>1. f \in [K -> 1 .. c]
      BY <1>2
    <2>2. ASSUME NEW i \in K, NEW j \in K, f[i] = f[j] PROVE i = j
      <3>1. UpTo(K, i) = UpTo(K, j) /\ UpTo(K, i) \in Nat /\ UpTo(K, j) \in Nat
        <4>1. UpTo(K, i) \in 1 .. c /\ UpTo(K, j) \in 1 .. c
          BY <1>2
        <4>2. QED BY <1>1, <2>2, <4>1
      <3>2. QED BY <1>3, <1>0, <3>1
    <2>3. QED BY <2>1, <2>2, Zenon DEF Injection, IsInjective
  <1>5. f \in Surjection(K, 1 .. c)
    <2>1. IsFiniteSet(1 .. c) /\ Cardinality(1 .. c) = c
      BY <1>1, FS_Interval
    <2> HIDE DEF f, c
    <2>2. Cardinality(K) = c
      BY DEF c
    <2>3. QED BY <1>4, <2>1, <2>2, FS_Injection
  <1>6. ASSUME NEW k \in 1 .. c PROVE \E i \in K : UpTo(K, i) = k
    <2>1. \E i \in K : f[i] = k
      BY <1>5, Zenon DEF Surjection
    <2>2. QED BY <2>1
  <1>7. QED BY <1>1, <1>2, <1>3, <1>6

LEMMA Nths ==
    ASSUME NEW n \in Nat, NEW K \in SUBSET (1 .. n)
    PROVE  LET c == Cardinality(K)
           IN  /\ c \in Nat
               /\ \A k \in 1 .. c : Nth(K, k) \in K
               /\ \A i \in K : \E k \in 1 .. c : Nth(K, k) = i
               /\ \A k, l \in 1 .. c : k < l <=> Nth(K, k) < Nth(K, l)
               /\ K = 1 .. n => c = n /\ \A k \in 1 .. c : Nth(K, k) = k
  <1> DEFINE c == Cardinality(K)
  <1>1. /\ c \in Nat
        /\ \A i \in K : UpTo(K, i) \in 1 .. c
        /\ \A i, j \in K : i < j => UpTo(K, i) < UpTo(K, j)
        /\ \A k \in 1 .. c : \E i \in K : UpTo(K, i) = k
    BY UpTos
  <1>2. ASSUME NEW k \in 1 .. c PROVE Nth(K, k) \in K /\ UpTo(K, Nth(K, k)) = k
    <2>1. \E i \in K : UpTo(K, i) = k
      BY <1>1
    <2>2. Nth(K, k) = CHOOSE i \in K : UpTo(K, i) = k
      BY DEF Nth, UpTo
    <2>3. QED BY <2>1, <2>2, Zenon
  <1>3. ASSUME NEW i \in K, NEW j \in K, UpTo(K, i) = UpTo(K, j) PROVE i = j
    BY <1>1, <1>3
  <1>4. ASSUME NEW i \in K PROVE \E k \in 1 .. c : Nth(K, k) = i
    BY <1>1, <1>2, <1>3
  <1>5. ASSUME NEW k \in 1 .. c, NEW l \in 1 .. c PROVE k < l <=> Nth(K, k) < Nth(K, l)
    <2>1. PICK i \in K, j \in K : i = Nth(K, k) /\ j = Nth(K, l) /\ UpTo(K, i) = k /\ UpTo(K, j) = l
      BY <1>2
    <2>2. QED BY <1>1, <2>1
  <1>6. ASSUME K = 1 .. n PROVE c = n /\ \A k \in 1 .. c : Nth(K, k) = k
    <2>1. c = n
      BY <1>6, FS_Interval
    <2>2. ASSUME NEW i \in 1 .. n PROVE UpTo(K, i) = i
      <3>1. {j \in 1 .. n : j <= i} = 1 .. i
        OBVIOUS
      <3>3. {j \in K : j <= i} = 1 .. i
        BY <1>6, <3>1
      <3>4. Cardinality(1 .. i) = i
        BY FS_Interval
      <3>5. QED BY <3>3, <3>4 DEF UpTo
    <2>3. QED BY <1>2, <1>6, <2>1, <2>2
  <1>7. QED BY <1>1, <1>2, <1>4, <1>5, <1>6

\* A list of T that has nothing twice.
Lists(T) == {s \in Seq(T) : IsInjective(s)}

LEMMA Listed ==
    ASSUME NEW T, NEW s \in Lists(T)
    PROVE  /\ Len(s) \in Nat /\ DOMAIN s = 1 .. Len(s) /\ s \in Seq(T) /\ Range(s) \subseteq T
           /\ \A i \in 1 .. Len(s) : s[i] \in T /\ s[i] \in Range(s)
           /\ \A i, j \in 1 .. Len(s) : s[i] = s[j] => i = j
           /\ \A x \in Range(s) : \E i \in 1 .. Len(s) : s[i] = x
           /\ \A x, y : Before(s, x, y) <=> \E i, j \in 1 .. Len(s) : i < j /\ s[i] = x /\ s[j] = y
  <1>1. s \in Seq(T) /\ IsInjective(s)
    BY DEF Lists
  <1>2. /\ Len(s) \in Nat /\ DOMAIN s = 1 .. Len(s)
        /\ \A i \in 1 .. Len(s) : s[i] \in T
    BY <1>1
  <1>3. QED BY <1>1, <1>2 DEF IsInjective, Range, Before

LEMMA Itself == ASSUME NEW T, NEW s \in Seq(T) PROVE s = [i \in 1 .. Len(s) |-> s[i]]
  OBVIOUS

LEMMA Order ==
    ASSUME NEW T, NEW s \in Lists(T)
    PROVE  /\ \A x, y : Before(s, x, y) => x \in Range(s) /\ y \in Range(s) /\ x # y /\ ~Before(s, y, x)
           /\ \A x, y, z : Before(s, x, y) /\ Before(s, y, z) => Before(s, x, z)
           /\ \A x, y \in Range(s) : x = y \/ Before(s, x, y) \/ Before(s, y, x)
  <1>1. /\ Len(s) \in Nat
        /\ \A i \in 1 .. Len(s) : s[i] \in T /\ s[i] \in Range(s)
        /\ \A i, j \in 1 .. Len(s) : s[i] = s[j] => i = j
        /\ \A x \in Range(s) : \E i \in 1 .. Len(s) : s[i] = x
        /\ \A x, y : Before(s, x, y) <=> \E i, j \in 1 .. Len(s) : i < j /\ s[i] = x /\ s[j] = y
    BY Listed
  <1>2. ASSUME NEW x, NEW y, Before(s, x, y)
        PROVE  x \in Range(s) /\ y \in Range(s) /\ x # y /\ ~Before(s, y, x)
    <2>1. PICK i, j \in 1 .. Len(s) : i < j /\ s[i] = x /\ s[j] = y
      BY <1>1, <1>2
    <2>2. ASSUME Before(s, y, x) PROVE FALSE
      <3>1. PICK k, l \in 1 .. Len(s) : k < l /\ s[k] = y /\ s[l] = x
        BY <1>1, <2>2
      <3>2. k = j /\ l = i
        BY <1>1, <2>1, <3>1
      <3>3. QED BY <2>1, <3>1, <3>2
    <2>3. QED BY <1>1, <2>1, <2>2
  <1>3. ASSUME NEW x, NEW y, NEW z, Before(s, x, y), Before(s, y, z) PROVE Before(s, x, z)
    <2>1. PICK i, j \in 1 .. Len(s) : i < j /\ s[i] = x /\ s[j] = y
      BY <1>1, <1>3
    <2>2. PICK k, l \in 1 .. Len(s) : k < l /\ s[k] = y /\ s[l] = z
      BY <1>1, <1>3
    <2>3. j = k
      BY <1>1, <2>1, <2>2
    <2>4. i < l
      BY <2>1, <2>2, <2>3
    <2>5. QED BY <1>1, <2>1, <2>2, <2>4
  <1>4. ASSUME NEW x \in Range(s), NEW y \in Range(s) PROVE x = y \/ Before(s, x, y) \/ Before(s, y, x)
    <2>1. PICK i, j \in 1 .. Len(s) : s[i] = x /\ s[j] = y
      BY <1>1
    <2>2. i = j \/ i < j \/ j < i
      OBVIOUS
    <2>3. QED BY <1>1, <2>1, <2>2
  <1>5. QED BY <1>2, <1>3, <1>4

LEMMA Removal ==
    ASSUME NEW T, NEW s \in Lists(T), NEW X
    PROVE  LET t == Without(s, X)
           IN  /\ t \in Lists(T) /\ Range(t) = Range(s) \ X
               /\ \A x, y : Before(t, x, y) <=> Before(s, x, y) /\ x \notin X /\ y \notin X
               /\ Range(s) \cap X = {} => t = s
  <1> DEFINE n == Len(s)
             K == {i \in DOMAIN s : s[i] \notin X}
             c == Cardinality(K)
             t == Without(s, X)
  <1>1. /\ n \in Nat /\ DOMAIN s = 1 .. n /\ s \in Seq(T)
        /\ \A i \in 1 .. n : s[i] \in T /\ s[i] \in Range(s)
        /\ \A i, j \in 1 .. n : s[i] = s[j] => i = j
        /\ \A x \in Range(s) : \E i \in 1 .. n : s[i] = x
        /\ \A x, y : Before(s, x, y) <=> \E i, j \in 1 .. n : i < j /\ s[i] = x /\ s[j] = y
    BY Listed
  <1>2. K \in SUBSET (1 .. n) /\ \A i \in 1 .. n : i \in K <=> s[i] \notin X
    BY <1>1
  <1>3. t = [k \in 1 .. c |-> s[Nth(K, k)]]
    BY DEF Without
  <1> HIDE DEF t, K
  <1>4. /\ c \in Nat
        /\ \A k \in 1 .. c : Nth(K, k) \in K
        /\ \A i \in K : \E k \in 1 .. c : Nth(K, k) = i
        /\ \A k, l \in 1 .. c : k < l <=> Nth(K, k) < Nth(K, l)
        /\ K = 1 .. n => c = n /\ \A k \in 1 .. c : Nth(K, k) = k
    BY <1>1, <1>2, Nths
  <1> HIDE DEF c, n
  <1>5. \A k \in 1 .. c : t[k] = s[Nth(K, k)] /\ Nth(K, k) \in 1 .. n /\ Nth(K, k) \in K
    BY <1>2, <1>3, <1>4
  <1>6. t \in Seq(T) /\ Len(t) = c /\ DOMAIN t = 1 .. c
    BY <1>1, <1>3, <1>4, <1>5
  <1>7. ASSUME NEW k \in 1 .. c, NEW l \in 1 .. c, t[k] = t[l] PROVE k = l
    <2>1. Nth(K, k) = Nth(K, l)
      BY <1>1, <1>5, <1>7
    <2>2. ~(k < l) /\ ~(l < k)
      <3>1. ~(Nth(K, k) < Nth(K, l)) /\ ~(Nth(K, l) < Nth(K, k))
        BY <1>1, <1>5, <2>1
      <3>2. QED BY <1>4, <3>1
    <2>3. QED BY <1>4, <2>2
  <1>8. t \in Lists(T)
    BY <1>6, <1>7 DEF Lists, IsInjective
  <1>9. Range(t) = Range(s) \ X
    <2>1. ASSUME NEW x \in Range(t) PROVE x \in Range(s) \ X
      <3>1. PICK k \in 1 .. c : x = t[k]
        BY <1>6 DEF Range
      <3>2. QED BY <1>1, <1>2, <1>5, <3>1
    <2>2. ASSUME NEW x \in Range(s), x \notin X PROVE x \in Range(t)
      <3>1. PICK i \in 1 .. n : s[i] = x
        BY <1>1
      <3>2. PICK k \in 1 .. c : Nth(K, k) = i
        BY <1>2, <1>4, <2>2, <3>1
      <3>3. QED BY <1>5, <1>6, <3>1, <3>2 DEF Range
    <2>3. QED BY <2>1, <2>2
  <1>10. ASSUME NEW x, NEW y PROVE Before(t, x, y) <=> Before(s, x, y) /\ x \notin X /\ y \notin X
    <2>1. ASSUME Before(t, x, y) PROVE Before(s, x, y) /\ x \notin X /\ y \notin X
      <3>1. PICK k, l \in 1 .. c : k < l /\ t[k] = x /\ t[l] = y
        BY <1>6, <2>1 DEF Before
      <3>2. Nth(K, k) < Nth(K, l)
        BY <1>4, <3>1
      <3>3. Nth(K, k) \in 1 .. n /\ Nth(K, l) \in 1 .. n /\ s[Nth(K, k)] = x /\ s[Nth(K, l)] = y
        BY <1>5, <3>1
      <3>4. QED BY <1>1, <1>2, <1>5, <3>1, <3>2, <3>3
    <2>2. ASSUME Before(s, x, y), x \notin X, y \notin X PROVE Before(t, x, y)
      <3>1. PICK i, j \in 1 .. n : i < j /\ s[i] = x /\ s[j] = y
        BY <1>1, <2>2
      <3>2. PICK k \in 1 .. c : Nth(K, k) = i
        BY <1>2, <1>4, <2>2, <3>1
      <3>3. PICK l \in 1 .. c : Nth(K, l) = j
        BY <1>2, <1>4, <2>2, <3>1
      <3>4. k < l /\ t[k] = x /\ t[l] = y
        BY <1>4, <1>5, <3>1, <3>2, <3>3
      <3>5. QED BY <1>6, <3>4 DEF Before
    <2>3. QED BY <2>1, <2>2
  <1>11. ASSUME Range(s) \cap X = {} PROVE t = s
    <2>1. K = 1 .. n
      BY <1>1, <1>2, <1>11
    <2>2. c = n /\ \A k \in 1 .. n : t[k] = s[k]
      BY <1>4, <1>5, <2>1
    <2>3. t = [k \in 1 .. n |-> s[k]] /\ s = [k \in 1 .. n |-> s[k]]
      <3>1. t = [k \in 1 .. n |-> t[k]]
        BY <1>3, <2>2
      <3>2. \A k \in 1 .. n : t[k] = s[k]
        BY <2>2
      <3>3. t = [k \in 1 .. n |-> s[k]]
        BY <3>1, <3>2
      <3>4. s = [k \in 1 .. n |-> s[k]]
        BY <1>1, Itself DEF n
      <3>5. QED BY <3>3, <3>4
    <2>4. QED BY <2>3
  <1>12. QED BY <1>8, <1>9, <1>10, <1>11 DEF t

\* t has what s has, in the same order, and x behind M.
Extended(s, t, x, M) ==
    /\ x \notin Range(s) /\ Range(t) = Range(s) \cup {x}
    /\ \A u, v : Before(t, u, v) <=> Before(s, u, v) \/ (v = x /\ u \in M) \/ (u = x /\ v \in Range(s) \ M)

LEMMA Appending ==
    ASSUME NEW T, NEW s \in Lists(T), NEW x \in T, x \notin Range(s)
    PROVE  /\ Append(s, x) \in Lists(T) /\ Extended(s, Append(s, x), x, Range(s))
  <1> DEFINE n == Len(s)
             t == Append(s, x)
  <1>1. /\ n \in Nat /\ s \in Seq(T)
        /\ \A i \in 1 .. n : s[i] \in T /\ s[i] \in Range(s)
        /\ \A i, j \in 1 .. n : s[i] = s[j] => i = j
        /\ \A y \in Range(s) : \E i \in 1 .. n : s[i] = y
        /\ \A y, z : Before(s, y, z) <=> \E i, j \in 1 .. n : i < j /\ s[i] = y /\ s[j] = z
    BY Listed
  <1>2. t \in Seq(T) /\ Len(t) = n + 1 /\ DOMAIN t = 1 .. n + 1 /\ t[n + 1] = x /\ \A i \in 1 .. n : t[i] = s[i]
    BY <1>1
  <1> HIDE DEF t, n
  <1>3. \A i \in 1 .. n + 1 : (i \in 1 .. n /\ t[i] = s[i]) \/ (i = n + 1 /\ t[i] = x)
    BY <1>1, <1>2
  <1>4. \A i, j \in 1 .. n + 1 : t[i] = t[j] => i = j
    BY <1>1, <1>3
  <1>5. t \in Lists(T)
    BY <1>2, <1>4 DEF Lists, IsInjective
  <1>6. Range(t) = Range(s) \cup {x}
    <2>1. Range(t) = {t[i] : i \in 1 .. n + 1}
      BY <1>2 DEF Range
    <2>2. Range(t) \subseteq Range(s) \cup {x}
      BY <1>1, <1>3, <2>1
    <2>3. ASSUME NEW y \in Range(s) PROVE y \in Range(t)
      <3>1. PICK i \in 1 .. n : s[i] = y
        BY <1>1
      <3>2. i \in 1 .. n + 1 /\ t[i] = y
        BY <1>1, <1>2, <3>1
      <3>3. QED BY <2>1, <3>2
    <2>4. x \in Range(t)
      BY <1>1, <1>2, <2>1
    <2>5. QED BY <2>2, <2>3, <2>4
  <1>7. ASSUME NEW u, NEW v PROVE Before(t, u, v) <=> Before(s, u, v) \/ (v = x /\ u \in Range(s))
    <2>1. ASSUME Before(t, u, v) PROVE Before(s, u, v) \/ (v = x /\ u \in Range(s))
      <3>1. PICK i, j \in 1 .. n + 1 : i < j /\ t[i] = u /\ t[j] = v
        BY <1>2, <2>1 DEF Before
      <3>2. i \in 1 .. n
        BY <1>1, <3>1
      <3>3. QED BY <1>1, <1>3, <3>1, <3>2
    <2>2. ASSUME Before(s, u, v) PROVE Before(t, u, v)
      <3>1. PICK i, j \in 1 .. n : i < j /\ s[i] = u /\ s[j] = v
        BY <1>1, <2>2
      <3>2. i \in 1 .. n + 1 /\ j \in 1 .. n + 1 /\ t[i] = u /\ t[j] = v
        BY <1>1, <1>2, <3>1
      <3>3. QED BY <1>2, <3>1, <3>2 DEF Before
    <2>3. ASSUME v = x, u \in Range(s) PROVE Before(t, u, v)
      <3>1. PICK i \in 1 .. n : s[i] = u
        BY <1>1, <2>3
      <3>2. i \in 1 .. n + 1 /\ n + 1 \in 1 .. n + 1 /\ i < n + 1 /\ t[i] = u /\ t[n + 1] = v
        BY <1>1, <1>2, <2>3, <3>1
      <3>3. QED BY <1>2, <3>2 DEF Before
    <2>4. QED BY <2>1, <2>2, <2>3
  <1>8. Extended(s, t, x, Range(s))
    BY <1>6, <1>7 DEF Extended
  <1>9. QED BY <1>5, <1>8 DEF t

LEMMA Joined == ASSUME NEW T, NEW s \in Seq(T), NEW t \in Seq(T) PROVE s \o t \in Seq(T) /\ Len(s \o t) = Len(s) + Len(t)
  OBVIOUS

\* t is s with x behind the first k items.
Spliced(s, t, k, x) ==
    /\ Len(t) = Len(s) + 1 /\ k \in 0 .. Len(s)
    /\ \A i \in 1 .. Len(s) + 1 : t[i] = IF i <= k THEN s[i] ELSE IF i = k + 1 THEN x ELSE s[i - 1]

LEMMA AppendIs ==
    ASSUME NEW T, NEW s \in Seq(T), NEW x
    PROVE  Spliced(s, Append(s, x), Len(s), x)
  <1>1. Len(s) \in Nat /\ Len(Append(s, x)) = Len(s) + 1 /\ Append(s, x)[Len(s) + 1] = x
        /\ \A i \in 1 .. Len(s) : Append(s, x)[i] = s[i]
    OBVIOUS
  <1>2. QED BY <1>1 DEF Spliced

LEMMA BehindIs ==
    ASSUME NEW T, NEW s \in Lists(T), NEW x \in T, NEW k \in 1 .. Len(s)
    PROVE  Behind(s, x, s[k]) \in Seq(T) /\ Spliced(s, Behind(s, x, s[k]), k, x)
  <1> DEFINE n == Len(s)
             m == s[k]
             t == Behind(s, x, m)
  <1>1. /\ n \in Nat /\ s \in Seq(T) /\ DOMAIN s = 1 .. n
        /\ \A i \in 1 .. n : s[i] \in T /\ s[i] \in Range(s)
        /\ \A i, j \in 1 .. n : s[i] = s[j] => i = j
    BY Listed
  <1>2. k \in 1 .. n /\ s[k] = m
    BY <1>1
  <1>3. t = SubSeq(s, 1, (1 + k) - 1) \o <<x>> \o SubSeq(s, 1 + k, n)
    <2>1. k = CHOOSE i \in DOMAIN s : s[i] = m
      BY <1>1, <1>2
    <2>2. QED BY <2>1 DEF Behind, InsertAt
  <1> HIDE DEF n, t, m
  <1>4. /\ t \in Seq(T) /\ Len(t) = n + 1 /\ DOMAIN t = 1 .. n + 1
        /\ \A i \in 1 .. n + 1 : t[i] = IF i <= k THEN s[i] ELSE IF i = k + 1 THEN x ELSE s[i - 1]
    <2> DEFINE a == SubSeq(s, 1, (1 + k) - 1)
               b == SubSeq(s, 1 + k, n)
    <2>1. a \in Seq(T) /\ Len(a) = k /\ \A i \in 1 .. k : a[i] = s[i]
      BY <1>1, <1>2
    <2>2. b \in Seq(T) /\ Len(b) = n - k /\ \A i \in 1 .. n - k : b[i] = s[k + i]
      BY <1>1, <1>2
    <2> HIDE DEF a, b
    <2>3. a \o <<x>> \in Seq(T) /\ Len(a \o <<x>>) = k + 1 /\ (a \o <<x>>)[k + 1] = x /\ \A i \in 1 .. k : (a \o <<x>>)[i] = s[i]
      BY <1>2, <2>1
    <2> DEFINE c == a \o <<x>>
    <2>4. t = c \o b
      BY <1>3 DEF a, b
    <2> HIDE DEF c
    <2>5. c \in Seq(T) /\ Len(c) = k + 1 /\ c[k + 1] = x /\ \A i \in 1 .. k : c[i] = s[i]
      BY <2>3 DEF c
    <2>6. t \in Seq(T) /\ Len(t) = n + 1 /\ DOMAIN t = 1 .. n + 1
      <3>1. t \in Seq(T)
        BY <2>2, <2>4, <2>5, Joined, Zenon
      <3>2. Len(t) = Len(c) + Len(b)
        BY <2>2, <2>4, <2>5, Joined, Zenon
      <3>3. Len(t) = n + 1
        BY <1>1, <1>2, <2>2, <2>5, <3>2
      <3>4. QED BY <3>1, <3>3
    <2>7. \A i \in 1 .. n + 1 : t[i] = IF i <= k + 1 THEN c[i] ELSE b[i - (k + 1)]
      BY <1>1, <1>2, <2>2, <2>4, <2>5
    <2>8. ASSUME NEW i \in 1 .. n + 1 PROVE t[i] = IF i <= k THEN s[i] ELSE IF i = k + 1 THEN x ELSE s[i - 1]
      <3>1. CASE i <= k
        BY <1>1, <1>2, <2>5, <2>7, <3>1
      <3>2. CASE i = k + 1
        BY <1>1, <1>2, <2>5, <2>7, <3>2
      <3>3. CASE i > k + 1
        <4>1. t[i] = b[i - (k + 1)]
          BY <1>1, <1>2, <2>7, <3>3
        <4>2. i - (k + 1) \in 1 .. n - k /\ k + (i - (k + 1)) = i - 1
          BY <1>1, <1>2, <3>3
        <4>3. b[i - (k + 1)] = s[k + (i - (k + 1))]
          BY <2>2, <4>2
        <4>4. QED BY <1>1, <1>2, <3>3, <4>1, <4>2, <4>3
      <3>4. QED BY <1>1, <1>2, <3>1, <3>2, <3>3
    <2>9. QED BY <2>6, <2>8
  <1>5. QED BY <1>2, <1>4 DEF Spliced, t, n, m

\* What comes up to m.
Through(s, m) == {u \in Range(s) : u = m \/ Before(s, u, m)}

LEMMA Inserting ==
    ASSUME NEW T, NEW s \in Lists(T), NEW x \in T, x \notin Range(s), NEW m \in Range(s)
    PROVE  /\ Behind(s, x, m) \in Lists(T) /\ Extended(s, Behind(s, x, m), x, Through(s, m))
  <1> DEFINE n == Len(s)
             k == CHOOSE i \in DOMAIN s : s[i] = m
             t == Behind(s, x, m)
  <1>1. /\ n \in Nat /\ s \in Seq(T) /\ DOMAIN s = 1 .. n
        /\ \A i \in 1 .. n : s[i] \in T /\ s[i] \in Range(s)
        /\ \A i, j \in 1 .. n : s[i] = s[j] => i = j
        /\ \A y \in Range(s) : \E i \in 1 .. n : s[i] = y
        /\ \A y, z : Before(s, y, z) <=> \E i, j \in 1 .. n : i < j /\ s[i] = y /\ s[j] = z
    BY Listed
  <1>2. k \in 1 .. n /\ s[k] = m
    BY <1>1
  <1> HIDE DEF k, n, t
  <1>4. /\ t \in Seq(T) /\ Len(t) = n + 1 /\ DOMAIN t = 1 .. n + 1
        /\ \A i \in 1 .. n + 1 : t[i] = IF i <= k THEN s[i] ELSE IF i = k + 1 THEN x ELSE s[i - 1]
    <2>1. t \in Seq(T) /\ Spliced(s, t, k, x)
      BY <1>2, BehindIs DEF t, n
    <2>2. QED BY <2>1 DEF Spliced, n
  \* Where the items of s went, and where those of t come from.
  <1> DEFINE to == [i \in 1 .. n |-> IF i <= k THEN i ELSE i + 1]
  <1>5. \A i \in 1 .. n : to[i] \in 1 .. n + 1 /\ to[i] # k + 1 /\ t[to[i]] = s[i] /\ (to[i] <= k <=> i <= k)
    BY <1>1, <1>2, <1>4
  <1>6. \A i, j \in 1 .. n : i < j <=> to[i] < to[j]
    BY <1>1, <1>2
  <1>7. \A i \in 1 .. n + 1 : i # k + 1 => \E j \in 1 .. n : to[j] = i
    <2>1. ASSUME NEW i \in 1 .. n + 1, i # k + 1 PROVE \E j \in 1 .. n : to[j] = i
      <3>1. CASE i <= k
        <4>1. i \in 1 .. n /\ to[i] = i
          BY <1>1, <1>2, <3>1
        <4>2. QED BY <4>1
      <3>2. CASE i > k + 1
        <4>1. i - 1 \in 1 .. n /\ to[i - 1] = i
          BY <1>1, <1>2, <3>2
        <4>2. QED BY <4>1
      <3>3. QED BY <1>1, <1>2, <2>1, <3>1, <3>2
    <2>2. QED BY <2>1
  <1>8. t[k + 1] = x /\ k + 1 \in 1 .. n + 1
    BY <1>1, <1>2, <1>4
  <1> HIDE DEF to
  <1>9. \A i, j \in 1 .. n + 1 : t[i] = t[j] => i = j
    <2>1. ASSUME NEW i \in 1 .. n + 1, NEW j \in 1 .. n + 1, t[i] = t[j] PROVE i = j
      <3>1. i = k + 1 <=> j = k + 1
        BY <1>1, <1>5, <1>7, <1>8, <2>1
      <3>2. CASE i # k + 1
        BY <1>1, <1>5, <1>7, <2>1, <3>1, <3>2
      <3>3. QED BY <3>1, <3>2
    <2>2. QED BY <2>1
  <1>10. t \in Lists(T)
    BY <1>4, <1>9 DEF Lists, IsInjective
  <1>11. Range(t) = Range(s) \cup {x}
    <2>1. Range(t) = {t[i] : i \in 1 .. n + 1}
      BY <1>4 DEF Range
    <2>2. \A i \in 1 .. n + 1 : t[i] \in Range(s) \cup {x}
      <3>1. ASSUME NEW i \in 1 .. n + 1 PROVE t[i] \in Range(s) \cup {x}
        <4>1. CASE i = k + 1
          BY <1>8, <4>1
        <4>2. CASE i # k + 1
          <5>1. PICK j \in 1 .. n : to[j] = i
            BY <1>7, <4>2
          <5>2. QED BY <1>1, <1>5, <5>1
        <4>3. QED BY <4>1, <4>2
      <3>2. QED BY <3>1
    <2>3. \A y \in Range(s) : \E i \in 1 .. n + 1 : t[i] = y
      BY <1>1, <1>5
    <2>4. QED BY <1>8, <2>1, <2>2, <2>3
  <1>12. \A u \in Range(s) : u \in Through(s, m) <=> \E i \in 1 .. n : i <= k /\ s[i] = u
    <2>1. ASSUME NEW u \in Range(s) PROVE u \in Through(s, m) <=> \E i \in 1 .. n : i <= k /\ s[i] = u
      <3>1. PICK i \in 1 .. n : s[i] = u
        BY <1>1
      <3>2. u = m <=> i = k
        BY <1>1, <1>2, <3>1
      <3>3. Before(s, u, m) <=> i < k
        BY <1>1, <1>2, <3>1
      <3>4. u \in Through(s, m) <=> i <= k
        BY <1>2, <3>2, <3>3 DEF Through
      <3>5. QED BY <1>1, <3>1, <3>4
    <2>2. QED BY <2>1
  <1>13. \A i \in 1 .. n : s[i] \in Through(s, m) <=> i <= k
    BY <1>1, <1>12
  <1>14. ASSUME NEW u, NEW v, Before(t, u, v)
         PROVE  Before(s, u, v) \/ (v = x /\ u \in Through(s, m)) \/ (u = x /\ v \in Range(s) \ Through(s, m))
    <2>1. PICK i, j \in 1 .. n + 1 : i < j /\ t[i] = u /\ t[j] = v
      BY <1>4, <1>14 DEF Before
    <2>2. CASE i # k + 1 /\ j # k + 1
      <3>1. PICK p, q \in 1 .. n : to[p] = i /\ to[q] = j
        BY <1>7, <2>2
      <3>2. QED BY <1>1, <1>5, <1>6, <2>1, <3>1
    <2>3. CASE j = k + 1
      <3>1. PICK p \in 1 .. n : to[p] = i
        BY <1>7, <2>1, <2>3
      <3>2. p <= k /\ s[p] = u
        BY <1>2, <1>5, <2>1, <2>3, <3>1
      <3>3. QED BY <1>8, <1>13, <2>1, <2>3, <3>2
    <2>4. CASE i = k + 1
      <3>1. PICK q \in 1 .. n : to[q] = j
        BY <1>7, <2>1, <2>4
      <3>2. ~(q <= k) /\ s[q] = v
        BY <1>2, <1>5, <2>1, <2>4, <3>1
      <3>3. QED BY <1>1, <1>8, <1>13, <2>1, <2>4, <3>2
    <2>5. QED BY <2>2, <2>3, <2>4
  <1>15. ASSUME NEW u, NEW v, Before(s, u, v) PROVE Before(t, u, v)
    <2>1. PICK i, j \in 1 .. n : i < j /\ s[i] = u /\ s[j] = v
      BY <1>1, <1>15
    <2>2. to[i] \in 1 .. n + 1 /\ to[j] \in 1 .. n + 1 /\ to[i] < to[j] /\ t[to[i]] = u /\ t[to[j]] = v
      BY <1>5, <1>6, <2>1
    <2>3. QED BY <1>4, <2>2 DEF Before
  <1>16. ASSUME NEW u \in Range(s)
         PROVE  (u \in Through(s, m) => Before(t, u, x)) /\ (u \notin Through(s, m) => Before(t, x, u))
    <2>1. PICK i \in 1 .. n : s[i] = u
      BY <1>1
    <2>2. to[i] \in 1 .. n + 1 /\ t[to[i]] = u /\ (u \in Through(s, m) => to[i] < k + 1) /\ (u \notin Through(s, m) => k + 1 < to[i])
      BY <1>2, <1>5, <1>13, <2>1
    <2>3. QED BY <1>4, <1>8, <2>2 DEF Before
  <1>17. Extended(s, t, x, Through(s, m))
    BY <1>11, <1>14, <1>15, <1>16 DEF Extended, Through
  <1>18. QED BY <1>10, <1>17 DEF t

-----------------------------------------------------------------------------
(* Resets, in the list s of an area and the lists l of its rooms. *)

LEMMA Commands4 ==
    ASSUME NEW c \in Command
    PROVE  /\ c # Nil /\ c.cmd \in {"M", "O", "D", "E"}
           /\ c.cmd = "M" => c.a \in Mob /\ c.b \in Room
           /\ c.cmd = "O" => c.a \in Obj /\ c.b \in Room
           /\ c.cmd = "D" => c.a \in Room /\ c.b \in Dir
           /\ c.cmd = "E" => c.a \in Obj
  BY NilAssumption DEF Command

\* The resets in use are those in the list, and where they happen is known.
Resets(f, s) ==
    /\ f \in [Reset -> Command \cup {Nil}] /\ s \in Lists(Reset)
    /\ {x \in Reset : f[x] # Nil} = Range(s)
    /\ \A x \in Range(s) : RoomOf(f, s, x) \in Room

\* The room's list is in step with that of the area.
Step(f, s, l, r) ==
    /\ l \in Lists(Reset) /\ Range(l) = {x \in Range(s) : RoomOf(f, s, x) = r}
    /\ \A x, y \in Range(l) : Before(l, x, y) <=> Before(s, x, y)

InRooms(f, s, l) == DOMAIN l = Room /\ \A r \in Room : Step(f, s, l[r], r)

LEMMA Used ==
    ASSUME NEW f \in [Reset -> Command \cup {Nil}], NEW s \in Lists(Reset), {x \in Reset : f[x] # Nil} = Range(s),
           NEW x \in Range(s)
    PROVE  x \in Reset /\ f[x] \in Command
  <1>1. x \in Reset
    BY Listed
  <1>2. QED BY <1>1

LEMMA OneOwner ==
    ASSUME NEW f, NEW s \in Lists(Reset), NEW x, NEW m, NEW n, Owns(f, s, m, x), Owns(f, s, n, x)
    PROVE  m = n
  <1>1. m \in Range(s) /\ n \in Range(s)
    BY Order DEF Owns
  <1>2. ~Before(s, m, n) /\ ~Before(s, n, m)
    BY <1>1 DEF Owns
  <1>3. QED BY <1>1, <1>2, Order

LEMMA RoomIs ==
    ASSUME NEW f, NEW s \in Lists(Reset), NEW x, f[x] \in Command
    PROVE  /\ f[x].cmd \in {"M", "O"} => RoomOf(f, s, x) = f[x].b
           /\ f[x].cmd = "D" => RoomOf(f, s, x) = f[x].a
           /\ f[x].cmd = "E" => \A m : Owns(f, s, m, x) => RoomOf(f, s, x) = f[m].b
           /\ f[x].cmd = "E" /\ RoomOf(f, s, x) # Nil => \E m \in Range(s) : Owns(f, s, m, x)
  <1> DEFINE M == {m \in Range(s) : Owns(f, s, m, x)}
  <1>1. f[x].cmd \in {"M", "O", "D", "E"}
    BY Commands4
  <1>2. f[x].cmd \in {"M", "O"} => RoomOf(f, s, x) = f[x].b
    BY DEF RoomOf
  <1>3. f[x].cmd = "D" => RoomOf(f, s, x) = f[x].a
    BY DEF RoomOf
  <1>4. f[x].cmd = "E" => RoomOf(f, s, x) = IF M = {} THEN Nil ELSE f[CHOOSE m \in M : TRUE].b
    BY DEF RoomOf
  <1>5. ASSUME NEW m, Owns(f, s, m, x) PROVE M # {} /\ (CHOOSE n \in M : TRUE) = m
    <2>1. m \in M
      BY <1>5, Order DEF Owns
    <2>2. (CHOOSE n \in M : TRUE) \in M
      BY <2>1
    <2>3. Owns(f, s, CHOOSE n \in M : TRUE, x)
      BY <2>2
    <2>4. QED BY <1>5, <2>1, <2>3, OneOwner
  <1>6. QED BY <1>2, <1>3, <1>4, <1>5

\* The same reset happens in the same room whatever else is in the list.
LEMMA SameRoom ==
    ASSUME NEW f, NEW s, Resets(f, s), NEW g, NEW t \in Lists(Reset), NEW x \in Range(s), g[x] = f[x],
           \A m \in Range(s) : f[x].cmd = "E" /\ Owns(f, s, m, x) => Owns(g, t, m, x) /\ g[m] = f[m]
    PROVE  RoomOf(g, t, x) = RoomOf(f, s, x)
  <1>1. f[x] \in Command /\ RoomOf(f, s, x) \in Room /\ s \in Lists(Reset)
    BY Used DEF Resets
  <1>2. f[x].cmd \in {"M", "O", "D", "E"} /\ RoomOf(f, s, x) # Nil
    BY <1>1, Commands4, NilAssumption
  <1>3. CASE f[x].cmd # "E"
    BY <1>1, <1>2, <1>3, RoomIs
  <1>4. CASE f[x].cmd = "E"
    <2>1. PICK m \in Range(s) : Owns(f, s, m, x)
      BY <1>1, <1>2, <1>4, RoomIs
    <2>2. Owns(g, t, m, x) /\ g[m] = f[m]
      BY <1>4, <2>1
    <2>3. RoomOf(f, s, x) = f[m].b
      BY <1>1, <1>4, <2>1, RoomIs
    <2>4. RoomOf(g, t, x) = g[m].b
      <3>1. g[x] \in Command /\ g[x].cmd = "E"
        BY <1>1, <1>4
      <3>2. QED BY <2>2, <3>1, RoomIs
    <2>5. QED BY <2>2, <2>3, <2>4
  <1>5. QED BY <1>3, <1>4

\* No equipment loses its mobile.
Closed(f, s, X) == \A m \in X, x \in Range(s) : f[x].cmd = "E" /\ Owns(f, s, m, x) => x \in X

Freed(f, X) == [x \in Reset |-> IF x \in X THEN Nil ELSE f[x]]

LEMMA Removing ==
    ASSUME NEW f, NEW s, Resets(f, s), NEW X, Closed(f, s, X)
    PROVE  LET g == Freed(f, X)
               t == Without(s, X)
           IN  /\ Resets(g, t) /\ Range(t) = Range(s) \ X
               /\ \A x \in Range(t) : g[x] = f[x] /\ RoomOf(g, t, x) = RoomOf(f, s, x)
  <1> DEFINE g == Freed(f, X)
             t == Without(s, X)
  <1>1. f \in [Reset -> Command \cup {Nil}] /\ s \in Lists(Reset) /\ {x \in Reset : f[x] # Nil} = Range(s)
    BY DEF Resets
  <1>2. t \in Lists(Reset) /\ Range(t) = Range(s) \ X /\ \A x, y : Before(t, x, y) <=> Before(s, x, y) /\ x \notin X /\ y \notin X
    BY <1>1, Removal
  <1> HIDE DEF t
  <1>3. g \in [Reset -> Command \cup {Nil}] /\ \A x \in Reset : g[x] = IF x \in X THEN Nil ELSE f[x]
    BY <1>1 DEF Freed
  <1> HIDE DEF g
  <1>4. {x \in Reset : g[x] # Nil} = Range(t)
    BY <1>1, <1>2, <1>3
  <1>5. ASSUME NEW x \in Range(t) PROVE x \in Range(s) /\ g[x] = f[x] /\ RoomOf(g, t, x) = RoomOf(f, s, x)
    <2>1. x \in Range(s) /\ x \notin X /\ x \in Reset
      BY <1>1, <1>2, Used
    <2>2. g[x] = f[x]
      BY <1>3, <2>1
    <2>3. ASSUME NEW m \in Range(s), f[x].cmd = "E", Owns(f, s, m, x) PROVE Owns(g, t, m, x) /\ g[m] = f[m]
      <3>1. m \notin X
        BY <2>1, <2>3 DEF Closed
      <3>2. g[m] = f[m]
        BY <1>1, <1>3, <3>1, Used
      <3>3. ASSUME NEW y \in Range(t), Before(t, m, y), Before(t, y, x) PROVE g[y].cmd # "M"
        <4>1. y \in Range(s) /\ y \notin X /\ y \in Reset /\ Before(s, m, y) /\ Before(s, y, x)
          BY <1>1, <1>2, <3>3, Used
        <4>2. QED BY <1>3, <2>3, <4>1 DEF Owns
      <3>4. QED BY <1>2, <2>1, <2>3, <3>1, <3>2, <3>3 DEF Owns
    <2>4. QED BY <1>2, <2>1, <2>2, <2>3, SameRoom
  <1>6. \A x \in Range(t) : RoomOf(g, t, x) \in Room
    BY <1>5 DEF Resets
  <1>7. Resets(g, t)
    BY <1>2, <1>3, <1>4, <1>6 DEF Resets
  <1>8. QED BY <1>2, <1>5, <1>7 DEF g, t

\* What happens to the rooms' lists.
LEMMA RemovingInRooms ==
    ASSUME NEW f, NEW s, Resets(f, s), NEW X, Closed(f, s, X), NEW l, InRooms(f, s, l),
           NEW R, \A x \in X : x \in Range(s) => RoomOf(f, s, x) \in R
    PROVE  InRooms(Freed(f, X), Without(s, X), [r \in Room |-> IF r \in R THEN Without(l[r], X) ELSE l[r]])
  <1> DEFINE g == Freed(f, X)
             t == Without(s, X)
             k == [r \in Room |-> IF r \in R THEN Without(l[r], X) ELSE l[r]]
  <1>1. Resets(g, t) /\ Range(t) = Range(s) \ X /\ \A x \in Range(t) : RoomOf(g, t, x) = RoomOf(f, s, x)
    BY Removing
  <1>2. s \in Lists(Reset) /\ \A x, y : Before(t, x, y) <=> Before(s, x, y) /\ x \notin X /\ y \notin X
    BY Removal DEF Resets
  <1> HIDE DEF g, t
  <1>3. ASSUME NEW r \in Room PROVE Step(g, t, k[r], r)
    <2>1. /\ l[r] \in Lists(Reset) /\ Range(l[r]) = {x \in Range(s) : RoomOf(f, s, x) = r}
          /\ \A x, y \in Range(l[r]) : Before(l[r], x, y) <=> Before(s, x, y)
      BY DEF InRooms, Step
    <2>2. PICK u \in Lists(Reset) : /\ u = Without(l[r], X) /\ Range(u) = Range(l[r]) \ X
                                    /\ \A x, y : Before(u, x, y) <=> Before(l[r], x, y) /\ x \notin X /\ y \notin X
                                    /\ Range(l[r]) \cap X = {} => u = l[r]
      BY <2>1, Removal
    <2>3. k[r] = u
      <3>1. CASE r \in R
        BY <2>2, <3>1
      <3>2. CASE r \notin R
        <4>1. Range(l[r]) \cap X = {}
          BY <2>1, <3>2
        <4>2. QED BY <2>2, <3>2, <4>1
      <3>3. QED BY <3>1, <3>2
    <2>4. Range(u) = {x \in Range(t) : RoomOf(g, t, x) = r}
      BY <1>1, <2>1, <2>2
    <2>5. \A x, y \in Range(u) : Before(u, x, y) <=> Before(t, x, y)
      BY <1>2, <2>1, <2>2
    <2>6. QED BY <2>3, <2>4, <2>5 DEF Step
  <1>4. DOMAIN k = Room
    OBVIOUS
  <1> HIDE DEF k
  <1>5. InRooms(g, t, k)
    BY <1>3, <1>4 DEF InRooms
  <1>6. QED BY <1>5 DEF g, t, k

\* A reset may be put in behind those of M: at the end, or equipment behind its mobile.
Fitting(f, s, c, M, r) ==
    \/ c.cmd \in {"M", "O"} /\ c.b = r /\ M = Range(s)
    \/ c.cmd = "D" /\ c.a = r /\ M = Range(s)
    \/ c.cmd = "E" /\ \E m \in Range(s) : f[m].cmd = "M" /\ f[m].b = r /\ M = Through(s, m)

WithOneMore(f, s, g, t, x, r) ==
    /\ Resets(g, t) /\ RoomOf(g, t, x) = r
    /\ \A y \in Range(s) : g[y] = f[y] /\ RoomOf(g, t, y) = RoomOf(f, s, y)

LEMMA Adding ==
    ASSUME NEW f, NEW s, Resets(f, s), NEW x \in Reset, f[x] = Nil, NEW c \in Command, NEW r \in Room,
           NEW M, Fitting(f, s, c, M, r), NEW t \in Lists(Reset), Extended(s, t, x, M)
    PROVE  WithOneMore(f, s, [f EXCEPT ![x] = c], t, x, r)
  <1> DEFINE g == [f EXCEPT ![x] = c]
  <1>1. f \in [Reset -> Command \cup {Nil}] /\ s \in Lists(Reset) /\ {y \in Reset : f[y] # Nil} = Range(s)
    BY DEF Resets
  <1>2. /\ x \notin Range(s) /\ Range(t) = Range(s) \cup {x}
        /\ \A u, v : Before(t, u, v) <=> Before(s, u, v) \/ (v = x /\ u \in M) \/ (u = x /\ v \in Range(s) \ M)
    BY DEF Extended
  <1>3. g \in [Reset -> Command \cup {Nil}] /\ g[x] = c /\ \A y \in Reset : y # x => g[y] = f[y]
    BY <1>1
  <1> HIDE DEF g
  <1>4. \A y \in Range(s) : y \in Reset /\ f[y] \in Command /\ y # x /\ g[y] = f[y]
    BY <1>1, <1>2, <1>3, Used
  <1>5. c # Nil /\ {y \in Reset : g[y] # Nil} = Range(t)
    <2>1. c # Nil
      BY Commands4
    <2>2. QED BY <1>1, <1>2, <1>3, <2>1
  <1>6. ASSUME NEW y \in Range(s) PROVE RoomOf(g, t, y) = RoomOf(f, s, y)
    <2>1. ASSUME NEW m \in Range(s), f[y].cmd = "E", Owns(f, s, m, y) PROVE Owns(g, t, m, y) /\ g[m] = f[m]
      <3>1. f[m].cmd = "M" /\ Before(s, m, y) /\ g[m] = f[m] /\ Before(t, m, y)
        BY <1>2, <1>4, <2>1 DEF Owns
      <3>2. ASSUME NEW z \in Range(t), Before(t, m, z), Before(t, z, y) PROVE g[z].cmd # "M"
        <4>1. CASE z = x
          <5>1. y \in Range(s) \ M
            <6>1. ~Before(s, x, y)
              BY <1>1, <1>2, Order
            <6>2. x # y
              BY <1>4
            <6>3. QED BY <1>2, <3>2, <4>1, <6>1, <6>2
          <5>2. M # Range(s)
            BY <5>1
          <5>3. c.cmd = "E"
            BY <5>2 DEF Fitting
          <5>4. QED BY <1>3, <4>1, <5>3
        <4>2. CASE z # x
          <5>1. z \in Range(s) /\ Before(s, m, z) /\ Before(s, z, y)
            BY <1>2, <1>4, <3>2, <4>2
          <5>2. QED BY <1>4, <2>1, <5>1 DEF Owns
        <4>3. QED BY <4>1, <4>2
      <3>3. QED BY <3>1, <3>2 DEF Owns
    <2>2. QED BY <1>4, <2>1, SameRoom
  <1>7. RoomOf(g, t, x) = r
    <2>1. CASE c.cmd # "E"
      BY <1>3, <2>1, RoomIs DEF Fitting
    <2>2. CASE c.cmd = "E"
      <3>1. PICK m \in Range(s) : f[m].cmd = "M" /\ f[m].b = r /\ M = Through(s, m)
        BY <2>2 DEF Fitting
      <3>2. g[m] = f[m] /\ m \in M /\ Before(t, m, x)
        BY <1>2, <1>4, <3>1 DEF Through
      <3>3. ASSUME NEW z \in Range(t), Before(t, m, z), Before(t, z, x) PROVE FALSE
        <4>1. z # x
          BY <3>3, Order
        <4>2. Before(s, m, z) /\ z \in M
          <5>1. m # x /\ m \in Range(s) /\ ~Before(s, z, x)
            BY <1>1, <1>2, <1>4, Order
          <5>2. QED BY <1>2, <3>3, <4>1, <5>1
        <4>3. z = m \/ Before(s, z, m)
          BY <3>1, <4>2 DEF Through
        <4>4. QED BY <1>1, <4>2, <4>3, Order
      <3>4. Owns(g, t, m, x)
        BY <3>1, <3>2, <3>3 DEF Owns
      <3>5. QED BY <1>3, <2>2, <3>1, <3>2, <3>4, RoomIs
    <2>3. QED BY <2>1, <2>2
  <1>8. \A y \in Range(t) : RoomOf(g, t, y) \in Room
    BY <1>2, <1>6, <1>7 DEF Resets
  <1>9. Resets(g, t)
    BY <1>3, <1>5, <1>8 DEF Resets
  <1>10. QED BY <1>4, <1>6, <1>7, <1>9 DEF g, WithOneMore

LEMMA AddingInRooms ==
    ASSUME NEW f, NEW s, Resets(f, s), NEW x \in Reset, f[x] = Nil, NEW c \in Command, NEW r \in Room,
           NEW M, Fitting(f, s, c, M, r), NEW t \in Lists(Reset), Extended(s, t, x, M),
           NEW l, InRooms(f, s, l), NEW u \in Lists(Reset), Extended(l[r], u, x, M \cap Range(l[r]))
    PROVE  InRooms([f EXCEPT ![x] = c], t, [l EXCEPT ![r] = u])
  <1> DEFINE g == [f EXCEPT ![x] = c]
             k == [l EXCEPT ![r] = u]
  <1>1. RoomOf(g, t, x) = r /\ \A y \in Range(s) : RoomOf(g, t, y) = RoomOf(f, s, y)
    <2>1. WithOneMore(f, s, g, t, x, r)
      BY Adding
    <2>2. QED BY <2>1 DEF WithOneMore
  <1>2. /\ x \notin Range(s) /\ Range(t) = Range(s) \cup {x}
        /\ \A y, z : Before(t, y, z) <=> Before(s, y, z) \/ (z = x /\ y \in M) \/ (y = x /\ z \in Range(s) \ M)
    BY DEF Extended
  <1>3. DOMAIN l = Room /\ \A q \in Room : Step(f, s, l[q], q)
    BY DEF InRooms
  <1>4. DOMAIN k = Room /\ k[r] = u /\ \A q \in Room : q # r => k[q] = l[q]
    BY <1>3
  <1> HIDE DEF g, k
  <1>5. ASSUME NEW q \in Room PROVE Step(g, t, k[q], q)
    <2>1. /\ l[q] \in Lists(Reset) /\ Range(l[q]) = {y \in Range(s) : RoomOf(f, s, y) = q}
          /\ \A y, z \in Range(l[q]) : Before(l[q], y, z) <=> Before(s, y, z)
      BY <1>3 DEF Step
    <2>2. CASE q # r
      <3>1. k[q] = l[q]
        BY <1>4, <2>2
      <3>2. Range(l[q]) = {y \in Range(t) : RoomOf(g, t, y) = q}
        BY <1>1, <1>2, <2>1, <2>2
      <3>3. \A y, z \in Range(l[q]) : Before(l[q], y, z) <=> Before(t, y, z)
        BY <1>2, <2>1
      <3>4. QED BY <2>1, <3>1, <3>2, <3>3 DEF Step
    <2>3. CASE q = r
      <3>1. k[q] = u
        BY <1>4, <2>3
      <3> DEFINE N == M \cap Range(l[q])
      <3>2. /\ Range(u) = Range(l[q]) \cup {x}
            /\ \A y, z : Before(u, y, z) <=> Before(l[q], y, z) \/ (z = x /\ y \in N) \/ (y = x /\ z \in Range(l[q]) \ N)
        BY <2>3 DEF Extended
      <3>3. Range(u) = {y \in Range(t) : RoomOf(g, t, y) = q}
        BY <1>1, <1>2, <2>1, <2>3, <3>2
      <3>4. ASSUME NEW y \in Range(u), NEW z \in Range(u) PROVE Before(u, y, z) <=> Before(t, y, z)
        <4>1. ~Before(s, x, z) /\ ~Before(s, y, x) /\ ~Before(l[q], x, z) /\ ~Before(l[q], y, x)
          <5>1. s \in Lists(Reset) /\ x \notin Range(s) /\ x \notin Range(l[q])
            BY <1>2, <2>1 DEF Resets
          <5>2. \A a, b : Before(s, a, b) => a \in Range(s) /\ b \in Range(s)
            BY <5>1, Order
          <5>3. \A a, b : Before(l[q], a, b) => a \in Range(l[q]) /\ b \in Range(l[q])
            BY <2>1, Order
          <5>4. ~Before(s, x, z) /\ ~Before(s, y, x)
            BY <5>1, <5>2
          <5>5. ~Before(l[q], x, z) /\ ~Before(l[q], y, x)
            BY <5>1, <5>3
          <5>6. QED BY <5>4, <5>5
        <4>2. (y # x => y \in Range(l[q]) /\ y \in Range(s)) /\ (z # x => z \in Range(l[q]) /\ z \in Range(s))
          BY <2>1, <3>2
        <4>3. CASE y = x /\ z # x
          BY <1>2, <3>2, <4>1, <4>2, <4>3
        <4>4. CASE y # x /\ z = x
          BY <1>2, <3>2, <4>1, <4>2, <4>4
        <4>5. CASE y = x /\ z = x
          BY <4>5, Order
        <4>6. CASE y # x /\ z # x
          BY <1>2, <2>1, <3>2, <4>2, <4>6
        <4>7. QED BY <4>3, <4>4, <4>5, <4>6
      <3>5. QED BY <3>1, <3>3, <3>4 DEF Step
    <2>4. QED BY <2>2, <2>3
  <1>6. InRooms(g, t, k)
    BY <1>4, <1>5 DEF InRooms
  <1>7. QED BY <1>6 DEF g, k

-----------------------------------------------------------------------------
(* Areas *)

Shaped(a) ==
    /\ a \in Area
    /\ IsInjective(a.rooms) /\ IsInjective(a.mobs) /\ IsInjective(a.objs)
    /\ Home \in Rooms(a) /\ Leads(a)

\* What the command c names is in the area.
Names(a, c) ==
    /\ c.cmd = "M" => c.a \in Range(a.mobs) /\ c.b \in Rooms(a)
    /\ c.cmd = "O" => c.a \in Range(a.objs) /\ c.b \in Rooms(a)
    /\ c.cmd = "E" => c.a \in Range(a.objs)
    /\ c.cmd = "D" => c.a \in Rooms(a) /\ IsDoor(a.exit[c.a][c.b])

Sound(a) == Typed(a) /\ Home \in Rooms(a) /\ Leads(a) /\ ResetsOf(a)

\* What one looks for in an area, in the order in which it is maintained.
Whole(a) ==
    /\ Shaped(a) /\ Resets(a.reset, a.resets) /\ InRooms(a.reset, a.resets, a.listed)
    /\ \A x \in Range(a.resets) : Names(a, a.reset[x])

LEMMA VnumsAre ==
    ASSUME NEW a
    PROVE  Vnums(a, "room") = Range(a.rooms) /\ Vnums(a, "obj") = Range(a.objs) /\ Vnums(a, "mob") = Range(a.mobs)
  BY DEF Vnums

LEMMA SoundIsWhole ==
    ASSUME NEW a
    PROVE  Sound(a) <=> Whole(a)
  <1>1. ASSUME a \in Area, IsInjective(a.resets), {x \in Reset : a.reset[x] # Nil} = Range(a.resets),
               NEW x \in Range(a.resets)
        PROVE  /\ a.reset[x] \in Command /\ x \in Reset
               /\ Makes(a, x) <=> Names(a, a.reset[x]) /\ RoomOf(a.reset, a.resets, x) # Nil
    <2>1. a.resets \in Lists(Reset) /\ a.reset \in [Reset -> Command \cup {Nil}]
      BY <1>1 DEF Area, Lists
    <2>2. a.reset[x] \in Command /\ x \in Reset
      BY <1>1, <2>1, Used
    <2>3. a.reset[x].cmd \in {"M", "O", "D", "E"}
      BY <2>2, Commands4
    <2> DEFINE c == a.reset[x]
    <2>4. CASE c.cmd \in {"M", "O"}
      <3>1. RoomOf(a.reset, a.resets, x) = c.b /\ c.b \in Room /\ c.b # Nil
        BY <2>1, <2>2, <2>4, RoomIs, Commands4, NilAssumption
      <3>2. QED BY <2>2, <2>4, <3>1, VnumsAre DEF Makes, Names
    <2>5. CASE c.cmd = "D"
      <3>1. RoomOf(a.reset, a.resets, x) = c.a /\ c.a \in Room /\ c.a # Nil
        BY <2>1, <2>2, <2>5, RoomIs, Commands4, NilAssumption
      <3>2. QED BY <2>2, <2>5, <3>1, VnumsAre DEF Makes, Names
    <2>6. CASE c.cmd = "E"
      BY <2>2, <2>6, VnumsAre DEF Makes, Names
    <2>7. QED BY <2>3, <2>4, <2>5, <2>6
  <1>2. ASSUME Sound(a) PROVE Whole(a)
    <2>1. /\ a \in Area /\ IsInjective(a.resets) /\ {x \in Reset : a.reset[x] # Nil} = Range(a.resets)
          /\ \A r \in Room : InStep(a, r)
          /\ \A x \in Range(a.resets) : Makes(a, x)
      BY <1>2 DEF Sound, Typed, ResetsOf
    <2>2. Shaped(a)
      BY <1>2 DEF Sound, Typed, Shaped
    <2>3. \A x \in Range(a.resets) : Names(a, a.reset[x]) /\ RoomOf(a.reset, a.resets, x) # Nil
      BY <1>1, <2>1
    <2>4. a.resets \in Lists(Reset) /\ a.reset \in [Reset -> Command \cup {Nil}] /\ a.listed \in [Room -> Seq(Reset)]
      BY <2>1 DEF Area, Lists
    <2>5. ASSUME NEW x \in Range(a.resets) PROVE RoomOf(a.reset, a.resets, x) \in Room
      <3>1. a.reset[x] \in Command
        BY <1>1, <2>1
      <3>2. CASE a.reset[x].cmd # "E"
        BY <2>4, <3>1, <3>2, RoomIs, Commands4
      <3>3. CASE a.reset[x].cmd = "E"
        <4>1. PICK m \in Range(a.resets) : Owns(a.reset, a.resets, m, x)
          BY <2>3, <2>4, <3>1, <3>3, RoomIs
        <4>2. a.reset[m] \in Command /\ a.reset[m].cmd = "M"
          BY <1>1, <2>1, <4>1 DEF Owns
        <4>3. QED BY <2>4, <3>1, <3>3, <4>1, <4>2, RoomIs, Commands4
      <3>4. QED BY <3>2, <3>3
    <2>6. Resets(a.reset, a.resets)
      BY <2>1, <2>4, <2>5 DEF Resets
    <2>7. ASSUME NEW r \in Room PROVE Step(a.reset, a.resets, a.listed[r], r)
      <3>1. InStep(a, r) /\ a.listed[r] \in Seq(Reset)
        BY <2>1, <2>4
      <3>2. QED BY <3>1 DEF InStep, Step, Lists
    <2>8. QED BY <2>2, <2>3, <2>4, <2>6, <2>7 DEF Whole, InRooms
  <1>3. ASSUME Whole(a) PROVE Sound(a)
    <2>1. Shaped(a) /\ Resets(a.reset, a.resets) /\ InRooms(a.reset, a.resets, a.listed)
      BY <1>3 DEF Whole
    <2>2. a \in Area /\ IsInjective(a.resets) /\ {x \in Reset : a.reset[x] # Nil} = Range(a.resets)
      BY <2>1 DEF Shaped, Resets, Lists
    <2>3. Typed(a) /\ Home \in Rooms(a) /\ Leads(a)
      BY <2>1, <2>2 DEF Shaped, Typed
    <2>4. \A r \in Room : InStep(a, r)
      BY <2>1 DEF InRooms, Step, InStep, Lists
    <2>5. \A x \in Range(a.resets) : RoomOf(a.reset, a.resets, x) # Nil
      BY <2>1, NilAssumption DEF Resets
    <2>6. \A x \in Range(a.resets) : Makes(a, x)
      BY <1>1, <1>3, <2>2, <2>5 DEF Whole
    <2>7. QED BY <2>3, <2>4, <2>6 DEF Sound, ResetsOf
  <1>4. QED BY <1>2, <1>3

\* An area whose resets are those of another, and whose other parts allow it.
LEMMA SameResets ==
    ASSUME NEW a, Sound(a), NEW b, Shaped(b), b.reset = a.reset, b.resets = a.resets, b.listed = a.listed,
           \A x \in Range(a.resets) : Names(a, a.reset[x]) => Names(b, a.reset[x])
    PROVE  Sound(b)
  <1>1. Resets(a.reset, a.resets) /\ InRooms(a.reset, a.resets, a.listed) /\ \A x \in Range(a.resets) : Names(a, a.reset[x])
    BY SoundIsWhole DEF Whole
  <1>2. Whole(b)
    BY <1>1 DEF Whole
  <1>3. QED BY <1>2, SoundIsWhole

LEMMA Parts ==
    ASSUME NEW a, Sound(a)
    PROVE  /\ Shaped(a) /\ a \in Area
           /\ a.rooms \in Lists(Room) /\ a.mobs \in Lists(Mob) /\ a.objs \in Lists(Obj) /\ a.resets \in Lists(Reset)
           /\ a.text \in [Room \cup Mob \cup Obj -> Text \cup {Nil}] /\ a.exit \in [Room -> [Dir -> Exit \cup {Nil}]]
           /\ a.reset \in [Reset -> Command \cup {Nil}] /\ a.listed \in [Room -> Seq(Reset)]
           /\ Home \in Rooms(a) /\ Leads(a)
           /\ {x \in Reset : a.reset[x] # Nil} = Range(a.resets)
           /\ \A x \in Range(a.resets) : x \in Reset /\ a.reset[x] \in Command /\ Names(a, a.reset[x])
           /\ Rooms(a) \subseteq Room /\ Range(a.objs) \subseteq Obj /\ Range(a.mobs) \subseteq Mob
  <1>1. Whole(a)
    BY SoundIsWhole
  <1>2. Shaped(a) /\ a \in Area /\ Home \in Rooms(a) /\ Leads(a)
    BY <1>1 DEF Whole, Shaped
  <1>3. /\ a.rooms \in Lists(Room) /\ a.mobs \in Lists(Mob) /\ a.objs \in Lists(Obj)
        /\ a.text \in [Room \cup Mob \cup Obj -> Text \cup {Nil}] /\ a.exit \in [Room -> [Dir -> Exit \cup {Nil}]]
        /\ a.reset \in [Reset -> Command \cup {Nil}] /\ a.listed \in [Room -> Seq(Reset)]
    BY <1>2 DEF Shaped, Area, Lists
  <1>4. a.resets \in Lists(Reset) /\ {x \in Reset : a.reset[x] # Nil} = Range(a.resets)
    BY <1>1 DEF Whole, Resets
  <1>5. ASSUME NEW x \in Range(a.resets) PROVE x \in Reset /\ a.reset[x] \in Command /\ Names(a, a.reset[x])
    BY <1>1, <1>3, <1>4, Used DEF Whole
  <1>6. Rooms(a) \subseteq Room /\ Range(a.objs) \subseteq Obj /\ Range(a.mobs) \subseteq Mob
    BY <1>3, Listed DEF Rooms
  <1>7. QED BY <1>2, <1>3, <1>4, <1>5, <1>6

\* What is said of things does not matter.
LEMMA Retold ==
    ASSUME NEW a, Sound(a), NEW t \in [Room \cup Mob \cup Obj -> Text \cup {Nil}]
    PROVE  Sound([a EXCEPT !.text = t])
  <1> DEFINE b == [a EXCEPT !.text = t]
  <1>1. a \in Area /\ Shaped(a)
    BY Parts
  <1>2. /\ b \in Area /\ b.rooms = a.rooms /\ b.mobs = a.mobs /\ b.objs = a.objs /\ b.exit = a.exit
        /\ b.reset = a.reset /\ b.resets = a.resets /\ b.listed = a.listed
    BY <1>1 DEF Area
  <1> HIDE DEF b
  <1>3. Shaped(b)
    BY <1>1, <1>2 DEF Shaped, Rooms, Leads
  <1>4. \A x \in Range(a.resets) : Names(a, a.reset[x]) => Names(b, a.reset[x])
    BY <1>2 DEF Names, Rooms
  <1>5. Sound(b)
    BY <1>2, <1>3, <1>4, SameResets
  <1>6. QED BY <1>5 DEF b

LEMMA TextTyped ==
    ASSUME NEW a, Sound(a), NEW v \in Room \cup Mob \cup Obj, NEW t \in Text \cup {Nil}
    PROVE  [a.text EXCEPT ![v] = t] \in [Room \cup Mob \cup Obj -> Text \cup {Nil}]
  <1>1. a.text \in [Room \cup Mob \cup Obj -> Text \cup {Nil}]
    BY Parts
  <1>2. QED BY <1>1

\* A new thing.
LEMMA MobAdded ==
    ASSUME NEW a, Sound(a), NEW v \in Mob \ Range(a.mobs), NEW t \in [Room \cup Mob \cup Obj -> Text \cup {Nil}]
    PROVE  Sound([a EXCEPT !.mobs = Append(@, v), !.text = t])
  <1> DEFINE b == [a EXCEPT !.mobs = Append(@, v), !.text = t]
             s == Append(a.mobs, v)
  <1>1. a \in Area /\ Shaped(a) /\ a.mobs \in Lists(Mob)
    BY Parts
  <1>2. s \in Lists(Mob) /\ Range(s) = Range(a.mobs) \cup {v}
    BY <1>1, Appending DEF Extended
  <1> HIDE DEF s
  <1>3. s \in Seq(Mob) /\ IsInjective(s)
    BY <1>2 DEF Lists
  <1>4. /\ b \in Area /\ b.rooms = a.rooms /\ b.mobs = s /\ b.objs = a.objs /\ b.exit = a.exit
        /\ b.reset = a.reset /\ b.resets = a.resets /\ b.listed = a.listed
    BY <1>1, <1>3 DEF Area, s
  <1> HIDE DEF b
  <1>5. Shaped(b)
    BY <1>1, <1>3, <1>4 DEF Shaped, Rooms, Leads
  <1>6. \A x \in Range(a.resets) : Names(a, a.reset[x]) => Names(b, a.reset[x])
    BY <1>2, <1>4 DEF Names, Rooms
  <1>7. Sound(b)
    BY <1>4, <1>5, <1>6, SameResets
  <1>8. QED BY <1>7 DEF b

LEMMA ObjectAdded ==
    ASSUME NEW a, Sound(a), NEW v \in Obj \ Range(a.objs), NEW t \in [Room \cup Mob \cup Obj -> Text \cup {Nil}]
    PROVE  Sound([a EXCEPT !.objs = Append(@, v), !.text = t])
  <1> DEFINE b == [a EXCEPT !.objs = Append(@, v), !.text = t]
             s == Append(a.objs, v)
  <1>1. a \in Area /\ Shaped(a) /\ a.objs \in Lists(Obj)
    BY Parts
  <1>2. s \in Lists(Obj) /\ Range(s) = Range(a.objs) \cup {v}
    BY <1>1, Appending DEF Extended
  <1> HIDE DEF s
  <1>3. s \in Seq(Obj) /\ IsInjective(s)
    BY <1>2 DEF Lists
  <1>4. /\ b \in Area /\ b.rooms = a.rooms /\ b.mobs = a.mobs /\ b.objs = s /\ b.exit = a.exit
        /\ b.reset = a.reset /\ b.resets = a.resets /\ b.listed = a.listed
    BY <1>1, <1>3 DEF Area, s
  <1> HIDE DEF b
  <1>5. Shaped(b)
    BY <1>1, <1>3, <1>4 DEF Shaped, Rooms, Leads
  <1>6. \A x \in Range(a.resets) : Names(a, a.reset[x]) => Names(b, a.reset[x])
    BY <1>2, <1>4 DEF Names, Rooms
  <1>7. Sound(b)
    BY <1>4, <1>5, <1>6, SameResets
  <1>8. QED BY <1>7 DEF b

\* A new room, with any exits to rooms.
LEMMA RoomAdded ==
    ASSUME NEW a, Sound(a), NEW v \in Room \ Rooms(a), NEW t \in [Room \cup Mob \cup Obj -> Text \cup {Nil}],
           NEW e \in [Room -> [Dir -> Exit \cup {Nil}]],
           \A r \in Rooms(a) \cup {v}, d \in Dir : e[r][d] # Nil => e[r][d].to \in Rooms(a) \cup {v, Nil},
           \A r \in Rooms(a), d \in Dir : a.exit[r][d] # Nil => e[r][d] = a.exit[r][d]
    PROVE  Sound([a EXCEPT !.rooms = Append(@, v), !.text = t, !.exit = e])
  <1> DEFINE b == [a EXCEPT !.rooms = Append(@, v), !.text = t, !.exit = e]
             s == Append(a.rooms, v)
  <1>1. a \in Area /\ Shaped(a) /\ a.rooms \in Lists(Room) /\ Rooms(a) = Range(a.rooms)
    BY Parts DEF Rooms
  <1>2. s \in Lists(Room) /\ Range(s) = Range(a.rooms) \cup {v}
    BY <1>1, Appending DEF Extended
  <1> HIDE DEF s
  <1>3. s \in Seq(Room) /\ IsInjective(s)
    BY <1>2 DEF Lists
  <1>4. /\ b \in Area /\ b.rooms = s /\ b.mobs = a.mobs /\ b.objs = a.objs /\ b.exit = e
        /\ b.reset = a.reset /\ b.resets = a.resets /\ b.listed = a.listed
    BY <1>1, <1>3 DEF Area, s
  <1> HIDE DEF b
  <1>5. Rooms(b) = Rooms(a) \cup {v}
    BY <1>1, <1>2, <1>4 DEF Rooms
  <1>6. Shaped(b)
    BY <1>1, <1>3, <1>4, <1>5 DEF Shaped, Leads
  <1>7. ASSUME NEW x \in Range(a.resets), Names(a, a.reset[x]) PROVE Names(b, a.reset[x])
    <2> DEFINE c == a.reset[x]
    <2>1. c.cmd = "D" => c.a \in Rooms(a) /\ c.b \in Dir /\ IsDoor(a.exit[c.a][c.b])
      BY <1>7, Parts, Commands4 DEF Names
    <2>2. c.cmd = "D" => e[c.a][c.b] = a.exit[c.a][c.b]
      BY <2>1 DEF IsDoor
    <2>3. QED BY <1>4, <1>5, <1>7, <2>1, <2>2 DEF Names
  <1>8. Sound(b)
    BY <1>4, <1>6, <1>7, SameResets
  <1>9. QED BY <1>8 DEF b

\* Things of which no reset speaks are removed.
LEMMA MobRemoved ==
    ASSUME NEW a, Sound(a), NEW v, NEW t \in [Room \cup Mob \cup Obj -> Text \cup {Nil}],
           \A x \in Range(a.resets) : a.reset[x].a # v
    PROVE  Sound([a EXCEPT !.mobs = Without(@, {v}), !.text = t])
  <1> DEFINE b == [a EXCEPT !.mobs = Without(@, {v}), !.text = t]
             s == Without(a.mobs, {v})
  <1>1. a \in Area /\ Shaped(a) /\ a.mobs \in Lists(Mob)
    BY Parts
  <1>2. s \in Lists(Mob) /\ Range(s) = Range(a.mobs) \ {v}
    BY <1>1, Removal
  <1> HIDE DEF s
  <1>3. s \in Seq(Mob) /\ IsInjective(s)
    BY <1>2 DEF Lists
  <1>4. /\ b \in Area /\ b.rooms = a.rooms /\ b.mobs = s /\ b.objs = a.objs /\ b.exit = a.exit
        /\ b.reset = a.reset /\ b.resets = a.resets /\ b.listed = a.listed
    BY <1>1, <1>3 DEF Area, s
  <1> HIDE DEF b
  <1>5. Shaped(b)
    BY <1>1, <1>3, <1>4 DEF Shaped, Rooms, Leads
  <1>6. \A x \in Range(a.resets) : Names(a, a.reset[x]) => Names(b, a.reset[x])
    BY <1>2, <1>4 DEF Names, Rooms
  <1>7. Sound(b)
    BY <1>4, <1>5, <1>6, SameResets
  <1>8. QED BY <1>7 DEF b

LEMMA ObjectRemoved ==
    ASSUME NEW a, Sound(a), NEW v, NEW t \in [Room \cup Mob \cup Obj -> Text \cup {Nil}],
           \A x \in Range(a.resets) : a.reset[x].a # v
    PROVE  Sound([a EXCEPT !.objs = Without(@, {v}), !.text = t])
  <1> DEFINE b == [a EXCEPT !.objs = Without(@, {v}), !.text = t]
             s == Without(a.objs, {v})
  <1>1. a \in Area /\ Shaped(a) /\ a.objs \in Lists(Obj)
    BY Parts
  <1>2. s \in Lists(Obj) /\ Range(s) = Range(a.objs) \ {v}
    BY <1>1, Removal
  <1> HIDE DEF s
  <1>3. s \in Seq(Obj) /\ IsInjective(s)
    BY <1>2 DEF Lists
  <1>4. /\ b \in Area /\ b.rooms = a.rooms /\ b.mobs = a.mobs /\ b.objs = s /\ b.exit = a.exit
        /\ b.reset = a.reset /\ b.resets = a.resets /\ b.listed = a.listed
    BY <1>1, <1>3 DEF Area, s
  <1> HIDE DEF b
  <1>5. Shaped(b)
    BY <1>1, <1>3, <1>4 DEF Shaped, Rooms, Leads
  <1>6. \A x \in Range(a.resets) : Names(a, a.reset[x]) => Names(b, a.reset[x])
    BY <1>2, <1>4 DEF Names, Rooms
  <1>7. Sound(b)
    BY <1>4, <1>5, <1>6, SameResets
  <1>8. QED BY <1>7 DEF b

\* Exits change, but the doors stay.
LEMMA Reexited ==
    ASSUME NEW a, Sound(a), NEW e \in [Room -> [Dir -> Exit \cup {Nil}]],
           \A r \in Rooms(a), d \in Dir : e[r][d] # Nil => e[r][d].to \in Rooms(a) \cup {Nil},
           \A r \in Rooms(a), d \in Dir : IsDoor(a.exit[r][d]) => IsDoor(e[r][d])
    PROVE  Sound([a EXCEPT !.exit = e])
  <1> DEFINE b == [a EXCEPT !.exit = e]
  <1>1. a \in Area /\ Shaped(a)
    BY Parts
  <1>2. /\ b \in Area /\ b.rooms = a.rooms /\ b.mobs = a.mobs /\ b.objs = a.objs /\ b.exit = e
        /\ b.reset = a.reset /\ b.resets = a.resets /\ b.listed = a.listed
    BY <1>1 DEF Area
  <1> HIDE DEF b
  <1>3. Shaped(b)
    BY <1>1, <1>2 DEF Shaped, Rooms, Leads
  <1>4. ASSUME NEW x \in Range(a.resets), Names(a, a.reset[x]) PROVE Names(b, a.reset[x])
    <2> DEFINE c == a.reset[x]
    <2>1. c.cmd = "D" => c.a \in Rooms(a) /\ c.b \in Dir /\ IsDoor(a.exit[c.a][c.b])
      BY <1>4, Parts, Commands4 DEF Names
    <2>2. c.cmd = "D" => IsDoor(e[c.a][c.b])
      BY <2>1
    <2>3. Rooms(b) = Rooms(a)
      BY <1>2 DEF Rooms
    <2>4. QED BY <1>2, <1>4, <2>1, <2>2, <2>3 DEF Names
  <1>5. Sound(b)
    BY <1>2, <1>3, <1>4, SameResets
  <1>6. QED BY <1>5 DEF b

\* The same area but for resets and their lists.
Frame(a, b) == b.rooms = a.rooms /\ b.mobs = a.mobs /\ b.objs = a.objs /\ b.text = a.text /\ b.exit = a.exit

UnlinkedFrom(a, X, R, b) ==
    /\ Frame(a, b) /\ b.reset = Freed(a.reset, X) /\ b.resets = Without(a.resets, X)
    /\ b.listed = [r \in Room |-> IF r \in R THEN Without(a.listed[r], X) ELSE a.listed[r]]
    /\ b = [a EXCEPT !.resets = b.resets, !.reset = b.reset, !.listed = b.listed]

LEMMA Unlinked ==
    ASSUME NEW a, a \in Area, NEW X, NEW R
    PROVE  UnlinkedFrom(a, X, R, Unlink(a, X, R))
  <1> DEFINE rs == Without(a.resets, X)
             f == Freed(a.reset, X)
             l == [r \in Room |-> IF r \in R THEN Without(a.listed[r], X) ELSE a.listed[r]]
             b == Unlink(a, X, R)
  <1>1. b = [a EXCEPT !.resets = rs, !.reset = f, !.listed = l]
    BY DEF Unlink, Freed
  <1> HIDE DEF rs, f, l, b
  <1>2. b.resets = rs /\ b.reset = f /\ b.listed = l /\ Frame(a, b)
    BY <1>1 DEF Area, Frame
  <1>3. QED BY <1>1, <1>2 DEF rs, f, l, b, UnlinkedFrom

\* An area some of whose resets are gone.
Fewer(a, X, b) ==
    /\ Frame(a, b) /\ Range(b.resets) = Range(a.resets) \ X
    /\ \A x \in Range(b.resets) : b.reset[x] = a.reset[x] /\ RoomOf(b.reset, b.resets, x) = RoomOf(a.reset, a.resets, x)

\* Resets are unlinked from an area that is sound but for some of them.
LEMMA UnlinkedWell ==
    ASSUME NEW a, Shaped(a), Resets(a.reset, a.resets), InRooms(a.reset, a.resets, a.listed),
           NEW X, NEW R, Closed(a.reset, a.resets, X),
           \A x \in X : x \in Range(a.resets) => RoomOf(a.reset, a.resets, x) \in R,
           \A x \in Range(a.resets) \ X : Names(a, a.reset[x])
    PROVE  Sound(Unlink(a, X, R)) /\ Fewer(a, X, Unlink(a, X, R))
  <1>1. a \in Area
    BY DEF Shaped
  <1> DEFINE b == Unlink(a, X, R)
  <1>0. UnlinkedFrom(a, X, R, b)
    BY <1>1, Unlinked
  <1> HIDE DEF b
  <1>2. /\ Frame(a, b) /\ b.reset = Freed(a.reset, X) /\ b.resets = Without(a.resets, X)
        /\ b.listed = [r \in Room |-> IF r \in R THEN Without(a.listed[r], X) ELSE a.listed[r]]
        /\ b = [a EXCEPT !.resets = b.resets, !.reset = b.reset, !.listed = b.listed]
    BY <1>0 DEF UnlinkedFrom
  <1>3. /\ Resets(b.reset, b.resets) /\ Range(b.resets) = Range(a.resets) \ X
        /\ \A x \in Range(b.resets) : b.reset[x] = a.reset[x] /\ RoomOf(b.reset, b.resets, x) = RoomOf(a.reset, a.resets, x)
    BY <1>2, Removing
  <1>4. InRooms(b.reset, b.resets, b.listed)
    BY <1>2, RemovingInRooms
  <1>5. b \in Area
    <2>1. b.reset \in [Reset -> Command \cup {Nil}] /\ b.resets \in Seq(Reset)
      BY <1>3 DEF Resets, Lists
    <2>2. b.listed \in [Room -> Seq(Reset)]
      <3>1. \A r \in Room : b.listed[r] \in Seq(Reset)
        BY <1>4 DEF InRooms, Step, Lists
      <3>2. b.listed = [r \in Room |-> b.listed[r]]
        BY <1>2
      <3>3. QED BY <3>1, <3>2
    <2> DEFINE rs == b.resets
               f == b.reset
               l == b.listed
    <2>3. rs \in Seq(Reset) /\ f \in [Reset -> Command \cup {Nil}] /\ l \in [Room -> Seq(Reset)]
          /\ b = [a EXCEPT !.resets = rs, !.reset = f, !.listed = l]
      BY <1>2, <2>1, <2>2
    <2> HIDE DEF rs, f, l
    <2>4. [a EXCEPT !.resets = rs, !.reset = f, !.listed = l] \in Area
      BY <1>1, <2>3 DEF Area
    <2>5. QED BY <2>3, <2>4
  <1>6. Shaped(b)
    BY <1>2, <1>5 DEF Shaped, Frame, Rooms, Leads
  <1>7. \A x \in Range(b.resets) : Names(b, b.reset[x])
    BY <1>2, <1>3 DEF Names, Frame, Rooms
  <1>8. Sound(b)
    BY <1>3, <1>4, <1>6, <1>7, SoundIsWhole DEF Whole
  <1>9. Fewer(a, X, b)
    BY <1>2, <1>3 DEF Fewer
  <1>10. QED BY <1>8, <1>9 DEF b

\* The resets of doors are not those of mobiles.
LEMMA DoorsClosed ==
    ASSUME NEW f, NEW s, NEW X, \A x \in X : f[x].cmd # "M"
    PROVE  Closed(f, s, X)
  BY DEF Closed, Owns

\* n is sound, and a but for the exits, which are e, and some resets.
Rebuilt(a, e, n) ==
    /\ Sound(n) /\ n.exit = e /\ n.rooms = a.rooms /\ n.mobs = a.mobs /\ n.objs = a.objs /\ n.text = a.text
    /\ \A x \in Range(n.resets) : /\ x \in Range(a.resets) /\ n.reset[x] = a.reset[x]
                                  /\ RoomOf(n.reset, n.resets, x) = RoomOf(a.reset, a.resets, x)

LEMMA Nuked ==
    ASSUME NEW a, Sound(a), NEW X \in SUBSET (Room \X Dir), NEW e \in [Room -> [Dir -> Exit \cup {Nil}]],
           \A r \in Rooms(a), d \in Dir : e[r][d] # Nil => e[r][d].to \in Rooms(a) \cup {Nil},
           \A r \in Rooms(a), d \in Dir :
              <<r, d>> \notin X /\ IsDoor(a.exit[r][d]) => IsDoor(e[r][d])
    PROVE  Rebuilt(a, e, nuke_exit_resets([a EXCEPT !.exit = e], X))
  <1> DEFINE b == [a EXCEPT !.exit = e]
             D == {x \in Reset : \E s \in X : x \in Range(b.listed[s[1]]) /\ b.reset[x].cmd = "D" /\ b.reset[x].b = s[2]}
             R == {s[1] : s \in X}
             n == nuke_exit_resets(b, X)
  <1>1. Whole(a) /\ a \in Area /\ Shaped(a)
    BY Parts, SoundIsWhole
  <1>2. /\ b \in Area /\ b.rooms = a.rooms /\ b.mobs = a.mobs /\ b.objs = a.objs /\ b.exit = e /\ b.text = a.text
        /\ b.reset = a.reset /\ b.resets = a.resets /\ b.listed = a.listed
    BY <1>1 DEF Area
  <1> HIDE DEF b
  <1>3. Shaped(b) /\ Resets(b.reset, b.resets) /\ InRooms(b.reset, b.resets, b.listed)
    BY <1>1, <1>2 DEF Shaped, Rooms, Leads, Whole
  <1>4. Closed(b.reset, b.resets, D)
    BY DoorsClosed
  <1>5. ASSUME NEW x \in D, x \in Range(b.resets) PROVE RoomOf(b.reset, b.resets, x) \in R
    <2>1. PICK s \in X : x \in Range(b.listed[s[1]])
      OBVIOUS
    <2>2. s[1] \in Room /\ s[1] \in R
      OBVIOUS
    <2>3. Step(b.reset, b.resets, b.listed[s[1]], s[1])
      BY <1>3, <2>2 DEF InRooms
    <2>4. QED BY <2>1, <2>2, <2>3 DEF Step
  <1>6. ASSUME NEW x \in Range(b.resets) \ D PROVE Names(b, b.reset[x])
    <2> DEFINE c == b.reset[x]
    <2>1. x \in Reset /\ c \in Command /\ Names(a, c)
      BY <1>2, Parts
    <2>2. CASE c.cmd = "D"
      <3>1. c.a \in Rooms(a) /\ c.a \in Room /\ c.b \in Dir /\ IsDoor(a.exit[c.a][c.b])
        BY <2>1, <2>2, Commands4 DEF Names
      <3>2. RoomOf(b.reset, b.resets, x) = c.a
        BY <1>3, <2>1, <2>2, RoomIs DEF Resets
      <3>3. x \in Range(b.listed[c.a])
        BY <1>3, <3>1, <3>2 DEF InRooms, Step
      <3>4. <<c.a, c.b>> \notin X
        <4>1. ASSUME <<c.a, c.b>> \in X PROVE FALSE
          <5>1. <<c.a, c.b>>[1] = c.a /\ <<c.a, c.b>>[2] = c.b
            OBVIOUS
          <5>2. x \in D
            BY <2>1, <2>2, <3>3, <4>1, <5>1
          <5>3. QED BY <5>2
        <4>2. QED BY <4>1
      <3>5. IsDoor(e[c.a][c.b])
        BY <3>1, <3>4
      <3>6. Rooms(b) = Rooms(a)
        BY <1>2 DEF Rooms
      <3>7. QED BY <1>2, <2>2, <3>1, <3>5, <3>6 DEF Names
    <2>3. CASE c.cmd # "D"
      BY <1>2, <2>1, <2>3 DEF Names, Rooms
    <2>4. QED BY <2>2, <2>3
  <1>7. n = Unlink(b, D, R)
    BY DEF nuke_exit_resets
  <1> HIDE DEF D, R, n
  <1>8. Sound(n) /\ Fewer(b, D, n)
    BY <1>3, <1>4, <1>5, <1>6, <1>7, UnlinkedWell
  <1>9. Rebuilt(a, e, n)
    BY <1>2, <1>8 DEF Fewer, Frame, Rebuilt
  <1>10. QED BY <1>9 DEF n, b

\* The area b is sound, and a but for the exits X and their resets.
Dropped(a, X, b) ==
    /\ Sound(b) /\ b.rooms = a.rooms /\ b.mobs = a.mobs /\ b.objs = a.objs /\ b.text = a.text
    /\ \A r \in Room, d \in Dir : b.exit[r][d] = IF <<r, d>> \in X THEN Nil ELSE a.exit[r][d]
    /\ \A x \in Range(b.resets) : /\ x \in Range(a.resets) /\ b.reset[x] = a.reset[x]
                                  /\ RoomOf(b.reset, b.resets, x) = RoomOf(a.reset, a.resets, x)

LEMMA Dropping ==
    ASSUME NEW a, Sound(a), NEW X \in SUBSET (Room \X Dir)
    PROVE  Dropped(a, X, DropExits(a, X))
  <1> DEFINE e == [r \in Room |-> [d \in Dir |-> IF <<r, d>> \in X THEN Nil ELSE a.exit[r][d]]]
             n == nuke_exit_resets([a EXCEPT !.exit = e], X)
  <1>1. a.exit \in [Room -> [Dir -> Exit \cup {Nil}]] /\ Leads(a) /\ Rooms(a) \subseteq Room
    BY Parts
  <1>2. \A r \in Room, d \in Dir : e[r][d] = IF <<r, d>> \in X THEN Nil ELSE a.exit[r][d]
    OBVIOUS
  <1>3. e \in [Room -> [Dir -> Exit \cup {Nil}]]
    BY <1>1
  <1>4. DropExits(a, X) = n
    BY DEF DropExits
  <1> HIDE DEF e
  <1>5. \A r \in Rooms(a), d \in Dir : e[r][d] # Nil => e[r][d].to \in Rooms(a) \cup {Nil}
    BY <1>1, <1>2 DEF Leads
  <1>6. \A r \in Rooms(a), d \in Dir :
           <<r, d>> \notin X /\ IsDoor(a.exit[r][d]) => IsDoor(e[r][d])
    BY <1>1, <1>2
  <1>7. Rebuilt(a, e, n)
    BY <1>3, <1>5, <1>6, Nuked
  <1> HIDE DEF n
  <1>8. QED BY <1>2, <1>4, <1>7 DEF Dropped, Rebuilt

LEMMA DroppingOne ==
    ASSUME NEW a, Sound(a), NEW r \in Room, NEW d \in Dir
    PROVE  Dropped(a, {<<r, d>>}, DropExit(a, r, d))
  <1>1. {<<r, d>>} \in SUBSET (Room \X Dir)
    OBVIOUS
  <1>2. QED BY <1>1, Dropping DEF DropExit

RoomGone(a, v, t) == [a EXCEPT !.rooms = Without(@, {v}), !.listed[v] = <<>>, !.text = t]

\* A room where no reset happens, and to which no exit leads.
LEMMA RoomRemoved ==
    ASSUME NEW a, Sound(a), NEW v \in Room \ {Home}, NEW t \in [Room \cup Mob \cup Obj -> Text \cup {Nil}],
           \A r \in Rooms(a), d \in Dir : a.exit[r][d] # Nil => a.exit[r][d].to # v,
           \A x \in Range(a.resets) : RoomOf(a.reset, a.resets, x) # v
    PROVE  Sound(RoomGone(a, v, t))
  <1> DEFINE s == Without(a.rooms, {v})
             l == [a.listed EXCEPT ![v] = <<>>]
             b == [a EXCEPT !.rooms = s, !.listed = l, !.text = t]
  <1>1. a \in Area /\ Shaped(a) /\ a.rooms \in Lists(Room) /\ a.listed \in [Room -> Seq(Reset)] /\ Rooms(a) = Range(a.rooms)
    BY Parts DEF Rooms
  <1>2. s \in Lists(Room) /\ Range(s) = Range(a.rooms) \ {v}
    BY <1>1, Removal
  <1> HIDE DEF s
  <1>3. s \in Seq(Room) /\ IsInjective(s) /\ l \in [Room -> Seq(Reset)]
    BY <1>1, <1>2 DEF Lists
  <1>4. l[v] = <<>> /\ DOMAIN l = Room /\ \A r \in Room : r # v => l[r] = a.listed[r]
    BY <1>1
  <1>5. RoomGone(a, v, t) = b
    BY <1>1 DEF Area, s, RoomGone
  <1> HIDE DEF l
  <1>6. /\ b \in Area /\ b.rooms = s /\ b.mobs = a.mobs /\ b.objs = a.objs /\ b.exit = a.exit
        /\ b.reset = a.reset /\ b.resets = a.resets /\ b.listed = l
    BY <1>1, <1>3 DEF Area
  <1> HIDE DEF b
  <1>7. Rooms(b) = Rooms(a) \ {v}
    BY <1>1, <1>2, <1>6 DEF Rooms
  <1>8. Shaped(b)
    BY <1>1, <1>3, <1>6, <1>7 DEF Shaped, Leads
  <1>9. Whole(a)
    BY SoundIsWhole
  <1>10. ASSUME NEW r \in Room PROVE Step(b.reset, b.resets, b.listed[r], r)
    <2>1. Step(a.reset, a.resets, a.listed[r], r)
      BY <1>9 DEF Whole, InRooms
    <2>2. CASE r # v
      BY <1>4, <1>6, <2>1, <2>2
    <2>3. CASE r = v
      <3>1. <<>> \in Lists(Reset) /\ Range(<<>>) = {}
        BY DEF Lists, IsInjective, Range
      <3>2. {x \in Range(b.resets) : RoomOf(b.reset, b.resets, x) = r} = {}
        BY <1>6, <2>3
      <3>3. b.listed[r] = <<>>
        BY <1>4, <1>6, <2>3
      <3>4. QED BY <3>1, <3>2, <3>3 DEF Step
    <2>4. QED BY <2>2, <2>3
  <1>11. InRooms(b.reset, b.resets, b.listed)
    BY <1>4, <1>6, <1>10 DEF InRooms
  <1>12. ASSUME NEW x \in Range(b.resets) PROVE Names(b, b.reset[x])
    <2> DEFINE c == a.reset[x]
    <2>1. Names(a, c) /\ c \in Command /\ a.resets \in Lists(Reset) /\ RoomOf(a.reset, a.resets, x) # v
      BY <1>6, Parts
    <2>2. c.cmd \in {"M", "O"} => c.b # v
      BY <2>1, RoomIs
    <2>3. c.cmd = "D" => c.a # v
      BY <2>1, RoomIs
    <2>4. QED BY <1>6, <1>7, <2>1, <2>2, <2>3 DEF Names
  <1>13. Whole(b)
    BY <1>6, <1>8, <1>9, <1>11, <1>12 DEF Whole
  <1>14. Sound(b)
    BY <1>13, SoundIsWhole
  <1>15. QED BY <1>5, <1>14 DEF b

\* delroom ok
LEMMA DeletedWell ==
    ASSUME Sound(w), NEW v \in Room \ {Home}
    PROVE  Sound(Deleted(v)) /\ Rooms(Deleted(v)) = Rooms(w) \ {v}
  <1> DEFINE X == {x \in Rooms(w) \X Dir : w.exit[x[1]][x[2]] # Nil /\ (x[1] = v \/ w.exit[x[1]][x[2]].to = v)}
             a == WithoutExits(w, v)
             there == {x \in Range(a.resets) : RoomOf(a.reset, a.resets, x) = v}
             b == Unlink(a, there, {v})
             t == [w.text EXCEPT ![v] = Nil]
             n == RoomGone(b, v, t)
  <1>1. Dropped(w, X, a)
    <2>1. X \in SUBSET (Room \X Dir)
      BY Parts
    <2>2. QED BY <2>1, Dropping DEF WithoutExits
  <1>2. \A r \in Rooms(w), d \in Dir : a.exit[r][d] # Nil => a.exit[r][d].to # v
    <2>1. ASSUME NEW r \in Rooms(w), NEW d \in Dir, a.exit[r][d] # Nil PROVE a.exit[r][d].to # v
      <3>1. r \in Room
        BY Parts
      <3>2. <<r, d>> \notin X /\ a.exit[r][d] = w.exit[r][d]
        BY <1>1, <2>1, <3>1 DEF Dropped
      <3>3. <<r, d>> \in Rooms(w) \X Dir /\ <<r, d>>[1] = r /\ <<r, d>>[2] = d
        OBVIOUS
      <3>4. QED BY <2>1, <3>2, <3>3
    <2>2. QED BY <2>1
  <1> HIDE DEF X, a
  <1>3. Sound(a) /\ Rooms(a) = Rooms(w) /\ a.text = w.text
    BY <1>1 DEF Dropped, Rooms
  <1>4. Whole(a)
    BY <1>3, SoundIsWhole
  <1>5. Closed(a.reset, a.resets, there)
    <2>1. ASSUME NEW m \in there, NEW x \in Range(a.resets), a.reset[x].cmd = "E", Owns(a.reset, a.resets, m, x) PROVE x \in there
      <3>1. a.reset[m].cmd = "M" /\ a.reset[m] \in Command /\ a.reset[x] \in Command /\ a.resets \in Lists(Reset)
        BY <1>3, <2>1, Parts DEF Owns
      <3>2. RoomOf(a.reset, a.resets, m) = a.reset[m].b /\ RoomOf(a.reset, a.resets, x) = a.reset[m].b
        BY <2>1, <3>1, RoomIs
      <3>3. QED BY <3>2
    <2>2. QED BY <2>1 DEF Closed
  <1>6. Sound(b) /\ Fewer(a, there, b)
    BY <1>4, <1>5, UnlinkedWell DEF Whole
  <1>7. Rooms(b) = Rooms(w) /\ b.exit = a.exit /\ b.text = w.text /\ b.rooms = a.rooms
    BY <1>3, <1>6 DEF Fewer, Frame, Rooms
  <1>8. \A x \in Range(b.resets) : RoomOf(b.reset, b.resets, x) # v
    BY <1>6 DEF Fewer
  <1>9. t \in [Room \cup Mob \cup Obj -> Text \cup {Nil}]
    BY TextTyped
  <1>10. Deleted(v) = [b EXCEPT !.rooms = Without(@, {v}), !.listed[v] = <<>>, !.text[v] = Nil]
    BY DEF Deleted, a
  <1> HIDE DEF there, b, t
  <1>11. Sound(n)
    BY <1>2, <1>6, <1>7, <1>8, <1>9, RoomRemoved
  <1>12. b \in Area
    BY <1>6, Parts
  <1>13. Deleted(v) = n
    BY <1>7, <1>10, <1>12 DEF Area, t, RoomGone
  <1>14. n.rooms = Without(b.rooms, {v})
    BY <1>12 DEF Area, RoomGone
  <1>15. Rooms(n) = Rooms(w) \ {v}
    <2>1. b.rooms \in Lists(Room)
      BY <1>6, Parts
    <2>2. Range(Without(b.rooms, {v})) = Range(b.rooms) \ {v}
      BY <2>1, Removal
    <2>3. QED BY <1>7, <1>14, <2>2 DEF Rooms
  <1>16. QED BY <1>11, <1>13, <1>15

\* What a careful builder may find and do.
Built == Careful /\ Sound(w) /\ at \in [Builder -> Rooms(w)]

Kept == Sound(w') /\ Rooms(w) \subseteq Rooms(w')

LEMMA Here ==
    ASSUME Built, NEW b \in Builder
    PROVE  at[b] \in Rooms(w) /\ at[b] \in Room
  BY Parts DEF Built

LEMMA DigKeeps ==
    ASSUME Built, NEW b \in Builder, NEW d \in Dir, NEW v \in Room, NEW onesided \in BOOLEAN, build_dig(b, d, v, onesided)
    PROVE  Kept
  <1> DEFINE r == at[b]
             t == [w.text EXCEPT ![v] = New]
             e == [w.exit EXCEPT ![r][d] = NewExit(v, FALSE),
                                 ![v] = [f \in Dir |-> IF f = RevDirs[d] /\ ~onesided THEN NewExit(r, FALSE) ELSE Nil]]
             n == [w EXCEPT !.rooms = Append(@, v), !.text = t, !.exit = e]
  <1>1. Sound(w) /\ r \in Rooms(w) /\ r \in Room /\ RevDirs \in [Dir -> Dir]
    BY Here, BuildingAssumption DEF Built
  <1>2. w \in Area /\ w.exit \in [Room -> [Dir -> Exit \cup {Nil}]] /\ Leads(w) /\ Rooms(w) \subseteq Room /\ w.rooms \in Lists(Room)
    BY <1>1, Parts
  <1>3. w.exit[r][d] = Nil /\ v \notin Rooms(w) /\ v # r
    BY <1>1 DEF build_dig
  <1>4. w' = [w EXCEPT !.rooms = Append(@, v), !.text[v] = New, !.exit[r][d] = NewExit(v, FALSE),
                       !.exit[v] = [f \in Dir |-> IF f = RevDirs[d] /\ ~onesided THEN NewExit(r, FALSE) ELSE Nil]]
    BY DEF build_dig, Unflagged
  <1>5. w' = n
    BY <1>2, <1>4 DEF Area
  <1>6. t \in [Room \cup Mob \cup Obj -> Text \cup {Nil}]
    BY <1>1, TextTyped, BuildingAssumption
  <1>7. NewExit(v, FALSE) \in Exit /\ NewExit(r, FALSE) \in Exit /\ NewExit(v, FALSE).to = v /\ NewExit(r, FALSE).to = r
    BY <1>1 DEF NewExit, Exit
  <1>8. e \in [Room -> [Dir -> Exit \cup {Nil}]]
    BY <1>1, <1>2, <1>7
  <1>9. /\ e[r][d] = NewExit(v, FALSE)
        /\ \A f \in Dir : e[v][f] \in {NewExit(r, FALSE), Nil}
        /\ \A q \in Room, f \in Dir : q # v /\ <<q, f>> # <<r, d>> => e[q][f] = w.exit[q][f]
    BY <1>1, <1>2, <1>3
  <1> HIDE DEF e, t
  <1>10. ASSUME NEW q \in Rooms(w) \cup {v}, NEW f \in Dir, e[q][f] # Nil PROVE e[q][f].to \in Rooms(w) \cup {v, Nil}
    <2>1. CASE q = v
      BY <1>1, <1>7, <1>9, <1>10, <2>1
    <2>2. CASE q # v /\ <<q, f>> = <<r, d>>
      BY <1>1, <1>7, <1>9, <1>10, <2>2
    <2>3. CASE q # v /\ <<q, f>> # <<r, d>>
      BY <1>2, <1>9, <1>10, <2>3 DEF Leads
    <2>4. QED BY <2>1, <2>2, <2>3
  <1>11. ASSUME NEW q \in Rooms(w), NEW f \in Dir, w.exit[q][f] # Nil PROVE e[q][f] = w.exit[q][f]
    BY <1>2, <1>3, <1>9, <1>11
  <1>12. Sound(n)
    BY <1>1, <1>3, <1>6, <1>8, <1>10, <1>11, RoomAdded
  <1>13. n.rooms = Append(w.rooms, v)
    BY <1>2 DEF Area
  <1>14. Rooms(w) \subseteq Rooms(n)
    BY <1>2, <1>3, <1>13, Appending DEF Rooms, Extended
  <1>15. QED BY <1>5, <1>12, <1>14 DEF Kept

LEMMA BackIs ==
    ASSUME Sound(w), NEW r \in Rooms(w), NEW d \in Dir, Back(w, r, d) # Nil
    PROVE  LET x == w.exit[r][d]
           IN  /\ x \in Exit /\ x.to \in Rooms(w) /\ x.to \in Room /\ RevDirs[d] \in Dir
               /\ Back(w, r, d) = <<x.to, RevDirs[d]>> /\ w.exit[x.to][RevDirs[d]] # Nil
  <1>1. w.exit \in [Room -> [Dir -> Exit \cup {Nil}]] /\ Leads(w) /\ Rooms(w) \subseteq Room
    BY Parts
  <1>2. RevDirs[d] \in Dir
    BY BuildingAssumption
  <1>3. /\ w.exit[r][d] # Nil /\ w.exit[r][d].to # Nil
        /\ Back(w, r, d) = <<w.exit[r][d].to, RevDirs[d]>> /\ w.exit[w.exit[r][d].to][RevDirs[d]] # Nil
    BY DEF Back
  <1>4. QED BY <1>1, <1>2, <1>3 DEF Leads

LEMMA DoorToKeeps ==
    ASSUME Built, NEW b \in Builder, NEW d \in Dir, NEW v \in Room, NEW onesided \in BOOLEAN, DoorTo(b, d, v, onesided)
    PROVE  Kept
  <1> DEFINE r == at[b]
             door == w.exit[r][d] # Nil /\ w.exit[r][d].door
             back == Back(w, r, d)
             apart == IF ~onesided /\ back # Nil THEN DropExit(w, back[1], back[2]) ELSE w
             both == IF ~onesided /\ apart.exit[v][RevDirs[d]] = Nil
                     THEN [apart EXCEPT !.exit[v][RevDirs[d]] = NewExit(r, door)] ELSE apart
             n == [both EXCEPT !.exit[r][d] = NewExit(v, door)]
  <1>1. Sound(w) /\ r \in Rooms(w) /\ r \in Room /\ RevDirs[d] \in Dir
    BY Here, BuildingAssumption DEF Built
  <1>2. w' = n /\ v \in Rooms(w)
    BY DEF DoorTo, Flagged
  <1>3. /\ Sound(apart) /\ apart.rooms = w.rooms
        /\ \A q \in Room, f \in Dir : apart.exit[q][f] \in {Nil, w.exit[q][f]}
    <2>1. CASE ~onesided /\ back # Nil
      <3>1. \E q \in Room, f \in Dir : back = <<q, f>>
        BY <1>1, <2>1, BackIs
      <3>2. PICK q \in Room, f \in Dir : back = <<q, f>>
        BY <3>1
      <3>3. back[1] = q /\ back[2] = f
        BY <3>2
      <3> HIDE DEF back
      <3>4. Dropped(w, {<<q, f>>}, apart)
        BY <1>1, <2>1, <3>3, DroppingOne
      <3>5. QED BY <3>4 DEF Dropped
    <2>2. CASE ~(~onesided /\ back # Nil)
      <3>1. apart = w
        BY <2>2
      <3>2. QED BY <1>1, <3>1
    <2>3. QED BY <2>1, <2>2
  <1> HIDE DEF apart, back
  <1>4. apart \in Area /\ apart.exit \in [Room -> [Dir -> Exit \cup {Nil}]] /\ Leads(apart) /\ Rooms(apart) = Rooms(w)
    BY <1>3, Parts DEF Rooms
  <1>5. w.exit[r][d] # Nil => w.exit[r][d].door \in BOOLEAN
    <2>1. w.exit \in [Room -> [Dir -> Exit \cup {Nil}]]
      BY <1>1, Parts
    <2>2. QED BY <1>1, <2>1 DEF Exit
  <1>6. door \in BOOLEAN /\ (w.exit[r][d] # Nil /\ w.exit[r][d].door => door)
    BY <1>5
  <1> HIDE DEF door
  <1> DEFINE V == NewExit(v, door)
             R == NewExit(r, door)
             e1 == IF ~onesided /\ apart.exit[v][RevDirs[d]] = Nil
                   THEN [apart.exit EXCEPT ![v][RevDirs[d]] = R] ELSE apart.exit
             e2 == [e1 EXCEPT ![r][d] = V]
  <1>7. V \in Exit /\ R \in Exit /\ V.to = v /\ R.to = r /\ V.door = door /\ V # Nil /\ R # Nil
    BY <1>1, <1>6, NilAssumption DEF NewExit, Exit
  <1>8. n = [apart EXCEPT !.exit = e2]
    BY <1>1, <1>4 DEF Area
  <1> HIDE DEF V, R, n
  <1>9. /\ e1 \in [Room -> [Dir -> Exit \cup {Nil}]]
        /\ \A q \in Room, f \in Dir : e1[q][f] = apart.exit[q][f] \/ (apart.exit[q][f] = Nil /\ e1[q][f] = R)
    BY <1>1, <1>4, <1>7
  <1> HIDE DEF e1
  <1>10. /\ e2 \in [Room -> [Dir -> Exit \cup {Nil}]] /\ e2[r][d] = V
         /\ \A q \in Room, f \in Dir : e2[q][f] = e1[q][f] \/ (q = r /\ f = d)
    BY <1>1, <1>7, <1>9
  <1> HIDE DEF e2
  <1>11. ASSUME NEW q \in Rooms(apart), NEW f \in Dir, e2[q][f] # Nil PROVE e2[q][f].to \in Rooms(apart) \cup {Nil}
    <2>1. q \in Room /\ v \in Rooms(apart) /\ r \in Rooms(apart)
      BY <1>1, <1>2, <1>3, <1>4, Parts
    <2>2. CASE e2[q][f] = V
      BY <1>7, <2>1, <2>2
    <2>3. CASE e2[q][f] = R
      BY <1>7, <2>1, <2>3
    <2>4. CASE e2[q][f] = apart.exit[q][f]
      BY <1>4, <1>11, <2>4 DEF Leads
    <2>5. QED BY <1>9, <1>10, <2>1, <2>2, <2>3, <2>4
  <1>12. ASSUME NEW q \in Rooms(apart), NEW f \in Dir, IsDoor(apart.exit[q][f]) PROVE IsDoor(e2[q][f])
    <2>1. q \in Room /\ apart.exit[q][f] = w.exit[q][f]
      BY <1>3, <1>12, Parts DEF IsDoor
    <2>2. CASE q = r /\ f = d
      <3>1. v # Nil
        BY NilAssumption
      <3>2. QED BY <1>6, <1>7, <1>10, <1>12, <2>1, <2>2, <3>1 DEF IsDoor
    <2>3. CASE ~(q = r /\ f = d)
      BY <1>9, <1>10, <1>12, <2>1, <2>3 DEF IsDoor
    <2>4. QED BY <2>2, <2>3
  <1>13. Sound(n)
    BY <1>3, <1>8, <1>10, <1>11, <1>12, Reexited
  <1>14. Rooms(n) = Rooms(w)
    BY <1>4, <1>8 DEF Rooms, Area
  <1>15. QED BY <1>2, <1>13, <1>14 DEF Kept

LEMMA DoorClearKeeps ==
    ASSUME Built, NEW b \in Builder, NEW d \in Dir, NEW onesided \in BOOLEAN, DoorClear(b, d, onesided)
    PROVE  Kept
  <1> DEFINE r == at[b]
             x == w.exit[r][d]
             this == DropExit(w, r, d)
             y == this.exit[x.to][RevDirs[d]]
  <1>1. Sound(w) /\ r \in Rooms(w) /\ r \in Room /\ RevDirs[d] \in Dir
    BY Here, BuildingAssumption DEF Built
  <1>2. CASE x.to = Nil
    <2>1. w' = w
      BY <1>2, Zenon DEF DoorClear, Flagged
    <2>2. QED BY <1>1, <2>1 DEF Kept
  <1>3. CASE x.to # Nil
    <2>1. x # Nil /\ w' = IF ~onesided /\ y.to = r THEN DropExit(this, x.to, RevDirs[d]) ELSE this
      BY <1>3 DEF DoorClear, Flagged
    <2>2. x.to \in Room
      <3>1. Leads(w) /\ Rooms(w) \subseteq Room
        BY <1>1, Parts
      <3>2. QED BY <1>1, <1>3, <2>1, <3>1 DEF Leads
    <2>3. Dropped(w, {<<r, d>>}, this)
      BY <1>1, DroppingOne
    <2>4. Sound(this) /\ Rooms(this) = Rooms(w)
      BY <2>3 DEF Dropped, Rooms
    <2> HIDE DEF this, x, y
    <2>5. Dropped(this, {<<x.to, RevDirs[d]>>}, DropExit(this, x.to, RevDirs[d]))
      BY <1>1, <2>2, <2>4, DroppingOne
    <2>6. Sound(DropExit(this, x.to, RevDirs[d])) /\ Rooms(DropExit(this, x.to, RevDirs[d])) = Rooms(w)
      BY <2>4, <2>5 DEF Dropped, Rooms
    <2>7. QED BY <2>1, <2>4, <2>6 DEF Kept
  <1>4. QED BY <1>2, <1>3

\* The exits once setroom door has made one.
Made(r, d) == WithExit(w, r, d).exit

MadeWell(m, r, d) ==
    /\ WithExit(w, r, d) = [w EXCEPT !.exit = m]
    /\ m \in [Room -> [Dir -> Exit \cup {Nil}]] /\ m[r][d] # Nil
    /\ \A q \in Room, f \in Dir : w.exit[q][f] # Nil => m[q][f] = w.exit[q][f]
    /\ \A q \in Rooms(w), f \in Dir : m[q][f] # Nil => m[q][f].to \in Rooms(w) \cup {Nil}

LEMMA MadeIs ==
    ASSUME Sound(w), NEW r \in Room, NEW d \in Dir
    PROVE  MadeWell(Made(r, d), r, d)
  <1>1. w \in Area /\ w.exit \in [Room -> [Dir -> Exit \cup {Nil}]] /\ Leads(w) /\ Rooms(w) \subseteq Room
    BY Parts
  <1>2. Nowhere \in Exit /\ Nowhere.to = Nil /\ Nowhere # Nil
    <2>1. Nowhere \in Exit /\ Nowhere.to = Nil
      BY DEF Nowhere, NewExit, Exit
    <2>2. QED BY <2>1, NilAssumption
  <1> DEFINE m == IF w.exit[r][d] = Nil THEN [w.exit EXCEPT ![r][d] = Nowhere] ELSE w.exit
  <1>3. WithExit(w, r, d) = [w EXCEPT !.exit = m] /\ Made(r, d) = m
    <2>1. CASE w.exit[r][d] = Nil
      BY <1>1, <2>1 DEF WithExit, Made, Area
    <2>2. CASE w.exit[r][d] # Nil
      BY <1>1, <2>2 DEF WithExit, Made, Area
    <2>3. QED BY <2>1, <2>2
  <1>4. /\ m \in [Room -> [Dir -> Exit \cup {Nil}]] /\ m[r][d] # Nil
        /\ \A q \in Room, f \in Dir : w.exit[q][f] # Nil => m[q][f] = w.exit[q][f]
        /\ \A q \in Room, f \in Dir : w.exit[q][f] = Nil => m[q][f] \in {Nil, Nowhere}
    BY <1>1, <1>2
  <1> HIDE DEF m
  <1>5. ASSUME NEW q \in Rooms(w), NEW f \in Dir, m[q][f] # Nil PROVE m[q][f].to \in Rooms(w) \cup {Nil}
    <2>1. q \in Room
      BY <1>1
    <2>2. CASE w.exit[q][f] # Nil
      <3>1. w.exit[q][f].to \in Rooms(w) \cup {Nil}
        BY <1>1, <2>2 DEF Leads
      <3>2. m[q][f] = w.exit[q][f]
        BY <1>4, <2>1, <2>2
      <3>3. QED BY <3>1, <3>2
    <2>3. CASE w.exit[q][f] = Nil
      BY <1>2, <1>4, <1>5, <2>1, <2>3
    <2>4. QED BY <2>2, <2>3
  <1>6. MadeWell(m, r, d)
    BY <1>3, <1>4, <1>5 DEF MadeWell
  <1>7. QED BY <1>3, <1>6

LEMMA DoorMadeKeeps ==
    ASSUME Built, NEW b \in Builder, NEW d \in Dir, DoorMade(b, d)
    PROVE  Kept
  <1> DEFINE e == Made(at[b], d)
             n == [w EXCEPT !.exit = e]
  <1>1. Sound(w) /\ at[b] \in Room
    BY Here DEF Built
  <1>2. /\ w' = n /\ e \in [Room -> [Dir -> Exit \cup {Nil}]]
        /\ \A q \in Room, f \in Dir : w.exit[q][f] # Nil => e[q][f] = w.exit[q][f]
        /\ \A q \in Rooms(w), f \in Dir : e[q][f] # Nil => e[q][f].to \in Rooms(w) \cup {Nil}
    <2>1. MadeWell(e, at[b], d)
      BY <1>1, MadeIs
    <2> HIDE DEF e
    <2>2. w' = WithExit(w, at[b], d)
      BY DEF DoorMade, Flagged
    <2>3. QED BY <2>1, <2>2 DEF MadeWell
  <1> HIDE DEF e
  <1>3. \A q \in Rooms(w), f \in Dir : IsDoor(w.exit[q][f]) => IsDoor(e[q][f])
    BY <1>1, <1>2, Parts DEF IsDoor
  <1>4. Sound(n)
    BY <1>1, <1>2, <1>3, Reexited
  <1>5. Rooms(n) = Rooms(w)
    BY <1>1, Parts DEF Rooms, Area
  <1>6. QED BY <1>2, <1>4, <1>5 DEF Kept

LEMMA DoorTypeKeeps ==
    ASSUME Built, NEW b \in Builder, NEW d \in Dir, NEW door \in BOOLEAN, NEW onesided \in BOOLEAN,
           DoorType(b, d, door, onesided)
    PROVE  Kept
  <1> DEFINE r == at[b]
             sides == {<<r, d>>} \cup (IF onesided \/ Back(w, r, d) = Nil THEN {} ELSE {Back(w, r, d)})
             m == Made(r, d)
             e == [q \in Room |-> [f \in Dir |-> IF <<q, f>> \in sides THEN [m[q][f] EXCEPT !.door = door] ELSE m[q][f]]]
             n == [w EXCEPT !.exit = e]
  <1>1. Sound(w) /\ r \in Rooms(w) /\ r \in Room
    BY Here DEF Built
  <1>2. /\ WithExit(w, r, d) = [w EXCEPT !.exit = m] /\ m \in [Room -> [Dir -> Exit \cup {Nil}]] /\ m[r][d] # Nil
        /\ \A q \in Room, f \in Dir : w.exit[q][f] # Nil => m[q][f] = w.exit[q][f]
        /\ \A q \in Rooms(w), f \in Dir : m[q][f] # Nil => m[q][f].to \in Rooms(w) \cup {Nil}
    <2>1. MadeWell(m, r, d)
      BY <1>1, MadeIs
    <2> HIDE DEF m
    <2>2. QED BY <2>1 DEF MadeWell
  <1> HIDE DEF m
  <1>3. w \in Area /\ w.exit \in [Room -> [Dir -> Exit \cup {Nil}]] /\ Leads(w) /\ Rooms(w) \subseteq Room
    BY <1>1, Parts
  <1>4. /\ sides \in SUBSET (Room \X Dir)
        /\ \A q \in Room, f \in Dir : <<q, f>> \in sides => m[q][f] # Nil
    <2>1. CASE onesided \/ Back(w, r, d) = Nil
      <3>1. sides = {<<r, d>>}
        BY <2>1
      <3>2. QED BY <1>1, <1>2, <3>1
    <2>2. CASE ~(onesided \/ Back(w, r, d) = Nil)
      <3>1. PICK p \in Room, g \in Dir : Back(w, r, d) = <<p, g>> /\ w.exit[p][g] # Nil
        BY <1>1, <2>2, BackIs
      <3>2. sides = {<<r, d>>, <<p, g>>}
        BY <2>2, <3>1
      <3>3. QED BY <1>1, <1>2, <3>1, <3>2
    <2>3. QED BY <2>1, <2>2
  <1>4a. w' = IF door THEN n ELSE nuke_exit_resets(n, sides)
    <2> DEFINE made == WithExit(w, r, d)
               typed == [made EXCEPT !.exit = [q \in Room |-> [f \in Dir |->
                           IF <<q, f>> \in sides THEN [@[q][f] EXCEPT !.door = door] ELSE @[q][f]]]]
    <2>1. w' = IF door THEN typed ELSE nuke_exit_resets(typed, sides)
      BY DEF DoorType, Flagged
    <2> HIDE DEF sides
    <2>2. typed = n
      <3>1. made.exit = m
        BY <1>2, <1>3 DEF Area
      <3>2. typed = [made EXCEPT !.exit = e]
        BY <3>1
      <3> HIDE DEF e, typed
      <3>3. QED BY <1>2, <1>3, <3>2 DEF Area
    <2>3. QED BY <2>1, <2>2
  <1> HIDE DEF sides
  <1>5. ASSUME NEW q \in Room, NEW f \in Dir
        PROVE  /\ e[q][f] \in Exit \cup {Nil}
               /\ <<q, f>> \in sides => e[q][f] # Nil /\ e[q][f].to = m[q][f].to /\ e[q][f].door = door
               /\ <<q, f>> \notin sides => e[q][f] = m[q][f]
    <2>1. CASE <<q, f>> \in sides
      <3>1. m[q][f] \in Exit /\ e[q][f] = [m[q][f] EXCEPT !.door = door]
        BY <1>2, <1>4, <2>1
      <3>2. e[q][f] \in Exit /\ e[q][f].to = m[q][f].to /\ e[q][f].door = door
        BY <3>1 DEF Exit
      <3>3. QED BY <2>1, <3>2, NilAssumption
    <2>2. CASE <<q, f>> \notin sides
      BY <1>2, <2>2
    <2>3. QED BY <2>1, <2>2
  <1>6. e \in [Room -> [Dir -> Exit \cup {Nil}]]
    BY <1>5
  <1> HIDE DEF e
  <1>7. ASSUME NEW q \in Rooms(w), NEW f \in Dir, e[q][f] # Nil PROVE e[q][f].to \in Rooms(w) \cup {Nil}
    <2>1. q \in Room
      BY <1>3
    <2>2. m[q][f] # Nil /\ e[q][f].to = m[q][f].to
      BY <1>4, <1>5, <1>7, <2>1
    <2>3. QED BY <1>2, <2>2
  <1>8. CASE door = TRUE
    <2>1. ASSUME NEW q \in Rooms(w), NEW f \in Dir, IsDoor(w.exit[q][f]) PROVE IsDoor(e[q][f])
      <3>1. q \in Room /\ m[q][f] = w.exit[q][f]
        BY <1>2, <1>3, <2>1 DEF IsDoor
      <3>2. CASE <<q, f>> \in sides
        BY <1>5, <1>8, <2>1, <3>1, <3>2 DEF IsDoor
      <3>3. CASE <<q, f>> \notin sides
        BY <1>5, <2>1, <3>1, <3>3
      <3>4. QED BY <3>2, <3>3
    <2>2. Sound(n)
      BY <1>1, <1>6, <1>7, <2>1, Reexited
    <2>3. Rooms(n) = Rooms(w)
      BY <1>3 DEF Rooms, Area
    <2>4. QED BY <1>8, <1>4a, <2>2, <2>3 DEF Kept
  <1>9. CASE door = FALSE
    <2>1. \A q \in Rooms(w), f \in Dir :
             <<q, f>> \notin sides /\ IsDoor(w.exit[q][f]) => IsDoor(e[q][f])
      BY <1>2, <1>3, <1>5 DEF IsDoor
    <2>2. Rebuilt(w, e, nuke_exit_resets(n, sides))
      BY <1>1, <1>4, <1>6, <1>7, <2>1, Nuked
    <2>3. QED BY <1>9, <1>4a, <2>2 DEF Rebuilt, Rooms, Kept
  <1>10. QED BY <1>8, <1>9

\* A reset with its place in both lists.
WithReset(a, x, c, r, t, u) == [a EXCEPT !.reset[x] = c, !.resets = t, !.listed[r] = u]

LEMMA ResetAdded ==
    ASSUME NEW a, Sound(a), NEW x \in Reset, a.reset[x] = Nil, NEW c \in Command, NEW r \in Room, Names(a, c),
           NEW M, Fitting(a.reset, a.resets, c, M, r),
           NEW t \in Lists(Reset), Extended(a.resets, t, x, M),
           NEW u \in Lists(Reset), Extended(a.listed[r], u, x, M \cap Range(a.listed[r]))
    PROVE  Sound(WithReset(a, x, c, r, t, u))
  <1> DEFINE f == [a.reset EXCEPT ![x] = c]
             l == [a.listed EXCEPT ![r] = u]
             b == [a EXCEPT !.reset = f, !.resets = t, !.listed = l]
  <1>1. Whole(a) /\ a \in Area /\ Shaped(a) /\ a.reset \in [Reset -> Command \cup {Nil}] /\ a.listed \in [Room -> Seq(Reset)]
    BY Parts, SoundIsWhole
  <1>2. WithReset(a, x, c, r, t, u) = b
    BY <1>1 DEF WithReset, Area
  <1>3. WithOneMore(a.reset, a.resets, f, t, x, r)
    BY <1>1, Adding DEF Whole
  <1>4. InRooms(f, t, l)
    BY <1>1, AddingInRooms DEF Whole
  <1>5. f \in [Reset -> Command \cup {Nil}] /\ t \in Seq(Reset) /\ l \in [Room -> Seq(Reset)] /\ f[x] = c
    BY <1>1 DEF Lists
  <1> HIDE DEF f, l
  <1>6. /\ b \in Area /\ b.rooms = a.rooms /\ b.mobs = a.mobs /\ b.objs = a.objs /\ b.exit = a.exit
        /\ b.reset = f /\ b.resets = t /\ b.listed = l
    BY <1>1, <1>5 DEF Area
  <1> HIDE DEF b
  <1>7. Shaped(b)
    BY <1>1, <1>6 DEF Shaped, Rooms, Leads
  <1>8. ASSUME NEW y \in Range(b.resets) PROVE Names(b, b.reset[y])
    <2>1. CASE y = x
      BY <1>5, <1>6, <2>1 DEF Names, Rooms
    <2>2. CASE y # x
      <3>1. y \in Range(a.resets)
        BY <1>6, <2>2 DEF Extended
      <3>2. f[y] = a.reset[y] /\ Names(a, a.reset[y])
        BY <1>1, <1>3, <3>1 DEF WithOneMore, Whole
      <3>3. QED BY <1>6, <3>2 DEF Names, Rooms
    <2>3. QED BY <2>1, <2>2
  <1>9. Resets(f, t)
    BY <1>3 DEF WithOneMore
  <1>10. Whole(b)
    BY <1>4, <1>6, <1>7, <1>8, <1>9 DEF Whole
  <1>11. Sound(b)
    BY <1>10, SoundIsWhole
  <1>12. QED BY <1>2, <1>11

\* What the lists of rooms hold.
LEMMA ListedIs ==
    ASSUME NEW a, Sound(a), NEW r \in Room
    PROVE  /\ a.listed[r] \in Lists(Reset)
           /\ Range(a.listed[r]) = {x \in Range(a.resets) : RoomOf(a.reset, a.resets, x) = r}
           /\ \A x, y \in Range(a.listed[r]) : Before(a.listed[r], x, y) <=> Before(a.resets, x, y)
  <1>1. Whole(a)
    BY SoundIsWhole
  <1>2. QED BY <1>1 DEF Whole, InRooms, Step

\* The place of a plain reset.
Plain(c, r) == (c.cmd \in {"M", "O"} /\ c.b = r) \/ (c.cmd = "D" /\ c.a = r)

LEMMA AtEndWell ==
    ASSUME NEW a, Sound(a), NEW x \in Reset, a.reset[x] = Nil, NEW c \in Command, NEW r \in Room, Names(a, c), Plain(c, r)
    PROVE  Sound(AtEnd(a, x, c, r))
  <1> DEFINE s == a.resets
             l == a.listed[r]
  <1>1. s \in Lists(Reset) /\ x \notin Range(s)
    <2>1. s \in Lists(Reset) /\ {y \in Reset : a.reset[y] # Nil} = Range(s)
      BY Parts
    <2>2. QED BY <2>1
  <1>2. l \in Lists(Reset) /\ Range(l) \subseteq Range(s)
    BY ListedIs
  <1>3. Append(s, x) \in Lists(Reset) /\ Extended(s, Append(s, x), x, Range(s))
    BY <1>1, Appending
  <1>4. x \notin Range(l)
    BY <1>1, <1>2
  <1>5. Append(l, x) \in Lists(Reset) /\ Extended(l, Append(l, x), x, Range(l))
    BY <1>2, <1>4, Appending
  <1>6. Range(s) \cap Range(l) = Range(l)
    BY <1>2
  <1>7. Fitting(a.reset, s, c, Range(s), r)
    BY DEF Fitting, Plain
  <1>8. AtEnd(a, x, c, r) = WithReset(a, x, c, r, Append(s, x), Append(l, x))
    <2>1. a \in Area
      BY Parts
    <2>2. QED BY <2>1 DEF AtEnd, WithReset, Area
  <1> DEFINE t == Append(s, x)
             u == Append(l, x)
  <1>9. t \in Lists(Reset) /\ u \in Lists(Reset) /\ Extended(s, t, x, Range(s)) /\ Extended(l, u, x, Range(s) \cap Range(l))
    BY <1>3, <1>5, <1>6
  <1> HIDE DEF t, u
  <1>10. Sound(WithReset(a, x, c, r, t, u))
    BY <1>7, <1>9, ResetAdded
  <1>11. QED BY <1>8, <1>10 DEF t, u

LEMMA AfterWell ==
    ASSUME NEW a, Sound(a), NEW x \in Reset, a.reset[x] = Nil, NEW o \in Range(a.objs), NEW r \in Room,
           NEW m \in Range(a.listed[r]), a.reset[m].cmd = "M"
    PROVE  Sound(After(a, x, [cmd |-> "E", a |-> o, b |-> Nil], r, m))
  <1> DEFINE s == a.resets
             l == a.listed[r]
             c == [cmd |-> "E", a |-> o, b |-> Nil]
             M == Through(s, m)
  <1>1. s \in Lists(Reset) /\ x \notin Range(s) /\ Range(a.objs) \subseteq Obj
    <2>1. s \in Lists(Reset) /\ {y \in Reset : a.reset[y] # Nil} = Range(s) /\ Range(a.objs) \subseteq Obj
      BY Parts
    <2>2. QED BY <2>1
  <1>2. /\ l \in Lists(Reset) /\ Range(l) = {y \in Range(s) : RoomOf(a.reset, s, y) = r}
        /\ \A y, z \in Range(l) : Before(l, y, z) <=> Before(s, y, z)
    BY ListedIs
  <1>3. m \in Range(s) /\ RoomOf(a.reset, s, m) = r /\ x \notin Range(l)
    BY <1>1, <1>2
  <1>4. Behind(s, x, m) \in Lists(Reset) /\ Extended(s, Behind(s, x, m), x, M)
    BY <1>1, <1>3, Inserting
  <1>5. Behind(l, x, m) \in Lists(Reset) /\ Extended(l, Behind(l, x, m), x, Through(l, m))
    BY <1>2, <1>3, Inserting
  <1>6. Through(l, m) = M \cap Range(l)
    BY <1>2 DEF Through
  <1>7. a.reset[m].b = r
    <2>1. a.reset[m] \in Command
      BY <1>3, Parts
    <2>2. QED BY <1>1, <1>3, <2>1, RoomIs
  <1>8. c \in Command /\ Names(a, c) /\ c.cmd = "E"
    BY <1>1 DEF Command, Names
  <1>9. Fitting(a.reset, s, c, M, r)
    BY <1>3, <1>7, <1>8 DEF Fitting
  <1> HIDE DEF c
  <1>10. After(a, x, c, r, m) = WithReset(a, x, c, r, Behind(s, x, m), Behind(l, x, m))
    <2>1. a \in Area
      BY Parts
    <2>2. QED BY <2>1 DEF After, WithReset, Area
  <1> DEFINE t == Behind(s, x, m)
             u == Behind(l, x, m)
  <1>11. t \in Lists(Reset) /\ u \in Lists(Reset) /\ Extended(s, t, x, M) /\ Extended(l, u, x, M \cap Range(l))
    BY <1>4, <1>5, <1>6
  <1> HIDE DEF t, u, M
  <1>12. Sound(WithReset(a, x, c, r, t, u))
    BY <1>8, <1>9, <1>11, ResetAdded
  <1>13. QED BY <1>10, <1>12 DEF t, u, c

LEMMA FreeIsUnused == ASSUME Unused # {} PROVE Free \in Reset /\ w.reset[Free] = Nil
  <1>1. Unused \in SUBSET Nat /\ \A x \in Unused : x \in Reset /\ w.reset[x] = Nil
    BY DEF Unused, Reset
  <1>2. \E x \in Unused : \A y \in Unused : x <= y
    BY <1>1, Least
  <1>3. Free \in Unused
    BY <1>2 DEF Free
  <1>4. QED BY <1>1, <1>3

\* The resets that builders may add name what is there.
LEMMA PlainOnes ==
    ASSUME Built, NEW b \in Builder, NEW c \in PlainResets(at[b])
    PROVE  c \in Command /\ Names(w, c) /\ Plain(c, at[b])
  <1>1. at[b] \in Rooms(w) /\ at[b] \in Room /\ Sound(w)
    BY Here DEF Built
  <1>2. Range(w.objs) \subseteq Obj /\ Range(w.mobs) \subseteq Mob
    BY <1>1, Parts
  <1>3. \/ c \in [cmd : {"M"}, a : Range(w.mobs), b : {at[b]}]
        \/ c \in [cmd : {"O"}, a : Range(w.objs), b : {at[b]}]
        \/ c \in [cmd : {"D"}, a : {at[b]}, b : {d \in Dir : IsDoor(w.exit[at[b]][d])}]
    BY VnumsAre DEF PlainResets, DoorsOf, IsDoor, Built
  <1>4. CASE c \in [cmd : {"M"}, a : Range(w.mobs), b : {at[b]}]
    BY <1>1, <1>2, <1>4 DEF Command, Names, Plain
  <1>5. CASE c \in [cmd : {"O"}, a : Range(w.objs), b : {at[b]}]
    BY <1>1, <1>2, <1>5 DEF Command, Names, Plain
  <1>6. CASE c \in [cmd : {"D"}, a : {at[b]}, b : {d \in Dir : IsDoor(w.exit[at[b]][d])}]
    BY <1>1, <1>6 DEF Command, Names, Plain
  <1>7. QED BY <1>3, <1>4, <1>5, <1>6

LEMMA DelResetKeeps ==
    ASSUME Built, NEW b \in Builder, NEW i \in Reset, build_delreset(b, i)
    PROVE  Kept
  <1> DEFINE r == at[b]
             l == w.listed[r]
             x == l[i]
             f == w.reset
             s == w.resets
  <1>1. Sound(w) /\ r \in Room
    BY Here DEF Built
  <1>2. i \in DOMAIN l /\ w' = Unlink(w, {x}, {r}) /\ \A y \in Range(l) : f[y].cmd = "E" => ~Owns(f, l, x, y)
    BY DEF build_delreset, Flagged, Built
  <1>3. /\ l \in Lists(Reset) /\ s \in Lists(Reset) /\ Range(l) = {y \in Range(s) : RoomOf(f, s, y) = r}
        /\ \A y, z \in Range(l) : Before(l, y, z) <=> Before(s, y, z)
    BY <1>1, ListedIs, Parts
  <1>4. x \in Range(l)
    BY <1>2, <1>3, Listed
  <1> HIDE DEF x, l
  <1>5. ASSUME NEW y \in Range(s), f[y].cmd = "E", Owns(f, s, x, y) PROVE FALSE
    <2>1. x \in Range(s) /\ RoomOf(f, s, x) = r /\ f[x] \in Command /\ f[y] \in Command /\ f[x].cmd = "M"
      BY <1>1, <1>3, <1>4, <1>5, Parts DEF Owns
    <2>2. RoomOf(f, s, y) = r
      BY <1>3, <1>5, <2>1, RoomIs
    <2>3. y \in Range(l)
      BY <1>3, <2>2
    <2>4. Before(l, x, y)
      BY <1>3, <1>4, <1>5, <2>3 DEF Owns
    <2>5. \A z \in Range(l) : Before(l, x, z) /\ Before(l, z, y) => f[z].cmd # "M"
      BY <1>3, <1>4, <1>5, <2>3 DEF Owns
    <2>6. Owns(f, l, x, y)
      BY <2>1, <2>4, <2>5 DEF Owns
    <2>7. QED BY <1>2, <1>5, <2>3, <2>6
  <1>6. Closed(f, s, {x})
    BY <1>5 DEF Closed
  <1>7. Whole(w)
    BY <1>1, SoundIsWhole
  <1>8. \A y \in {x} : y \in Range(s) => RoomOf(f, s, y) \in {r}
    BY <1>3, <1>4
  <1>9. Sound(Unlink(w, {x}, {r})) /\ Fewer(w, {x}, Unlink(w, {x}, {r}))
    BY <1>6, <1>7, <1>8, UnlinkedWell DEF Whole
  <1>10. QED BY <1>2, <1>9 DEF Kept, Fewer, Frame, Rooms

-----------------------------------------------------------------------------
(* Files *)

FileParts == {"rooms", "mobiles", "objects", "resets"}

AFile(f) == f = [s \in FileParts |-> f[s]]

LEMMA FileShape ==
    /\ DOMAIN EmptyFile = FileParts
    /\ \A s \in FileParts : EmptyFile[s] = <<>>
    /\ AFile(EmptyFile)
  BY DEF EmptyFile, FileParts, AFile

LEMMA WrittenAre ==
    ASSUME NEW a
    PROVE  /\ Written("rooms", a) = a.rooms /\ Written("mobiles", a) = a.mobs
           /\ Written("objects", a) = a.objs /\ Written("resets", a) = a.resets
           /\ \A s : s \notin FileParts => Written(s, a) = <<>>
           /\ \A x : /\ Item("rooms", a, x) = RoomItem(a, x) /\ Item("mobiles", a, x) = MobItem(a, x)
                     /\ Item("objects", a, x) = ObjectItem(a, x) /\ Item("resets", a, x) = a.reset[x]
  BY DEF Written, Item, FileParts

LEMMA ExitItems ==
    ASSUME NEW x \in Exit \cup {Nil}
    PROVE  /\ ExitItem(x) \in {Nil, x}
           /\ ExitItem(x) # Nil => x # Nil /\ x.to # Nil
           /\ x # Nil /\ x.to # Nil => ExitItem(x) = x
           /\ ExitItem(ExitItem(x)) = ExitItem(x)
           /\ IsDoor(x) => ExitItem(x) = x
  BY DEF ExitItem, IsDoor

\* A section of the file.
SectionOf(s, a) == [i \in 1 .. Len(Written(s, a)) |-> Item(s, a, Written(s, a)[i])]

LEMMA WrittenLists ==
    ASSUME NEW a, Sound(a), NEW s \in FileParts
    PROVE  Written(s, a) \in Lists(Room) \cup Lists(Mob) \cup Lists(Obj) \cup Lists(Reset)
  BY Parts, WrittenAre DEF FileParts

LEMMA FileIs ==
    ASSUME NEW a, Sound(a)
    PROVE  FileOf(a) = [s \in FileParts |-> SectionOf(s, a)]
  <1>1. \A s \in FileParts : DOMAIN Written(s, a) = 1 .. Len(Written(s, a))
    BY WrittenLists DEF Lists
  <1>2. FileOf(a) = [s \in FileParts |-> [i \in DOMAIN Written(s, a) |-> Item(s, a, Written(s, a)[i])]]
    BY FileShape DEF FileOf
  <1>3. \A s \in FileParts : SectionOf(s, a) = [i \in DOMAIN Written(s, a) |-> Item(s, a, Written(s, a)[i])]
    BY <1>1 DEF SectionOf
  <1>4. QED BY <1>2, <1>3

LEMMA SectionsAre ==
    ASSUME NEW a, Sound(a), NEW f, f = FileOf(a)
    PROVE  /\ f.rooms = [i \in 1 .. Len(a.rooms) |-> RoomItem(a, a.rooms[i])]
           /\ f.mobiles = [i \in 1 .. Len(a.mobs) |-> MobItem(a, a.mobs[i])]
           /\ f.objects = [i \in 1 .. Len(a.objs) |-> ObjectItem(a, a.objs[i])]
           /\ f.resets = [i \in 1 .. Len(a.resets) |-> a.reset[a.resets[i]]]
  <1>1. f.rooms = SectionOf("rooms", a) /\ f.mobiles = SectionOf("mobiles", a)
        /\ f.objects = SectionOf("objects", a) /\ f.resets = SectionOf("resets", a)
    BY FileIs DEF FileParts
  <1>2. QED BY <1>1, WrittenAre DEF SectionOf

Numbered(n) == [i \in 1 .. n |-> i]

LEMMA Numbers ==
    ASSUME NEW n \in Nat, n <= MaxResets, NEW s, s = Numbered(n)
    PROVE  /\ s \in Lists(Reset) /\ Range(s) = 1 .. n
           /\ \A i, j : Before(s, i, j) <=> i \in 1 .. n /\ j \in 1 .. n /\ i < j
  <1>1. \A i \in 1 .. n : i \in Reset
    BY BuildingAssumption DEF Reset
  <1>2. s \in Seq(Reset) /\ DOMAIN s = 1 .. n /\ \A i \in 1 .. n : s[i] = i
    BY <1>1 DEF Numbered
  <1>3. QED BY <1>2 DEF Lists, IsInjective, Range, Before

\* The resets are numbered as they come: f has the contents of g under the numbers of s.
LEMMA Renumbered ==
    ASSUME NEW g \in [Reset -> Command \cup {Nil}], NEW s \in Lists(Reset), \A x \in Range(s) : g[x] \in Command,
           NEW f, \A i \in 1 .. Len(s) : f[i] = g[s[i]],
           NEW all, all = Numbered(Len(s)), \A i \in 1 .. Len(s) : RoomOf(g, s, s[i]) \in Room
    PROVE  /\ all \in Lists(Reset) /\ Range(all) = 1 .. Len(s) /\ 1 .. Len(s) \subseteq Reset
           /\ \A i, j : Before(all, i, j) <=> i \in 1 .. Len(s) /\ j \in 1 .. Len(s) /\ i < j
           /\ \A i \in 1 .. Len(s) : RoomOf(f, all, i) = RoomOf(g, s, s[i])
  <1> DEFINE n == Len(s)
  <1>1. /\ n \in Nat /\ \A i \in 1 .. n : s[i] \in Reset /\ s[i] \in Range(s)
        /\ \A i, j \in 1 .. n : s[i] = s[j] => i = j
        /\ \A x \in Range(s) : \E i \in 1 .. n : s[i] = x
        /\ \A x, y : Before(s, x, y) <=> \E i, j \in 1 .. n : i < j /\ s[i] = x /\ s[j] = y
    BY Listed
  <1>0. all = Numbered(n)
    OBVIOUS
  <1> HIDE DEF n
  <1>2. n <= MaxResets
    <2> DEFINE h == [i \in 1 .. n |-> s[i]]
    <2>1. MaxResets \in Nat
      BY BuildingAssumption
    <2>2. IsFiniteSet(1 .. n) /\ Cardinality(1 .. n) = n /\ IsFiniteSet(Reset) /\ Cardinality(Reset) = MaxResets
      BY <1>1, <2>1, FS_Interval DEF Reset
    <2>3. h \in Injection(1 .. n, Reset)
      <3>1. h \in [1 .. n -> Reset] /\ \A i, j \in 1 .. n : h[i] = h[j] => i = j
        BY <1>1
      <3> HIDE DEF h
      <3>2. QED BY <3>1, Zenon DEF Injection, IsInjective
    <2>4. Cardinality(1 .. n) <= Cardinality(Reset)
      BY <2>2, <2>3, FS_Injection
    <2>5. QED BY <2>2, <2>4
  <1>3. 1 .. n \subseteq Reset
    BY <1>1, <1>2, BuildingAssumption DEF Reset
  <1>5. all \in Lists(Reset) /\ Range(all) = 1 .. n
    BY <1>0, <1>1, <1>2, Numbers
  <1>6. \A i, j : Before(all, i, j) <=> i \in 1 .. n /\ j \in 1 .. n /\ i < j
    BY <1>0, <1>1, <1>2, Numbers
  <1>7. \A i, j \in 1 .. n : Before(all, i, j) <=> Before(s, s[i], s[j])
    <2>1. ASSUME NEW i \in 1 .. n, NEW j \in 1 .. n PROVE Before(s, s[i], s[j]) <=> i < j
      BY <1>1
    <2>2. QED BY <1>6, <2>1
  <1>8. ASSUME NEW m \in 1 .. n, NEW i \in 1 .. n, Owns(g, s, s[m], s[i]) PROVE Owns(f, all, m, i)
    <2>1. f[m].cmd = "M" /\ Before(all, m, i)
      BY <1>7, <1>8 DEF Owns, n
    <2>2. ASSUME NEW y \in Range(all), Before(all, m, y), Before(all, y, i) PROVE f[y].cmd # "M"
      <3>1. y \in 1 .. n /\ s[y] \in Range(s) /\ Before(s, s[m], s[y]) /\ Before(s, s[y], s[i])
        BY <1>1, <1>5, <1>7, <2>2
      <3>2. g[s[y]].cmd # "M"
        BY <1>8, <3>1 DEF Owns
      <3>3. QED BY <3>1, <3>2 DEF n
    <2>3. QED BY <2>1, <2>2 DEF Owns
  <1>9. ASSUME NEW i \in 1 .. n PROVE RoomOf(f, all, i) = RoomOf(g, s, s[i])
    <2>1. f[i] = g[s[i]] /\ g[s[i]] \in Command /\ f[i] \in Command
      BY <1>1 DEF n
    <2>2. f[i].cmd \in {"M", "O", "D", "E"}
      BY <2>1, Commands4
    <2>3. CASE f[i].cmd # "E"
      <3>1. CASE f[i].cmd = "D"
        BY <1>5, <2>1, <3>1, RoomIs
      <3>2. CASE f[i].cmd \in {"M", "O"}
        BY <1>5, <2>1, <3>2, RoomIs
      <3>3. QED BY <2>2, <2>3, <3>1, <3>2
    <2>4. CASE f[i].cmd = "E"
      <3>1. RoomOf(g, s, s[i]) # Nil
        BY NilAssumption DEF n
      <3>2. PICK x \in Range(s) : Owns(g, s, x, s[i])
        BY <2>1, <2>4, <3>1, RoomIs
      <3>3. PICK m \in 1 .. n : s[m] = x
        BY <1>1
      <3>4. Owns(f, all, m, i)
        BY <1>8, <3>2, <3>3
      <3>5. RoomOf(f, all, i) = f[m].b
        BY <1>5, <2>1, <2>4, <3>4, RoomIs
      <3>6. RoomOf(g, s, s[i]) = g[s[m]].b
        BY <2>1, <2>4, <3>2, <3>3, RoomIs
      <3>7. f[m] = g[s[m]]
        BY DEF n
      <3>8. QED BY <3>5, <3>6, <3>7
    <2>5. QED BY <2>3, <2>4
  <1>10. QED BY <1>3, <1>5, <1>6, <1>9 DEF n

\* A section of things is read back.
LEMMA ReadBack ==
    ASSUME NEW T, NEW l \in Lists(T), NEW s, DOMAIN s = 1 .. Len(l), \A i \in 1 .. Len(l) : s[i].vnum = l[i]
    PROVE  /\ vnums(s) = l /\ {s[i].vnum : i \in DOMAIN s} = Range(l)
           /\ \A i \in 1 .. Len(l) : (CHOOSE j \in DOMAIN s : s[j].vnum = l[i]) = i
           /\ \A v \in Range(l) : \E x \in Range(s) : x.vnum = v
  <1>1. /\ Len(l) \in Nat /\ DOMAIN l = 1 .. Len(l) /\ l \in Seq(T)
        /\ \A i, j \in 1 .. Len(l) : l[i] = l[j] => i = j
        /\ \A x \in Range(l) : \E i \in 1 .. Len(l) : l[i] = x
        /\ \A i \in 1 .. Len(l) : l[i] \in Range(l)
    BY Listed
  <1>2. vnums(s) = l
    <2>1. vnums(s) = [i \in 1 .. Len(l) |-> s[i].vnum]
      BY DEF vnums
    <2>2. l = [i \in 1 .. Len(l) |-> l[i]]
      BY <1>1, Itself
    <2>3. QED BY <2>1, <2>2
  <1>3. {s[i].vnum : i \in DOMAIN s} = Range(l)
    BY <1>1
  <1>4. ASSUME NEW i \in 1 .. Len(l) PROVE (CHOOSE j \in DOMAIN s : s[j].vnum = l[i]) = i
    <2>1. \E j \in DOMAIN s : s[j].vnum = l[i]
      OBVIOUS
    <2>2. PICK j \in DOMAIN s : j = (CHOOSE k \in DOMAIN s : s[k].vnum = l[i]) /\ s[j].vnum = l[i]
      BY <2>1
    <2>3. l[j] = l[i] /\ j \in 1 .. Len(l)
      BY <2>2
    <2>4. QED BY <1>1, <2>2, <2>3
  <1>5. ASSUME NEW v \in Range(l) PROVE \E x \in Range(s) : x.vnum = v
    <2>1. PICK i \in 1 .. Len(l) : l[i] = v
      BY <1>1
    <2>2. s[i] \in Range(s) /\ s[i].vnum = v
      BY <2>1 DEF Range
    <2>3. QED BY <2>2
  <1>6. QED BY <1>2, <1>3, <1>4, <1>5

\* What a sound area was saved with is there again.
LEMMA SectionsBack ==
    ASSUME NEW a, Sound(a), NEW f, f = FileOf(a)
    PROVE  /\ load_rooms(f) = a.rooms /\ load_mobiles(f) = a.mobs /\ load_objects(f) = a.objs
           /\ \A v \in Rooms(a) \cup Range(a.mobs) \cup Range(a.objs) : TextIn(f, v) = a.text[v]
           /\ \A v : TextIn(f, v) \in Text \cup {Nil}
           /\ \A r \in Room, d \in Dir : fix_exits(f)[r][d] = IF r \in Rooms(a) THEN ExitItem(a.exit[r][d]) ELSE Nil
           /\ fix_exits(f) \in [Room -> [Dir -> Exit \cup {Nil}]]
  <1> DEFINE nr == Len(a.rooms)
             nm == Len(a.mobs)
             no == Len(a.objs)
  <1>1. /\ a.rooms \in Lists(Room) /\ a.mobs \in Lists(Mob) /\ a.objs \in Lists(Obj) /\ Leads(a) /\ Rooms(a) = Range(a.rooms)
        /\ a.exit \in [Room -> [Dir -> Exit \cup {Nil}]]
        /\ Rooms(a) \subseteq Room /\ Range(a.objs) \subseteq Obj /\ Range(a.mobs) \subseteq Mob
    BY Parts DEF Rooms
  <1>2. /\ f.rooms = [i \in 1 .. nr |-> RoomItem(a, a.rooms[i])]
        /\ f.mobiles = [i \in 1 .. nm |-> MobItem(a, a.mobs[i])]
        /\ f.objects = [i \in 1 .. no |-> ObjectItem(a, a.objs[i])]
    BY SectionsAre, ZenonT(60)
  <1> HIDE DEF nr, nm, no
  <1>3. /\ DOMAIN f.rooms = 1 .. nr
        /\ \A i \in 1 .. nr : f.rooms[i].vnum = a.rooms[i] /\ f.rooms[i].text = a.text[a.rooms[i]]
        /\ \A i \in 1 .. nr : f.rooms[i].exit = [d \in Dir |-> ExitItem(a.exit[a.rooms[i]][d])]
    BY <1>2 DEF RoomItem
  <1>4. DOMAIN f.mobiles = 1 .. nm /\ \A i \in 1 .. nm : f.mobiles[i].vnum = a.mobs[i] /\ f.mobiles[i].text = a.text[a.mobs[i]]
    BY <1>2 DEF MobItem
  <1>5. DOMAIN f.objects = 1 .. no /\ \A i \in 1 .. no : f.objects[i].vnum = a.objs[i] /\ f.objects[i].text = a.text[a.objs[i]]
    BY <1>2 DEF ObjectItem
  <1>6. vnums(f.rooms) = a.rooms /\ vnums(f.mobiles) = a.mobs /\ vnums(f.objects) = a.objs
    <2>1. vnums(f.rooms) = a.rooms
      BY <1>1, <1>3, ReadBack DEF nr
    <2>2. vnums(f.mobiles) = a.mobs
      BY <1>1, <1>4, ReadBack DEF nm
    <2>3. vnums(f.objects) = a.objs
      BY <1>1, <1>5, ReadBack DEF no
    <2>4. QED BY <2>1, <2>2, <2>3
  <1>7. load_rooms(f) = a.rooms /\ load_mobiles(f) = a.mobs /\ load_objects(f) = a.objs
    BY <1>6 DEF load_rooms, load_mobiles, load_objects
  <1> DEFINE S == Range(f.rooms) \cup Range(f.mobiles) \cup Range(f.objects)
             V == Rooms(a) \cup Range(a.mobs) \cup Range(a.objs)
  <1>8. \A x \in S : x.vnum \in V /\ x.text = a.text[x.vnum]
    <2>1. \A x \in Range(f.rooms) : x.vnum \in V /\ x.text = a.text[x.vnum]
      BY <1>1, <1>3, Listed DEF Range, nr
    <2>2. \A x \in Range(f.mobiles) : x.vnum \in V /\ x.text = a.text[x.vnum]
      BY <1>1, <1>4, Listed DEF Range, nm
    <2>3. \A x \in Range(f.objects) : x.vnum \in V /\ x.text = a.text[x.vnum]
      BY <1>1, <1>5, Listed DEF Range, no
    <2>4. QED BY <2>1, <2>2, <2>3
  <1>9. \A v \in V : \E x \in S : x.vnum = v
    <2>1. \A v \in Rooms(a) : \E x \in Range(f.rooms) : x.vnum = v
      <3>1. a.rooms \in Lists(Room) /\ DOMAIN f.rooms = 1 .. Len(a.rooms) /\ \A i \in 1 .. Len(a.rooms) : f.rooms[i].vnum = a.rooms[i]
        BY <1>1, <1>3 DEF nr
      <3>2. \A v \in Range(a.rooms) : \E x \in Range(f.rooms) : x.vnum = v
        BY <3>1, ReadBack
      <3>3. QED BY <1>1, <3>2
    <2>2. \A v \in Range(a.mobs) : \E x \in Range(f.mobiles) : x.vnum = v
      BY <1>1, <1>4, ReadBack DEF nm
    <2>3. \A v \in Range(a.objs) : \E x \in Range(f.objects) : x.vnum = v
      BY <1>1, <1>5, ReadBack DEF no
    <2>4. QED BY <2>1, <2>2, <2>3
  <1>10. V \subseteq Room \cup Mob \cup Obj /\ a.text \in [Room \cup Mob \cup Obj -> Text \cup {Nil}]
    BY <1>1, Parts
  <1>11. /\ \A v \in V : TextIn(f, v) = a.text[v]
         /\ \A v : TextIn(f, v) \in Text \cup {Nil}
    <2>1. ASSUME NEW v PROVE (v \in V => TextIn(f, v) = a.text[v]) /\ TextIn(f, v) \in Text \cup {Nil}
      <3> DEFINE X == {x \in S : x.vnum = v}
      <3>1. TextIn(f, v) = IF X = {} THEN Nil ELSE (CHOOSE x \in X : TRUE).text
        BY DEF TextIn
      <3>2. CASE X = {}
        <4>1. v \notin V
          BY <1>9, <3>2
        <4>2. QED BY <3>1, <3>2, <4>1
      <3>3. CASE X # {}
        <4>1. PICK x : x = (CHOOSE y \in X : TRUE)
          OBVIOUS
        <4>2. x \in X
          BY <3>3, <4>1
        <4>3. x \in S /\ x.vnum = v
          BY <4>2
        <4>4. x.text = a.text[v] /\ v \in V
          BY <1>8, <4>3
        <4>5. QED BY <1>10, <3>1, <3>3, <4>1, <4>4
      <3>4. QED BY <3>2, <3>3
    <2>2. QED BY <2>1
  <1>12. /\ {f.rooms[i].vnum : i \in DOMAIN f.rooms} = Rooms(a)
         /\ \A i \in 1 .. nr : (CHOOSE j \in DOMAIN f.rooms : f.rooms[j].vnum = a.rooms[i]) = i
    <2>1. {f.rooms[i].vnum : i \in DOMAIN f.rooms} = Range(a.rooms)
      <3>1. a.rooms \in Lists(Room) /\ DOMAIN f.rooms = 1 .. Len(a.rooms) /\ \A i \in 1 .. Len(a.rooms) : f.rooms[i].vnum = a.rooms[i]
        BY <1>1, <1>3 DEF nr
      <3>2. PICK l, s : l = a.rooms /\ s = f.rooms
        OBVIOUS
      <3>3. l \in Lists(Room) /\ DOMAIN s = 1 .. Len(l) /\ \A i \in 1 .. Len(l) : s[i].vnum = l[i]
        BY <3>1, <3>2
      <3>4. {s[i].vnum : i \in DOMAIN s} = Range(l)
        BY <3>3, ReadBack
      <3>5. QED BY <3>2, <3>4
    <2>2. \A i \in 1 .. nr : (CHOOSE j \in DOMAIN f.rooms : f.rooms[j].vnum = a.rooms[i]) = i
      BY <1>1, <1>3, ReadBack DEF nr
    <2>3. QED BY <1>1, <2>1, <2>2
  <1> DEFINE from(r) == CHOOSE i \in DOMAIN f.rooms : f.rooms[i].vnum = r
  <1>13. fix_exits(f) = [r \in Room |-> [d \in Dir |->
            IF r \notin Rooms(a) THEN Nil
            ELSE LET x == f.rooms[from(r)].exit[d] IN IF x # Nil /\ x.to \in Rooms(a) THEN x ELSE Nil]]
    BY <1>12, ZenonT(60) DEF fix_exits
  <1>14. ASSUME NEW r \in Rooms(a) PROVE f.rooms[from(r)].exit = [d \in Dir |-> ExitItem(a.exit[r][d])]
    <2>1. PICK i \in 1 .. nr : a.rooms[i] = r
      BY <1>1, Listed DEF nr
    <2>2. from(r) = i
      BY <1>12, <2>1
    <2>3. QED BY <1>3, <2>1, <2>2
  <1> HIDE DEF from
  <1>15. ASSUME NEW r \in Room, NEW d \in Dir PROVE fix_exits(f)[r][d] = IF r \in Rooms(a) THEN ExitItem(a.exit[r][d]) ELSE Nil
    <2>1. CASE r \in Rooms(a)
      <3> DEFINE x == ExitItem(a.exit[r][d])
      <3>1. x # Nil => x.to \in Rooms(a)
        BY <1>1, <2>1, ExitItems DEF Leads
      <3>2. f.rooms[from(r)].exit[d] = x
        BY <1>14, <2>1
      <3> HIDE DEF x
      <3>3. fix_exits(f)[r][d] = x
        BY <1>13, <2>1, <3>1, <3>2
      <3>4. QED BY <2>1, <3>3 DEF x
    <2>2. CASE r \notin Rooms(a)
      BY <1>13, <2>2
    <2>3. QED BY <2>1, <2>2
  <1>16. fix_exits(f) \in [Room -> [Dir -> Exit \cup {Nil}]]
    <2>1. \A r \in Room, d \in Dir : fix_exits(f)[r][d] \in Exit \cup {Nil}
      BY <1>1, <1>15, ExitItems
    <2>2. QED BY <1>13, <2>1
  <1>17. QED BY <1>7, <1>11, <1>15, <1>16

\* Nothing is dropped.
LEMMA ResetsBack ==
    ASSUME NEW a, Sound(a), NEW f, DOMAIN f = 1 .. Len(a.resets),
           \A i \in 1 .. Len(a.resets) : f[i] = a.reset[a.resets[i]],
           NEW all, all = Numbered(Len(a.resets))
    PROVE  /\ load_resets(f, Rooms(a)) = all
           /\ all \in Lists(Reset) /\ Range(all) = 1 .. Len(a.resets) /\ 1 .. Len(a.resets) \subseteq Reset
           /\ Len(a.resets) \in Nat /\ Len(all) = Len(a.resets)
           /\ \A i \in 1 .. Len(a.resets) : a.resets[i] \in Range(a.resets)
           /\ \A h : (\A i \in 1 .. Len(a.resets) : h[i] = f[i]) =>
                 \A i \in 1 .. Len(a.resets) : RoomOf(h, all, i) = RoomOf(a.reset, a.resets, a.resets[i])
  <1> DEFINE g == a.reset
             s == a.resets
             n == Len(s)
  <1>1. /\ g \in [Reset -> Command \cup {Nil}] /\ s \in Lists(Reset)
        /\ \A x \in Range(s) : g[x] \in Command /\ Names(a, g[x]) /\ RoomOf(g, s, x) \in Room
    BY Parts, SoundIsWhole DEF Whole, Resets
  <1>2. n \in Nat /\ \A i \in 1 .. n : s[i] \in Range(s)
    BY <1>1, Listed
  <1>3. \A i \in 1 .. n : RoomOf(g, s, s[i]) \in Room /\ f[i] = g[s[i]]
    BY <1>1, <1>2
  <1>4. /\ all \in Lists(Reset) /\ Range(all) = 1 .. n /\ 1 .. n \subseteq Reset
        /\ \A h : (\A i \in 1 .. n : h[i] = f[i]) => \A i \in 1 .. n : RoomOf(h, all, i) = RoomOf(g, s, s[i])
    <2>1. ASSUME NEW h, \A i \in 1 .. n : h[i] = f[i]
          PROVE  /\ all \in Lists(Reset) /\ Range(all) = 1 .. n /\ 1 .. n \subseteq Reset
                 /\ \A i \in 1 .. n : RoomOf(h, all, i) = RoomOf(g, s, s[i])
      <3>1. \A i \in 1 .. n : h[i] = g[s[i]]
        BY <1>3, <2>1
      <3>2. QED BY <1>1, <1>3, <3>1, Renumbered
    <2>2. \A i \in 1 .. n : f[i] = f[i]
      OBVIOUS
    <2>3. QED BY <2>1, <2>2
  <1>5. DOMAIN f = 1 .. n /\ Len(all) = n
    BY <1>2 DEF Numbered
  <1> DEFINE D == {i \in DOMAIN f : f[i].cmd # "E" /\ RoomOf(f, all, i) \notin Rooms(a)}
             E == {i \in DOMAIN f : RoomOf(f, all, i) = Nil}
  <1>6. D = {}
    <2>1. ASSUME NEW i \in 1 .. n, f[i].cmd # "E" PROVE RoomOf(f, all, i) \in Rooms(a)
      <3>1. f[i] \in Command /\ Names(a, f[i]) /\ f[i].cmd \in {"M", "O", "D"}
        BY <1>1, <1>2, <1>3, <2>1, Commands4
      <3>2. CASE f[i].cmd \in {"M", "O"}
        <4>1. RoomOf(f, all, i) = f[i].b
          BY <1>4, <3>1, <3>2, RoomIs
        <4>2. QED BY <3>1, <3>2, <4>1 DEF Names
      <3>3. CASE f[i].cmd = "D"
        <4>1. RoomOf(f, all, i) = f[i].a
          BY <1>4, <3>1, <3>3, RoomIs
        <4>2. QED BY <3>1, <3>3, <4>1 DEF Names
      <3>4. QED BY <3>1, <3>2, <3>3
    <2>2. QED BY <1>5, <2>1
  <1>7. E = {}
    <2>1. \A i \in 1 .. n : RoomOf(f, all, i) \in Room
      BY <1>3, <1>4
    <2>2. QED BY <1>5, <2>1, NilAssumption
  <1>8. Without(all, {}) = all
    BY <1>4, Removal
  <1>9. load_resets(f, Rooms(a)) = all
    <2>1. [i \in DOMAIN f |-> i] = all
      BY <1>5 DEF Numbered
    <2> DEFINE placed == Without(all, D)
    <2>2. placed = all
      BY <1>6, <1>8
    <2>3. load_resets(f, Rooms(a)) = Without(placed, {i \in DOMAIN f : RoomOf(f, placed, i) = Nil})
      BY <2>1 DEF load_resets
    <2> HIDE DEF placed
    <2>4. load_resets(f, Rooms(a)) = Without(all, E)
      BY <2>2, <2>3
    <2>5. QED BY <1>7, <1>8, <2>4
  <1>10. QED BY <1>2, <1>4, <1>5, <1>9

\* b is what was saved of a.
Reread(a, b) ==
    /\ b \in Area /\ b.rooms = a.rooms /\ b.mobs = a.mobs /\ b.objs = a.objs
    /\ \A v \in Rooms(a) \cup Range(a.mobs) \cup Range(a.objs) : b.text[v] = a.text[v]
    /\ \A r \in Rooms(a), d \in Dir : b.exit[r][d] = ExitItem(a.exit[r][d])
    /\ Resets(b.reset, b.resets) /\ InRooms(b.reset, b.resets, b.listed)
    /\ Len(b.resets) = Len(a.resets) /\ \A i \in 1 .. Len(a.resets) : b.reset[b.resets[i]] = a.reset[a.resets[i]]

LEMMA RereadWell ==
    ASSUME NEW a, Sound(a), NEW b, Reread(a, b)
    PROVE  Sound(b) /\ FileOf(b) = FileOf(a)
  <1>1. /\ a.exit \in [Room -> [Dir -> Exit \cup {Nil}]] /\ Rooms(a) \subseteq Room /\ Leads(a) /\ Shaped(a)
        /\ a.resets \in Lists(Reset) /\ a.rooms \in Lists(Room) /\ a.mobs \in Lists(Mob) /\ a.objs \in Lists(Obj)
        /\ \A x \in Range(a.resets) : Names(a, a.reset[x]) /\ a.reset[x] \in Command
    BY Parts
  <1>2. Rooms(b) = Rooms(a) /\ b.exit \in [Room -> [Dir -> Exit \cup {Nil}]]
    BY DEF Reread, Rooms, Area
  <1>3. Shaped(b)
    <2>1. Leads(b)
      <3>1. ASSUME NEW q \in Rooms(a), NEW d \in Dir, b.exit[q][d] # Nil PROVE b.exit[q][d].to \in Rooms(a) \cup {Nil}
        <4>1. a.exit[q][d] \in Exit \cup {Nil} /\ b.exit[q][d] = ExitItem(a.exit[q][d])
          BY <1>1 DEF Reread
        <4>2. QED BY <1>1, <3>1, <4>1, ExitItems DEF Leads
      <3>2. QED BY <1>2, <3>1 DEF Leads
    <2>2. QED BY <1>1, <1>2, <2>1 DEF Reread, Shaped
  <1>4. ASSUME NEW x \in Range(b.resets) PROVE Names(b, b.reset[x])
    <2>1. b.resets \in Lists(Reset) /\ Len(b.resets) = Len(a.resets)
      BY DEF Reread, Resets
    <2>2. PICK i \in 1 .. Len(a.resets) : b.resets[i] = x
      BY <2>1, Listed
    <2>3. b.reset[x] = a.reset[a.resets[i]] /\ a.resets[i] \in Range(a.resets)
      BY <1>1, <2>2, Listed DEF Reread
    <2> DEFINE c == a.reset[a.resets[i]]
    <2>4. Names(a, c) /\ c \in Command
      BY <1>1, <2>3
    <2> HIDE DEF c
    <2>5. Names(b, c)
      <3>1. CASE c.cmd = "D"
        <4>1. c.a \in Rooms(a) /\ c.b \in Dir
          BY <2>4, <3>1, Commands4 DEF Names
        <4>2. b.exit[c.a][c.b] = a.exit[c.a][c.b]
          <5>1. a.exit[c.a][c.b] \in Exit \cup {Nil} /\ IsDoor(a.exit[c.a][c.b])
            BY <1>1, <2>4, <3>1, <4>1 DEF Names
          <5>2. QED BY <4>1, <5>1, ExitItems DEF Reread
        <4>3. QED BY <1>2, <2>4, <3>1, <4>2 DEF Names
      <3>2. CASE c.cmd # "D"
        BY <1>2, <2>4, <3>2 DEF Names, Reread
      <3>3. QED BY <3>1, <3>2
    <2>6. QED BY <2>3, <2>5 DEF c
  <1>5. Whole(b)
    BY <1>3, <1>4 DEF Whole, Reread
  <1>6. Sound(b)
    BY <1>5, SoundIsWhole
  <1>7. ASSUME NEW r \in Rooms(a) PROVE RoomItem(b, r) = RoomItem(a, r)
    <2>1. \A d \in Dir : ExitItem(b.exit[r][d]) = ExitItem(a.exit[r][d])
      BY <1>1, ExitItems DEF Reread
    <2>2. b.text[r] = a.text[r]
      BY DEF Reread
    <2>3. QED BY <2>1, <2>2 DEF RoomItem
  <1>8. (\A v \in Range(a.mobs) : MobItem(b, v) = MobItem(a, v)) /\ (\A v \in Range(a.objs) : ObjectItem(b, v) = ObjectItem(a, v))
    BY DEF Reread, MobItem, ObjectItem
  <1>9. ASSUME NEW s \in FileParts PROVE SectionOf(s, b) = SectionOf(s, a)
    <2>1. CASE s = "rooms"
      <3>1. \A i \in 1 .. Len(a.rooms) : RoomItem(b, a.rooms[i]) = RoomItem(a, a.rooms[i])
        BY <1>1, <1>7, Listed DEF Rooms
      <3>2. b.rooms = a.rooms
        BY DEF Reread
      <3>3. /\ SectionOf("rooms", b) = [i \in 1 .. Len(a.rooms) |-> RoomItem(b, a.rooms[i])]
            /\ SectionOf("rooms", a) = [i \in 1 .. Len(a.rooms) |-> RoomItem(a, a.rooms[i])]
        BY <3>2, WrittenAre DEF SectionOf
      <3>4. QED BY <2>1, <3>1, <3>3
    <2>2. CASE s = "mobiles"
      <3>1. \A i \in 1 .. Len(a.mobs) : MobItem(b, a.mobs[i]) = MobItem(a, a.mobs[i])
        BY <1>1, <1>8, Listed
      <3>2. b.mobs = a.mobs
        BY DEF Reread
      <3>3. /\ SectionOf("mobiles", b) = [i \in 1 .. Len(a.mobs) |-> MobItem(b, a.mobs[i])]
            /\ SectionOf("mobiles", a) = [i \in 1 .. Len(a.mobs) |-> MobItem(a, a.mobs[i])]
        BY <3>2, WrittenAre DEF SectionOf
      <3>4. QED BY <2>2, <3>1, <3>3
    <2>3. CASE s = "objects"
      <3>1. \A i \in 1 .. Len(a.objs) : ObjectItem(b, a.objs[i]) = ObjectItem(a, a.objs[i])
        BY <1>1, <1>8, Listed
      <3>2. b.objs = a.objs
        BY DEF Reread
      <3>3. /\ SectionOf("objects", b) = [i \in 1 .. Len(a.objs) |-> ObjectItem(b, a.objs[i])]
            /\ SectionOf("objects", a) = [i \in 1 .. Len(a.objs) |-> ObjectItem(a, a.objs[i])]
        BY <3>2, WrittenAre DEF SectionOf
      <3>4. QED BY <2>3, <3>1, <3>3
    <2>4. CASE s = "resets"
      <3>1. Len(b.resets) = Len(a.resets) /\ \A i \in 1 .. Len(a.resets) : b.reset[b.resets[i]] = a.reset[a.resets[i]]
        BY DEF Reread
      <3>2. /\ SectionOf("resets", b) = [i \in 1 .. Len(a.resets) |-> b.reset[b.resets[i]]]
            /\ SectionOf("resets", a) = [i \in 1 .. Len(a.resets) |-> a.reset[a.resets[i]]]
        BY <3>1, WrittenAre DEF SectionOf
      <3>3. QED BY <2>4, <3>1, <3>2
    <2>5. QED BY <2>1, <2>2, <2>3, <2>4 DEF FileParts
  <1>10. FileOf(b) = FileOf(a)
    <2>1. FileOf(b) = [s \in FileParts |-> SectionOf(s, b)] /\ FileOf(a) = [s \in FileParts |-> SectionOf(s, a)]
      BY <1>6, FileIs
    <2>2. QED BY <1>9, <2>1
  <1>11. QED BY <1>6, <1>10

LEMMA Reloaded ==
    ASSUME NEW a, Sound(a)
    PROVE  Sound(Load(FileOf(a))) /\ FileOf(Load(FileOf(a))) = FileOf(a)
  <1> DEFINE f == FileOf(a)
             n == Len(a.resets)
             all == Numbered(n)
             t == [v \in Room \cup Mob \cup Obj |-> TextIn(f, v)]
             g == [x \in Reset |-> IF x \in Range(all) THEN f.resets[x] ELSE Nil]
             l == [r \in Room |-> Without(all, {x \in Range(all) : RoomOf(f.resets, all, x) # r})]
             read == [rooms |-> a.rooms, mobs |-> a.mobs, objs |-> a.objs, text |-> t, exit |-> fix_exits(f),
                      reset |-> g, resets |-> all, listed |-> l]
             bad == {x \in Range(all) : ~Makes(read, x)}
  <1>1. /\ load_rooms(f) = a.rooms /\ load_mobiles(f) = a.mobs /\ load_objects(f) = a.objs
        /\ \A v \in Rooms(a) \cup Range(a.mobs) \cup Range(a.objs) : TextIn(f, v) = a.text[v]
        /\ \A v : TextIn(f, v) \in Text \cup {Nil}
        /\ \A r \in Room, d \in Dir : fix_exits(f)[r][d] = IF r \in Rooms(a) THEN ExitItem(a.exit[r][d]) ELSE Nil
        /\ fix_exits(f) \in [Room -> [Dir -> Exit \cup {Nil}]]
    BY SectionsBack
  <1>2. DOMAIN f.resets = 1 .. n /\ \A i \in 1 .. n : f.resets[i] = a.reset[a.resets[i]]
    <2>1. f.resets = [i \in 1 .. n |-> a.reset[a.resets[i]]]
      BY SectionsAre
    <2> HIDE DEF n, f
    <2>2. QED BY <2>1
  <1>3. /\ load_resets(f.resets, Rooms(a)) = all
        /\ all \in Lists(Reset) /\ Range(all) = 1 .. n /\ 1 .. n \subseteq Reset /\ n \in Nat /\ Len(all) = n
        /\ \A i \in 1 .. n : a.resets[i] \in Range(a.resets)
        /\ \A h : (\A i \in 1 .. n : h[i] = f.resets[i]) =>
              \A i \in 1 .. n : RoomOf(h, all, i) = RoomOf(a.reset, a.resets, a.resets[i])
    BY <1>2, ResetsBack
  <1>4. \A i \in 1 .. n : all[i] = i /\ g[i] = f.resets[i] /\ f.resets[i] = a.reset[a.resets[i]]
    BY <1>2, <1>3 DEF Numbered
  <1>5. g \in [Reset -> Command \cup {Nil}] /\ \A x \in Reset : g[x] = IF x \in 1 .. n THEN a.reset[a.resets[x]] ELSE Nil
    <2>1. \A i \in 1 .. n : a.reset[a.resets[i]] \in Command
      BY <1>3, Parts
    <2>2. QED BY <1>2, <1>3, <2>1
  <1>6. \A i \in 1 .. n : /\ RoomOf(g, all, i) = RoomOf(a.reset, a.resets, a.resets[i])
                          /\ RoomOf(f.resets, all, i) = RoomOf(a.reset, a.resets, a.resets[i])
    BY <1>3, <1>4
  <1>7. Load(f) = [read EXCEPT !.resets = Without(@, bad), !.reset = [x \in Reset |-> IF x \in bad THEN Nil ELSE @[x]]]
    <2> DEFINE order == load_resets(f.resets, Range(load_rooms(f)))
               read0 == [rooms |-> load_rooms(f), mobs |-> load_mobiles(f), objs |-> load_objects(f),
                         text |-> t, exit |-> fix_exits(f),
                         reset |-> [x \in Reset |-> IF x \in Range(order) THEN f.resets[x] ELSE Nil],
                         resets |-> order,
                         listed |-> [r \in Room |-> Without(order, {x \in Range(order) : RoomOf(f.resets, order, x) # r})]]
               bad0 == {x \in Range(order) : ~Makes(read0, x)}
    <2>1. Load(f) = [read0 EXCEPT !.resets = Without(@, bad0), !.reset = [x \in Reset |-> IF x \in bad0 THEN Nil ELSE @[x]]]
      BY DEF Load
    <2>2. Range(load_rooms(f)) = Rooms(a)
      BY <1>1 DEF Rooms
    <2>3. order = all
      BY <1>3, <2>2
    <2> HIDE DEF order, all
    <2>4. read0 = read
      BY <1>1, <2>3
    <2> HIDE DEF read0, read
    <2>5. bad0 = bad
      BY <2>3, <2>4
    <2> HIDE DEF bad0, bad
    <2>6. QED BY <2>1, <2>4, <2>5
  <1> HIDE DEF f, all, g, l, t, n
  <1>8. t \in [Room \cup Mob \cup Obj -> Text \cup {Nil}]
    BY <1>1 DEF t
  <1>9. Resets(g, all)
    <2>1. \A i \in 1 .. n : RoomOf(g, all, i) \in Room
      BY <1>3, <1>6, SoundIsWhole DEF Whole, Resets
    <2>2. {x \in Reset : g[x] # Nil} = 1 .. n
      <3>1. \A i \in 1 .. n : a.reset[a.resets[i]] # Nil
        BY <1>3, Parts, NilAssumption
      <3>2. QED BY <1>3, <1>5, <3>1
    <2>3. QED BY <1>3, <1>5, <2>1, <2>2 DEF Resets
  <1>10. ASSUME NEW r \in Room PROVE Step(g, all, l[r], r)
    <2> DEFINE X == {x \in Range(all) : RoomOf(f.resets, all, x) # r}
    <2>1. l[r] = Without(all, X)
      BY DEF l
    <2> HIDE DEF X
    <2>2. /\ l[r] \in Lists(Reset) /\ Range(l[r]) = Range(all) \ X
          /\ \A x, y : Before(l[r], x, y) <=> Before(all, x, y) /\ x \notin X /\ y \notin X
      BY <1>3, <2>1, Removal
    <2>3. Range(l[r]) = {x \in Range(all) : RoomOf(g, all, x) = r}
      BY <1>3, <1>6, <2>2 DEF X
    <2>4. QED BY <2>2, <2>3 DEF Step
  <1>11. DOMAIN l = Room
    BY DEF l
  <1>12. InRooms(g, all, l)
    BY <1>10, <1>11 DEF InRooms
  <1>13. l \in [Room -> Seq(Reset)]
    <2>1. \A r \in Room : l[r] \in Seq(Reset)
      BY <1>10 DEF Step, Lists
    <2>2. l = [r \in Room |-> l[r]]
      BY DEF l
    <2>3. QED BY <2>1, <2>2
  <1>14. read \in Area
    <2>1. a.rooms \in Seq(Room) /\ a.mobs \in Seq(Mob) /\ a.objs \in Seq(Obj) /\ all \in Seq(Reset)
      BY <1>3, Parts DEF Lists
    <2> DEFINE e == fix_exits(f)
    <2>2. e \in [Room -> [Dir -> Exit \cup {Nil}]]
      BY <1>1
    <2> HIDE DEF e
    <2>3. [rooms |-> a.rooms, mobs |-> a.mobs, objs |-> a.objs, text |-> t, exit |-> e,
           reset |-> g, resets |-> all, listed |-> l] \in Area
      BY <1>5, <1>8, <1>13, <2>1, <2>2 DEF Area
    <2>4. QED BY <2>3 DEF e
  <1>15. Reread(a, read)
    <2>1. \A v \in Rooms(a) \cup Range(a.mobs) \cup Range(a.objs) : t[v] = a.text[v]
      BY <1>1, Parts DEF t
    <2>2. \A r \in Rooms(a), d \in Dir : fix_exits(f)[r][d] = ExitItem(a.exit[r][d])
      BY <1>1, Parts
    <2>3. \A i \in 1 .. n : g[all[i]] = a.reset[a.resets[i]]
      BY <1>4
    <2>4. QED BY <1>3, <1>9, <1>12, <1>14, <2>1, <2>2, <2>3 DEF Reread, n
  <1>16. Sound(read) /\ FileOf(read) = FileOf(a)
    BY <1>15, RereadWell
  <1> HIDE DEF read
  <1>17. bad = {}
    <2>1. \A x \in Range(read.resets) : Makes(read, x)
      BY <1>16 DEF Sound, ResetsOf
    <2>2. QED BY <2>1 DEF read
  <1>18. Load(f) = read
    <2>1. Without(all, {}) = all
      BY <1>3, Removal
    <2>2. [x \in Reset |-> g[x]] = g
      BY <1>5
    <2>3. read = [rooms |-> a.rooms, mobs |-> a.mobs, objs |-> a.objs, text |-> t, exit |-> fix_exits(f),
                  reset |-> g, resets |-> all, listed |-> l]
      BY DEF read
    <2> HIDE DEF bad
    <2>4. [x \in Reset |-> IF x \in bad THEN Nil ELSE read.reset[x]] = [x \in Reset |-> g[x]]
      BY <1>17, <2>3
    <2>5. Without(read.resets, bad) = all
      BY <1>17, <2>1, <2>3
    <2>6. Load(f) = [read EXCEPT !.resets = all, !.reset = g]
      BY <1>7, <2>2, <2>4, <2>5
    <2>7. QED BY <2>3, <2>6
  <1>19. QED BY <1>16, <1>18 DEF f

-----------------------------------------------------------------------------
(* The save *)

Place(s) == CASE s = "rooms" -> 2 [] s = "mobiles" -> 3 [] s = "objects" -> 5 [] s = "resets" -> 7

LEMMA Places ==
    /\ Len(Sections) = 8 /\ Sections[8] = "end" /\ "end" \notin FileParts
    /\ \A s \in FileParts : Place(s) \in 1 .. 7 /\ Sections[Place(s)] = s
    /\ \A p \in 1 .. 8 : Sections[p] \in FileParts => Place(Sections[p]) = p
    /\ \A p \in 1 .. 8 : Sections[p] = "end" => p = 8
    /\ \A s \in FileParts, p \in 1 .. 8 : Place(s) = p => Sections[p] = s
  <1>1. Len(Sections) = 8 /\ Sections[8] = "end" /\ "end" \notin FileParts
    BY DEF Sections, FileParts
  <1>2. \A s \in FileParts : Place(s) \in 1 .. 7 /\ Sections[Place(s)] = s
    BY DEF Sections, FileParts, Place
  <1>3. ASSUME NEW p \in 1 .. 8
        PROVE  (Sections[p] \in FileParts => Place(Sections[p]) = p) /\ (Sections[p] = "end" => p = 8)
    <2>1. p \in {1, 2, 3, 4, 5, 6, 7, 8}
      OBVIOUS
    <2>2. /\ Sections[1] = "area" /\ Sections[2] = "rooms" /\ Sections[3] = "mobiles" /\ Sections[4] = "mobprogs"
          /\ Sections[5] = "objects" /\ Sections[6] = "shops" /\ Sections[7] = "resets" /\ Sections[8] = "end"
      BY DEF Sections
    <2>3. Place("rooms") = 2 /\ Place("mobiles") = 3 /\ Place("objects") = 5 /\ Place("resets") = 7
      BY DEF Place
    <2>4. FileParts = {"rooms", "mobiles", "objects", "resets"}
      BY DEF FileParts
    <2>5. CASE p \in {2, 3, 5, 7}
      BY <2>2, <2>3, <2>5
    <2>6. CASE p \in {1, 4, 6, 8}
      BY <2>2, <2>4, <2>6
    <2>7. QED BY <2>1, <2>5, <2>6
  <1>4. \A s \in FileParts, p \in 1 .. 8 : Place(s) = p => Sections[p] = s
    BY <1>2
  <1>5. \A p \in 1 .. 8 : Sections[p] \in FileParts => Place(Sections[p]) = p
    BY <1>3, Zenon
  <1>6. \A p \in 1 .. 8 : Sections[p] = "end" => p = 8
    BY <1>3, Zenon
  <1>7. QED BY <1>1, <1>2, <1>4, <1>5, <1>6

SaveFields == {"waiting", "phase", "section", "at", "loops", "new", "disk", "unflagged"}

\* From behind j and k the lists are the same.
Tails(l, j, n, k) ==
    /\ j \in 0 .. Len(l) /\ k \in 0 .. Len(n) /\ Len(l) - j = Len(n) - k
    /\ \A i \in 1 .. Len(l) - j : l[j + i] = n[k + i]

\* The save of the area v has come behind the j-th item of the section s.  What will be in
\* the file is what is in a: k items that are written already, and the rest of those of v.
Midway(S, v, a, s, j, k) ==
    LET l == Written(s, v)
        n == Written(s, a)
    IN /\ Tails(l, j, n, k)
       /\ S.new[s] = [i \in 1 .. k |-> Item(s, a, n[i])]
       /\ \A i \in 1 .. Len(n) : i > k => Item(s, a, n[i]) = Item(s, v, n[i])
       /\ S.section < Place(s) => j = 0 /\ k = 0
       /\ S.section > Place(s) => j = Len(l)
       /\ S.section = Place(s) /\ S.at = Nil => j = 0 /\ k = 0
       /\ S.section = Place(s) /\ S.at # Nil => j > 0 /\ j < Len(l) /\ l[j + 1] = S.at

\* An area that builders may have turned into v while it was being written.
Earlier(v, a) ==
    /\ Sound(a) /\ a.rooms = v.rooms /\ a.mobs = v.mobs /\ a.objs = v.objs /\ a.exit = v.exit
    /\ Range(a.resets) \subseteq Range(v.resets) /\ \A x \in Range(a.resets) : a.reset[x] = v.reset[x]

Quiet(S, m) == ~m /\ S.waiting = <<>> /\ ~S.unflagged

\* The save S of the area v will make the file of a.
Makings(S, v, m, a) ==
    /\ Earlier(v, a)
    /\ \A s \in FileParts : \E j, k \in Nat : Midway(S, v, a, s, j, k)
    /\ Quiet(S, m) => FileOf(a) = FileOf(v)

GoodFile(f) == \E a : Sound(a) /\ f = FileOf(a)

SavesType(S) ==
    /\ DOMAIN S = SaveFields /\ AFile(S.new)
    /\ S.waiting \in Seq(Nat) /\ Len(S.waiting) < QueueSize /\ S.loops \in Nat
    /\ S.phase \in {"not", "start", "am"} /\ S.section \in 0 .. 8 /\ S.unflagged \in BOOLEAN

\* Whatever has been changed meanwhile, the file and what will take its place are those of
\* areas that make sense; and they are those of v if nothing was changed.  m says whether v is
\* modified.
Saves(S, v, m) ==
    /\ SavesType(S) /\ GoodFile(S.disk)
    /\ S.phase = "start" => S.waiting # <<>>
    /\ S.phase = "am" => /\ S.section \in 1 .. 8 /\ (Sections[S.section] \notin FileParts => S.at = Nil)
                         /\ \E a : Makings(S, v, m, a)
    /\ S.phase = "not" /\ Quiet(S, m) => S.disk = FileOf(v)

LEMMA OneOn ==
    ASSUME NEW i \in Int, NEW n \in Int, NEW j \in Int, i \in 1 .. n - (j + 1)
    PROVE  i + 1 \in 1 .. n - j
  OBVIOUS

LEMMA MidwayResets ==
    ASSUME NEW S, NEW v, NEW a, NEW j, NEW k
    PROVE  Midway(S, v, a, "resets", j, k) <=>
             /\ Tails(v.resets, j, a.resets, k)
             /\ S.new["resets"] = [i \in 1 .. k |-> a.reset[a.resets[i]]]
             /\ \A i \in 1 .. Len(a.resets) : i > k => a.reset[a.resets[i]] = v.reset[a.resets[i]]
             /\ S.section < 7 => j = 0 /\ k = 0
             /\ S.section > 7 => j = Len(v.resets)
             /\ S.section = 7 /\ S.at = Nil => j = 0 /\ k = 0
             /\ S.section = 7 /\ S.at # Nil => j > 0 /\ j < Len(v.resets) /\ v.resets[j + 1] = S.at
  <1>1. Place("resets") = 7
    BY DEF Place
  <1>2. /\ Written("resets", v) = v.resets /\ Written("resets", a) = a.resets
        /\ \A y : Item("resets", a, y) = a.reset[y] /\ Item("resets", v, y) = v.reset[y]
    BY WrittenAre
  <1>3. [i \in 1 .. k |-> Item("resets", a, a.resets[i])] = [i \in 1 .. k |-> a.reset[a.resets[i]]]
    BY <1>2
  <1>4. (\A i \in 1 .. Len(a.resets) : i > k => Item("resets", a, a.resets[i]) = Item("resets", v, a.resets[i]))
          <=> \A i \in 1 .. Len(a.resets) : i > k => a.reset[a.resets[i]] = v.reset[a.resets[i]]
    BY <1>2
  <1>5. QED BY <1>1, <1>2, <1>3, <1>4 DEF Midway

LEMMA HeadTail ==
    ASSUME NEW T, NEW q \in Seq(T), q # <<>>
    PROVE  Head(q) \in T /\ Tail(q) \in Seq(T) /\ Len(Tail(q)) = Len(q) - 1 /\ Len(q) \in Nat
  OBVIOUS

LEMMA StartedWell ==
    ASSUME NEW S, NEW v, Sound(v), NEW m, Saves(S, v, m), S.phase = "start"
    PROVE  Saves(Started(S), v, m) /\ Started(S).phase = "am"
  <1> DEFINE T == Started(S)
  <1>1. SavesType(S) /\ GoodFile(S.disk) /\ S.waiting # <<>>
    BY DEF Saves
  <1>2. T = [S EXCEPT !.phase = "am", !.loops = Head(S.waiting), !.waiting = Tail(@), !.section = 1, !.at = Nil,
                      !.new = EmptyFile, !.unflagged = FALSE]
    BY DEF Started
  <1> HIDE DEF T
  <1>3. /\ DOMAIN T = SaveFields /\ T.phase = "am" /\ T.loops = Head(S.waiting) /\ T.waiting = Tail(S.waiting)
        /\ T.section = 1 /\ T.at = Nil /\ T.new = EmptyFile /\ T.unflagged = FALSE /\ T.disk = S.disk
    BY <1>1, <1>2 DEF SavesType, SaveFields
  <1>4. SavesType(T)
    <2>1. Head(S.waiting) \in Nat /\ Tail(S.waiting) \in Seq(Nat) /\ Len(Tail(S.waiting)) = Len(S.waiting) - 1 /\ Len(S.waiting) \in Nat
      BY <1>1, HeadTail DEF SavesType
    <2>2. Len(Tail(S.waiting)) < QueueSize
      BY <1>1, <2>1, BuildingAssumption DEF SavesType
    <2>3. AFile(T.new)
      BY <1>3, FileShape, Zenon
    <2>4. T.phase \in {"not", "start", "am"} /\ T.section \in 0 .. 8 /\ T.unflagged \in BOOLEAN
      <3>1. T.phase = "am" /\ T.section = 1
        BY <1>3
      <3>2. T.unflagged = FALSE
        BY <1>3
      <3>3. T.unflagged \in BOOLEAN
        BY <3>2, Zenon
      <3>4. QED BY <3>1, <3>3
    <2>5. QED BY <1>3, <2>1, <2>2, <2>3, <2>4 DEF SavesType
  <1>5. ASSUME NEW s \in FileParts PROVE Midway(T, v, v, s, 0, 0)
    <2> DEFINE l == Written(s, v)
    <2>1. Len(l) \in Nat
      BY WrittenLists, Listed
    <2>2. Tails(l, 0, l, 0)
      <3>1. \A i \in 1 .. Len(l) - 0 : l[0 + i] = l[0 + i]
        OBVIOUS
      <3>2. QED BY <2>1, <3>1 DEF Tails
    <2>3. T.new[s] = [i \in 1 .. 0 |-> Item(s, v, l[i])]
      BY <1>3, FileShape
    <2> HIDE DEF l
    <2>4. T.section < Place(s) \/ T.section = Place(s)
      BY <1>3, Places
    <2>5. QED BY <1>3, <2>2, <2>3, <2>4, Places DEF Midway, l
  <1>6. Makings(T, v, m, v)
    <2>1. Earlier(v, v)
      BY DEF Earlier
    <2>2. QED BY <1>5, <2>1 DEF Makings
  <1>7. Saves(T, v, m)
    BY <1>1, <1>3, <1>4, <1>6 DEF Saves, Sections
  <1>8. QED BY <1>3, <1>7 DEF T

LEMMA EndedWell ==
    ASSUME NEW S, NEW v, Sound(v), NEW m, Saves(S, v, m), S.phase = "am", Sections[S.section] = "end"
    PROVE  Saves(Ended(S), v, m)
  <1> DEFINE T == Ended(S)
             q == IF S.waiting = <<>> THEN "not" ELSE "start"
  <1>1. SavesType(S) /\ S.section = 8
    BY Places DEF Saves
  <1>2. T = [S EXCEPT !.disk = S.new, !.new = EmptyFile, !.section = 0, !.phase = q]
    BY DEF Ended
  <1> HIDE DEF T, q
  <1>3. /\ DOMAIN T = SaveFields /\ T.phase = q /\ T.loops = S.loops /\ T.waiting = S.waiting
        /\ T.section = 0 /\ T.new = EmptyFile /\ T.unflagged = S.unflagged /\ T.disk = S.new
    BY <1>1, <1>2 DEF SavesType, SaveFields
  <1>4. SavesType(T)
    BY <1>1, <1>3, FileShape DEF SavesType, q
  <1>5. PICK a : Makings(S, v, m, a)
    BY DEF Saves
  <1>6. Sound(a)
    BY <1>5 DEF Makings, Earlier
  <1>7. S.new = FileOf(a)
    <2>1. ASSUME NEW s \in FileParts PROVE S.new[s] = SectionOf(s, a)
      <3>1. PICK j, k \in Nat : Midway(S, v, a, s, j, k)
        BY <1>5 DEF Makings
      <3>2. S.section > Place(s)
        BY <1>1, Places
      <3>3. k = Len(Written(s, a))
        <4>1. j = Len(Written(s, v)) /\ k \in 0 .. Len(Written(s, a)) /\ Len(Written(s, v)) - j = Len(Written(s, a)) - k
          BY <3>1, <3>2 DEF Midway, Tails
        <4>2. Len(Written(s, a)) \in Nat
          BY <1>6, WrittenLists, Listed
        <4>3. QED BY <4>1, <4>2
      <3>4. QED BY <3>1, <3>3 DEF Midway, SectionOf
    <2>2. FileOf(a) = [s \in FileParts |-> SectionOf(s, a)]
      BY <1>6, FileIs
    <2>3. S.new = [s \in FileParts |-> S.new[s]]
      BY <1>1 DEF SavesType, AFile
    <2>4. QED BY <2>1, <2>2, <2>3
  <1>8. Quiet(T, m) => T.disk = FileOf(v)
    BY <1>3, <1>5, <1>7 DEF Makings, Quiet
  <1>9. Saves(T, v, m)
    BY <1>3, <1>4, <1>6, <1>7, <1>8 DEF Saves, GoodFile, q
  <1>10. QED BY <1>9 DEF T

\* A section that is passed over, or that is not the one where the save is.
LEMMA PassedOver ==
    ASSUME NEW S, NEW T, NEW v, NEW a, NEW s \in FileParts, NEW j, NEW k, Midway(S, v, a, s, j, k),
           S.section \in 1 .. 7, Place(s) # S.section, T.new[s] = S.new[s],
           T.section = S.section \/ (T.section = S.section + 1 /\ T.at = Nil)
    PROVE  Midway(T, v, a, s, j, k)
  <1>1. Place(s) \in 1 .. 7
    BY Places
  <1>2. (T.section < Place(s) => S.section < Place(s)) /\ (T.section > Place(s) => S.section > Place(s))
        /\ (T.section = Place(s) => S.section < Place(s) /\ T.at = Nil)
    BY <1>1
  <1>3. QED BY <1>2 DEF Midway

\* The next item of a list.
NextOf(l, p) == IF p = Nil THEN 1 ELSE CHOOSE i \in DOMAIN l : l[i] = p

LEMMA NextIs ==
    ASSUME NEW R, NEW l \in Lists(R), NEW j \in Nat, j < Len(l), NEW p, (p = Nil => j = 0), (p # Nil => p = l[j + 1])
    PROVE  NextOf(l, p) = j + 1
  <1>1. Len(l) \in Nat /\ DOMAIN l = 1 .. Len(l) /\ \A i, k \in 1 .. Len(l) : l[i] = l[k] => i = k
    BY Listed
  <1>2. j + 1 \in 1 .. Len(l)
    BY <1>1
  <1>3. CASE p = Nil
    BY <1>3 DEF NextOf
  <1>4. CASE p # Nil
    <2>1. \A i \in DOMAIN l : l[i] = p => i = j + 1
      BY <1>1, <1>2, <1>4
    <2>2. j + 1 \in DOMAIN l /\ l[j + 1] = p
      BY <1>1, <1>2, <1>4
    <2>3. (CHOOSE i \in DOMAIN l : l[i] = p) = j + 1
      BY <2>1, <2>2
    <2>4. QED BY <1>4, <2>3 DEF NextOf
  <1>5. QED BY <1>3, <1>4

\* What one more item makes of the section.
LEMMA MidwayOn ==
    ASSUME NEW S, NEW T, NEW v, NEW a, Sound(v), Sound(a), NEW s \in FileParts, NEW j \in Nat, NEW k \in Nat,
           Midway(S, v, a, s, j, k), S.section = Place(s), j < Len(Written(s, v)),
           T.new[s] = Append(S.new[s], Item(s, v, Written(s, v)[j + 1])),
           \/ T.section = S.section + 1 /\ j + 1 = Len(Written(s, v))
           \/ T.section = S.section /\ j + 1 < Len(Written(s, v)) /\ T.at = Written(s, v)[j + 2] /\ T.at # Nil
    PROVE  Midway(T, v, a, s, j + 1, k + 1)
  <1> DEFINE l == Written(s, v)
             n == Written(s, a)
             g == [i \in 1 .. k |-> Item(s, a, n[i])]
  <1>1. Len(l) \in Nat /\ Len(n) \in Nat /\ Place(s) \in 1 .. 7
    BY WrittenLists, Listed, Places
  <1>2. /\ Tails(l, j, n, k) /\ S.new[s] = g
        /\ \A i \in 1 .. Len(n) : i > k => Item(s, a, n[i]) = Item(s, v, n[i])
    BY DEF Midway
  <1>3. /\ T.new[s] = Append(S.new[s], Item(s, v, l[j + 1])) /\ j < Len(l)
        /\ T.section = Place(s) + 1 \/ T.section = Place(s)
        /\ T.section = Place(s) + 1 => j + 1 = Len(l)
        /\ T.section = Place(s) => j + 1 < Len(l) /\ T.at = l[j + 2] /\ T.at # Nil
    BY <1>1
  <1> HIDE DEF l, n
  <1>4. k + 1 \in 1 .. Len(n) /\ 1 \in 1 .. Len(l) - j /\ Len(l) - (j + 1) = Len(n) - (k + 1)
    BY <1>1, <1>2, <1>3 DEF Tails
  <1>5. n[k + 1] = l[j + 1]
    BY <1>2, <1>4 DEF Tails
  <1>6. Tails(l, j + 1, n, k + 1)
    <2>1. ASSUME NEW i \in 1 .. Len(l) - (j + 1) PROVE l[j + 1 + i] = n[k + 1 + i]
      <3>1. Len(l) \in Int /\ i \in Int
        BY <1>1
      <3>2. i + 1 \in 1 .. Len(l) - j
        BY <3>1, OneOn
      <3>3. i \in Nat /\ j + (i + 1) = j + 1 + i /\ k + (i + 1) = k + 1 + i
        OBVIOUS
      <3>4. QED BY <1>2, <3>2, <3>3 DEF Tails
    <2>2. QED BY <1>1, <1>2, <1>4, <2>1 DEF Tails
  <1>7. T.new[s] = [i \in 1 .. k + 1 |-> Item(s, a, n[i])]
    <2>1. Item(s, v, l[j + 1]) = Item(s, a, n[k + 1])
      BY <1>1, <1>2, <1>4, <1>5
    <2>2. \A y : Append(g, y) = [i \in 1 .. k + 1 |-> IF i = k + 1 THEN y ELSE g[i]]
      OBVIOUS
    <2>3. T.new[s] = Append(g, Item(s, a, n[k + 1]))
      BY <1>2, <1>3, <2>1
    <2>4. T.new[s] = [i \in 1 .. k + 1 |-> IF i = k + 1 THEN Item(s, a, n[k + 1]) ELSE g[i]]
      BY <2>2, <2>3
    <2>5. \A i \in 1 .. k + 1 : (IF i = k + 1 THEN Item(s, a, n[k + 1]) ELSE g[i]) = Item(s, a, n[i])
      OBVIOUS
    <2>6. QED BY <2>4, <2>5
  <1>8. \A i \in 1 .. Len(n) : i > k + 1 => Item(s, a, n[i]) = Item(s, v, n[i])
    BY <1>1, <1>2
  <1>9. /\ T.section < Place(s) => j + 1 = 0 /\ k + 1 = 0
        /\ T.section > Place(s) => j + 1 = Len(l)
        /\ T.section = Place(s) /\ T.at = Nil => j + 1 = 0 /\ k + 1 = 0
        /\ T.section = Place(s) /\ T.at # Nil => j + 1 > 0 /\ j + 1 < Len(l) /\ l[j + 1 + 1] = T.at
    BY <1>1, <1>3
  <1>10. QED BY <1>6, <1>7, <1>8, <1>9 DEF Midway, l, n

\* A step of the save leaves the queue alone.
SameQueue(S, T) ==
    /\ DOMAIN T = SaveFields /\ AFile(T.new) /\ T.waiting = S.waiting /\ T.phase = S.phase /\ T.loops = S.loops
    /\ T.disk = S.disk /\ T.unflagged = S.unflagged

LEMMA SectionPassed ==
    ASSUME NEW S, SavesType(S), NEW n, NEW T, T = [S EXCEPT !.section = n]
    PROVE  SameQueue(S, T) /\ T.at = S.at /\ T.section = n /\ T.new = S.new
  <1>1. DOMAIN S = SaveFields /\ AFile(S.new)
    BY DEF SavesType
  <1>2. QED BY <1>1 DEF SameQueue, SaveFields

WithItem(S, s, y) == [S EXCEPT !.new[s] = Append(@, y)]

LEMMA ItemAdded ==
    ASSUME NEW S, SavesType(S), NEW s \in FileParts, NEW y, NEW T, T = WithItem(S, s, y)
    PROVE  /\ SameQueue(S, T) /\ T.section = S.section
           /\ T.new[s] = Append(S.new[s], y) /\ \A r \in FileParts : r # s => T.new[r] = S.new[r]
  <1>1. DOMAIN S = SaveFields /\ DOMAIN S.new = FileParts
    BY DEF SavesType, AFile
  <1>2. T.new = [S.new EXCEPT ![s] = Append(@, y)]
    BY <1>1 DEF SaveFields, WithItem
  <1>3. AFile(T.new) /\ T.new[s] = Append(S.new[s], y) /\ \A r \in FileParts : r # s => T.new[r] = S.new[r]
    BY <1>1, <1>2 DEF AFile
  <1>4. /\ DOMAIN T = SaveFields /\ T.waiting = S.waiting /\ T.phase = S.phase /\ T.loops = S.loops
        /\ T.disk = S.disk /\ T.unflagged = S.unflagged /\ T.section = S.section
    BY <1>1 DEF SaveFields, WithItem
  <1>5. QED BY <1>3, <1>4 DEF SameQueue

PointerAt(T, p) == [T EXCEPT !.at = p]
PointerEnd(T) == [T EXCEPT !.section = @ + 1, !.at = Nil]

LEMMA PointerMoved ==
    ASSUME NEW S, NEW T, SameQueue(S, T), T.section = S.section, NEW p
    PROVE  /\ SameQueue(S, PointerAt(T, p)) /\ PointerAt(T, p).new = T.new
           /\ PointerAt(T, p).at = p /\ PointerAt(T, p).section = S.section
           /\ SameQueue(S, PointerEnd(T)) /\ PointerEnd(T).new = T.new
           /\ PointerEnd(T).at = Nil /\ PointerEnd(T).section = S.section + 1
  <1>1. DOMAIN T = SaveFields
    BY DEF SameQueue
  <1>2. /\ SameQueue(S, PointerAt(T, p)) /\ PointerAt(T, p).new = T.new
        /\ PointerAt(T, p).at = p /\ PointerAt(T, p).section = S.section
    BY <1>1 DEF SaveFields, SameQueue, PointerAt
  <1>3. /\ SameQueue(S, PointerEnd(T)) /\ PointerEnd(T).new = T.new
        /\ PointerEnd(T).at = Nil /\ PointerEnd(T).section = S.section + 1
    BY <1>1 DEF SaveFields, SameQueue, PointerEnd
  <1>4. QED BY <1>2, <1>3

\* What the step leaves to be shown.
LEMMA StillSaves ==
    ASSUME NEW S, NEW T, NEW v, NEW m, NEW a, Saves(S, v, m), S.phase = "am", Makings(S, v, m, a), SameQueue(S, T),
           T.section \in 1 .. 8, Sections[T.section] \notin FileParts => T.at = Nil,
           \A s \in FileParts : \E j, k \in Nat : Midway(T, v, a, s, j, k)
    PROVE  Saves(T, v, m)
  <1>1. SavesType(T) /\ GoodFile(T.disk) /\ T.phase = "am"
    BY DEF Saves, SavesType, SameQueue
  <1>2. Makings(T, v, m, a)
    BY DEF Makings, Quiet, SameQueue
  <1>3. QED BY <1>1, <1>2 DEF Saves

\* One item, or the end of a section with nothing in it.
LEMMA OneWrittenWell ==
    ASSUME Sound(w), NEW S, NEW m, Saves(S, w, m), S.phase = "am", Sections[S.section] # "end"
    PROVE  Saves(OneWritten(S), w, m) /\ OneWritten(S).phase = "am"
  <1> DEFINE s == Sections[S.section]
             l == Written(s, w)
             i == NextOf(l, S.at)
             U == OneWritten(S)
             T == WithItem(S, s, Item(s, w, l[i]))
  <1>1. /\ SavesType(S) /\ S.section \in 1 .. 8 /\ s # "end"
        /\ s \notin FileParts => S.at = Nil
    BY DEF Saves
  <1>2. S.section \in 1 .. 7
    <2>1. S.section # 8
      BY <1>1, Places
    <2>2. QED BY <1>1, <2>1
  <1>3. PICK a : Makings(S, w, m, a)
    BY DEF Saves
  <1>4. Sound(a)
    BY <1>3 DEF Makings, Earlier
  <1>5. U = IF l = <<>> THEN [S EXCEPT !.section = @ + 1]
            ELSE IF i = Len(l) THEN PointerEnd(T)
            ELSE PointerAt(T, l[i + 1])
    BY DEF OneWritten, NextOf, WithItem, PointerEnd, PointerAt
  <1>6. s \in FileParts => Place(s) = S.section
    BY <1>2, Places
  <1>7. \A r \in FileParts : r # s => Place(r) # S.section
    BY <1>2, Places
  <1>8. s \notin FileParts => l = <<>>
    BY WrittenAre
  <1>9. s \in FileParts => \E R : l \in Lists(R) /\ Nil \notin R
    BY WrittenLists, NilAssumption
  <1> HIDE DEF U, T, s, l
  <1>10. CASE l = <<>>
    <2>1. U = [S EXCEPT !.section = S.section + 1]
      BY <1>5, <1>10
    <2>2. SameQueue(S, U) /\ U.at = S.at /\ U.section = S.section + 1 /\ U.new = S.new
      BY <1>1, <2>1, SectionPassed
    <2>3. ASSUME s \in FileParts, NEW j \in Nat, NEW k \in Nat, Midway(S, w, a, s, j, k)
          PROVE  S.at = Nil /\ Midway(U, w, a, s, j, k)
      <3>1. Written(s, w) = <<>> /\ Place(s) = S.section
        BY <1>6, <1>10, <2>3 DEF l
      <3>2. j = 0 /\ S.at = Nil
        BY <2>3, <3>1 DEF Midway, Tails
      <3>3. U.section > Place(s) /\ ~(U.section < Place(s)) /\ U.section # Place(s)
        BY <1>2, <2>2, <3>1
      <3>4. j = Len(Written(s, w))
        BY <3>1, <3>2
      <3>5. QED BY <2>2, <2>3, <3>2, <3>3, <3>4 DEF Midway
    <2>4. ASSUME NEW r \in FileParts PROVE \E j, k \in Nat : Midway(U, w, a, r, j, k)
      <3>1. PICK j, k \in Nat : Midway(S, w, a, r, j, k)
        BY <1>3 DEF Makings
      <3>2. CASE r = s
        BY <2>3, <3>1, <3>2
      <3>3. CASE r # s
        <4>1. PICK p, q \in Nat : s \in FileParts => Midway(S, w, a, s, p, q)
          BY <1>3 DEF Makings
        <4>2. S.at = Nil
          BY <1>1, <2>3, <4>1
        <4>3. Midway(U, w, a, r, j, k)
          BY <1>2, <1>7, <2>2, <3>1, <3>3, <4>2, PassedOver
        <4>4. QED BY <4>3
      <3>4. QED BY <3>2, <3>3
    <2>5. S.at = Nil
      <3>1. PICK p, q \in Nat : s \in FileParts => Midway(S, w, a, s, p, q)
        BY <1>3 DEF Makings
      <3>2. QED BY <1>1, <2>3, <3>1
    <2>6. U.section \in 1 .. 8
      BY <1>2, <2>2
    <2>7. Saves(U, w, m)
      BY <1>3, <2>2, <2>4, <2>5, <2>6, StillSaves
    <2>8. QED BY <2>2, <2>7 DEF U, SameQueue
  <1>11. CASE l # <<>>
    <2>1. s \in FileParts /\ Place(s) = S.section
      BY <1>6, <1>8, <1>11
    <2>2. PICK j, k \in Nat : Midway(S, w, a, s, j, k)
      BY <1>3, <2>1 DEF Makings
    <2>3. PICK R : l \in Lists(R) /\ Nil \notin R
      BY <1>9, <2>1
    <2>4. Len(l) \in Nat /\ Len(l) > 0 /\ \A q \in 1 .. Len(l) : l[q] \in R
      <3>1. Len(l) \in Nat /\ l \in Seq(R) /\ \A q \in 1 .. Len(l) : l[q] \in R
        BY <2>3, Listed
      <3>2. QED BY <1>11, <3>1
    <2>5. j < Len(l) /\ (S.at = Nil => j = 0) /\ (S.at # Nil => S.at = l[j + 1])
      BY <2>1, <2>2, <2>4 DEF Midway, l
    <2>6. i = j + 1
      BY <2>3, <2>5, NextIs
    <2> HIDE DEF i
    <2>7. T = WithItem(S, s, Item(s, w, l[j + 1]))
      BY <2>6 DEF T
    <2>8. /\ SameQueue(S, T) /\ T.section = S.section
          /\ T.new[s] = Append(S.new[s], Item(s, w, l[j + 1])) /\ \A r \in FileParts : r # s => T.new[r] = S.new[r]
      BY <1>1, <2>1, <2>7, ItemAdded
    <2>9. /\ SameQueue(S, U) /\ U.new = T.new
          /\ \/ U.section = S.section + 1 /\ j + 1 = Len(l) /\ U.at = Nil
             \/ U.section = S.section /\ j + 1 < Len(l) /\ U.at = l[j + 2] /\ U.at # Nil
      <3>1. CASE j + 1 = Len(l)
        <4>1. U = PointerEnd(T)
          BY <1>5, <1>11, <2>6, <3>1
        <4>2. SameQueue(S, U) /\ U.new = T.new /\ U.at = Nil /\ U.section = S.section + 1
          BY <2>8, <4>1, PointerMoved
        <4>3. QED BY <3>1, <4>2
      <3>2. CASE j + 1 # Len(l)
        <4>1. U = PointerAt(T, l[j + 2])
          <5>1. U = PointerAt(T, l[i + 1])
            BY <1>5, <1>11, <2>6, <3>2
          <5>2. i + 1 = j + 2
            BY <2>6
          <5>3. QED BY <5>1, <5>2, Zenon
        <4>2. SameQueue(S, U) /\ U.new = T.new /\ U.at = l[j + 2] /\ U.section = S.section
          BY <2>8, <4>1, PointerMoved
        <4>3. j + 1 < Len(l) /\ j + 2 \in 1 .. Len(l)
          BY <2>4, <2>5, <3>2
        <4>4. QED BY <2>3, <2>4, <4>2, <4>3
      <3>3. QED BY <3>1, <3>2
    <2>10. Midway(U, w, a, s, j + 1, k + 1)
      BY <1>4, <2>1, <2>2, <2>5, <2>8, <2>9, MidwayOn DEF l
    <2>11. ASSUME NEW r \in FileParts PROVE \E p, q \in Nat : Midway(U, w, a, r, p, q)
      <3>1. CASE r = s
        <4>1. j + 1 \in Nat /\ k + 1 \in Nat
          OBVIOUS
        <4>2. QED BY <2>10, <3>1, <4>1
      <3>2. CASE r # s
        <4>1. PICK p, q \in Nat : Midway(S, w, a, r, p, q)
          BY <1>3 DEF Makings
        <4>2. Place(r) # S.section /\ U.new[r] = S.new[r]
          BY <1>7, <2>8, <2>9, <3>2
        <4>3. U.section = S.section \/ (U.section = S.section + 1 /\ U.at = Nil)
          BY <2>9
        <4>4. Midway(U, w, a, r, p, q)
          BY <1>2, <4>1, <4>2, <4>3, PassedOver
        <4>5. QED BY <4>4
      <3>3. QED BY <3>1, <3>2
    <2>12. U.section \in 1 .. 8 /\ (Sections[U.section] \notin FileParts => U.at = Nil)
      <3>1. CASE U.section = S.section + 1 /\ U.at = Nil
        BY <1>2, <3>1
      <3>2. CASE U.section = S.section
        BY <1>2, <2>1, <3>2 DEF s
      <3>3. QED BY <2>9, <3>1, <3>2
    <2>13. Saves(U, w, m)
      BY <1>3, <2>9, <2>11, <2>12, StillSaves
    <2>14. QED BY <2>9, <2>13 DEF U, SameQueue
  <1>12. QED BY <1>10, <1>11

LEMMA SaveStepWell ==
    ASSUME Sound(w), NEW S, NEW m, Saves(S, w, m), S.phase # "not"
    PROVE  Saves(SaveStep(S), w, m)
  <1> DEFINE T == IF S.phase = "start" THEN Started(S) ELSE S
  <1>1. S.phase = "start" \/ S.phase = "am"
    BY DEF Saves, SavesType
  <1>2. Saves(T, w, m) /\ T.phase = "am"
    <2>1. CASE S.phase = "start"
      BY <2>1, StartedWell
    <2>2. CASE S.phase = "am"
      BY <2>2
    <2>3. QED BY <1>1, <2>1, <2>2
  <1>3. SaveStep(S) = IF Sections[T.section] = "end" THEN Ended(T) ELSE OneWritten(T)
    BY DEF SaveStep
  <1> HIDE DEF T
  <1>4. CASE Sections[T.section] = "end"
    BY <1>2, <1>3, <1>4, EndedWell
  <1>5. CASE Sections[T.section] # "end"
    BY <1>2, <1>3, <1>5, OneWrittenWell
  <1>6. QED BY <1>4, <1>5

\* The greatest number of a set.
LEMMA Greatest ==
    ASSUME NEW S \in SUBSET Nat, S # {}, IsFiniteSet(S)
    PROVE  \E n \in S : \A k \in S : k <= n
  <1> DEFINE above(n) == {k \in S : k > n}
             C == {Cardinality(above(n)) : n \in S}
  <1>1. \A n \in S : IsFiniteSet(above(n)) /\ Cardinality(above(n)) \in Nat
    BY FS_Subset, FS_CardinalityType
  <1>2. C \in SUBSET Nat /\ C # {}
    BY <1>1
  <1>3. PICK c \in C : \A d \in C : c <= d
    <2> HIDE DEF C
    <2>1. QED BY <1>2, Least
  <1>4. PICK n \in S : c = Cardinality(above(n))
    BY <1>3
  <1>5. ASSUME NEW k \in S, ~(k <= n) PROVE FALSE
    <2>1. k \in Nat /\ n \in Nat /\ k > n
      BY <1>5
    <2>2. above(k) \subseteq above(n) /\ k \in above(n) /\ k \notin above(k)
      <3>1. \A j \in S : j \in Nat /\ (j > k => j > n)
        BY <2>1
      <3>2. ~(k > k)
        BY <2>1
      <3>3. QED BY <2>1, <3>1, <3>2
    <2>3. Cardinality(above(k)) \in C
      OBVIOUS
    <2>4. c <= Cardinality(above(k)) /\ Cardinality(above(k)) \in Nat /\ c \in Nat
      BY <1>1, <1>3, <1>4, <2>3
    <2> HIDE DEF above, C
    <2>5. Cardinality(above(k)) <= Cardinality(above(n))
      BY <1>1, <2>2, FS_Subset
    <2>6. Cardinality(above(n)) = Cardinality(above(k))
      BY <1>4, <2>4, <2>5
    <2>7. above(n) = above(k)
      BY <1>1, <2>2, <2>6, FS_Subset
    <2>8. QED BY <2>2, <2>7
  <1>6. QED BY <1>5

LEMMA LongestIs == Longest \in Nat /\ FlushLoops \in Nat
  <1> DEFINE L == Loops \cup {FlushLoops}
  <1>1. IsFiniteSet(L) /\ L \in SUBSET Nat /\ L # {} /\ FlushLoops \in Nat
    BY BuildingAssumption, FS_AddElement
  <1>2. Longest = CHOOSE n \in L : \A k \in L : k <= n
    BY DEF Longest
  <1> HIDE DEF L
  <1>3. \E n \in L : \A k \in L : k <= n
    BY <1>1, Greatest
  <1>4. Longest \in L
    BY <1>2, <1>3
  <1>5. QED BY <1>1, <1>4

\* The loop of build_save.
Round(a, x) == CHOOSE R \in {IF a > T.loops \/ T.phase = "not" THEN T ELSE SaveStep(T) : T \in {x}} : TRUE
Rounds(f, S, n) == f = [a \in 0 .. n |-> IF a = 0 THEN S ELSE Round(a, f[a - 1])]

LEMMA RoundIs ==
    ASSUME NEW a, NEW x
    PROVE  Round(a, x) = IF a > x.loops \/ x.phase = "not" THEN x ELSE SaveStep(x)
  <1> DEFINE y == IF a > x.loops \/ x.phase = "not" THEN x ELSE SaveStep(x)
             Y == {IF a > T.loops \/ T.phase = "not" THEN T ELSE SaveStep(T) : T \in {x}}
  <1>1. Y = {y}
    OBVIOUS
  <1>2. Round(a, x) = CHOOSE R \in Y : TRUE
    BY DEF Round
  <1> HIDE DEF y, Y
  <1>3. (CHOOSE R \in Y : TRUE) \in Y
    BY <1>1
  <1>4. Round(a, x) = y
    BY <1>1, <1>2, <1>3
  <1>5. QED BY <1>4 DEF y

LEMMA RoundsExist ==
    ASSUME NEW S, NEW n \in Nat
    PROVE  \E f : Rounds(f, S, n)
  <1> DEFINE K == {k \in 0 .. n : \E f : Rounds(f, S, k)}
  <1>1. 0 \in K
    <2>1. Rounds([i \in 0 .. 0 |-> S], S, 0)
      BY DEF Rounds
    <2>2. \E f : Rounds(f, S, 0)
      BY <2>1, Zenon
    <2>3. QED BY <2>2
  <1>2. ASSUME NEW k \in 1 .. n, k - 1 \in K PROVE k \in K
    <2>1. PICK f : f = [a \in 0 .. k - 1 |-> IF a = 0 THEN S ELSE Round(a, f[a - 1])]
      BY <1>2 DEF Rounds
    <2> DEFINE g == [a \in 0 .. k |-> IF a <= k - 1 THEN f[a] ELSE Round(k, f[k - 1])]
    <2>2. ASSUME NEW a \in 0 .. k PROVE g[a] = IF a = 0 THEN S ELSE Round(a, g[a - 1])
      <3>1. CASE a = 0
        BY <2>1, <3>1
      <3>2. CASE a \in 1 .. k - 1
        BY <2>1, <3>2
      <3>3. CASE a = k
        BY <3>3
      <3>4. QED BY <3>1, <3>2, <3>3
    <2>3. Rounds(g, S, k)
      BY <2>2 DEF Rounds
    <2> HIDE DEF g
    <2>4. \E h : Rounds(h, S, k)
      BY <2>3, Zenon
    <2>5. k \in 0 .. n
      OBVIOUS
    <2>6. QED BY <2>4, <2>5
  <1> HIDE DEF K
  <1>3. 0 .. n \subseteq K
    BY <1>1, <1>2, Counting
  <1>4. n \in K
    BY <1>3
  <1>5. QED BY <1>4 DEF K

LEMMA BuildSaveWell ==
    ASSUME Sound(w), NEW S, NEW m, Saves(S, w, m)
    PROVE  Saves(build_save(S), w, m)
  <1> DEFINE f == CHOOSE f : f = [a \in 0 .. Longest |-> IF a = 0 THEN S ELSE Round(a, f[a - 1])]
             K == {a \in 0 .. Longest : Saves(f[a], w, m)}
  <1>1. build_save(S) = f[Longest]
    BY DEF build_save, Round
  <1>2. Longest \in Nat
    BY LongestIs
  <1>3. \E h : h = [a \in 0 .. Longest |-> IF a = 0 THEN S ELSE Round(a, h[a - 1])]
    BY <1>2, RoundsExist DEF Rounds
  <1>4. f = [a \in 0 .. Longest |-> IF a = 0 THEN S ELSE Round(a, f[a - 1])]
    BY <1>3
  <1> HIDE DEF f
  <1>5. 0 \in K
    BY <1>2, <1>4
  <1>6. ASSUME NEW a \in 1 .. Longest, a - 1 \in K PROVE a \in K
    <2> DEFINE T == f[a - 1]
    <2>1. Saves(T, w, m) /\ a \in 0 .. Longest /\ a # 0
      BY <1>2, <1>6
    <2>2. f[a] = Round(a, T)
      BY <1>4, <2>1
    <2> HIDE DEF T
    <2>3. f[a] = IF a > T.loops \/ T.phase = "not" THEN T ELSE SaveStep(T)
      BY <2>2, RoundIs
    <2>4. CASE a > T.loops \/ T.phase = "not"
      BY <2>1, <2>3, <2>4
    <2>5. CASE ~(a > T.loops \/ T.phase = "not")
      BY <2>1, <2>3, <2>5, SaveStepWell
    <2>6. QED BY <2>4, <2>5
  <1> HIDE DEF K
  <1>7. 0 .. Longest \subseteq K
    BY <1>2, <1>5, <1>6, Counting
  <1>8. Longest \in K
    BY <1>2, <1>7
  <1>9. QED BY <1>1, <1>8 DEF K

-----------------------------------------------------------------------------
(* What builders may do while the area is being written *)

\* u is n, but that x comes in behind the first k items.
Later(n, u, k, x) ==
    /\ \A i \in 1 .. k : u[i] = n[i]
    /\ \A i \in 1 .. Len(u) : i > k => u[i] = x \/ \E h \in 1 .. Len(n) : h > k /\ u[i] = n[h]

\* Something comes in between that is still to be written,
LEMMA SplicedAhead ==
    ASSUME NEW l, NEW n, NEW t, NEW u, NEW j, NEW k, NEW p, NEW q, NEW x, Len(l) \in Nat, Len(n) \in Nat,
           Tails(l, j, n, k), Spliced(l, t, p, x), Spliced(n, u, q, x), j <= p, q = p - j + k
    PROVE  Tails(t, j, u, k) /\ Later(n, u, k, x)
  <1>1. /\ j \in 0 .. Len(l) /\ k \in 0 .. Len(n) /\ Len(l) - j = Len(n) - k
        /\ \A i \in 1 .. Len(l) - j : l[j + i] = n[k + i]
    BY DEF Tails
  <1>2. /\ Len(t) = Len(l) + 1 /\ p \in 0 .. Len(l)
        /\ \A i \in 1 .. Len(l) + 1 : t[i] = IF i <= p THEN l[i] ELSE IF i = p + 1 THEN x ELSE l[i - 1]
    BY DEF Spliced
  <1>3. /\ Len(u) = Len(n) + 1 /\ q \in 0 .. Len(n)
        /\ \A i \in 1 .. Len(n) + 1 : u[i] = IF i <= q THEN n[i] ELSE IF i = q + 1 THEN x ELSE n[i - 1]
    BY DEF Spliced
  <1> DEFINE L == Len(l)
             N == Len(n)
  <1>4. /\ L \in Nat /\ N \in Nat /\ j \in 0 .. L /\ k \in 0 .. N /\ L - j = N - k /\ p \in 0 .. L /\ q \in 0 .. N
        /\ k <= q /\ q - k = p - j
    BY <1>1, <1>2, <1>3
  <1> HIDE DEF L, N
  <1>5. ASSUME NEW i \in 1 .. L + 1 - j PROVE t[j + i] = u[k + i]
    <2>1. j + i \in 1 .. L + 1 /\ k + i \in 1 .. N + 1
      BY <1>4
    <2>2. CASE j + i <= p
      <3>1. i \in 1 .. L - j /\ k + i <= q
        BY <1>4, <2>2
      <3>2. t[j + i] = l[j + i] /\ u[k + i] = n[k + i]
        BY <1>2, <1>3, <2>1, <2>2, <3>1 DEF L, N
      <3>3. QED BY <1>1, <3>1, <3>2 DEF L
    <2>3. CASE j + i = p + 1
      <3>1. k + i = q + 1
        BY <1>4, <2>3
      <3>2. ~(p + 1 <= p) /\ ~(q + 1 <= q)
        BY <1>4
      <3>3. QED BY <1>2, <1>3, <2>1, <2>3, <3>1, <3>2 DEF L, N
    <2>4. CASE j + i > p + 1
      <3>1. /\ i - 1 \in 1 .. L - j /\ ~(j + i <= p) /\ j + i # p + 1 /\ ~(k + i <= q) /\ k + i # q + 1
            /\ j + i - 1 = j + (i - 1) /\ k + i - 1 = k + (i - 1)
        <4>1. i \in Int /\ j \in Int /\ k \in Int /\ p \in Int /\ q \in Int /\ L \in Int
          BY <1>4
        <4>2. i - 1 \in 1 .. L - j
          BY <1>4, <2>4, <4>1
        <4>3. ~(j + i <= p) /\ j + i # p + 1
          BY <2>4, <4>1
        <4>4. ~(k + i <= q) /\ k + i # q + 1
          BY <1>4, <2>4, <4>1
        <4>5. j + i - 1 = j + (i - 1) /\ k + i - 1 = k + (i - 1)
          BY <4>1
        <4>6. QED BY <4>2, <4>3, <4>4, <4>5
      <3>2. t[j + i] = l[j + (i - 1)] /\ u[k + i] = n[k + (i - 1)]
        <4>1. t[j + i] = l[j + i - 1]
          BY <1>2, <1>4, <2>1, <3>1 DEF L
        <4>2. u[k + i] = n[k + i - 1]
          BY <1>3, <1>4, <2>1, <3>1 DEF N
        <4>3. QED BY <3>1, <4>1, <4>2, Zenon
      <3>3. QED BY <1>1, <3>1, <3>2 DEF L
    <2>5. j + i \in Int /\ p \in Int
      BY <1>4
    <2>6. QED BY <2>2, <2>3, <2>4, <2>5
  <1>6. Tails(t, j, u, k)
    <2>1. /\ j \in 0 .. L + 1 /\ k \in 0 .. N + 1 /\ L + 1 - j = N + 1 - k
      BY <1>4
    <2>2. QED BY <1>2, <1>3, <1>5, <2>1 DEF Tails, L, N
  <1>7. ASSUME NEW i \in 1 .. k PROVE u[i] = n[i]
    <2>1. i \in 1 .. N + 1 /\ i <= q
      BY <1>4
    <2>2. QED BY <1>3, <2>1 DEF N
  <1>8. ASSUME NEW i \in 1 .. N + 1, i > k PROVE u[i] = x \/ \E h \in 1 .. N : h > k /\ u[i] = n[h]
    <2>1. CASE i <= q
      <3>1. i \in 1 .. N /\ u[i] = n[i]
        BY <1>3, <1>4, <2>1 DEF N
      <3>2. QED BY <1>8, <3>1
    <2>2. CASE i = q + 1
      <3>1. ~(i <= q)
        BY <1>4, <2>2
      <3>2. QED BY <1>3, <2>2, <3>1 DEF N
    <2>3. CASE i > q + 1
      <3>1. i - 1 \in 1 .. N /\ i - 1 > k /\ ~(i <= q) /\ i # q + 1
        BY <1>4, <2>3
      <3>2. u[i] = n[i - 1]
        BY <1>3, <3>1 DEF N
      <3>3. QED BY <3>1, <3>2
    <2>4. QED BY <1>4, <2>1, <2>2, <2>3
  <1>9. Later(n, u, k, x)
    BY <1>3, <1>7, <1>8 DEF Later, N
  <1>10. QED BY <1>6, <1>9

\* or where the save has been.
LEMMA SplicedPassed ==
    ASSUME NEW l, NEW n, NEW t, NEW j, NEW k, NEW p, NEW x, Len(l) \in Nat, Len(n) \in Nat,
           Tails(l, j, n, k), Spliced(l, t, p, x), p <= j
    PROVE  /\ Tails(t, j + 1, n, k)
           /\ \A i \in 1 .. Len(l) : i > j => t[i + 1] = l[i]
  <1>1. /\ j \in 0 .. Len(l) /\ k \in 0 .. Len(n) /\ Len(l) - j = Len(n) - k
        /\ \A i \in 1 .. Len(l) - j : l[j + i] = n[k + i]
    BY DEF Tails
  <1>2. /\ Len(t) = Len(l) + 1 /\ p \in 0 .. Len(l)
        /\ \A i \in 1 .. Len(l) + 1 : t[i] = IF i <= p THEN l[i] ELSE IF i = p + 1 THEN x ELSE l[i - 1]
    BY DEF Spliced
  <1> DEFINE L == Len(l)
             N == Len(n)
  <1>3. L \in Nat /\ N \in Nat /\ j \in 0 .. L /\ k \in 0 .. N /\ L - j = N - k /\ p \in 0 .. L
    BY <1>1, <1>2
  <1> HIDE DEF L, N
  <1>4. ASSUME NEW i \in 1 .. L, i > j PROVE t[i + 1] = l[i]
    <2>1. i + 1 \in 1 .. L + 1 /\ ~(i + 1 <= p) /\ i + 1 # p + 1 /\ i + 1 - 1 = i
      BY <1>3, <1>4
    <2>2. QED BY <1>2, <2>1 DEF L
  <1>5. ASSUME NEW i \in 1 .. (L + 1) - (j + 1) PROVE t[j + 1 + i] = n[k + i]
    <2>1. i \in 1 .. L - j /\ j + i \in 1 .. L /\ j + i > j /\ j + i + 1 = j + 1 + i
      BY <1>3
    <2>2. t[j + i + 1] = l[j + i]
      BY <1>4, <2>1
    <2>3. l[j + i] = n[k + i]
      BY <1>1, <2>1 DEF L
    <2>4. QED BY <2>1, <2>2, <2>3
  <1>6. j + 1 \in 0 .. L + 1 /\ (L + 1) - (j + 1) = N - k
    BY <1>3
  <1>7. Tails(t, j + 1, n, k)
    BY <1>1, <1>2, <1>5, <1>6 DEF Tails, L, N
  <1>8. QED BY <1>4, <1>7 DEF L

LEMMA SplicedRange ==
    ASSUME NEW R, NEW s \in Seq(R), NEW t \in Seq(R), NEW p, NEW x, Spliced(s, t, p, x)
    PROVE  Range(t) = Range(s) \cup {x}
  <1> DEFINE n == Len(s)
  <1>1. DOMAIN s = 1 .. n /\ DOMAIN t = 1 .. n + 1 /\ n \in Nat /\ p \in 0 .. n
        /\ \A i \in 1 .. n + 1 : t[i] = IF i <= p THEN s[i] ELSE IF i = p + 1 THEN x ELSE s[i - 1]
    BY DEF Spliced
  <1> HIDE DEF n
  <1>2. Range(s) = {s[i] : i \in 1 .. n} /\ Range(t) = {t[i] : i \in 1 .. n + 1}
    BY <1>1 DEF Range
  <1>3. ASSUME NEW i \in 1 .. n + 1 PROVE t[i] \in Range(s) \cup {x}
    <2>1. CASE i <= p
      BY <1>1, <1>2, <2>1
    <2>2. CASE i = p + 1
      <3>1. ~(i <= p)
        BY <1>1, <2>2
      <3>2. QED BY <1>1, <2>2, <3>1
    <2>3. CASE i > p + 1
      <3>1. ~(i <= p) /\ i # p + 1 /\ i - 1 \in 1 .. n
        BY <1>1, <2>3
      <3>2. QED BY <1>1, <1>2, <3>1
    <2>4. QED BY <1>1, <2>1, <2>2, <2>3
  <1>4. ASSUME NEW i \in 1 .. n PROVE s[i] \in Range(t)
    <2>1. CASE i <= p
      <3>1. i \in 1 .. n + 1 /\ t[i] = s[i]
        BY <1>1, <2>1
      <3>2. QED BY <1>2, <3>1
    <2>2. CASE i > p
      <3>1. i + 1 \in 1 .. n + 1 /\ ~(i + 1 <= p) /\ i + 1 # p + 1 /\ i + 1 - 1 = i
        BY <1>1, <2>2
      <3>2. t[i + 1] = s[i]
        BY <1>1, <3>1
      <3>3. QED BY <1>2, <3>1, <3>2
    <2>3. QED BY <1>1, <2>1, <2>2
  <1>5. x \in Range(t)
    <2>1. p + 1 \in 1 .. n + 1 /\ ~(p + 1 <= p)
      BY <1>1
    <2>2. t[p + 1] = x
      BY <1>1, <2>1
    <2>3. QED BY <1>2, <2>1, <2>2
  <1>6. Range(t) \subseteq Range(s) \cup {x}
    BY <1>2, <1>3
  <1>7. Range(s) \subseteq Range(t)
    BY <1>2, <1>4
  <1>8. QED BY <1>5, <1>6, <1>7

\* The sections of which nothing has changed.
LEMMA OtherSections ==
    ASSUME NEW S, NEW v, NEW a, NEW u, NEW b, NEW s \in FileParts, s # "resets", NEW j, NEW k,
           Midway(S, v, a, s, j, k), Frame(v, u), Frame(a, b)
    PROVE  Midway(S, u, b, s, j, k)
  <1>1. Written(s, u) = Written(s, v) /\ Written(s, b) = Written(s, a)
    BY WrittenAre DEF Frame, FileParts
  <1>2. ASSUME NEW x PROVE Item(s, u, x) = Item(s, v, x) /\ Item(s, b, x) = Item(s, a, x)
    <2>1. CASE s = "rooms"
      <3>1. RoomItem(u, x) = RoomItem(v, x) /\ RoomItem(b, x) = RoomItem(a, x)
        BY DEF Frame, RoomItem
      <3>2. \A y : Item("rooms", y, x) = RoomItem(y, x)
        BY WrittenAre
      <3>3. QED BY <2>1, <3>1, <3>2
    <2>2. CASE s = "mobiles"
      <3>1. MobItem(u, x) = MobItem(v, x) /\ MobItem(b, x) = MobItem(a, x)
        BY DEF Frame, MobItem
      <3>2. \A y : Item("mobiles", y, x) = MobItem(y, x)
        BY WrittenAre
      <3>3. QED BY <2>2, <3>1, <3>2
    <2>3. CASE s = "objects"
      <3>1. ObjectItem(u, x) = ObjectItem(v, x) /\ ObjectItem(b, x) = ObjectItem(a, x)
        BY DEF Frame, ObjectItem
      <3>2. \A y : Item("objects", y, x) = ObjectItem(y, x)
        BY WrittenAre
      <3>3. QED BY <2>3, <3>1, <3>2
    <2>4. QED BY <2>1, <2>2, <2>3 DEF FileParts
  <1>3. QED BY <1>1, <1>2 DEF Midway

\* A new reset comes in between
Hung(a, b, x, c, p) == Frame(a, b) /\ b.reset = [a.reset EXCEPT ![x] = c] /\ Spliced(a.resets, b.resets, p, x)

LEMMA HungReset ==
    ASSUME NEW a, Sound(a), NEW b, NEW x \in Reset, NEW c, NEW p, Hung(a, b, x, c, p)
    PROVE  b.reset[x] = c /\ \A y \in Range(a.resets) : y # x => b.reset[y] = a.reset[y]
  <1>1. a.reset \in [Reset -> Command \cup {Nil}] /\ \A y \in Range(a.resets) : y \in Reset
    BY Parts
  <1>2. QED BY <1>1 DEF Hung

LEMMA ResetsAhead ==
    ASSUME NEW S, NEW v, NEW a, Sound(v), Sound(a), NEW u, NEW b, Sound(u), Sound(b), NEW j \in Nat, NEW k \in Nat,
           Midway(S, v, a, "resets", j, k), S.section \in 1 .. 8, NEW x \in Reset, x \notin Range(a.resets), x \notin Range(v.resets),
           NEW c, NEW p, NEW q, Hung(v, u, x, c, p), Hung(a, b, x, c, q), q = p - j + k,
           j < p \/ (p = 0 /\ j = 0 /\ S.section <= 7), Range(a.resets) \subseteq Range(v.resets)
    PROVE  Midway(S, u, b, "resets", j, k)
  <1> DEFINE l == v.resets
             n == a.resets
             t == u.resets
             z == b.resets
  <1>2. /\ Tails(l, j, n, k) /\ S.new["resets"] = [i \in 1 .. k |-> a.reset[n[i]]]
        /\ \A i \in 1 .. Len(n) : i > k => a.reset[n[i]] = v.reset[n[i]]
        /\ S.section < 7 => j = 0 /\ k = 0
        /\ S.section > 7 => j = Len(l)
        /\ S.section = 7 /\ S.at = Nil => j = 0 /\ k = 0
        /\ S.section = 7 /\ S.at # Nil => j > 0 /\ j < Len(l) /\ l[j + 1] = S.at
    BY MidwayResets
  <1>3. /\ Len(l) \in Nat /\ Len(n) \in Nat /\ \A i \in 1 .. Len(n) : n[i] \in Range(n)
    <2>1. l \in Lists(Reset) /\ n \in Lists(Reset)
      BY Parts
    <2>2. QED BY <2>1, Listed
  <1>4. Spliced(l, t, p, x) /\ Spliced(n, z, q, x)
    BY DEF Hung
  <1>5. p \in 0 .. Len(l) /\ j <= p /\ Len(t) = Len(l) + 1
    BY <1>3, <1>4 DEF Spliced
  <1>6. /\ Tails(t, j, z, k)
        /\ \A i \in 1 .. k : z[i] = n[i]
        /\ \A i \in 1 .. Len(z) : i > k => z[i] = x \/ \E h \in 1 .. Len(n) : h > k /\ z[i] = n[h]
        /\ j < p => t[j + 1] = l[j + 1]
    <2> HIDE DEF l, n, t, z
    <2>1. Tails(l, j, n, k)
      BY <1>2
    <2>2. Tails(t, j, z, k)
      BY <1>3, <1>4, <1>5, <2>1, SplicedAhead
    <2>3. Later(n, z, k, x)
      BY <1>3, <1>4, <1>5, <2>1, SplicedAhead
    <2>4. ASSUME j < p PROVE t[j + 1] = l[j + 1]
      <3>1. j + 1 \in 1 .. Len(l) + 1 /\ j + 1 <= p
        BY <1>3, <1>5, <2>4
      <3>2. QED BY <1>4, <3>1 DEF Spliced
    <2>5. QED BY <2>2, <2>3, <2>4 DEF Later
  <1>7. k \in 0 .. Len(n)
    BY <1>2 DEF Tails
  <1> HIDE DEF l, n, t, z
  <1>8. b.reset[x] = c /\ u.reset[x] = c /\ (\A y \in Range(n) : b.reset[y] = a.reset[y] /\ u.reset[y] = v.reset[y])
    BY HungReset DEF n
  <1>9. S.new["resets"] = [i \in 1 .. k |-> b.reset[z[i]]]
    <2>1. \A i \in 1 .. k : b.reset[z[i]] = a.reset[n[i]]
      BY <1>3, <1>6, <1>7, <1>8
    <2>2. QED BY <1>2, <2>1
  <1>10. ASSUME NEW i \in 1 .. Len(z), i > k PROVE b.reset[z[i]] = u.reset[z[i]]
    <2>1. CASE z[i] = x
      BY <1>8, <2>1
    <2>2. CASE \E h \in 1 .. Len(n) : h > k /\ z[i] = n[h]
      <3>1. PICK h \in 1 .. Len(n) : h > k /\ z[i] = n[h]
        BY <2>2
      <3>2. n[h] \in Range(n)
        BY <1>3
      <3>3. a.reset[n[h]] = v.reset[n[h]]
        BY <1>2, <3>1
      <3>4. b.reset[n[h]] = u.reset[n[h]]
        BY <1>8, <3>2, <3>3
      <3>5. QED BY <3>1, <3>4
    <2>3. QED BY <1>6, <1>10, <2>1, <2>2
  <1>11. /\ S.section > 7 => j = Len(t)
         /\ S.section = 7 /\ S.at # Nil => j > 0 /\ j < Len(t) /\ t[j + 1] = S.at
    <2>1. ASSUME S.section > 7 PROVE FALSE
      <3>1. j = Len(l) /\ ~(j < p)
        BY <1>2, <1>3, <1>5, <2>1
      <3>2. QED BY <2>1, <3>1
    <2>2. ASSUME S.section = 7, S.at # Nil PROVE j > 0 /\ j < Len(t) /\ t[j + 1] = S.at
      <3>1. j > 0 /\ j < Len(l) /\ l[j + 1] = S.at
        BY <1>2, <2>2
      <3>2. j < p
        BY <3>1
      <3>3. j < Len(t)
        BY <1>3, <1>5, <3>1
      <3>4. QED BY <1>6, <3>1, <3>2, <3>3
    <2>3. QED BY <2>1, <2>2
  <1>12. /\ Tails(u.resets, j, b.resets, k)
         /\ S.new["resets"] = [i \in 1 .. k |-> b.reset[b.resets[i]]]
         /\ \A i \in 1 .. Len(b.resets) : i > k => b.reset[b.resets[i]] = u.reset[b.resets[i]]
         /\ S.section > 7 => j = Len(u.resets)
         /\ S.section = 7 /\ S.at # Nil => j > 0 /\ j < Len(u.resets) /\ u.resets[j + 1] = S.at
    BY <1>6, <1>9, <1>10, <1>11 DEF t, z
  <1>13. /\ S.section < 7 => j = 0 /\ k = 0
         /\ S.section = 7 /\ S.at = Nil => j = 0 /\ k = 0
    BY <1>2
  <1>14. QED BY <1>12, <1>13, MidwayResets

\* or is too late.
LEMMA ResetsPassed ==
    ASSUME NEW S, NEW v, NEW a, Sound(v), Sound(a), NEW u, Sound(u), NEW j \in Nat, NEW k \in Nat,
           Midway(S, v, a, "resets", j, k), S.section \in 1 .. 8, NEW x \in Reset, x \notin Range(a.resets), x \notin Range(v.resets),
           NEW c, NEW p, Hung(v, u, x, c, p), p <= j, p > 0 \/ S.section > 7, Range(a.resets) \subseteq Range(v.resets)
    PROVE  Midway(S, u, a, "resets", j + 1, k)
  <1> DEFINE l == v.resets
             n == a.resets
             t == u.resets
  <1>2. /\ Tails(l, j, n, k) /\ S.new["resets"] = [i \in 1 .. k |-> a.reset[n[i]]]
        /\ \A i \in 1 .. Len(n) : i > k => a.reset[n[i]] = v.reset[n[i]]
        /\ S.section < 7 => j = 0 /\ k = 0
        /\ S.section > 7 => j = Len(l)
        /\ S.section = 7 /\ S.at = Nil => j = 0 /\ k = 0
        /\ S.section = 7 /\ S.at # Nil => j > 0 /\ j < Len(l) /\ l[j + 1] = S.at
    BY MidwayResets
  <1>3. /\ Len(l) \in Nat /\ Len(n) \in Nat /\ \A i \in 1 .. Len(n) : n[i] \in Range(n)
    <2>1. l \in Lists(Reset) /\ n \in Lists(Reset)
      BY Parts
    <2>2. QED BY <2>1, Listed
  <1>4. Spliced(l, t, p, x)
    BY DEF Hung
  <1>5. p \in 0 .. Len(l) /\ Len(t) = Len(l) + 1
    BY <1>3, <1>4 DEF Spliced
  <1>6. Tails(t, j + 1, n, k) /\ \A i \in 1 .. Len(l) : i > j => t[i + 1] = l[i]
    BY <1>2, <1>3, <1>4, SplicedPassed
  <1> HIDE DEF l, n, t
  <1>7. \A y \in Range(n) : u.reset[y] = v.reset[y]
    BY HungReset DEF n
  <1>8. \A i \in 1 .. Len(n) : i > k => a.reset[n[i]] = u.reset[n[i]]
    BY <1>2, <1>3, <1>7
  <1>9. /\ ~(S.section < 7) /\ ~(S.section = 7 /\ S.at = Nil)
    <2>1. ASSUME j = 0 PROVE S.section > 7
      BY <1>5, <2>1
    <2>2. QED BY <1>2, <2>1
  <1>10. S.section > 7 => j + 1 = Len(t)
    BY <1>2, <1>5
  <1>11. ASSUME S.section = 7, S.at # Nil PROVE j + 1 > 0 /\ j + 1 < Len(t) /\ t[j + 1 + 1] = S.at
    <2>1. j > 0 /\ j < Len(l) /\ l[j + 1] = S.at
      BY <1>2, <1>11
    <2>2. j + 1 \in 1 .. Len(l) /\ j + 1 > j /\ j + 1 > 0 /\ j + 1 < Len(t)
      BY <1>3, <1>5, <2>1
    <2>3. QED BY <1>6, <2>1, <2>2
  <1>12. /\ Tails(u.resets, j + 1, a.resets, k)
         /\ S.new["resets"] = [i \in 1 .. k |-> a.reset[a.resets[i]]]
         /\ \A i \in 1 .. Len(a.resets) : i > k => a.reset[a.resets[i]] = u.reset[a.resets[i]]
         /\ S.section > 7 => j + 1 = Len(u.resets)
         /\ S.section = 7 /\ S.at # Nil => j + 1 > 0 /\ j + 1 < Len(u.resets) /\ u.resets[j + 1 + 1] = S.at
    BY <1>2, <1>6, <1>8, <1>10, <1>11 DEF t, n
  <1>13. QED BY <1>9, <1>12, MidwayResets

\* The file that the save S makes is that of b, which is being turned into u.
Workable(S, u, b) == Earlier(u, b) /\ \A s \in FileParts : \E j, k \in Nat : Midway(S, u, b, s, j, k)

\* The reset that comes behind the p-th of v can be hung in a as well, if that is still to come.
Follows(v, a, x, c, p) ==
    /\ p = 0 => Len(v.resets) = 0
    /\ \A j, k \in Nat : Tails(v.resets, j, a.resets, k) /\ (j < p \/ (p = 0 /\ j = 0)) =>
           \E b : Sound(b) /\ Hung(a, b, x, c, p - j + k)

LEMMA ResetMeanwhile ==
    ASSUME NEW S, NEW v, NEW a, Sound(v), Workable(S, v, a), S.section \in 1 .. 8,
           NEW x \in Reset, v.reset[x] = Nil, NEW c, NEW p, NEW u, Sound(u), Hung(v, u, x, c, p), Follows(v, a, x, c, p)
    PROVE  \E b : Workable(S, u, b)
  <1>1. /\ Sound(a) /\ a.rooms = v.rooms /\ a.mobs = v.mobs /\ a.objs = v.objs /\ a.exit = v.exit
        /\ Range(a.resets) \subseteq Range(v.resets) /\ \A y \in Range(a.resets) : a.reset[y] = v.reset[y]
    BY DEF Workable, Earlier
  <1>2. /\ a.resets \in Lists(Reset) /\ v.resets \in Lists(Reset) /\ u.resets \in Lists(Reset)
        /\ {y \in Reset : v.reset[y] # Nil} = Range(v.resets)
    BY <1>1, Parts
  <1>3. x \notin Range(v.resets) /\ x \notin Range(a.resets)
    BY <1>1, <1>2
  <1>4. u.resets \in Seq(Reset) /\ v.resets \in Seq(Reset) /\ a.resets \in Seq(Reset) /\ Len(v.resets) \in Nat /\ Len(a.resets) \in Nat
    BY <1>2, Listed
  <1>5. Spliced(v.resets, u.resets, p, x) /\ Frame(v, u)
    BY DEF Hung
  <1>6. Range(u.resets) = Range(v.resets) \cup {x} /\ p \in 0 .. Len(v.resets)
    <2>1. p \in 0 .. Len(v.resets)
      BY <1>5 DEF Spliced
    <2>2. QED BY <1>4, <1>5, <2>1, SplicedRange
  <1>7. u.reset[x] = c /\ \A y \in Range(v.resets) : u.reset[y] = v.reset[y]
    BY <1>3, HungReset
  <1>8. PICK j, k \in Nat : Midway(S, v, a, "resets", j, k)
    BY DEF Workable, FileParts
  <1>9. Tails(v.resets, j, a.resets, k) /\ j \in 0 .. Len(v.resets)
    BY <1>8, WrittenAre DEF Midway, Tails
  <1>10. CASE j < p \/ (p = 0 /\ j = 0 /\ S.section <= 7)
    <2>1. PICK b : Sound(b) /\ Hung(a, b, x, c, p - j + k)
      BY <1>9, <1>10 DEF Follows
    <2> DEFINE q == p - j + k
    <2>2. Hung(a, b, x, c, q) /\ q = p - j + k
      BY <2>1
    <2> HIDE DEF q
    <2>3. Frame(a, b) /\ Spliced(a.resets, b.resets, q, x)
      BY <2>2 DEF Hung
    <2>4. b.reset[x] = c /\ \A y \in Range(a.resets) : b.reset[y] = a.reset[y]
      BY <1>1, <1>3, <2>2, HungReset
    <2>5. Range(b.resets) = Range(a.resets) \cup {x}
      <3>1. b.resets \in Seq(Reset)
        BY <2>1, Parts, Listed
      <3>2. QED BY <1>4, <2>3, <3>1, SplicedRange
    <2>6. Earlier(u, b)
      <3>1. b.rooms = u.rooms /\ b.mobs = u.mobs /\ b.objs = u.objs /\ b.exit = u.exit
        BY <1>1, <1>5, <2>3 DEF Frame
      <3>2. \A y \in Range(b.resets) : b.reset[y] = u.reset[y]
        BY <1>1, <1>7, <2>4, <2>5
      <3>3. Range(b.resets) \subseteq Range(u.resets)
        BY <1>1, <1>6, <2>5
      <3>4. QED BY <2>1, <3>1, <3>2, <3>3 DEF Earlier
    <2>7. Midway(S, u, b, "resets", j, k)
      BY <1>1, <1>3, <1>8, <1>10, <2>1, <2>2, ResetsAhead
    <2>8. ASSUME NEW s \in FileParts PROVE \E i, h \in Nat : Midway(S, u, b, s, i, h)
      <3>1. CASE s = "resets"
        BY <2>7, <3>1
      <3>2. CASE s # "resets"
        <4>1. PICK i, h \in Nat : Midway(S, v, a, s, i, h)
          BY DEF Workable
        <4>2. Midway(S, u, b, s, i, h)
          BY <1>5, <2>3, <3>2, <4>1, OtherSections
        <4>3. QED BY <4>2
      <3>3. QED BY <3>1, <3>2
    <2>9. QED BY <2>6, <2>8 DEF Workable
  <1>11. CASE ~(j < p \/ (p = 0 /\ j = 0 /\ S.section <= 7))
    <2>1. p <= j /\ (p > 0 \/ S.section > 7)
      BY <1>4, <1>6, <1>9, <1>11 DEF Follows
    <2>2. Midway(S, u, a, "resets", j + 1, k)
      BY <1>1, <1>3, <1>8, <2>1, ResetsPassed
    <2>3. Frame(a, a)
      BY DEF Frame
    <2>4. ASSUME NEW s \in FileParts PROVE \E i, h \in Nat : Midway(S, u, a, s, i, h)
      <3>1. CASE s = "resets"
        <4>1. j + 1 \in Nat
          OBVIOUS
        <4>2. QED BY <2>2, <3>1, <4>1
      <3>2. CASE s # "resets"
        <4>1. PICK i, h \in Nat : Midway(S, v, a, s, i, h)
          BY DEF Workable
        <4>2. Midway(S, u, a, s, i, h)
          BY <1>5, <2>3, <3>2, <4>1, OtherSections
        <4>3. QED BY <4>2
      <3>3. QED BY <3>1, <3>2
    <2>5. Earlier(u, a)
      <3>1. a.rooms = u.rooms /\ a.mobs = u.mobs /\ a.objs = u.objs /\ a.exit = u.exit
        BY <1>1, <1>5 DEF Frame
      <3>2. Range(a.resets) \subseteq Range(u.resets) /\ \A y \in Range(a.resets) : a.reset[y] = u.reset[y]
        BY <1>1, <1>6, <1>7
      <3>3. QED BY <1>1, <3>1, <3>2 DEF Earlier
    <2>6. QED BY <2>4, <2>5 DEF Workable
  <1>12. QED BY <1>10, <1>11

LEMMA AtEndHung ==
    ASSUME NEW a, Sound(a), NEW x \in Reset, NEW c, NEW r
    PROVE  Hung(a, AtEnd(a, x, c, r), x, c, Len(a.resets))
  <1> DEFINE b == AtEnd(a, x, c, r)
             s == Append(a.resets, x)
  <1>1. a \in Area /\ a.resets \in Seq(Reset)
    BY Parts, Listed
  <1>2. b.resets = s /\ b.reset = [a.reset EXCEPT ![x] = c] /\ Frame(a, b)
    BY <1>1 DEF AtEnd, Area, Frame
  <1>3. Spliced(a.resets, s, Len(a.resets), x)
    BY <1>1, AppendIs
  <1> HIDE DEF b, s
  <1>4. Hung(a, b, x, c, Len(a.resets))
    BY <1>2, <1>3 DEF Hung
  <1>5. QED BY <1>4 DEF b

LEMMA AfterHung ==
    ASSUME NEW a, Sound(a), NEW x \in Reset, NEW c, NEW r, NEW p \in 1 .. Len(a.resets), NEW m, a.resets[p] = m
    PROVE  Hung(a, After(a, x, c, r, m), x, c, p)
  <1> DEFINE b == After(a, x, c, r, m)
             s == Behind(a.resets, x, m)
  <1>1. a \in Area /\ a.resets \in Lists(Reset)
    BY Parts
  <1>2. b.resets = s /\ b.reset = [a.reset EXCEPT ![x] = c] /\ Frame(a, b)
    BY <1>1 DEF After, Area, Frame
  <1>3. Spliced(a.resets, s, p, x)
    BY <1>1, BehindIs
  <1> HIDE DEF b, s
  <1>4. Hung(a, b, x, c, p)
    BY <1>2, <1>3 DEF Hung
  <1>5. QED BY <1>4 DEF b

LEMMA AtEndMeanwhile ==
    ASSUME NEW S, NEW v, NEW a, Sound(v), Workable(S, v, a), S.section \in 1 .. 8,
           NEW x \in Reset, v.reset[x] = Nil, NEW c \in Command, NEW r \in Room, Names(v, c), Plain(c, r)
    PROVE  \E b : Workable(S, AtEnd(v, x, c, r), b)
  <1> DEFINE u == AtEnd(v, x, c, r)
             b == AtEnd(a, x, c, r)
             p == Len(v.resets)
  <1>1. /\ Sound(a) /\ a.rooms = v.rooms /\ a.mobs = v.mobs /\ a.objs = v.objs /\ a.exit = v.exit
        /\ Range(a.resets) \subseteq Range(v.resets)
    BY DEF Workable, Earlier
  <1>2. Names(a, c)
    BY <1>1 DEF Names, Rooms
  <1>3. a.reset[x] = Nil
    <2>1. {y \in Reset : a.reset[y] # Nil} = Range(a.resets) /\ {y \in Reset : v.reset[y] # Nil} = Range(v.resets)
      BY <1>1, Parts
    <2>2. QED BY <1>1, <2>1
  <1>4. Sound(u) /\ Hung(v, u, x, c, p) /\ Sound(b) /\ Hung(a, b, x, c, Len(a.resets))
    BY <1>1, <1>2, <1>3, AtEndWell, AtEndHung
  <1>5. p \in Nat /\ Len(a.resets) \in Nat
    BY <1>1, Parts, Listed
  <1> HIDE DEF u, b, p
  <1>6. ASSUME NEW j \in Nat, NEW k \in Nat, Tails(v.resets, j, a.resets, k)
        PROVE  \E y : Sound(y) /\ Hung(a, y, x, c, p - j + k)
    <2>1. p - j + k = Len(a.resets)
      BY <1>5, <1>6 DEF Tails, p
    <2>2. QED BY <1>4, <2>1
  <1>7. Follows(v, a, x, c, p)
    BY <1>6 DEF p, Follows
  <1>8. \E y : Workable(S, u, y)
    BY <1>4, <1>7, ResetMeanwhile
  <1>9. QED BY <1>8 DEF u

LEMMA AfterMeanwhile ==
    ASSUME NEW S, NEW v, NEW a, Sound(v), Workable(S, v, a), S.section \in 1 .. 8,
           NEW x \in Reset, v.reset[x] = Nil, NEW o \in Range(v.objs), NEW r \in Room,
           NEW m \in Range(v.listed[r]), v.reset[m].cmd = "M"
    PROVE  \E b : Workable(S, After(v, x, [cmd |-> "E", a |-> o, b |-> Nil], r, m), b)
  <1> DEFINE c == [cmd |-> "E", a |-> o, b |-> Nil]
             u == After(v, x, c, r, m)
             b == After(a, x, c, r, m)
             l == v.resets
             n == a.resets
  <1>1. /\ Sound(a) /\ a.rooms = v.rooms /\ a.mobs = v.mobs /\ a.objs = v.objs /\ a.exit = v.exit
        /\ Range(n) \subseteq Range(l) /\ \A y \in Range(n) : a.reset[y] = v.reset[y]
    BY DEF Workable, Earlier
  <1>2. a.reset[x] = Nil
    <2>1. {y \in Reset : a.reset[y] # Nil} = Range(n) /\ {y \in Reset : v.reset[y] # Nil} = Range(l)
      BY <1>1, Parts
    <2>2. QED BY <1>1, <2>1
  <1>3. l \in Lists(Reset) /\ n \in Lists(Reset) /\ Len(l) \in Nat /\ Len(n) \in Nat
    BY <1>1, Parts, Listed
  <1>4. m \in Range(l) /\ RoomOf(v.reset, l, m) = r
    BY ListedIs
  <1>5. PICK p \in 1 .. Len(l) : l[p] = m
    BY <1>3, <1>4, Listed
  <1>6. Sound(u) /\ Hung(v, u, x, c, p)
    BY <1>5, AfterWell, AfterHung
  <1>7. ASSUME m \in Range(n) PROVE Sound(b)
    <2>1. a.reset[m] = v.reset[m] /\ a.reset[m] \in Command /\ v.reset[m] \in Command
      BY <1>1, <1>4, <1>7, Parts
    <2>2. RoomOf(a.reset, n, m) = a.reset[m].b /\ RoomOf(v.reset, l, m) = v.reset[m].b
      BY <1>3, <1>4, <1>7, <2>1, RoomIs
    <2>3. m \in Range(a.listed[r])
      <3>1. RoomOf(a.reset, n, m) = r
        BY <1>4, <2>1, <2>2
      <3>2. Range(a.listed[r]) = {y \in Range(n) : RoomOf(a.reset, n, y) = r}
        BY <1>1, ListedIs
      <3>3. QED BY <1>7, <3>1, <3>2
    <2>4. QED BY <1>1, <1>2, <2>1, <2>3, AfterWell
  <1> HIDE DEF u, b, c
  <1>8. ASSUME NEW j \in Nat, NEW k \in Nat, Tails(l, j, n, k), j < p
        PROVE  \E y : Sound(y) /\ Hung(a, y, x, c, p - j + k)
    <2>1. /\ j \in 0 .. Len(l) /\ k \in 0 .. Len(n) /\ Len(l) - j = Len(n) - k
          /\ \A i \in 1 .. Len(l) - j : l[j + i] = n[k + i]
      BY <1>8 DEF Tails
    <2>2. p - j \in 1 .. Len(l) - j /\ j + (p - j) = p /\ k + (p - j) = p - j + k /\ p - j + k \in 1 .. Len(n)
      BY <1>3, <1>8, <2>1
    <2>3. n[p - j + k] = m
      BY <1>5, <2>1, <2>2
    <2>4. m \in Range(n)
      BY <1>3, <2>2, <2>3, Listed
    <2>5. Hung(a, b, x, c, p - j + k)
      BY <1>1, <2>2, <2>3, AfterHung DEF b
    <2>6. QED BY <1>7, <2>4, <2>5
  <1>9. p # 0 /\ p > 0
    BY <1>3
  <1>10. Follows(v, a, x, c, p)
    BY <1>8, <1>9 DEF Follows
  <1>11. \E y : Workable(S, u, y)
    BY <1>6, <1>10, ResetMeanwhile
  <1>12. QED BY <1>11 DEF u, c

\* Something else is said of x.
Retext(a, x, y) == [a EXCEPT !.text[x] = y]

Things == Room \cup Mob \cup Obj

LEMMA RetextIs ==
    ASSUME NEW a, Sound(a), NEW x \in Things, NEW y \in Text \cup {Nil}
    PROVE  /\ Sound(Retext(a, x, y))
           /\ \A s \in FileParts : Written(s, Retext(a, x, y)) = Written(s, a)
           /\ Retext(a, x, y).exit = a.exit /\ Retext(a, x, y).reset = a.reset
           /\ Retext(a, x, y).rooms = a.rooms /\ Retext(a, x, y).mobs = a.mobs
           /\ Retext(a, x, y).objs = a.objs /\ Retext(a, x, y).resets = a.resets
           /\ \A z \in Things : Retext(a, x, y).text[z] = IF z = x THEN y ELSE a.text[z]
  <1> DEFINE t == [a.text EXCEPT ![x] = y]
             b == [a EXCEPT !.text = t]
  <1>1. a \in Area /\ a.text \in [Things -> Text \cup {Nil}]
    BY Parts DEF Things
  <1>2. t \in [Things -> Text \cup {Nil}] /\ \A z \in Things : t[z] = IF z = x THEN y ELSE a.text[z]
    BY <1>1
  <1>3. Retext(a, x, y) = b
    BY <1>1 DEF Retext, Area
  <1> HIDE DEF t
  <1>4. Sound(b)
    BY <1>2, Retold DEF Things
  <1>5. /\ b.text = t /\ b.exit = a.exit /\ b.reset = a.reset
        /\ b.rooms = a.rooms /\ b.mobs = a.mobs /\ b.objs = a.objs /\ b.resets = a.resets
    BY <1>1 DEF Area
  <1> HIDE DEF b
  <1>6. \A s \in FileParts : Written(s, b) = Written(s, a)
    BY <1>5, WrittenAre DEF FileParts
  <1>7. QED BY <1>2, <1>3, <1>4, <1>5, <1>6

\* What is written of a thing.
LEMMA ItemsAre ==
    ASSUME NEW s \in FileParts \ {"resets"}, NEW a, NEW b, a.exit = b.exit, NEW x
    PROVE  Item(s, a, x) = Item(s, b, x) <=> a.text[x] = b.text[x]
  <1> DEFINE e == [d \in Dir |-> ExitItem(a.exit[x][d])]
  <1>1. Item("rooms", a, x) = [vnum |-> x, text |-> a.text[x], exit |-> e]
        /\ Item("rooms", b, x) = [vnum |-> x, text |-> b.text[x], exit |-> e]
    <2>1. e = [d \in Dir |-> ExitItem(b.exit[x][d])]
      OBVIOUS
    <2>2. RoomItem(a, x) = [vnum |-> x, text |-> a.text[x], exit |-> e]
      BY DEF RoomItem
    <2>3. RoomItem(b, x) = [vnum |-> x, text |-> b.text[x], exit |-> e]
      BY <2>1 DEF RoomItem
    <2>4. QED BY <2>2, <2>3, WrittenAre
  <1> HIDE DEF e
  <1>2. Item("mobiles", a, x) = [vnum |-> x, text |-> a.text[x]] /\ Item("mobiles", b, x) = [vnum |-> x, text |-> b.text[x]]
    BY WrittenAre DEF MobItem
  <1>3. Item("objects", a, x) = [vnum |-> x, text |-> a.text[x]] /\ Item("objects", b, x) = [vnum |-> x, text |-> b.text[x]]
    BY WrittenAre DEF ObjectItem
  <1>4. CASE s = "rooms"
    BY <1>1, <1>4
  <1>5. CASE s = "mobiles"
    BY <1>2, <1>5
  <1>6. CASE s = "objects"
    BY <1>3, <1>6
  <1>7. QED BY <1>4, <1>5, <1>6 DEF FileParts

\* A thing has one place in the file.
LEMMA OnePlace ==
    ASSUME NEW a, Sound(a), NEW s \in FileParts \ {"resets"}, NEW i \in 1 .. Len(Written(s, a)),
           NEW r \in FileParts \ {"resets"}, NEW j \in 1 .. Len(Written(r, a))
    PROVE  Written(s, a)[i] \in Things /\ (Written(s, a)[i] = Written(r, a)[j] => s = r /\ i = j)
  <1> DEFINE Kind(q) == IF q = "rooms" THEN Room ELSE IF q = "mobiles" THEN Mob ELSE Obj
  <1>1. ASSUME NEW q \in FileParts \ {"resets"} PROVE Written(q, a) \in Lists(Kind(q)) /\ Kind(q) \subseteq Things
    BY Parts, WrittenAre DEF FileParts, Things
  <1>2. \A q, p \in FileParts \ {"resets"} : q # p => Kind(q) \cap Kind(p) = {}
    BY BuildingAssumption DEF FileParts
  <1> HIDE DEF Kind
  <1>3. Written(s, a)[i] \in Kind(s) /\ Written(r, a)[j] \in Kind(r)
    BY <1>1, Listed
  <1>4. ASSUME Written(s, a)[i] = Written(r, a)[j] PROVE s = r /\ i = j
    <2>1. s = r
      BY <1>2, <1>3, <1>4
    <2>2. i \in 1 .. Len(Written(s, a)) /\ j \in 1 .. Len(Written(s, a)) /\ Written(s, a)[i] = Written(s, a)[j]
      BY <1>4, <2>1
    <2>3. i = j
      BY <1>1, <2>2, Listed
    <2>4. QED BY <2>1, <2>3
  <1>5. QED BY <1>1, <1>3, <1>4

LEMMA MidwayRetold ==
    ASSUME NEW S, NEW v, NEW a, NEW u, NEW b, NEW s \in FileParts, NEW j \in Nat, NEW k \in Nat, Midway(S, v, a, s, j, k),
           Written(s, u) = Written(s, v), Written(s, b) = Written(s, a), Len(Written(s, a)) \in Nat,
           \A i \in 1 .. Len(Written(s, a)) : i <= k => Item(s, b, Written(s, a)[i]) = Item(s, a, Written(s, a)[i]),
           \A i \in 1 .. Len(Written(s, a)) : i > k => Item(s, b, Written(s, a)[i]) = Item(s, u, Written(s, a)[i])
    PROVE  Midway(S, u, b, s, j, k)
  <1> DEFINE n == Written(s, a)
  <1>1. k \in 0 .. Len(n) /\ S.new[s] = [i \in 1 .. k |-> Item(s, a, n[i])]
    BY DEF Midway, Tails
  <1>2. \A i \in 1 .. k : Item(s, a, n[i]) = Item(s, b, n[i])
    BY <1>1
  <1>3. S.new[s] = [i \in 1 .. k |-> Item(s, b, n[i])]
    BY <1>1, <1>2
  <1>4. QED BY <1>3 DEF Midway

LEMMA TextMeanwhile ==
    ASSUME NEW S, NEW v, NEW a, Sound(v), Workable(S, v, a), NEW x \in Things, NEW y \in Text \cup {Nil}
    PROVE  \E b : Workable(S, Retext(v, x, y), b)
  <1> DEFINE J(s) == CHOOSE j \in Nat : \E k \in Nat : Midway(S, v, a, s, j, k)
             K(s) == CHOOSE k \in Nat : Midway(S, v, a, s, J(s), k)
             u == Retext(v, x, y)
             b == Retext(a, x, y)
             W(s) == Written(s, a)
             done == \E s \in FileParts \ {"resets"} : \E i \in 1 .. Len(W(s)) : i <= K(s) /\ W(s)[i] = x
  <1>1. /\ Sound(a) /\ a.rooms = v.rooms /\ a.mobs = v.mobs /\ a.objs = v.objs /\ a.exit = v.exit
        /\ Range(a.resets) \subseteq Range(v.resets) /\ \A z \in Range(a.resets) : a.reset[z] = v.reset[z]
    BY DEF Workable, Earlier
  <1>2. ASSUME NEW s \in FileParts PROVE J(s) \in Nat /\ K(s) \in Nat /\ Midway(S, v, a, s, J(s), K(s))
    <2>1. \E j, k \in Nat : Midway(S, v, a, s, j, k)
      BY DEF Workable
    <2>2. J(s) \in Nat /\ \E k \in Nat : Midway(S, v, a, s, J(s), k)
      BY <2>1
    <2> HIDE DEF J
    <2>3. QED BY <2>2
  <1> HIDE DEF J, K
  <1>3. /\ Sound(u) /\ u.exit = v.exit /\ u.reset = v.reset /\ u.rooms = v.rooms /\ u.mobs = v.mobs /\ u.objs = v.objs
        /\ u.resets = v.resets /\ (\A s \in FileParts : Written(s, u) = Written(s, v))
        /\ \A z \in Things : u.text[z] = IF z = x THEN y ELSE v.text[z]
    BY RetextIs
  <1>4. /\ Sound(b) /\ b.exit = a.exit /\ b.reset = a.reset /\ b.rooms = a.rooms /\ b.mobs = a.mobs /\ b.objs = a.objs
        /\ b.resets = a.resets /\ (\A s \in FileParts : Written(s, b) = W(s))
        /\ \A z \in Things : b.text[z] = IF z = x THEN y ELSE a.text[z]
    BY <1>1, RetextIs
  <1> HIDE DEF u, b
  <1>5. \A s \in FileParts : Len(W(s)) \in Nat
    BY <1>1, WrittenLists, Listed
  <1>6. \A s \in FileParts : \A i \in 1 .. Len(W(s)) : i > K(s) => Item(s, a, W(s)[i]) = Item(s, v, W(s)[i])
    BY <1>2 DEF Midway
  <1> HIDE DEF W
  <1>7. \A s \in FileParts \ {"resets"} : \A i \in 1 .. Len(W(s)) :
            W(s)[i] \in Things /\ \A r \in FileParts \ {"resets"} : \A j \in 1 .. Len(W(r)) : W(s)[i] = W(r)[j] => s = r /\ i = j
    BY <1>1, OnePlace DEF W
  <1>8. ASSUME NEW h \in 1 .. Len(W("resets")) PROVE W("resets")[h] \in Range(a.resets)
    <2>1. W("resets") = a.resets /\ a.resets \in Lists(Reset)
      BY <1>1, WrittenAre, Parts DEF W
    <2>2. QED BY <2>1, Listed
  <1>9. \A c, z : Item("resets", c, z) = c.reset[z]
    BY WrittenAre
  <1>10. CASE done
    <2>1. PICK r \in FileParts \ {"resets"} : \E i \in 1 .. Len(W(r)) : i <= K(r) /\ W(r)[i] = x
      BY <1>10
    <2>2. PICK h \in 1 .. Len(W(r)) : h <= K(r) /\ W(r)[h] = x
      BY <2>1
    <2>3. ASSUME NEW s \in FileParts, NEW i \in 1 .. Len(W(s)), i > K(s) PROVE Item(s, a, W(s)[i]) = Item(s, u, W(s)[i])
      <3>1. CASE s = "resets"
        BY <1>1, <1>3, <1>8, <1>9, <3>1
      <3>2. CASE s # "resets"
        <4>1. W(s)[i] # x
          <5>1. ASSUME W(s)[i] = x PROVE FALSE
            <6>1. s = r /\ i = h
              BY <1>7, <2>2, <3>2, <5>1
            <6>2. QED BY <1>2, <1>5, <2>2, <2>3, <6>1
          <5>2. QED BY <5>1
        <4>2. W(s)[i] \in Things
          BY <1>7, <3>2
        <4>3. u.text[W(s)[i]] = v.text[W(s)[i]]
          BY <1>3, <4>1, <4>2
        <4>4. s \in FileParts \ {"resets"} /\ u.exit = v.exit
          BY <1>3, <3>2
        <4>5. \A z : Item(s, u, z) = Item(s, v, z) <=> u.text[z] = v.text[z]
          BY <4>4, ItemsAre
        <4>6. Item(s, u, W(s)[i]) = Item(s, v, W(s)[i])
          BY <4>3, <4>5
        <4>7. QED BY <1>6, <2>3, <4>6
      <3>3. QED BY <3>1, <3>2
    <2>4. ASSUME NEW s \in FileParts PROVE Midway(S, u, a, s, J(s), K(s))
      BY <1>2, <1>3, <1>5, <2>3, MidwayRetold DEF W
    <2>5. \A s \in FileParts : \E j, k \in Nat : Midway(S, u, a, s, j, k)
      BY <1>2, <2>4
    <2>6. Earlier(u, a)
      BY <1>1, <1>3 DEF Earlier
    <2>7. QED BY <2>5, <2>6 DEF Workable, u
  <1>11. CASE ~done
    <2>1. ASSUME NEW s \in FileParts, NEW i \in 1 .. Len(W(s)), i <= K(s) PROVE Item(s, b, W(s)[i]) = Item(s, a, W(s)[i])
      <3>1. CASE s = "resets"
        BY <1>4, <1>9, <3>1
      <3>2. CASE s # "resets"
        <4>1. W(s)[i] # x /\ W(s)[i] \in Things
          BY <1>7, <1>11, <2>1, <3>2
        <4>2. b.text[W(s)[i]] = a.text[W(s)[i]]
          BY <1>4, <4>1
        <4>3. s \in FileParts \ {"resets"} /\ b.exit = a.exit
          BY <1>4, <3>2
        <4>4. \A z : Item(s, b, z) = Item(s, a, z) <=> b.text[z] = a.text[z]
          BY <4>3, ItemsAre
        <4>5. QED BY <4>2, <4>4
      <3>3. QED BY <3>1, <3>2
    <2>2. ASSUME NEW s \in FileParts, NEW i \in 1 .. Len(W(s)), i > K(s) PROVE Item(s, b, W(s)[i]) = Item(s, u, W(s)[i])
      <3>1. CASE s = "resets"
        BY <1>1, <1>3, <1>4, <1>8, <1>9, <3>1
      <3>2. CASE s # "resets"
        <4>1. W(s)[i] \in Things /\ Item(s, a, W(s)[i]) = Item(s, v, W(s)[i])
          BY <1>6, <1>7, <2>2, <3>2
        <4>2. a.text[W(s)[i]] = v.text[W(s)[i]]
          BY <1>1, <3>2, <4>1, ItemsAre
        <4>3. b.text[W(s)[i]] = u.text[W(s)[i]]
          BY <1>3, <1>4, <4>1, <4>2
        <4>4. b.exit = u.exit
          BY <1>1, <1>3, <1>4
        <4>5. s \in FileParts \ {"resets"}
          BY <3>2
        <4>6. \A z : Item(s, b, z) = Item(s, u, z) <=> b.text[z] = u.text[z]
          BY <4>4, <4>5, ItemsAre
        <4>7. QED BY <4>3, <4>6
      <3>3. QED BY <3>1, <3>2
    <2>3. ASSUME NEW s \in FileParts PROVE Midway(S, u, b, s, J(s), K(s))
      BY <1>2, <1>3, <1>4, <1>5, <2>1, <2>2, MidwayRetold DEF W
    <2>4. \A s \in FileParts : \E j, k \in Nat : Midway(S, u, b, s, j, k)
      BY <1>2, <2>3
    <2>5. Earlier(u, b)
      BY <1>1, <1>3, <1>4 DEF Earlier
    <2>6. QED BY <2>4, <2>5 DEF Workable, u
  <1>12. QED BY <1>10, <1>11

\* What is under way, and what may have been changed since.
LEMMA UnderWay ==
    ASSUME NEW S, NEW v, NEW m, Saves(S, v, m), S.phase = "am"
    PROVE  S.section \in 1 .. 8 /\ \E a : Workable(S, v, a)
  BY DEF Saves, Makings, Workable

SameSave(S, T) ==
    /\ DOMAIN T = SaveFields /\ T.waiting = S.waiting /\ T.phase = S.phase /\ T.section = S.section /\ T.at = S.at
    /\ T.loops = S.loops /\ T.new = S.new /\ T.disk = S.disk

LEMMA SaveChanged ==
    ASSUME NEW S, NEW v, NEW m, Saves(S, v, m), NEW T, NEW u, NEW n, SameSave(S, T), T.unflagged \in BOOLEAN, ~Quiet(T, n),
           S.phase = "am" => \E b : Workable(S, u, b)
    PROVE  Saves(T, u, n)
  <1>1. SavesType(T) /\ GoodFile(T.disk) /\ (T.phase = "start" => T.waiting # <<>>)
    BY DEF Saves, SavesType, SameSave
  <1>2. ASSUME T.phase = "am"
        PROVE  T.section \in 1 .. 8 /\ (Sections[T.section] \notin FileParts => T.at = Nil) /\ \E a : Makings(T, u, n, a)
    <2>1. PICK b : Workable(S, u, b)
      BY <1>2 DEF SameSave
    <2>2. ASSUME NEW s \in FileParts PROVE \E j, k \in Nat : Midway(T, u, b, s, j, k)
      <3>1. PICK j, k \in Nat : Midway(S, u, b, s, j, k)
        BY <2>1 DEF Workable
      <3>2. Midway(T, u, b, s, j, k)
        BY <3>1 DEF Midway, SameSave
      <3>3. QED BY <3>2
    <2>3. Makings(T, u, n, b)
      BY <2>1, <2>2 DEF Makings, Workable
    <2>4. QED BY <1>2, <2>3 DEF Saves, SameSave
  <1>3. QED BY <1>1, <1>2 DEF Saves

LEMMA SavingIs ==
    /\ DOMAIN Saving = SaveFields /\ Saving.waiting = save.waiting /\ Saving.phase = save.phase
    /\ Saving.section = save.section /\ Saving.at = save.at /\ Saving.loops = save.loops /\ Saving.new = save.new
    /\ Saving.disk = disk /\ Saving.unflagged = unflagged
  BY DEF Saving, SaveFields

\* A change that is flagged,
LEMMA FlaggedSaves ==
    ASSUME Saves(Saving, w, modified), modified' = TRUE, UNCHANGED <<unflagged, save, disk>>,
           save.phase = "am" => \E b : Workable(Saving, w', b)
    PROVE  Saves(Saving', w', modified')
  <1>1. Saving' = Saving
    BY DEF Saving
  <1>2. SameSave(Saving, Saving') /\ Saving'.unflagged \in BOOLEAN
    BY <1>1 DEF Saves, SavesType, SameSave
  <1>3. ~Quiet(Saving', modified')
    BY DEF Quiet
  <1>4. Saving.phase = "am" => \E b : Workable(Saving, w', b)
    BY SavingIs
  <1>5. QED BY <1>2, <1>3, <1>4, SaveChanged

\* and one that is not.
LEMMA UnflaggedSaves ==
    ASSUME Saves(Saving, w, modified), unflagged' = TRUE, UNCHANGED <<modified, save, disk>>,
           save.phase = "am" => \E b : Workable(Saving, w', b)
    PROVE  Saves(Saving', w', modified')
  <1>1. /\ DOMAIN Saving' = SaveFields /\ Saving'.waiting = save.waiting /\ Saving'.phase = save.phase
        /\ Saving'.section = save.section /\ Saving'.at = save.at /\ Saving'.loops = save.loops /\ Saving'.new = save.new
        /\ Saving'.disk = disk /\ Saving'.unflagged = TRUE
    BY DEF Saving, SaveFields
  <1>2. SameSave(Saving, Saving')
    BY <1>1, SavingIs DEF SameSave
  <1>3. ~Quiet(Saving', modified') /\ Saving'.unflagged \in BOOLEAN
    BY <1>1 DEF Quiet
  <1>4. Saving.phase = "am" => \E b : Workable(Saving, w', b)
    BY SavingIs
  <1>5. QED BY <1>2, <1>3, <1>4, SaveChanged

\* Nothing that the save reads is changed.
LEMMA SameSaves ==
    ASSUME Saves(Saving, w, modified), UNCHANGED <<w, modified, unflagged, save, disk>>
    PROVE  Saves(Saving', w', modified')
  <1>1. Saving' = Saving
    BY DEF Saving
  <1>2. QED BY <1>1

\* What a save makes of all this, field by field.
LEMMA SameFields ==
    ASSUME NEW S, NEW v, NEW m, Saves(S, v, m), NEW T, SameSave(S, T), T.unflagged = S.unflagged
    PROVE  Saves(T, v, m)
  <1>1. SavesType(T) /\ GoodFile(T.disk) /\ (T.phase = "start" => T.waiting # <<>>)
    BY DEF Saves, SavesType, SameSave
  <1>2. Quiet(T, m) <=> Quiet(S, m)
    BY DEF Quiet, SameSave
  <1>3. ASSUME T.phase = "am"
        PROVE  T.section \in 1 .. 8 /\ (Sections[T.section] \notin FileParts => T.at = Nil) /\ \E a : Makings(T, v, m, a)
    <2>1. PICK a : Makings(S, v, m, a)
      BY <1>3 DEF Saves, SameSave
    <2>2. ASSUME NEW s \in FileParts PROVE \E j, k \in Nat : Midway(T, v, a, s, j, k)
      <3>1. PICK j, k \in Nat : Midway(S, v, a, s, j, k)
        BY <2>1 DEF Makings
      <3>2. Midway(T, v, a, s, j, k)
        BY <3>1 DEF Midway, SameSave
      <3>3. QED BY <3>2
    <2>3. Makings(T, v, m, a)
      BY <1>2, <2>1, <2>2 DEF Makings
    <2>4. QED BY <1>3, <2>3 DEF Saves, SameSave
  <1>4. T.phase = "not" /\ Quiet(T, m) => T.disk = FileOf(v)
    BY <1>2 DEF Saves, SameSave
  <1>5. QED BY <1>1, <1>3, <1>4 DEF Saves

LEMMA SavedWell ==
    ASSUME NEW S, NEW v, NEW m, Saves(S, v, m), Saved(S)
    PROVE  Saves(Saving', v, m)
  <1>1. /\ DOMAIN Saving' = SaveFields /\ Saving'.waiting = S.waiting /\ Saving'.phase = S.phase
        /\ Saving'.section = S.section /\ Saving'.at = S.at /\ Saving'.loops = S.loops /\ Saving'.new = S.new
        /\ Saving'.disk = S.disk /\ Saving'.unflagged = S.unflagged
    BY DEF Saving, SaveFields, Saved
  <1>2. SameSave(S, Saving')
    BY <1>1 DEF SameSave
  <1>3. QED BY <1>1, <1>2, SameFields

LEMMA Queued ==
    ASSUME NEW T, NEW q \in Seq(T), NEW x \in T
    PROVE  Append(q, x) \in Seq(T) /\ Len(Append(q, x)) = Len(q) + 1 /\ Append(q, x) # <<>>
  <1>1. Append(q, x) \in Seq(T) /\ Len(Append(q, x)) = Len(q) + 1 /\ Len(q) \in Nat
    OBVIOUS
  <1>2. Len(<<>>) = 0 /\ Len(q) + 1 # 0
    BY <1>1
  <1>3. QED BY <1>1, <1>2

\* Somebody asks for a save.
LEMMA SaveAreaWell ==
    ASSUME Sound(w), NEW S, NEW m, Saves(S, w, m), NEW loops \in Nat, NEW n
    PROVE  Saves(do_savearea(S, loops), w, n)
  <1>1. SavesType(S) /\ S.waiting \in Seq(Nat) /\ Len(S.waiting) \in Nat
    BY DEF Saves, SavesType
  <1>2. QueueSize \in Nat /\ QueueSize > 1
    BY BuildingAssumption
  <1>3. S.phase = "am" => \E a : Workable(S, w, a)
    BY UnderWay
  <1>4. CASE Len(S.waiting) >= QueueSize - 1
    <2>1. S.waiting # <<>>
      <3>1. Len(S.waiting) > 0
        BY <1>1, <1>2, <1>4
      <3>2. QED BY <3>1
    <2>2. ~Quiet(S, n)
      BY <2>1 DEF Quiet
    <2>3. SameSave(S, S) /\ S.unflagged \in BOOLEAN
      BY <1>1 DEF SameSave, SavesType
    <2>4. Saves(S, w, n)
      BY <1>3, <2>2, <2>3, SaveChanged
    <2>5. QED BY <1>4, <2>4 DEF do_savearea
  <1>5. CASE ~(Len(S.waiting) >= QueueSize - 1)
    <2> DEFINE q == Append(S.waiting, loops)
               h == IF S.phase = "not" THEN "start" ELSE S.phase
               T == [S EXCEPT !.waiting = q, !.phase = h]
    <2>1. q \in Seq(Nat) /\ Len(q) = Len(S.waiting) + 1 /\ q # <<>>
      BY <1>1, Queued
    <2>2. Len(q) < QueueSize
      BY <1>1, <1>2, <1>5, <2>1
    <2>3. h \in {"start", "am"} /\ (h = "am" => S.phase = "am")
      BY <1>1 DEF SavesType
    <2> HIDE DEF q, h
    <2>4. /\ DOMAIN T = SaveFields /\ T.waiting = q /\ T.phase = h /\ T.section = S.section /\ T.at = S.at
          /\ T.loops = S.loops /\ T.new = S.new /\ T.disk = S.disk /\ T.unflagged = S.unflagged
      BY <1>1 DEF SavesType, SaveFields
    <2>5. do_savearea(S, loops) = build_save(T)
      BY <1>5 DEF do_savearea, q, h
    <2> HIDE DEF T
    <2>6. SavesType(T)
      BY <1>1, <2>1, <2>2, <2>3, <2>4 DEF SavesType
    <2>7. ~Quiet(T, n)
      BY <2>1, <2>4 DEF Quiet
    <2>8. ASSUME T.phase = "am"
          PROVE  T.section \in 1 .. 8 /\ (Sections[T.section] \notin FileParts => T.at = Nil) /\ \E a : Makings(T, w, n, a)
      <3>1. S.phase = "am"
        BY <2>3, <2>4, <2>8
      <3>2. PICK b : Workable(S, w, b)
        BY <1>3, <3>1
      <3>3. ASSUME NEW s \in FileParts PROVE \E j, k \in Nat : Midway(T, w, b, s, j, k)
        <4>1. PICK j, k \in Nat : Midway(S, w, b, s, j, k)
          BY <3>2 DEF Workable
        <4>2. Midway(T, w, b, s, j, k)
          BY <2>4, <4>1 DEF Midway
        <4>3. QED BY <4>2
      <3>4. Makings(T, w, n, b)
        BY <2>7, <3>2, <3>3 DEF Makings, Workable
      <3>5. QED BY <2>4, <3>1, <3>4 DEF Saves
    <2>9. Saves(T, w, n)
      BY <2>1, <2>3, <2>4, <2>6, <2>7, <2>8 DEF Saves
    <2>10. QED BY <2>5, <2>9, BuildSaveWell
  <1>6. QED BY <1>4, <1>5

-----------------------------------------------------------------------------
(* The invariant *)

Asking ==
    /\ asked \in [Kinds -> Room \cup Obj \cup Mob \cup {Nil}]
    /\ asked["room"] \in (Room \ {Home}) \cup {Nil} /\ asked["obj"] \in Obj \cup {Nil} /\ asked["mob"] \in Mob \cup {Nil}

IInv == Built /\ Asking /\ modified \in BOOLEAN /\ Saves(Saving, w, modified)

\* What the commands of the builders have to show.
Changed == (save.phase = "am" => \E b : Workable(Saving, w', b)) /\ Kept

LEMMA ChangeKeeps ==
    ASSUME IInv, Changed, UNCHANGED <<at, asked>>, NEW a, Flagged(a) \/ Unflagged(a)
    PROVE  IInv'
  <1>1. Built' /\ Asking'
    BY DEF IInv, Changed, Kept, Built, Asking
  <1>2. CASE Flagged(a)
    <2>1. modified' = TRUE /\ UNCHANGED <<unflagged, save, disk>>
      BY <1>2 DEF Flagged
    <2>2. Saves(Saving', w', modified')
      BY <2>1, FlaggedSaves DEF IInv, Changed
    <2>3. modified' \in BOOLEAN
      BY <2>1
    <2>4. QED BY <1>1, <2>2, <2>3 DEF IInv
  <1>3. CASE Unflagged(a)
    <2>1. unflagged' = TRUE /\ UNCHANGED <<modified, save, disk>>
      BY <1>3 DEF Unflagged
    <2>2. Saves(Saving', w', modified')
      BY <2>1, UnflaggedSaves DEF IInv, Changed
    <2>3. modified' \in BOOLEAN
      BY <2>1 DEF IInv
    <2>4. QED BY <1>1, <2>2, <2>3 DEF IInv
  <1>4. QED BY <1>2, <1>3

\* Rooms, exits and doors.
LEMMA ExitsChange ==
    ASSUME IInv, NEW b \in Builder, NEW d \in Dir, NEW v \in Room, NEW door \in BOOLEAN, NEW onesided \in BOOLEAN,
           \/ build_dig(b, d, v, onesided) \/ DoorTo(b, d, v, onesided) \/ DoorClear(b, d, onesided)
           \/ DoorType(b, d, door, onesided) \/ DoorMade(b, d)
    PROVE  IInv'
  <1>1. Built
    BY DEF IInv
  <1>2. CASE build_dig(b, d, v, onesided)
    <2>1. Kept
      BY <1>1, <1>2, DigKeeps
    <2>2. Changed /\ UNCHANGED <<at, asked>>
      BY <1>2, <2>1 DEF build_dig, NotWriting, Changed
    <2>3. \E a : Unflagged(a)
      BY <1>2 DEF build_dig
    <2>4. QED BY <2>2, <2>3, ChangeKeeps
  <1>3. CASE DoorTo(b, d, v, onesided)
    <2>1. Kept
      BY <1>1, <1>3, DoorToKeeps
    <2>2. Changed /\ UNCHANGED <<at, asked>>
      BY <1>3, <2>1 DEF DoorTo, NotWriting, Changed
    <2>3. \E a : Flagged(a)
      BY <1>3 DEF DoorTo
    <2>4. QED BY <2>2, <2>3, ChangeKeeps
  <1>4. CASE DoorClear(b, d, onesided)
    <2>1. Kept
      BY <1>1, <1>4, DoorClearKeeps
    <2>2. Changed /\ UNCHANGED <<at, asked>>
      BY <1>4, <2>1 DEF DoorClear, NotWriting, Changed
    <2>3. \E a : Flagged(a)
      BY <1>4 DEF DoorClear
    <2>4. QED BY <2>2, <2>3, ChangeKeeps
  <1>5. CASE DoorType(b, d, door, onesided)
    <2>1. Kept
      BY <1>1, <1>5, DoorTypeKeeps
    <2>2. Changed /\ UNCHANGED <<at, asked>>
      BY <1>5, <2>1 DEF DoorType, NotWriting, Changed
    <2>3. \E a : Flagged(a)
      BY <1>5 DEF DoorType
    <2>4. QED BY <2>2, <2>3, ChangeKeeps
  <1>6. CASE DoorMade(b, d)
    <2>1. Kept
      BY <1>1, <1>6, DoorMadeKeeps
    <2>2. Changed /\ UNCHANGED <<at, asked>>
      BY <1>6, <2>1 DEF DoorMade, NotWriting, Changed
    <2>3. \E a : Flagged(a)
      BY <1>6 DEF DoorMade
    <2>4. QED BY <2>2, <2>3, ChangeKeeps
  <1>7. QED BY <1>2, <1>3, <1>4, <1>5, <1>6

LEMMA WalkKeeps ==
    ASSUME IInv, NEW b \in Builder, NEW d \in Dir, Walk(b, d)
    PROVE  IInv'
  <1> DEFINE x == w.exit[at[b]][d]
  <1>1. Careful /\ Sound(w) /\ at \in [Builder -> Rooms(w)] /\ at[b] \in Rooms(w) /\ Leads(w)
    BY Parts DEF IInv, Built
  <1>2. x # Nil /\ x.to # Nil /\ at' = [at EXCEPT ![b] = x.to] /\ UNCHANGED <<w, asked, modified, unflagged, save, disk>>
    BY DEF Walk
  <1>3. x.to \in Rooms(w)
    BY <1>1, <1>2 DEF Leads
  <1> HIDE DEF x
  <1>4. Built'
    BY <1>1, <1>2, <1>3 DEF Built
  <1>5. Saves(Saving', w', modified')
    BY <1>2, SameSaves DEF IInv
  <1>6. QED BY <1>2, <1>4, <1>5 DEF IInv, Asking

\* New things.
LEMMA NewKeeps ==
    ASSUME IInv, NEW b \in Builder, NEW v, (v \in Mob /\ build_addmob(b, v)) \/ (v \in Obj /\ build_addobject(b, v))
    PROVE  IInv'
  <1> DEFINE t == [w.text EXCEPT ![v] = New]
  <1>1. Sound(w) /\ w \in Area
    BY Parts DEF IInv, Built
  <1>2. t \in [Room \cup Mob \cup Obj -> Text \cup {Nil}]
    BY <1>1, TextTyped, BuildingAssumption
  <1>3. CASE v \in Mob /\ build_addmob(b, v)
    <2> DEFINE a == [w EXCEPT !.mobs = Append(@, v), !.text[v] = New]
    <2>1. v \in Mob \ Range(w.mobs) /\ Unflagged(a) /\ save.phase # "am" /\ UNCHANGED <<at, asked>>
      BY <1>3, VnumsAre DEF build_addmob, NotWriting
    <2>2. a = [w EXCEPT !.mobs = Append(@, v), !.text = t] /\ a.rooms = w.rooms
      BY <1>1 DEF Area
    <2> HIDE DEF t
    <2>3. Sound(a)
      BY <1>1, <1>2, <2>1, <2>2, MobAdded
    <2> HIDE DEF a
    <2>4. Changed
      BY <2>1, <2>2, <2>3 DEF Changed, Kept, Unflagged, Rooms
    <2>5. QED BY <2>1, <2>4, ChangeKeeps
  <1>4. CASE v \in Obj /\ build_addobject(b, v)
    <2> DEFINE a == [w EXCEPT !.objs = Append(@, v), !.text[v] = New]
    <2>1. v \in Obj \ Range(w.objs) /\ Unflagged(a) /\ save.phase # "am" /\ UNCHANGED <<at, asked>>
      BY <1>4, VnumsAre DEF build_addobject, NotWriting
    <2>2. a = [w EXCEPT !.objs = Append(@, v), !.text = t] /\ a.rooms = w.rooms
      BY <1>1 DEF Area
    <2> HIDE DEF t
    <2>3. Sound(a)
      BY <1>1, <1>2, <2>1, <2>2, ObjectAdded
    <2> HIDE DEF a
    <2>4. Changed
      BY <2>1, <2>2, <2>3 DEF Changed, Kept, Unflagged, Rooms
    <2>5. QED BY <2>1, <2>4, ChangeKeeps
  <1>5. QED BY <1>3, <1>4

\* What is said of things, also while the area is being written.
LEMMA TextKeeps ==
    ASSUME IInv, NEW x \in Things, NEW y \in Text \cup {Nil}, NEW a, a = Retext(w, x, y),
           Flagged(a) \/ Unflagged(a), UNCHANGED <<at, asked>>
    PROVE  IInv'
  <1>1. Sound(w) /\ Saves(Saving, w, modified) /\ w' = a
    BY DEF IInv, Built, Flagged, Unflagged
  <1>2. Kept
    BY <1>1, RetextIs DEF Kept, Rooms
  <1>3. ASSUME save.phase = "am" PROVE \E b : Workable(Saving, w', b)
    <2>1. Saving.phase = "am"
      BY <1>3, SavingIs
    <2>2. PICK b : Workable(Saving, w, b)
      BY <1>1, <2>1, UnderWay
    <2>3. \E c : Workable(Saving, Retext(w, x, y), c)
      BY <1>1, <2>2, TextMeanwhile
    <2>4. QED BY <1>1, <2>3
  <1>4. Changed
    BY <1>2, <1>3 DEF Changed
  <1>5. QED BY <1>4, ChangeKeeps

LEMMA TextsKeep ==
    ASSUME IInv, NEW b \in Builder,
           \/ \E t \in Text : build_setroom(b, t)
           \/ \E t \in Text, v \in Mob : build_setmob(b, v, t)
           \/ \E t \in Text, v \in Obj : build_setobject(b, v, t)
           \/ \E y \in Room : CloneRoom(b, y)
           \/ \E x, y \in Obj : CloneObject(b, x, y)
           \/ \E x, y \in Mob : CloneMob(b, x, y)
    PROVE  IInv'
  <1>1. at[b] \in Things
    BY Here DEF IInv, Things
  <1>2. w.text \in [Things -> Text \cup {Nil}]
    BY Parts DEF IInv, Built, Things
  <1>3. ASSUME NEW x \in Things, NEW t \in Text, Flagged([w EXCEPT !.text[x] = t]), UNCHANGED <<at, asked>> PROVE IInv'
    <2> DEFINE a == [w EXCEPT !.text[x] = t]
    <2>1. a = Retext(w, x, t) /\ t \in Text \cup {Nil}
      BY DEF Retext
    <2>2. Flagged(a)
      BY <1>3
    <2> HIDE DEF a
    <2>3. QED BY <1>3, <2>1, <2>2, TextKeeps
  <1>4. ASSUME NEW x \in Things, NEW y \in Things, Unflagged([w EXCEPT !.text[x] = w.text[y]]), UNCHANGED <<at, asked>> PROVE IInv'
    <2> DEFINE a == [w EXCEPT !.text[x] = w.text[y]]
    <2>1. a = Retext(w, x, w.text[y]) /\ w.text[y] \in Text \cup {Nil}
      BY <1>2 DEF Retext
    <2>2. Unflagged(a)
      BY <1>4
    <2> HIDE DEF a
    <2>3. QED BY <1>4, <2>1, <2>2, TextKeeps
  <1>5. CASE \E t \in Text : build_setroom(b, t)
    BY <1>1, <1>3, <1>5 DEF build_setroom
  <1>6. CASE \E t \in Text, v \in Mob : build_setmob(b, v, t)
    BY <1>3, <1>6 DEF build_setmob, Things
  <1>7. CASE \E t \in Text, v \in Obj : build_setobject(b, v, t)
    BY <1>3, <1>7 DEF build_setobject, Things
  <1>8. CASE \E y \in Room : CloneRoom(b, y)
    BY <1>1, <1>4, <1>8 DEF CloneRoom, CloneThing, Things
  <1>9. CASE \E x, y \in Obj : CloneObject(b, x, y)
    BY <1>4, <1>9 DEF CloneObject, CloneThing, Things
  <1>10. CASE \E x, y \in Mob : CloneMob(b, x, y)
    BY <1>4, <1>10 DEF CloneMob, CloneThing, Things
  <1>11. QED BY <1>5, <1>6, <1>7, <1>8, <1>9, <1>10

\* Resets, also then.
LEMMA AddResetKeeps ==
    ASSUME IInv, NEW b \in Builder, NEW c \in PlainResets(at[b]), build_addreset(b, c)
    PROVE  IInv'
  <1> DEFINE x == Free
             r == at[b]
             u == AtEnd(w, x, c, r)
  <1>1. Sound(w) /\ Saves(Saving, w, modified) /\ Built
    BY DEF IInv, Built
  <1>2. x \in Reset /\ w.reset[x] = Nil
    BY FreeIsUnused DEF build_addreset
  <1>3. c \in Command /\ Names(w, c) /\ Plain(c, r) /\ r \in Room
    BY <1>1, PlainOnes, Here
  <1>4. Flagged(u) /\ UNCHANGED <<at, asked>>
    BY DEF build_addreset
  <1> HIDE DEF x, r
  <1>5. Sound(u)
    BY <1>1, <1>2, <1>3, AtEndWell
  <1>6. u.rooms = w.rooms
    <2>1. w \in Area
      BY <1>1, Parts
    <2>2. QED BY <2>1 DEF AtEnd, Area
  <1>7. ASSUME save.phase = "am" PROVE \E a : Workable(Saving, u, a)
    <2>1. Saving.phase = "am"
      BY <1>7, SavingIs
    <2>2. Saving.section \in 1 .. 8
      BY <1>1, <2>1, UnderWay
    <2>3. PICK a : Workable(Saving, w, a)
      BY <1>1, <2>1, UnderWay
    <2>4. QED BY <1>1, <1>2, <1>3, <2>2, <2>3, AtEndMeanwhile
  <1> HIDE DEF u
  <1>8. Changed
    BY <1>4, <1>5, <1>6, <1>7 DEF Changed, Kept, Flagged, Rooms
  <1>9. QED BY <1>4, <1>8, ChangeKeeps

LEMMA EquipKeeps ==
    ASSUME IInv, NEW b \in Builder, NEW m \in Reset, NEW o \in Obj, Equip(b, m, o)
    PROVE  IInv'
  <1> DEFINE x == Free
             r == at[b]
             u == After(w, x, [cmd |-> "E", a |-> o, b |-> Nil], r, m)
  <1>1. Sound(w) /\ Saves(Saving, w, modified) /\ Built
    BY DEF IInv, Built
  <1>2. x \in Reset /\ w.reset[x] = Nil
    BY FreeIsUnused DEF Equip
  <1>3. r \in Room /\ o \in Range(w.objs) /\ m \in Range(w.listed[r]) /\ w.reset[m].cmd = "M"
    BY <1>1, Here, VnumsAre DEF Equip
  <1>4. Flagged(u) /\ UNCHANGED <<at, asked>>
    BY DEF Equip
  <1> HIDE DEF x, r
  <1>5. Sound(u)
    BY <1>1, <1>2, <1>3, AfterWell
  <1>6. u.rooms = w.rooms
    <2>1. w \in Area
      BY <1>1, Parts
    <2>2. QED BY <2>1 DEF After, Area
  <1>7. ASSUME save.phase = "am" PROVE \E a : Workable(Saving, u, a)
    <2>1. Saving.phase = "am"
      BY <1>7, SavingIs
    <2>2. Saving.section \in 1 .. 8
      BY <1>1, <2>1, UnderWay
    <2>3. PICK a : Workable(Saving, w, a)
      BY <1>1, <2>1, UnderWay
    <2>4. QED BY <1>1, <1>2, <1>3, <2>2, <2>3, AfterMeanwhile
  <1> HIDE DEF u
  <1>8. Changed
    BY <1>4, <1>5, <1>6, <1>7 DEF Changed, Kept, Flagged, Rooms
  <1>9. QED BY <1>4, <1>8, ChangeKeeps

LEMMA DelResetKeepsAll ==
    ASSUME IInv, NEW b \in Builder, NEW i \in Reset, build_delreset(b, i)
    PROVE  IInv'
  <1>1. Kept
    BY DelResetKeeps DEF IInv
  <1>2. Changed /\ UNCHANGED <<at, asked>>
    BY <1>1 DEF build_delreset, NotWriting, Changed
  <1>3. \E a : Flagged(a)
    BY DEF build_delreset
  <1>4. QED BY <1>2, <1>3, ChangeKeeps

\* Questions and answers.
LEMMA AskKeeps ==
    ASSUME IInv, NEW b \in Builder,
           (\E v \in Room : AskRoom(b, v)) \/ (\E v \in Obj : AskObject(b, v)) \/ (\E v \in Mob : AskMob(b, v))
    PROVE  IInv'
  <1>1. Asking
    BY DEF IInv
  <1>2. Asking' /\ UNCHANGED <<w, at, modified, unflagged, save, disk>>
    <2>1. CASE \E v \in Room : AskRoom(b, v)
      <3>1. PICK v \in Room : AskRoom(b, v)
        BY <2>1
      <3>2. v # Home /\ asked' = [asked EXCEPT !["room"] = v] /\ UNCHANGED <<w, at, modified, unflagged, save, disk>>
        BY <3>1 DEF AskRoom, Ask
      <3>3. QED BY <1>1, <3>2 DEF Asking, Kinds
    <2>2. CASE \E v \in Obj : AskObject(b, v)
      <3>1. PICK v \in Obj : asked' = [asked EXCEPT !["obj"] = v] /\ UNCHANGED <<w, at, modified, unflagged, save, disk>>
        BY <2>2 DEF AskObject, Ask
      <3>2. QED BY <1>1, <3>1 DEF Asking, Kinds
    <2>3. CASE \E v \in Mob : AskMob(b, v)
      <3>1. PICK v \in Mob : asked' = [asked EXCEPT !["mob"] = v] /\ UNCHANGED <<w, at, modified, unflagged, save, disk>>
        BY <2>3 DEF AskMob, Ask
      <3>2. QED BY <1>1, <3>1 DEF Asking, Kinds
    <2>4. QED BY <2>1, <2>2, <2>3
  <1>3. Saves(Saving', w', modified')
    BY <1>2, SameSaves DEF IInv
  <1>4. QED BY <1>2, <1>3 DEF IInv, Built

LEMMA DelRoomKeeps ==
    ASSUME IInv, NEW b \in Builder, DelRoom(b)
    PROVE  IInv'
  <1> DEFINE v == asked["room"]
  <1>1. Asking /\ Built /\ Sound(w) /\ at \in [Builder -> Rooms(w)]
    BY DEF IInv, Built
  <1>2. v \in Room \ {Home} /\ save.phase # "am" /\ asked' = [asked EXCEPT !["room"] = Nil] /\ UNCHANGED at
    BY <1>1 DEF DelRoom, NotWriting, Asking
  <1>3. Asking'
    BY <1>1, <1>2 DEF Asking, Kinds
  <1>4. CASE v \in Range(at)
    <2>1. UNCHANGED <<w, modified, unflagged, save, disk>>
      BY <1>4 DEF DelRoom
    <2>2. Saves(Saving', w', modified')
      BY <2>1, SameSaves DEF IInv
    <2>3. QED BY <1>1, <1>2, <1>3, <2>1, <2>2 DEF IInv, Built
  <1>5. CASE v \notin Range(at)
    <2>1. Unflagged(Deleted(v))
      BY <1>5 DEF DelRoom
    <2>2. w' = Deleted(v) /\ unflagged' = TRUE /\ UNCHANGED <<modified, save, disk>>
      BY <2>1 DEF Unflagged
    <2>3. Sound(w') /\ Rooms(w') = Rooms(w) \ {v}
      BY <1>1, <1>2, <2>2, DeletedWell
    <2>4. at' \in [Builder -> Rooms(w')]
      <3>1. \A c \in Builder : at[c] \in Range(at)
        BY <1>1 DEF Range
      <3>2. \A c \in Builder : at[c] \in Rooms(w) \ {v}
        BY <1>1, <1>5, <3>1
      <3>3. QED BY <1>1, <1>2, <2>3, <3>2
    <2>5. Saves(Saving', w', modified')
      BY <1>2, <2>2, UnflaggedSaves DEF IInv
    <2>6. modified' \in BOOLEAN
      BY <2>2 DEF IInv
    <2>7. QED BY <1>3, <2>3, <2>4, <2>5, <2>6 DEF IInv, Built
  <1>6. QED BY <1>4, <1>5

LEMMA DelThingKeeps ==
    ASSUME IInv, NEW b \in Builder, DelObject(b) \/ DelMob(b)
    PROVE  IInv'
  <1>1. Asking /\ Built /\ Careful /\ Sound(w) /\ w \in Area
    BY Parts DEF IInv, Built
  <1>2. CASE DelObject(b)
    <2> DEFINE v == asked["obj"]
               t == [w.text EXCEPT ![v] = Nil]
               a == [w EXCEPT !.objs = Without(@, {v}), !.text[v] = Nil]
    <2>1. v \in Obj /\ save.phase # "am" /\ asked' = [asked EXCEPT !["obj"] = Nil] /\ UNCHANGED at
      BY <1>1, <1>2 DEF DelObject, NotWriting, Asking
    <2>2. Asking'
      BY <1>1, <2>1 DEF Asking, Kinds
    <2>3. (\A x \in Range(w.resets) : w.reset[x].a # v) /\ Unnamed(v) = w
      BY <1>1, <1>2 DEF DelObject, Named, Unnamed
    <2>4. t \in [Room \cup Mob \cup Obj -> Text \cup {Nil}]
      BY <1>1, <2>1, TextTyped
    <2>5. a = [w EXCEPT !.objs = Without(@, {v}), !.text = t] /\ a.rooms = w.rooms
      BY <1>1 DEF Area
    <2>6. Unflagged(a)
      <3>1. Unflagged([Unnamed(v) EXCEPT !.objs = Without(@, {v}), !.text[v] = Nil])
        BY <1>2, ZenonT(60) DEF DelObject
      <3>2. QED BY <2>3, <3>1, ZenonT(60)
    <2> HIDE DEF v, t, a
    <2>7. Sound(a)
      <3>1. Sound([w EXCEPT !.objs = Without(@, {v}), !.text = t])
        BY <1>1, <2>3, <2>4, ObjectRemoved
      <3>2. QED BY <2>5, <3>1
    <2>8. w' = a /\ unflagged' = TRUE /\ UNCHANGED <<modified, save, disk>>
      BY <2>6 DEF Unflagged
    <2>9. Built'
      BY <1>1, <2>1, <2>5, <2>7, <2>8 DEF Built, Rooms
    <2>10. Saves(Saving', w', modified')
      BY <2>1, <2>8, UnflaggedSaves DEF IInv
    <2>11. QED BY <2>2, <2>8, <2>9, <2>10 DEF IInv
  <1>3. CASE DelMob(b)
    <2> DEFINE v == asked["mob"]
               t == [w.text EXCEPT ![v] = Nil]
               a == [w EXCEPT !.mobs = Without(@, {v}), !.text[v] = Nil]
    <2>1. v \in Mob /\ save.phase # "am" /\ asked' = [asked EXCEPT !["mob"] = Nil] /\ UNCHANGED at
      BY <1>1, <1>3 DEF DelMob, NotWriting, Asking
    <2>2. Asking'
      BY <1>1, <2>1 DEF Asking, Kinds
    <2>3. (\A x \in Range(w.resets) : w.reset[x].a # v) /\ Unnamed(v) = w
      BY <1>1, <1>3 DEF DelMob, Named, Unnamed
    <2>4. t \in [Room \cup Mob \cup Obj -> Text \cup {Nil}]
      BY <1>1, <2>1, TextTyped
    <2>5. a = [w EXCEPT !.mobs = Without(@, {v}), !.text = t] /\ a.rooms = w.rooms
      BY <1>1 DEF Area
    <2>6. Unflagged(a)
      <3>1. Unflagged([Unnamed(v) EXCEPT !.mobs = Without(@, {v}), !.text[v] = Nil])
        BY <1>3, ZenonT(60) DEF DelMob
      <3>2. QED BY <2>3, <3>1, ZenonT(60)
    <2> HIDE DEF v, t, a
    <2>7. Sound(a)
      <3>1. Sound([w EXCEPT !.mobs = Without(@, {v}), !.text = t])
        BY <1>1, <2>3, <2>4, MobRemoved
      <3>2. QED BY <2>5, <3>1
    <2>8. w' = a /\ unflagged' = TRUE /\ UNCHANGED <<modified, save, disk>>
      BY <2>6 DEF Unflagged
    <2>9. Built'
      BY <1>1, <2>1, <2>5, <2>7, <2>8 DEF Built, Rooms
    <2>10. Saves(Saving', w', modified')
      BY <2>1, <2>8, UnflaggedSaves DEF IInv
    <2>11. QED BY <2>2, <2>8, <2>9, <2>10 DEF IInv
  <1>4. QED BY <1>2, <1>3

\* Saves.
LEMMA SavingKeeps ==
    ASSUME IInv, (\E b \in Builder, loops \in Loops : SaveArea(b, loops)) \/ Pulse \/ Flush
    PROVE  IInv'
  <1>1. Sound(w) /\ Saves(Saving, w, modified) /\ modified \in BOOLEAN /\ Built /\ Asking
    BY DEF IInv, Built
  <1>2. CASE \E b \in Builder, loops \in Loops : SaveArea(b, loops)
    <2>1. PICK loops \in Loops : Saved(do_savearea(Saving, loops)) /\ UNCHANGED <<w, at, asked, modified>>
      BY <1>2 DEF SaveArea
    <2>2. loops \in Nat
      BY BuildingAssumption
    <2>3. Saves(do_savearea(Saving, loops), w, modified)
      BY <1>1, <2>2, SaveAreaWell
    <2>4. Saves(Saving', w, modified)
      BY <2>1, <2>3, SavedWell
    <2>5. QED BY <1>1, <2>1, <2>4 DEF IInv, Built, Asking
  <1>3. CASE Pulse
    <2>1. Saved(build_save(Saving)) /\ UNCHANGED <<w, at, asked, modified>>
      BY <1>3 DEF Pulse
    <2>2. Saves(build_save(Saving), w, modified)
      BY <1>1, BuildSaveWell
    <2>3. Saves(Saving', w, modified)
      BY <2>1, <2>2, SavedWell
    <2>4. QED BY <1>1, <2>1, <2>3 DEF IInv, Built, Asking
  <1>4. CASE Flush
    <2>1. Saved(do_savearea(Saving, FlushLoops)) /\ modified' = FALSE /\ UNCHANGED <<w, at, asked>>
      BY <1>4 DEF Flush
    <2>2. Saves(do_savearea(Saving, FlushLoops), w, FALSE)
      BY <1>1, LongestIs, SaveAreaWell
    <2>3. Saves(Saving', w, FALSE)
      BY <2>1, <2>2, SavedWell
    <2>4. Saves(Saving', w', modified')
      BY <2>1, <2>3
    <2>5. modified' \in BOOLEAN
      BY <2>1
    <2>6. QED BY <1>1, <2>1, <2>4, <2>5 DEF IInv, Built, Asking
  <1>5. QED BY <1>2, <1>3, <1>4

\* No save is under way and the file is that of the area.
LEMMA AtRest ==
    ASSUME NEW S, NEW v, Sound(v), NEW m, DOMAIN S = SaveFields, S.waiting = <<>>, S.phase = "not", S.section = 0,
           S.loops = 1, S.new = EmptyFile, S.unflagged = FALSE, S.disk = FileOf(v)
    PROVE  Saves(S, v, m)
  <1>1. <<>> \in Seq(Nat) /\ Len(<<>>) = 0 /\ 0 < QueueSize /\ 1 \in Nat /\ 0 \in 0 .. 8
    BY BuildingAssumption
  <1>2. S.unflagged \in BOOLEAN
    OBVIOUS
  <1>3. SavesType(S)
    BY <1>1, <1>2, FileShape DEF SavesType
  <1>4. GoodFile(S.disk)
    BY DEF GoodFile
  <1>5. QED BY <1>3, <1>4 DEF Saves

LEMMA BootKeeps ==
    ASSUME IInv, Boot
    PROVE  IInv'
  <1>1. PICK a : Sound(a) /\ disk = FileOf(a)
    BY SavingIs DEF IInv, Saves, GoodFile
  <1>2. Sound(Load(disk)) /\ FileOf(Load(disk)) = disk
    BY <1>1, Reloaded
  <1>3. /\ w' = Load(disk) /\ at' = [b \in Builder |-> Home] /\ asked' = [k \in Kinds |-> Nil]
        /\ modified' = FALSE /\ unflagged' = FALSE /\ save' = NoSave /\ disk' = disk
    BY DEF Boot
  <1>4. Sound(w') /\ FileOf(w') = disk' /\ Home \in Rooms(w')
    BY <1>2, <1>3, Parts
  <1>5. Built'
    BY <1>3, <1>4 DEF IInv, Built
  <1>6. Asking'
    BY <1>3 DEF Asking, Kinds
  <1>7. /\ DOMAIN Saving' = SaveFields /\ Saving'.waiting = <<>> /\ Saving'.phase = "not" /\ Saving'.section = 0
        /\ Saving'.loops = 1 /\ Saving'.new = EmptyFile /\ Saving'.unflagged = FALSE /\ Saving'.disk = disk'
    BY <1>3 DEF Saving, SaveFields, NoSave
  <1>8. Saves(Saving', w', modified')
    BY <1>4, <1>7, AtRest
  <1>9. modified' \in BOOLEAN
    BY <1>3
  <1>10. QED BY <1>5, <1>6, <1>8, <1>9 DEF IInv

LEMMA InitIInv == ASSUME Careful PROVE Init => IInv
  <1> SUFFICES ASSUME Init PROVE IInv
    OBVIOUS
  <1>1. /\ w = World /\ at = [b \in Builder |-> Home] /\ asked = [k \in Kinds |-> Nil]
        /\ modified = FALSE /\ unflagged = FALSE /\ save = NoSave /\ disk = FileOf(w)
    BY DEF Init
  <1>2. Sound(w) /\ Home \in Rooms(w)
    BY <1>1, WorldAssumption DEF Sound
  <1>3. Built /\ Asking
    BY <1>1, <1>2 DEF Built, Asking, Kinds
  <1>4. /\ DOMAIN Saving = SaveFields /\ Saving.waiting = <<>> /\ Saving.phase = "not" /\ Saving.section = 0
        /\ Saving.loops = 1 /\ Saving.new = EmptyFile /\ Saving.unflagged = FALSE /\ Saving.disk = FileOf(w)
    BY <1>1 DEF Saving, SaveFields, NoSave
  <1>5. Saves(Saving, w, modified)
    BY <1>2, <1>4, AtRest
  <1>6. modified \in BOOLEAN
    BY <1>1
  <1>7. QED BY <1>3, <1>5, <1>6 DEF IInv

LEMMA NextIInv == IInv /\ [Next]_vars => IInv'
  <1> SUFFICES ASSUME IInv, [Next]_vars PROVE IInv'
    OBVIOUS
  <1>1. CASE UNCHANGED vars
    <2>1. UNCHANGED <<w, at, asked, modified, unflagged, save, disk>>
      BY <1>1 DEF vars
    <2>2. Saves(Saving', w', modified')
      BY <2>1, SameSaves DEF IInv
    <2>3. QED BY <2>1, <2>2 DEF IInv, Built, Asking
  <1>2. ASSUME NEW b \in Builder, NEW d \in Dir, NEW v \in Room, NEW onesided \in BOOLEAN,
               build_dig(b, d, v, onesided) \/ DoorTo(b, d, v, onesided)
        PROVE  IInv'
    <2>1. TRUE \in BOOLEAN
      OBVIOUS
    <2>2. QED BY <1>2, <2>1, ExitsChange
  <1>3. ASSUME NEW b \in Builder, NEW d \in Dir, NEW onesided \in BOOLEAN,
               DoorClear(b, d, onesided) \/ \E door \in BOOLEAN : DoorType(b, d, door, onesided)
        PROVE  IInv'
    <2>1. at[b] \in Room /\ TRUE \in BOOLEAN
      BY Here DEF IInv
    <2>2. QED BY <1>3, <2>1, ExitsChange
  <1>4. ASSUME NEW b \in Builder, NEW d \in Dir, Walk(b, d) \/ DoorMade(b, d) PROVE IInv'
    <2>1. at[b] \in Room /\ TRUE \in BOOLEAN
      BY Here DEF IInv
    <2>2. QED BY <1>4, <2>1, WalkKeeps, ExitsChange
  <1>5. ASSUME NEW b \in Builder, (\E v \in Mob : build_addmob(b, v)) \/ (\E v \in Obj : build_addobject(b, v)) PROVE IInv'
    BY <1>5, NewKeeps
  <1>6. ASSUME NEW b \in Builder, NEW t \in Text,
               \/ build_setroom(b, t) \/ (\E v \in Mob : build_setmob(b, v, t)) \/ (\E v \in Obj : build_setobject(b, v, t))
        PROVE  IInv'
    BY <1>6, TextsKeep
  <1>7. ASSUME NEW b \in Builder,
               \/ \E y \in Room : CloneRoom(b, y)
               \/ \E x, y \in Obj : CloneObject(b, x, y)
               \/ \E x, y \in Mob : CloneMob(b, x, y)
        PROVE  IInv'
    BY <1>7, TextsKeep
  <1>8. ASSUME NEW b \in Builder, NEW c \in PlainResets(at[b]), build_addreset(b, c) PROVE IInv'
    BY <1>8, AddResetKeeps
  <1>9. ASSUME NEW b \in Builder, NEW m \in Reset, NEW o \in Obj, Equip(b, m, o) PROVE IInv'
    BY <1>9, EquipKeeps
  <1>10. ASSUME NEW b \in Builder, NEW i \in Reset, build_delreset(b, i) PROVE IInv'
    BY <1>10, DelResetKeepsAll
  <1>11. ASSUME NEW b \in Builder,
                (\E v \in Room : AskRoom(b, v)) \/ (\E v \in Obj : AskObject(b, v)) \/ (\E v \in Mob : AskMob(b, v))
         PROVE  IInv'
    BY <1>11, AskKeeps
  <1>12. ASSUME NEW b \in Builder, DelRoom(b) \/ DelObject(b) \/ DelMob(b) PROVE IInv'
    BY <1>12, DelRoomKeeps, DelThingKeeps
  <1>13. CASE (\E b \in Builder, loops \in Loops : SaveArea(b, loops)) \/ Pulse \/ Flush
    BY <1>13, SavingKeeps
  <1>14. CASE Crash \/ Reboot
    BY <1>14, BootKeeps DEF Crash, Reboot
  <1>15. QED BY <1>1, <1>2, <1>3, <1>4, <1>5, <1>6, <1>7, <1>8, <1>9, <1>10, <1>11, <1>12, <1>13, <1>14 DEF Next

LEMMA IInvImplies == IInv => ExitsLead /\ ResetsSound /\ QuietMeansSaved
  <1> SUFFICES ASSUME IInv PROVE ExitsLead /\ ResetsSound /\ QuietMeansSaved
    OBVIOUS
  <1>1. Sound(w) /\ at \in [Builder -> Rooms(w)] /\ Saves(Saving, w, modified)
    BY DEF IInv, Built
  <1>2. Typed(w) /\ Leads(w) /\ ResetsOf(w) /\ Rooms(w) \subseteq Room
    BY <1>1, Parts DEF Sound
  <1>3. at \in [Builder -> Room] /\ Range(at) \subseteq Rooms(w)
    BY <1>1, <1>2 DEF Range
  <1>4. /\ save.phase \in {"not", "start", "am"} /\ save.section \in 0 .. Len(Sections)
        /\ Len(save.waiting) < QueueSize /\ unflagged \in BOOLEAN
    BY <1>1, SavingIs, Places DEF Saves, SavesType
  <1>5. TypeOK
    BY <1>2, <1>3, <1>4 DEF TypeOK, IInv, Asking
  <1>6. QuietMeansSaved
    BY <1>1, SavingIs DEF QuietMeansSaved, Saves, Quiet
  <1>7. QED BY <1>2, <1>3, <1>5, <1>6 DEF ExitsLead, ResetsSound

LEMMA AlwaysIInv == ASSUME Careful PROVE Spec => []IInv
  <1>1. Init => IInv
    BY InitIInv
  <1>2. IInv /\ [Next]_vars => IInv'
    BY NextIInv
  <1>3. QED BY <1>1, <1>2, PTL DEF Spec

\* Of careful builders: whatever rooms are dug, linked and deleted, whatever is asked and
\* confirmed in the meantime and whenever the mud crashes, every exit leads to a room that
\* exists or, as setroom door may leave it, nowhere, and every builder stands in a room
\* (build_delroom, setroom door, fix_exits).
THEOREM BuildingExitsLead == ASSUME Careful PROVE Spec => []ExitsLead
  <1>1. IInv => ExitsLead
    BY IInvImplies
  <1>2. QED BY <1>1, AlwaysIInv, PTL

\* Of careful builders: the lists of the rooms and that of the area agree, and no boot throws
\* a reset away, whoever adds, equips and deletes in whatever order and whatever of it the save
\* that was under way has caught (addreset, delreset, nuke_exit_resets, load_resets,
\* check_resets).  They do not give a reset to a door that leads nowhere, nor delete the reset
\* of a mobile with equipment or what a reset names: there the code breaks it.
THEOREM BuildingResetsSound == ASSUME Careful PROVE Spec => []ResetsSound
  <1>1. IInv => ResetsSound
    BY IInvImplies
  <1>2. QED BY <1>1, AlwaysIInv, PTL

\* Of careful builders: a file is written item by item while texts are edited and resets added,
\* and any number of saves may wait; when nothing is flagged, waits or is under way, the file
\* is the area, but for changes by commands that do not flag (area_modified, build_save,
\* build_save_flush).
THEOREM BuildingQuietMeansSaved == ASSUME Careful PROVE Spec => []QuietMeansSaved
  <1>1. IInv => QuietMeansSaved
    BY IInvImplies
  <1>2. QED BY <1>1, AlwaysIInv, PTL

\* What a boot makes of the file makes sense, and nothing of the file is lost.
DiskIsGood == Sound(Load(disk)) /\ FileOf(Load(disk)) = disk

\* Of careful builders: the file on the disk is always that of an area that makes sense,
\* whatever of a save was done before a crash, and even when texts were edited and resets added
\* while it was written: a boot finds nothing to repair or throw away, and the area that is
\* read writes the same file (build_save, load_rooms, fix_exits, load_resets, check_resets).
\* Two things are outside the model and so of this: removals during a save (NotWriting), and
\* a crash between the remove and the rename that exchange the files (build_save_end).
THEOREM BuildingDiskIsGood == ASSUME Careful PROVE Spec => []DiskIsGood
  <1>1. ASSUME IInv PROVE DiskIsGood
    <2>1. PICK a : Sound(a) /\ disk = FileOf(a)
      BY <1>1, SavingIs DEF IInv, Saves, GoodFile
    <2>2. QED BY <2>1, Reloaded DEF DiskIsGood
  <1>2. QED BY <1>1, AlwaysIInv, PTL
=============================================================================
