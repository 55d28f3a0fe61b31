--------------------------- MODULE Memory_proofs ---------------------------
(***************************************************************************)
(* Proofs about the memory that the whole server stands on.                *)
(*                                                                         *)
(* SSM, for every heap size, text set and bound: the invariants that TLC   *)
(* checks on two chunks, and that the manager implements StringStore.      *)
(*                                                                         *)
(* CharList, for any number of characters, any depth of loops and any      *)
(* number of creations.  The inductive invariant adds to the three         *)
(* properties what the order of the list rests on: places are distinct,    *)
(* and none is beyond the last one given.                                  *)
(***************************************************************************)
EXTENDS SSM, CharList, TLAPS

(***************************************************************************)
(*                                  SSM                                    *)
(***************************************************************************)

\* A request that asks for a block has a text; one that is to be hashed is for a text
\* the boot-time table does not hold.
PendInv ==
    /\ pc \in {"dup", "full"} => pend \in Request
    /\ phase = "load" /\ pend.hashed => \A a \in hash : buf[a] # pend.text

\* The walk of defrag_heap: last_free, when set, is a free block with no header
\* between it and walk, and ssm_buf_free is behind walk.
ScanInv ==
    /\ pc # "defrag" => walk = Nil /\ last = Nil
    /\ last # Nil =>
         /\ usage[last] <= 0
         /\ walk # Nil => last < walk
         /\ \A c \in Blocks : c > last => walk # Nil /\ walk <= c
    /\ pc = "defrag" /\ free # Nil /\ walk # Nil => free < walk

IInv ==
    /\ TypeOK
    /\ NoOverlap
    /\ UsageCountsRefs
    /\ FreePtrNotLive
    /\ BootTableLive
    /\ PendInv
    /\ ScanInv

-----------------------------------------------------------------------------
\* string_space has a size.
LEMMA SpaceNat == Space \in Nat
  BY SSMAssumption DEF Space

\* A rounded length is a length.
LEMMA NeedNat == \A t \in Texts : Need(t) \in Nat
  <1> SUFFICES ASSUME NEW t \in Texts PROVE Need(t) \in Nat
    OBVIOUS
  <1>1. Bytes[t] \in Nat /\ Header \in Nat /\ Align \in Nat \ {0}
    BY SSMAssumption
  <1>2. (Bytes[t] + Header) % Align \in 0 .. Align - 1
    BY <1>1
  <1> QED BY <1>1, <1>2 DEF Need

\* A 16-bit store never makes a number larger.
LEMMA ShortRange == \A n \in Nat : Short(n) \in 0 .. SizeMod - 1 /\ Short(n) <= n
  <1> SUFFICES ASSUME NEW n \in Nat PROVE Short(n) \in 0 .. SizeMod - 1 /\ Short(n) <= n
    OBVIOUS
  <1>1. SizeMod \in Nat \ {0}
    BY SSMAssumption
  <1>2. n % SizeMod \in 0 .. SizeMod - 1
    BY <1>1
  <1>3. n % SizeMod <= n
    BY <1>1
  <1> QED BY <1>2, <1>3 DEF Short

LEMMA ChunksInOrder ==
  ASSUME NEW i \in Nat, NEW j \in Nat, NEW c \in Nat, i < j
  PROVE  i * c + c <= j * c /\ i * c \in Nat /\ j * c \in Nat
  <1>1. PICK k \in Nat : j = i + 1 + k
    BY j - i - 1 \in Nat
  <1>2. j * c = i * c + c + k * c
    BY <1>1
  <1>3. k * c >= 0 /\ i * c \in Nat
    OBVIOUS
  <1> QED BY <1>2, <1>3

-----------------------------------------------------------------------------
\* The initial list: Chunks free blocks, one chunk apart.
LEMMA InitIInv == Init => IInv
  <1> SUFFICES ASSUME Init PROVE IInv
    OBVIOUS
  <1> USE SSMAssumption DEF Init
  <1>1. \A i \in 0 .. Chunks - 1 : /\ i * ChunkSize \in 0 .. Space - 1
                                   /\ i * ChunkSize + ChunkSize <= Space
    <2> TAKE i \in 0 .. Chunks - 1
    <2>1. i * ChunkSize + ChunkSize <= Chunks * ChunkSize /\ i * ChunkSize \in Nat
      BY ChunksInOrder
    <2> QED BY <2>1 DEF Space
  <1>2. 0 \in Blocks
    <2>1. 0 * ChunkSize = 0 /\ 0 \in 0 .. Chunks - 1
      OBVIOUS
    <2> QED BY <2>1 DEF Blocks
  <1>3. Blocks \subseteq 0 .. Space - 1
    BY <1>1 DEF Blocks
  <1>s. Space \in Nat /\ ChunkSize - Header \in 1 .. SizeMod - 1
    BY DEF Space
  <1>t. /\ size = [a \in Blocks |-> ChunkSize - Header]
        /\ usage = [a \in Blocks |-> 0] /\ buf = [a \in Blocks |-> NoText]
    BY DEF Blocks
  <1>4. TypeOK
    <2>1. /\ size \in [Blocks -> 0 .. SizeMod - 1]
          /\ usage \in [Blocks -> -1 .. MaxRefs]
          /\ buf \in [Blocks -> Texts \cup {NoText}]
      <3>1. 0 \in -1 .. MaxRefs
        OBVIOUS
      <3>2. size \in [Blocks -> 0 .. SizeMod - 1] /\ usage \in [Blocks -> -1 .. MaxRefs]
        <4> HIDE DEF Init
        <4> QED BY <1>s, <1>t, <3>1
      <3>3. buf \in [Blocks -> Texts \cup {NoText}]
        BY <1>t
      <3> QED BY <3>2, <3>3
    <2>2. refs \in [Addrs -> 0 .. MaxRefs] /\ over \in [OverIds -> Texts \cup {NoText}]
      OBVIOUS
    <2>3. /\ free \in Blocks \cup {Nil} /\ numFree \in 0 .. MaxFree
          /\ walk \in Blocks \cup {Nil} /\ last \in Blocks \cup {Nil} /\ merges \in 0 .. 1
      BY <1>2
    <2>4. pend \in Request \cup {NoReq} /\ nAlloc \in Int /\ sAlloc \in Int
          /\ nOver \in Int /\ sOver \in Int
      OBVIOUS
    <2>5. /\ hash \subseteq Addrs /\ hashOver \subseteq OverIds
          /\ phase \in {"load", "run", "getall"} /\ pc \in {"idle", "dup", "defrag", "full"}
      OBVIOUS
    <2> HIDE DEF Init
    <2> QED BY <1>2, <1>3, <2>1, <2>2, <2>3, <2>4, <2>5 DEF TypeOK
  <1>5. NoOverlap
    <2>1. ASSUME NEW a \in Blocks PROVE a + Header + size[a] <= Space
      <3>1. PICK i \in 0 .. Chunks - 1 : a = i * ChunkSize
        BY DEF Blocks
      <3> QED BY <1>1, <1>s, <1>t, <3>1
    <2>2. ASSUME NEW a \in Blocks, NEW b \in Blocks, a < b
          PROVE  a + Header + size[a] <= b
      <3>1. PICK i \in 0 .. Chunks - 1 : a = i * ChunkSize
        BY DEF Blocks
      <3>2. PICK j \in 0 .. Chunks - 1 : b = j * ChunkSize
        BY DEF Blocks
      <3>3. i < j
        <4> SUFFICES ASSUME j <= i PROVE FALSE
          OBVIOUS
        <4>1. j = i \/ j < i
          OBVIOUS
        <4>2. CASE j = i
          BY <4>2, <3>1, <3>2, <2>2
        <4>3. CASE j < i
          <5>1. j * ChunkSize + ChunkSize <= i * ChunkSize
                /\ i * ChunkSize \in Nat /\ j * ChunkSize \in Nat
            BY <4>3, ChunksInOrder
          <5> QED BY <5>1, <3>1, <3>2, <2>2
        <4> QED BY <4>1, <4>2, <4>3
      <3>4. i * ChunkSize + ChunkSize <= j * ChunkSize
            /\ i * ChunkSize \in Nat /\ j * ChunkSize \in Nat
        BY <3>3, ChunksInOrder
      <3>5. size[a] = ChunkSize - Header
        BY <1>t
      <3> QED BY <3>1, <3>2, <3>4, <3>5
    <2> QED BY <2>1, <2>2 DEF NoOverlap
  <1>6. UsageCountsRefs
    BY DEF UsageCountsRefs, Blocks
  <1>7. FreePtrNotLive
    BY <1>2 DEF FreePtrNotLive, Blocks
  <1>8. PendInv /\ ScanInv
    BY DEF PendInv, ScanInv, Nil
  <1>b. BootTableLive
    BY DEF BootTableLive
  <1> QED BY <1>b, <1>4, <1>5, <1>6, <1>7, <1>8 DEF IInv

-----------------------------------------------------------------------------
(***************************************************************************)
(* The clients' calls.                                                     *)
(***************************************************************************)
LEMMA AskKeepsIInv ==
  ASSUME IInv, NEW t \in Texts, NEW hashed \in BOOLEAN, pc = "idle", Ask(t, hashed),
         hashed => ~SureHit(t)
  PROVE  IInv'
  <1> USE DEF IInv, Ask, heap, counters, overflow, table, scan
  <1>1. TypeOK'
    BY DEF TypeOK, Blocks, Request, NoReq
  <1>2. NoOverlap' /\ UsageCountsRefs' /\ FreePtrNotLive'
    BY DEF NoOverlap, UsageCountsRefs, FreePtrNotLive, Blocks
  <1>3. PendInv' /\ ScanInv'
    BY DEF PendInv, ScanInv, Request, Blocks, SureHit, HeapHits, BootTableLive, Live
  <1>b. BootTableLive'
    BY DEF BootTableLive, Live, Blocks
  <1> QED BY <1>b, <1>1, <1>2, <1>3

LEMMA CountUpKeepsIInv ==
  ASSUME IInv, NEW a \in Addrs, a \in Blocks, pc = "idle", refs[a] > 0, CountUp(a)
  PROVE  IInv'
  <1> USE SSMAssumption DEF IInv, CountUp, counters, overflow, table, scan
  <1>0. refs[a] = usage[a] /\ usage[a] \in 1 .. MaxRefs
    BY DEF UsageCountsRefs, TypeOK
  <1>1. usage' = [usage EXCEPT ![a] = @ + 1] /\ refs' = [refs EXCEPT ![a] = @ + 1]
    <2>1. (IF usage[a] <= 0 THEN 1 ELSE usage[a] + 1) = usage[a] + 1
      BY <1>0
    <2> QED BY <2>1
  <1>2. TypeOK'
    BY <1>0, <1>1 DEF TypeOK, Blocks
  <1>3. NoOverlap'
    BY DEF NoOverlap, Blocks
  <1>4. UsageCountsRefs'
    BY <1>0, <1>1 DEF UsageCountsRefs, TypeOK, Blocks
  <1>5. FreePtrNotLive'
    BY <1>0, <1>1 DEF FreePtrNotLive, TypeOK, Blocks
  <1>6. PendInv' /\ ScanInv'
    BY DEF PendInv, ScanInv, Blocks, Nil
  <1>b. BootTableLive'
    BY <1>0, <1>1 DEF BootTableLive, Live, TypeOK, Blocks
  <1> QED BY <1>b, <1>2, <1>3, <1>4, <1>5, <1>6

LEMMA FreeStringKeepsIInv ==
  ASSUME IInv, NEW a \in Addrs, FreeString(a)
  PROVE  IInv'
  <1> USE SSMAssumption DEF IInv, FreeString, counters, overflow, table, scan
  <1>1. a \in Blocks /\ a \in Nat /\ usage[a] \in -1 .. MaxRefs /\ refs[a] \in 0 .. MaxRefs
    BY DEF TypeOK
  <1>2. \/ usage[a] > 0 /\ refs[a] = usage[a]
        \/ usage[a] <= 0 /\ refs[a] = 0
    BY <1>1 DEF UsageCountsRefs
  <1>3. /\ usage' = [usage EXCEPT ![a] = IF usage[a] > 0 THEN usage[a] - 1 ELSE -1]
        /\ refs' = [refs EXCEPT ![a] = IF refs[a] > 0 THEN refs[a] - 1 ELSE 0]
    BY DEF Down, TypeOK
  <1>4. TypeOK'
    <2>1. usage' \in [Blocks -> -1 .. MaxRefs] /\ refs' \in [Addrs -> 0 .. MaxRefs]
      BY <1>1, <1>3 DEF TypeOK
    <2>2. numFree' \in 0 .. MaxFree /\ nAlloc' \in Int /\ sAlloc' \in Int
      BY <1>1 DEF TypeOK
    <2>3. hash' \subseteq Addrs /\ free' \in Blocks \cup {Nil}
      BY <1>1 DEF TypeOK
    <2> QED BY <2>1, <2>2, <2>3 DEF TypeOK, Blocks
  <1>5. NoOverlap'
    BY DEF NoOverlap, Blocks
  <1>6. UsageCountsRefs'
    BY <1>1, <1>2, <1>3 DEF UsageCountsRefs, TypeOK, Blocks
  <1>7. FreePtrNotLive'
    <2>1. usage[a] # 1 => usage[a] <= 0 \/ usage[a] > 1
      BY <1>1
    <2>2. usage'[a] <= 0 \/ (usage[a] > 1 /\ free # a)
      BY <1>1, <1>3, <2>1 DEF FreePtrNotLive, TypeOK, Nil
    <2> QED BY <1>1, <1>3, <2>2 DEF FreePtrNotLive, TypeOK, Blocks, Nil
  <1>8. PendInv' /\ ScanInv'
    BY DEF PendInv, ScanInv, Blocks, Nil
  <1>b. BootTableLive'
    BY <1>1, <1>3 DEF BootTableLive, Live, fBootDb, TypeOK, Blocks
  <1> QED BY <1>b, <1>4, <1>5, <1>6, <1>7, <1>8

LEMMA FreeOverflowKeepsIInv ==
  ASSUME IInv, NEW o \in OverIds, FreeOverflow(o)
  PROVE  IInv'
  <1> USE SSMAssumption DEF IInv, FreeOverflow, heap, counters, table, scan
  <1>1. over[o] \in Texts /\ Bytes[over[o]] \in Nat
    BY DEF TypeOK
  <1>2. TypeOK'
    BY <1>1 DEF TypeOK, Blocks
  <1>3. NoOverlap' /\ UsageCountsRefs' /\ FreePtrNotLive'
    BY DEF NoOverlap, UsageCountsRefs, FreePtrNotLive, Blocks
  <1>4. PendInv' /\ ScanInv'
    BY DEF PendInv, ScanInv, Blocks
  <1>b. BootTableLive'
    BY DEF BootTableLive, Live, Blocks
  <1> QED BY <1>b, <1>2, <1>3, <1>4

-----------------------------------------------------------------------------
(***************************************************************************)
(* str_dup.                                                                *)
(***************************************************************************)

\* The first block that fits is a free block of the heap, large enough.
LEMMA FitsFacts ==
  ASSUME IInv, pc = "dup", NEW p \in Fits
  PROVE  /\ p \in Blocks /\ p \in Nat /\ usage[p] = 0 /\ free \in Blocks /\ free <= p
         /\ Need(pend.text) \in Nat /\ pend.text \in Texts
         /\ size[p] \in Nat /\ size[p] >= Need(pend.text)
  <1>1. pend \in Request
    BY DEF IInv, PendInv
  <1>2. pend.text \in Texts /\ Need(pend.text) \in Nat
    BY <1>1, NeedNat DEF Request
  <1> QED BY <1>2 DEF IInv, TypeOK, Fits, Nil

LEMMA DupSplitKeepsIInv ==
  ASSUME IInv, NEW p \in Addrs, DupSplit(p)
  PROVE  IInv'
  <1> DEFINE len  == Need(pend.text)
             temp == p + Header + len
             rest == size[p] - (len + Header)
  <1> USE SSMAssumption DEF IInv
  <1>1. pc = "dup" /\ p \in Fits
    BY DEF DupSplit
  <1>2. /\ p \in Blocks /\ p \in Nat /\ usage[p] = 0 /\ len \in Nat
        /\ pend.text \in Texts /\ size[p] \in Nat /\ size[p] >= len
    BY <1>1, FitsFacts
  <1>3. /\ size[p] - len >= Header + 8
        /\ Cut(p, temp, len, rest) /\ Granted(p, len)
    BY DEF DupSplit
  <1>4. rest \in Nat /\ rest < size[p] /\ temp \in Nat /\ p < temp
        /\ temp + Header + rest = p + Header + size[p] + Header - Header
    BY <1>2, <1>3
  <1> HIDE DEF len, temp, rest
  <1>5. \A b \in Blocks : b > p => temp < b
    BY <1>2, <1>3, <1>4 DEF NoOverlap, TypeOK, temp
  <1>6. temp < Space /\ temp \notin Blocks /\ temp + Header + rest = p + Header + size[p]
        /\ p + Header + len = temp
    <2>1. temp < Space
      BY <1>2, <1>3, <1>4, SpaceNat DEF NoOverlap, temp
    <2>2. temp \notin Blocks
      BY <1>4, <1>5
    <2> QED BY <2>1, <2>2, <1>2, <1>3, <1>4 DEF temp, rest
  <1>7. size' = [b \in Blocks \cup {temp} |->
                   IF b = p THEN len ELSE IF b = temp THEN rest ELSE size[b]]
    BY <1>3 DEF Cut
  <1>8. usage' = [b \in Blocks \cup {temp} |->
                   IF b = p THEN 1 ELSE IF b = temp THEN 0 ELSE usage[b]]
    BY <1>3 DEF Cut
  <1>9. Blocks' = Blocks \cup {temp}
    BY <1>7 DEF Blocks
  <1>n. \A b \in Blocks' : b \in Nat
    BY <1>4, <1>9, SpaceNat DEF TypeOK
  <1>r. refs[p] = 0 /\ p \in Addrs
    BY <1>2 DEF UsageCountsRefs, TypeOK
  <1>10. TypeOK'
    <2>1. size' \in [Blocks' -> 0 .. SizeMod - 1]
      <3>1. len \in 0 .. SizeMod - 1 /\ rest \in 0 .. SizeMod - 1
        BY <1>2, <1>3, <1>4 DEF TypeOK
      <3> QED BY <3>1, <1>7, <1>9 DEF TypeOK
    <2>2. usage' \in [Blocks' -> -1 .. MaxRefs]
      <3>1. 0 \in -1 .. MaxRefs /\ 1 \in -1 .. MaxRefs
        OBVIOUS
      <3> QED BY <3>1, <1>8, <1>9 DEF TypeOK
    <2>3. buf' \in [Blocks' -> Texts \cup {NoText}]
      BY <1>2, <1>3, <1>9 DEF Cut, TypeOK
    <2>4. refs' \in [Addrs -> 0 .. MaxRefs]
      BY <1>3, <1>r DEF Granted, TypeOK
    <2>5. Blocks' \subseteq 0 .. Space - 1 /\ 0 \in Blocks'
      BY <1>4, <1>6, <1>9, SpaceNat DEF TypeOK
    <2>6. free' \in Blocks' \cup {Nil} /\ hash' \subseteq Addrs
      BY <1>3, <1>9 DEF Cut, Granted, TypeOK
    <2>7. nAlloc' \in Int /\ sAlloc' \in Int
      BY <1>2, <1>3 DEF Granted, TypeOK
    <2> QED BY <1>3, <1>9, <2>1, <2>2, <2>3, <2>4, <2>5, <2>6, <2>7
            DEF Granted, TypeOK, overflow, scan
  <1>11. NoOverlap'
    <2>1. ASSUME NEW a \in Blocks' PROVE a + Header + size'[a] <= Space
      <3>1. CASE a = p
        BY <3>1, <1>2, <1>4, <1>6, <1>7, <1>9, SpaceNat
      <3>2. CASE a = temp
        <4>1. size'[a] = rest
          BY <3>2, <1>4, <1>2, <1>7, <1>9
        <4>2. p + Header + size[p] <= Space
          BY <1>2 DEF NoOverlap
        <4> QED BY <3>2, <4>1, <4>2, <1>6
      <3>3. CASE a # p /\ a # temp
        BY <3>3, <1>7, <1>9 DEF NoOverlap
      <3> QED BY <3>1, <3>2, <3>3
    <2>2. ASSUME NEW a \in Blocks', NEW b \in Blocks', a < b
          PROVE  a + Header + size'[a] <= b
      <3>1. CASE a = p
        <4>1. size'[a] = len
          BY <3>1, <1>2, <1>7
        <4>2. b = temp \/ temp < b
          BY <2>2, <3>1, <1>5, <1>9
        <4> QED BY <3>1, <4>1, <4>2, <1>2, <1>4, <1>6, <1>n
      <3>2. CASE a = temp
        <4>1. size'[a] = rest /\ b \in Blocks /\ b > p
          BY <3>2, <2>2, <1>2, <1>4, <1>7, <1>9, <1>n
        <4>2. p + Header + size[p] <= b
          BY <4>1, <1>2 DEF NoOverlap
        <4> QED BY <3>2, <4>1, <4>2, <1>6
      <3>3. CASE a # p /\ a # temp
        <4>1. size'[a] = size[a] /\ a \in Blocks /\ a \in Nat /\ size[a] \in Nat
          BY <3>3, <1>7, <1>9 DEF TypeOK
        <4>2. CASE b \in Blocks
          BY <4>1, <4>2, <2>2 DEF NoOverlap
        <4>3. CASE b = temp
          <5>1. a < p \/ a > p
            BY <3>3, <4>1, <1>2
          <5>2. a < p
            BY <5>1, <4>1, <4>3, <2>2, <1>4, <1>5
          <5>3. a + Header + size[a] <= p
            BY <5>2, <4>1, <1>2 DEF NoOverlap
          <5> QED BY <5>3, <4>1, <4>3, <1>2, <1>4
        <4> QED BY <4>2, <4>3, <1>9
      <3> QED BY <3>1, <3>2, <3>3
    <2> QED BY <2>1, <2>2 DEF NoOverlap
  <1>12. UsageCountsRefs'
    <2>1. refs' = [refs EXCEPT ![p] = 1]
      BY <1>3, <1>r DEF Granted
    <2>2. refs[temp] <= 0 \/ temp \notin Addrs
      BY <1>6 DEF UsageCountsRefs, TypeOK
    <2> QED BY <1>2, <1>4, <1>8, <1>9, <1>r, <2>1, <2>2 DEF UsageCountsRefs, TypeOK
  <1>13. FreePtrNotLive'
    BY <1>3, <1>4, <1>8, <1>9, <1>2 DEF FreePtrNotLive, Cut
  <1>14. PendInv' /\ ScanInv'
    BY <1>1, <1>3 DEF PendInv, ScanInv, Granted, scan, Nil, NoReq
  <1>b. BootTableLive'
    BY <1>2, <1>3, <1>8, <1>9, <1>6 DEF BootTableLive, PendInv, Live, TypeOK, Cut, Granted
  <1> QED BY <1>b, <1>10, <1>11, <1>12, <1>13, <1>14

LEMMA DupWholeKeepsIInv ==
  ASSUME IInv, NEW p \in Addrs, DupWhole(p)
  PROVE  IInv'
  <1> USE SSMAssumption DEF IInv
  <1>1. pc = "dup" /\ p \in Fits
    BY DEF DupWhole
  <1>2. /\ p \in Blocks /\ p \in Nat /\ usage[p] = 0 /\ free \in Blocks
        /\ pend.text \in Texts /\ size[p] \in Nat
    BY <1>1, FitsFacts
  <1>3. /\ usage' = [usage EXCEPT ![free] = Down(@), ![p] = 1]
        /\ size' = size /\ Granted(p, size[p])
        /\ buf' = [buf EXCEPT ![p] = pend.text]
    BY DEF DupWhole
  <1>4. free' \in Blocks \cup {Nil} /\ (free' # Nil => usage'[free'] = 0)
    <2>1. PICK f \in Blocks \cup {Nil} :
             IsLeast(f, {b \in Blocks : b >= free /\ usage'[b] = 0}) /\ free' = f
      BY DEF DupWhole
    <2> QED BY <2>1 DEF IsLeast
  <1>5. usage[free] <= 0 /\ usage[free] \in Int
    BY <1>2 DEF FreePtrNotLive, TypeOK, Nil
  <1>6. Down(usage[free]) = -1
    BY <1>5 DEF Down
  <1>7. usage' = [b \in Blocks |-> IF b = p THEN 1 ELSE IF b = free THEN -1 ELSE usage[b]]
    BY <1>3, <1>6 DEF TypeOK
  <1>s. refs[p] = 0
    BY <1>2 DEF UsageCountsRefs, TypeOK
  <1>8. TypeOK'
    <2>1. usage' \in [Blocks -> -1 .. MaxRefs]
      <3>1. -1 \in -1 .. MaxRefs /\ 1 \in -1 .. MaxRefs
        OBVIOUS
      <3> QED BY <3>1, <1>7 DEF TypeOK
    <2>2. refs' \in [Addrs -> 0 .. MaxRefs]
      BY <1>3, <1>s DEF Granted, TypeOK
    <2>3. buf' \in [Blocks -> Texts \cup {NoText}]
      BY <1>2, <1>3 DEF TypeOK
    <2>4. p \in Blocks /\ size[p] \in Int /\ nAlloc \in Int /\ sAlloc \in Int
      BY <1>2 DEF TypeOK
    <2>5. nAlloc' \in Int /\ sAlloc' \in Int
      BY <1>3, <2>4 DEF Granted
    <2>6. hash' \subseteq Addrs
      BY <1>2, <1>3 DEF Granted, TypeOK
    <2> QED BY <1>3, <1>4, <2>1, <2>2, <2>3, <2>5, <2>6
            DEF Granted, TypeOK, overflow, scan, Blocks
  <1>9. NoOverlap'
    BY <1>3 DEF NoOverlap, Blocks
  <1>10. UsageCountsRefs'
    <2>1. refs' = [refs EXCEPT ![p] = 1]
      BY <1>3, <1>s DEF Granted
    <2>2. Blocks' = Blocks
      BY <1>3 DEF Blocks
    <2> QED BY <1>2, <1>5, <1>7, <2>1, <2>2 DEF UsageCountsRefs, TypeOK
  <1>11. FreePtrNotLive'
    BY <1>3, <1>4 DEF FreePtrNotLive, Blocks
  <1>12. PendInv' /\ ScanInv'
    BY <1>1, <1>3 DEF PendInv, ScanInv, Granted, scan, Nil, NoReq
  <1>b. BootTableLive'
    BY <1>2, <1>3, <1>5, <1>7 DEF BootTableLive, PendInv, Live, TypeOK, Granted, Blocks
  <1> QED BY <1>b, <1>8, <1>9, <1>10, <1>11, <1>12

LEMMA DupFailsKeepsIInv ==
  ASSUME IInv, DupFails
  PROVE  IInv'
  <1> USE SSMAssumption DEF IInv, DupFails, heap, counters, overflow, table, scan
  <1>1. TypeOK'
    BY DEF TypeOK, Blocks, Nil
  <1>2. NoOverlap' /\ UsageCountsRefs'
    BY DEF NoOverlap, UsageCountsRefs, Blocks
  <1>3. FreePtrNotLive' /\ PendInv'
    BY DEF FreePtrNotLive, PendInv, Blocks
  <1>4. ScanInv'
    BY DEF ScanInv, Blocks, Nil
  <1>b. BootTableLive'
    BY DEF BootTableLive, Live, Blocks
  <1> QED BY <1>b, <1>1, <1>2, <1>3, <1>4

LEMMA DupOverflowKeepsIInv ==
  ASSUME IInv, NEW o \in OverIds, DupOverflow(o)
  PROVE  IInv'
  <1> USE SSMAssumption DEF IInv, DupOverflow, heap, counters, scan
  <1>1. pend.text \in Texts /\ Bytes[pend.text] \in Nat
    BY DEF PendInv, Request
  <1>2. TypeOK'
    BY <1>1 DEF TypeOK, Blocks
  <1>3. NoOverlap' /\ UsageCountsRefs' /\ FreePtrNotLive'
    BY DEF NoOverlap, UsageCountsRefs, FreePtrNotLive, Blocks
  <1>4. PendInv' /\ ScanInv'
    BY DEF PendInv, ScanInv, Blocks, NoReq
  <1>b. BootTableLive'
    BY DEF BootTableLive, Live, Blocks
  <1> QED BY <1>b, <1>2, <1>3, <1>4

-----------------------------------------------------------------------------
(***************************************************************************)
(* defrag_heap.                                                            *)
(***************************************************************************)
LEMMA DoMemoryDefragKeepsIInv ==
  ASSUME IInv, DoMemoryDefrag
  PROVE  IInv'
  <1> USE SSMAssumption DEF IInv, DoMemoryDefrag, heap, counters, overflow, table, scan
  <1>1. TypeOK'
    BY DEF TypeOK, Blocks, Nil
  <1>2. NoOverlap' /\ UsageCountsRefs' /\ FreePtrNotLive' /\ PendInv'
    BY DEF NoOverlap, UsageCountsRefs, FreePtrNotLive, PendInv, Blocks
  <1>3. ScanInv'
    BY DEF ScanInv, Blocks, Nil
  <1>b. BootTableLive'
    BY DEF BootTableLive, Live, Blocks
  <1> QED BY <1>b, <1>1, <1>2, <1>3

\* After Advance no header lies between the old and the new place of the walk.
LEMMA AdvanceFacts ==
  ASSUME IInv, walk # Nil, Advance
  PROVE  /\ walk' \in Blocks \cup {Nil}
         /\ walk' # Nil => walk' \in Blocks /\ walk < walk'
         /\ \A c \in Blocks : c > walk => walk' # Nil /\ walk' <= c
  <1>1. PICK n \in Blocks \cup {Nil} :
           IsLeast(n, {b \in Blocks : b > walk}) /\ walk' = n
    BY DEF Advance
  <1>2. walk \in Nat /\ Blocks \subseteq Nat
    BY SpaceNat DEF IInv, TypeOK
  <1>3. \A c \in Blocks : c > walk => n # Nil /\ n <= c
    BY <1>1, <1>2 DEF IsLeast, Nil
  <1>4. n # Nil => n > walk
    BY <1>1 DEF IsLeast
  <1> QED BY <1>1, <1>2, <1>3, <1>4 DEF Nil

LEMMA DefragUsedKeepsIInv ==
  ASSUME IInv, DefragUsed
  PROVE  IInv'
  <1>1. walk # Nil /\ Advance /\ pc = "defrag"
    BY DEF DefragUsed
  <1>2. /\ walk' \in Blocks \cup {Nil}
        /\ walk' # Nil => walk < walk'
    BY <1>1, AdvanceFacts
  <1>3. walk \in Nat /\ Blocks \subseteq Nat
    BY <1>1, SpaceNat DEF IInv, TypeOK
  <1> USE SSMAssumption DEF IInv, DefragUsed, heap, counters, overflow, table
  <1>4. TypeOK'
    BY <1>2 DEF TypeOK, Blocks
  <1>5. NoOverlap' /\ UsageCountsRefs' /\ FreePtrNotLive' /\ PendInv'
    BY DEF NoOverlap, UsageCountsRefs, FreePtrNotLive, PendInv, Blocks
  <1>6. ScanInv'
    <2>1. free # Nil /\ walk' # Nil => free < walk'
      BY <1>1, <1>2, <1>3 DEF ScanInv, TypeOK, Nil
    <2> QED BY <1>1, <2>1 DEF ScanInv
  <1>b. BootTableLive'
    BY DEF BootTableLive, Live, Blocks
  <1> QED BY <1>b, <1>4, <1>5, <1>6

LEMMA DefragFirstFreeKeepsIInv ==
  ASSUME IInv, DefragFirstFree
  PROVE  IInv'
  <1>1. walk # Nil /\ Advance /\ pc = "defrag"
    BY DEF DefragFirstFree
  <1>2. /\ walk' \in Blocks \cup {Nil}
        /\ walk' # Nil => walk < walk'
        /\ \A c \in Blocks : c > walk => walk' # Nil /\ walk' <= c
    BY <1>1, AdvanceFacts
  <1>3. walk \in Nat /\ walk \in Blocks /\ Blocks \subseteq Nat
    BY <1>1, SpaceNat DEF IInv, TypeOK
  <1> USE SSMAssumption DEF IInv, DefragFirstFree, heap, counters, overflow, table
  <1>4. TypeOK'
    BY <1>2, <1>3 DEF TypeOK, Blocks
  <1>5. NoOverlap' /\ UsageCountsRefs' /\ PendInv'
    BY DEF NoOverlap, UsageCountsRefs, PendInv, Blocks
  <1>6. FreePtrNotLive'
    BY <1>3 DEF FreePtrNotLive, Blocks
  <1>7. ScanInv'
    <2>1. free' # Nil /\ walk' # Nil => free' < walk'
      BY <1>1, <1>2, <1>3 DEF ScanInv, TypeOK, Nil
    <2> QED BY <1>1, <1>2, <2>1 DEF ScanInv, Blocks
  <1>b. BootTableLive'
    BY DEF BootTableLive, Live, Blocks
  <1> QED BY <1>b, <1>4, <1>5, <1>6, <1>7

LEMMA DefragTooBigKeepsIInv ==
  ASSUME IInv, DefragTooBig
  PROVE  IInv'
  <1>1. walk # Nil /\ Advance /\ pc = "defrag"
    BY DEF DefragTooBig
  <1>2. /\ walk' \in Blocks \cup {Nil}
        /\ walk' # Nil => walk < walk'
        /\ \A c \in Blocks : c > walk => walk' # Nil /\ walk' <= c
    BY <1>1, AdvanceFacts
  <1>3. walk \in Nat /\ walk \in Blocks /\ Blocks \subseteq Nat
    BY <1>1, SpaceNat DEF IInv, TypeOK
  <1> USE SSMAssumption DEF IInv, DefragTooBig, heap, counters, overflow, table
  <1>4. TypeOK'
    BY <1>2, <1>3 DEF TypeOK, Blocks
  <1>5. NoOverlap' /\ UsageCountsRefs' /\ FreePtrNotLive' /\ PendInv'
    BY DEF NoOverlap, UsageCountsRefs, FreePtrNotLive, PendInv, Blocks
  <1>6. ScanInv'
    <2>1. free' # Nil /\ walk' # Nil => free' < walk'
      BY <1>1, <1>2, <1>3 DEF ScanInv, TypeOK, Nil
    <2> QED BY <1>1, <1>2, <2>1 DEF ScanInv, Blocks
  <1>b. BootTableLive'
    BY DEF BootTableLive, Live, Blocks
  <1> QED BY <1>b, <1>4, <1>5, <1>6

\* A merge swallows the header and the bytes of walk, which lie between last_free and
\* the next header; the stored size may be smaller, never larger.
LEMMA DefragMergeKeepsIInv ==
  ASSUME IInv, DefragMerge
  PROVE  IInv'
  <1> DEFINE sum == size[last] + size[walk] + Header
  <1> USE SSMAssumption DEF IInv
  <1>1. walk # Nil /\ last # Nil /\ Advance /\ pc = "defrag" /\ usage[walk] <= 0
    BY DEF DefragMerge
  <1>2. /\ walk' \in Blocks \cup {Nil}
        /\ walk' # Nil => walk' \in Blocks /\ walk < walk'
        /\ \A c \in Blocks : c > walk => walk' # Nil /\ walk' <= c
    BY <1>1, AdvanceFacts
  <1>3. /\ walk \in Blocks /\ last \in Blocks /\ Blocks \subseteq Nat /\ last < walk
        /\ usage[last] <= 0
        /\ \A c \in Blocks : c > last => walk <= c
    BY <1>1, SpaceNat DEF TypeOK, ScanInv
  <1>4. size[walk] \in Nat /\ size[last] \in Nat /\ sum \in Nat
    BY <1>3 DEF TypeOK
  <1>5. Short(sum) \in 0 .. SizeMod - 1 /\ Short(sum) <= sum
    BY <1>4, ShortRange
  <1>6. /\ size' = [b \in Blocks \ {walk} |-> IF b = last THEN Short(sum) ELSE size[b]]
        /\ usage' = [b \in Blocks \ {walk} |-> IF b = last THEN 0 ELSE usage[b]]
        /\ buf' = [b \in Blocks \ {walk} |-> buf[b]]
    BY DEF DefragMerge
  <1>7. Blocks' = Blocks \ {walk}
    BY <1>6 DEF Blocks
  <1>8. free \in Blocks' \cup {Nil} /\ free' = free
    BY <1>1, <1>3, <1>7 DEF DefragMerge, TypeOK, ScanInv
  <1>9. UNCHANGED <<numFree, counters, overflow, table, phase, pc, pend, last, refs>>
        /\ merges' = 1
    BY DEF DefragMerge
  <1>w. walk' \in Blocks' \cup {Nil}
    BY <1>2, <1>3, <1>7
  <1> HIDE DEF sum
  <1>10. TypeOK'
    <2>1. size' \in [Blocks' -> 0 .. SizeMod - 1]
      BY <1>5, <1>6, <1>7 DEF TypeOK
    <2>2. usage' \in [Blocks' -> -1 .. MaxRefs]
      <3>1. 0 \in -1 .. MaxRefs
        OBVIOUS
      <3> QED BY <3>1, <1>6, <1>7 DEF TypeOK
    <2>3. buf' \in [Blocks' -> Texts \cup {NoText}]
      BY <1>6, <1>7 DEF TypeOK
    <2>4. Blocks' \subseteq 0 .. Space - 1 /\ 0 \in Blocks'
      BY <1>3, <1>7 DEF TypeOK
    <2>5. last' \in Blocks' \cup {Nil}
      BY <1>3, <1>7, <1>9
    <2> QED BY <1>8, <1>9, <1>w, <2>1, <2>2, <2>3, <2>4, <2>5
            DEF TypeOK, counters, overflow, table
  <1>11. NoOverlap'
    <2>1. last + Header + size[last] <= walk
      BY <1>3 DEF NoOverlap
    <2>2. ASSUME NEW a \in Blocks' PROVE a + Header + size'[a] <= Space
      <3>1. CASE a = last
        <4>1. walk + Header + size[walk] <= Space
          BY <1>3 DEF NoOverlap
        <4> QED BY <3>1, <4>1, <2>1, <1>3, <1>4, <1>5, <1>6, <1>7, SpaceNat DEF sum
      <3>2. CASE a # last
        BY <3>2, <1>6, <1>7 DEF NoOverlap
      <3> QED BY <3>1, <3>2
    <2>3. ASSUME NEW a \in Blocks', NEW b \in Blocks', a < b
          PROVE  a + Header + size'[a] <= b
      <3>1. CASE a = last
        <4>1. b \in Nat /\ walk < b
          BY <3>1, <2>3, <1>3, <1>7
        <4>2. walk + Header + size[walk] <= b
          BY <4>1, <1>3, <1>7 DEF NoOverlap
        <4> QED BY <3>1, <4>1, <4>2, <2>1, <1>3, <1>4, <1>5, <1>6, <1>7 DEF sum
      <3>2. CASE a # last
        BY <3>2, <2>3, <1>6, <1>7 DEF NoOverlap
      <3> QED BY <3>1, <3>2
    <2> QED BY <2>2, <2>3 DEF NoOverlap
  <1>12. UsageCountsRefs'
    <2>1. refs' = refs
      BY <1>9
    <2> QED BY <1>1, <1>3, <1>6, <1>7, <2>1 DEF UsageCountsRefs, TypeOK
  <1>13. FreePtrNotLive'
    BY <1>6, <1>7, <1>8 DEF FreePtrNotLive
  <1>14. PendInv'
    <2>1. hash' = hash /\ pend' = pend /\ phase' = phase /\ pc' = pc
      BY <1>9 DEF table
    <2>2. usage[walk] \in Int
      BY <1>3 DEF TypeOK
    <2>3. phase = "load" => \A a \in hash : a \in Blocks \ {walk}
      BY <1>1, <2>2 DEF BootTableLive, Live
    <2>4. phase = "load" => \A a \in hash : buf'[a] = buf[a]
      BY <2>3, <1>6
    <2> QED BY <2>1, <2>4, <1>1 DEF PendInv
  <1>15. ScanInv'
    <2>1. last' = last /\ pc' = "defrag" /\ usage'[last] = 0
      BY <1>1, <1>3, <1>6, <1>9
    <2>2. walk' # Nil => last < walk'
      BY <1>2, <1>3
    <2>3. \A c \in Blocks' : c > last => walk' # Nil /\ walk' <= c
      BY <1>2, <1>3, <1>7
    <2>4. free' # Nil /\ walk' # Nil => free' < walk'
      BY <1>1, <1>2, <1>3, <1>8 DEF ScanInv, TypeOK, Nil
    <2> QED BY <2>1, <2>2, <2>3, <2>4 DEF ScanInv
  <1>b. BootTableLive'
    BY <1>1, <1>3, <1>6, <1>7, <1>9 DEF BootTableLive, Live, TypeOK, table
  <1> QED BY <1>b, <1>10, <1>11, <1>12, <1>13, <1>14, <1>15

LEMMA DefragDoneKeepsIInv ==
  ASSUME IInv, DefragDone
  PROVE  IInv'
  <1> USE SSMAssumption DEF IInv, DefragDone, heap, counters, overflow, table
  <1>1. TypeOK'
    BY DEF TypeOK, Blocks
  <1>2. NoOverlap' /\ UsageCountsRefs' /\ FreePtrNotLive'
    BY DEF NoOverlap, UsageCountsRefs, FreePtrNotLive, Blocks
  <1>3. PendInv' /\ ScanInv'
    BY DEF PendInv, ScanInv, TypeOK, Blocks
  <1>b. BootTableLive'
    BY DEF BootTableLive, Live, Blocks
  <1> QED BY <1>b, <1>1, <1>2, <1>3

LEMMA PhaseKeepsIInv ==
  ASSUME IInv, NEW from, NEW to \in {"run", "getall"}, Phase(from, to)
  PROVE  IInv'
  <1> USE SSMAssumption DEF IInv, Phase, heap, counters, overflow, table, scan
  <1>1. TypeOK'
    BY DEF TypeOK, Blocks
  <1>2. NoOverlap' /\ UsageCountsRefs' /\ FreePtrNotLive'
    BY DEF NoOverlap, UsageCountsRefs, FreePtrNotLive, Blocks
  <1>3. PendInv' /\ ScanInv'
    BY DEF PendInv, ScanInv, Blocks
  <1>b. BootTableLive'
    BY DEF BootTableLive, Live, Blocks
  <1> QED BY <1>b, <1>1, <1>2, <1>3

-----------------------------------------------------------------------------
(***************************************************************************)
(* The theorems.  A client that dups a string it freed breaks the manager  *)
(* (src/src/ssm.c:189-192), so none does here; a double free is allowed.   *)
(***************************************************************************)
LEMMA NextKeepsIInv ==
  ASSUME "dup" \notin Misuse, IInv, [Next]_vars
  PROVE  IInv'
  <1>1. ASSUME NEW t \in Texts, StrDup(t) PROVE IInv'
    BY <1>1, AskKeepsIInv DEF StrDup
  <1>2. ASSUME NEW t \in FileTexts, FreadString(t) PROVE IInv'
    <2>1. t \in Texts /\ pc = "idle" /\ phase # "getall"
      BY <1>2, SSMAssumption DEF FreadString
    <2>2. CASE fBootDb /\ \E a \in HeapHits(t) : CountUp(a)
      <3>1. PICK a \in HeapHits(t) : CountUp(a)
        BY <2>2
      <3>2. a \in Live /\ a \in Addrs /\ phase = "load"
        BY <2>1, <2>2 DEF HeapHits, IInv, TypeOK, BootTableLive, fBootDb
      <3>3. refs[a] > 0
        BY <3>2 DEF IInv, TypeOK, UsageCountsRefs, Live
      <3> QED BY <3>1, <3>2, <3>3, <2>1, CountUpKeepsIInv DEF Live
    <2>3. CASE Ask(t, FALSE)
      BY <2>1, <2>3, AskKeepsIInv
    <2>4. CASE ~SureHit(t) /\ Ask(t, TRUE)
      BY <2>1, <2>4, AskKeepsIInv
    <2> QED BY <1>2, <2>2, <2>3, <2>4 DEF FreadString
  <1>3. ASSUME NEW a \in Addrs, StrDupHeap(a) PROVE IInv'
    BY <1>3, CountUpKeepsIInv DEF StrDupHeap
  <1>4. ASSUME NEW a \in Addrs, FreeString(a) PROVE IInv'
    BY <1>4, FreeStringKeepsIInv
  <1>5. ASSUME NEW o \in OverIds, FreeOverflow(o) PROVE IInv'
    BY <1>5, FreeOverflowKeepsIInv
  <1>6. CASE DoMemoryDefrag
    BY <1>6, DoMemoryDefragKeepsIInv
  <1>7. CASE BootEnds \/ GetAll \/ GetAllEnd
    BY <1>7, PhaseKeepsIInv DEF BootEnds, GetAll, GetAllEnd
  <1>8. ASSUME NEW p \in Addrs, DupSplit(p) PROVE IInv'
    BY <1>8, DupSplitKeepsIInv
  <1>9. ASSUME NEW p \in Addrs, DupWhole(p) PROVE IInv'
    BY <1>9, DupWholeKeepsIInv
  <1>10. ASSUME NEW o \in OverIds, DupOverflow(o) PROVE IInv'
    BY <1>10, DupOverflowKeepsIInv
  <1>11. CASE DupFails
    BY <1>11, DupFailsKeepsIInv
  <1>12. CASE Defrag
    BY <1>12, DefragUsedKeepsIInv, DefragFirstFreeKeepsIInv, DefragMergeKeepsIInv,
       DefragTooBigKeepsIInv, DefragDoneKeepsIInv DEF Defrag
  <1>13. CASE UNCHANGED vars
    <2> USE <1>13 DEF vars, heap, counters, overflow, table, scan, IInv
    <2>1. TypeOK' /\ NoOverlap' /\ UsageCountsRefs' /\ FreePtrNotLive'
      BY DEF TypeOK, NoOverlap, UsageCountsRefs, FreePtrNotLive, Blocks
    <2>2. BootTableLive' /\ PendInv' /\ ScanInv'
      BY DEF BootTableLive, Live, PendInv, ScanInv, Blocks
    <2> QED BY <2>1, <2>2
  <1> QED BY <1>1, <1>2, <1>3, <1>4, <1>5, <1>6, <1>7, <1>8, <1>9, <1>10, <1>11,
             <1>12, <1>13 DEF Next, Client, Call

LEMMA InductiveInvariant == ASSUME "dup" \notin Misuse PROVE Spec => []IInv
  <1>1. Init => IInv
    BY InitIInv
  <1>2. IInv /\ [Next]_vars => IInv'
    BY NextKeepsIInv
  <1> QED BY <1>1, <1>2, PTL DEF Spec

\* Every variable keeps the shape the code gives it.
THEOREM TypeCorrect == ASSUME "dup" \notin Misuse PROVE Spec => []TypeOK
  <1>1. IInv => TypeOK
    BY DEF IInv
  <1> QED BY <1>1, InductiveInvariant, PTL

\* No string ever shares bytes with another, for every heap and every history.
THEOREM BlocksDisjoint == ASSUME "dup" \notin Misuse PROVE Spec => []NoOverlap
  <1>1. IInv => NoOverlap
    BY DEF IInv
  <1> QED BY <1>1, InductiveInvariant, PTL

\* A string lives exactly as long as somebody holds a pointer to it.
THEOREM HeldStringsLive == ASSUME "dup" \notin Misuse PROVE Spec => []UsageCountsRefs
  <1>1. IInv => UsageCountsRefs
    BY DEF IInv
  <1> QED BY <1>1, InductiveInvariant, PTL

\* ssm_buf_free is never a string in use.
THEOREM FreePtrSafe == ASSUME "dup" \notin Misuse PROVE Spec => []FreePtrNotLive
  <1>1. IInv => FreePtrNotLive
    BY DEF IInv
  <1> QED BY <1>1, InductiveInvariant, PTL

\* During the boot the table holds live, distinct strings of the space.
THEOREM BootTableSound == ASSUME "dup" \notin Misuse PROVE Spec => []BootTableLive
  <1>1. IInv => BootTableLive
    BY DEF IInv
  <1> QED BY <1>1, InductiveInvariant, PTL

-----------------------------------------------------------------------------
(***************************************************************************)
(* The manager implements the store of counted strings: a step of the heap *)
(* is one of New, Share and Release, or the clients cannot see it.         *)
(***************************************************************************)

\* What a handle of the store stands for.
Entry(h) == IF h[1] = "space" THEN [text |-> buf[h[2]], count |-> usage[h[2]]]
                              ELSE [text |-> over[h[2]], count |-> 1]

\* Two addresses never give one handle, and no address in the space is malloc's.
LEMMA HandlesApart ==
  /\ \A a, b : Inside(a) = Inside(b) => a = b
  /\ \A a, b : Outside(a) = Outside(b) => a = b
  /\ \A a, b : Inside(a) # Outside(b)
  /\ \A a : Inside(a)[1] = "space" /\ Inside(a)[2] = a
  /\ \A a : Outside(a)[1] = "malloc" /\ Outside(a)[2] = a
  BY DEF Inside, Outside

\* A handle is in use when its block is live, or its overflow string not freed.
LEMMA InUseIff ==
  /\ \A a : Inside(a) \in InUse <=> a \in Live
  /\ \A o \in OverIds : Outside(o) \in InUse <=> over[o] # NoText
  /\ \A h \in InUse : \/ \E a \in Live : h = Inside(a)
                      \/ \E o \in OverIds : h = Outside(o) /\ over[o] # NoText
  BY HandlesApart DEF InUse

\* The same, in the next state.
LEMMA InUseIffNext ==
  /\ \A a : Inside(a) \in InUse' <=> a \in Live'
  /\ \A o \in OverIds : Outside(o) \in InUse' <=> over'[o] # NoText
  /\ \A h \in InUse' : \/ \E a \in Live' : h = Inside(a)
                       \/ \E o \in OverIds : h = Outside(o) /\ over'[o] # NoText
  BY HandlesApart DEF InUse

\* The store as a function of its handles.
LEMMA StoredIs ==
  /\ Stored = [h \in InUse |-> Entry(h)]
  /\ Stored' = [h \in InUse' |-> Entry(h)']
  BY DEF Stored, Entry

\* A step that leaves the strings in use alone is invisible.
LEMMA Invisible ==
  ASSUME Live' = Live, over' = over,
         \A a \in Live : usage'[a] = usage[a] /\ buf'[a] = buf[a]
  PROVE  Stored' = Stored
  <1>1. InUse' = InUse
    BY DEF InUse
  <1>2. ASSUME NEW h \in InUse PROVE Entry(h)' = Entry(h)
    <2>1. CASE \E a \in Live : h = Inside(a)
      BY <2>1, HandlesApart DEF Entry
    <2>2. CASE \E o \in OverIds : h = Outside(o) /\ over[o] # NoText
      BY <2>2, HandlesApart DEF Entry
    <2> QED BY <2>1, <2>2, InUseIff
  <1> QED BY <1>1, <1>2, StoredIs

\* A heap that gets one live block p more, and loses none, is a New.
LEMMA NewInside ==
  ASSUME NEW p \in Addrs, NEW t \in Texts, p \notin Live, over' = over,
         Live' = Live \cup {p}, usage'[p] = 1, buf'[p] = t,
         \A a \in Live : usage'[a] = usage[a] /\ buf'[a] = buf[a]
  PROVE  Abs!Next
  <1>1. Inside(p) \notin InUse /\ Inside(p) \in Handles
    BY InUseIff DEF Handles
  <1>2. InUse' = InUse \cup {Inside(p)}
    BY DEF InUse
  <1>3. Entry(Inside(p))' = [text |-> t, count |-> 1]
    BY HandlesApart DEF Entry
  <1>4. ASSUME NEW h \in InUse PROVE Entry(h)' = Entry(h)
    <2>1. CASE \E a \in Live : h = Inside(a)
      BY <2>1, HandlesApart DEF Entry
    <2>2. CASE \E o \in OverIds : h = Outside(o) /\ over[o] # NoText
      BY <2>2, HandlesApart DEF Entry
    <2> QED BY <2>1, <2>2, InUseIff
  <1>5. DOMAIN Stored = InUse /\ \A h \in InUse : Stored[h] = Entry(h)
    BY StoredIs
  <1>6. Abs!New(Inside(p), t)
    BY <1>1, <1>2, <1>3, <1>4, <1>5, StoredIs DEF Abs!New, Abs!Held
  <1> QED BY <1>1, <1>6 DEF Abs!Next

\* Entries of live blocks and of overflow strings, in this state and in the next.
LEMMA EntriesAre ==
  /\ \A a : Entry(Inside(a)) = [text |-> buf[a], count |-> usage[a]]
  /\ \A a : Entry(Inside(a))' = [text |-> buf'[a], count |-> usage'[a]]
  /\ \A o : Entry(Outside(o)) = [text |-> over[o], count |-> 1]
  /\ \A o : Entry(Outside(o))' = [text |-> over'[o], count |-> 1]
  BY HandlesApart DEF Entry

\* str_dup of a string in use is a Share.
LEMMA CountUpShares ==
  ASSUME IInv, NEW a \in Addrs, a \in Live, CountUp(a)
  PROVE  Abs!Next
  <1> USE DEF CountUp, overflow
  <1>1. a \in Blocks /\ usage[a] \in Nat /\ usage[a] > 0 /\ usage \in [Blocks -> -1 .. MaxRefs]
    BY SSMAssumption DEF Live, IInv, TypeOK
  <1>2. usage' = [usage EXCEPT ![a] = usage[a] + 1] /\ buf' = buf /\ over' = over
    <2>1. (IF usage[a] <= 0 THEN 1 ELSE usage[a] + 1) = usage[a] + 1
      BY <1>1
    <2> QED BY <2>1
  <1>3. Live' = Live
    BY <1>1, <1>2 DEF Live, Blocks
  <1>4. InUse' = InUse
    BY <1>2, <1>3 DEF InUse
  <1>5. Inside(a) \in InUse /\ Inside(a) \in Handles
    BY InUseIff DEF Handles
  <1>6. /\ Entry(Inside(a)) = [text |-> buf[a], count |-> usage[a]]
        /\ Entry(Inside(a))' = [text |-> buf[a], count |-> usage[a] + 1]
    BY <1>1, <1>2, EntriesAre
  <1>7. ASSUME NEW h \in InUse, h # Inside(a) PROVE Entry(h)' = Entry(h)
    <2>1. CASE \E b \in Live : h = Inside(b)
      <3>1. PICK b \in Live : h = Inside(b)
        BY <2>1
      <3>2. usage'[b] = usage[b]
        BY <1>1, <1>2, <1>7, <3>1 DEF Live
      <3> QED BY <1>2, <3>1, <3>2, EntriesAre
    <2>2. CASE \E o \in OverIds : h = Outside(o) /\ over[o] # NoText
      BY <1>2, <2>2, EntriesAre
    <2> QED BY <2>1, <2>2, InUseIff
  <1>8. DOMAIN Stored = InUse /\ Stored[Inside(a)] = Entry(Inside(a))
    BY <1>5, StoredIs
  <1>9. Stored' = Abs!Counted(Inside(a), usage[a] + 1)
    BY <1>4, <1>5, <1>6, <1>7, <1>8, StoredIs DEF Abs!Counted
  <1>10. Abs!Share(Inside(a))
    BY <1>5, <1>6, <1>8, <1>9 DEF Abs!Share, Abs!Held
  <1> QED BY <1>5, <1>10 DEF Abs!Next

\* free_string of a pointer into the space is a Release, the last one included; of a
\* string nobody holds it is invisible.
LEMMA FreeStringReleases ==
  ASSUME IInv, NEW a \in Addrs, FreeString(a)
  PROVE  Abs!Next \/ Stored' = Stored
  <1> USE DEF FreeString, overflow
  <1>1. /\ a \in Blocks /\ usage[a] \in -1 .. MaxRefs /\ usage \in [Blocks -> -1 .. MaxRefs]
        /\ usage' = [usage EXCEPT ![a] = Down(usage[a])] /\ buf' = buf /\ over' = over
        /\ Blocks' = Blocks
    BY DEF IInv, TypeOK, Blocks
  <1>2. ASSUME NEW b \in Blocks, b # a PROVE usage'[b] = usage[b]
    BY <1>1, <1>2
  <1>3. ASSUME NEW h \in InUse, h # Inside(a) PROVE Entry(h)' = Entry(h)
    <2>1. CASE \E b \in Live : h = Inside(b)
      <3>1. PICK b \in Live : h = Inside(b)
        BY <2>1
      <3>2. usage'[b] = usage[b]
        BY <1>2, <1>3, <3>1 DEF Live
      <3> QED BY <1>1, <3>1, <3>2, EntriesAre
    <2>2. CASE \E o \in OverIds : h = Outside(o) /\ over[o] # NoText
      BY <1>1, <2>2, EntriesAre
    <2> QED BY <2>1, <2>2, InUseIff
  <1>4. CASE usage[a] <= 0
    <2>1. usage'[a] = -1
      BY <1>1, <1>4 DEF Down
    <2>2. Live' = Live /\ a \notin Live
      BY <1>1, <1>2, <1>4, <2>1 DEF Live
    <2>3. \A b \in Live : usage'[b] = usage[b] /\ buf'[b] = buf[b]
      BY <1>1, <1>2, <2>2 DEF Live
    <2> QED BY <1>1, <2>2, <2>3, Invisible
  <1>5. CASE usage[a] > 0
    <2>1. usage'[a] = usage[a] - 1 /\ usage[a] \in Nat /\ a \in Live
      BY <1>1, <1>5 DEF Down, Live
    <2>2. Inside(a) \in InUse /\ Inside(a) \in Handles
      BY <2>1, InUseIff DEF Handles
    <2>3. DOMAIN Stored = InUse /\ \A h \in InUse : Stored[h] = Entry(h)
      BY StoredIs
    <2>4. /\ Entry(Inside(a)) = [text |-> buf[a], count |-> usage[a]]
          /\ Entry(Inside(a)).count = usage[a]
      BY EntriesAre
    <2>5. CASE usage[a] = 1
      <3>1. Live' = Live \ {a}
        BY <1>1, <1>2, <2>1, <2>5 DEF Live
      <3>2. InUse' = InUse \ {Inside(a)}
        BY <1>1, <3>1, HandlesApart DEF InUse
      <3>3. Stored' = [h \in InUse \ {Inside(a)} |-> Stored[h]]
        BY <1>3, <2>3, <3>2, StoredIs
      <3>4. Abs!Release(Inside(a))
        BY <2>2, <2>3, <2>4, <2>5, <3>3 DEF Abs!Release, Abs!Held
      <3> QED BY <2>2, <3>4 DEF Abs!Next
    <2>6. CASE usage[a] > 1
      <3>1. Live' = Live
        BY <1>1, <1>2, <2>1, <2>6 DEF Live
      <3>2. InUse' = InUse
        BY <1>1, <3>1 DEF InUse
      <3>3. Entry(Inside(a))' = [text |-> buf[a], count |-> usage[a] - 1]
        BY <1>1, <2>1, EntriesAre
      <3>4. Stored' = Abs!Counted(Inside(a), usage[a] - 1)
        BY <1>3, <2>2, <2>3, <2>4, <3>2, <3>3, StoredIs DEF Abs!Counted
      <3>5. Abs!Release(Inside(a))
        BY <2>2, <2>3, <2>4, <2>6, <3>4 DEF Abs!Release, Abs!Held
      <3> QED BY <2>2, <3>5 DEF Abs!Next
    <2> QED BY <2>1, <1>5, <2>5, <2>6
  <1> QED BY <1>1, <1>4, <1>5


\* The block str_dup cuts, or takes whole, is a New: nobody held it.
LEMMA DupSplitGives ==
  ASSUME IInv, NEW p \in Addrs, DupSplit(p)
  PROVE  Abs!Next
  <1> DEFINE len  == Need(pend.text)
             temp == p + Header + len
             rest == size[p] - (len + Header)
  <1>1. /\ p \in Fits /\ pc = "dup" /\ size[p] - len >= Header + 8
        /\ Cut(p, temp, len, rest) /\ over' = over
    BY DEF DupSplit, Granted, overflow
  <1>2. /\ p \in Blocks /\ p \in Nat /\ usage[p] = 0 /\ len \in Nat
        /\ pend.text \in Texts /\ size[p] \in Nat
    BY <1>1, FitsFacts
  <1>3. temp \in Nat /\ p < temp /\ temp < p + Header + size[p]
    BY <1>1, <1>2, SSMAssumption
  <1> HIDE DEF len, temp, rest
  <1>4. temp \notin Blocks
    <2>1. \A b \in Blocks : b > p => temp < b
      <3> SUFFICES ASSUME NEW b \in Blocks, b > p PROVE temp < b
        OBVIOUS
      <3>1. p + Header + size[p] <= b /\ b \in Nat
        BY <1>2 DEF IInv, NoOverlap, TypeOK
      <3> QED BY <3>1, <1>2, <1>3, SSMAssumption
    <2> QED BY <2>1, <1>2, <1>3
  <1>5. /\ Blocks' = Blocks \cup {temp}
        /\ usage' = [b \in Blocks \cup {temp} |->
                        IF b = p THEN 1 ELSE IF b = temp THEN 0 ELSE usage[b]]
        /\ buf' = [b \in Blocks \cup {temp} |->
                      IF b = p THEN pend.text ELSE IF b = temp THEN NoText ELSE buf[b]]
    BY <1>1 DEF Cut, Blocks
  <1>6. usage \in [Blocks -> -1 .. MaxRefs]
    BY DEF IInv, TypeOK
  <1>7. p \notin Live /\ Live' = Live \cup {p}
    BY <1>2, <1>3, <1>4, <1>5, <1>6 DEF Live
  <1>8. \A a \in Live : usage'[a] = usage[a] /\ buf'[a] = buf[a]
    BY <1>4, <1>5, <1>7 DEF Live
  <1>9. usage'[p] = 1 /\ buf'[p] = pend.text
    BY <1>2, <1>5
  <1> QED BY <1>1, <1>2, <1>7, <1>8, <1>9, NewInside

LEMMA DupWholeGives ==
  ASSUME IInv, NEW p \in Addrs, DupWhole(p)
  PROVE  Abs!Next
  <1>1. /\ p \in Fits /\ pc = "dup" /\ size' = size /\ over' = over
        /\ usage' = [usage EXCEPT ![free] = Down(@), ![p] = 1]
        /\ buf' = [buf EXCEPT ![p] = pend.text]
    BY DEF DupWhole, Granted, overflow
  <1>2. /\ p \in Blocks /\ usage[p] = 0 /\ free \in Blocks /\ free # Nil
        /\ pend.text \in Texts
    BY <1>1, FitsFacts DEF Fits
  <1>3. usage \in [Blocks -> -1 .. MaxRefs] /\ buf \in [Blocks -> Texts \cup {NoText}]
    BY DEF IInv, TypeOK
  <1>4. usage[free] <= 0 /\ Down(usage[free]) = -1
    BY <1>2, <1>3 DEF IInv, FreePtrNotLive, Down
  <1>5. usage' = [b \in Blocks |-> IF b = p THEN 1 ELSE IF b = free THEN -1 ELSE usage[b]]
    BY <1>1, <1>3, <1>4
  <1>6. Blocks' = Blocks
    BY <1>1 DEF Blocks
  <1>7. p \notin Live /\ Live' = Live \cup {p}
    BY <1>2, <1>3, <1>4, <1>5, <1>6 DEF Live
  <1>8. \A a \in Live : usage'[a] = usage[a] /\ buf'[a] = buf[a]
    BY <1>1, <1>3, <1>4, <1>5, <1>7 DEF Live
  <1>9. usage'[p] = 1 /\ buf'[p] = pend.text
    BY <1>1, <1>2, <1>3, <1>5
  <1> QED BY <1>1, <1>2, <1>7, <1>8, <1>9, NewInside

\* malloc returns an address that is not in use.
LEMMA DupOverflowGives ==
  ASSUME IInv, NEW o \in OverIds, DupOverflow(o)
  PROVE  Abs!Next
  <1>1. /\ over[o] = NoText /\ pc = "full"
        /\ over' = [over EXCEPT ![o] = pend.text]
        /\ size' = size /\ usage' = usage /\ buf' = buf
    BY DEF DupOverflow, heap
  <1>2. pend.text \in Texts /\ pend.text # NoText
    BY <1>1, SSMAssumption DEF IInv, PendInv, Request
  <1>3. over \in [OverIds -> Texts \cup {NoText}]
    BY DEF IInv, TypeOK
  <1>4. Live' = Live
    BY <1>1 DEF Live, Blocks
  <1>5. InUse' = InUse \cup {Outside(o)}
    BY <1>1, <1>2, <1>3, <1>4 DEF InUse
  <1>6. Outside(o) \notin InUse /\ Outside(o) \in Handles
    BY <1>1, InUseIff DEF Handles
  <1>7. Entry(Outside(o))' = [text |-> pend.text, count |-> 1]
    BY <1>1, <1>3, EntriesAre
  <1>8. ASSUME NEW h \in InUse PROVE Entry(h)' = Entry(h)
    <2>1. CASE \E a \in Live : h = Inside(a)
      BY <1>1, <2>1, EntriesAre
    <2>2. CASE \E m \in OverIds : h = Outside(m) /\ over[m] # NoText
      <3>1. PICK m \in OverIds : h = Outside(m) /\ over[m] # NoText
        BY <2>2
      <3>2. over'[m] = over[m]
        BY <1>1, <1>3, <3>1
      <3> QED BY <3>1, <3>2, EntriesAre
    <2> QED BY <2>1, <2>2, InUseIff
  <1>9. DOMAIN Stored = InUse /\ \A h \in InUse : Stored[h] = Entry(h)
    BY StoredIs
  <1>10. Abs!New(Outside(o), pend.text)
    BY <1>5, <1>6, <1>7, <1>8, <1>9, StoredIs DEF Abs!New, Abs!Held
  <1> QED BY <1>2, <1>6, <1>10 DEF Abs!Next

\* free_string of an overflow string, which has one holder.
LEMMA FreeOverflowReleases ==
  ASSUME IInv, NEW o \in OverIds, FreeOverflow(o)
  PROVE  Abs!Next
  <1>1. /\ over[o] # NoText /\ over' = [over EXCEPT ![o] = NoText]
        /\ size' = size /\ usage' = usage /\ buf' = buf
    BY DEF FreeOverflow, heap
  <1>2. over \in [OverIds -> Texts \cup {NoText}]
    BY DEF IInv, TypeOK
  <1>3. Live' = Live
    BY <1>1 DEF Live, Blocks
  <1>4. InUse' = InUse \ {Outside(o)}
    BY <1>1, <1>2, <1>3, HandlesApart DEF InUse
  <1>5. Outside(o) \in InUse /\ Outside(o) \in Handles
    BY <1>1, InUseIff DEF Handles
  <1>6. ASSUME NEW h \in InUse, h # Outside(o) PROVE Entry(h)' = Entry(h)
    <2>1. CASE \E a \in Live : h = Inside(a)
      BY <1>1, <2>1, EntriesAre
    <2>2. CASE \E m \in OverIds : h = Outside(m) /\ over[m] # NoText
      <3>1. PICK m \in OverIds : h = Outside(m) /\ over[m] # NoText
        BY <2>2
      <3>2. over'[m] = over[m]
        BY <1>1, <1>2, <1>6, <3>1
      <3> QED BY <3>1, <3>2, EntriesAre
    <2> QED BY <2>1, <2>2, InUseIff
  <1>7. DOMAIN Stored = InUse /\ \A h \in InUse : Stored[h] = Entry(h)
    BY StoredIs
  <1>8. Stored[Outside(o)].count = 1
    BY <1>5, <1>7, EntriesAre
  <1>9. Stored' = [h \in InUse \ {Outside(o)} |-> Stored[h]]
    BY <1>4, <1>6, <1>7, StoredIs
  <1>10. Abs!Release(Outside(o))
    BY <1>5, <1>7, <1>8, <1>9 DEF Abs!Release, Abs!Held
  <1> QED BY <1>5, <1>10 DEF Abs!Next

\* defrag_heap only joins blocks nobody holds.
LEMMA DefragInvisible ==
  ASSUME IInv, Defrag
  PROVE  Stored' = Stored
  <1>0. usage \in [Blocks -> -1 .. MaxRefs]
    BY DEF IInv, TypeOK
  <1>1. CASE DefragMerge
    <2>1. /\ walk \in Blocks /\ last \in Blocks /\ usage[walk] <= 0 /\ usage[last] <= 0
      BY <1>1 DEF DefragMerge, IInv, TypeOK, ScanInv
    <2>2. /\ Blocks' = Blocks \ {walk} /\ over' = over
          /\ usage' = [b \in Blocks \ {walk} |-> IF b = last THEN 0 ELSE usage[b]]
          /\ buf' = [b \in Blocks \ {walk} |-> buf[b]]
      BY <1>1 DEF DefragMerge, Blocks, overflow
    <2>3. Live' = Live
      BY <1>0, <2>1, <2>2 DEF Live
    <2>4. \A a \in Live : usage'[a] = usage[a] /\ buf'[a] = buf[a]
      BY <1>0, <2>1, <2>2 DEF Live
    <2> QED BY <2>2, <2>3, <2>4, Invisible
  <1>2. CASE DefragUsed \/ DefragFirstFree \/ DefragTooBig \/ DefragDone
    <2>1. size' = size /\ usage' = usage /\ buf' = buf /\ over' = over
      BY <1>2 DEF DefragUsed, DefragFirstFree, DefragTooBig, DefragDone, heap, overflow
    <2>2. Live' = Live
      BY <2>1 DEF Live, Blocks
    <2> QED BY <2>1, <2>2, Invisible
  <1> QED BY <1>1, <1>2 DEF Defrag

LEMMA InitStores == Init => Abs!Init
  <1> SUFFICES ASSUME Init PROVE Stored = [h \in {} |-> 0]
    BY DEF Abs!Init
  <1>1. Live = {}
    BY DEF Init, Live, Blocks
  <1>2. InUse = {}
    BY <1>1 DEF InUse, Init
  <1> QED BY <1>2, StoredIs

LEMMA NextStores ==
  ASSUME "dup" \notin Misuse, IInv, [Next]_vars
  PROVE  [Abs!Next]_Stored
  <1> DEFINE Same == size' = size /\ usage' = usage /\ buf' = buf /\ over' = over
  <1>0. ASSUME Same PROVE Stored' = Stored
    <2>1. Live' = Live
      BY <1>0 DEF Live, Blocks
    <2> QED BY <1>0, <2>1, Invisible
  <1>1. ASSUME NEW t \in Texts, StrDup(t) PROVE Same
    BY <1>1 DEF StrDup, Ask, heap, overflow
  <1>2. ASSUME NEW t \in FileTexts, FreadString(t) PROVE Abs!Next \/ Same
    <2>1. CASE fBootDb /\ \E a \in HeapHits(t) : CountUp(a)
      <3>1. PICK a \in HeapHits(t) : CountUp(a)
        BY <2>1
      <3>2. a \in Live /\ a \in Addrs
        BY <1>2, <2>1 DEF FreadString, HeapHits, IInv, TypeOK, BootTableLive, fBootDb
      <3> QED BY <3>1, <3>2, CountUpShares
    <2>2. CASE Ask(t, FALSE) \/ Ask(t, TRUE)
      BY <2>2 DEF Ask, heap, overflow
    <2> QED BY <1>2, <2>1, <2>2 DEF FreadString
  <1>3. ASSUME NEW a \in Addrs, StrDupHeap(a) PROVE Abs!Next
    <2>1. a \in Live
      BY <1>3 DEF StrDupHeap, IInv, TypeOK, UsageCountsRefs, Live
    <2> QED BY <1>3, <2>1, CountUpShares DEF StrDupHeap
  <1>4. ASSUME NEW a \in Addrs, FreeString(a) PROVE Abs!Next \/ Stored' = Stored
    BY <1>4, FreeStringReleases
  <1>5. ASSUME NEW o \in OverIds, FreeOverflow(o) PROVE Abs!Next
    BY <1>5, FreeOverflowReleases
  <1>6. CASE DoMemoryDefrag \/ BootEnds \/ GetAll \/ GetAllEnd \/ DupFails \/ UNCHANGED vars
    <2>1. Same
      BY <1>6 DEF DoMemoryDefrag, BootEnds, GetAll, GetAllEnd, Phase, DupFails, vars,
                  heap, overflow
    <2> QED BY <2>1, <1>0
  <1>7. ASSUME NEW p \in Addrs, DupSplit(p) \/ DupWhole(p) PROVE Abs!Next
    BY <1>7, DupSplitGives, DupWholeGives
  <1>8. ASSUME NEW o \in OverIds, DupOverflow(o) PROVE Abs!Next
    BY <1>8, DupOverflowGives
  <1>9. CASE Defrag
    BY <1>9, DefragInvisible
  <1> QED BY <1>0, <1>1, <1>2, <1>3, <1>4, <1>5, <1>6, <1>7, <1>8, <1>9
          DEF Next, Client, Call

\* The string manager implements the store of counted strings: an address is handed out
\* only while nobody holds it, a held string keeps its text whatever is split, joined,
\* disabled or malloc'd around it, and the last free_string, no earlier one, gives it
\* back (src/src/ssm.c:104-344).
THEOREM ManagerImplementsStore == ASSUME "dup" \notin Misuse PROVE Spec => ImplementsStore
  <1>1. Init => Abs!Init
    BY InitStores
  <1>2. IInv /\ [Next]_vars => [Abs!Next]_Stored
    BY NextStores
  <1> QED BY <1>1, <1>2, InductiveInvariant, PTL DEF Spec, Abs!Spec, ImplementsStore

(***************************************************************************)
(*                                CharList                                 *)
(***************************************************************************)

Ordered ==
    /\ \A x, y \in list : place[x] = place[y] => x = y
    /\ \A x \in list : place[x] <= used

\* Beyond depth there is no loop.
IdleAbove == \A i \in 1 .. MaxDepth : i > depth => loop[i] = NoLoop

ListInv == ListTypeOK /\ Ordered /\ IdleAbove /\ CursorInList /\ LoopsExact /\ FightsOwed

LEMMA NoLoopTyped == NoLoop \in Loop /\ NoLoop.nxt = Null
  BY CharListAssumption DEF NoLoop, Loop

LEMMA Typing ==
    ASSUME ListInv
    PROVE  /\ place \in [Nodes -> Nat] /\ used \in Nat /\ list \subseteq Nodes
           /\ loop \in [1 .. MaxDepth -> Loop] /\ depth \in 0 .. MaxDepth /\ MaxDepth \in Nat
           /\ Null \notin Nodes /\ Marker \in Nodes /\ Marker \notin Chars
  <1>1. MaxPlace \in Nat /\ place \in [Nodes -> 0 .. MaxPlace] /\ used \in 0 .. MaxPlace
    BY CharListAssumption DEF ListInv, ListTypeOK
  <1>2. QED BY <1>1, CharListAssumption DEF ListInv, ListTypeOK, Nodes

LEMMA InitListInv == ListInit => ListInv
  <1>1. SUFFICES ASSUME ListInit PROVE ListInv
    OBVIOUS
  <1>2. ListTypeOK
    <2>1. loop \in [1 .. MaxDepth -> Loop]
      BY <1>1, NoLoopTyped DEF ListInit
    <2>2. MaxDepth \in Nat /\ MaxPlace \in Nat
      BY CharListAssumption
    <2>3. place \in [Nodes -> 0 .. MaxPlace]
      BY <1>1, <2>2 DEF ListInit
    <2>4. used \in 0 .. MaxPlace /\ depth \in 0 .. MaxDepth
      BY <1>1, <2>2 DEF ListInit
    <2>5. list \subseteq Nodes /\ owed \subseteq Chars /\ aborted \in BOOLEAN
      BY <1>1 DEF ListInit
    <2>6. QED BY <2>1, <2>3, <2>4, <2>5 DEF ListTypeOK
  <1>3. Ordered /\ IdleAbove /\ CursorInList /\ LoopsExact /\ FightsOwed
    BY <1>1, CharListAssumption
    DEF ListInit, Ordered, IdleAbove, CursorInList, LoopsExact, FightsOwed, Running, Fights
  <1>4. QED BY <1>2, <1>3 DEF ListInv

\* What is behind a node, its successor first.
LEMMA Successor ==
    ASSUME ListInv, NEW c \in list, NEW n \in Nodes \cup {Null}, IsNext(c, n)
    PROVE  /\ n = Null => {x \in list : place[x] >= place[c]} = {c}
           /\ n # Null => /\ n \in list /\ n # c
                          /\ {x \in list : place[x] >= place[c]}
                               = {c} \cup {x \in list : place[x] >= place[n]}
                          /\ place[n] > place[c]
  <1>1. place \in [Nodes -> Nat] /\ list \subseteq Nodes
    BY CharListAssumption DEF ListInv, ListTypeOK
  <1>2. \A x, y \in list : place[x] = place[y] => x = y
    BY DEF ListInv, Ordered
  <1>3. CASE n = Null
    <2>1. \A x \in list : ~(place[x] > place[c])
      BY <1>3 DEF IsNext, Behind
    <2>2. QED BY <1>1, <1>2, <1>3, <2>1
  <1>4. CASE n # Null
    <2>1. n \in list /\ place[n] > place[c] /\ \A x \in list : place[x] > place[c] => place[n] <= place[x]
      BY <1>4 DEF IsNext, Behind
    <2>2. QED BY <1>1, <1>2, <1>4, <2>1
  <1>5. QED BY <1>3, <1>4

LEMMA CreateListInv ==
    ASSUME ListInv, NEW c \in Chars, Create(c)
    PROVE  ListInv'
  <1>0. /\ place \in [Nodes -> Nat] /\ used \in Nat /\ list \subseteq Nodes
        /\ c \in Nodes /\ c \notin list /\ Marker # c /\ Null \notin Nodes
        /\ loop \in [1 .. MaxDepth -> Loop] /\ depth \in 0 .. MaxDepth /\ MaxDepth \in Nat
    BY Typing DEF Create, Nodes
  <1>1. ListTypeOK'
    <2>1. loop' \in [1 .. MaxDepth -> Loop]
      BY <1>0 DEF Create, Loop
    <2>2. place' \in [Nodes -> 0 .. MaxPlace] /\ used' \in 0 .. MaxPlace
      BY <1>0, CharListAssumption DEF Create, ListInv, ListTypeOK
    <2>3. QED BY <1>0, <2>1, <2>2 DEF Create, ListInv, ListTypeOK
  <1>2. Ordered'
    BY <1>0 DEF Create, ListInv, Ordered
  <1>3. IdleAbove'
    BY <1>0, NoLoopTyped DEF Create, ListInv, IdleAbove
  <1>4. CursorInList'
    BY <1>0 DEF Create, ListInv, CursorInList, Running, Loop
  <1>5. LoopsExact'
    <2>1. SUFFICES ASSUME NEW i \in Running'
                   PROVE  loop'[i].due = IF loop'[i].nxt = Null THEN {}
                                         ELSE {x \in list' : place'[x] >= place'[loop'[i].nxt]}
      BY DEF LoopsExact
    <2>2. i \in Running /\ i \in 1 .. MaxDepth
      BY <1>0, <2>1 DEF Running, Create
    <2>3. CASE loop[i].nxt = Null
      BY <1>0, <2>2, <2>3 DEF Create, ListInv, LoopsExact
    <2>4. CASE loop[i].nxt # Null
      <3>1. loop'[i].nxt = loop[i].nxt /\ loop'[i].due = loop[i].due \cup {c}
        BY <1>0, <2>2, <2>4 DEF Create, Loop
      <3>2. loop[i].nxt \in list
        BY <2>2, <2>4 DEF ListInv, CursorInList
      <3>3. loop[i].due = {x \in list : place[x] >= place[loop[i].nxt]}
        BY <2>2, <2>4 DEF ListInv, LoopsExact
      <3>4. place[loop[i].nxt] <= used
        BY <3>2 DEF ListInv, Ordered
      <3>5. place'[c] = used + 1 /\ \A x \in list : place'[x] = place[x]
        BY <1>0 DEF Create
      <3>6. place[loop[i].nxt] \in Nat
        BY <1>0, <3>2
      <3>7. {x \in list' : place'[x] >= place'[loop'[i].nxt]} = loop[i].due \cup {c}
        <4>1. list' = list \cup {c} /\ place'[loop'[i].nxt] = place[loop[i].nxt]
          BY <3>1, <3>2, <3>5 DEF Create
        <4>2. place'[c] >= place[loop[i].nxt]
          BY <1>0, <3>4, <3>5, <3>6
        <4>3. QED BY <1>0, <3>3, <3>5, <4>1, <4>2
      <3>8. QED BY <1>0, <2>4, <3>1, <3>7
    <2>5. QED BY <2>3, <2>4
  <1>6. FightsOwed'
    <2>1. Fights' <=> Fights
      BY <1>0 DEF Create, Fights
    <2>2. CASE Fights
      <3>1. place[Marker] <= used /\ place[Marker] \in Nat
        BY <1>0, <2>2 DEF ListInv, Ordered, Fights
      <3>2. owed = {x \in list : place[x] < place[Marker]}
        BY <2>2 DEF ListInv, FightsOwed
      <3>3. {x \in list' : place'[x] < place'[Marker]} = {x \in list : place[x] < place[Marker]}
        BY <1>0, <3>1, <2>2 DEF Create, Fights
      <3>4. QED BY <2>1, <2>2, <3>2, <3>3 DEF Create, FightsOwed
    <2>3. CASE ~Fights
      BY <2>1, <2>3 DEF Create, ListInv, FightsOwed
    <2>4. QED BY <2>2, <2>3
  <1>7. QED BY <1>1, <1>2, <1>3, <1>4, <1>5, <1>6 DEF ListInv

LEMMA ExtractListInv ==
    ASSUME ListInv, NEW c \in Chars, NEW n \in Nodes \cup {Null}, Extract(c, n)
    PROVE  ListInv'
  <1>0. /\ place \in [Nodes -> Nat] /\ used \in Nat /\ list \subseteq Nodes
        /\ c \in Nodes /\ c \in list /\ Marker # c /\ Null \notin Nodes
        /\ loop \in [1 .. MaxDepth -> Loop] /\ depth \in 0 .. MaxDepth /\ MaxDepth \in Nat
    BY Typing DEF Extract, Nodes
  <1>a. \A i \in 1 .. MaxDepth :
            /\ loop'[i].site = loop[i].site
            /\ loop'[i].nxt = IF loop[i].nxt = c THEN n ELSE loop[i].nxt
            /\ loop'[i].due = loop[i].due \ {c}
            /\ loop'[i] \in Loop
    BY <1>0 DEF Extract, Without, Advanced, Loop
  <1>b. /\ n = Null => {x \in list : place[x] >= place[c]} = {c}
        /\ n # Null => /\ n \in list /\ n # c
                       /\ {x \in list : place[x] >= place[c]}
                            = {c} \cup {x \in list : place[x] >= place[n]}
                       /\ place[n] > place[c]
    BY <1>0, Successor DEF Extract
  <1>c. list' = list \ {c} /\ \A x \in list' : place'[x] = place[x]
    BY <1>0 DEF Extract
  <1>1. ListTypeOK'
    <2>1. loop' \in [1 .. MaxDepth -> Loop]
      BY <1>0, <1>a DEF Extract, Without, Advanced
    <2>2. place' \in [Nodes -> 0 .. MaxPlace]
      BY <1>0, CharListAssumption DEF Extract, ListInv, ListTypeOK
    <2>3. QED BY <1>0, <2>1, <2>2 DEF Extract, ListInv, ListTypeOK
  <1>2. Ordered'
    BY <1>0, <1>c DEF Extract, ListInv, Ordered
  <1>3. IdleAbove'
    <2>1. SUFFICES ASSUME NEW i \in 1 .. MaxDepth, i > depth PROVE loop'[i] = NoLoop
      BY DEF IdleAbove, Extract
    <2>2. loop[i] = NoLoop
      BY <2>1 DEF ListInv, IdleAbove
    <2>3. NoLoop.nxt # c /\ NoLoop.due = {}
      BY <1>0, NoLoopTyped DEF NoLoop
    <2>4. QED BY <1>0, <2>1, <2>2, <2>3 DEF Extract, Without, Advanced, NoLoop
  <1>4. CursorInList'
    <2>1. SUFFICES ASSUME NEW i \in Running' PROVE loop'[i].nxt \in list' \cup {Null}
      BY DEF CursorInList
    <2>2. i \in Running /\ i \in 1 .. MaxDepth
      BY <1>0, <2>1 DEF Running, Extract
    <2>3. loop[i].nxt \in list \cup {Null}
      BY <2>2 DEF ListInv, CursorInList
    <2>4. QED BY <1>0, <1>a, <1>b, <1>c, <2>2, <2>3
  <1>5. LoopsExact'
    <2>1. SUFFICES ASSUME NEW i \in Running'
                   PROVE  loop'[i].due = IF loop'[i].nxt = Null THEN {}
                                         ELSE {x \in list' : place'[x] >= place'[loop'[i].nxt]}
      BY DEF LoopsExact
    <2>2. i \in Running /\ i \in 1 .. MaxDepth
      BY <1>0, <2>1 DEF Running, Extract
    <2>3. loop[i].nxt \in list \cup {Null}
      BY <2>2 DEF ListInv, CursorInList
    <2>4. loop[i].due = IF loop[i].nxt = Null THEN {} ELSE {x \in list : place[x] >= place[loop[i].nxt]}
      BY <2>2 DEF ListInv, LoopsExact
    <2>5. CASE loop[i].nxt = Null
      BY <1>0, <1>a, <2>2, <2>4, <2>5
    <2>6. CASE loop[i].nxt # Null /\ loop[i].nxt # c
      <3>1. loop'[i].nxt = loop[i].nxt /\ loop[i].nxt \in list'
        BY <1>a, <1>c, <2>2, <2>3, <2>6
      <3>2. QED BY <1>a, <1>c, <2>2, <2>4, <2>6, <3>1
    <2>7. CASE loop[i].nxt = c /\ n = Null
      BY <1>0, <1>a, <1>b, <2>2, <2>4, <2>7
    <2>8. CASE loop[i].nxt = c /\ n # Null
      <3>1. loop'[i].nxt = n /\ n \in list'
        BY <1>0, <1>a, <1>b, <1>c, <2>2, <2>8
      <3>2. loop[i].due = {c} \cup {x \in list : place[x] >= place[n]}
        BY <1>0, <1>b, <2>4, <2>8
      <3>3. loop'[i].due = {x \in list' : place[x] >= place[n]}
        BY <1>a, <1>c, <2>2, <3>2
      <3>4. QED BY <1>c, <1>0, <2>8, <3>1, <3>3
    <2>9. QED BY <2>5, <2>6, <2>7, <2>8
  <1>6. FightsOwed'
    <2>1. Fights' <=> Fights
      BY <1>0 DEF Extract, Fights
    <2>2. CASE Fights
      <3>1. owed = {x \in list : place[x] < place[Marker]}
        BY <2>2 DEF ListInv, FightsOwed
      <3>2. Marker \in list' /\ place'[Marker] = place[Marker]
        BY <1>0, <1>c, <2>2 DEF Fights
      <3>3. {x \in list' : place'[x] < place'[Marker]} = {x \in list : place[x] < place[Marker]} \ {c}
        BY <1>c, <3>2
      <3>4. QED BY <2>1, <2>2, <3>1, <3>3 DEF Extract, FightsOwed
    <2>3. CASE ~Fights
      BY <2>1, <2>3 DEF Extract, ListInv, FightsOwed
    <2>4. QED BY <2>2, <2>3
  <1>7. QED BY <1>1, <1>2, <1>3, <1>4, <1>5, <1>6 DEF ListInv

LEMMA DieListInv ==
    ASSUME ListInv, NEW c \in Chars, NEW n \in Nodes \cup {Null}, Die(c, n)
    PROVE  ListInv'
  <1>0. /\ place \in [Nodes -> Nat] /\ list \subseteq Nodes /\ c \in list /\ c \in Nodes
        /\ Null \notin Nodes
        /\ loop \in [1 .. MaxDepth -> Loop] /\ depth \in 0 .. MaxDepth /\ MaxDepth \in Nat
    BY Typing DEF Die, Nodes
  <1>a. \A i \in 1 .. MaxDepth :
            /\ loop[i].nxt # c => loop'[i] = loop[i]
            /\ loop[i].nxt = c => loop'[i].nxt = n /\ loop'[i].due = loop[i].due \ {c}
            /\ loop'[i] \in Loop
    BY <1>0 DEF Die, Loop
  <1>b. /\ n = Null => {x \in list : place[x] >= place[c]} = {c}
        /\ n # Null => /\ n \in list /\ n # c
                       /\ {x \in list : place[x] >= place[c]}
                            = {c} \cup {x \in list : place[x] >= place[n]}
                       /\ place[n] > place[c]
    BY <1>0, Successor DEF Die
  <1>1. ListTypeOK'
    <2>1. loop' \in [1 .. MaxDepth -> Loop]
      BY <1>0, <1>a DEF Die
    <2>2. QED BY <2>1 DEF Die, ListInv, ListTypeOK
  <1>2. Ordered' /\ FightsOwed'
    BY DEF Die, ListInv, Ordered, FightsOwed, Fights
  <1>3. IdleAbove'
    BY <1>0, <1>a, NoLoopTyped DEF Die, ListInv, IdleAbove
  <1>4. CursorInList'
    <2>1. SUFFICES ASSUME NEW i \in Running PROVE loop'[i].nxt \in list \cup {Null}
      BY DEF CursorInList, Die, Running
    <2>2. i \in 1 .. MaxDepth /\ loop[i].nxt \in list \cup {Null}
      BY <1>0 DEF ListInv, CursorInList, Running
    <2>3. QED BY <1>a, <1>b, <2>2
  <1>5. LoopsExact'
    <2>1. SUFFICES ASSUME NEW i \in Running
                   PROVE  loop'[i].due = IF loop'[i].nxt = Null THEN {}
                                         ELSE {x \in list : place[x] >= place[loop'[i].nxt]}
      BY DEF LoopsExact, Die, Running
    <2>2. i \in 1 .. MaxDepth
      BY <1>0 DEF Running
    <2>3. loop[i].due = IF loop[i].nxt = Null THEN {} ELSE {x \in list : place[x] >= place[loop[i].nxt]}
      BY <2>1 DEF ListInv, LoopsExact
    <2>4. CASE loop[i].nxt # c
      BY <1>a, <2>2, <2>3, <2>4
    <2>5. CASE loop[i].nxt = c /\ n = Null
      BY <1>0, <1>a, <1>b, <2>2, <2>3, <2>5
    <2>6. CASE loop[i].nxt = c /\ n # Null
      <3>1. loop[i].due = {c} \cup {x \in list : place[x] >= place[n]}
        BY <1>0, <1>b, <2>3, <2>6
      <3>2. c \notin {x \in list : place[x] >= place[n]}
        BY <1>0, <1>b, <2>6
      <3>3. loop'[i].nxt = n /\ loop'[i].due = loop[i].due \ {c}
        BY <1>a, <2>2, <2>6
      <3>4. QED BY <2>6, <3>1, <3>2, <3>3
    <2>7. QED BY <2>4, <2>5, <2>6
  <1>6. QED BY <1>1, <1>2, <1>3, <1>4, <1>5 DEF ListInv

LEMMA BeginListInv ==
    ASSUME ListInv, NEW s \in Sites, NEW n \in Nodes \cup {Null}, Begin(s, n)
    PROVE  ListInv'
  <1>0. /\ place \in [Nodes -> Nat] /\ list \subseteq Nodes /\ Null \notin Nodes
        /\ loop \in [1 .. MaxDepth -> Loop] /\ depth \in 0 .. MaxDepth /\ MaxDepth \in Nat
        /\ depth' = depth + 1 /\ depth < MaxDepth
    BY Typing DEF Begin
  <1>a. /\ loop'[depth + 1] = [site |-> s, nxt |-> n, due |-> list]
        /\ \A i \in 1 .. MaxDepth : i # depth + 1 => loop'[i] = loop[i]
        /\ loop' \in [1 .. MaxDepth -> Loop]
    BY <1>0 DEF Begin, Loop
  <1>b. IF n = Null THEN list = {} ELSE n \in list /\ \A x \in list : place[n] <= place[x]
    BY DEF Begin, IsFirst
  <1>1. ListTypeOK'
    BY <1>0, <1>a DEF Begin, ListInv, ListTypeOK
  <1>2. Ordered' /\ FightsOwed'
    BY DEF Begin, ListInv, Ordered, FightsOwed, Fights
  <1>3. IdleAbove'
    BY <1>0, <1>a DEF ListInv, IdleAbove
  <1>c. \A i \in Running' : i = depth + 1 \/ (i \in Running /\ i \in 1 .. MaxDepth /\ i # depth + 1)
    BY <1>0 DEF Running
  <1>4. CursorInList'
    <2>1. SUFFICES ASSUME NEW i \in Running' PROVE loop'[i].nxt \in list \cup {Null}
      BY DEF CursorInList, Begin
    <2>2. CASE i = depth + 1
      BY <1>a, <1>b, <2>2
    <2>3. CASE i # depth + 1
      BY <1>a, <1>c, <2>1, <2>3 DEF ListInv, CursorInList
    <2>4. QED BY <2>2, <2>3
  <1>5. LoopsExact'
    <2>1. SUFFICES ASSUME NEW i \in Running'
                   PROVE  loop'[i].due = IF loop'[i].nxt = Null THEN {}
                                         ELSE {x \in list : place[x] >= place[loop'[i].nxt]}
      BY DEF LoopsExact, Begin
    <2>2. CASE i = depth + 1
      <3>1. loop'[i].due = list /\ loop'[i].nxt = n
        BY <1>a, <2>2
      <3>2. n \in list => list = {x \in list : place[x] >= place[n]}
        BY <1>0, <1>b
      <3>3. QED BY <1>0, <1>b, <3>1, <3>2
    <2>3. CASE i # depth + 1
      <3>1. i \in Running /\ loop'[i] = loop[i]
        BY <1>a, <1>c, <2>1, <2>3
      <3>2. QED BY <3>1 DEF ListInv, LoopsExact
    <2>4. QED BY <2>2, <2>3
  <1>6. QED BY <1>1, <1>2, <1>3, <1>4, <1>5 DEF ListInv

LEMMA StepListInv ==
    ASSUME ListInv, NEW n \in Nodes \cup {Null}, Step(n)
    PROVE  ListInv'
  <1> DEFINE c == loop[depth].nxt
  <1>0. /\ place \in [Nodes -> Nat] /\ list \subseteq Nodes /\ Null \notin Nodes
        /\ loop \in [1 .. MaxDepth -> Loop] /\ depth \in 1 .. MaxDepth /\ MaxDepth \in Nat
        /\ c # Null /\ c \in list
    BY Typing DEF ListInv, Step, CursorInList, Running
  <1>a. /\ loop'[depth].nxt = n /\ loop'[depth].due = loop[depth].due \ {c}
        /\ \A i \in 1 .. MaxDepth : i # depth => loop'[i] = loop[i]
        /\ loop' \in [1 .. MaxDepth -> Loop]
    BY <1>0 DEF Step, Loop
  <1>b. /\ n = Null => {x \in list : place[x] >= place[c]} = {c}
        /\ n # Null => /\ n \in list /\ n # c
                       /\ {x \in list : place[x] >= place[c]}
                            = {c} \cup {x \in list : place[x] >= place[n]}
                       /\ place[n] > place[c]
    <2>1. IsNext(c, n)
      BY DEF Step
    <2>2. QED BY <1>0, <2>1, Successor
  <1>1. ListTypeOK'
    BY <1>a DEF Step, ListInv, ListTypeOK
  <1>2. Ordered' /\ FightsOwed'
    BY DEF Step, ListInv, Ordered, FightsOwed, Fights
  <1>3. IdleAbove'
    BY <1>0, <1>a DEF Step, ListInv, IdleAbove
  <1>4. CursorInList'
    <2>1. SUFFICES ASSUME NEW i \in Running PROVE loop'[i].nxt \in list \cup {Null}
      BY DEF CursorInList, Step, Running
    <2>2. i \in 1 .. MaxDepth /\ loop[i].nxt \in list \cup {Null}
      BY <1>0 DEF ListInv, CursorInList, Running
    <2>3. QED BY <1>0, <1>a, <1>b, <2>2
  <1>5. LoopsExact'
    <2>1. SUFFICES ASSUME NEW i \in Running
                   PROVE  loop'[i].due = IF loop'[i].nxt = Null THEN {}
                                         ELSE {x \in list : place[x] >= place[loop'[i].nxt]}
      BY DEF LoopsExact, Step, Running
    <2>2. i \in 1 .. MaxDepth
      BY <1>0 DEF Running
    <2>3. loop[i].due = IF loop[i].nxt = Null THEN {} ELSE {x \in list : place[x] >= place[loop[i].nxt]}
      BY <2>1 DEF ListInv, LoopsExact
    <2>4. CASE i # depth
      BY <1>a, <2>2, <2>3, <2>4
    <2>5. CASE i = depth /\ n = Null
      BY <1>0, <1>a, <1>b, <2>3, <2>5
    <2>6. CASE i = depth /\ n # Null
      <3>1. loop[i].due = {c} \cup {x \in list : place[x] >= place[n]}
        BY <1>0, <1>b, <2>3, <2>6
      <3>2. c \notin {x \in list : place[x] >= place[n]}
        BY <1>0, <1>b, <2>6
      <3>3. loop'[i].nxt = n /\ loop'[i].due = loop[i].due \ {c}
        BY <1>a, <2>6
      <3>4. QED BY <2>6, <3>1, <3>2, <3>3
    <2>7. QED BY <2>4, <2>5, <2>6
  <1>6. QED BY <1>1, <1>2, <1>3, <1>4, <1>5 DEF ListInv

LEMMA EndListInv == ASSUME ListInv, End PROVE ListInv'
  <1>0. /\ loop \in [1 .. MaxDepth -> Loop] /\ depth \in 1 .. MaxDepth /\ MaxDepth \in Nat
        /\ depth' = depth - 1
    BY Typing DEF End
  <1>a. /\ loop'[depth] = NoLoop /\ loop' \in [1 .. MaxDepth -> Loop]
        /\ \A i \in 1 .. MaxDepth : i # depth => loop'[i] = loop[i]
    BY <1>0, NoLoopTyped DEF End
  <1>b. \A i \in Running' : i \in Running /\ i \in 1 .. MaxDepth /\ i # depth
    BY <1>0 DEF Running
  <1>1. ListTypeOK'
    BY <1>0, <1>a DEF End, ListInv, ListTypeOK
  <1>2. Ordered' /\ FightsOwed'
    BY DEF End, ListInv, Ordered, FightsOwed, Fights
  <1>3. IdleAbove'
    BY <1>0, <1>a DEF ListInv, IdleAbove
  <1>4. CursorInList'
    BY <1>a, <1>b DEF End, ListInv, CursorInList
  <1>5. LoopsExact'
    BY <1>a, <1>b DEF End, ListInv, LoopsExact
  <1>6. QED BY <1>1, <1>2, <1>3, <1>4, <1>5 DEF ListInv

LEMMA FightListInv ==
    ASSUME ListInv, \/ FightsBegin
                    \/ \E c \in Chars : Fight(c)
                    \/ FightsEnd
    PROVE  ListInv'
  <1>0. /\ place \in [Nodes -> Nat] /\ used \in Nat /\ list \subseteq Nodes
        /\ depth = 0 /\ depth' = 0 /\ loop' = loop /\ Marker \in Nodes /\ Marker \notin Chars
    BY Typing DEF FightsBegin, Fight, FightsEnd
  <1>1. IdleAbove' /\ CursorInList' /\ LoopsExact'
    BY <1>0 DEF ListInv, IdleAbove, CursorInList, LoopsExact, Running
  <1>2. CASE FightsBegin
    <2>1. ListTypeOK'
      BY <1>0, <1>2, CharListAssumption DEF FightsBegin, ListInv, ListTypeOK, Fights, Nodes
    <2>2. Ordered'
      BY <1>0, <1>2 DEF FightsBegin, ListInv, Ordered, Fights
    <2>3. FightsOwed'
      BY <1>0, <1>2 DEF FightsBegin, ListInv, Ordered, Fights, FightsOwed
    <2>4. QED BY <1>1, <2>1, <2>2, <2>3 DEF ListInv
  <1>3. CASE FightsEnd
    <2>1. ListTypeOK'
      BY <1>0, <1>3, CharListAssumption DEF FightsEnd, ListInv, ListTypeOK
    <2>2. Ordered'
      BY <1>0, <1>3 DEF FightsEnd, ListInv, Ordered
    <2>3. FightsOwed'
      BY <1>0, <1>3, CharListAssumption DEF FightsEnd, ListInv, Fights, FightsOwed, IsFirst, Nodes
    <2>4. QED BY <1>1, <2>1, <2>2, <2>3 DEF ListInv
  <1>4. ASSUME NEW c \in Chars, Fight(c) PROVE ListInv'
    <2>0. c \in list /\ c # Marker /\ Marker \in list /\ place[c] <= place[Marker]
      BY <1>0, <1>4, CharListAssumption DEF Fight, IsFirst, Fights, Nodes
    <2>1. ListTypeOK'
      <3>1. MaxPlace \in Nat /\ place \in [Nodes -> 0 .. MaxPlace] /\ used \in 0 .. MaxPlace
        BY CharListAssumption DEF ListInv, ListTypeOK
      <3>2. used + 1 \in 0 .. MaxPlace
        BY <1>4, <3>1 DEF Fight
      <3>3. place' \in [Nodes -> 0 .. MaxPlace] /\ used' \in 0 .. MaxPlace
        BY <1>4, <3>1, <3>2 DEF Fight
      <3>4. QED BY <1>0, <1>4, <3>3 DEF Fight, ListInv, ListTypeOK
    <2>2. Ordered'
      BY <1>0, <1>4 DEF Fight, ListInv, Ordered
    <2>3. FightsOwed'
      <3>1. owed = {x \in list : place[x] < place[Marker]} /\ place[Marker] <= used
        BY <2>0 DEF ListInv, FightsOwed, Fights, Ordered
      <3>2. /\ list' = list /\ place'[Marker] = place[Marker] /\ place'[c] = used + 1
            /\ \A x \in list : x # c => place'[x] = place[x]
        BY <1>0, <1>4, <2>0 DEF Fight
      <3>3. {x \in list' : place'[x] < place'[Marker]} = {x \in list : place[x] < place[Marker]} \ {c}
        <4>1. ~(place'[c] < place'[Marker])
          BY <1>0, <2>0, <3>1, <3>2
        <4>2. QED BY <3>2, <4>1
      <3>4. QED BY <1>4, <2>0, <3>1, <3>2, <3>3 DEF Fight, FightsOwed, Fights
    <2>4. QED BY <1>1, <2>1, <2>2, <2>3 DEF ListInv
  <1>5. QED BY <1>2, <1>3, <1>4

LEMMA NextListInv == ListInv /\ [ListNext]_listVars => ListInv'
  <1>1. SUFFICES ASSUME ListInv, [ListNext]_listVars PROVE ListInv'
    OBVIOUS
  <1>2. ASSUME NEW s \in Sites, BeginAgain(s) PROVE ListInv'
    BY <1>1, <1>2 DEF BeginAgain, ListInv, ListTypeOK, Ordered, IdleAbove, CursorInList, LoopsExact,
                      FightsOwed, Fights, Running
  <1>3. CASE UNCHANGED listVars
    <2>1. /\ list' = list /\ place' = place /\ used' = used /\ depth' = depth /\ loop' = loop
          /\ owed' = owed /\ aborted' = aborted
      BY <1>3 DEF listVars
    <2>2. ListTypeOK' /\ Ordered' /\ IdleAbove'
      BY <1>1, <2>1 DEF ListInv, ListTypeOK, Ordered, IdleAbove
    <2>3. CursorInList' /\ LoopsExact' /\ FightsOwed'
      BY <1>1, <2>1 DEF ListInv, CursorInList, LoopsExact, FightsOwed, Fights, Running
    <2>4. QED BY <2>2, <2>3 DEF ListInv
  <1>4. CASE ListNext
    <2>1. CASE \E c \in Chars : Create(c) \/ Fight(c)
      BY <1>1, <2>1, CreateListInv, FightListInv
    <2>2. CASE \E c \in Chars, n \in Nodes \cup {Null} : Extract(c, n) \/ Die(c, n)
      BY <1>1, <2>2, ExtractListInv, DieListInv
    <2>3. CASE \E s \in Sites : BeginAgain(s) \/ \E n \in Nodes \cup {Null} : Begin(s, n)
      BY <1>1, <1>2, <2>3, BeginListInv
    <2>4. CASE \E n \in Nodes \cup {Null} : Step(n)
      BY <1>1, <2>4, StepListInv
    <2>5. CASE End \/ FightsBegin \/ FightsEnd
      BY <1>1, <2>5, EndListInv, FightListInv
    <2>6. QED BY <1>4, <2>1, <2>2, <2>3, <2>4, <2>5 DEF ListNext
  <1>5. QED BY <1>1, <1>3, <1>4

LEMMA Invariance == ListSpec => []ListInv
  BY InitListInv, NextListInv, PTL DEF ListSpec

(* Every reachable state is well typed, however many characters there are. *)
THEOREM ListTyped == ListSpec => []ListTypeOK
  <1>1. ListInv => ListTypeOK BY DEF ListInv
  <1>2. QED BY <1>1, Invariance, PTL

(* No registered loop is ever about to visit a character that extract_char has *)
(* freed: what CREF is for.                                                    *)
THEOREM CursorSafe == ListSpec => []CursorInList
  <1>1. ListInv => CursorInList BY DEF ListInv
  <1>2. QED BY <1>1, Invariance, PTL

(* A registered loop skips nobody and visits nobody twice. *)
THEOREM VisitsExact == ListSpec => []LoopsExact
  <1>1. ListInv => LoopsExact BY DEF ListInv
  <1>2. QED BY <1>1, Invariance, PTL

(* violence_update processes exactly those who were there when it began. *)
THEOREM RoundExact == ListSpec => []FightsOwed
  <1>1. ListInv => FightsOwed BY DEF ListInv
  <1>2. QED BY <1>1, Invariance, PTL

-----------------------------------------------------------------------------
(* What Traversal sees of a state of CharList. *)
Alive == list \ {Marker}
Walks == [i \in 1 .. MaxDepth |-> IF i <= depth THEN loop[i].due \ {Marker} ELSE {}]

LEMMA InitRefines == ListInit => Promised!Init
  <1>1. SUFFICES ASSUME ListInit PROVE Promised!Init
    OBVIOUS
  <1>2. Alive = {} /\ owed = {}
    BY <1>1 DEF ListInit, Alive
  <1>3. Walks = [i \in 1 .. MaxDepth |-> {}]
    BY <1>1 DEF ListInit, Walks
  <1>4. QED BY <1>2, <1>3 DEF Promised!Init, Alive, Walks

\* The marker is nobody: what it does to the list Traversal does not see.
LEMMA Unseen ==
    ASSUME UNCHANGED <<Alive, Walks, owed>>
    PROVE  UNCHANGED Promised!vars
  BY DEF Promised!vars, Alive, Walks

LEMMA CreateRefines == ASSUME ListInv, NEW c \in Chars, Create(c) PROVE Promised!Arrive(c)
  <1>1. c \in Chars \ Alive /\ Alive' = Alive \cup {c} /\ owed' = owed /\ c # Marker
    BY Typing DEF Create, Alive
  <1>2. DEFINE S == {i \in 1 .. depth : loop[i].nxt # Null}
  <1>3. S \in SUBSET (1 .. MaxDepth)
    BY Typing
  <1>4. Walks' = [i \in 1 .. MaxDepth |-> IF i \in S THEN Walks[i] \cup {c} ELSE Walks[i]]
    <2>1. SUFFICES ASSUME NEW i \in 1 .. MaxDepth
                   PROVE  Walks'[i] = IF i \in S THEN Walks[i] \cup {c} ELSE Walks[i]
      BY DEF Walks
    <2>2. CASE i <= depth /\ loop[i].nxt # Null
      <3>1. loop'[i].due = loop[i].due \cup {c} /\ i <= depth'
        BY <2>2, Typing DEF Create, Loop
      <3>2. i \in S
        BY <2>2, Typing
      <3>3. QED BY <1>1, <2>2, <3>1, <3>2 DEF Walks
    <2>3. CASE i <= depth /\ loop[i].nxt = Null
      <3>1. loop'[i].due = loop[i].due /\ i <= depth' /\ i \notin S
        BY <2>3, Typing DEF Create
      <3>2. QED BY <2>3, <3>1 DEF Walks
    <2>4. CASE ~(i <= depth)
      <3>1. ~(i <= depth') /\ i \notin S
        BY <2>4, Typing DEF Create
      <3>2. QED BY <2>4, <3>1 DEF Walks
    <2>5. QED BY <2>2, <2>3, <2>4
  <1>5. QED BY <1>1, <1>3, <1>4 DEF Promised!Arrive, Alive, Walks

LEMMA ExtractRefines ==
    ASSUME ListInv, NEW c \in Chars, NEW n \in Nodes \cup {Null}, Extract(c, n)
    PROVE  Promised!Leave(c)
  <1>1. c \in Alive /\ Alive' = Alive \ {c} /\ owed' = owed \ {c} /\ depth' = depth
    BY Typing DEF Extract, Alive
  <1>2. Walks' = [i \in 1 .. MaxDepth |-> Walks[i] \ {c}]
    <2>1. \A i \in 1 .. MaxDepth : loop'[i].due = loop[i].due \ {c}
      BY Typing DEF Extract, Without, Advanced, Loop
    <2>2. QED BY <1>1, <2>1 DEF Walks
  <1>3. QED BY <1>1, <1>2 DEF Promised!Leave, Alive, Walks

LEMMA DieRefines ==
    ASSUME ListInv, NEW c \in Chars, NEW n \in Nodes \cup {Null}, Die(c, n)
    PROVE  Promised!Die(c)
  <1>1. c \in Players \cap Alive /\ UNCHANGED <<Alive, owed, depth>>
    BY Typing DEF Die, Alive
  <1>2. DEFINE S == {i \in 1 .. depth : loop[i].nxt = c}
  <1>3. S \in SUBSET (1 .. MaxDepth)
    BY Typing
  <1>4. Walks' = [i \in 1 .. MaxDepth |-> IF i \in S THEN Walks[i] \ {c} ELSE Walks[i]]
    <2>1. SUFFICES ASSUME NEW i \in 1 .. MaxDepth
                   PROVE  Walks'[i] = IF i \in S THEN Walks[i] \ {c} ELSE Walks[i]
      BY DEF Walks
    <2>2. CASE i <= depth /\ loop[i].nxt = c
      <3>1. loop[i] \in Loop /\ loop'[i] = [loop[i] EXCEPT !.nxt = n, !.due = @ \ {c}]
        BY <2>2, Typing DEF Die
      <3>2. loop'[i].due = loop[i].due \ {c}
        BY <3>1 DEF Loop
      <3>3. i \in S
        BY <2>2, Typing
      <3>4. QED BY <1>1, <2>2, <3>2, <3>3 DEF Walks
    <2>3. CASE ~(i <= depth /\ loop[i].nxt = c)
      <3>1. loop[i].nxt # c => loop'[i].due = loop[i].due
        BY Typing DEF Die
      <3>2. i \notin S
        BY <2>3, Typing
      <3>3. QED BY <1>1, <2>3, <3>1, <3>2 DEF Walks
    <2>4. QED BY <2>2, <2>3
  <1>5. QED BY <1>1, <1>3, <1>4 DEF Promised!Die, Alive, Walks

LEMMA BeginRefines ==
    ASSUME ListInv, NEW s \in Sites, NEW n \in Nodes \cup {Null}, Begin(s, n)
    PROVE  \E i \in 1 .. MaxDepth : Promised!Begin(i)
  <1>1. /\ depth + 1 \in 1 .. MaxDepth /\ depth' = depth + 1
        /\ UNCHANGED <<Alive, owed>>
    BY Typing DEF Begin, Alive
  <1>2. \A j \in depth + 1 .. MaxDepth : Walks[j] = {}
    BY Typing DEF Walks
  <1>3. Walks' = [Walks EXCEPT ![depth + 1] = Alive]
    <2>1. loop'[depth + 1].due = list /\ \A i \in 1 .. MaxDepth : i # depth + 1 => loop'[i] = loop[i]
      BY <1>1, Typing DEF Begin
    <2>2. \A i \in 1 .. MaxDepth : i # depth + 1 => (i <= depth' <=> i <= depth)
      BY <1>1, Typing
    <2>3. \A i \in 1 .. MaxDepth : i # depth + 1 => Walks'[i] = Walks[i]
      BY <2>1, <2>2 DEF Walks
    <2>4. depth + 1 <= depth' /\ Walks'[depth + 1] = Alive
      BY <1>1, <2>1, Typing DEF Walks, Alive
    <2>5. Walks' = [i \in 1 .. MaxDepth |-> Walks'[i]] /\ Walks = [i \in 1 .. MaxDepth |-> Walks[i]]
      BY DEF Walks
    <2>6. QED BY <1>1, <2>3, <2>4, <2>5
  <1>4. PICK i \in 1 .. MaxDepth : i = depth + 1
    BY <1>1
  <1>5. Promised!Begin(i)
    BY <1>1, <1>2, <1>3, <1>4 DEF Promised!Begin, Alive, Walks
  <1>6. QED BY <1>5

LEMMA StepRefines ==
    ASSUME ListInv, NEW n \in Nodes \cup {Null}, Step(n)
    PROVE  (\E i \in 1 .. MaxDepth, c \in Chars : Promised!Visit(i, c)) \/ UNCHANGED Promised!vars
  <1> DEFINE c == loop[depth].nxt
  <1>1. /\ depth \in 1 .. MaxDepth /\ UNCHANGED <<Alive, owed, depth>>
        /\ c \in list /\ c \in loop[depth].due
    <2>1. depth \in 1 .. MaxDepth /\ c # Null /\ UNCHANGED <<Alive, owed, depth>>
      BY Typing DEF Step, Alive
    <2>2. c \in list /\ place[c] \in Nat
      BY <2>1, Typing DEF ListInv, CursorInList, Running
    <2>3. loop[depth].due = {x \in list : place[x] >= place[c]}
      <3>1. depth \in Running
        BY <2>1, Typing DEF Running
      <3>2. QED BY <2>1, <3>1 DEF ListInv, LoopsExact
    <2>4. QED BY <2>1, <2>2, <2>3
  <1>2. /\ loop'[depth].due = loop[depth].due \ {c}
        /\ \A i \in 1 .. MaxDepth : i # depth => loop'[i] = loop[i]
    BY <1>1, Typing DEF Step, Loop
  <1>3. CASE c = Marker
    <2>1. Walks' = Walks
      BY <1>1, <1>2, <1>3 DEF Walks
    <2>2. QED BY <1>1, <2>1, Unseen
  <1>4. CASE c # Marker
    <2>1. c \in Chars /\ c \in Walks[depth]
      BY <1>1, <1>4, Typing DEF Walks, Nodes
    <2>2. \A j \in depth + 1 .. MaxDepth : Walks[j] = {}
      BY <1>1, Typing DEF Walks
    <2>3. Walks' = [Walks EXCEPT ![depth] = @ \ {c}]
      BY <1>1, <1>2 DEF Walks
    <2>4. PICK i \in 1 .. MaxDepth, d \in Chars : i = depth /\ d = c
      BY <1>1, <2>1
    <2>5. Promised!Visit(i, d)
      BY <1>1, <2>1, <2>2, <2>3, <2>4 DEF Promised!Visit, Alive, Walks
    <2>6. QED BY <2>5
  <1>5. QED BY <1>3, <1>4

LEMMA EndRefines == ASSUME ListInv, End PROVE UNCHANGED Promised!vars
  <1>1. depth \in 1 .. MaxDepth /\ depth' = depth - 1 /\ UNCHANGED <<Alive, owed>>
    BY Typing DEF End, Alive
  <1>2. loop[depth].due = {}
    <2>1. depth \in Running /\ loop[depth].nxt = Null
      BY <1>1, Typing DEF End, Running
    <2>2. QED BY <2>1 DEF ListInv, LoopsExact
  <1>3. \A i \in 1 .. MaxDepth : i # depth => (loop'[i] = loop[i] /\ (i <= depth' <=> i <= depth))
    BY <1>1, Typing DEF End
  <1>4. Walks' = Walks
    <2>1. \A i \in 1 .. MaxDepth : i # depth => Walks'[i] = Walks[i]
      BY <1>3 DEF Walks
    <2>2. Walks'[depth] = {} /\ Walks[depth] = {}
      BY <1>1, <1>2, Typing DEF Walks
    <2>3. Walks' = [i \in 1 .. MaxDepth |-> Walks'[i]] /\ Walks = [i \in 1 .. MaxDepth |-> Walks[i]]
      BY DEF Walks
    <2>4. QED BY <2>1, <2>2, <2>3
  <1>5. QED BY <1>1, <1>4, Unseen

LEMMA FightRefines ==
    ASSUME ListInv
    PROVE  /\ FightsBegin => Promised!RoundBegin
           /\ \A c \in Chars : Fight(c) => Promised!Process(c)
           /\ FightsEnd => UNCHANGED Promised!vars
  <1>1. ASSUME FightsBegin PROVE Promised!RoundBegin
    <2>1. Marker \notin list /\ owed = {} /\ owed' = Alive /\ Alive' = Alive
      BY <1>1 DEF FightsBegin, ListInv, FightsOwed, Fights, Alive
    <2>2. Walks' = Walks
      BY <1>1 DEF FightsBegin, Walks
    <2>3. QED BY <2>1, <2>2 DEF Promised!RoundBegin, Alive, Walks
  <1>2. ASSUME NEW c \in Chars, Fight(c) PROVE Promised!Process(c)
    <2>1. /\ c \in list /\ Marker \in list /\ place[c] <= place[Marker] /\ c # Marker
          /\ place[c] \in Nat /\ place[Marker] \in Nat
      BY <1>2, Typing DEF Fight, IsFirst, Fights, Nodes
    <2>2. place[c] < place[Marker]
      BY <2>1 DEF ListInv, Ordered
    <2>3. c \in owed
      BY <2>1, <2>2 DEF ListInv, FightsOwed, Fights
    <2>4. Alive' = Alive /\ Walks' = Walks /\ owed' = owed \ {c}
      BY <1>2 DEF Fight, Alive, Walks
    <2>5. QED BY <2>3, <2>4 DEF Promised!Process, Alive, Walks
  <1>3. ASSUME FightsEnd PROVE UNCHANGED Promised!vars
    <2>1. Alive' = Alive /\ Walks' = Walks /\ owed' = owed
      BY <1>3 DEF FightsEnd, Alive, Walks
    <2>2. QED BY <2>1, Unseen
  <1>4. QED BY <1>1, <1>2, <1>3

LEMMA NextRefines == ListInv /\ [ListNext]_listVars => [Promised!Next]_Promised!vars
  <1>1. SUFFICES ASSUME ListInv, [ListNext]_listVars PROVE [Promised!Next]_Promised!vars
    OBVIOUS
  <1>2. CASE \E s \in Sites : BeginAgain(s)
    <2>1. Alive' = Alive /\ Walks' = Walks /\ owed' = owed
      BY <1>2 DEF BeginAgain, Alive, Walks
    <2>2. QED BY <2>1, Unseen
  <1>3. CASE UNCHANGED listVars
    <2>1. Alive' = Alive /\ Walks' = Walks /\ owed' = owed
      BY <1>3 DEF listVars, Alive, Walks
    <2>2. QED BY <2>1, Unseen
  <1>4. CASE \E c \in Chars : Create(c) \/ Fight(c)
    BY <1>1, <1>4, CreateRefines, FightRefines DEF Promised!Next
  <1>5. CASE \E c \in Chars, n \in Nodes \cup {Null} : Extract(c, n) \/ Die(c, n)
    BY <1>1, <1>5, ExtractRefines, DieRefines DEF Promised!Next
  <1>6. CASE \E s \in Sites, n \in Nodes \cup {Null} : Begin(s, n)
    <2>1. PICK s \in Sites, n \in Nodes \cup {Null} : Begin(s, n)
      BY <1>6
    <2>2. QED BY <1>1, <2>1, BeginRefines DEF Promised!Next
  <1>7. CASE \E n \in Nodes \cup {Null} : Step(n)
    BY <1>1, <1>7, StepRefines DEF Promised!Next
  <1>8. CASE End \/ FightsBegin \/ FightsEnd
    BY <1>1, <1>8, EndRefines, FightRefines DEF Promised!Next
  <1>9. QED BY <1>1, <1>2, <1>3, <1>4, <1>5, <1>6, <1>7, <1>8 DEF ListNext

(* The list with its registered loops and its marker implements Traversal: a   *)
(* loop visits everybody who is there from its beginning to its end, and       *)
(* nobody who is gone, and so does violence_update.                            *)
THEOREM ListRefinesTraversal == ListSpec => ImplementsTraversal
  BY InitRefines, NextRefines, Invariance, PTL DEF ListSpec, Promised!Spec, ImplementsTraversal
=============================================================================
