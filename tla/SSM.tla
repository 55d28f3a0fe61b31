-------------------------------- MODULE SSM --------------------------------
(***************************************************************************)
(* The shared string manager (src/src/ssm.c).                              *)
(*                                                                         *)
(* One block of memory, string_space, holds a singly linked list of        *)
(* BufEntry headers, each followed by its characters.  str_dup() of a      *)
(* string that is already in the space only counts one more reference;     *)
(* any other string gets the first free block that fits, starting from     *)
(* ssm_buf_free; when none fits the string is malloc'd ("overflow").       *)
(* While the database boots, fread_string() looks every string up in a     *)
(* temporary hash first, so equal texts share one block.                   *)
(*                                                                         *)
(* An address is the offset of a header in string_space and NULL is Nil.   *)
(* The list is kept as the set Blocks of header addresses: the code only   *)
(* ever links a header right after the block it was cut from and unlinks   *)
(* one into the block before it, so list order is address order (NoOverlap *)
(* is what keeps it so) and ptr->next is the next larger address.          *)
(*                                                                         *)
(* The program is one thread, so a call of str_dup runs to its end: pc is  *)
(* the place in that call, and the clients act only while it is "idle".    *)
(***************************************************************************)
EXTENDS Integers, FiniteSets

CONSTANTS
    Chunks,      \* MAX_CHUNKS, the chunks string_space is made of
    ChunkSize,   \* CHUNK_SIZE, bytes of a chunk with its header
    Header,      \* HEADER_SIZE
    Align,       \* addrTypeSize
    SizeMod,     \* 2^16, the values of the unsigned short BufEntry.size
    MaxFree,     \* MAX_FREE
    Texts,       \* the non-empty texts clients use
    FileTexts,   \* those that are also read from files
    Phases,      \* what follows the boot: "run", "getall" or nothing
    Bytes,       \* Bytes[t] is strlen(t) + 1
    OverIds,     \* addresses malloc may return: bounds the overflow strings
    NoText,      \* no text: a block not yet used, an unused malloc address
    MaxRefs,     \* bound on the references clients hold to one string
    Misuse       \* the client errors the code detects: "free", "dup" or none

ASSUME SSMAssumption ==
    /\ Chunks \in Nat \ {0} /\ Align \in Nat \ {0}
    /\ Header \in Nat /\ ChunkSize \in Nat /\ SizeMod \in Nat
    /\ Header > 0 /\ Header < ChunkSize
    /\ ChunkSize < SizeMod /\ ChunkSize + Header < 2 * SizeMod
    /\ MaxFree \in Nat /\ MaxFree > 1
    /\ MaxRefs \in Nat \ {0}
    /\ Bytes \in [Texts -> Nat \ {0}]
    /\ NoText \notin Texts /\ FileTexts \subseteq Texts
    /\ IsFiniteSet(OverIds)

VARIABLES
    size, usage, buf,       \* the fields of the block at each address
    free,                   \* ssm_buf_free
    numFree,                \* saturates at MaxFree: only compared with 1, MAX_FREE
    nAlloc, sAlloc,         \* nAllocString, sAllocString
    over, nOver, sOver,     \* malloc'd strings; nOverFlowString, sOverFlowString
    hash, hashOver,         \* temp_string_hash: its pointers into the space, and outside
    phase,                  \* "load": boot; "run"; "getall": fBootDb set again by get/drop all
    pc, pend,               \* where str_dup is, and what it was asked
    walk, last, merges,     \* the locals of defrag_heap
    refs                    \* pointers the clients hold to each address

heap     == <<size, usage, buf>>
counters == <<nAlloc, sAlloc>>
overflow == <<over, nOver, sOver>>
table    == <<hash, hashOver>>
scan     == <<walk, last, merges>>
vars     == <<heap, free, numFree, counters, overflow, table, phase, pc, pend,
              scan, refs>>

Nil     == -1
Space   == Chunks * ChunkSize
Addrs   == {a \in 0 .. Space - 1 : a % Align = 0}
Blocks  == DOMAIN size
fBootDb == phase # "run"
Request == [text : Texts, hashed : BOOLEAN]
NoReq   == [text |-> NoText, hashed |-> FALSE]

\* x is the least element of S, or Nil when there is none.
IsLeast(x, S) == IF S = {} THEN x = Nil ELSE x \in S /\ \A y \in S : x <= y

\* What the arithmetic of a 16-bit size stores.
Short(n) == n % SizeMod

\* A usage below zero only says "disabled" to the code, so one value stands for all.
Down(u) == IF u > 0 THEN u - 1 ELSE -1

\* The length rounded up so that the header after the block is aligned.
Need(t) ==
    LET over_by == (Bytes[t] + Header) % Align
    IN  IF over_by = 0 THEN Bytes[t] ELSE Bytes[t] + Align - over_by

Init ==
    /\ size = [a \in {i * ChunkSize : i \in 0 .. Chunks - 1} |-> ChunkSize - Header]
    /\ usage = [a \in Blocks |-> 0]
    /\ buf = [a \in Blocks |-> NoText]
    /\ free = 0
    /\ numFree = 0
    /\ nAlloc = 0 /\ sAlloc = 0
    /\ over = [o \in OverIds |-> NoText]
    /\ nOver = 0 /\ sOver = 0
    /\ hash = {} /\ hashOver = {}
    /\ phase = "load"
    /\ pc = "idle" /\ pend = NoReq
    /\ walk = Nil /\ last = Nil /\ merges = 0
    /\ refs = [a \in Addrs |-> 0]

-----------------------------------------------------------------------------
(***************************************************************************)
(* Calls of the clients.                                                   *)
(***************************************************************************)

\* str_dup is entered with a text that needs a block of its own.
Ask(t, hashed) ==
    /\ \E o \in OverIds : over[o] = NoText      \* the bound on overflow strings
    /\ pend' = [text |-> t, hashed |-> hashed]
    /\ pc' = "dup"
    /\ UNCHANGED <<heap, free, numFree, counters, overflow, table, phase, scan, refs>>

\* A pointer somebody once held to a block that was freed and not given out again.
Stale(a) == usage[a] <= 0 /\ buf[a] # NoText

\* str_dup of a pointer into the space: one more reference to the block.
CountUp(a) ==
    /\ refs[a] < MaxRefs
    /\ usage' = [usage EXCEPT ![a] = IF @ <= 0 THEN 1 ELSE @ + 1]
    /\ refs' = [refs EXCEPT ![a] = @ + 1]
    /\ UNCHANGED <<size, buf, free, numFree, counters, overflow, table, phase,
                   pc, pend, scan>>

StrDup(t) ==
    /\ pc = "idle"
    /\ Ask(t, FALSE)

StrDupHeap(a) ==
    /\ pc = "idle"
    /\ a \in Blocks
    /\ refs[a] > 0 \/ ("dup" \in Misuse /\ Stale(a))
    /\ CountUp(a)

\* What temp_hash_find(t) may return: an entry whose characters equal t.  Memory
\* that was freed may still compare equal.
HeapHits(t) == {a \in hash : a \in Blocks /\ buf[a] = t}
OverHits(t) == {o \in hashOver : over[o] \in {t, NoText}}
SureHit(t)  == HeapHits(t) # {} \/ \E o \in hashOver : over[o] = t

\* fread_string (and its _eol twin) of a file that holds t.  No file is read in
\* the "getall" windows.
FreadString(t) ==
    /\ pc = "idle"
    /\ phase # "getall"
    /\ \/ /\ fBootDb
          /\ \E a \in HeapHits(t) : CountUp(a)
       \/ /\ fBootDb
          /\ OverHits(t) # {}
          /\ Ask(t, FALSE)
       \/ /\ fBootDb
          /\ ~SureHit(t)
          /\ Ask(t, TRUE)
       \/ /\ ~fBootDb
          /\ Ask(t, FALSE)

\* Mutant: the boot-time table is not told.
FreeStringKeepsEntry(a) ==
    /\ pc = "idle"
    /\ a \in Blocks
    /\ refs[a] > 0 \/ ("free" \in Misuse /\ Stale(a))
    /\ refs' = [refs EXCEPT ![a] = @ - 1]
    /\ usage' = [usage EXCEPT ![a] = Down(@)]
    /\ IF usage[a] = 1
       THEN /\ numFree' = IF numFree < MaxFree THEN numFree + 1 ELSE MaxFree
            /\ nAlloc' = nAlloc - 1
            /\ sAlloc' = sAlloc - (size[a] + Header)
            /\ free' = IF free = Nil \/ free > a THEN a ELSE free
       ELSE UNCHANGED <<numFree, counters, free>>
    /\ UNCHANGED <<size, buf, overflow, table, phase, pc, pend, scan>>

\* free_string of a pointer into the space.
FreeString(a) ==
    /\ pc = "idle"
    /\ a \in Blocks
    /\ refs[a] > 0 \/ ("free" \in Misuse /\ Stale(a))
    /\ refs' = [refs EXCEPT ![a] = IF @ > 0 THEN @ - 1 ELSE 0]
    /\ usage' = [usage EXCEPT ![a] = Down(@)]
    /\ IF usage[a] = 1
       THEN /\ numFree' = IF numFree < MaxFree THEN numFree + 1 ELSE MaxFree
            /\ nAlloc' = nAlloc - 1
            /\ sAlloc' = sAlloc - (size[a] + Header)
            /\ free' = IF free = Nil \/ free > a THEN a ELSE free
            /\ hash' = IF fBootDb THEN hash \ {a} ELSE hash
       ELSE UNCHANGED <<numFree, counters, free, hash>>
    /\ UNCHANGED <<size, buf, overflow, hashOver, phase, pc, pend, scan>>

\* free_string of an overflow string: the hash keeps its entry.
FreeOverflow(o) ==
    /\ pc = "idle"
    /\ over[o] # NoText
    /\ over' = [over EXCEPT ![o] = NoText]
    /\ nOver' = nOver - 1
    /\ sOver' = sOver - Bytes[over[o]]
    /\ UNCHANGED <<heap, free, numFree, counters, table, phase, pc, pend, scan, refs>>

-----------------------------------------------------------------------------
(***************************************************************************)
(* str_dup, from RETRY on.                                                 *)
(***************************************************************************)
\* Mutant: a block in use fits as well.
FitsInUse == {b \in Blocks : free # Nil /\ b >= free /\ size[b] >= Need(pend.text)}

Fits == {b \in Blocks : free # Nil /\ b >= free /\ usage[b] = 0
                        /\ size[b] >= Need(pend.text)}

\* The block p now holds the text: counted, referenced once, hashed if asked.
Granted(p, bytes) ==
    /\ nAlloc' = nAlloc + 1
    /\ sAlloc' = sAlloc + bytes + Header
    /\ refs' = [refs EXCEPT ![p] = @ + 1]
    /\ hash' = IF pend.hashed THEN hash \cup {p} ELSE hash
    /\ pc' = "idle" /\ pend' = NoReq
    /\ UNCHANGED <<numFree, overflow, hashOver, phase, scan>>

\* What a split leaves: p cut to len, and rest bytes at temp.
Cut(p, temp, len, rest) ==
    /\ size' = [b \in Blocks \cup {temp} |->
                   IF b = p THEN len ELSE IF b = temp THEN rest ELSE size[b]]
    /\ usage' = [b \in Blocks \cup {temp} |->
                   IF b = p THEN 1 ELSE IF b = temp THEN 0 ELSE usage[b]]
    /\ buf' = [b \in Blocks \cup {temp} |->
                   IF b = p THEN pend.text ELSE IF b = temp THEN NoText ELSE buf[b]]
    /\ free' = temp

\* Mutant: the rest is not shortened by its own header.
DupSplitOverlaps(p) ==
    LET len == Need(pend.text)
    IN  /\ pc = "dup" /\ p \in Fits /\ IsLeast(p, Fits)
        /\ size[p] - len >= Header + 8
        /\ Cut(p, p + Header + len, len, size[p] - len)
        /\ Granted(p, len)

\* The block is larger than needed by a header and 8 bytes: it is cut in two.
DupSplit(p) ==
    LET len == Need(pend.text)
    IN  /\ pc = "dup"
        /\ p \in Fits /\ IsLeast(p, Fits)
        /\ size[p] - len >= Header + 8
        /\ Cut(p, p + Header + len, len, size[p] - (len + Header))
        /\ Granted(p, len)

\* Mutant: the block at ssm_buf_free is disabled even when it is the one taken.
DupWholeNoTest(p) ==
    /\ pc = "dup"
    /\ p \in Fits /\ IsLeast(p, Fits)
    /\ size[p] - Need(pend.text) < Header + 8
    /\ usage' = [[usage EXCEPT ![p] = 1] EXCEPT ![free] = Down(@)]
    /\ buf' = [buf EXCEPT ![p] = pend.text]
    /\ \E f \in Blocks \cup {Nil} :
          /\ IsLeast(f, {b \in Blocks : b >= free /\ usage'[b] = 0})
          /\ free' = f
    /\ size' = size
    /\ Granted(p, size[p])

\* The block is used whole.  A block at ssm_buf_free that was too small is
\* disabled, and ssm_buf_free moves to the next free block.
DupWhole(p) ==
    /\ pc = "dup"
    /\ p \in Fits /\ IsLeast(p, Fits)
    /\ size[p] - Need(pend.text) < Header + 8
    /\ usage' = [usage EXCEPT ![free] = Down(@), ![p] = 1]
    /\ buf' = [buf EXCEPT ![p] = pend.text]
    /\ \E f \in Blocks \cup {Nil} :
          /\ IsLeast(f, {b \in Blocks : b >= free /\ usage'[b] = 0})
          /\ free' = f
    /\ size' = size
    /\ Granted(p, size[p])

\* Nothing fits: defragment if enough was freed since the last time.
DupFails ==
    LET n == IF numFree > 1 /\ numFree < MaxFree THEN numFree + 1 ELSE numFree
    IN  /\ pc = "dup"
        /\ Fits = {}
        /\ IF n >= MaxFree
           THEN /\ pc' = "defrag"
                /\ numFree' = n
                /\ free' = Nil /\ walk' = 0 /\ last' = Nil /\ merges' = 0
           ELSE pc' = "full" /\ numFree' = n /\ UNCHANGED <<free, scan>>
        /\ UNCHANGED <<heap, counters, overflow, table, phase, pend, refs>>

\* The string is malloc'd; temp_hash_add takes it like any other.
DupOverflow(o) ==
    /\ pc = "full"
    /\ over[o] = NoText
    /\ over' = [over EXCEPT ![o] = pend.text]
    /\ nOver' = nOver + 1
    /\ sOver' = sOver + Bytes[pend.text]
    /\ hashOver' = IF pend.hashed THEN hashOver \cup {o} ELSE hashOver
    /\ pc' = "idle" /\ pend' = NoReq
    /\ UNCHANGED <<heap, free, numFree, counters, hash, phase, scan, refs>>

-----------------------------------------------------------------------------
(***************************************************************************)
(* defrag_heap, one action per way through the body of its loop.           *)
(***************************************************************************)

\* The administrators' command "memory defrag" (db.c).
DoMemoryDefrag ==
    /\ pc = "idle"
    /\ pc' = "defrag"
    /\ free' = Nil /\ walk' = 0 /\ last' = Nil /\ merges' = 0
    /\ UNCHANGED <<heap, numFree, counters, overflow, table, phase, pend, refs>>

Advance == \E n \in Blocks \cup {Nil} :
              IsLeast(n, {b \in Blocks : b > walk}) /\ walk' = n

Mergeable == size[last] + size[walk] <= ChunkSize

DefragUsed ==
    /\ pc = "defrag" /\ walk # Nil
    /\ usage[walk] > 0
    /\ last' = Nil
    /\ Advance
    /\ UNCHANGED <<heap, free, numFree, counters, overflow, table, phase, pc,
                   pend, merges, refs>>

DefragFirstFree ==
    /\ pc = "defrag" /\ walk # Nil
    /\ usage[walk] <= 0 /\ last = Nil
    /\ last' = walk
    /\ free' = IF free = Nil THEN walk ELSE free
    /\ Advance
    /\ UNCHANGED <<heap, numFree, counters, overflow, table, phase, pc, pend,
                   merges, refs>>

DefragMerge ==
    /\ pc = "defrag" /\ walk # Nil
    /\ usage[walk] <= 0 /\ last # Nil
    /\ Mergeable
    /\ merges' = 1                              \* only tested for zero
    /\ size' = [b \in Blocks \ {walk} |->
                   IF b = last THEN Short(size[last] + size[walk] + Header) ELSE size[b]]
    /\ usage' = [b \in Blocks \ {walk} |-> IF b = last THEN 0 ELSE usage[b]]
    /\ buf' = [b \in Blocks \ {walk} |-> buf[b]]
    /\ Advance
    /\ UNCHANGED <<free, numFree, counters, overflow, table, phase, pc, pend,
                   last, refs>>

DefragTooBig ==
    /\ pc = "defrag" /\ walk # Nil
    /\ usage[walk] <= 0 /\ last # Nil
    /\ ~Mergeable
    /\ last' = walk
    /\ Advance
    /\ UNCHANGED <<heap, free, numFree, counters, overflow, table, phase, pc,
                   pend, merges, refs>>

\* The walk is over: str_dup tries again if anything was merged.
DefragDone ==
    /\ pc = "defrag" /\ walk = Nil
    /\ numFree' = 0
    /\ pc' = IF pend = NoReq THEN "idle" ELSE IF merges > 0 THEN "dup" ELSE "full"
    /\ walk' = Nil /\ last' = Nil /\ merges' = 0
    /\ UNCHANGED <<heap, free, counters, overflow, table, phase, pend, refs>>

-----------------------------------------------------------------------------
(***************************************************************************)
(* fBootDb: cleared when the database is loaded, set again while a player  *)
(* gets or drops everything.  The table outlives the boot: nothing calls   *)
(* boot_done.                                                              *)
(***************************************************************************)
Phase(from, to) ==
    /\ pc = "idle"
    /\ phase = from /\ phase' = to /\ to \in Phases
    /\ UNCHANGED <<heap, free, numFree, counters, overflow, table, pc, pend, scan, refs>>

BootEnds  == Phase("load", "run")
GetAll    == Phase("run", "getall")
GetAllEnd == Phase("getall", "run")

Client ==
    \/ \E t \in Texts : StrDup(t)
    \/ \E t \in FileTexts : FreadString(t)
    \/ \E a \in Addrs : StrDupHeap(a) \/ FreeString(a)
    \/ \E o \in OverIds : FreeOverflow(o)
    \/ DoMemoryDefrag \/ BootEnds \/ GetAll \/ GetAllEnd

Defrag == DefragUsed \/ DefragFirstFree \/ DefragMerge \/ DefragTooBig \/ DefragDone

Call ==
    \/ \E p \in Addrs : DupSplit(p) \/ DupWhole(p)
    \/ \E o \in OverIds : DupOverflow(o)
    \/ DupFails
    \/ Defrag

Next == Client \/ Call

Spec == Init /\ [][Next]_vars

-----------------------------------------------------------------------------
(***************************************************************************)
(* Properties.                                                             *)
(***************************************************************************)
Live == {b \in Blocks : usage[b] > 0}

\* Every variable has the shape the code gives it.
TypeOK ==
    /\ Blocks \subseteq 0 .. Space - 1 /\ 0 \in Blocks
    /\ size \in [Blocks -> 0 .. SizeMod - 1]
    /\ usage \in [Blocks -> -1 .. MaxRefs]
    /\ buf \in [Blocks -> Texts \cup {NoText}]
    /\ free \in Blocks \cup {Nil}
    /\ numFree \in 0 .. MaxFree
    /\ nAlloc \in Int /\ sAlloc \in Int /\ nOver \in Int /\ sOver \in Int
    /\ over \in [OverIds -> Texts \cup {NoText}]
    /\ hash \subseteq Addrs /\ hashOver \subseteq OverIds
    /\ phase \in {"load", "run", "getall"}
    /\ pc \in {"idle", "dup", "defrag", "full"}
    /\ pend \in Request \cup {NoReq}
    /\ walk \in Blocks \cup {Nil} /\ last \in Blocks \cup {Nil} /\ merges \in 0 .. 1
    /\ refs \in [Addrs -> 0 .. MaxRefs]

\* No block reaches into the next one or past the end of string_space, whatever
\* sequence of splits, merges and 16-bit sizes produced it (src/src/ssm.c:104-157,
\* 250-262): a strcpy into one string never touches another.
NoOverlap ==
    \A a \in Blocks : /\ a + Header + size[a] <= Space
                      /\ \A b \in Blocks : a < b => a + Header + size[a] <= b

\* A string is never reclaimed while a client still holds it, and never kept when
\* none does: usage is the number of outstanding pointers, though ssm_buf_free also
\* decrements the usage of blocks nobody freed (ssm.c:264-265).
UsageCountsRefs ==
    \A a \in Addrs :
        /\ refs[a] > 0 => a \in Blocks /\ usage[a] = refs[a]
        /\ a \in Blocks /\ usage[a] > 0 => refs[a] = usage[a]

\* ssm_buf_free is a header of the list and never one of a string in use, so the
\* decrement of a skipped block (ssm.c:265) cannot take a client's reference.
FreePtrNotLive ==
    free # Nil => free \in Blocks /\ usage[free] <= 0

\* While the database loads, every pointer of the temporary hash into the space is a
\* string in use, and no two of them have the same text: a string freed during the
\* boot leaves the table, and equal texts are crunched (ssm.c:316-337, 391-398).
BootTableLive ==
    phase = "load" =>
        \A a \in hash : /\ a \in Live
                        /\ \A b \in hash : a # b => buf[a] # buf[b]

(***************************************************************************)
(* Refinement: the manager implements a store of counted strings, whose    *)
(* handles are the addresses in the space and those malloc returned.       *)
(***************************************************************************)
Inside(a)  == <<"space", a>>
Outside(o) == <<"malloc", o>>
Handles == {Inside(a) : a \in Addrs} \cup {Outside(o) : o \in OverIds}
InUse   == {Inside(a) : a \in Live}
           \cup {Outside(o) : o \in {m \in OverIds : over[m] # NoText}}
Stored  == [h \in InUse |->
               IF h[1] = "space" THEN [text |-> buf[h[2]], count |-> usage[h[2]]]
                                 ELSE [text |-> over[h[2]], count |-> 1]]

Abs == INSTANCE StringStore WITH Handle <- Handles, Text <- Texts, store <- Stored

\* str_dup never returns an address somebody holds, a held string keeps its text,
\* and exactly the last free_string gives the block back (ssm.c:173-344).
ImplementsStore == Abs!Spec
=============================================================================
