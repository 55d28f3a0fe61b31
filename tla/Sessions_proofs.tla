--------------------------- MODULE Sessions_proofs ---------------------------
(***************************************************************************)
(* Proofs about how a connection becomes a player.                         *)
(*                                                                         *)
(* Login, for any number of sockets, names and characters in memory: who   *)
(* plays whom is told by three pointers, and which copy of a character     *)
(* counts by where it is; what makes them right is inductive only          *)
(* together, since a reconnection finds a character by its pointer and a   *)
(* socket by its name.                                                     *)
(*                                                                         *)
(* Gate, for any name server, any number of links and players and a table  *)
(* of any size: which names are shown rests on what the numbers of         *)
(* questions say, that an answer, however late, is about a name that its   *)
(* lookup has come by; whose failures are counted rests on there being one *)
(* slot for an address that has not expired.                               *)
(***************************************************************************)
EXTENDS Login, Gate, FiniteSetTheorems, WellFoundedInduction, TLAPS

(***************************************************************************)
(*                                 Login                                   *)
(***************************************************************************)

\* Attached, of the pointers.
Bound ==
    /\ PointersTypeOK /\ HeldAlive
    /\ \A d \in Desc : char[d] # Nil => owner[char[d]] = d
    /\ \A b \in Bodies \cup {Mob} : owner[b] # Nil => char[owner[b]] = b

\* What a descriptor has in each of its states: nothing when it is closed, a character
\* from the name on, one that is in the world exactly when it plays; and an immortal
\* who is switched has left his own.
SessionShape ==
    \A d \in Desc :
        /\ conn[d] = "closed" => char[d] = Nil
        /\ conn[d] \notin {"closed", "name"} => char[d] # Nil
        /\ orig[d] # Nil => conn[d] = "playing" /\ char[d] = Mob /\ owner[orig[d]] = Nil
        /\ char[d] = Mob => orig[d] # Nil
        /\ char[d] \in world => conn[d] = "playing"

WorldAlive == \A b \in world : who[b] # Nil

\* A character is created only where there is none of the name, nor a file.
NewNames ==
    \A d \in Desc :
        conn[d] \in {"confirm", "create"} =>
            file[who[char[d]]] = Nil /\ \A b \in world : who[b] # who[char[d]]

\* What a login finds when it is over: the file, or level 1 without one.
Current(n) == IF file[n] = Nil THEN 0 ELSE file[n]

\* While nobody of the name plays, every copy that a login holds is what the file says.
CopiesCurrent ==
    \A d \in Desc :
        conn[d] # "playing" /\ char[d] \in Bodies /\ (\A b \in world : who[b] # who[char[d]])
            => version[char[d]] = Current(who[char[d]])

IInv == Bound /\ OneBody /\ SessionShape /\ WorldAlive /\ NewNames /\ CopiesCurrent

-----------------------------------------------------------------------------
(* What close_socket does, said by who owns what. *)

LEMMA Typing ==
    ASSUME IInv
    PROVE  /\ conn \in [Desc -> States]
           /\ char \in [Desc -> Bodies \cup {Mob, Nil}] /\ orig \in [Desc -> Bodies \cup {Nil}]
           /\ who \in [Bodies -> Names \cup {Nil}]
           /\ version \in [Bodies -> 0 .. MaxVersion]
           /\ owner \in [Bodies \cup {Mob} -> Desc \cup {Nil}]
           /\ world \subseteq Bodies
           /\ file \in [Names -> 1 .. MaxVersion \cup {Nil}]
           /\ Mob \notin Bodies /\ Nil \notin Bodies /\ Nil # Mob /\ Nil \notin Desc /\ Nil \notin Names
  BY LoginAssumption DEF IInv, Bound, PointersTypeOK

\* d->character and ch->desc are each other's inverse.
LEMMA Owners ==
    ASSUME IInv, NEW d \in Desc, NEW b \in Bodies \cup {Mob}
    PROVE  owner[b] = d <=> char[d] = b
  BY Typing DEF IInv, Bound

\* The name of the character a descriptor stands for.
LEMMA CharOf ==
    ASSUME IInv, NEW d \in Desc
    PROVE  /\ conn[d] = "playing" => CH(d) \in world /\ NameOf(CH(d)) = who[CH(d)] /\ NameOf(CH(d)) # Nil
           /\ conn[d] # "playing" => CH(d) = char[d] /\ char[d] \in Bodies \cup {Nil} /\ char[d] \notin world
           /\ conn[d] \notin {"closed", "name", "playing"} => char[d] \in Bodies /\ NameOf(CH(d)) = who[char[d]]
           /\ conn[d] = "playing" /\ orig[d] = Nil => char[d] \in world /\ owner[char[d]] = d
  <1> USE Typing
  <1>1. CASE conn[d] = "playing"
    <2>1. CH(d) \in world
      BY <1>1 DEF IInv, Bound, HeldAlive
    <2>2. CH(d) \in Bodies /\ who[CH(d)] # Nil
      BY <2>1 DEF IInv, WorldAlive
    <2>3. orig[d] = Nil => char[d] = CH(d)
      BY DEF CH
    <2>4. orig[d] = Nil => owner[char[d]] = d
      BY <2>1, <2>2, <2>3 DEF IInv, Bound
    <2>5. QED BY <1>1, <2>1, <2>2, <2>3, <2>4 DEF NameOf
  <1>2. CASE conn[d] # "playing"
    <2>1. orig[d] = Nil /\ char[d] # Mob
      BY <1>2 DEF IInv, SessionShape
    <2>2. CH(d) = char[d] /\ char[d] \in Bodies \cup {Nil} /\ char[d] \notin world
      BY <1>2, <2>1 DEF IInv, SessionShape, CH
    <2>3. conn[d] \notin {"closed", "name", "playing"} => char[d] # Nil
      BY DEF IInv, SessionShape
    <2>4. QED BY <1>2, <2>2, <2>3 DEF NameOf
  <1>3. QED BY <1>1, <1>2

LEMMA Disowning ==
    ASSUME IInv, NEW C \in SUBSET Desc
    PROVE  Disowned(C) = [b \in Bodies \cup {Mob} |-> IF owner[b] \in C THEN Nil ELSE owner[b]]
  <1>1. ASSUME NEW b \in Bodies \cup {Mob}
        PROVE  (IF b \in Unlinked(C) THEN Nil ELSE owner[b]) = IF owner[b] \in C THEN Nil ELSE owner[b]
    <2>1. CASE owner[b] \in C
      <3>1. char[owner[b]] = b
        BY <2>1, Owners
      <3>2. QED BY <2>1, <3>1 DEF Unlinked
    <2>2. CASE owner[b] \notin C
      <3>1. ASSUME b \in Unlinked(C) PROVE owner[b] = Nil
        <4>1. PICK d \in C : b = char[d] \/ (d \in Playing(C) /\ b = CH(d))
          BY <3>1 DEF Unlinked, Playing
        <4>2. b # char[d]
          BY <2>2, Owners
        <4>3. orig[d] # Nil /\ b = orig[d]
          BY <4>1, <4>2 DEF CH
        <4>4. QED BY <4>3 DEF IInv, SessionShape
      <3>2. QED BY <2>2, <3>1
    <2>3. QED BY <2>1, <2>2
  <1>2. DOMAIN owner = Bodies \cup {Mob}
    BY Typing
  <1>3. QED BY <1>1, <1>2 DEF Disowned

LEMMA Freeing ==
    ASSUME IInv, NEW C \in SUBSET Desc
    PROVE  /\ Freed(Copies(C)) = [b \in Bodies |-> IF b \notin world /\ owner[b] \in C THEN Nil ELSE who[b]]
           /\ \A b \in Bodies : b \in Copies(C) <=> b \notin world /\ owner[b] \in C
  <1>1. ASSUME NEW b \in Bodies
        PROVE  b \in Copies(C) <=> b \notin world /\ owner[b] \in C
    <2>1. ASSUME b \in Copies(C) PROVE b \notin world /\ owner[b] \in C
      <3>1. PICK d \in C : conn[d] # "playing" /\ b = char[d]
        BY <2>1 DEF Copies, Playing
      <3>2. QED BY <3>1, CharOf, Owners
    <2>2. ASSUME b \notin world, owner[b] \in C PROVE b \in Copies(C)
      <3>1. char[owner[b]] = b
        BY <2>2, Owners
      <3>2. conn[owner[b]] # "playing"
        <4>1. ASSUME conn[owner[b]] = "playing" PROVE FALSE
          <5>1. CASE orig[owner[b]] = Nil
            BY <2>2, <3>1, <4>1, <5>1, CharOf
          <5>2. CASE orig[owner[b]] # Nil
            BY <2>2, <3>1, <5>2, Typing DEF IInv, SessionShape
          <5>3. QED BY <5>1, <5>2
        <4>2. QED BY <4>1
      <3>3. QED BY <2>2, <3>1, <3>2, Typing DEF Copies, Playing
    <2>3. QED BY <2>1, <2>2
  <1>2. QED BY <1>1 DEF Freed

LEMMA Closing ==
    ASSUME IInv, NEW C \in SUBSET Desc, NEW x \in {"closed", "name"},
           conn' = Shut(conn, C, x), char' = Shut(char, C, Nil), orig' = Shut(orig, C, Nil),
           owner' = Disowned(C), who' = Freed(Copies(C)), UNCHANGED <<version, world>>,
           file' \in [Names -> 1 .. MaxVersion \cup {Nil}],
           \A n \in Names : InWorld(n) = {} => file'[n] = file[n]
    PROVE  IInv'
  <1> USE Typing
  <1>1. \A e \in Desc : /\ conn'[e] = IF e \in C THEN x ELSE conn[e]
                        /\ char'[e] = IF e \in C THEN Nil ELSE char[e]
                        /\ orig'[e] = IF e \in C THEN Nil ELSE orig[e]
    BY Typing DEF Shut
  <1>2. owner' = [b \in Bodies \cup {Mob} |-> IF owner[b] \in C THEN Nil ELSE owner[b]]
    BY Disowning
  <1>3. who' = [b \in Bodies |-> IF b \notin world /\ owner[b] \in C THEN Nil ELSE who[b]]
    BY Freeing
  <1>4. \A b \in world : who'[b] = who[b]
    BY <1>3
  <1>6. \A e \in Desc \ C : char[e] \in Bodies => who'[char[e]] = who[char[e]]
    BY <1>3, Owners
  <1>7. PointersTypeOK'
    BY <1>2, <1>3 DEF PointersTypeOK, Shut, States
  <1>8. HeldAlive'
    BY <1>1, <1>6 DEF HeldAlive, IInv, Bound, CH
  <1>9. Bound'
    BY <1>1, <1>2, <1>7, <1>8 DEF IInv, Bound
  <1>10. OneBody'
    <2>1. \A e \in Desc \ C : CH(e)' = CH(e) /\ BeyondPassword(e)' = BeyondPassword(e)
      BY <1>1 DEF CH, BeyondPassword
    <2>2. ASSUME NEW e \in Desc \ C, BeyondPassword(e) PROVE NameOf(CH(e))' = NameOf(CH(e))
      <3>1. CH(e) \in Bodies /\ who'[CH(e)] = who[CH(e)]
        BY <1>4, <1>6, <2>2, CharOf DEF BeyondPassword
      <3>2. QED BY <2>1, <3>1 DEF NameOf
    <2>3. \A e \in C : ~BeyondPassword(e)'
      BY <1>1 DEF BeyondPassword
    <2>4. \A b, c \in world' : who'[b] = who'[c] => b = c
      BY <1>4 DEF IInv, OneBody
    <2>5. QED BY <2>1, <2>2, <2>3, <2>4 DEF IInv, OneBody
  <1>11. SessionShape'
    BY <1>1, <1>2 DEF IInv, SessionShape
  <1>12. WorldAlive'
    BY <1>4 DEF IInv, WorldAlive
  <1>13. NewNames'
    <2>1. SUFFICES ASSUME NEW e \in Desc, conn'[e] \in {"confirm", "create"}
                   PROVE  (file[who[char[e]]] = Nil /\ \A b \in world : who[b] # who[char[e]])'
      BY DEF NewNames
    <2>2. e \notin C /\ conn[e] = conn'[e] /\ char'[e] = char[e] /\ char[e] \in Bodies
      BY <1>1, <2>1, CharOf
    <2>3. who'[char[e]] = who[char[e]] /\ who[char[e]] \in Names
      BY <1>6, <2>2 DEF IInv, Bound, HeldAlive
    <2>4. file[who[char[e]]] = Nil /\ \A b \in world : who[b] # who[char[e]]
      BY <2>1, <2>2 DEF IInv, NewNames
    <2>5. InWorld(who[char[e]]) = {}
      BY <2>4 DEF InWorld
    <2>6. QED BY <1>4, <2>2, <2>3, <2>4, <2>5
  <1>14. CopiesCurrent'
    <2>1. SUFFICES ASSUME NEW e \in Desc, conn'[e] # "playing", char'[e] \in Bodies,
                          \A b \in world : who'[b] # who'[char'[e]]
                   PROVE  version[char'[e]] = Current(who[char[e]])'
      BY DEF CopiesCurrent
    <2>2. e \notin C /\ conn[e] # "playing" /\ char'[e] = char[e] /\ who'[char[e]] = who[char[e]]
      BY <1>1, <1>6, <2>1
    <2>3. \A b \in world : who[b] # who[char[e]]
      BY <1>4, <2>1, <2>2
    <2>4. who[char[e]] \in Names /\ InWorld(who[char[e]]) = {}
      BY <2>1, <2>2, <2>3 DEF IInv, Bound, HeldAlive, InWorld
    <2>5. version[char[e]] = Current(who[char[e]])
      BY <2>1, <2>2, <2>3 DEF IInv, CopiesCurrent
    <2>6. QED BY <2>2, <2>4, <2>5 DEF Current
  <1>15. QED BY <1>9, <1>10, <1>11, <1>12, <1>13, <1>14 DEF IInv

-----------------------------------------------------------------------------
(* Steps that close descriptors and no more. *)

LEMMA SavingAndClosing ==
    ASSUME IInv, NEW d \in Desc, NEW f, SaveAndClose(d, f)
    PROVE  IInv'
  <1> USE Typing
  <1>1. file' \in [Names -> 1 .. MaxVersion \cup {Nil}]
    BY DEF SaveAndClose, Saved, IInv, Bound, HeldAlive
  <1>2. ASSUME NEW n \in Names, InWorld(n) = {} PROVE file'[n] = file[n]
    <2>1. CASE char[d] \in Bodies /\ version[char[d]] > 0 /\ who[char[d]] = n
      <3>1. \A b \in world : who[b] # n
        BY <1>2 DEF InWorld
      <3>2. conn[d] # "playing"
        BY <2>1, <3>1, CharOf DEF IInv, SessionShape
      <3>3. version[char[d]] = Current(n)
        BY <2>1, <3>1, <3>2 DEF IInv, CopiesCurrent
      <3>4. version[char[d]] = file[n]
        BY <2>1, <3>3 DEF Current
      <3>5. QED BY <2>1, <3>4 DEF SaveAndClose, Saved
    <2>2. CASE ~(char[d] \in Bodies /\ version[char[d]] > 0 /\ who[char[d]] = n)
      BY <2>2 DEF SaveAndClose, Saved
    <2>3. QED BY <2>1, <2>2
  <1>3. QED BY <1>1, <1>2, Closing DEF SaveAndClose, Close

LEMMA DropKeeps == ASSUME IInv, NEW d \in Desc, Drop(d) PROVE IInv'
  BY Closing, Typing DEF Drop, Close

LEMMA RefuseKeeps == ASSUME IInv, NEW d \in Desc, Refuse(d) PROVE IInv'
  <1>1. orig[d] = Nil
    BY DEF Refuse, IInv, SessionShape
  <1>2. orig' = Shut(orig, {d}, Nil)
    BY <1>1, Typing DEF Refuse, Shut
  <1>3. conn' = Shut(conn, {d}, "name") /\ char' = Shut(char, {d}, Nil)
    BY Typing DEF Refuse, Shut
  <1>4. QED BY <1>2, <1>3, Closing, Typing DEF Refuse

-----------------------------------------------------------------------------
(* Entering the world. *)

LEMMA Entering ==
    ASSUME IInv, NEW d \in Desc, Enter(d), conn[d] \in {"password", "create"},
           \A b \in world : who[b] # who[char[d]],
           \A e \in Desc \ {d} : BeyondPassword(e) => NameOf(CH(e)) # who[char[d]]
    PROVE  IInv'
  <1> USE Typing
  <1>1. char[d] \in Bodies /\ char[d] \notin world /\ orig[d] = Nil /\ who[char[d]] # Nil
    <2>1. char[d] \in Bodies /\ char[d] \notin world
      BY CharOf
    <2>2. QED BY <2>1 DEF IInv, SessionShape, Bound, HeldAlive
  <1>2. \A e \in Desc : conn'[e] = IF e = d THEN "playing" ELSE conn[e]
    BY DEF Enter
  <1>3. world' = world \cup {char[d]} /\ UNCHANGED <<char, orig, who, version, owner, file>>
    BY DEF Enter
  <1>4. PointersTypeOK'
    BY <1>1, <1>3 DEF PointersTypeOK, Enter, States
  <1>5. HeldAlive'
    BY <1>1, <1>2, <1>3 DEF HeldAlive, IInv, Bound, CH
  <1>6. Bound'
    BY <1>3, <1>4, <1>5 DEF IInv, Bound
  <1>7. OneBody'
    <2>1. \A b, c \in world' : who'[b] = who'[c] => b = c
      BY <1>1, <1>3 DEF IInv, OneBody
    <2>2. \A e \in Desc : NameOf(CH(e))' = NameOf(CH(e))
      BY <1>3 DEF NameOf, CH
    <2>3. NameOf(CH(d)) = who[char[d]]
      BY <1>1 DEF NameOf, CH
    <2>4. \A e \in Desc \ {d} : BeyondPassword(e)' = BeyondPassword(e)
      BY <1>2 DEF BeyondPassword
    <2>5. QED BY <2>1, <2>2, <2>3, <2>4 DEF IInv, OneBody
  <1>8. SessionShape'
    <2>1. \A e \in Desc \ {d} : char[e] # char[d]
      BY <1>1, Owners
    <2>2. QED BY <1>1, <1>2, <1>3, <2>1 DEF IInv, SessionShape
  <1>9. WorldAlive'
    BY <1>1, <1>3 DEF IInv, WorldAlive
  <1>10. NewNames'
    <2>1. SUFFICES ASSUME NEW e \in Desc, conn'[e] \in {"confirm", "create"}
                   PROVE  file[who[char[e]]] = Nil /\ \A b \in world' : who[b] # who[char[e]]
      BY <1>3 DEF NewNames
    <2>2. e # d /\ conn[e] = conn'[e]
      BY <1>2, <2>1
    <2>3. who[char[e]] # who[char[d]]
      BY <2>1, <2>2, CharOf DEF BeyondPassword
    <2>4. QED BY <1>3, <2>1, <2>2, <2>3 DEF IInv, NewNames
  <1>11. CopiesCurrent'
    BY <1>2, <1>3 DEF IInv, CopiesCurrent, Current
  <1>12. QED BY <1>6, <1>7, <1>8, <1>9, <1>10, <1>11 DEF IInv

LEMMA CreatedKeeps == ASSUME IInv, NEW d \in Desc, Created(d) PROVE IInv'
  <1>1. NameOf(CH(d)) = who[char[d]]
    BY CharOf DEF Created
  <1>2. \A e \in Desc \ {d} : BeyondPassword(e) => NameOf(CH(e)) # who[char[d]]
    BY <1>1 DEF Created, IInv, OneBody, BeyondPassword
  <1>3. QED BY <1>2, Entering DEF Created, IInv, NewNames

\* d, which waits for the password, takes over b, which is nobody's once C are closed.
LEMMA TakingOver ==
    ASSUME IInv, NEW d \in Desc, NEW C \in SUBSET (Desc \ {d}), NEW b \in world,
           conn[d] = "password", who[b] = who[char[d]], TakeOver(d, b, C),
           owner[b] \in C \cup {Nil},
           \A e \in Desc : orig[e] # b,
           \A e \in Desc \ C : BeyondPassword(e) => NameOf(CH(e)) # who[b]
    PROVE  IInv'
  <1> USE Typing
  <1> DEFINE D == C \cup {d}
  <1>1. char[d] \in Bodies /\ char[d] \notin world /\ orig[d] = Nil /\ owner[char[d]] = d
    <2>1. char[d] \in Bodies /\ char[d] \notin world
      BY CharOf
    <2>2. QED BY <2>1, Owners DEF IInv, SessionShape
  <1>2. \A e \in Desc : /\ conn'[e] = IF e = d THEN "playing" ELSE IF e \in C THEN "closed" ELSE conn[e]
                        /\ char'[e] = IF e = d THEN b ELSE IF e \in C THEN Nil ELSE char[e]
                        /\ orig'[e] = IF e \in C THEN Nil ELSE orig[e]
    BY DEF TakeOver, Shut
  <1>3. \A c \in Bodies \cup {Mob} :
            owner'[c] = IF c = b THEN d ELSE IF owner[c] \in D THEN Nil ELSE owner[c]
    BY Disowning DEF TakeOver
  <1>4. who' = [c \in Bodies |-> IF c \notin world /\ owner[c] \in D THEN Nil ELSE who[c]]
    BY Freeing DEF TakeOver
  <1>5. UNCHANGED <<version, world, file>>
    BY DEF TakeOver
  <1>6. \A c \in world : who'[c] = who[c]
    BY <1>4
  <1>7. \A e \in Desc \ D : char[e] \in Bodies => who'[char[e]] = who[char[e]]
    BY <1>4, Owners
  <1>8. PointersTypeOK'
    <2>1. owner' \in [Bodies \cup {Mob} -> Desc \cup {Nil}]
      BY Disowning DEF TakeOver
    <2>2. QED BY <1>4, <2>1 DEF PointersTypeOK, TakeOver, Shut, States
  <1>9. \A e \in Desc \ {d} : char[e] = b => e \in C
    BY Owners
  <1>10. HeldAlive'
    BY <1>1, <1>2, <1>5, <1>6, <1>7 DEF HeldAlive, IInv, Bound, CH, WorldAlive
  <1>11. Bound'
    <2>1. \A e \in Desc : char'[e] # Nil => owner'[char'[e]] = e
      BY <1>2, <1>3, <1>9 DEF IInv, Bound
    <2>2. \A c \in Bodies \cup {Mob} : owner'[c] # Nil => char'[owner'[c]] = c
      BY <1>2, <1>3 DEF IInv, Bound
    <2>3. QED BY <1>8, <1>10, <2>1, <2>2 DEF Bound
  <1>12. OneBody'
    <2>1. \A c, g \in world' : who'[c] = who'[g] => c = g
      BY <1>5, <1>6 DEF IInv, OneBody
    <2>2. NameOf(CH(d))' = who[b]
      BY <1>1, <1>2, <1>6 DEF NameOf, CH
    <2>3. \A e \in Desc \ D : CH(e)' = CH(e) /\ BeyondPassword(e)' = BeyondPassword(e)
      BY <1>2 DEF CH, BeyondPassword
    <2>4. ASSUME NEW e \in Desc \ D, BeyondPassword(e) PROVE NameOf(CH(e))' = NameOf(CH(e))
      <3>1. CH(e) \in Bodies /\ who'[CH(e)] = who[CH(e)]
        BY <1>6, <1>7, <2>4, CharOf DEF BeyondPassword
      <3>2. QED BY <2>3, <3>1 DEF NameOf
    <2>5. \A e \in C : ~BeyondPassword(e)'
      BY <1>2 DEF BeyondPassword
    <2>6. \A e \in Desc : BeyondPassword(e)' => e = d \/ (e \in Desc \ D /\ BeyondPassword(e))
      BY <2>3, <2>5
    <2>7. QED BY <2>1, <2>2, <2>4, <2>6 DEF IInv, OneBody
  <1>13. SessionShape'
    <2>1. SUFFICES ASSUME NEW e \in Desc
                   PROVE  /\ conn'[e] = "closed" => char'[e] = Nil
                          /\ conn'[e] \notin {"closed", "name"} => char'[e] # Nil
                          /\ orig'[e] # Nil => conn'[e] = "playing" /\ char'[e] = Mob /\ owner'[orig'[e]] = Nil
                          /\ char'[e] = Mob => orig'[e] # Nil
                          /\ char'[e] \in world' => conn'[e] = "playing"
      BY DEF SessionShape
    <2>2. orig'[e] # Nil => owner'[orig'[e]] = Nil
      BY <1>2, <1>3 DEF IInv, SessionShape
    <2>3. QED BY <1>1, <1>2, <1>5, <2>2 DEF IInv, SessionShape
  <1>14. WorldAlive'
    BY <1>5, <1>6 DEF IInv, WorldAlive
  <1>15. NewNames'
    <2>1. SUFFICES ASSUME NEW e \in Desc, conn'[e] \in {"confirm", "create"}
                   PROVE  file[who'[char'[e]]] = Nil /\ \A c \in world : who'[c] # who'[char'[e]]
      BY <1>5 DEF NewNames
    <2>2. e \notin D /\ conn[e] = conn'[e] /\ char'[e] = char[e] /\ char[e] \in Bodies
      BY <1>2, <2>1, CharOf
    <2>3. QED BY <1>6, <1>7, <2>1, <2>2 DEF IInv, NewNames
  <1>16. CopiesCurrent'
    <2>1. SUFFICES ASSUME NEW e \in Desc, conn'[e] # "playing", char'[e] \in Bodies,
                          \A c \in world : who'[c] # who'[char'[e]]
                   PROVE  version[char'[e]] = Current(who[char[e]])'
      BY <1>2, <1>5 DEF CopiesCurrent
    <2>2. e \notin D /\ conn[e] # "playing" /\ char'[e] = char[e] /\ who'[char[e]] = who[char[e]]
      BY <1>2, <1>7, <2>1
    <2>3. \A c \in world : who[c] # who[char[e]]
      BY <1>6, <2>1, <2>2
    <2>4. version[char[e]] = Current(who[char[e]])
      BY <2>1, <2>2, <2>3 DEF IInv, CopiesCurrent
    <2>5. QED BY <1>5, <2>2, <2>4 DEF Current
  <1>17. QED BY <1>11, <1>12, <1>13, <1>14, <1>15, <1>16 DEF IInv

\* check_reconnect, check_playing, and the way into the world.
LEMMA RightPasswordKeeps ==
    ASSUME IInv, Careful, NEW d \in Desc, RightPassword(d)
    PROVE  IInv' /\ (world' # world => Enter(d) /\ \A b \in world : who[b] # who[char[d]])
  <1> USE Typing
  <1> DEFINE n == who[char[d]]
  <1>1. conn[d] = "password" /\ char[d] \in Bodies /\ char[d] \notin world /\ n \in Names
    BY CharOf DEF RightPassword, IInv, Bound, HeldAlive
  <1>2. \A e \in Desc : orig[e] # Nil => NameOf(orig[e]) # n
    BY DEF RightPassword
  <1>3. \A e \in Desc, b \in InWorld(n) : orig[e] # b
    BY <1>2 DEF InWorld, NameOf
  <1>4. \A e \in Desc : BeyondPassword(e) /\ NameOf(CH(e)) = n <=> e \in Rivals(d, n)
    BY <1>1 DEF BeyondPassword, Rivals, IInv, Bound, PointersTypeOK, States
  <1>5. \A b \in InWorld(n) : owner[b] # Nil => owner[b] \in Rivals(d, n)
    <2>1. SUFFICES ASSUME NEW b \in InWorld(n), owner[b] # Nil PROVE owner[b] \in Rivals(d, n)
      OBVIOUS
    <2>2. b \in world /\ who[b] = n /\ char[owner[b]] = b
      BY <2>1, Owners DEF InWorld
    <2>3. conn[owner[b]] = "playing" /\ orig[owner[b]] = Nil
      BY <2>1, <2>2 DEF IInv, SessionShape
    <2>4. NameOf(CH(owner[b])) = n
      BY <2>2, <2>3 DEF NameOf, CH
    <2>5. owner[b] \in Desc
      BY <2>1, <2>2
    <2>6. QED BY <1>4, <2>3, <2>4, <2>5 DEF BeyondPassword
  <1>6. \A e \in Rivals(d, n) : e \in Desc \ {d} /\ Rivals(d, n) \subseteq {e}
    BY <1>1, <1>4 DEF IInv, OneBody, Rivals
  <1>7. Vacant(n, {}) = {b \in InWorld(n) : owner[b] = Nil}
    BY Disowning DEF Vacant, InWorld
  <1>8. CASE \E b \in Vacant(n, {}) : TakeOver(d, b, {})
    <2>1. PICK b \in InWorld(n) : owner[b] = Nil /\ TakeOver(d, b, {})
      BY <1>7, <1>8
    <2>2. b \in world /\ who[b] = n
      BY DEF InWorld
    <2>3. ASSUME NEW e \in Desc, BeyondPassword(e), NameOf(CH(e)) = n PROVE FALSE
      <3>1. e \in Rivals(d, n)
        BY <1>4, <2>3
      <3>2. conn[e] = "playing"
        BY <2>2, <2>3, CharOf DEF IInv, NewNames, BeyondPassword
      <3>3. CH(e) = b
        BY <2>2, <2>3, <3>2, CharOf DEF IInv, OneBody
      <3>4. char[e] = b
        BY <1>3, <3>3 DEF CH
      <3>5. QED BY <2>1, <2>2, <3>4, Owners
    <2>4. IInv'
      BY <1>1, <1>3, <2>1, <2>2, <2>3, TakingOver
    <2>5. QED BY <2>1, <2>4 DEF TakeOver
  <1>9. CASE \E e \in Rivals(d, n) : \E b \in Vacant(n, {e}) : Vacant(n, {}) = {} /\ TakeOver(d, b, {e})
    <2>1. PICK e \in Rivals(d, n) : \E b \in Vacant(n, {e}) : TakeOver(d, b, {e})
      BY <1>9
    <2>1a. PICK b \in Vacant(n, {e}) : TakeOver(d, b, {e})
      BY <2>1
    <2>2. e \in Desc \ {d}
      BY DEF Rivals
    <2>3. b \in world /\ who[b] = n /\ b \in InWorld(n) /\ Disowned({e})[b] = Nil
      BY DEF Vacant, InWorld
    <2>4. owner[b] \in {e} \cup {Nil}
      BY <2>2, <2>3, Disowning
    <2>5. \A f \in Desc \ {e} : BeyondPassword(f) => NameOf(CH(f)) # n
      BY <1>4, <1>6
    <2>6. IInv'
      BY <1>1, <1>3, <2>1a, <2>2, <2>3, <2>4, <2>5, TakingOver
    <2>7. QED BY <2>1a, <2>6 DEF TakeOver
  <1>10. CASE \E e \in Rivals(d, n) : Close({e}) /\ UNCHANGED <<version, world, file>>
    BY <1>10, Closing DEF Close, Rivals
  <1>11. CASE Vacant(n, {}) = {} /\ Rivals(d, n) = {} /\ Enter(d)
    <2>1. InWorld(n) = {}
      BY <1>5, <1>7, <1>11
    <2>2. \A b \in world : who[b] # n
      BY <2>1 DEF InWorld
    <2>3. \A e \in Desc \ {d} : BeyondPassword(e) => NameOf(CH(e)) # n
      BY <1>4, <1>11
    <2>4. QED BY <1>1, <1>11, <2>2, <2>3, Entering
  <1>12. QED BY <1>8, <1>9, <1>10, <1>11 DEF RightPassword

-----------------------------------------------------------------------------
(* A name is given: a copy is loaded. *)

LEMMA GiveNameKeeps ==
    ASSUME IInv, NEW d \in Desc, NEW n \in Names, NEW b \in Bodies, GiveName(d, n, b)
    PROVE  IInv'
  <1> USE Typing
  <1>1. conn[d] = "name" /\ who[b] = Nil /\ b \notin world /\ UNCHANGED <<world, file>>
    BY DEF GiveName, Fresh, IInv, WorldAlive
  <1>2. owner[b] = Nil /\ \A e \in Desc : char[e] # b /\ orig[e] # b
    BY <1>1, Owners DEF IInv, Bound, HeldAlive
  <1>3. orig[d] = Nil
    BY <1>1 DEF IInv, SessionShape
  <1>4. PICK C \in SUBSET (Desc \ {d}) :
          /\ C = {} => InWorld(n) # {} \/ Rivals(d, n) = {}
          /\ conn' = [Shut(conn, C, "closed") EXCEPT ![d] =
                        IF C # {} THEN "name"
                        ELSE IF InWorld(n) # {} \/ file[n] # Nil THEN "password"
                        ELSE "confirm"]
          /\ char' = [Shut(char, C, Nil) EXCEPT ![d] = b]
          /\ orig' = Shut(orig, C, Nil)
          /\ owner' = [Disowned(C \cup {d}) EXCEPT ![b] = d]
          /\ who' = [Freed(Copies(C \cup {d})) EXCEPT ![b] = n]
    <2> DEFINE Out == IF InWorld(n) = {} /\ Rivals(d, n) # {} THEN {{e} : e \in Rivals(d, n)} ELSE {{}}
    <2>1. \A C \in Out : C \in SUBSET (Desc \ {d}) /\ (C = {} => InWorld(n) # {} \/ Rivals(d, n) = {})
      <3>1. Rivals(d, n) \subseteq Desc \ {d}
        BY DEF Rivals
      <3>2. CASE InWorld(n) = {} /\ Rivals(d, n) # {}
        <4>1. Out = {{e} : e \in Rivals(d, n)}
          BY <3>2
        <4> HIDE DEF Out
        <4>2. \A C \in Out : \E e \in Rivals(d, n) : C = {e}
          BY <4>1
        <4>3. QED BY <3>1, <4>2
      <3>3. CASE ~(InWorld(n) = {} /\ Rivals(d, n) # {})
        <4>1. Out = {{}}
          BY <3>3
        <4>2. QED BY <3>3, <4>1
      <3>4. QED BY <3>2, <3>3
    <2>2. \E C \in Out :
            /\ conn' = [Shut(conn, C, "closed") EXCEPT ![d] =
                            IF C # {} THEN "name"
                            ELSE IF InWorld(n) # {} \/ file[n] # Nil THEN "password"
                            ELSE "confirm"]
            /\ char' = [Shut(char, C, Nil) EXCEPT ![d] = b]
            /\ orig' = Shut(orig, C, Nil)
            /\ owner' = [Disowned(C \cup {d}) EXCEPT ![b] = d]
            /\ who' = [Freed(Copies(C \cup {d})) EXCEPT ![b] = n]
      BY DEF GiveName
    <2> HIDE DEF Out
    <2>3. QED BY <2>1, <2>2
  <1> DEFINE D == C \cup {d}
  <1>5. \A e \in Desc :
            /\ e = d => conn'[e] \in {"name", "password", "confirm"}
            /\ e # d => conn'[e] = IF e \in C THEN "closed" ELSE conn[e]
            /\ char'[e] = IF e = d THEN b ELSE IF e \in C THEN Nil ELSE char[e]
            /\ orig'[e] = IF e \in C THEN Nil ELSE orig[e]
    BY <1>4 DEF Shut
  <1>6. \A c \in Bodies \cup {Mob} :
            owner'[c] = IF c = b THEN d ELSE IF owner[c] \in D THEN Nil ELSE owner[c]
    BY <1>4, Disowning
  <1>7. \A c \in Bodies : who'[c] = IF c = b THEN n ELSE IF c \notin world /\ owner[c] \in D THEN Nil ELSE who[c]
    BY <1>4, Freeing
  <1>8. \A c \in world : who'[c] = who[c]
    BY <1>1, <1>7
  <1>9. \A e \in Desc \ D : char[e] \in Bodies => who'[char[e]] = who[char[e]]
    BY <1>2, <1>7, Owners
  <1>10. \A c \in Bodies : version'[c] = IF c = b THEN Current(n) ELSE version[c]
    BY DEF GiveName, Current
  <1>11. PointersTypeOK'
    <2>1. owner' \in [Bodies \cup {Mob} -> Desc \cup {Nil}]
      BY <1>4, Disowning
    <2>2. who' \in [Bodies -> Names \cup {Nil}]
      BY <1>4, Freeing
    <2>3. version' \in [Bodies -> 0 .. MaxVersion]
      BY LoginAssumption DEF GiveName
    <2>4. QED BY <1>1, <1>4, <2>1, <2>2, <2>3 DEF PointersTypeOK, Shut, States
  <1>12. HeldAlive'
    BY <1>1, <1>2, <1>3, <1>5, <1>7, <1>9 DEF HeldAlive, IInv, Bound, CH
  <1>13. Bound'
    <2>1. \A e \in Desc : char'[e] # Nil => owner'[char'[e]] = e
      BY <1>2, <1>5, <1>6 DEF IInv, Bound
    <2>2. \A c \in Bodies \cup {Mob} : owner'[c] # Nil => char'[owner'[c]] = c
      BY <1>2, <1>5, <1>6 DEF IInv, Bound
    <2>3. QED BY <1>11, <1>12, <2>1, <2>2 DEF Bound
  <1>14. conn'[d] = "confirm" => C = {} /\ InWorld(n) = {} /\ Rivals(d, n) = {} /\ file[n] = Nil
    BY <1>4 DEF Shut
  <1>15. OneBody'
    <2>1. \A c, g \in world' : who'[c] = who'[g] => c = g
      BY <1>1, <1>8 DEF IInv, OneBody
    <2>2. NameOf(CH(d))' = n
      BY <1>3, <1>5, <1>7 DEF NameOf, CH
    <2>3. \A e \in Desc \ D : CH(e)' = CH(e) /\ BeyondPassword(e)' = BeyondPassword(e)
      BY <1>5 DEF CH, BeyondPassword
    <2>4. ASSUME NEW e \in Desc \ D, BeyondPassword(e) PROVE NameOf(CH(e))' = NameOf(CH(e))
      <3>1. CH(e) \in Bodies /\ who'[CH(e)] = who[CH(e)]
        BY <1>8, <1>9, <2>4, CharOf DEF BeyondPassword
      <3>2. QED BY <2>3, <3>1 DEF NameOf
    <2>5. \A e \in C : ~BeyondPassword(e)'
      BY <1>5 DEF BeyondPassword
    <2>6. BeyondPassword(d)' => conn'[d] = "confirm"
      BY <1>5 DEF BeyondPassword
    <2>7. \A e \in Desc : BeyondPassword(e)' => e = d \/ (e \in Desc \ D /\ BeyondPassword(e))
      BY <2>3, <2>5
    <2>8. ASSUME BeyondPassword(d)', NEW e \in Desc \ D, BeyondPassword(e) PROVE NameOf(CH(e)) # n
      <3>1. e \notin Rivals(d, n)
        BY <1>14, <2>6, <2>8
      <3>2. QED BY <2>8, <3>1 DEF Rivals, BeyondPassword
    <2>9. QED BY <2>1, <2>2, <2>4, <2>7, <2>8 DEF IInv, OneBody
  <1>16. SessionShape'
    <2>1. SUFFICES ASSUME NEW e \in Desc
                   PROVE  /\ conn'[e] = "closed" => char'[e] = Nil
                          /\ conn'[e] \notin {"closed", "name"} => char'[e] # Nil
                          /\ orig'[e] # Nil => conn'[e] = "playing" /\ char'[e] = Mob /\ owner'[orig'[e]] = Nil
                          /\ char'[e] = Mob => orig'[e] # Nil
                          /\ char'[e] \in world' => conn'[e] = "playing"
      BY DEF SessionShape
    <2>2. orig'[e] # Nil => orig[e] = orig'[e] /\ orig[e] # b /\ e # d /\ e \notin C
      BY <1>2, <1>3, <1>5
    <2>3. orig'[e] # Nil => owner'[orig'[e]] = Nil
      BY <1>6, <2>2 DEF IInv, SessionShape
    <2>4. QED BY <1>1, <1>5, <2>2, <2>3 DEF IInv, SessionShape
  <1>17. WorldAlive'
    BY <1>1, <1>8 DEF IInv, WorldAlive
  <1>18. NewNames'
    <2>1. SUFFICES ASSUME NEW e \in Desc, conn'[e] \in {"confirm", "create"}
                   PROVE  file[who'[char'[e]]] = Nil /\ \A c \in world : who'[c] # who'[char'[e]]
      BY <1>1 DEF NewNames
    <2>2. CASE e = d
      BY <1>5, <1>7, <1>8, <1>14, <2>1, <2>2 DEF InWorld
    <2>3. CASE e # d
      <3>1. e \notin D /\ conn[e] = conn'[e] /\ char'[e] = char[e] /\ char[e] \in Bodies
        BY <1>5, <2>1, <2>3, CharOf
      <3>2. QED BY <1>8, <1>9, <2>1, <3>1 DEF IInv, NewNames
    <2>4. QED BY <2>2, <2>3
  <1>19. CopiesCurrent'
    <2>1. SUFFICES ASSUME NEW e \in Desc, conn'[e] # "playing", char'[e] \in Bodies,
                          \A c \in world : who'[c] # who'[char'[e]]
                   PROVE  version'[char'[e]] = Current(who[char[e]])'
      BY <1>1 DEF CopiesCurrent
    <2>2. CASE e = d
      BY <1>1, <1>5, <1>7, <1>10, <2>2 DEF Current
    <2>3. CASE e # d
      <3>1. e \notin D /\ conn[e] # "playing" /\ char'[e] = char[e] /\ who'[char[e]] = who[char[e]]
        BY <1>5, <1>9, <2>1, <2>3
      <3>2. \A c \in world : who[c] # who[char[e]]
        BY <1>8, <2>1, <3>1
      <3>3. version[char[e]] = Current(who[char[e]])
        BY <2>1, <3>1, <3>2 DEF IInv, CopiesCurrent
      <3>4. version'[char[e]] = version[char[e]]
        BY <1>2, <1>10, <2>1, <3>1
      <3>5. QED BY <1>1, <3>1, <3>3, <3>4 DEF Current
    <2>4. QED BY <2>2, <2>3
  <1>20. QED BY <1>13, <1>15, <1>16, <1>17, <1>18, <1>19 DEF IInv

-----------------------------------------------------------------------------
(* Leaving the world: quitting and deletion. *)

LEMMA Going ==
    ASSUME IInv, NEW b \in world, NEW C \in SUBSET Desc, Gone(b, C),
           file' \in [Names -> 1 .. MaxVersion \cup {Nil}],
           \A n \in Names \ {who[b]} : file'[n] = file[n],
           \A e \in Desc : orig[e] # b,
           \A e \in Desc \ C : conn[e] # "playing" /\ char[e] \in Bodies => who[char[e]] # who[b]
    PROVE  IInv' /\ world' \subseteq world
  <1> USE Typing
  <1> DEFINE D == C \cup {d \in Desc : owner[b] = d}
  <1>1. \A e \in Desc : /\ conn'[e] = IF e \in D THEN "closed" ELSE conn[e]
                        /\ char'[e] = IF e \in D THEN Nil ELSE char[e]
                        /\ orig'[e] = IF e \in D THEN Nil ELSE orig[e]
    BY DEF Gone, Shut
  <1>2. owner' = [c \in Bodies \cup {Mob} |-> IF c = b \/ owner[c] \in D THEN Nil ELSE owner[c]]
    <2>1. Disowned(D) = [c \in Bodies \cup {Mob} |-> IF owner[c] \in D THEN Nil ELSE owner[c]]
      BY Disowning
    <2>2. owner' = [Disowned(D) EXCEPT ![b] = Nil]
      BY DEF Gone
    <2>3. QED BY <2>1, <2>2
  <1>3. who' = [c \in Bodies |-> IF c = b \/ (c \notin world /\ owner[c] \in C) THEN Nil ELSE who[c]]
    BY Freeing DEF Gone, Freed
  <1>4. world' = world \ {b} /\ version' = version
    BY DEF Gone
  <1>5. \A c \in world' : who'[c] = who[c]
    BY <1>3, <1>4
  <1>6. \A e \in Desc \ D : char[e] # b /\ (char[e] \in Bodies => who'[char[e]] = who[char[e]])
    BY <1>3, Owners
  <1>7. PointersTypeOK'
    <2>1. conn' \in [Desc -> States] /\ char' \in [Desc -> Bodies \cup {Mob, Nil}] /\ orig' \in [Desc -> Bodies \cup {Nil}]
      BY DEF Gone, Shut, States
    <2>2. owner' \in [Bodies \cup {Mob} -> Desc \cup {Nil}] /\ who' \in [Bodies -> Names \cup {Nil}]
      BY <1>2, <1>3
    <2>3. QED BY <1>4, <2>1, <2>2 DEF PointersTypeOK
  <1>8. HeldAlive'
    BY <1>1, <1>4, <1>6 DEF HeldAlive, IInv, Bound, CH
  <1>9. Bound'
    <2>1. \A e \in Desc : char'[e] # Nil => owner'[char'[e]] = e
      BY <1>1, <1>2, <1>6 DEF IInv, Bound
    <2>2. \A c \in Bodies \cup {Mob} : owner'[c] # Nil => char'[owner'[c]] = c
      BY <1>1, <1>2 DEF IInv, Bound
    <2>3. QED BY <1>7, <1>8, <2>1, <2>2 DEF Bound
  <1>10. OneBody'
    <2>1. \A c, g \in world' : who'[c] = who'[g] => c = g
      BY <1>4, <1>5 DEF IInv, OneBody
    <2>2. \A e \in Desc \ D : CH(e)' = CH(e) /\ BeyondPassword(e)' = BeyondPassword(e)
      BY <1>1 DEF CH, BeyondPassword
    <2>3. ASSUME NEW e \in Desc \ D, BeyondPassword(e) PROVE NameOf(CH(e))' = NameOf(CH(e))
      <3>1. CH(e) \in Bodies /\ CH(e) # b
        BY <1>6, <2>3, CharOf DEF BeyondPassword, CH
      <3>2. who'[CH(e)] = who[CH(e)]
        BY <1>4, <1>5, <1>6, <2>3, <3>1, CharOf DEF BeyondPassword
      <3>3. QED BY <2>2, <3>1, <3>2 DEF NameOf
    <2>4. \A e \in D : ~BeyondPassword(e)'
      BY <1>1 DEF BeyondPassword
    <2>5. QED BY <2>1, <2>2, <2>3, <2>4 DEF IInv, OneBody
  <1>11. SessionShape'
    BY <1>1, <1>2, <1>4 DEF IInv, SessionShape
  <1>12. WorldAlive'
    BY <1>4, <1>5 DEF IInv, WorldAlive
  <1>13. NewNames'
    <2>1. SUFFICES ASSUME NEW e \in Desc, conn'[e] \in {"confirm", "create"}
                   PROVE  (file[who[char[e]]] = Nil /\ \A c \in world : who[c] # who[char[e]])'
      BY DEF NewNames
    <2>2. e \notin D /\ conn[e] = conn'[e] /\ char'[e] = char[e] /\ char[e] \in Bodies
      BY <1>1, <2>1, CharOf
    <2>3. who'[char[e]] = who[char[e]] /\ who[char[e]] \in Names
      BY <1>6, <2>2 DEF IInv, Bound, HeldAlive
    <2>4. file[who[char[e]]] = Nil /\ who[char[e]] # who[b] /\ \A c \in world : who[c] # who[char[e]]
      BY <2>1, <2>2 DEF IInv, NewNames
    <2>5. QED BY <1>4, <1>5, <2>2, <2>3, <2>4
  <1>14. CopiesCurrent'
    <2>1. SUFFICES ASSUME NEW e \in Desc, conn'[e] # "playing", char'[e] \in Bodies,
                          \A c \in world' : who'[c] # who'[char'[e]]
                   PROVE  version[char'[e]] = Current(who[char[e]])'
      BY <1>4 DEF CopiesCurrent
    <2>2. e \notin D /\ conn[e] # "playing" /\ char'[e] = char[e] /\ who'[char[e]] = who[char[e]]
      BY <1>1, <1>6, <2>1
    <2>3. who[char[e]] # who[b] /\ who[char[e]] \in Names
      BY <2>1, <2>2 DEF IInv, Bound, HeldAlive
    <2>4. \A c \in world : who[c] # who[char[e]]
      BY <1>4, <1>5, <2>1, <2>2, <2>3
    <2>5. version[char[e]] = Current(who[char[e]])
      BY <2>1, <2>2, <2>4 DEF IInv, CopiesCurrent
    <2>6. QED BY <2>2, <2>3, <2>5 DEF Current
  <1>15. QED BY <1>4, <1>9, <1>10, <1>11, <1>12, <1>13, <1>14 DEF IInv

\* Whoever plays b has not left it for a mobile.
LEMMA NotSwitched ==
    ASSUME IInv, NEW b \in world, NEW d \in Desc, conn[d] = "playing", char[d] = b
    PROVE  \A e \in Desc : orig[e] # b
  <1> USE Typing
  <1>1. owner[b] = d
    BY Owners
  <1>2. QED BY <1>1 DEF IInv, SessionShape

LEMMA QuitKeeps == ASSUME IInv, NEW b \in Bodies, Quit(b) PROVE IInv' /\ world' \subseteq world
  <1> USE Typing
  <1>1. b \in world /\ \A e \in Desc : orig[e] # b
    BY NotSwitched DEF Quit
  <1>2. file' \in [Names -> 1 .. MaxVersion \cup {Nil}] /\ \A n \in Names \ {who[b]} : file'[n] = file[n]
    BY <1>1 DEF Quit, Saved, IInv, WorldAlive
  <1>3. ASSUME NEW e \in Desc \ OtherLogins(b), conn[e] # "playing", char[e] \in Bodies
        PROVE  who[char[e]] # who[b]
    <2>1. char[e] \notin world
      BY <1>3, CharOf
    <2>2. owner[b] # e
      BY <1>1, <2>1, Owners
    <2>3. QED BY <1>3, <2>2 DEF OtherLogins, NameOf
  <1>4. OtherLogins(b) \in SUBSET Desc /\ Gone(b, OtherLogins(b))
    BY DEF OtherLogins, Quit
  <1>5. QED BY <1>1, <1>2, <1>3, <1>4, Going

LEMMA DeleteKeeps == ASSUME IInv, Careful, NEW b \in Bodies, Delete(b) PROVE IInv' /\ world' \subseteq world
  <1> USE Typing
  <1>1. b \in world /\ \A e \in Desc : orig[e] # b
    BY NotSwitched DEF Delete
  <1>2. file' \in [Names -> 1 .. MaxVersion \cup {Nil}] /\ \A n \in Names \ {who[b]} : file'[n] = file[n]
    BY DEF Delete
  <1>3. ASSUME NEW e \in Desc, conn[e] # "playing", char[e] \in Bodies
        PROVE  who[char[e]] # who[b]
    <2>1. CASE conn[e] \in {"name", "password"}
      BY <1>3, <2>1 DEF Delete, AskedFor, NameOf
    <2>2. CASE conn[e] \in {"confirm", "create"}
      BY <1>1, <2>2 DEF IInv, NewNames
    <2>3. conn[e] # "closed"
      BY <1>3 DEF IInv, SessionShape
    <2>4. QED BY <1>3, <2>1, <2>2, <2>3 DEF States
  <1>4. QED BY <1>1, <1>2, <1>3, Going DEF Delete

-----------------------------------------------------------------------------
(* Steps that leave all pointers as they are. *)

LEMMA ConnectKeeps == ASSUME IInv, NEW d \in Desc, Connect(d) PROVE IInv'
  <1> USE Typing
  <1>1. /\ \A e \in Desc : conn'[e] = IF e = d THEN "name" ELSE conn[e]
        /\ conn[d] = "closed" /\ conn' \in [Desc -> States]
        /\ UNCHANGED <<char, orig, who, version, owner, world, file>>
    BY DEF Connect, States
  <1>2. char[d] = Nil /\ orig[d] = Nil
    BY <1>1 DEF IInv, SessionShape
  <1>3. PointersTypeOK'
    BY <1>1 DEF PointersTypeOK
  <1>4. HeldAlive'
    BY <1>1 DEF HeldAlive, IInv, Bound, CH
  <1>5. SessionShape'
    BY <1>1, <1>2 DEF IInv, SessionShape
  <1>6. OneBody'
    BY <1>1 DEF IInv, OneBody, BeyondPassword, NameOf, CH
  <1>7. NewNames'
    BY <1>1 DEF IInv, NewNames
  <1>8. CopiesCurrent'
    BY <1>1, <1>2 DEF IInv, CopiesCurrent, Current
  <1>9. Bound' /\ WorldAlive'
    BY <1>1, <1>3, <1>4 DEF IInv, Bound, WorldAlive
  <1>10. QED BY <1>5, <1>6, <1>7, <1>8, <1>9 DEF IInv

LEMMA ConfirmKeeps == ASSUME IInv, NEW d \in Desc, Confirm(d) PROVE IInv'
  <1> USE Typing
  <1>1. /\ \A e \in Desc : conn'[e] = IF e = d THEN "create" ELSE conn[e]
        /\ conn[d] = "confirm" /\ conn' \in [Desc -> States]
        /\ UNCHANGED <<char, orig, who, version, owner, world, file>>
    BY DEF Confirm, States
  <1>2. char[d] # Nil /\ orig[d] = Nil
    BY <1>1 DEF IInv, SessionShape
  <1>3. PointersTypeOK'
    BY <1>1 DEF PointersTypeOK
  <1>4. HeldAlive'
    BY <1>1 DEF HeldAlive, IInv, Bound, CH
  <1>5. SessionShape'
    BY <1>1, <1>2 DEF IInv, SessionShape
  <1>6. OneBody'
    BY <1>1 DEF IInv, OneBody, BeyondPassword, NameOf, CH
  <1>7. NewNames'
    BY <1>1 DEF IInv, NewNames
  <1>8. CopiesCurrent'
    BY <1>1 DEF IInv, CopiesCurrent, Current
  <1>9. Bound' /\ WorldAlive'
    BY <1>1, <1>3, <1>4 DEF IInv, Bound, WorldAlive
  <1>10. QED BY <1>5, <1>6, <1>7, <1>8, <1>9 DEF IInv

\* What those who play do to themselves, and the auctioneer to those who do not.
LEMMA Staying ==
    ASSUME IInv, UNCHANGED <<conn, char, orig, who, owner, world>>,
           version' \in [Bodies -> 0 .. MaxVersion], file' \in [Names -> 1 .. MaxVersion \cup {Nil}],
           \A b \in Bodies \ world : version'[b] = version[b],
           \A n \in Names :
              \/ file'[n] = file[n]
              \/ \E b \in world : who[b] = n
              \/ \A d \in Desc : conn[d] \in {"name", "password", "confirm", "create"} => NameOf(char[d]) # n
    PROVE  IInv'
  <1> USE Typing
  <1>1. Bound'
    BY DEF IInv, Bound, PointersTypeOK, HeldAlive, CH
  <1>2. \A e \in Desc : BeyondPassword(e)' = BeyondPassword(e) /\ NameOf(CH(e))' = NameOf(CH(e))
    BY DEF BeyondPassword, NameOf, CH
  <1>3. OneBody'
    BY <1>2 DEF IInv, OneBody
  <1>4. SessionShape' /\ WorldAlive'
    BY DEF IInv, SessionShape, WorldAlive
  <1>7. NewNames'
    <2>1. SUFFICES ASSUME NEW d \in Desc, conn[d] \in {"confirm", "create"}
                   PROVE  file'[who[char[d]]] = Nil /\ \A b \in world : who[b] # who[char[d]]
      BY DEF NewNames
    <2>2. file[who[char[d]]] = Nil /\ \A b \in world : who[b] # who[char[d]]
      BY <2>1 DEF IInv, NewNames
    <2>3. char[d] \in Bodies /\ who[char[d]] \in Names /\ NameOf(char[d]) = who[char[d]]
      BY <2>1, CharOf DEF NameOf, IInv, Bound, HeldAlive
    <2>4. QED BY <2>1, <2>2, <2>3
  <1>5. CopiesCurrent'
    <2>1. SUFFICES ASSUME NEW d \in Desc, conn[d] # "playing", char[d] \in Bodies,
                          \A b \in world : who[b] # who[char[d]]
                   PROVE  version'[char[d]] = Current(who[char[d]])'
      BY DEF CopiesCurrent
    <2>2. who[char[d]] \in Names /\ char[d] \notin world
      BY <2>1, CharOf DEF IInv, Bound, HeldAlive
    <2>3. conn[d] \in {"name", "password", "confirm", "create"}
      BY <2>1 DEF IInv, SessionShape, States
    <2>4. file'[who[char[d]]] = file[who[char[d]]]
      BY <2>1, <2>2, <2>3 DEF NameOf
    <2>5. version[char[d]] = Current(who[char[d]])
      BY <2>1 DEF IInv, CopiesCurrent
    <2>6. QED BY <2>1, <2>2, <2>4, <2>5 DEF Current
  <1>8. QED BY <1>1, <1>3, <1>4, <1>5, <1>7 DEF IInv

LEMMA ChangeKeeps == ASSUME IInv, NEW b \in Bodies, Change(b) PROVE IInv'
  <1>1. version' \in [Bodies -> 0 .. MaxVersion] /\ \A c \in Bodies \ world : version'[c] = version[c]
    BY Typing, LoginAssumption DEF Change
  <1>2. QED BY <1>1, Staying, Typing DEF Change

LEMMA SaveKeeps == ASSUME IInv, NEW b \in Bodies, Save(b) PROVE IInv'
  <1>1. file' \in [Names -> 1 .. MaxVersion \cup {Nil}] /\ \A n \in Names : file'[n] = file[n] \/ who[b] = n
    BY Typing DEF Save, Saved, IInv, WorldAlive
  <1>2. QED BY <1>1, Staying, Typing DEF Save

LEMMA AuctionKeeps == ASSUME IInv, Careful, NEW n \in Names, Auction(n) PROVE IInv'
  <1> USE Typing
  <1>1. file' \in [Names -> 1 .. MaxVersion \cup {Nil}] /\ \A m \in Names \ {n} : file'[m] = file[m]
    BY LoginAssumption DEF Auction
  <1>2. ASSUME NEW d \in Desc, conn[d] \in {"name", "password", "confirm", "create"}, NameOf(char[d]) = n
        PROVE  FALSE
    <2>1. conn[d] \in {"confirm", "create"}
      BY <1>2 DEF Auction, AskedFor
    <2>2. char[d] \in Bodies /\ who[char[d]] = n
      BY <1>2 DEF NameOf
    <2>3. QED BY <2>1, <2>2 DEF IInv, NewNames, Auction
  <1>3. QED BY <1>1, <1>2, Staying DEF Auction

-----------------------------------------------------------------------------
(* Switching, the hot reboot and the crash. *)

LEMMA SwitchKeeps == ASSUME IInv, NEW d \in Desc, Switch(d) PROVE IInv'
  <1> USE Typing
  <1> DEFINE b == char[d]
  <1>1. conn[d] = "playing" /\ orig[d] = Nil /\ b \in Bodies /\ b \in world /\ owner[b] = d /\ owner[Mob] = Nil
    BY CharOf DEF Switch
  <1>2. UNCHANGED <<conn, who, version, world, file>>
    BY DEF Switch
  <1>3. \A e \in Desc : /\ char'[e] = IF e = d THEN Mob ELSE char[e]
                        /\ orig'[e] = IF e = d THEN b ELSE orig[e]
    BY DEF Switch
  <1>4. \A c \in Bodies \cup {Mob} : owner'[c] = IF c = Mob THEN d ELSE IF c = b THEN Nil ELSE owner[c]
    BY <1>1 DEF Switch
  <1>5. \A e \in Desc \ {d} : char[e] # Mob /\ char[e] # b
    BY <1>1, Owners
  <1>6. PointersTypeOK'
    BY <1>1, <1>2 DEF PointersTypeOK, Switch
  <1>7. \A e \in Desc : CH(e)' = CH(e)
    BY <1>1, <1>3 DEF CH
  <1>8. HeldAlive'
    BY <1>1, <1>2, <1>3, <1>7 DEF HeldAlive, IInv, Bound
  <1>9. Bound'
    <2>1. \A e \in Desc : char'[e] # Nil => owner'[char'[e]] = e
      BY <1>3, <1>4, <1>5 DEF IInv, Bound
    <2>2. \A c \in Bodies \cup {Mob} : owner'[c] # Nil => char'[owner'[c]] = c
      BY <1>1, <1>3, <1>4 DEF IInv, Bound
    <2>3. QED BY <1>6, <1>8, <2>1, <2>2 DEF Bound
  <1>10. OneBody'
    BY <1>2, <1>7 DEF IInv, OneBody, BeyondPassword, NameOf
  <1>11. SessionShape'
    BY <1>1, <1>2, <1>3, <1>4 DEF IInv, SessionShape
  <1>12. WorldAlive' /\ NewNames' /\ CopiesCurrent'
    BY <1>1, <1>2, <1>3 DEF IInv, WorldAlive, NewNames, CopiesCurrent, Current
  <1>13. QED BY <1>9, <1>10, <1>11, <1>12 DEF IInv

LEMMA ReturnKeeps == ASSUME IInv, NEW d \in Desc, Return(d) PROVE IInv'
  <1> USE Typing
  <1> DEFINE b == orig[d]
  <1>1. conn[d] = "playing" /\ char[d] = Mob /\ b \in Bodies /\ b \in world /\ owner[b] = Nil /\ owner[Mob] = d
    BY DEF Return, IInv, SessionShape, Bound, HeldAlive
  <1>2. UNCHANGED <<conn, who, version, world, file>>
    BY DEF Return
  <1>3. \A e \in Desc : /\ char'[e] = IF e = d THEN b ELSE char[e]
                        /\ orig'[e] = IF e = d THEN Nil ELSE orig[e]
    BY DEF Return
  <1>4. \A c \in Bodies \cup {Mob} : owner'[c] = IF c = Mob THEN Nil ELSE IF c = b THEN d ELSE owner[c]
    BY <1>1 DEF Return
  <1>5. \A e \in Desc \ {d} : char[e] # Mob /\ char[e] # b
    BY <1>1, Owners
  <1>6. \A e \in Desc \ {d} : orig[e] = Nil
    BY <1>5 DEF IInv, SessionShape
  <1>7. \A e \in Desc : CH(e)' = CH(e)
    BY <1>1, <1>3 DEF CH
  <1>8. PointersTypeOK'
    BY <1>1, <1>2 DEF PointersTypeOK, Return
  <1>9. HeldAlive'
    BY <1>1, <1>2, <1>3, <1>7 DEF HeldAlive, IInv, Bound, WorldAlive
  <1>10. Bound'
    <2>1. \A e \in Desc : char'[e] # Nil => owner'[char'[e]] = e
      BY <1>1, <1>3, <1>4, <1>5 DEF IInv, Bound
    <2>2. \A c \in Bodies \cup {Mob} : owner'[c] # Nil => char'[owner'[c]] = c
      BY <1>1, <1>3, <1>4 DEF IInv, Bound
    <2>3. QED BY <1>8, <1>9, <2>1, <2>2 DEF Bound
  <1>11. OneBody'
    BY <1>2, <1>7 DEF IInv, OneBody, BeyondPassword, NameOf
  <1>12. SessionShape'
    BY <1>1, <1>2, <1>3, <1>4, <1>6 DEF IInv, SessionShape
  <1>13. WorldAlive' /\ NewNames' /\ CopiesCurrent'
    BY <1>1, <1>2, <1>3 DEF IInv, WorldAlive, NewNames, CopiesCurrent, Current
  <1>14. QED BY <1>10, <1>11, <1>12, <1>13 DEF IInv

LEMMA HotRebootKeeps == ASSUME IInv, HotReboot PROVE IInv' /\ world' \subseteq world
  <1> USE Typing
  <1> DEFINE stay == {CH(d) : d \in Playing(Desc)}
             Holder(b) == CHOOSE d \in Playing(Desc) : CH(d) = b
  <1>1. /\ \A d, e \in Playing(Desc) : CH(d) = CH(e) => d = e
        /\ stay \subseteq world /\ stay \subseteq Bodies
    BY DEF HotReboot
  <1>2. /\ world' = stay
        /\ version' = [b \in Bodies |-> IF b \in stay THEN file'[who[b]] ELSE version[b]]
    BY DEF HotReboot
  <1>3. \A d \in Desc : d \in Playing(Desc) <=> conn[d] = "playing"
    BY DEF Playing
  <1>4. \A d \in Desc : /\ conn'[d] = IF conn[d] = "playing" THEN "playing" ELSE "closed"
                        /\ char'[d] = IF conn[d] = "playing" THEN CH(d) ELSE Nil
                        /\ orig'[d] = Nil
    BY <1>3 DEF HotReboot, Shut
  <1>5. who' = [b \in Bodies |-> IF b \in stay THEN who[b] ELSE Nil]
    BY DEF HotReboot, Freed
  <1>6. owner' = [b \in Bodies \cup {Mob} |-> IF b \in stay THEN Holder(b) ELSE Nil]
    BY DEF HotReboot
  <1>7. \A b \in stay : Holder(b) \in Playing(Desc) /\ CH(Holder(b)) = b
    <2>1. SUFFICES ASSUME NEW b \in stay PROVE Holder(b) \in Playing(Desc) /\ CH(Holder(b)) = b
      OBVIOUS
    <2>2. PICK d \in Playing(Desc) : CH(d) = b
      OBVIOUS
    <2>3. QED BY <2>2
  <1>8. \A d \in Playing(Desc) : CH(d) \in stay /\ Holder(CH(d)) = d
    <2>1. SUFFICES ASSUME NEW d \in Playing(Desc) PROVE CH(d) \in stay /\ Holder(CH(d)) = d
      OBVIOUS
    <2>2. CH(d) \in stay
      OBVIOUS
    <2>3. QED BY <1>1, <1>7, <2>2
  <1>9. \A b \in stay : who[b] \in Names /\ b # Mob
    BY <1>1 DEF IInv, WorldAlive
  <1>10. file' \in [Names -> 1 .. MaxVersion \cup {Nil}]
    <2>1. \A b \in Bodies : Rebooted(b) \in 1 .. MaxVersion
      BY LoginAssumption DEF Rebooted
    <2>2. SUFFICES ASSUME NEW n \in Names, NEW b \in stay, who[b] = n
                   PROVE  (CHOOSE c \in stay : who[c] = n) \in Bodies
      BY <2>1 DEF HotReboot
    <2>3. QED BY <1>1, <2>2
  <1>11. \A b \in stay : file'[who[b]] \in 1 .. MaxVersion
    <2>1. SUFFICES ASSUME NEW b \in stay PROVE file'[who[b]] \in 1 .. MaxVersion
      OBVIOUS
    <2>2. file'[who[b]] = Rebooted(CHOOSE c \in stay : who[c] = who[b])
      BY <1>9 DEF HotReboot
    <2>3. (CHOOSE c \in stay : who[c] = who[b]) \in Bodies
      BY <1>1
    <2>4. QED BY <2>2, <2>3, LoginAssumption DEF Rebooted
  <1> HIDE DEF stay, Holder
  <1>12. PointersTypeOK'
    <2>1. conn' \in [Desc -> States] /\ char' \in [Desc -> Bodies \cup {Mob, Nil}] /\ orig' \in [Desc -> Bodies \cup {Nil}]
      BY <1>1, <1>8 DEF HotReboot, Shut, States
    <2>2. version' \in [Bodies -> 0 .. MaxVersion]
      BY <1>2, <1>11
    <2>3. owner' \in [Bodies \cup {Mob} -> Desc \cup {Nil}]
      BY <1>6, <1>7 DEF Playing
    <2>4. QED BY <1>1, <1>2, <1>5, <1>10, <2>1, <2>2, <2>3 DEF PointersTypeOK
  <1>13. \A d \in Desc : char'[d] # Nil => d \in Playing(Desc) /\ char'[d] = CH(d) /\ char'[d] \in stay /\ char'[d] \in Bodies
    BY <1>1, <1>3, <1>4, <1>8
  <1>14. \A d \in Desc : conn'[d] \in {"playing", "closed"} /\ (conn'[d] = "playing" => char'[d] # Nil)
    BY <1>3, <1>4, <1>8, <1>9, <1>1
  <1>15. HeldAlive'
    BY <1>2, <1>4, <1>5, <1>9, <1>13, <1>14 DEF HeldAlive, CH
  <1>16. Bound'
    <2>1. \A e \in Desc : char'[e] # Nil => owner'[char'[e]] = e
      BY <1>6, <1>8, <1>13
    <2>2. \A c \in Bodies \cup {Mob} : owner'[c] # Nil => char'[owner'[c]] = c
      BY <1>3, <1>4, <1>6, <1>7 DEF Playing
    <2>3. QED BY <1>12, <1>15, <2>1, <2>2 DEF Bound
  <1>17. OneBody'
    <2>1. \A b, c \in world' : who'[b] = who'[c] => b = c
      BY <1>1, <1>2, <1>5 DEF IInv, OneBody
    <2>2. \A d \in Desc : BeyondPassword(d)' => char'[d] \in stay /\ NameOf(CH(d))' = who'[char'[d]]
      BY <1>4, <1>13, <1>14 DEF BeyondPassword, NameOf, CH
    <2>3. \A d, e \in Desc : char'[d] # Nil /\ char'[d] = char'[e] => d = e
      BY <1>1, <1>13
    <2>4. ASSUME NEW d \in Desc, NEW e \in Desc, BeyondPassword(d)', BeyondPassword(e)', (NameOf(CH(d)) = NameOf(CH(e)))'
          PROVE  d = e
      <3>1. char'[d] = char'[e]
        BY <1>2, <2>1, <2>2, <2>4
      <3>2. QED BY <1>1, <1>14, <2>2, <2>3, <2>4, <3>1
    <2>5. QED BY <2>1, <2>4 DEF OneBody
  <1>18. SessionShape'
    BY <1>1, <1>2, <1>4, <1>13, <1>14 DEF SessionShape
  <1>19. WorldAlive' /\ NewNames' /\ CopiesCurrent'
    BY <1>2, <1>4, <1>5, <1>9, <1>1, <1>13, <1>14 DEF WorldAlive, NewNames, CopiesCurrent
  <1>20. QED BY <1>1, <1>2, <1>16, <1>17, <1>18, <1>19 DEF IInv

\* Nobody is connected and nobody is in the world.
LEMMA Nobody ==
    ASSUME conn = [d \in Desc |-> "closed"], char = [d \in Desc |-> Nil], orig = [d \in Desc |-> Nil],
           who = [b \in Bodies |-> Nil], version = [b \in Bodies |-> 0],
           owner = [b \in Bodies \cup {Mob} |-> Nil], world = {},
           file \in [Names -> 1 .. MaxVersion \cup {Nil}]
    PROVE  IInv
  <1> USE LoginAssumption
  <1>1. Bound
    BY DEF Bound, PointersTypeOK, HeldAlive, CH, States
  <1>2. OneBody /\ SessionShape /\ WorldAlive /\ NewNames /\ CopiesCurrent
    BY DEF OneBody, BeyondPassword, SessionShape, WorldAlive, NewNames, CopiesCurrent
  <1>3. QED BY <1>1, <1>2 DEF IInv

LEMMA CrashKeeps == ASSUME IInv, Crash PROVE IInv' /\ world' \subseteq world
  <1>1. file' \in [Names -> 1 .. MaxVersion \cup {Nil}] /\ world' = {}
    BY Typing DEF Crash
  <1>2. Bound'
    BY <1>1, LoginAssumption DEF Crash, Bound, PointersTypeOK, HeldAlive, CH, States
  <1>3. (OneBody /\ SessionShape /\ WorldAlive /\ NewNames /\ CopiesCurrent)'
    BY <1>1, LoginAssumption DEF Crash, OneBody, BeyondPassword, SessionShape, WorldAlive, NewNames, CopiesCurrent
  <1>4. QED BY <1>1, <1>2, <1>3 DEF IInv

-----------------------------------------------------------------------------
(* All steps. *)

\* Every step keeps the invariant, and one that links a character into the world links
\* the one copy that d->character is, when nobody of the name is there.
LEMMA StepKeeps ==
    ASSUME IInv, Careful, Next
    PROVE  IInv' /\ (~(world' \subseteq world) =>
                       \E d \in Desc : Enter(d) /\ conn[d] \in {"password", "create"}
                                      /\ \A b \in world : who[b] # who[char[d]])
  <1> DEFINE Links == ~(world' \subseteq world) =>
                         \E d \in Desc : Enter(d) /\ conn[d] \in {"password", "create"}
                                        /\ \A b \in world : who[b] # who[char[d]]
  <1>1. ASSUME NEW d \in Desc, Connect(d) PROVE IInv' /\ Links
    BY <1>1, ConnectKeeps DEF Connect
  <1>2. ASSUME NEW d \in Desc, Refuse(d) PROVE IInv' /\ Links
    BY <1>2, RefuseKeeps DEF Refuse
  <1>3. ASSUME NEW d \in Desc, Confirm(d) PROVE IInv' /\ Links
    BY <1>3, ConfirmKeeps DEF Confirm
  <1>4. ASSUME NEW d \in Desc, Created(d) PROVE IInv' /\ Links
    BY <1>4, CreatedKeeps DEF Created, IInv, NewNames
  <1>5. ASSUME NEW d \in Desc, RightPassword(d) PROVE IInv' /\ Links
    <2>1. conn[d] = "password"
      BY <1>5 DEF RightPassword
    <2>2. QED BY <1>5, <2>1, RightPasswordKeeps
  <1>6. ASSUME NEW d \in Desc, Drop(d) PROVE IInv' /\ Links
    BY <1>6, DropKeeps DEF Drop
  <1>7. ASSUME NEW d \in Desc, HangUp(d) \/ WrongPassword(d) PROVE IInv' /\ Links
    BY <1>7, SavingAndClosing DEF HangUp, WrongPassword, SaveAndClose
  <1>8. ASSUME NEW d \in Desc, Switch(d) \/ Return(d) PROVE IInv' /\ Links
    BY <1>8, SwitchKeeps, ReturnKeeps DEF Switch, Return
  <1>9. ASSUME NEW d \in Desc, NEW n \in Names, NEW b \in Bodies, GiveName(d, n, b) PROVE IInv' /\ Links
    BY <1>9, GiveNameKeeps DEF GiveName
  <1>10. ASSUME NEW b \in Bodies, Change(b) \/ Save(b) PROVE IInv' /\ Links
    BY <1>10, ChangeKeeps, SaveKeeps DEF Change, Save
  <1>11. ASSUME NEW b \in Bodies, Quit(b) \/ Delete(b) PROVE IInv' /\ Links
    BY <1>11, QuitKeeps, DeleteKeeps
  <1>12. ASSUME NEW n \in Names, Auction(n) PROVE IInv' /\ Links
    BY <1>12, AuctionKeeps DEF Auction
  <1>13. CASE HotReboot \/ Crash
    BY <1>13, HotRebootKeeps, CrashKeeps
  <1>14. QED BY <1>1, <1>2, <1>3, <1>4, <1>5, <1>6, <1>7, <1>8, <1>9, <1>10, <1>11, <1>12, <1>13 DEF Next

LEMMA Invariance == ASSUME Careful PROVE Spec => []IInv
  <1>1. Init => IInv
    BY Nobody DEF Init
  <1>2. IInv /\ [Next]_vars => IInv'
    <2>1. ASSUME IInv, UNCHANGED vars PROVE IInv'
      BY <2>1 DEF vars, IInv, Bound, PointersTypeOK, HeldAlive, CH, OneBody, BeyondPassword, NameOf,
                  SessionShape, WorldAlive, NewNames, CopiesCurrent, Current
    <2>2. QED BY <2>1, StepKeeps
  <1>3. QED BY <1>1, <1>2, PTL DEF Spec

-----------------------------------------------------------------------------
(* What failed logins leave. *)

\* d holds a copy of somebody who does not play and has a file, since whose loading no
\* other copy of him was saved.
Waits(d) ==
    /\ conn[d] # "playing" /\ char[d] \in Bodies /\ char[d] \notin overtaken
    /\ file[who[char[d]]] # Nil
    /\ \A b \in world : who[b] # who[char[d]]

Alike(d) == trace[char[d]] = trace[who[char[d]]]

\* Such a copy bears the trace of its file.
TracesCurrent == \A d \in Desc : Waits(d) => Alike(d)

MInv == MarksTypeOK /\ TracesCurrent

\* A step that loads no copy, and after which whoever waits has waited before.
LEMMA Waiting ==
    ASSUME IInv, IInv', MInv, MarksTypeOK',
           \A b \in Bodies : who'[b] \in {who[b], Nil},
           \A e \in Desc : conn'[e] # "playing" /\ char'[e] # Nil => conn[e] # "playing" /\ char'[e] = char[e],
           \A e \in Desc : Waits(e)' /\ conn[e] # "playing" /\ char'[e] = char[e] /\ char[e] \in Bodies
                                /\ who'[char[e]] = who[char[e]] /\ who[char[e]] \in Names
                           => /\ Waits(e)
                              /\ trace'[char[e]] = trace[char[e]]
                              /\ trace'[who[char[e]]] = trace[who[char[e]]]
    PROVE  MInv'
  <1>1. ASSUME NEW e \in Desc, Waits(e)' PROVE Alike(e)'
    <2>1. conn'[e] # "playing" /\ char'[e] \in Bodies
      BY <1>1 DEF Waits
    <2>2. char'[e] # Nil
      BY <2>1, LoginAssumption
    <2>3. conn[e] # "playing" /\ char'[e] = char[e]
      BY <2>1, <2>2
    <2>4. who'[char[e]] # Nil
      BY <2>1, <2>3 DEF IInv, Bound, HeldAlive
    <2>5. who'[char[e]] = who[char[e]] /\ who[char[e]] \in Names
      BY <2>1, <2>3, <2>4, Typing
    <2>6. Waits(e) /\ trace'[char[e]] = trace[char[e]] /\ trace'[who[char[e]]] = trace[who[char[e]]]
      BY <1>1, <2>1, <2>3, <2>5
    <2>7. Alike(e)
      BY <2>6 DEF MInv, TracesCurrent
    <2>8. QED BY <2>3, <2>5, <2>6, <2>7 DEF Alike
  <1>2. QED BY <1>1 DEF MInv, TracesCurrent

\* A step that concerns sockets only.
LEMMA Unmarked ==
    ASSUME IInv, IInv', MInv, UNCHANGED <<world, file, trace, overtaken>>,
           \A b \in Bodies : who'[b] \in {who[b], Nil},
           \A e \in Desc : conn'[e] # "playing" /\ char'[e] # Nil => conn[e] # "playing" /\ char'[e] = char[e]
    PROVE  MInv'
  <1>1. MarksTypeOK'
    BY DEF MInv, MarksTypeOK
  <1>2. \A b \in world : who'[b] = who[b]
    BY Typing DEF IInv, WorldAlive
  <1>3. ASSUME NEW e \in Desc, Waits(e)', conn[e] # "playing", char'[e] = char[e], char[e] \in Bodies,
               who'[char[e]] = who[char[e]]
        PROVE  Waits(e)
    BY <1>2, <1>3 DEF Waits
  <1>4. QED BY <1>1, <1>3, Waiting

LEMMA SocketsMark ==
    ASSUME IInv, IInv', MInv, NEW d \in Desc,
           Connect(d) \/ Refuse(d) \/ Confirm(d) \/ Drop(d) \/ Switch(d) \/ Return(d)
    PROVE  MInv'
  <1> USE Typing
  <1>1. UNCHANGED <<world, file, trace, overtaken>>
    BY DEF Connect, Refuse, Confirm, Drop, Switch, Return, marks
  <1>2. \A b \in Bodies : who'[b] \in {who[b], Nil}
    BY DEF Connect, Refuse, Confirm, Drop, Switch, Return, Close, Freed
  <1>3. ASSUME NEW e \in Desc, conn'[e] # "playing", char'[e] # Nil
        PROVE  conn[e] # "playing" /\ char'[e] = char[e]
    <2>1. CASE Connect(d) \/ Confirm(d)
      BY <1>3, <2>1 DEF Connect, Confirm
    <2>2. CASE Refuse(d)
      BY <1>3, <2>2 DEF Refuse
    <2>3. CASE Drop(d)
      BY <1>3, <2>3 DEF Drop, Close, Shut
    <2>4. CASE Switch(d) \/ Return(d)
      <3>1. conn[d] = "playing"
        BY <2>4 DEF Switch, Return, IInv, SessionShape
      <3>2. conn' = conn /\ \A x \in Desc \ {d} : char'[x] = char[x]
        BY <2>4 DEF Switch, Return
      <3>3. QED BY <1>3, <3>1, <3>2
    <2>5. QED BY <2>1, <2>2, <2>3, <2>4
  <1>4. QED BY <1>1, <1>2, <1>3, Unmarked

LEMMA EnterMarks ==
    ASSUME IInv, IInv', MInv, NEW d \in Desc, Enter(d), conn[d] \in {"password", "create"}
    PROVE  MInv'
  <1> USE Typing
  <1>1. char[d] \in Bodies /\ char[d] \notin world
    BY CharOf
  <1>2. MarksTypeOK'
    BY <1>1, LoginAssumption DEF Enter, MInv, MarksTypeOK, Traces, Plain
  <1>3. ASSUME NEW e \in Desc, Waits(e)', conn[e] # "playing", char'[e] = char[e], char[e] \in Bodies,
               who'[char[e]] = who[char[e]], who[char[e]] \in Names
        PROVE  Waits(e) /\ trace'[char[e]] = trace[char[e]] /\ trace'[who[char[e]]] = trace[who[char[e]]]
    <2>1. e # d
      BY <1>3 DEF Waits, Enter
    <2>2. char[e] # char[d] /\ who[char[e]] # char[d]
      BY <1>1, <1>3, <2>1, Owners, LoginAssumption
    <2>3. Waits(e)
      BY <1>3 DEF Waits, Enter
    <2>4. QED BY <2>2, <2>3 DEF Enter, MInv, MarksTypeOK
  <1>4. \A e \in Desc : conn'[e] # "playing" => conn[e] # "playing"
    BY DEF Enter
  <1>5. UNCHANGED <<char, who>>
    BY DEF Enter
  <1>6. QED BY <1>2, <1>3, <1>4, <1>5, Waiting

LEMMA RightPasswordMarks ==
    ASSUME IInv, IInv', MInv, NEW d \in Desc, RightPassword(d)
    PROVE  MInv'
  <1> USE Typing
  <1>1. CASE Enter(d)
    BY <1>1, EnterMarks DEF RightPassword
  <1>2. CASE \E b \in world, C \in SUBSET Desc : TakeOver(d, b, C)
    <2>1. PICK b \in world, C \in SUBSET Desc : TakeOver(d, b, C)
      BY <1>2
    <2>2. UNCHANGED <<world, file, trace, overtaken>> /\ \A x \in Bodies : who'[x] \in {who[x], Nil}
      BY <2>1 DEF TakeOver, Freed, marks
    <2>3. \A e \in Desc : conn'[e] # "playing" /\ char'[e] # Nil => conn[e] # "playing" /\ char'[e] = char[e]
      BY <2>1 DEF TakeOver, Shut
    <2>4. QED BY <2>2, <2>3, Unmarked
  <1>3. CASE \E e \in Desc : Close({e}) /\ UNCHANGED <<version, world, file, marks>>
    <2>1. PICK C \in SUBSET Desc : Close(C) /\ UNCHANGED <<version, world, file, marks>>
      BY <1>3
    <2>2. UNCHANGED <<world, file, trace, overtaken>> /\ \A x \in Bodies : who'[x] \in {who[x], Nil}
      BY <2>1 DEF Close, Freed, marks
    <2>3. \A e \in Desc : conn'[e] # "playing" /\ char'[e] # Nil => conn[e] # "playing" /\ char'[e] = char[e]
      BY <2>1 DEF Close, Shut
    <2>4. QED BY <2>2, <2>3, Unmarked
  <1>4. \A n : Rivals(d, n) \subseteq Desc /\ \A C : Vacant(n, C) \subseteq world
    BY DEF Rivals, Vacant, InWorld
  <1>5. QED BY <1>1, <1>2, <1>3, <1>4 DEF RightPassword

\* A copy that is saved overtakes all others of the name, and a player who is saved
\* leaves no copy that could enter.
LEMMA SavingMarks ==
    ASSUME IInv, IInv', MInv, NEW d \in Desc, NEW f \in Nat, SaveAndClose(d, f),
           char[d] \in Bodies => trace[char[d]].failures + f <= MaxFailures
    PROVE  MInv'
  <1> USE Typing
  <1> DEFINE c == char[d]
  <1>1. MarksTypeOK'
    <2>1. overtaken' \subseteq Bodies
      BY DEF SaveAndClose, Overtaken, MInv, MarksTypeOK
    <2>2. CASE c \in Bodies /\ version[c] > 0
      <3>1. who[c] \in Names /\ trace[c] \in Traces
        BY <2>2 DEF IInv, Bound, HeldAlive, MInv, MarksTypeOK
      <3>2. trace[c].failures + f \in 0 .. MaxFailures
        BY <2>2, <3>1, LoginAssumption DEF Traces
      <3>3. [failures |-> trace[c].failures + f, spells |-> c \in world /\ trace[c].spells] \in Traces
        BY <3>1, <3>2 DEF Traces
      <3>4. QED BY <2>1, <2>2, <3>1, <3>3 DEF SaveAndClose, SavedTrace, MInv, MarksTypeOK
    <2>3. CASE ~(c \in Bodies /\ version[c] > 0)
      BY <2>1, <2>3 DEF SaveAndClose, SavedTrace, MInv, MarksTypeOK
    <2>4. QED BY <2>2, <2>3
  <1>2. /\ \A b \in Bodies : who'[b] \in {who[b], Nil}
        /\ \A e \in Desc : conn'[e] # "playing" /\ char'[e] # Nil
                              => conn[e] # "playing" /\ char'[e] = char[e] /\ e # d
        /\ world' = world
    BY DEF SaveAndClose, Close, Shut, Freed
  <1>3. \A b \in world : who'[b] = who[b]
    BY <1>2 DEF IInv, WorldAlive
  <1>4. ASSUME NEW e \in Desc, Waits(e)', conn[e] # "playing", char'[e] = char[e], char[e] \in Bodies,
               who'[char[e]] = who[char[e]], who[char[e]] \in Names
        PROVE  Waits(e) /\ trace'[char[e]] = trace[char[e]] /\ trace'[who[char[e]]] = trace[who[char[e]]]
    <2>1. /\ char[e] \notin overtaken' /\ file'[who[char[e]]] # Nil
          /\ \A b \in world : who[b] # who[char[e]]
      BY <1>2, <1>3, <1>4 DEF Waits
    <2>2. e # d
      BY <1>2, <1>4, LoginAssumption DEF Waits
    <2>3. char[e] \notin world
      BY <1>4, CharOf
    <2>4. CASE c \in Bodies /\ version[c] > 0
      <3>1. who[char[e]] # who[c]
        <4>1. CASE c \in world
          BY <2>1, <4>1
        <4>2. CASE c \notin world
          <5>1. char[e] # c
            BY <1>4, <2>2, <2>4, Owners
          <5>2. QED BY <1>4, <2>1, <2>3, <2>4, <4>2, <5>1 DEF SaveAndClose, Overtaken
        <4>3. QED BY <4>1, <4>2
      <3>2. who[c] \in Names /\ char[e] # who[c]
        BY <1>4, <2>4, LoginAssumption DEF IInv, Bound, HeldAlive
      <3>3. overtaken \subseteq overtaken' /\ file'[who[char[e]]] = file[who[char[e]]]
        BY <1>4, <2>4, <3>1 DEF SaveAndClose, Overtaken, Saved
      <3>4. Waits(e)
        BY <1>4, <2>1, <3>3 DEF Waits
      <3>5. QED BY <1>4, <2>4, <3>1, <3>2, <3>4 DEF SaveAndClose, SavedTrace, MInv, MarksTypeOK
    <2>5. CASE ~(c \in Bodies /\ version[c] > 0)
      BY <1>4, <2>1, <2>5 DEF SaveAndClose, SavedTrace, Saved, Overtaken, Waits
    <2>6. QED BY <2>4, <2>5
  <1>5. QED BY <1>1, <1>2, <1>4, Waiting

LEMMA GiveNameMarks ==
    ASSUME IInv, IInv', MInv, NEW d \in Desc, NEW n \in Names, NEW b \in Bodies, GiveName(d, n, b)
    PROVE  MInv'
  <1> USE Typing
  <1>1. /\ b \in Fresh /\ UNCHANGED <<world, file>>
        /\ trace' = [trace EXCEPT ![b] = IF file[n] = Nil THEN Plain ELSE trace[n]]
        /\ overtaken' = overtaken \ {b}
    BY DEF GiveName
  <1> DEFINE Thrown == IF InWorld(n) = {} /\ Rivals(d, n) # {} THEN {{e} : e \in Rivals(d, n)} ELSE {{}}
  <1>2. PICK C \in Thrown :
          /\ conn' = [Shut(conn, C, "closed") EXCEPT ![d] =
                        IF C # {} THEN "name"
                        ELSE IF InWorld(n) # {} \/ file[n] # Nil THEN "password"
                        ELSE "confirm"]
          /\ char' = [Shut(char, C, Nil) EXCEPT ![d] = b]
          /\ who' = [Freed(Copies(C \cup {d})) EXCEPT ![b] = n]
    BY DEF GiveName
  <1>3. MarksTypeOK'
    BY <1>1, LoginAssumption DEF MInv, MarksTypeOK, Traces, Plain
  <1>4. ASSUME NEW e \in Desc, Waits(e)' PROVE Alike(e)'
    <2>1. conn'[e] # "playing" /\ char'[e] \in Bodies /\ char'[e] \notin overtaken' /\ file[who'[char'[e]]] # Nil
      BY <1>1, <1>4 DEF Waits
    <2>2. CASE e = d
      <3>1. char'[e] = b /\ who'[b] = n
        BY <1>2, <2>2 DEF Shut, Freed
      <3>2. file[n] # Nil /\ b # n
        BY <2>1, <3>1, LoginAssumption
      <3>3. trace'[b] = trace[n] /\ trace'[n] = trace[n]
        BY <1>1, <3>2 DEF MInv, MarksTypeOK
      <3>4. QED BY <3>1, <3>3 DEF Alike
    <2>3. CASE e # d
      <3>1. char'[e] = char[e] /\ conn'[e] = conn[e] /\ char[e] \in Bodies
        BY <1>2, <2>1, <2>3, LoginAssumption DEF Shut
      <3>2. char[e] # b
        BY <1>1, <3>1 DEF Fresh, IInv, Bound, HeldAlive
      <3>3. who'[char[e]] # Nil
        BY <2>1, <3>1 DEF IInv, Bound, HeldAlive
      <3>4. who'[char[e]] = who[char[e]] /\ who[char[e]] \in Names
        BY <1>2, <3>1, <3>2, <3>3 DEF Freed
      <3>5. \A x \in world : x # b /\ who'[x] = who[x]
        <4>1. SUFFICES ASSUME NEW x \in world PROVE x # b /\ who'[x] = who[x]
          OBVIOUS
        <4>2. x \in Bodies /\ who[x] # Nil /\ who'[x] # Nil
          BY <1>1 DEF IInv, WorldAlive
        <4>3. x # b
          BY <1>1, <4>2 DEF Fresh
        <4>4. QED BY <1>2, <4>2, <4>3 DEF Freed
      <3>6. Waits(e)
        BY <1>1, <1>4, <2>1, <3>1, <3>2, <3>4, <3>5 DEF Waits
      <3>7. Alike(e)
        BY <3>6 DEF MInv, TracesCurrent
      <3>8. b # who[char[e]]
        BY <3>4, LoginAssumption
      <3>9. QED BY <1>1, <3>1, <3>2, <3>4, <3>7, <3>8 DEF Alike, MInv, MarksTypeOK
    <2>4. QED BY <2>2, <2>3
  <1>5. QED BY <1>3, <1>4 DEF MInv, TracesCurrent

LEMMA PlayersMark ==
    ASSUME IInv, IInv', MInv, NEW b \in Bodies, Change(b) \/ Save(b)
    PROVE  MInv'
  <1> USE Typing
  <1>1. /\ b \in world /\ who[b] \in Names
        /\ UNCHANGED <<conn, char, who, world, overtaken>>
    BY DEF Change, Save, IInv, WorldAlive
  <1>2. trace[b] \in Traces
    BY DEF MInv, MarksTypeOK
  <1>3. MarksTypeOK'
    <2>1. CASE Change(b)
      BY <1>2, <2>1 DEF Change, MInv, MarksTypeOK, Traces
    <2>2. CASE Save(b)
      <3>1. [failures |-> trace[b].failures + 0, spells |-> b \in world /\ trace[b].spells] \in Traces
        BY <1>2, LoginAssumption DEF Traces
      <3>2. QED BY <1>1, <2>2, <3>1 DEF Save, SavedTrace, MInv, MarksTypeOK
    <2>3. QED BY <2>1, <2>2
  <1>4. ASSUME NEW e \in Desc, Waits(e)', conn[e] # "playing", char'[e] = char[e], char[e] \in Bodies,
               who'[char[e]] = who[char[e]], who[char[e]] \in Names
        PROVE  Waits(e) /\ trace'[char[e]] = trace[char[e]] /\ trace'[who[char[e]]] = trace[who[char[e]]]
    <2>1. char[e] \notin world /\ who[b] # who[char[e]]
      BY <1>1, <1>4, CharOf DEF Waits
    <2>2. who[char[e]] # b /\ char[e] # b /\ char[e] # who[b]
      BY <1>1, <1>4, <2>1, LoginAssumption
    <2>3. file'[who[char[e]]] = file[who[char[e]]]
      BY <1>4, <2>1 DEF Change, Save, Saved
    <2>4. Waits(e)
      BY <1>1, <1>4, <2>3 DEF Waits
    <2>5. trace'[char[e]] = trace[char[e]] /\ trace'[who[char[e]]] = trace[who[char[e]]]
      BY <1>4, <2>1, <2>2 DEF Change, Save, SavedTrace, MInv, MarksTypeOK
    <2>6. QED BY <2>4, <2>5
  <1>5. QED BY <1>1, <1>3, <1>4, Waiting

LEMMA LeavingMarks ==
    ASSUME IInv, IInv', MInv, NEW b \in Bodies, Quit(b) \/ Delete(b)
    PROVE  MInv'
  <1> USE Typing
  <1>1. b \in world /\ who[b] \in Names /\ trace[b] \in Traces
    BY DEF Quit, Delete, IInv, WorldAlive, MInv, MarksTypeOK
  <1>2. PICK C \in SUBSET Desc : Gone(b, C) /\ (Quit(b) => C = OtherLogins(b))
    <2>1. OtherLogins(b) \in SUBSET Desc
      BY DEF OtherLogins
    <2>2. CASE Quit(b)
      BY <2>1, <2>2 DEF Quit
    <2>3. CASE Delete(b) /\ ~Quit(b)
      BY <2>3 DEF Delete
    <2>4. QED BY <2>2, <2>3
  <1>3. /\ world' = world \ {b} /\ overtaken' = overtaken
        /\ \A x \in Bodies : who'[x] \in {who[x], Nil}
        /\ \A e \in Desc : conn'[e] # "playing" /\ char'[e] # Nil =>
              conn[e] # "playing" /\ char'[e] = char[e] /\ e \notin C
    BY <1>2 DEF Gone, Shut, Freed
  <1>4. \A x \in world \ {b} : who'[x] = who[x]
    <2>1. \A x \in world' : who'[x] # Nil
      BY DEF IInv, WorldAlive
    <2>2. QED BY <1>3, <2>1
  <1>5. /\ trace' = trace \/ trace' = [trace EXCEPT ![who[b]] = [failures |-> trace[b].failures + 0, spells |-> b \in world /\ trace[b].spells]]
        /\ \A n \in Names \ {who[b]} : file'[n] = file[n]
    BY <1>1 DEF Quit, Delete, Saved, SavedTrace
  <1>6. MarksTypeOK'
    <2>1. [failures |-> trace[b].failures + 0, spells |-> b \in world /\ trace[b].spells] \in Traces
      BY <1>1, LoginAssumption DEF Traces
    <2>2. QED BY <1>1, <1>3, <1>5, <2>1 DEF MInv, MarksTypeOK
  <1>7. ASSUME NEW e \in Desc, Waits(e)', conn[e] # "playing", char'[e] = char[e], char[e] \in Bodies,
               who'[char[e]] = who[char[e]], who[char[e]] \in Names
        PROVE  Waits(e) /\ trace'[char[e]] = trace[char[e]] /\ trace'[who[char[e]]] = trace[who[char[e]]]
    <2>1. conn'[e] # "playing" /\ char'[e] # Nil /\ file'[who[char[e]]] # Nil /\ char[e] \notin overtaken
      BY <1>3, <1>7, LoginAssumption DEF Waits
    <2>2. who[char[e]] # who[b]
      <3>1. CASE Quit(b)
        <4>1. owner[b] # e
          BY <1>1, <1>7, CharOf, Owners
        <4>2. e \notin OtherLogins(b)
          BY <1>2, <1>3, <2>1, <3>1
        <4>3. QED BY <1>7, <4>1, <4>2 DEF OtherLogins, NameOf
      <3>2. CASE Delete(b)
        BY <1>1, <2>1, <3>2 DEF Delete
      <3>3. QED BY <3>1, <3>2
    <2>3. \A x \in world : who[x] # who[char[e]]
      BY <1>3, <1>4, <1>7, <2>2 DEF Waits
    <2>4. Waits(e)
      BY <1>5, <1>7, <2>1, <2>2, <2>3 DEF Waits
    <2>5. char[e] # who[b]
      BY <1>1, <1>7, LoginAssumption
    <2>6. QED BY <1>1, <1>5, <1>7, <2>2, <2>4, <2>5 DEF MInv, MarksTypeOK
  <1>8. QED BY <1>3, <1>6, <1>7, Waiting

LEMMA AuctionMarks ==
    ASSUME IInv, IInv', MInv, Careful, NEW n \in Names, Auction(n)
    PROVE  MInv'
  <1> USE Typing
  <1>1. /\ UNCHANGED <<conn, char, who, world, overtaken>> /\ file[n] # Nil /\ ~AskedFor(n)
        /\ trace' = [trace EXCEPT ![n].spells = FALSE] /\ \A m \in Names \ {n} : file'[m] = file[m]
    BY DEF Auction
  <1>2. MarksTypeOK'
    <2>1. trace[n] \in Traces
      BY DEF MInv, MarksTypeOK
    <2>2. QED BY <1>1, <2>1 DEF MInv, MarksTypeOK, Traces
  <1>3. ASSUME NEW e \in Desc, Waits(e)', conn[e] # "playing", char'[e] = char[e], char[e] \in Bodies,
               who'[char[e]] = who[char[e]], who[char[e]] \in Names
        PROVE  Waits(e) /\ trace'[char[e]] = trace[char[e]] /\ trace'[who[char[e]]] = trace[who[char[e]]]
    <2>1. who[char[e]] # n
      <3>1. SUFFICES ASSUME who[char[e]] = n PROVE FALSE
        OBVIOUS
      <3>2. conn[e] \notin {"name", "password"}
        BY <1>1, <1>3, <3>1 DEF AskedFor, NameOf
      <3>3. conn[e] \notin {"confirm", "create"}
        BY <1>1, <3>1 DEF IInv, NewNames
      <3>4. conn[e] # "closed"
        BY <1>3, LoginAssumption DEF IInv, SessionShape
      <3>5. QED BY <1>3, <3>2, <3>3, <3>4 DEF States
    <2>2. char[e] # n
      BY <1>3, LoginAssumption
    <2>3. Waits(e)
      BY <1>1, <1>3, <2>1 DEF Waits
    <2>4. QED BY <1>1, <1>3, <2>1, <2>2, <2>3 DEF MInv, MarksTypeOK
  <1>4. QED BY <1>1, <1>2, <1>3, Waiting

LEMMA RestartMarks ==
    ASSUME IInv, MInv, HotReboot \/ Crash
    PROVE  MInv'
  <1> USE Typing
  <1>1. Plain \in Traces
    BY LoginAssumption DEF Plain, Traces
  <1>2. MarksTypeOK'
    <2>1. CASE Crash
      BY <1>1, <2>1 DEF Crash, MInv, MarksTypeOK
    <2>2. CASE HotReboot
      <3> DEFINE stay == {CH(d) : d \in Playing(Desc)}
      <3>1. stay \subseteq Bodies
        BY <2>2 DEF HotReboot
      <3>2. \A c \in Bodies \cup Names : (\E b \in stay : who[b] = c) => (CHOOSE b \in stay : who[b] = c) \in stay
        OBVIOUS
      <3>3. trace' = [c \in Bodies \cup Names |->
                       IF c \in stay THEN Plain
                       ELSE IF \E b \in stay : who[b] = c
                       THEN trace[CHOOSE b \in stay : who[b] = c]
                       ELSE trace[c]] /\ overtaken' = {}
        BY <2>2 DEF HotReboot
      <3> HIDE DEF stay
      <3>4. QED BY <1>1, <3>1, <3>2, <3>3 DEF MInv, MarksTypeOK
    <2>3. QED BY <2>1, <2>2
  <1>3. \A e \in Desc : conn'[e] # "playing" => char'[e] = Nil
    BY DEF HotReboot, Crash, Shut, Playing
  <1>4. TracesCurrent'
    BY <1>3, LoginAssumption DEF TracesCurrent, Waits
  <1>5. QED BY <1>2, <1>4 DEF MInv

LEMMA MarksKept == ASSUME IInv, IInv', MInv, Careful, Next PROVE MInv'
  <1>1. ASSUME NEW d \in Desc, Connect(d) \/ Refuse(d) \/ Confirm(d) \/ Drop(d) \/ Switch(d) \/ Return(d)
        PROVE  MInv'
    BY <1>1, SocketsMark
  <1>2. ASSUME NEW d \in Desc, Created(d) PROVE MInv'
    BY <1>2, EnterMarks DEF Created
  <1>3. ASSUME NEW d \in Desc, RightPassword(d) PROVE MInv'
    BY <1>3, RightPasswordMarks
  <1>4. ASSUME NEW d \in Desc, HangUp(d) PROVE MInv'
    <2>1. char[d] \in Bodies => trace[char[d]].failures + 0 <= MaxFailures
      BY LoginAssumption DEF MInv, MarksTypeOK, Traces
    <2>2. QED BY <1>4, <2>1, SavingMarks DEF HangUp
  <1>5. ASSUME NEW d \in Desc, WrongPassword(d) PROVE MInv'
    <2>1. char[d] \in Bodies => trace[char[d]].failures + 1 <= MaxFailures
      <3>1. char[d] \in Bodies => trace[char[d]].failures \in 0 .. MaxFailures
        BY DEF MInv, MarksTypeOK, Traces
      <3>2. QED BY <1>5, <3>1, LoginAssumption DEF WrongPassword
    <2>2. QED BY <1>5, <2>1, SavingMarks DEF WrongPassword
  <1>6. ASSUME NEW d \in Desc, NEW n \in Names, NEW b \in Bodies, GiveName(d, n, b) PROVE MInv'
    BY <1>6, GiveNameMarks
  <1>7. ASSUME NEW b \in Bodies, Change(b) \/ Save(b) PROVE MInv'
    BY <1>7, PlayersMark
  <1>8. ASSUME NEW b \in Bodies, Quit(b) \/ Delete(b) PROVE MInv'
    BY <1>8, LeavingMarks
  <1>9. ASSUME NEW n \in Names, Auction(n) PROVE MInv'
    BY <1>9, AuctionMarks
  <1>10. CASE HotReboot \/ Crash
    BY <1>10, RestartMarks
  <1>11. QED BY <1>1, <1>2, <1>3, <1>4, <1>5, <1>6, <1>7, <1>8, <1>9, <1>10 DEF Next

LEMMA MarkedInvariance == ASSUME Careful PROVE Spec => [](IInv /\ MInv)
  <1>1. Init => MInv
    BY LoginAssumption DEF Init, MInv, MarksTypeOK, Traces, Plain, TracesCurrent, Waits
  <1>2. IInv /\ IInv' /\ MInv /\ [Next]_vars => MInv'
    <2>1. ASSUME MInv, UNCHANGED vars PROVE MInv'
      BY <2>1 DEF vars, MInv, MarksTypeOK, TracesCurrent, Waits, Alike
    <2>2. QED BY <2>1, MarksKept
  <1>3. QED BY <1>1, <1>2, Invariance, PTL DEF Spec

-----------------------------------------------------------------------------
(* The theorems. *)

\* However many logins race for a name, nobody is in the world twice, and beyond the
\* password there is one descriptor for a name (check_reconnect and check_playing).
THEOREM LoginOneBody == ASSUME Careful PROVE Spec => []OneBody
  <1>1. IInv => OneBody
    BY DEF IInv
  <1>2. QED BY <1>1, Invariance, PTL

\* d->character, d->original and ch->desc never name memory that was freed and never
\* disagree, through closed links, reconnections, switches, quits and hot reboots.
THEOREM LoginAttached == ASSUME Careful PROVE Spec => []Attached
  <1>1. IInv /\ MInv => Attached
    BY DEF IInv, MInv, Bound, Attached, TypeOK
  <1>2. QED BY <1>1, MarkedInvariance, PTL

\* A copy that was loaded with a name never comes to life when it is no longer the
\* version that the file holds; and it bears what failed logins left in the file, but
\* for those with other copies that failed after it was loaded.
THEOREM LoginEntersCurrent == ASSUME Careful PROVE Spec => EntersCurrent
  <1> DEFINE Loaded(b) ==
               LET n == who'[b]
               IN  /\ version'[b] = IF file[n] = Nil THEN 0 ELSE file[n]
                   /\ file[n] # Nil /\ b \notin overtaken => trace[b] = trace[n]
  <1>1. IInv /\ MInv /\ [Next]_vars => [\A b \in world' \ world : Loaded(b)]_vars
    <2>1. ASSUME IInv, MInv, Next, NEW b \in world' \ world
          PROVE  Loaded(b)
      <3>1. PICK d \in Desc : Enter(d) /\ conn[d] \in {"password", "create"} /\ \A c \in world : who[c] # who[char[d]]
        BY <2>1, StepKeeps
      <3>2. b = char[d] /\ version'[b] = version[b] /\ who'[b] = who[b]
        BY <2>1, <3>1 DEF Enter
      <3>3. char[d] \in Bodies
        BY <2>1, <3>1, CharOf
      <3>4. version[char[d]] = Current(who[char[d]])
        BY <2>1, <3>1, <3>3 DEF IInv, CopiesCurrent
      <3>5. file[who[b]] # Nil /\ b \notin overtaken => Waits(d)
        BY <3>1, <3>2, <3>3 DEF Waits
      <3>6. file[who[b]] # Nil /\ b \notin overtaken => trace[b] = trace[who[b]]
        BY <2>1, <3>2, <3>5 DEF MInv, TracesCurrent, Alike
      <3>7. QED BY <3>2, <3>4, <3>6 DEF Current
    <2>2. QED BY <2>1
  <1>2. QED BY <1>1, MarkedInvariance, PTL DEF Spec, EntersCurrent

(***************************************************************************)
(*                                  Gate                                   *)
(***************************************************************************)

LEMMA Constants ==
    /\ Says \in [Ip \cup Name -> Ip \cup Name \cup {Unknown}] /\ \A i \in Ip : Says[i] \notin Ip
    /\ LookupTime \in Nat \ {0} /\ GoodTime \in Nat \ {0} /\ BadTime \in Nat \ {0} /\ RetryTime \in Nat \ {0}
    /\ Ip \cap Name = {} /\ Unknown \notin Ip /\ Unknown \notin Name
    /\ Slots \in Nat \ {0} /\ Limit \in Nat \ {0} /\ Window \in Nat \ {0}
  BY DnsAssumption, GateAssumption

LEMMA Smallest ==
    ASSUME NEW S \in SUBSET Nat, S # {}
    PROVE  \E m \in S : \A k \in S : m <= k
  <1> DEFINE R == {ss \in Nat \X Nat : ss[1] < ss[2]}
  <1>1. IsWellFoundedOn(R, Nat)
    BY NatLessThanWellFounded DEF OpToRel
  <1>2. \A k, m \in Nat : k < m => <<k, m>> \in R
    <2>1. SUFFICES ASSUME NEW k \in Nat, NEW m \in Nat, k < m PROVE <<k, m>> \in R
      OBVIOUS
    <2>2. <<k, m>> \in Nat \X Nat /\ <<k, m>>[1] = k /\ <<k, m>>[2] = m
      OBVIOUS
    <2>3. <<k, m>>[1] < <<k, m>>[2]
      BY <2>1, <2>2
    <2>4. QED BY <2>2, <2>3, Zenon
  <1> HIDE DEF R
  <1>3. PICK m \in S : \A k \in S : ~(<<k, m>> \in R)
    BY <1>1, WFMin
  <1>4. ASSUME NEW k \in S PROVE m <= k
    <2>1. k \in Nat /\ m \in Nat
      OBVIOUS
    <2>2. ~(k < m)
      BY <1>2, <1>3, <2>1, Zenon
    <2>3. QED BY <2>1, <2>2
  <1>5. QED BY <1>4

LEMMA LeastIn == ASSUME NEW S \in SUBSET Nat, S # {} PROVE Least(S) \in S /\ \A k \in S : Least(S) <= k
  BY Smallest DEF Least

LEMMA MinIn == ASSUME NEW S \in SUBSET Nat, S # {} PROVE A!Min(S) \in S /\ \A k \in S : A!Min(S) <= k
  BY Smallest DEF A!Min

-----------------------------------------------------------------------------
(* Which slot auth_fail_index finds or makes. *)

Live(e) == e.ip # Unknown /\ e.age <= Window

OneEntry(t) == \A i, j \in 1 .. Slots : Live(t[i]) /\ Live(t[j]) /\ t[i].ip = t[j].ip => i = j

Tables == [1 .. Slots -> A!Entry]

\* Whose slot is taken.
Taken(t, a) == {A!Freed(t, a)[A!Index(t, a)].ip} \ {Unknown, a}

LEMMA Entries ==
    ASSUME NEW t \in Tables, NEW j \in 1 .. Slots
    PROVE  /\ t[j].ip \in Ip \cup {Unknown} /\ t[j].count \in 0 .. Limit /\ t[j].age \in 0 .. Window + 1
           /\ A!Expired(t[j]) <=> t[j].ip # Unknown /\ ~Live(t[j])
           /\ A!Free \in A!Entry /\ A!Free.ip = Unknown
  BY Constants DEF Tables, A!Entry, A!Expired, A!Free, Live

\* u is t after a was looked for, and i his slot.
Looked(t, a, u, i) ==
    /\ i \in 1 .. Slots /\ u \in Tables /\ OneEntry(u)
    /\ u[i].ip = a /\ Live(u[i])
    /\ u[i] = t[i] \/ (u[i].count = 0 /\ u[i].age = 0)
    /\ \A j \in 1 .. Slots : Live(t[j]) /\ t[j].ip = a => j = i /\ u[i] = t[i]
    /\ \A j \in 1 .. Slots \ {i} : Live(u[j]) => u[j] = t[j] /\ u[j].ip # a /\ u[j].ip \notin Taken(t, a)
    /\ \A j \in 1 .. Slots : j < i => u[j].ip # a

LEMMA LookingUp ==
    ASSUME NEW t \in Tables, OneEntry(t), NEW a \in Ip
    PROVE  Looked(t, a, A!LookedUp(t, a), A!Index(t, a))
  <1> USE Constants
  <1> DEFINE u == A!LookedUp(t, a)
             i == A!Index(t, a)
             f == A!Found(t, a)
             g == A!Freed(t, a)
  <1>1. DOMAIN t = 1 .. Slots
    BY DEF Tables
  <1>2. A!Matches(t, a) = {j \in 1 .. Slots : t[j].ip = a /\ Live(t[j])}
    BY <1>1, Entries DEF A!Matches
  <1>3. f \in A!Matches(t, a) \cup {Slots + 1} /\ \A j \in A!Matches(t, a) : f <= j
    <2>1. A!Matches(t, a) \cup {Slots + 1} \in SUBSET Nat
      BY <1>2
    <2>2. QED BY <2>1, MinIn DEF A!Found
  <1>4. g = [j \in 1 .. Slots |-> IF j < f /\ A!Expired(t[j]) THEN A!Free ELSE t[j]]
    BY <1>1 DEF A!Freed
  <1>5. g \in Tables
    BY <1>4, Entries DEF Tables
  <1>6. \A j \in 1 .. Slots : Live(g[j]) => g[j] = t[j]
    BY <1>4, Entries DEF Live
  <1>7. \A j \in 1 .. Slots : Live(t[j]) => g[j] = t[j]
    BY <1>4, Entries
  <1>8. CASE f \in A!Matches(t, a)
    <2>1. f \in 1 .. Slots /\ i = f /\ u = g /\ t[i].ip = a /\ Live(t[i]) /\ g[i] = t[i]
      BY <1>2, <1>7, <1>8 DEF A!Index, A!LookedUp
    <2>2. \A j \in 1 .. Slots : j < i => u[j].ip # a
      <3>1. SUFFICES ASSUME NEW j \in 1 .. Slots, j < i, u[j].ip = a PROVE FALSE
        OBVIOUS
      <3>2. ~A!Expired(t[j]) /\ t[j].ip = a
        BY <1>4, <2>1, <3>1, Entries
      <3>3. j \in A!Matches(t, a)
        BY <1>2, <3>2, Entries
      <3>4. QED BY <1>3, <2>1, <3>1, <3>3
    <2>3. Taken(t, a) = {}
      BY <2>1 DEF Taken
    <2>4. OneEntry(u)
      BY <1>6, <2>1 DEF OneEntry
    <2>5. \A j \in 1 .. Slots : Live(t[j]) /\ t[j].ip = a => j = i
      BY <2>1 DEF OneEntry
    <2>6. \A j \in 1 .. Slots \ {i} : Live(u[j]) => u[j] = t[j] /\ u[j].ip # a
      BY <1>6, <2>1, <2>5
    <2>7. QED BY <1>5, <2>1, <2>2, <2>3, <2>4, <2>5, <2>6 DEF Looked
  <1>9. CASE f \notin A!Matches(t, a)
    <2>1. f = Slots + 1 /\ \A j \in 1 .. Slots : ~(Live(t[j]) /\ t[j].ip = a)
      <3>1. f = Slots + 1
        BY <1>3, <1>9
      <3>2. QED BY <1>2, <1>3, <3>1
    <2>2. i = A!FreeSlot(t, a) /\ i \in 1 .. Slots
      <3> DEFINE free == {j \in DOMAIN t : g[j].ip = Unknown}
      <3>1. i = A!FreeSlot(t, a)
        BY <2>1 DEF A!Index
      <3>2. A!FreeSlot(t, a) = IF free = {} THEN 1 ELSE A!Min(free)
        BY DEF A!FreeSlot
      <3>3. free \in SUBSET Nat /\ free \subseteq 1 .. Slots
        BY <1>1
      <3> HIDE DEF free
      <3>4. CASE free = {}
        BY <3>1, <3>2, <3>4
      <3>5. CASE free # {}
        BY <3>1, <3>2, <3>3, <3>5, MinIn
      <3>6. QED BY <3>4, <3>5
    <2>3. u = [g EXCEPT ![i] = [ip |-> a, count |-> 0, age |-> 0]]
      BY <2>1 DEF A!LookedUp
    <2>4. [ip |-> a, count |-> 0, age |-> 0] \in A!Entry
      BY DEF A!Entry
    <2>5. u \in Tables /\ u[i].ip = a /\ u[i].count = 0 /\ u[i].age = 0 /\ \A j \in 1 .. Slots \ {i} : u[j] = g[j]
      BY <1>5, <2>2, <2>3, <2>4 DEF Tables
    <2>6. Live(u[i])
      BY <2>5 DEF Live
    <2>7. \A j \in 1 .. Slots : g[j].ip # a /\ (g[j].ip # Unknown => Live(g[j]))
      BY <1>4, <2>1, Entries
    <2>8. \A j \in 1 .. Slots \ {i} : Live(u[j]) => u[j] = t[j] /\ u[j].ip # a
      BY <1>6, <2>5, <2>7
    <2>9. \A j \in 1 .. Slots \ {i} : Live(u[j]) => u[j].ip \notin Taken(t, a)
      <3>1. SUFFICES ASSUME NEW j \in 1 .. Slots \ {i}, Live(u[j]), u[j].ip = g[i].ip PROVE FALSE
        BY DEF Taken
      <3>2. Live(g[j]) /\ Live(g[i]) /\ g[j].ip = g[i].ip
        BY <2>2, <2>5, <2>7, <3>1 DEF Live
      <3>3. g[j] = t[j] /\ g[i] = t[i]
        BY <1>6, <2>2, <3>2
      <3>4. QED BY <2>2, <3>1, <3>2, <3>3 DEF OneEntry
    <2>10. OneEntry(u)
      BY <1>6, <2>2, <2>5, <2>8 DEF OneEntry
    <2>11. \A j \in 1 .. Slots : j < i => u[j].ip # a
      BY <2>2, <2>5, <2>7
    <2>12. QED BY <2>1, <2>2, <2>5, <2>6, <2>8, <2>9, <2>10, <2>11 DEF Looked
  <1>10. QED BY <1>8, <1>9

-----------------------------------------------------------------------------
(* What is counted against an address. *)

CInv == A!CountDeserved /\ OneEntry(auth_fails)

LEMMA Counted ==
    CInv <=> /\ auth_fails \in Tables /\ recent \in [Ip -> [0 .. Window -> Nat]]
             /\ \A i \in 1 .. Slots : Live(auth_fails[i]) => auth_fails[i].count <= recent[auth_fails[i].ip][auth_fails[i].age]
             /\ OneEntry(auth_fails)
  <1>1. ASSUME auth_fails \in Tables, NEW i \in 1 .. Slots
        PROVE  Live(auth_fails[i]) <=> auth_fails[i].ip # Unknown /\ ~A!Expired(auth_fails[i])
    BY <1>1, Entries DEF Live
  <1>2. QED BY <1>1 DEF CInv, A!CountDeserved, A!TypeOK, Tables

LEMMA CountedPrime ==
    ASSUME auth_fails' \in Tables, recent' \in [Ip -> [0 .. Window -> Nat]],
           \A i \in 1 .. Slots : Live(auth_fails'[i]) =>
                auth_fails'[i].count <= recent'[auth_fails'[i].ip][auth_fails'[i].age],
           OneEntry(auth_fails')
    PROVE  CInv'
  <1>1. ASSUME NEW i \in 1 .. Slots
        PROVE  Live(auth_fails'[i]) <=> auth_fails'[i].ip # Unknown /\ ~A!Expired(auth_fails'[i])
    BY <1>1, Entries DEF Live
  <1>2. QED BY <1>1 DEF CInv, A!CountDeserved, A!TypeOK, Tables

LEMMA RefuseCounts == ASSUME CInv, NEW a \in Ip, A!Refuse(a) PROVE CInv'
  <1> DEFINE t == auth_fails
             u == A!LookedUp(t, a)
             k == A!Index(t, a)
  <1>1. /\ t \in Tables /\ recent \in [Ip -> [0 .. Window -> Nat]] /\ OneEntry(t)
        /\ \A i \in 1 .. Slots : Live(t[i]) => t[i].count <= recent[t[i].ip][t[i].age]
    BY Counted
  <1>2. auth_fails' = u /\ recent' = recent /\ u[k].count >= Limit
    BY DEF A!Refuse, A!Throttled
  <1>3. /\ k \in 1 .. Slots /\ u \in Tables /\ OneEntry(u)
        /\ u[k] = t[k] \/ u[k].count = 0
        /\ \A j \in 1 .. Slots \ {k} : Live(u[j]) => u[j] = t[j]
    <2>1. Looked(t, a, u, k)
      BY <1>1, LookingUp
    <2>2. QED BY <2>1 DEF Looked
  <1>4. u[k] = t[k]
    BY <1>2, <1>3, Constants
  <1> HIDE DEF u, k, t
  <1>5. \A i \in 1 .. Slots : Live(u[i]) => u[i].count <= recent[u[i].ip][u[i].age]
    <2>1. SUFFICES ASSUME NEW i \in 1 .. Slots, Live(u[i]) PROVE u[i].count <= recent[u[i].ip][u[i].age]
      OBVIOUS
    <2>2. u[i] = t[i]
      BY <1>3, <1>4, <2>1
    <2>3. QED BY <1>1, <2>1, <2>2
  <1>6. QED BY <1>1, <1>2, <1>3, <1>5, CountedPrime

LEMMA FailCounts == ASSUME CInv, NEW a \in Ip, A!Fail(a) PROVE CInv'
  <1> DEFINE t == auth_fails
             u == A!LookedUp(t, a)
             k == A!Index(t, a)
             v == A!LookedUp(u, a)
             w == A!Noted(u, a)
             lost == Taken(t, a)
  <1>1. /\ t \in Tables /\ recent \in [Ip -> [0 .. Window -> Nat]] /\ OneEntry(t)
        /\ \A i \in 1 .. Slots : Live(t[i]) => t[i].count <= recent[t[i].ip][t[i].age]
    BY Counted
  <1>2. /\ auth_fails' = w /\ ~(u[k].count >= Limit)
        /\ recent' = [A!Forgotten(lost) EXCEPT ![a] = [s \in 0 .. Window |-> recent[a][s] + 1]]
    BY DEF A!Fail, A!Throttled, A!Overrun, Taken
  <1>3. /\ k \in 1 .. Slots /\ u \in Tables /\ OneEntry(u) /\ u[k].ip = a /\ Live(u[k])
        /\ u[k] = t[k] \/ (u[k].count = 0 /\ u[k].age = 0)
        /\ \A j \in 1 .. Slots \ {k} : Live(u[j]) => u[j] = t[j] /\ u[j].ip # a /\ u[j].ip \notin lost
    <2>1. Looked(t, a, u, k)
      BY <1>1, LookingUp
    <2>2. QED BY <2>1 DEF Looked
  <1> HIDE DEF u, k, lost, t
  <1>4. /\ v \in Tables /\ OneEntry(v) /\ k = A!Index(u, a) /\ v[k] = u[k]
        /\ \A j \in 1 .. Slots \ {k} : Live(v[j]) => v[j] = u[j]
    <2>1. Looked(u, a, v, A!Index(u, a))
      BY <1>3, LookingUp
    <2>2. QED BY <1>3, <2>1 DEF Looked
  <1> DEFINE r == [A!Forgotten(lost) EXCEPT ![a] = [s \in 0 .. Window |-> recent[a][s] + 1]]
             new == [u[k] EXCEPT !.count = @ + 1]
  <1>5. w = [v EXCEPT ![k] = IF v[k].age > Window THEN [v[k] EXCEPT !.count = 1, !.age = 0]
                             ELSE [v[k] EXCEPT !.count = v[k].count + 1]]
    BY <1>4 DEF A!Noted
  <1> HIDE DEF v, w
  <1>6. w = [v EXCEPT ![k] = new]
    <2>1. v[k] = u[k] /\ ~(v[k].age > Window)
      BY <1>3, <1>4, Entries, Constants DEF Live
    <2>2. QED BY <1>5, <2>1
  <1>7. /\ u[k] \in A!Entry /\ u[k].age \in 0 .. Window /\ u[k].count \in 0 .. Limit /\ u[k].count < Limit
    BY <1>2, <1>3, Entries, Constants DEF Tables, Live
  <1>8. /\ new \in A!Entry /\ new.ip = a /\ new.age = u[k].age /\ new.count = u[k].count + 1 /\ Live(new)
    BY <1>3, <1>7, Constants DEF A!Entry, Live
  <1>9. w \in Tables /\ w[k] = new /\ \A j \in 1 .. Slots \ {k} : w[j] = v[j]
    BY <1>3, <1>4, <1>6, <1>8 DEF Tables
  <1>10. OneEntry(w)
    <2>1. \A j \in 1 .. Slots \ {k} : Live(w[j]) => w[j] = v[j] /\ w[j].ip # a
      BY <1>3, <1>4, <1>9
    <2>2. ASSUME NEW i \in 1 .. Slots, NEW j \in 1 .. Slots, Live(w[i]), Live(w[j]), w[i].ip = w[j].ip
          PROVE  i = j
      <3>1. CASE i = k \/ j = k
        BY <1>8, <1>9, <2>1, <2>2, <3>1
      <3>2. CASE i # k /\ j # k
        BY <1>4, <2>1, <2>2, <3>2 DEF OneEntry
      <3>3. QED BY <3>1, <3>2
    <2>3. QED BY <2>2 DEF OneEntry
  <1>11. /\ r \in [Ip -> [0 .. Window -> Nat]] /\ \A s \in 0 .. Window : r[a][s] = recent[a][s] + 1
         /\ \A b \in Ip \ {a} : b \notin lost => r[b] = recent[b]
    <2>1. /\ A!Forgotten(lost) \in [Ip -> [0 .. Window -> Nat]]
          /\ \A b \in Ip : b \notin lost => A!Forgotten(lost)[b] = recent[b]
      <3>1. [s \in 0 .. Window |-> 0] \in [0 .. Window -> Nat]
        OBVIOUS
      <3>2. QED BY <1>1, <3>1 DEF A!Forgotten
    <2>2. [s \in 0 .. Window |-> recent[a][s] + 1] \in [0 .. Window -> Nat]
      <3>1. recent[a] \in [0 .. Window -> Nat]
        BY <1>1
      <3>2. \A s \in 0 .. Window : recent[a][s] \in Nat
        BY <3>1, Zenon
      <3>3. QED BY <3>2
    <2>3. QED BY <2>1, <2>2
  <1> HIDE DEF new, r, t, w
  <1>12. \A i \in 1 .. Slots : Live(w[i]) => w[i].count <= r[w[i].ip][w[i].age]
    <2>1. SUFFICES ASSUME NEW i \in 1 .. Slots, Live(w[i]) PROVE w[i].count <= r[w[i].ip][w[i].age]
      OBVIOUS
    <2>2. CASE i = k
      <3>1. w[i].ip = a /\ w[i].age = u[k].age /\ w[i].count = u[k].count + 1
        BY <1>8, <1>9, <2>2
      <3>2. u[k].count <= recent[a][u[k].age]
        <4>1. CASE u[k] = t[k]
          BY <1>1, <1>3, <4>1
        <4>2. CASE u[k].count = 0
          <5>1. recent[a] \in [0 .. Window -> Nat]
            BY <1>1, Zenon
          <5>2. recent[a][u[k].age] \in Nat
            BY <1>7, <5>1, Zenon
          <5>3. QED BY <4>2, <5>2
        <4>3. QED BY <1>3, <4>1, <4>2
      <3>3. recent[a][u[k].age] \in Nat
        <4>1. recent[a] \in [0 .. Window -> Nat]
          BY <1>1
        <4>2. QED BY <1>7, <4>1
      <3>4. QED BY <1>7, <1>11, <3>1, <3>2, <3>3
    <2>3. CASE i # k
      <3>1. w[i] = t[i] /\ Live(t[i]) /\ w[i].ip # a /\ w[i].ip \notin lost
        BY <1>3, <1>4, <1>9, <2>1, <2>3
      <3>2. w[i].ip \in Ip
        BY <1>9, <2>1, Entries, Zenon DEF Live
      <3>3. QED BY <1>1, <1>11, <3>1, <3>2
    <2>4. QED BY <2>2, <2>3
  <1>13. auth_fails' = w /\ recent' = r
    BY <1>2 DEF w, r
  <1>14. QED BY <1>9, <1>10, <1>11, <1>12, <1>13, CountedPrime

LEMMA SucceedCounts == ASSUME CInv, NEW a \in Ip, A!Succeed(a) PROVE CInv'
  <1> DEFINE t == auth_fails
             u == A!LookedUp(t, a)
             k == A!Index(t, a)
             w == A!Cleared(u, a)
             lost == Taken(t, a)
             r == A!Forgotten(lost \cup {a})
  <1>1. /\ t \in Tables /\ recent \in [Ip -> [0 .. Window -> Nat]] /\ OneEntry(t)
        /\ \A i \in 1 .. Slots : Live(t[i]) => t[i].count <= recent[t[i].ip][t[i].age]
    BY Counted
  <1>2. auth_fails' = w /\ recent' = r
    BY DEF A!Succeed, A!Overrun, Taken
  <1>3. /\ k \in 1 .. Slots /\ u \in Tables /\ OneEntry(u) /\ u[k].ip = a
        /\ \A j \in 1 .. Slots \ {k} : Live(u[j]) => u[j] = t[j] /\ u[j].ip # a /\ u[j].ip \notin lost
        /\ \A j \in 1 .. Slots : j < k => u[j].ip # a
    <2>1. Looked(t, a, u, k)
      BY <1>1, LookingUp
    <2>2. QED BY <2>1 DEF Looked
  <1> HIDE DEF u, k, lost
  <1>4. w = [u EXCEPT ![k] = A!Free]
    <2> DEFINE same == {i \in DOMAIN u : u[i].ip = a}
    <2>1. same \in SUBSET Nat /\ k \in same /\ DOMAIN u = 1 .. Slots
      BY <1>3 DEF Tables
    <2>2. A!Min(same) \in same /\ A!Min(same) <= k
      BY <2>1, MinIn
    <2>3. A!Min(same) = k
      BY <1>3, <2>1, <2>2
    <2>4. QED BY <2>1, <2>3 DEF A!Cleared
  <1>5. w \in Tables /\ ~Live(w[k]) /\ \A j \in 1 .. Slots \ {k} : w[j] = u[j]
    BY <1>3, <1>4, Entries DEF Tables, Live
  <1>6. OneEntry(w)
    BY <1>3, <1>5 DEF OneEntry
  <1>7. /\ r \in [Ip -> [0 .. Window -> Nat]]
        /\ \A b \in Ip \ {a} : b \notin lost => r[b] = recent[b]
    <2>1. [s \in 0 .. Window |-> 0] \in [0 .. Window -> Nat]
      OBVIOUS
    <2>2. QED BY <1>1, <2>1 DEF A!Forgotten
  <1> HIDE DEF w, r, t
  <1>8. \A i \in 1 .. Slots : Live(w[i]) => w[i].count <= r[w[i].ip][w[i].age]
    <2>1. SUFFICES ASSUME NEW i \in 1 .. Slots, Live(w[i]) PROVE w[i].count <= r[w[i].ip][w[i].age]
      OBVIOUS
    <2>2. w[i] = t[i] /\ Live(t[i]) /\ w[i].ip # a /\ w[i].ip \notin lost
      BY <1>3, <1>5, <2>1
    <2>3. w[i].ip \in Ip
      BY <1>5, <2>1, Entries, Zenon DEF Live
    <2>4. QED BY <1>1, <1>7, <2>2, <2>3
  <1>9. QED BY <1>2, <1>5, <1>6, <1>7, <1>8, CountedPrime

LEMMA TickCounts == ASSUME CInv, A!Tick PROVE CInv'
  <1> DEFINE t == auth_fails
             w == [i \in 1 .. Slots |-> IF t[i].ip = Unknown \/ A!Expired(t[i]) THEN t[i]
                                        ELSE [t[i] EXCEPT !.age = @ + 1]]
             r == [a \in Ip |-> [s \in 0 .. Window |-> IF s = 0 THEN 0 ELSE recent[a][s - 1]]]
  <1>1. /\ t \in Tables /\ recent \in [Ip -> [0 .. Window -> Nat]] /\ OneEntry(t)
        /\ \A i \in 1 .. Slots : Live(t[i]) => t[i].count <= recent[t[i].ip][t[i].age]
    BY Counted
  <1>2. auth_fails' = w /\ recent' = r
    BY <1>1 DEF A!Tick, Tables
  <1> HIDE DEF t
  <1>3. \A i \in 1 .. Slots : /\ w[i] \in A!Entry
                              /\ Live(w[i]) => /\ Live(t[i]) /\ w[i].ip = t[i].ip /\ w[i].count = t[i].count
                                               /\ w[i].age = t[i].age + 1 /\ t[i].age \in 0 .. Window - 1
    <2>1. SUFFICES ASSUME NEW i \in 1 .. Slots
          PROVE  /\ w[i] \in A!Entry
                 /\ Live(w[i]) => /\ Live(t[i]) /\ w[i].ip = t[i].ip /\ w[i].count = t[i].count
                                  /\ w[i].age = t[i].age + 1 /\ t[i].age \in 0 .. Window - 1
      OBVIOUS
    <2>2. t[i] \in A!Entry /\ t[i].age \in 0 .. Window + 1 /\ (A!Expired(t[i]) <=> t[i].ip # Unknown /\ ~Live(t[i]))
      BY <1>1, Entries DEF Tables
    <2>3. CASE ~Live(t[i])
      <3>1. w[i] = t[i]
        BY <2>2, <2>3 DEF Live
      <3>2. QED BY <2>2, <2>3, <3>1
    <2>4. CASE Live(t[i])
      <3>1. w[i] = [t[i] EXCEPT !.age = t[i].age + 1] /\ t[i].age <= Window
        BY <2>2, <2>4 DEF Live
      <3>2. w[i] \in A!Entry /\ w[i].ip = t[i].ip /\ w[i].count = t[i].count /\ w[i].age = t[i].age + 1
        BY <2>2, <3>1, Constants DEF A!Entry
      <3>3. QED BY <2>2, <2>4, <3>2, Constants DEF Live
    <2>5. QED BY <2>3, <2>4
  <1>4. w \in Tables
    BY <1>3 DEF Tables
  <1>5. r \in [Ip -> [0 .. Window -> Nat]]
    <2>1. ASSUME NEW a \in Ip PROVE [s \in 0 .. Window |-> IF s = 0 THEN 0 ELSE recent[a][s - 1]] \in [0 .. Window -> Nat]
      <3>1. recent[a] \in [0 .. Window -> Nat]
        BY <1>1
      <3>2. \A s \in 0 .. Window : (IF s = 0 THEN 0 ELSE recent[a][s - 1]) \in Nat
        BY <3>1, Constants
      <3>3. QED BY <3>2
    <2>2. QED BY <2>1
  <1> HIDE DEF w
  <1>6. OneEntry(w)
    BY <1>1, <1>3 DEF OneEntry
  <1>7. \A i \in 1 .. Slots : Live(w[i]) => w[i].count <= r[w[i].ip][w[i].age]
    <2>1. SUFFICES ASSUME NEW i \in 1 .. Slots, Live(w[i]) PROVE w[i].count <= r[w[i].ip][w[i].age]
      OBVIOUS
    <2>2. /\ Live(t[i]) /\ w[i].ip = t[i].ip /\ w[i].count = t[i].count
          /\ w[i].age = t[i].age + 1 /\ t[i].age \in 0 .. Window - 1
      BY <1>3, <2>1
    <2>3. t[i].ip \in Ip
      BY <1>1, <2>2, Entries, Zenon DEF Live
    <2>4. r[t[i].ip][t[i].age + 1] = recent[t[i].ip][t[i].age]
      BY <2>2, <2>3, Constants
    <2>5. t[i].count <= recent[t[i].ip][t[i].age]
      BY <1>1, <2>2
    <2>6. w[i].count <= r[t[i].ip][t[i].age + 1]
      BY <2>2, <2>4, <2>5
    <2>7. QED BY <2>2, <2>6
  <1>8. QED BY <1>2, <1>4, <1>5, <1>6, <1>7, CountedPrime

LEMMA CountsFirst == ASSUME A!Init PROVE CInv
  <1>1. /\ auth_fails = [i \in 1 .. Slots |-> A!Free]
        /\ recent = [a \in Ip |-> [s \in 0 .. Window |-> 0]]
    BY DEF A!Init
  <1>2. A!Free \in A!Entry /\ ~Live(A!Free)
    BY Constants DEF A!Entry, A!Free, Live
  <1>3. auth_fails \in Tables /\ recent \in [Ip -> [0 .. Window -> Nat]]
    BY <1>1, <1>2 DEF Tables
  <1>4. \A i \in 1 .. Slots : ~Live(auth_fails[i])
    BY <1>1, <1>2
  <1>5. QED BY <1>3, <1>4, Counted DEF OneEntry

-----------------------------------------------------------------------------
(* What a lookup may come by. *)

\* Whatever S holds, it holds the name that is said of it.
Closed(S) == \A y \in S : Says[y] \in Name => Says[y] \in S

\* The name server leads from i to x by names alone.
Trail(i, x) == \A S \in SUBSET (Ip \cup Name) : i \in S /\ Closed(S) => x \in S

LEMMA TrailOn ==
    ASSUME NEW i, NEW x, Trail(i, x), Says[x] \in Name
    PROVE  Trail(i, Says[x])
  BY DEF Trail, Closed

LEMMA TrailBack ==
    ASSUME NEW i \in Ip \cup Name, NEW x, Trail(i, x), x # i
    PROVE  Says[i] \in Name /\ Trail(Says[i], x)
  <1>1. Says[i] \in Name
    <2>1. SUFFICES ASSUME Says[i] \notin Name PROVE FALSE
      OBVIOUS
    <2>2. Closed({i}) /\ {i} \in SUBSET (Ip \cup Name)
      BY <2>1 DEF Closed
    <2>3. QED BY <2>2 DEF Trail
  <1>2. ASSUME NEW S \in SUBSET (Ip \cup Name), Says[i] \in S, Closed(S) PROVE x \in S
    <2>1. Closed(S \cup {i}) /\ S \cup {i} \in SUBSET (Ip \cup Name)
      BY <1>2 DEF Closed
    <2>2. x \in S \cup {i}
      BY <2>1 DEF Trail
    <2>3. QED BY <2>2
  <1>3. QED BY <1>1, <1>2 DEF Trail

\* A lookup that came by host and by about, of which a is said, knows where host leads.
LEMMA Agrees ==
    ASSUME NEW a \in Ip, NEW host \in Name, NEW about \in Ip \cup Name,
           Trail(a, host), Trail(a, about), Says[about] = a
    PROVE  LeadsTo(host, a)
  <1> USE Constants
  <1> DEFINE T == {y \in Ip \cup Name : Trail(y, about)}
  <1>1. Closed(T)
    <2>1. SUFFICES ASSUME NEW y \in T, Says[y] \in Name PROVE Says[y] \in T
      BY DEF Closed
    <2>2. y # about
      BY <2>1
    <2>3. Trail(Says[y], about)
      BY <2>2, TrailBack
    <2>4. QED BY <2>1, <2>3
  <1>2. host \in T
    <2>1. a \in T /\ T \in SUBSET (Ip \cup Name)
      OBVIOUS
    <2>2. QED BY <1>1, <2>1 DEF Trail
  <1>3. SUFFICES ASSUME NEW S \in SUBSET (Ip \cup Name), host \in S,
                        \A x \in S \cap Name : Says[x] \in S \cup {Unknown}
                 PROVE  a \in S
    BY DEF LeadsTo
  <1>4. Closed(S \cap Name) /\ S \cap Name \in SUBSET (Ip \cup Name) /\ host \in S \cap Name
    BY <1>3 DEF Closed
  <1>5. about \in S \cap Name
    BY <1>2, <1>4 DEF Trail
  <1>6. QED BY <1>3, <1>5

-----------------------------------------------------------------------------
(* The invariant of the resolver. *)

\* No two lookups are of one address, nor have two one number, unless their addresses are doubtful.
Ids == \A i, j \in DOMAIN lookups :
          /\ lookups[i].ip = lookups[j].ip => i = j
          /\ lookups[i].id = lookups[j].id /\ lookups[i].ip \notin doubtful => i = j

Hosts == \A i \in DOMAIN lookups :
            /\ lookups[i].host \in Name \cup {Unknown}
            /\ lookups[i].host # Unknown /\ lookups[i].ip \notin doubtful => Trail(lookups[i].ip, lookups[i].host)

\* Whatever is still asked for a lookup is what it came by.
Asked == \A q \in net, i \in DOMAIN lookups :
            lookups[i].id = q.id /\ lookups[i].ip \notin doubtful =>
                Trail(lookups[i].ip, q.about) /\ (q.about \in Name => lookups[i].host # Unknown)

\* An address is cached once, and not looked up then.
Apart == \A e \in cache : (\A i \in DOMAIN lookups : lookups[i].ip # e.ip) /\ \A f \in cache : f.ip = e.ip => f = e

Vouched(s) == s.host = s.ip \/ (s.host \in Name /\ LeadsTo(s.host, s.ip))

Sure(s) == s.ip \in doubtful \/ Vouched(s)

Vouching ==
    /\ \A e \in cache : Sure(e)
    /\ \A d \in Link : link[d] # Unknown => Sure(link[d])
    /\ \A c \in Player : player[c] # Unknown => Sure(player[c])

Fits(s, C) == s # Unknown => \A e \in C : e.ip = s.ip => s.host = e.host

Showing == (\A d \in Link : Fits(link[d], cache)) /\ (\A c \in Player : Fits(player[c], cache))

DInv == DnsTypeOK /\ Ids /\ Hosts /\ Asked /\ Apart /\ Vouching /\ Showing

LEMMA DInvNames == DInv => NamesVerified
  BY DEF DInv, NamesVerified, Apart, Vouching, Sure, Showing, Fits, Vouched, ShownAsCached, KnownAs

LEMMA DFirst == DnsInit => DInv
  BY Constants DEF DnsInit, DInv, DnsTypeOK, Ids, Hosts, Asked, Apart, Vouching, Showing, Fits, Shown

\* Who is not doubtful after a step was not before it, and has its number to itself.
LEMMA Doubting ==
    ASSUME Doubts
    PROVE  /\ \A i \in DOMAIN lookups' : lookups'[i].ip \notin doubtful' =>
                /\ lookups'[i].ip \notin doubtful
                /\ \A j \in DOMAIN lookups' : lookups'[j].id = lookups'[i].id => j = i
                /\ (\A j \in DOMAIN lookups : lookups[j].ip # lookups'[i].ip) => \A q \in net : q.id # lookups'[i].id
           /\ \A e \in cache' : e.ip \in doubtful => e.ip \in doubtful'
           /\ \A d \in Link : link'[d] # Unknown /\ link'[d].ip \in doubtful => link'[d].ip \in doubtful'
           /\ \A c \in Player : player'[c] # Unknown /\ player'[c].ip \in doubtful => player'[c].ip \in doubtful'
           /\ \A x \in doubtful' : x \in doubtful \/ \E i \in DOMAIN lookups' : x = lookups'[i].ip
  <1>1. doubtful' = (doubtful \cup Mixed(lookups')) \cap Named(lookups', cache', link', player')
    BY DEF Doubts
  <1>2. \A i \in DOMAIN lookups' : lookups'[i].ip \in Named(lookups', cache', link', player')
    BY DEF Named
  <1>3. \A e \in cache' : e.ip \in Named(lookups', cache', link', player')
    BY DEF Named
  <1>4. \A d \in Link : link'[d] # Unknown => link'[d].ip \in Named(lookups', cache', link', player')
    BY DEF Named
  <1>5. \A c \in Player : player'[c] # Unknown => player'[c].ip \in Named(lookups', cache', link', player')
    BY DEF Named
  <1>6. \A i \in DOMAIN lookups' : lookups'[i].ip \notin Mixed(lookups') => ~Numbered(lookups', i)
    BY DEF Mixed
  <1>7. \A i \in DOMAIN lookups' : lookups'[i].ip \notin Mixed(lookups') =>
            ~(Began(lookups', i) /\ \E q \in net : q.id = lookups'[i].id)
    BY DEF Mixed
  <1>8. \A x \in Mixed(lookups') : \E i \in DOMAIN lookups' : x = lookups'[i].ip
    BY DEF Mixed
  <1>9. ASSUME NEW i \in DOMAIN lookups', lookups'[i].ip \notin doubtful'
        PROVE  /\ lookups'[i].ip \notin doubtful
               /\ \A j \in DOMAIN lookups' : lookups'[j].id = lookups'[i].id => j = i
               /\ (\A j \in DOMAIN lookups : lookups[j].ip # lookups'[i].ip) => \A q \in net : q.id # lookups'[i].id
    <2>1. lookups'[i].ip \notin doubtful /\ lookups'[i].ip \notin Mixed(lookups')
      BY <1>1, <1>2, <1>9
    <2>2. ~Numbered(lookups', i) /\ ~(Began(lookups', i) /\ \E q \in net : q.id = lookups'[i].id)
      BY <1>6, <1>7, <2>1
    <2>3. QED BY <2>1, <2>2 DEF Numbered, Began
  <1>10. QED BY <1>1, <1>3, <1>4, <1>5, <1>8, <1>9

\* What was sure of all there is now is so still.
LEMMA StillSure ==
    ASSUME Doubts, \A e \in cache' : Sure(e), \A d \in Link : link'[d] # Unknown => Sure(link'[d]),
           \A c \in Player : player'[c] # Unknown => Sure(player'[c])
    PROVE  Vouching'
  <1>1. \A e \in cache' : e.ip \in doubtful' \/ Vouched(e)
    BY Doubting DEF Sure
  <1>2. \A d \in Link : link'[d] # Unknown => link'[d].ip \in doubtful' \/ Vouched(link'[d])
    BY Doubting DEF Sure
  <1>3. \A c \in Player : player'[c] # Unknown => player'[c].ip \in doubtful' \/ Vouched(player'[c])
    BY Doubting DEF Sure
  <1>4. QED BY <1>1, <1>2, <1>3 DEF Vouching, Sure, Vouched

LEMMA Typed ==
    ASSUME DInv
    PROVE  /\ lookups \in Seq(Entry) /\ DOMAIN lookups = 1 .. Len(lookups) /\ Len(lookups) \in Nat
           /\ \A i \in DOMAIN lookups : /\ lookups[i] \in Entry /\ lookups[i].id \in Id /\ lookups[i].ip \in Ip
                                        /\ lookups[i].host \in Name \cup {Unknown} /\ lookups[i].ttl \in Nat \ {0}
           /\ \A e \in cache : e \in Entry /\ e.ip \in Ip /\ e.host \in Ip \cup Name \cup {Unknown} /\ e.ttl \in Nat \ {0}
           /\ \A d \in Link : link[d] # Unknown => link[d].ip \in Ip
  <1>1. lookups \in Seq(Entry) /\ cache \subseteq Entry /\ link \in [Link -> Shown] /\ Hosts
    BY DEF DInv, DnsTypeOK
  <1>2. DOMAIN lookups = 1 .. Len(lookups) /\ Len(lookups) \in Nat /\ \A i \in DOMAIN lookups : lookups[i] \in Entry
    BY <1>1
  <1>3. \A e \in Entry : e.id \in Id /\ e.ip \in Ip /\ e.ttl \in Nat \ {0}
    BY DEF Entry
  <1>4. \A e \in cache : e.host \in Ip \cup Name \cup {Unknown}
    BY <1>1 DEF Entry
  <1>5. \A d \in Link : link[d] # Unknown => link[d].ip \in Ip
    BY <1>1 DEF Shown
  <1>6. QED BY <1>1, <1>2, <1>3, <1>4, <1>5 DEF Hosts

LEMMA DoubtfulTyped ==
    ASSUME DInv, Doubts, lookups' \in Seq(Entry)
    PROVE  doubtful' \subseteq Ip
  <1>1. \A i \in DOMAIN lookups' : lookups'[i] \in Entry
    OBVIOUS
  <1>2. \A i \in DOMAIN lookups' : lookups'[i].ip \in Ip
    BY <1>1 DEF Entry
  <1>3. doubtful \subseteq Ip
    BY DEF DInv, DnsTypeOK
  <1>4. QED BY <1>2, <1>3, Doubting

-----------------------------------------------------------------------------
(* Lookups that are over leave the others as they were. *)

LEMMA Remaining ==
    ASSUME DInv, Doubts, NEW L \in Seq(Entry), NEW f \in [DOMAIN L -> DOMAIN lookups],
           \A j, k \in DOMAIN L : f[j] = f[k] => j = k,
           \A k \in DOMAIN L : L[k].id = lookups[f[k]].id /\ L[k].ip = lookups[f[k]].ip /\ L[k].host = lookups[f[k]].host,
           lookups' = L, net' = net
    PROVE  Ids' /\ Hosts' /\ Asked'
  <1>1. Ids'
    BY Doubting DEF DInv, Ids
  <1>2. Hosts'
    BY Doubting DEF DInv, Hosts
  <1>3. Asked'
    BY Doubting DEF DInv, Asked
  <1>4. QED BY <1>1, <1>2, <1>3

LEMMA SecondKeeps == ASSUME DInv, Doubts, Second PROVE DInv'
  <1> USE Constants
  <1>1. CASE ~up /\ retry = 1
    <2>1. lookups' = <<>> /\ cache' = {} /\ up' \in BOOLEAN /\ retry' = RetryTime /\ UNCHANGED <<net, link, player>>
      BY <1>1 DEF Second
    <2>2. DnsTypeOK'
      BY <2>1, DoubtfulTyped DEF DInv, DnsTypeOK
    <2>3. DOMAIN lookups' = {}
      BY <2>1
    <2>4. Ids' /\ Hosts' /\ Asked' /\ Apart' /\ Vouching'
      <3>1. Ids' /\ Hosts' /\ Asked' /\ Apart'
        BY <2>1, <2>3 DEF Ids, Hosts, Asked, Apart
      <3>2. Vouching'
        BY <2>1, StillSure DEF DInv, Vouching
      <3>3. QED BY <3>1, <3>2
    <2>5. Showing'
      BY <2>1 DEF DInv, Showing, Fits
    <2>6. QED BY <2>2, <2>4, <2>5 DEF DInv
  <1>2. CASE ~(~up /\ retry = 1)
    <2>1. /\ lookups' \in LeftOf(lookups) /\ cache' = {Older(e) : e \in {f \in cache : Left(f)}}
          /\ retry' = (IF up THEN retry ELSE retry - 1) /\ UNCHANGED <<up, net, link, player>>
      BY <1>2 DEF Second
    <2> DEFINE S == {i \in DOMAIN lookups : Left(lookups[i])}
    <2>2. S \in SUBSET (DOMAIN lookups) /\ S \subseteq 1 .. Len(lookups) /\ Cardinality(S) \in Nat
      <3>1. S \in SUBSET (DOMAIN lookups) /\ DOMAIN lookups = 1 .. Len(lookups) /\ Len(lookups) \in Int
        BY Typed
      <3>2. IsFiniteSet(1 .. Len(lookups))
        BY <3>1, FS_Interval
      <3> HIDE DEF S
      <3>3. IsFiniteSet(S)
        BY <3>1, <3>2, FS_Subset
      <3>4. QED BY <3>1, <3>3, FS_CardinalityType
    <2>3. PICK f \in InOrder(S) : lookups' = [k \in DOMAIN f |-> Older(lookups[f[k]])]
      BY <2>1 DEF LeftOf
    <2>4. /\ f \in [1 .. Cardinality(S) -> S] /\ DOMAIN f = 1 .. Cardinality(S)
          /\ \A j, k \in 1 .. Cardinality(S) : j < k => f[j] < f[k]
      BY <2>3 DEF InOrder
    <2>5. \A e \in Entry : Left(e) => /\ Older(e) \in Entry /\ Older(e).id = e.id /\ Older(e).ip = e.ip /\ Older(e).host = e.host
      BY DEF Entry, Left, Older
    <2>6. \A k \in 1 .. Cardinality(S) : f[k] \in DOMAIN lookups /\ Left(lookups[f[k]]) /\ lookups'[k] = Older(lookups[f[k]])
      BY <2>3, <2>4
    <2>7. \A k \in 1 .. Cardinality(S) : lookups'[k] \in Entry
      BY <2>5, <2>6, Typed
    <2>8. lookups' = [k \in 1 .. Cardinality(S) |-> lookups'[k]]
      BY <2>3, <2>4
    <2>9. lookups' \in Seq(Entry) /\ DOMAIN lookups' = 1 .. Cardinality(S)
      <3> HIDE DEF S
      <3>1. lookups' \in [1 .. Cardinality(S) -> Entry]
        BY <2>7, <2>8
      <3>2. QED BY <2>2, <3>1
    <2>10. \A j, k \in DOMAIN lookups' : f[j] = f[k] => j = k
      <3>1. \A j \in DOMAIN lookups' : f[j] \in Int
        BY <2>2, <2>4, <2>9
      <3> HIDE DEF S
      <3>2. SUFFICES ASSUME NEW j \in DOMAIN lookups', NEW k \in DOMAIN lookups', f[j] = f[k], j # k PROVE FALSE
        OBVIOUS
      <3>3. j \in Int /\ k \in Int
        BY <2>2, <2>9
      <3>4. j < k \/ k < j
        BY <3>2, <3>3
      <3>5. f[j] < f[k] \/ f[k] < f[j]
        BY <2>4, <2>9, <3>2, <3>4, Zenon
      <3>6. QED BY <3>1, <3>2, <3>5
    <2>11. Ids' /\ Hosts' /\ Asked'
      <3>1. f \in [DOMAIN lookups' -> DOMAIN lookups]
        BY <2>2, <2>4, <2>9
      <3>2. \A k \in DOMAIN lookups' : /\ lookups'[k].id = lookups[f[k]].id /\ lookups'[k].ip = lookups[f[k]].ip
                                       /\ lookups'[k].host = lookups[f[k]].host
        BY <2>5, <2>6, <2>9, Typed
      <3>3. net' = net
        BY <2>1
      <3> HIDE DEF S
      <3>4. QED BY <2>9, <2>10, <3>1, <3>2, <3>3, Remaining
    <2>12. \A e \in cache' : e \in Entry /\ \E f1 \in cache : e = Older(f1) /\ e.ip = f1.ip /\ e.host = f1.host
      BY <2>1, <2>5, Typed
    <2>13. \A k \in DOMAIN lookups' : \E i \in DOMAIN lookups : lookups'[k].ip = lookups[i].ip
      BY <2>5, <2>6, <2>9, Typed
    <2>14. DnsTypeOK'
      <3>1. retry' \in 1 .. RetryTime
        BY <1>2, <2>1 DEF DInv, DnsTypeOK
      <3>2. QED BY <2>1, <2>9, <2>12, <3>1, DoubtfulTyped DEF DInv, DnsTypeOK
    <2>15. Apart'
      <3>1. \A e, f1 \in cache' : e.ip = f1.ip => e = f1
        BY <2>12 DEF DInv, Apart
      <3>2. \A e \in cache', k \in DOMAIN lookups' : lookups'[k].ip # e.ip
        BY <2>12, <2>13 DEF DInv, Apart
      <3>3. QED BY <3>1, <3>2 DEF Apart
    <2>16. Vouching'
      <3>1. ASSUME NEW e \in cache' PROVE Sure(e)
        <4>1. PICK f1 \in cache : e.ip = f1.ip /\ e.host = f1.host
          BY <2>12
        <4>2. Sure(f1)
          BY DEF DInv, Vouching
        <4>3. QED BY <4>1, <4>2 DEF Sure, Vouched
      <3>2. QED BY <2>1, <3>1, StillSure DEF DInv, Vouching
    <2>17. \A s : Fits(s, cache) => Fits(s, cache')
      <3>1. SUFFICES ASSUME NEW s, Fits(s, cache), s # Unknown, NEW e \in cache', e.ip = s.ip PROVE s.host = e.host
        BY DEF Fits
      <3>2. PICK f1 \in cache : e.ip = f1.ip /\ e.host = f1.host
        BY <2>12
      <3>3. QED BY <3>1, <3>2 DEF Fits
    <2>18. Showing'
      BY <2>1, <2>17 DEF DInv, Showing
    <2>19. QED BY <2>11, <2>14, <2>15, <2>16, <2>18 DEF DInv
  <1>3. QED BY <1>1, <1>2

\* Nothing has come of a step but questions and answers lost, and links.
LEMMA Keeping ==
    ASSUME DInv, Doubts, UNCHANGED <<lookups, cache>>, net' \subseteq net, up' \in BOOLEAN, retry' = retry,
           link' \in [Link -> Shown], player' \in [Player -> Shown], Showing',
           \A d \in Link : link'[d] # Unknown => Sure(link'[d]), \A c \in Player : player'[c] # Unknown => Sure(player'[c])
    PROVE  DInv'
  <1>1. DnsTypeOK'
    BY DoubtfulTyped DEF DInv, DnsTypeOK
  <1>2. Ids' /\ Hosts' /\ Apart'
    BY Doubting DEF DInv, Ids, Hosts, Apart
  <1>3. Asked'
    BY Doubting DEF DInv, Asked
  <1>4. Vouching'
    BY StillSure DEF DInv, Vouching
  <1>5. QED BY <1>1, <1>2, <1>3, <1>4 DEF DInv

LEMMA NetKeeps ==
    ASSUME DInv, Doubts,
           (\E q \in net : Lose(q)) \/ Break \/ (\E d \in Link : CloseSocket(d)) \/ (\E c \in Player : Leave(c))
    PROVE  DInv'
  <1> USE Constants
  <1>1. /\ up \in BOOLEAN /\ link \in [Link -> Shown] /\ player \in [Player -> Shown] /\ Showing /\ Unknown \in Shown
        /\ (\A d \in Link : link[d] # Unknown => Sure(link[d])) /\ (\A c \in Player : player[c] # Unknown => Sure(player[c]))
    BY DEF DInv, DnsTypeOK, Vouching, Shown
  <1>2. CASE \E q \in net : Lose(q)
    BY <1>1, <1>2, Keeping DEF Lose, Showing
  <1>3. CASE Break
    BY <1>1, <1>3, Keeping DEF Break, Showing
  <1>4. CASE \E d \in Link : CloseSocket(d)
    <2>1. PICK d \in Link : CloseSocket(d)
      BY <1>4
    <2>2. link' = [link EXCEPT ![d] = Unknown] /\ UNCHANGED <<lookups, cache, net, up, retry, player>>
      BY <2>1 DEF CloseSocket
    <2>3. link' \in [Link -> Shown] /\ \A k \in Link : link'[k] # Unknown => Sure(link'[k])
      BY <1>1, <2>2
    <2>4. Showing'
      BY <1>1, <2>2 DEF Showing, Fits
    <2>5. QED BY <1>1, <2>2, <2>3, <2>4, Keeping
  <1>5. CASE \E c \in Player : Leave(c)
    <2>1. PICK c \in Player : Leave(c)
      BY <1>5
    <2>2. player' = [player EXCEPT ![c] = Unknown] /\ UNCHANGED <<lookups, cache, net, up, retry, link>>
      BY <2>1 DEF Leave
    <2>3. player' \in [Player -> Shown] /\ \A k \in Player : player'[k] # Unknown => Sure(player'[k])
      BY <1>1, <2>2
    <2>4. Showing'
      BY <1>1, <2>2 DEF Showing, Fits
    <2>5. QED BY <1>1, <2>2, <2>3, <2>4, Keeping
  <1>6. QED BY <1>2, <1>3, <1>4, <1>5

LEMMA NewDescriptorKeeps == ASSUME DInv, Doubts, NEW d \in Link, NEW i \in Ip, NewDescriptor(d, i) PROVE DInv'
  <1> USE Constants
  <1> DEFINE s == [ip |-> i, host |-> Known(i)]
  <1>1. link' = [link EXCEPT ![d] = s] /\ UNCHANGED <<lookups, cache, net, up, retry, player>>
    BY DEF NewDescriptor
  <1>2. Fits(s, cache) /\ Sure(s) /\ s \in Shown
    <2>1. CASE \E e \in cache : e.ip = i
      <3>1. PICK e \in cache : e.ip = i /\ Known(i) = e.host
        BY <2>1 DEF Known
      <3>2. e.host \in Ip \cup Name \cup {Unknown} /\ Sure(e) /\ \A f \in cache : f.ip = i => f = e
        BY <3>1, Typed DEF DInv, Vouching, Apart
      <3>3. QED BY <3>1, <3>2 DEF Fits, Sure, Vouched, Shown
    <2>2. CASE ~ \E e \in cache : e.ip = i
      BY <2>2 DEF Known, Fits, Sure, Vouched, Shown
    <2>3. QED BY <2>1, <2>2
  <1> HIDE DEF s
  <1>3. /\ up \in BOOLEAN /\ link \in [Link -> Shown] /\ player \in [Player -> Shown] /\ Showing
        /\ (\A k \in Link : link[k] # Unknown => Sure(link[k])) /\ (\A c \in Player : player[c] # Unknown => Sure(player[c]))
    BY DEF DInv, DnsTypeOK, Vouching
  <1>4. link' \in [Link -> Shown] /\ \A k \in Link : link'[k] # Unknown => Sure(link'[k])
    BY <1>1, <1>2, <1>3
  <1>5. Showing'
    BY <1>1, <1>2, <1>3 DEF Showing
  <1>6. QED BY <1>1, <1>3, <1>4, <1>5, Keeping

\* An address is asked about.
LEMMA ExecKeeps ==
    ASSUME DInv, Doubts, NEW x \in Ip, Exec(x), UNCHANGED <<cache, up, retry, link>>, player' \in [Player -> Shown], Showing',
           \A c \in Player : player'[c] # Unknown => Sure(player'[c])
    PROVE  DInv'
  <1> USE Constants
  <1>1. /\ cache' \subseteq Entry /\ up' \in BOOLEAN /\ retry' \in 1 .. RetryTime /\ link' \in [Link -> Shown]
        /\ \A d \in Link : link'[d] # Unknown => Sure(link'[d])
        /\ \A e \in cache' : Sure(e)
    BY DEF DInv, DnsTypeOK, Vouching
  <1>2. Vouching'
    BY <1>1, StillSure
  <1>3. CASE \E e \in cache : Matches(e, x)
    <2>1. UNCHANGED <<lookups, net>>
      BY <1>3 DEF Exec
    <2>2. QED BY <1>1, <2>1, Keeping
  <1>4. CASE ~(\E e \in cache : Matches(e, x)) /\ UnderWay(lookups, x) # {}
    <2> DEFINE k == Least(UnderWay(lookups, x))
               q == [id |-> lookups[k].id, about |-> x]
    <2>1. Ask(lookups[k].id, x) /\ UNCHANGED lookups
      BY <1>4 DEF Exec, AskAgain
    <2>2. k \in DOMAIN lookups /\ lookups[k].ip = x
      <3>1. UnderWay(lookups, x) \in SUBSET Nat
        BY Typed DEF UnderWay
      <3>2. k \in UnderWay(lookups, x)
        BY <1>4, <3>1, LeastIn
      <3> HIDE DEF k
      <3>3. k \in DOMAIN lookups /\ x \in {lookups[k].ip, lookups[k].host}
        BY <3>2 DEF UnderWay, Matches
      <3>4. QED BY <3>3, Typed
    <2> HIDE DEF k
    <2>3. net' \subseteq net \cup {q} /\ q.id = lookups[k].id /\ q.about = x /\ q \in [id : Id, about : Ip \cup Name]
      BY <2>1, <2>2, Typed DEF Ask
    <2> HIDE DEF q
    <2>4. DnsTypeOK'
      BY <1>1, <2>1, <2>3, DoubtfulTyped DEF DInv, DnsTypeOK
    <2>5. Ids' /\ Hosts' /\ Apart'
      BY <2>1, Doubting DEF DInv, Ids, Hosts, Apart
    <2>6. Asked'
      <3>1. ASSUME NEW p \in net', NEW i \in DOMAIN lookups, lookups[i].id = p.id, lookups[i].ip \notin doubtful
            PROVE  Trail(lookups[i].ip, p.about) /\ (p.about \in Name => lookups[i].host # Unknown)
        <4>1. CASE p \in net
          BY <3>1, <4>1 DEF DInv, Asked
        <4>2. CASE p = q
          <5>1. i = k
            BY <2>2, <2>3, <3>1, <4>2 DEF DInv, Ids
          <5>2. Trail(x, x)
            BY DEF Trail
          <5>3. QED BY <2>2, <2>3, <4>2, <5>1, <5>2
        <4>3. QED BY <2>3, <4>1, <4>2
      <3>2. QED BY <2>1, <3>1, Doubting DEF Asked
    <2>7. QED BY <1>2, <2>4, <2>5, <2>6 DEF DInv
  <1>5. CASE ~(\E e \in cache : Matches(e, x)) /\ UnderWay(lookups, x) = {}
    <2>1. PICK id \in Id : Ask(id, x) /\ lookups' = Append(lookups, [id |-> id, ip |-> x, host |-> Unknown, ttl |-> LookupTime])
      BY <1>5 DEF Exec, AskFirst
    <2> DEFINE new == [id |-> id, ip |-> x, host |-> Unknown, ttl |-> LookupTime]
               q == [id |-> id, about |-> x]
               n == Len(lookups) + 1
    <2>2. /\ new \in Entry /\ new.id = id /\ new.ip = x /\ new.host = Unknown /\ q.id = id /\ q.about = x
          /\ q \in [id : Id, about : Ip \cup Name] /\ net' \subseteq net \cup {q}
      BY <2>1 DEF Entry, Ask
    <2>3. /\ lookups' \in Seq(Entry) /\ DOMAIN lookups' = DOMAIN lookups \cup {n} /\ lookups'[n] = new
          /\ \A i \in DOMAIN lookups : i # n /\ lookups'[i] = lookups[i]
      BY <2>1, <2>2, Typed
    <2> HIDE DEF new, q, n
    <2>4. \A i \in DOMAIN lookups : lookups[i].ip # x
      BY <1>5 DEF UnderWay, Matches
    <2>5. DnsTypeOK'
      BY <1>1, <2>2, <2>3, DoubtfulTyped DEF DInv, DnsTypeOK
    <2>6. Ids'
      <3>1. \A i, j \in DOMAIN lookups' : lookups'[i].ip = lookups'[j].ip => i = j
        BY <2>2, <2>3, <2>4 DEF DInv, Ids
      <3>2. QED BY <3>1, Doubting DEF Ids
    <2>7. Hosts'
      BY <2>2, <2>3, Doubting DEF DInv, Hosts
    <2>8. Asked'
      <3>1. ASSUME NEW p \in net', NEW i \in DOMAIN lookups', lookups'[i].id = p.id, lookups'[i].ip \notin doubtful'
            PROVE  Trail(lookups'[i].ip, p.about) /\ (p.about \in Name => lookups'[i].host # Unknown)
        <4>1. lookups'[i].ip \notin doubtful /\ \A j \in DOMAIN lookups' : lookups'[j].id = lookups'[i].id => j = i
          BY <3>1, Doubting
        <4>2. CASE p \in net /\ i # n
          BY <2>3, <3>1, <4>1, <4>2 DEF DInv, Asked
        <4>3. CASE p \in net /\ i = n
          <5>1. \A r \in net : r.id # lookups'[i].id
            BY <2>2, <2>3, <2>4, <3>1, <4>3, Doubting
          <5>2. QED BY <3>1, <4>3, <5>1
        <4>4. CASE p = q
          <5>1. i = n /\ lookups'[i].ip = x
            BY <2>2, <2>3, <3>1, <4>1, <4>4
          <5>2. Trail(x, x)
            BY DEF Trail
          <5>3. QED BY <2>2, <4>4, <5>1, <5>2
        <4>5. QED BY <2>2, <3>1, <4>2, <4>3, <4>4
      <3>2. QED BY <3>1 DEF Asked
    <2>9. Apart'
      BY <1>5, <2>2, <2>3 DEF DInv, Apart, Matches
    <2>10. QED BY <1>2, <2>5, <2>6, <2>7, <2>8, <2>9 DEF DInv
  <1>6. QED BY <1>3, <1>4, <1>5

LEMMA EnterKeeps ==
    ASSUME DInv, Doubts, NEW d \in Link, ArriveGreen(d) \/ \E c \in Player : Arrive(d, c)
    PROVE  DInv'
  <1>1. link[d] # Unknown /\ link[d].ip \in Ip /\ Exec(link[d].ip) /\ UNCHANGED <<cache, up, retry, link>>
    BY Typed DEF Arrive, ArriveGreen
  <1>2. /\ link[d] \in Shown /\ player \in [Player -> Shown] /\ Showing /\ Sure(link[d])
        /\ \A c \in Player : player[c] # Unknown => Sure(player[c])
    BY <1>1 DEF DInv, DnsTypeOK, Vouching
  <1>3. CASE ArriveGreen(d)
    <2>1. player' = player
      BY <1>3 DEF ArriveGreen
    <2>2. QED BY <1>1, <1>2, <2>1, ExecKeeps DEF Showing
  <1>4. ASSUME NEW c \in Player, Arrive(d, c) PROVE DInv'
    <2>1. player' = [player EXCEPT ![c] = link[d]]
      BY <1>4 DEF Arrive
    <2>2. player' \in [Player -> Shown] /\ \A k \in Player : player'[k] # Unknown => Sure(player'[k])
      BY <1>2, <2>1
    <2>3. Showing'
      BY <1>1, <1>2, <2>1 DEF Showing
    <2>4. QED BY <1>1, <2>2, <2>3, ExecKeeps
  <1>5. QED BY <1>3, <1>4

LEMMA NameKeeps ==
    ASSUME DInv, Doubts, NEW q \in net, NEW i \in DOMAIN lookups, lookups[i].id = q.id,
           Says[q.about] \in Name, GotName(i, Says[q.about]), UNCHANGED <<up, retry>>
    PROVE  DInv'
  <1> USE Constants
  <1> DEFINE n == Says[q.about]
             L == [lookups EXCEPT ![i].host = n]
  <1>1. /\ lookups' = L /\ UNCHANGED <<cache, link, player>>
        /\ net' = net \/ Ask(L[Least(UnderWay(L, n))].id, n)
    BY DEF GotName
  <1>2. n \in Name /\ (lookups[i].ip \notin doubtful => Trail(lookups[i].ip, n))
    BY TrailOn DEF DInv, Asked
  <1> HIDE DEF n
  <1>3. /\ L \in Seq(Entry) /\ DOMAIN L = DOMAIN lookups /\ L[i].host = n
        /\ \A k \in DOMAIN lookups : L[k].id = lookups[k].id /\ L[k].ip = lookups[k].ip /\ (k # i => L[k].host = lookups[k].host)
    <2>1. lookups[i] \in Entry
      BY Typed
    <2>2. [lookups[i] EXCEPT !.host = n] \in Entry
      BY <1>2, <2>1 DEF Entry
    <2>3. L = [lookups EXCEPT ![i] = [lookups[i] EXCEPT !.host = n]]
      OBVIOUS
    <2>4. QED BY <2>1, <2>2, <2>3, Typed DEF Entry
  <1> HIDE DEF L
  <1>4. Ids' /\ Hosts' /\ Apart' /\ Vouching' /\ Showing'
    <2>1. Ids'
      BY <1>1, <1>3, Doubting DEF DInv, Ids
    <2>2. Hosts'
      BY <1>1, <1>2, <1>3, Doubting DEF DInv, Hosts
    <2>3. Apart'
      BY <1>1, <1>3 DEF DInv, Apart
    <2>4. Vouching' /\ Showing'
      BY <1>1, StillSure DEF DInv, Vouching, Showing
    <2>5. QED BY <2>1, <2>2, <2>3, <2>4
  <1> DEFINE k == Least(UnderWay(L, n))
             p == [id |-> L[k].id, about |-> n]
  <1>5. k \in DOMAIN L /\ L[k].host = n
    <2>1. UnderWay(L, n) \in SUBSET Nat
      BY <1>3, Typed DEF UnderWay
    <2>2. i \in UnderWay(L, n)
      BY <1>3 DEF UnderWay, Matches
    <2>3. k \in UnderWay(L, n)
      BY <2>1, <2>2, LeastIn
    <2> HIDE DEF k
    <2>4. k \in DOMAIN L /\ n \in {L[k].ip, L[k].host}
      BY <2>3 DEF UnderWay, Matches
    <2>5. QED BY <1>2, <1>3, <2>4, Typed
  <1> HIDE DEF k
  <1>6. net' \subseteq net \cup {p} /\ p.id = L[k].id /\ p.about = n /\ p \in [id : Id, about : Ip \cup Name]
    BY <1>1, <1>2, <1>3, <1>5, Typed DEF Ask, k
  <1> HIDE DEF p
  <1>7. DnsTypeOK'
    BY <1>1, <1>3, <1>6, DoubtfulTyped DEF DInv, DnsTypeOK
  <1>8. Asked'
    <2>1. ASSUME NEW r \in net', NEW j \in DOMAIN L, L[j].id = r.id, L[j].ip \notin doubtful'
          PROVE  Trail(L[j].ip, r.about) /\ (r.about \in Name => L[j].host # Unknown)
      <3> USE <1>1, <2>1
      <3>0. L[j].ip \notin doubtful
        BY Doubting
      <3>1. CASE r \in net
        <4>1. Trail(lookups[j].ip, r.about) /\ (r.about \in Name => lookups[j].host # Unknown)
          BY <1>3, <2>1, <3>0, <3>1 DEF DInv, Asked
        <4>2. QED BY <1>2, <1>3, <4>1
      <3>2. CASE r = p
        <4>1. j = k
          BY <1>3, <1>5, <1>6, <2>1, <3>0, <3>2 DEF DInv, Ids
        <4>2. Trail(L[k].ip, n)
          BY <1>1, <1>2, <1>4, <1>5, <4>1 DEF Hosts
        <4>3. QED BY <1>2, <1>5, <1>6, <3>2, <4>1, <4>2
      <3>3. QED BY <1>6, <3>1, <3>2
    <2>2. QED BY <1>1, <2>1 DEF Asked
  <1>9. QED BY <1>4, <1>7, <1>8 DEF DInv

Without(L, i) == SubSeq(L, 1, i - 1) \o SubSeq(L, i + 1, Len(L))

LEMMA WithoutOne ==
    ASSUME NEW S, NEW L \in Seq(S), NEW i \in DOMAIN L
    PROVE  /\ Without(L, i) \in Seq(S) /\ DOMAIN Without(L, i) = 1 .. Len(L) - 1
           /\ \A k \in 1 .. Len(L) - 1 : Without(L, i)[k] = L[IF k < i THEN k ELSE k + 1]
  <1> DEFINE l == SubSeq(L, 1, i - 1)
             r == SubSeq(L, i + 1, Len(L))
  <1>1. Len(L) \in Nat /\ i \in 1 .. Len(L)
    OBVIOUS
  <1>2. l \in Seq(S) /\ Len(l) = i - 1 /\ \A k \in 1 .. i - 1 : l[k] = L[k]
    BY <1>1
  <1>3. r \in Seq(S) /\ Len(r) = Len(L) - i /\ \A k \in 1 .. Len(L) - i : r[k] = L[k + i]
    BY <1>1
  <1> HIDE DEF l, r
  <1>4. l \o r \in Seq(S) /\ Len(l \o r) = Len(L) - 1
    BY <1>1, <1>2, <1>3
  <1>5. \A k \in 1 .. Len(L) - 1 : (l \o r)[k] = L[IF k < i THEN k ELSE k + 1]
    <2>1. SUFFICES ASSUME NEW k \in 1 .. Len(L) - 1 PROVE (l \o r)[k] = L[IF k < i THEN k ELSE k + 1]
      OBVIOUS
    <2>2. CASE k < i
      BY <1>1, <1>2, <1>3, <2>2
    <2>3. CASE ~(k < i)
      <3>1. (l \o r)[k] = r[k - (i - 1)] /\ k - (i - 1) \in 1 .. Len(L) - i
        BY <1>1, <1>2, <1>3, <2>3, SMTT(40)
      <3>2. r[k - (i - 1)] = L[(k - (i - 1)) + i] /\ (k - (i - 1)) + i = k + 1
        BY <1>1, <1>3, <3>1
      <3>3. QED BY <2>3, <3>1, <3>2
    <2>4. QED BY <2>2, <2>3
  <1>6. Without(L, i) = l \o r
    BY DEF Without, l, r
  <1>7. DOMAIN (l \o r) = 1 .. Len(L) - 1
    BY <1>4
  <1>8. QED BY <1>4, <1>5, <1>6, <1>7

LEMMA AddressKeeps ==
    ASSUME DInv, Doubts, NEW q \in net, NEW i \in DOMAIN lookups, lookups[i].id = q.id,
           Says[q.about] # Unknown, Says[q.about] \notin Name, GotAddress(i, Says[q.about]), UNCHANGED <<up, retry>>
    PROVE  DInv'
  <1> USE Constants
  <1> DEFINE a == Says[q.about]
             x == lookups[i]
             e == Confirmed(x, a)
             L == Without(lookups, i)
  <1>1. /\ lookups' = L /\ cache' = cache \cup {e} /\ net' = net
        /\ link' = [d \in Link |-> Renamed(link[d], e)] /\ player' = [c \in Player |-> Renamed(player[c], e)]
    BY DEF GotAddress, Without
  <1>2. /\ L \in Seq(Entry) /\ DOMAIN L = 1 .. Len(lookups) - 1
        /\ \A k \in DOMAIN L : L[k] = lookups[IF k < i THEN k ELSE k + 1]
    <2>1. lookups \in Seq(Entry)
      BY Typed
    <2>2. /\ L \in Seq(Entry) /\ DOMAIN L = 1 .. Len(lookups) - 1
          /\ \A k \in 1 .. Len(lookups) - 1 : L[k] = lookups[IF k < i THEN k ELSE k + 1]
      BY <2>1, WithoutOne, Zenon
    <2>3. QED BY <2>2, Zenon
  <1>3. x \in Entry /\ x.ip \in Ip /\ x.host \in Name \cup {Unknown}
    BY Typed
  <1>4. q.about \in Name /\ a \in Ip
    <2>1. q.about \in Ip \cup Name /\ a \in Ip
      BY DEF DInv, DnsTypeOK
    <2>2. QED BY <2>1
  <1>5. e \in Entry /\ e.ip = x.ip /\ Sure(e) /\ e.host \in Ip \cup Name \cup {Unknown}
    <2>1. CASE a = x.ip
      <3>1. e = [x EXCEPT !.ttl = GoodTime]
        BY <2>1 DEF Confirmed
      <3>2. x.ip \in doubtful \/ (x.host \in Name /\ Trail(x.ip, x.host) /\ Trail(x.ip, q.about))
        BY <1>3, <1>4 DEF DInv, Hosts, Asked
      <3>3. x.ip \in doubtful \/ (x.host \in Name /\ LeadsTo(x.host, x.ip))
        BY <1>3, <1>4, <2>1, <3>2, Agrees
      <3>4. QED BY <1>3, <3>1, <3>3 DEF Entry, Sure, Vouched
    <2>2. CASE a # x.ip
      <3>1. e = [x EXCEPT !.ttl = BadTime, !.host = x.ip]
        BY <2>2 DEF Confirmed
      <3>2. QED BY <1>3, <3>1 DEF Entry, Sure, Vouched
    <2>3. QED BY <2>1, <2>2
  <1> HIDE DEF L, e, a
  <1>6. Ids' /\ Hosts' /\ Asked'
    <2> DEFINE f == [k \in DOMAIN L |-> IF k < i THEN k ELSE k + 1]
    <2>1. DOMAIN lookups = 1 .. Len(lookups) /\ Len(lookups) \in Nat
      BY Typed
    <2>2. f \in [DOMAIN L -> DOMAIN lookups] /\ \A k \in DOMAIN L : L[k] = lookups[f[k]]
      BY <1>2, <2>1
    <2>3. \A j, k \in DOMAIN L : f[j] = f[k] => j = k
      BY <1>2, <2>1
    <2>4. \A k \in DOMAIN L : /\ L[k].id = lookups[f[k]].id /\ L[k].ip = lookups[f[k]].ip /\ L[k].host = lookups[f[k]].host
      BY <2>2
    <2> HIDE DEF f
    <2>5. QED BY <1>1, <1>2, <2>2, <2>3, <2>4, Remaining
  <1>7. \A k \in DOMAIN L : \E j \in DOMAIN lookups \ {i} : L[k] = lookups[j]
    <2>1. DOMAIN lookups = 1 .. Len(lookups) /\ Len(lookups) \in Nat
      BY Typed
    <2>2. ASSUME NEW k \in DOMAIN L PROVE (IF k < i THEN k ELSE k + 1) \in DOMAIN lookups \ {i}
      BY <1>2, <2>1
    <2>3. QED BY <1>2, <2>2
  <1>8. \A f \in cache : f.ip # e.ip
    BY <1>5 DEF DInv, Apart
  <1>9. Apart'
    <2>1. \A k \in DOMAIN L : L[k].ip # e.ip /\ \A f \in cache : L[k].ip # f.ip
      BY <1>5, <1>7 DEF DInv, Ids, Apart
    <2>2. \A f, g \in cache \cup {e} : f.ip = g.ip => f = g
      BY <1>8 DEF DInv, Apart
    <2>3. QED BY <1>1, <2>1, <2>2 DEF Apart
  <1>11. ASSUME NEW s, s \in Shown, Fits(s, cache), s # Unknown => Sure(s)
         PROVE  /\ Renamed(s, e) \in Shown /\ Fits(Renamed(s, e), cache \cup {e})
                /\ Renamed(s, e) # Unknown => Sure(Renamed(s, e))
    <2>1. CASE s # Unknown /\ s.ip = e.ip
      <3>1. s \in [ip : Ip, host : Ip \cup Name \cup {Unknown}]
        BY <1>11, <2>1 DEF Shown
      <3>2. Renamed(s, e) = [s EXCEPT !.host = e.host]
        BY <2>1 DEF Renamed
      <3>3. /\ Renamed(s, e) \in [ip : Ip, host : Ip \cup Name \cup {Unknown}]
            /\ Renamed(s, e).host = e.host /\ Renamed(s, e).ip = e.ip
        BY <1>5, <2>1, <3>1, <3>2
      <3>4. Sure(Renamed(s, e))
        BY <1>5, <3>3 DEF Sure, Vouched
      <3>5. QED BY <1>8, <3>3, <3>4 DEF Fits, Shown
    <2>2. CASE ~(s # Unknown /\ s.ip = e.ip)
      BY <1>11, <2>2 DEF Renamed, Fits
    <2>3. QED BY <2>1, <2>2
  <1>12. Showing'
    BY <1>1, <1>11 DEF DInv, DnsTypeOK, Vouching, Showing
  <1>10. Vouching'
    <2>1. (\A d \in Link : link'[d] # Unknown => Sure(link'[d])) /\ (\A c \in Player : player'[c] # Unknown => Sure(player'[c]))
      BY <1>1, <1>11 DEF DInv, DnsTypeOK, Vouching, Showing
    <2>2. \A f \in cache' : Sure(f)
      BY <1>1, <1>5 DEF DInv, Vouching
    <2>3. QED BY <2>1, <2>2, StillSure
  <1>13. DnsTypeOK'
    <2>1. link' \in [Link -> Shown] /\ player' \in [Player -> Shown]
      BY <1>1, <1>11 DEF DInv, DnsTypeOK, Vouching, Showing
    <2>2. QED BY <1>1, <1>2, <1>5, <2>1, DoubtfulTyped DEF DInv, DnsTypeOK
  <1>14. QED BY <1>6, <1>9, <1>10, <1>12, <1>13 DEF DInv

LEMMA AnswerKeeps == ASSUME DInv, Doubts, NEW q \in net, Answer(q) PROVE DInv'
  <1> DEFINE I == {i \in DOMAIN lookups : lookups[i].id = q.id}
  <1>1. /\ I # {} /\ Says[q.about] # Unknown /\ UNCHANGED <<up, retry>>
        /\ IF Says[q.about] \in Name THEN GotName(Least(I), Says[q.about]) ELSE GotAddress(Least(I), Says[q.about])
    BY DEF Answer
  <1>2. Least(I) \in I
    <2>1. I \in SUBSET Nat
      BY Typed
    <2> HIDE DEF I
    <2>2. QED BY <1>1, <2>1, LeastIn
  <1>3. Least(I) \in DOMAIN lookups /\ lookups[Least(I)].id = q.id
    <2> DEFINE i == Least(I)
    <2>1. i \in I
      BY <1>2
    <2> HIDE DEF i
    <2>2. i \in DOMAIN lookups /\ lookups[i].id = q.id
      BY <2>1
    <2>3. QED BY <2>2 DEF i
  <1> HIDE DEF I
  <1>4. QED BY <1>1, <1>3, NameKeeps, AddressKeeps

-----------------------------------------------------------------------------
(* The two share the clock and the links. *)

GInv == DInv /\ CInv

LEMMA GateKeeps == ASSUME GInv, GateNext PROVE GInv'
  <1> USE DEF GInv
  <1>1. CASE Clock
    BY <1>1, SecondKeeps, TickCounts DEF Clock
  <1>2. CASE Net /\ UNCHANGED <<counts, inside>> /\ Doubts
    <2>1. CInv'
      BY <1>2 DEF CInv, counts, A!CountDeserved, A!TypeOK, A!Expired, OneEntry
    <2>2. DInv'
      BY <1>2, AnswerKeeps, NetKeeps, NewDescriptorKeeps DEF Net
    <2>3. QED BY <2>1, <2>2
  <1>3. ASSUME NEW d \in Link, Refused(d), Doubts PROVE GInv'
    BY <1>3, NetKeeps, RefuseCounts, Typed DEF Refused, AtPassword
  <1>4. ASSUME NEW d \in Link, Wrong(d), Doubts PROVE GInv'
    BY <1>4, NetKeeps, FailCounts, Typed DEF Wrong, AtPassword
  <1>5. ASSUME NEW d \in Link, HungUp(d), Doubts PROVE GInv'
    <2>1. CInv'
      BY <1>5 DEF HungUp, CInv, counts, A!CountDeserved, A!TypeOK, A!Expired, OneEntry
    <2>2. DInv'
      BY <1>5, NetKeeps DEF HungUp
    <2>3. QED BY <2>1, <2>2
  <1>6. ASSUME NEW d \in Link, NEW c \in Player, LogIn(d, c), Doubts PROVE GInv'
    BY <1>6, EnterKeeps, SucceedCounts, Typed DEF LogIn, AtPassword
  <1>7. ASSUME NEW d \in Link, LogInGreen(d), Doubts PROVE GInv'
    <2>1. DInv'
      BY <1>7, EnterKeeps DEF LogInGreen
    <2>2. CASE A!Succeed(link[d].ip)
      BY <1>7, <2>1, <2>2, SucceedCounts, Typed DEF LogInGreen, AtPassword
    <2>3. CASE UNCHANGED counts
      <3>1. CInv'
        BY <2>3 DEF CInv, counts, A!CountDeserved, A!TypeOK, A!Expired, OneEntry
      <3>2. QED BY <2>1, <3>1
    <2>4. QED BY <1>7, <2>2, <2>3 DEF LogInGreen
  <1>8. QED BY <1>1, <1>2, <1>3, <1>4, <1>5, <1>6, <1>7 DEF GateNext

LEMMA GateIdles == ASSUME GInv, UNCHANGED gateVars PROVE GInv'
  <1> USE DEF gateVars, dnsVars
  <1>1. CInv'
    BY DEF GInv, CInv, A!CountDeserved, A!TypeOK, A!Expired, OneEntry
  <1>2. DnsTypeOK' /\ Ids' /\ Hosts' /\ Asked'
    BY DEF GInv, DInv, DnsTypeOK, Ids, Hosts, Asked
  <1>3. Apart' /\ Vouching' /\ Showing'
    BY DEF GInv, DInv, Apart, Vouching, Sure, Vouched, Showing
  <1>4. QED BY <1>1, <1>2, <1>3 DEF GInv, DInv

LEMMA GateInvariant == GateSpec => []GInv
  <1>1. GateInit => GInv
    BY DFirst, CountsFirst DEF GateInit, GInv
  <1>2. GInv /\ [GateNext]_gateVars => GInv'
    BY GateKeeps, GateIdles
  <1>3. QED BY <1>1, <1>2, PTL DEF GateSpec

\* No answer, however late or repeated, and whatever numbers are drawn, makes anybody
\* known by a name that is not his address's own (dns.c:609-640), unless a lookup of that
\* address shared its number (dns.c:166), for a name server of any fixed answers and
\* however many ask.
THEOREM GateNamesVerified == GateSpec => []NamesVerified
  <1>1. GInv => NamesVerified
    BY DInvNames DEF GInv
  <1>2. QED BY <1>1, GateInvariant, PTL

\* Nobody pays for another's wrong passwords, or for those of long ago
\* (comm.c:636-692), with a table of any size that links of any number share.
THEOREM GateCountDeserved == GateSpec => []CountDeserved
  <1>1. GInv => CountDeserved
    BY DEF GInv, CInv, CountDeserved
  <1>2. QED BY <1>1, GateInvariant, PTL
=============================================================================
