--------------------------- MODULE Writing_proofs ---------------------------
(***************************************************************************)
(* Proofs about Writing, for any number of writers, messages and notes.  A   *)
(* session is broken off, finished and saved by different functions; what    *)
(* they must not lose is told by four parts: who has a session, what it      *)
(* points into, which notes are nobody's yet, and what a boot would read.    *)
(***************************************************************************)
EXTENDS Writing, TLAPS

\* Who is writing has a session; the others were left.  No two are of one person or one text.
Sessions ==
    /\ \A p \in Player : Writes(p) <=> \E b \in bufs : b.ch = p /\ ~b.left
    /\ \A b, c \in bufs : b.ch = c.ch \/ b.of = c.of => b = c

\* What a session points into, and that an edit can be undone.
Pointing ==
    \A b \in bufs :
        IF b.kind = "note" THEN /\ b.of \in DOMAIN note \ notes /\ pnote[b.ch] \in {b.of, Nil}
                                /\ ~b.left => pnote[b.ch] = b.of
        ELSE /\ b.of \in DOMAIN board /\ (~b.left => board[b.of].author = b.ch)
             /\ b.kind = "edit" => b.orig = board[b.of].text

\* ch->pnote is a note that is in no list, and nobody else's, and of one who is in the game.
Unsent ==
    /\ notes \subseteq DOMAIN note
    /\ \A p \in Player : pnote[p] # Nil => pnote[p] \in DOMAIN note \ notes /\ pos[p] # Nil
    /\ \A p, q \in Player : pnote[p] = pnote[q] => p = q \/ pnote[p] = Nil

\* What a boot would read: no message without a text.
OnDisk ==
    /\ disk = [board |-> disk.board, notes |-> disk.notes]
    /\ DOMAIN disk.board \subseteq Message /\ disk.board \in [DOMAIN disk.board -> [author : Player, text : Text]]
    /\ disk.notes \in [DOMAIN disk.notes -> [from : Player, to : Player, text : Texts, unread : BOOLEAN]]

IInv == Careful /\ TypeOK /\ Sessions /\ Pointing /\ Unsent /\ NoneUnwritten /\ FinishedSurvives /\ OnDisk

Session0 == [ch : Player, kind : {"write", "edit", "note"}, of : Message \cup Note, text : Text, orig : Text,
             left : BOOLEAN]

LEMMA Typing ==
    ASSUME IInv
    PROVE  /\ pos \in [Player -> {"standing", "writing", "fighting", Nil}] /\ known \subseteq Player
           /\ bufs \subseteq Session0
           /\ DOMAIN board \subseteq Message /\ board \in [DOMAIN board -> [author : Player, text : Text \cup {Nil}]]
           /\ DOMAIN note \subseteq Note
           /\ note \in [DOMAIN note -> [from : Player, to : Player, text : Text \cup {Nil}, unread : BOOLEAN]]
           /\ pnote \in [Player -> Note \cup {Nil}] /\ notes \subseteq Note
           /\ unsaved \subseteq Message /\ Careful
           /\ Boss \subseteq Player /\ Nil \notin Player /\ Nil \notin Message /\ Nil \notin Note /\ Nil \notin Text
           /\ Message \cap Note = {} /\ Empty \in Text /\ Nil # "standing" /\ Nil # "writing" /\ Nil # "fighting"
  BY WritingAssumption DEF IInv, TypeOK, Texts, Session0

\* The session of somebody, if he has one.
LEMMA TheSession ==
    ASSUME IInv, NEW p \in Player, \E b \in bufs : b.ch = p
    PROVE  /\ Session(p) \in bufs /\ Session(p).ch = p
           /\ \A b \in bufs : b.ch = p => b = Session(p)
           /\ \A b \in bufs : b.of = Session(p).of => b = Session(p)
           /\ Writes(p) <=> ~Session(p).left
  <1>1. PICK b \in bufs : b.ch = p
    OBVIOUS
  <1>2. Session(p) \in bufs /\ Session(p).ch = p
    BY <1>1 DEF Session
  <1>3. \A c \in bufs : c.ch = p => c = Session(p)
    BY <1>2 DEF IInv, Sessions
  <1>4. QED BY <1>2, <1>3 DEF IInv, Sessions

LEMMA WritersSession == ASSUME IInv, NEW p \in Player, Writes(p) PROVE \E b \in bufs : b.ch = p
  BY DEF IInv, Sessions

\* What a session is of, by its kind.
LEMMA Subjects ==
    ASSUME IInv, NEW b \in bufs
    PROVE  /\ b \in Session0 /\ b.ch \in Player /\ b.text \in Text /\ b.orig \in Text
           /\ b.kind = "note" => /\ b.of \in DOMAIN note \ notes /\ pnote[b.ch] \in {b.of, Nil} /\ b.of \notin Message
                                 /\ ~b.left => pnote[b.ch] = b.of
           /\ b.kind # "note" => b.of \in DOMAIN board /\ (~b.left => board[b.of].author = b.ch)
           /\ b.kind = "edit" => b.orig = board[b.of].text
  <1>1. b \in Session0 /\ b.ch \in Player /\ b.text \in Text /\ b.orig \in Text
    BY Typing DEF Session0
  <1>2. b.kind = "note" => b.of \notin Message
    BY Typing DEF IInv, Pointing
  <1>3. QED BY <1>1, <1>2 DEF IInv, Pointing

\* A message has a text when it is saved, for it is its writer's or was finished.
LEMMA Saving ==
    ASSUME IInv
    PROVE  /\ AllOf(board) \in [DOMAIN board -> [author : Player, text : Text]]
           /\ \A m \in DOMAIN board : /\ TextOf(m) \in Text
                                      /\ (\A b \in bufs : b.of # m) => TextOf(m) = board[m].text
  <1> USE Typing
  <1>1. ASSUME NEW m \in DOMAIN board
        PROVE  TextOf(m) \in Text /\ ((\A b \in bufs : b.of # m) => TextOf(m) = board[m].text)
    <2>1. CASE \E b \in bufs : b.of = m
      <3>1. (CHOOSE b \in bufs : b.of = m) \in bufs
        BY <2>1
      <3>2. QED BY <2>1, <3>1 DEF TextOf, Session0
    <2>2. CASE ~\E b \in bufs : b.of = m
      BY <2>2 DEF TextOf, IInv, NoneUnwritten
    <2>3. QED BY <2>1, <2>2
  <1>2. AllOf(board) \in [DOMAIN board -> [author : Player, text : Text]]
    <2>1. ASSUME NEW m \in DOMAIN board PROVE [board[m] EXCEPT !.text = TextOf(m)] \in [author : Player, text : Text]
      BY <1>1
    <2>2. QED BY <2>1 DEF AllOf
  <1>3. QED BY <1>1, <1>2

\* save_board
LEMMA BoardSaved ==
    ASSUME IInv, NEW B, BoardFile(B), DOMAIN B \subseteq Message, B \in [DOMAIN B -> [author : Player, text : Text]]
    PROVE  OnDisk' /\ disk'.board = B /\ disk'.notes = disk.notes /\ unsaved' = Edited /\ unsaved' \subseteq Message
  <1>1. disk = [board |-> disk.board, notes |-> disk.notes]
    BY DEF IInv, OnDisk
  <1>2. disk' = [board |-> B, notes |-> disk.notes]
    BY <1>1 DEF BoardFile
  <1>3. unsaved' = Edited /\ Edited \subseteq Message
    BY Typing DEF BoardFile, Edited
  <1>4. QED BY <1>2, <1>3 DEF IInv, OnDisk, Texts

\* A finished message is saved as it is, but for edits.
LEMMA SavedAsIs ==
    ASSUME IInv, NEW m \in DOMAIN board, ~\E b \in bufs : b.kind = "write" /\ b.of = m
    PROVE  AllOf(board)[m].author = board[m].author /\ (m \in Edited \/ AllOf(board)[m].text = board[m].text)
  <1>1. board[m] \in [author : Player, text : Text \cup {Nil}]
    BY Typing
  <1>2. AllOf(board)[m] = [board[m] EXCEPT !.text = TextOf(m)]
    BY DEF AllOf
  <1>3. ASSUME m \notin Edited PROVE TextOf(m) = board[m].text
    <2>1. \A b \in bufs : b.of # m
      BY <1>3, Subjects, Typing DEF Edited, Session0
    <2>2. QED BY <2>1, Saving
  <1>4. QED BY <1>1, <1>2, <1>3

\* save_notes
LEMMA NotesSaved ==
    ASSUME IInv, NEW f, NEW N \in SUBSET DOMAIN f, NoteFile(f, N),
           f \in [DOMAIN f -> [from : Player, to : Player, text : Texts, unread : BOOLEAN]]
    PROVE  /\ OnDisk' /\ disk'.board = disk.board /\ unsaved' = unsaved
           /\ DOMAIN disk'.notes = N /\ \A n \in N : disk'.notes[n] = f[n]
  <1>1. disk = [board |-> disk.board, notes |-> disk.notes]
    BY DEF IInv, OnDisk
  <1>2. disk' = [board |-> disk.board, notes |-> [n \in N |-> f[n]]]
    BY <1>1 DEF NoteFile
  <1>3. unsaved' = unsaved
    BY DEF NoteFile
  <1>4. QED BY <1>2, <1>3 DEF IInv, OnDisk

-----------------------------------------------------------------------------
(* Sessions begin and end. *)

LEMMA Beginning ==
    ASSUME IInv, NEW p \in Player, Begins(p), NEW kind \in {"write", "edit", "note"},
           NEW x \in Message \cup Note, NEW t \in Text, Start(p, kind, x, t), \A b \in bufs : b.of # x
    PROVE  /\ Sessions' /\ pos' \in [Player -> {"standing", "writing", "fighting", Nil}] /\ bufs' \subseteq Session0
           /\ \E s \in Session0 : /\ s.ch = p /\ s.kind = kind /\ s.of = x /\ s.text = t /\ s.orig = t /\ ~s.left
                                  /\ bufs' = bufs \cup {s}
  <1> USE Typing
  <1> DEFINE s == [ch |-> p, kind |-> kind, of |-> x, text |-> t, orig |-> t, left |-> FALSE]
  <1>1. s \in Session0 /\ s.ch = p /\ s.kind = kind /\ s.of = x /\ s.text = t /\ s.orig = t /\ ~s.left
    BY DEF Session0
  <1>2. bufs' = bufs \cup {s} /\ pos' = [pos EXCEPT ![p] = "writing"]
    BY DEF Start
  <1>3. \A b \in bufs : b.ch # p
    BY DEF Begins
  <1> HIDE DEF s
  <1>4. Sessions'
    BY <1>1, <1>2, <1>3 DEF IInv, Sessions, Writes
  <1>5. QED BY <1>1, <1>2, <1>4

LEMMA Ending ==
    ASSUME IInv, NEW p \in Player, \E b \in bufs : b.ch = p, NEW x \in {"standing", "fighting", Nil},
           pos' = [pos EXCEPT ![p] = x], bufs' = bufs \ {Session(p)}
    PROVE  Sessions' /\ pos' \in [Player -> {"standing", "writing", "fighting", Nil}] /\ bufs' \subseteq Session0
  <1> USE Typing
  <1>1. x # "writing"
    BY WritingAssumption
  <1>2. QED BY <1>1, TheSession DEF IInv, Sessions, Writes

\* The sessions stay, of others or without their writers.
LEMMA Moving ==
    ASSUME IInv, NEW f, bufs' = {f[b] : b \in bufs}, UNCHANGED <<board, note, notes, disk, unsaved>>,
           \A b \in bufs : /\ f[b] \in Session0 /\ f[b].kind = b.kind /\ f[b].of = b.of /\ f[b].orig = b.orig
                           /\ ~f[b].left => ~b.left /\ f[b].ch = b.ch /\ pnote'[b.ch] = pnote[b.ch]
                           /\ pnote'[f[b].ch] \in {pnote[b.ch], Nil},
           \A b, c \in bufs : f[b].ch = f[c].ch => b.ch = c.ch
    PROVE  /\ bufs' \subseteq Session0 /\ Pointing' /\ NoneUnwritten' /\ FinishedSurvives' /\ OnDisk'
           /\ \A b, c \in bufs' : b.ch = c.ch \/ b.of = c.of => b = c
  <1>1. bufs' \subseteq Session0 /\ \A b, c \in bufs' : b.ch = c.ch \/ b.of = c.of => b = c
    BY DEF IInv, Sessions
  <1>2. Pointing'
    <2>1. SUFFICES ASSUME NEW b \in bufs
                   PROVE  IF f[b].kind = "note" THEN /\ b.of \in DOMAIN note \ notes /\ pnote'[f[b].ch] \in {b.of, Nil}
                                                     /\ ~f[b].left => pnote'[f[b].ch] = b.of
                          ELSE /\ b.of \in DOMAIN board /\ (~f[b].left => board[b.of].author = f[b].ch)
                               /\ f[b].kind = "edit" => f[b].orig = board[b.of].text
      BY DEF Pointing
    <2>2. QED BY <2>1, Subjects
  <1>3. \A m : (\E b \in bufs : b.of = m) => \E c \in bufs' : c.of = m
    OBVIOUS
  <1>4. \A m : (\E b \in bufs : b.kind = "write" /\ b.of = m) => \E c \in bufs' : c.kind = "write" /\ c.of = m
    OBVIOUS
  <1>5. NoneUnwritten' /\ FinishedSurvives' /\ OnDisk'
    BY <1>3, <1>4 DEF IInv, NoneUnwritten, FinishedSurvives, OnDisk
  <1>6. QED BY <1>1, <1>2, <1>5

\* A string of the board is replaced.
LEMMA Retexting ==
    ASSUME IInv, NEW m \in DOMAIN board, NEW t \in Text, board' = [board EXCEPT ![m].text = t]
    PROVE  /\ DOMAIN board' = DOMAIN board /\ board' \in [DOMAIN board -> [author : Player, text : Text \cup {Nil}]]
           /\ \A y \in DOMAIN board : /\ board'[y].author = board[y].author
                                      /\ board'[y].text = IF y = m THEN t ELSE board[y].text
  <1> USE Typing
  <1>1. \A y \in DOMAIN board : board'[y] = IF y = m THEN [board[y] EXCEPT !.text = t] ELSE board[y]
    OBVIOUS
  <1>2. \A y \in DOMAIN board : board[y] \in [author : Player, text : Text \cup {Nil}]
    OBVIOUS
  <1>3. QED BY <1>1, <1>2

\* A note is changed, but for whom it is from and to.
LEMMA Rewriting ==
    ASSUME IInv, NEW n \in DOMAIN note, NEW t \in Text,
           note' = [note EXCEPT ![n].text = t] \/ note' = [note EXCEPT ![n].unread = FALSE]
    PROVE  /\ DOMAIN note' = DOMAIN note
           /\ note' \in [DOMAIN note -> [from : Player, to : Player, text : Text \cup {Nil}, unread : BOOLEAN]]
           /\ \A y \in DOMAIN note \ {n} : note'[y] = note[y]
  <1> USE Typing
  <1>1. note[n] \in [from : Player, to : Player, text : Text \cup {Nil}, unread : BOOLEAN]
    OBVIOUS
  <1>2. [note[n] EXCEPT !.text = t] \in [from : Player, to : Player, text : Text \cup {Nil}, unread : BOOLEAN]
    BY <1>1
  <1>3. [note[n] EXCEPT !.unread = FALSE] \in [from : Player, to : Player, text : Text \cup {Nil}, unread : BOOLEAN]
    BY <1>1
  <1>4. QED BY <1>2, <1>3, ZenonT(60)

-----------------------------------------------------------------------------
(* board.c *)

LEMMA WriteKeeps == ASSUME IInv, NEW p \in Player, NEW m \in Message, Write(p, m) PROVE IInv'
  <1> USE Typing
  <1>1. /\ Begins(p) /\ m \notin DOMAIN board /\ board' = Put(board, m, [author |-> p, text |-> Nil])
        /\ Start(p, "write", m, Empty) /\ UNCHANGED <<known, note, pnote, notes, disk, unsaved>>
    BY DEF Write
  <1>2. \A b \in bufs : b.of # m
    BY <1>1, Subjects
  <1>3. /\ Sessions' /\ pos' \in [Player -> {"standing", "writing", "fighting", Nil}] /\ bufs' \subseteq Session0
        /\ \E s \in Session0 : s.ch = p /\ s.kind = "write" /\ s.of = m /\ ~s.left /\ bufs' = bufs \cup {s}
    BY <1>1, <1>2, Beginning
  <1>4. PICK s \in Session0 : s.ch = p /\ s.kind = "write" /\ s.of = m /\ ~s.left /\ bufs' = bufs \cup {s}
    BY <1>3
  <1>5. /\ DOMAIN board' = DOMAIN board \cup {m} /\ board'[m].author = p
        /\ \A y \in DOMAIN board : board'[y] = board[y]
        /\ board' \in [DOMAIN board' -> [author : Player, text : Text \cup {Nil}]]
    BY <1>1 DEF Put
  <1>6. TypeOK'
    BY <1>1, <1>3, <1>5 DEF TypeOK, Texts, Session0
  <1>7. Pointing'
    BY <1>1, <1>4, <1>5 DEF IInv, Pointing
  <1>8. NoneUnwritten'
    BY <1>4, <1>5 DEF IInv, NoneUnwritten
  <1>9. FinishedSurvives'
    BY <1>1, <1>4, <1>5 DEF IInv, FinishedSurvives
  <1>10. Unsent' /\ OnDisk'
    <2>1. \A y \in Player : pos[y] # Nil => pos'[y] # Nil
      BY <1>1 DEF Start
    <2>2. QED BY <1>1, <2>1 DEF IInv, Unsent, OnDisk
  <1>11. QED BY <1>3, <1>6, <1>7, <1>8, <1>9, <1>10 DEF IInv

LEMMA EditKeeps == ASSUME IInv, NEW p \in Player, NEW m \in Message, Edit(p, m) PROVE IInv'
  <1> USE Typing
  <1>1. /\ Begins(p) /\ m \in DOMAIN board /\ board[m].author = p
        /\ ~Busy(m)
        /\ Start(p, "edit", m, TextOf(m)) /\ UNCHANGED <<known, board, note, pnote, notes, disk, unsaved>>
    BY DEF Edit
  <1>2. \A b \in bufs : b.of # m
    BY <1>1 DEF Busy
  <1>3. TextOf(m) \in Text /\ TextOf(m) = board[m].text
    BY <1>1, <1>2, Saving
  <1>4. /\ Sessions' /\ pos' \in [Player -> {"standing", "writing", "fighting", Nil}] /\ bufs' \subseteq Session0
        /\ \E s \in Session0 : s.ch = p /\ s.kind = "edit" /\ s.of = m /\ s.orig = TextOf(m) /\ ~s.left /\ bufs' = bufs \cup {s}
    BY <1>1, <1>2, <1>3, Beginning
  <1>5. PICK s \in Session0 : s.ch = p /\ s.kind = "edit" /\ s.of = m /\ s.orig = TextOf(m) /\ ~s.left /\ bufs' = bufs \cup {s}
    BY <1>4
  <1>6. TypeOK'
    BY <1>1, <1>4 DEF TypeOK, Texts, Session0
  <1>7. Pointing' /\ NoneUnwritten'
    BY <1>1, <1>3, <1>5 DEF IInv, Pointing, NoneUnwritten
  <1>8. FinishedSurvives'
    BY <1>1, <1>5 DEF IInv, FinishedSurvives
  <1>9. Unsent' /\ OnDisk'
    <2>1. \A y \in Player : pos[y] # Nil => pos'[y] # Nil
      BY <1>1 DEF Start
    <2>2. QED BY <1>1, <2>1 DEF IInv, Unsent, OnDisk
  <1>10. QED BY <1>4, <1>6, <1>7, <1>8, <1>9 DEF IInv

LEMMA DeleteKeeps == ASSUME IInv, NEW p \in Player, NEW m \in Message, Delete(p, m) PROVE IInv'
  <1> USE Typing
  <1>1. /\ m \in DOMAIN board /\ board' = Drop(board, m) /\ BoardFile(Drop(AllOf(board), m))
        /\ ~Busy(m)
        /\ UNCHANGED <<pos, known, bufs, note, pnote, notes>>
    BY DEF Delete
  <1>2. \A b \in bufs : b.of # m
    BY <1>1, Typing DEF Busy
  <1>3. /\ DOMAIN board' = DOMAIN board \ {m} /\ \A y \in DOMAIN board' : board'[y] = board[y]
        /\ board' \in [DOMAIN board' -> [author : Player, text : Text \cup {Nil}]]
    BY <1>1 DEF Drop
  <1>4. DOMAIN Drop(AllOf(board), m) = DOMAIN board \ {m} /\ Drop(AllOf(board), m) \in [DOMAIN board \ {m} -> [author : Player, text : Text]]
    BY Saving DEF Drop
  <1>5. OnDisk' /\ disk'.board = Drop(AllOf(board), m) /\ disk'.notes = disk.notes /\ unsaved' = Edited /\ unsaved' \subseteq Message
    BY <1>1, <1>3, <1>4, BoardSaved
  <1>6. TypeOK'
    BY <1>1, <1>3, <1>5 DEF TypeOK, Texts, Session0
  <1>7. Sessions' /\ Pointing' /\ NoneUnwritten'
    BY <1>1, <1>2, <1>3 DEF IInv, Sessions, Writes, Pointing, NoneUnwritten
  <1>8. FinishedSurvives' /\ Unsent'
    <2>1. \A y \in DOMAIN board' : disk'.board[y] = AllOf(board)[y] /\ y \in DOMAIN disk'.board
      BY <1>3, <1>4, <1>5 DEF Drop
    <2>2. QED BY <1>1, <1>3, <1>5, <2>1, SavedAsIs DEF IInv, FinishedSurvives, Unsent
  <1>9. QED BY <1>5, <1>6, <1>7, <1>8 DEF IInv

LEMMA ConfigureKeeps == ASSUME IInv, NEW p \in Player, Configure(p) PROVE IInv'
  <1> USE Typing
  <1>1. BoardFile(AllOf(board)) /\ UNCHANGED <<pos, known, bufs, board, note, pnote, notes>>
    BY DEF Configure
  <1>2. DOMAIN AllOf(board) = DOMAIN board
    BY DEF AllOf
  <1>3. OnDisk' /\ disk'.board = AllOf(board) /\ disk'.notes = disk.notes /\ unsaved' = Edited /\ unsaved' \subseteq Message
    BY <1>1, <1>2, Saving, BoardSaved
  <1>4. TypeOK' /\ Sessions' /\ Pointing' /\ NoneUnwritten'
    BY <1>1, <1>3 DEF IInv, TypeOK, Texts, Sessions, Writes, Pointing, NoneUnwritten
  <1>5. FinishedSurvives' /\ Unsent'
    BY <1>1, <1>2, <1>3, SavedAsIs DEF IInv, FinishedSurvives, Unsent
  <1>6. QED BY <1>3, <1>4, <1>5 DEF IInv

-----------------------------------------------------------------------------
(* act_comm.c: notes *)

LEMMA SendKeeps ==
    ASSUME IInv, NEW p \in Player, NEW q \in Player, NEW n \in Note, Send(p, q, n)
    PROVE  IInv'
  <1> USE Typing
  <1>1. /\ Begins(p) /\ n \notin DOMAIN note /\ pnote' = [pnote EXCEPT ![p] = n]
        /\ note' = Put(note, n, [from |-> p, to |-> q, text |-> Nil, unread |-> TRUE])
        /\ Start(p, "note", n, Empty) /\ NoteFile(note, notes) /\ UNCHANGED <<known, board, notes>>
    BY DEF Send
  <1>2. \A b \in bufs : b.of # n
    BY <1>1, Subjects
  <1>3. /\ Sessions' /\ pos' \in [Player -> {"standing", "writing", "fighting", Nil}] /\ bufs' \subseteq Session0
        /\ \E s \in Session0 : s.ch = p /\ s.kind = "note" /\ s.of = n /\ ~s.left /\ bufs' = bufs \cup {s}
    BY <1>1, <1>2, Beginning
  <1>4. PICK s \in Session0 : s.ch = p /\ s.kind = "note" /\ s.of = n /\ ~s.left /\ bufs' = bufs \cup {s}
    BY <1>3
  <1>5. /\ DOMAIN note' = DOMAIN note \cup {n} /\ \A y \in DOMAIN note : note'[y] = note[y]
        /\ note' \in [DOMAIN note' -> [from : Player, to : Player, text : Text \cup {Nil}, unread : BOOLEAN]]
    BY <1>1 DEF Put
  <1>6. notes \in SUBSET DOMAIN note
    BY DEF IInv, Unsent
  <1>7. OnDisk' /\ disk'.board = disk.board /\ unsaved' = unsaved /\ DOMAIN disk'.notes = notes /\ \A y \in notes : disk'.notes[y] = note[y]
    BY <1>1, <1>6, NotesSaved DEF Texts
  <1>8. TypeOK'
    BY <1>1, <1>3, <1>5, <1>7 DEF TypeOK, Texts, Session0
  <1>9. Pointing'
    <2>1. \A b \in bufs : b.ch # p
      BY <1>1 DEF Begins
    <2>2. \A b \in bufs : pnote'[b.ch] = pnote[b.ch]
      BY <1>1, <2>1
    <2>3. pnote'[p] = n /\ n \in DOMAIN note' \ notes'
      BY <1>1, <1>5, <1>6
    <2>4. \A b \in bufs' : b \in bufs \/ b = s
      BY <1>4
    <2>5. QED BY <1>1, <1>4, <1>5, <2>2, <2>3, <2>4 DEF IInv, Pointing
  <1>10. NoneUnwritten'
    BY <1>1, <1>4 DEF IInv, NoneUnwritten
  <1>11. FinishedSurvives'
    BY <1>1, <1>4, <1>5, <1>6, <1>7, ZenonT(60) DEF IInv, FinishedSurvives
  <1>12. Unsent'
    <2>1. \A x \in Player : pnote'[x] = IF x = p THEN n ELSE pnote[x]
      BY <1>1
    <2>2. \A x \in Player : pnote[x] # n
      BY <1>1 DEF IInv, Unsent
    <2>3. n \notin notes
      BY <1>1, <1>6
    <2>4. \A x \in Player : pnote'[x] # Nil => pnote'[x] \in DOMAIN note' \ notes' /\ pos'[x] # Nil
      BY <1>1, <1>5, <2>1, <2>3 DEF IInv, Unsent, Start
    <2>5. \A x, y \in Player : pnote'[x] = pnote'[y] => x = y \/ pnote'[x] = Nil
      BY <2>1, <2>2 DEF IInv, Unsent
    <2>6. QED BY <1>1, <1>5, <1>6, <2>4, <2>5 DEF Unsent
  <1>13. QED BY <1>3, <1>7, <1>8, <1>9, <1>10, <1>11, <1>12 DEF IInv

LEMMA ReadKeeps == ASSUME IInv, NEW p \in Player, NEW n \in Note, Read(p, n) PROVE IInv'
  <1> USE Typing
  <1>1. /\ n \in notes /\ note' = [note EXCEPT ![n].unread = FALSE] /\ NoteFile(note', notes)
        /\ UNCHANGED <<pos, known, bufs, board, pnote, notes>>
    BY DEF Read
  <1>2. notes \in SUBSET DOMAIN note /\ n \in DOMAIN note
    BY <1>1 DEF IInv, Unsent
  <1>3. /\ DOMAIN note' = DOMAIN note
        /\ note' \in [DOMAIN note -> [from : Player, to : Player, text : Text \cup {Nil}, unread : BOOLEAN]]
    BY <1>1, <1>2, Rewriting
  <1>4. OnDisk' /\ disk'.board = disk.board /\ unsaved' = unsaved /\ DOMAIN disk'.notes = notes /\ \A y \in notes : disk'.notes[y] = note'[y]
    BY <1>1, <1>2, <1>3, NotesSaved DEF Texts
  <1>5. TypeOK'
    BY <1>1, <1>3, <1>4 DEF TypeOK, Texts, Session0
  <1>6. Sessions' /\ Pointing' /\ NoneUnwritten'
    BY <1>1, <1>3 DEF IInv, Sessions, Writes, Pointing, NoneUnwritten
  <1>7. FinishedSurvives' /\ Unsent'
    <2>1. FinishedSurvives'
      BY <1>1, <1>4 DEF IInv, FinishedSurvives
    <2>2. Unsent'
      BY <1>1, <1>3 DEF IInv, Unsent
    <2>3. QED BY <2>1, <2>2
  <1>8. QED BY <1>4, <1>5, <1>6, <1>7 DEF IInv

LEMMA RemoveKeeps == ASSUME IInv, NEW p \in Player, NEW N \in SUBSET notes, Remove(p, N) PROVE IInv'
  <1> USE Typing
  <1>1. /\ notes' = notes \ N /\ note' = [n \in DOMAIN note \ N |-> note[n]] /\ NoteFile(note', notes')
        /\ UNCHANGED <<pos, known, bufs, board, pnote>>
    BY DEF Remove
  <1>2. notes' \in SUBSET DOMAIN note' /\ notes \subseteq DOMAIN note
    BY <1>1 DEF IInv, Unsent
  <1>3. /\ DOMAIN note' = DOMAIN note \ N /\ \A y \in DOMAIN note' : note'[y] = note[y]
        /\ note' \in [DOMAIN note' -> [from : Player, to : Player, text : Text \cup {Nil}, unread : BOOLEAN]]
    BY <1>1
  <1>4. OnDisk' /\ disk'.board = disk.board /\ unsaved' = unsaved /\ DOMAIN disk'.notes = notes' /\ \A y \in notes' : disk'.notes[y] = note'[y]
    BY <1>1, <1>2, <1>3, NotesSaved DEF Texts
  <1>5. TypeOK'
    BY <1>1, <1>3, <1>4 DEF TypeOK, Texts, Session0
  <1>6. Pointing'
    BY <1>1, <1>3, Subjects DEF Pointing
  <1>7. Sessions' /\ NoneUnwritten'
    BY <1>1 DEF IInv, Sessions, Writes, NoneUnwritten
  <1>8. FinishedSurvives' /\ Unsent'
    <2>1. FinishedSurvives'
      BY <1>1, <1>4, ZenonT(60) DEF IInv, FinishedSurvives
    <2>2. Unsent'
      BY <1>1, <1>2, <1>3 DEF IInv, Unsent
    <2>3. QED BY <2>1, <2>2
  <1>9. QED BY <1>4, <1>5, <1>6, <1>7, <1>8 DEF IInv

-----------------------------------------------------------------------------
(* write.c *)

LEMMA LineKeeps == ASSUME IInv, NEW p \in Player, NEW t \in Text, Line(p, t) PROVE IInv'
  <1> USE Typing
  <1> DEFINE b == Session(p)
             s == [b EXCEPT !.text = t]
  <1>1. Writes(p) /\ bufs' = (bufs \ {b}) \cup {s} /\ UNCHANGED <<pos, known, board, note, pnote, notes, disk, unsaved>>
    BY DEF Line
  <1>2. b \in bufs /\ b \in Session0 /\ b.ch = p /\ \A c \in bufs : c.ch = b.ch \/ c.of = b.of => c = b
    BY <1>1, WritersSession, TheSession, Subjects
  <1>3. s \in Session0 /\ s.ch = b.ch /\ s.of = b.of /\ s.kind = b.kind /\ s.left = b.left /\ s.orig = b.orig
    BY <1>2 DEF Session0
  <1> HIDE DEF b, s
  <1>4. TypeOK'
    BY <1>1, <1>3 DEF TypeOK, Texts, Session0
  <1>5. Sessions'
    BY <1>1, <1>2, <1>3 DEF IInv, Sessions, Writes
  <1>6. Pointing'
    BY <1>1, <1>2, <1>3 DEF IInv, Pointing
  <1>7. \A m \in Message : (\E c \in bufs' : c.of = m) <=> (\E c \in bufs : c.of = m)
    BY <1>1, <1>2, <1>3
  <1>8. \A m : (\E c \in bufs : c.kind = "write" /\ c.of = m) => \E c \in bufs' : c.kind = "write" /\ c.of = m
    BY <1>1, <1>2, <1>3
  <1>9. NoneUnwritten'
    BY <1>1, <1>7 DEF IInv, NoneUnwritten
  <1>10. FinishedSurvives'
    BY <1>1, <1>8 DEF IInv, FinishedSurvives
  <1>11. Unsent' /\ OnDisk'
    BY <1>1 DEF IInv, Unsent, OnDisk
  <1>12. QED BY <1>4, <1>5, <1>6, <1>9, <1>10, <1>11 DEF IInv

LEMMA FinishKeeps == ASSUME IInv, NEW p \in Player, Finish(p) PROVE IInv'
  <1> USE Typing
  <1> DEFINE b == Session(p)
  <1>1. Writes(p) /\ bufs' = bufs \ {b} /\ pos' = [pos EXCEPT ![p] = "standing"] /\ known' = known
    BY DEF Finish
  <1>2. b \in bufs /\ b \in Session0 /\ b.ch = p /\ b.text \in Text /\ (\A c \in bufs : c.of = b.of => c = b) /\ ~b.left
    BY <1>1, WritersSession, TheSession, Subjects
  <1>3. Sessions' /\ pos' \in [Player -> {"standing", "writing", "fighting", Nil}] /\ bufs' \subseteq Session0
    BY <1>1, WritersSession, Ending
  <1>4. ASSUME b.kind \in {"write", "edit"}, board' = [board EXCEPT ![b.of].text = b.text], UNCHANGED <<note, pnote, notes>>
        PROVE  /\ (unsaved' \subseteq Message => TypeOK') /\ Pointing' /\ NoneUnwritten' /\ Unsent' /\ DOMAIN board' = DOMAIN board
               /\ b.of \in DOMAIN board
               /\ \A y \in DOMAIN board : /\ board'[y].author = board[y].author
                                          /\ board'[y].text = IF y = b.of THEN b.text ELSE board[y].text
    <2>1. b.of \in DOMAIN board
      BY <1>2, <1>4, Subjects
    <2>2. /\ DOMAIN board' = DOMAIN board /\ board' \in [DOMAIN board -> [author : Player, text : Text \cup {Nil}]]
          /\ \A y \in DOMAIN board : /\ board'[y].author = board[y].author
                                     /\ board'[y].text = IF y = b.of THEN b.text ELSE board[y].text
      BY <1>2, <1>4, <2>1, Retexting, ZenonT(60)
    <2>3. unsaved' \subseteq Message => TypeOK'
      BY <1>1, <1>3, <1>4, <2>2 DEF TypeOK, Texts, Session0
    <2>4. Pointing'
      <3>1. \A c \in bufs' : c \in bufs /\ c.of # b.of
        BY <1>1, <1>2
      <3>2. QED BY <1>4, <2>2, <3>1 DEF IInv, Pointing
    <2>5. NoneUnwritten'
      <3>1. SUFFICES ASSUME NEW m \in DOMAIN board, board'[m].text = Nil PROVE \E c \in bufs' : c.of = m
        BY <2>2 DEF NoneUnwritten
      <3>2. m # b.of /\ board[m].text = Nil
        BY <1>2, <2>2, <3>1
      <3>3. PICK c \in bufs : c.of = m
        BY <3>2 DEF IInv, NoneUnwritten
      <3>4. QED BY <1>1, <3>2, <3>3
    <2>6. Unsent'
      BY <1>1, <1>4, WritingAssumption DEF IInv, Unsent
    <2>7. QED BY <2>1, <2>2, <2>3, <2>4, <2>5, <2>6
  <1>5. CASE b.kind = "write" /\ Kept(b)
    <2>1. /\ board' = [board EXCEPT ![b.of].text = b.text] /\ BoardFile([AllOf(board) EXCEPT ![b.of].text = b.text])
          /\ UNCHANGED <<note, pnote, notes>>
      BY <1>5 DEF Kept
    <2>2. /\ (unsaved' \subseteq Message => TypeOK') /\ Pointing' /\ NoneUnwritten' /\ Unsent' /\ DOMAIN board' = DOMAIN board
          /\ b.of \in DOMAIN board
          /\ \A y \in DOMAIN board : /\ board'[y].author = board[y].author
                                     /\ board'[y].text = IF y = b.of THEN b.text ELSE board[y].text
      BY <1>4, <1>5, <2>1
    <2>3. AllOf(board) \in [DOMAIN board -> [author : Player, text : Text]]
      BY Saving
    <2> DEFINE B == [AllOf(board) EXCEPT ![b.of].text = b.text]
    <2>4. /\ B \in [DOMAIN board -> [author : Player, text : Text]] /\ DOMAIN B = DOMAIN board
          /\ B[b.of].author = AllOf(board)[b.of].author /\ B[b.of].text = b.text
          /\ \A y \in DOMAIN board \ {b.of} : B[y] = AllOf(board)[y]
      BY <1>2, <2>2, <2>3
    <2>5. BoardFile(B)
      BY <2>1
    <2> HIDE DEF B
    <2>6. OnDisk' /\ disk'.board = B /\ disk'.notes = disk.notes /\ unsaved' = Edited /\ unsaved' \subseteq Message
      BY <2>4, <2>5, BoardSaved
    <2>7. \A y \in DOMAIN board : AllOf(board)[y].author = board[y].author
      BY DEF AllOf
    <2>8. FinishedSurvives'
      <3>1. SUFFICES ASSUME NEW m \in DOMAIN board, ~\E c \in bufs' : c.kind = "write" /\ c.of = m
                     PROVE  B[m].author = board'[m].author /\ (m \in Edited \/ B[m].text = board'[m].text)
        BY <2>1, <2>2, <2>4, <2>6 DEF IInv, FinishedSurvives
      <3>2. CASE m = b.of
        BY <2>2, <2>4, <2>7, <3>2
      <3>3. CASE m # b.of
        <4>1. ~\E c \in bufs : c.kind = "write" /\ c.of = m
          BY <1>1, <3>1, <3>3
        <4>2. QED BY <2>2, <2>4, <3>3, <4>1, SavedAsIs
      <3>4. QED BY <3>2, <3>3
    <2>9. QED BY <1>3, <2>2, <2>6, <2>8 DEF IInv
  <1>6. CASE b.kind = "edit" /\ Reworded(b)
    <2>1. /\ board' = [board EXCEPT ![b.of].text = b.text] /\ unsaved' = unsaved \cup {b.of}
          /\ UNCHANGED <<note, pnote, notes, disk>>
      BY <1>6 DEF Reworded
    <2>2. /\ (unsaved' \subseteq Message => TypeOK') /\ Pointing' /\ NoneUnwritten' /\ Unsent' /\ DOMAIN board' = DOMAIN board
          /\ b.of \in DOMAIN board
          /\ \A y \in DOMAIN board : /\ board'[y].author = board[y].author
                                     /\ board'[y].text = IF y = b.of THEN b.text ELSE board[y].text
      BY <1>4, <1>6, <2>1
    <2>3. \A m : (\E c \in bufs : c.kind = "write" /\ c.of = m) => \E c \in bufs' : c.kind = "write" /\ c.of = m
      BY <1>1, <1>6
    <2>4. FinishedSurvives' /\ OnDisk'
      BY <2>1, <2>2, <2>3, ZenonT(60) DEF IInv, FinishedSurvives, OnDisk
    <2>5. QED BY <1>3, <2>1, <2>2, <2>4 DEF IInv
  <1>7. CASE b.kind = "note" /\ Delivered(b)
    <2>1. note' = [note EXCEPT ![b.of].text = b.text] /\ board' = board
      BY <1>7 DEF Delivered
    <2>2. b.of \in DOMAIN note \ notes /\ pnote[p] = b.of /\ b.of \notin Message
      BY <1>2, <1>7, Subjects
    <2>3. /\ DOMAIN note' = DOMAIN note /\ \A y \in DOMAIN note \ {b.of} : note'[y] = note[y]
          /\ note' \in [DOMAIN note -> [from : Player, to : Player, text : Text \cup {Nil}, unread : BOOLEAN]]
      BY <1>2, <2>1, <2>2, Rewriting
    <2>4. \A m \in Message : (\E c \in bufs' : c.of = m) <=> (\E c \in bufs : c.of = m)
      BY <1>1, <2>2
    <2>5. \A m : (\E c \in bufs : c.kind = "write" /\ c.of = m) => \E c \in bufs' : c.kind = "write" /\ c.of = m
      BY <1>1, <1>7
    <2>6. NoneUnwritten'
      BY <2>1, <2>4 DEF IInv, NoneUnwritten
    <2>7. notes \subseteq DOMAIN note
      BY DEF IInv, Unsent
    <2>10. note'[b.of].to = note[b.of].to
      BY <2>1, <2>2, Typing
    <2>8. CASE note[b.of].to \in known
      <3>1. notes' = notes \cup {b.of} /\ pnote' = [pnote EXCEPT ![p] = Nil] /\ NoteFile(note', notes')
        BY <1>2, <1>7, <2>1, <2>2, <2>3, <2>8, <2>10 DEF Delivered
      <3>2. notes' \in SUBSET DOMAIN note'
        BY <2>2, <2>3, <2>7, <3>1
      <3>3. OnDisk' /\ disk'.board = disk.board /\ unsaved' = unsaved /\ DOMAIN disk'.notes = notes' /\ \A y \in notes' : disk'.notes[y] = note'[y]
        BY <2>3, <3>1, <3>2, NotesSaved DEF Texts
      <3>4. TypeOK'
        BY <1>1, <1>3, <2>1, <2>2, <2>3, <3>1, <3>3 DEF TypeOK, Texts, Session0
      <3>5. Pointing'
        <4>1. \A c \in bufs' : c \in bufs /\ c.ch # p /\ c.of # b.of
          BY <1>1, <1>2, WritersSession, TheSession
        <4>2. QED BY <2>1, <2>3, <3>1, <4>1, Subjects DEF Pointing
      <3>6. Unsent'
        <4>1. \A x \in Player : pnote'[x] = IF x = p THEN Nil ELSE pnote[x]
          BY <3>1
        <4>2. \A x \in Player \ {p} : pnote[x] # b.of
          BY <2>2 DEF IInv, Unsent
        <4>3. \A x \in Player : pos[x] # Nil => pos'[x] # Nil
          BY <1>1, WritingAssumption
        <4>4. QED BY <2>3, <3>1, <3>2, <4>1, <4>2, <4>3 DEF IInv, Unsent
      <3>7. FinishedSurvives'
        BY <2>1, <2>5, <3>3 DEF IInv, FinishedSurvives
      <3>8. QED BY <1>3, <2>6, <3>3, <3>4, <3>5, <3>6, <3>7 DEF IInv
    <2>9. CASE note[b.of].to \notin known
      <3>1. UNCHANGED <<notes, pnote, disk, unsaved>>
        BY <1>2, <1>7, <2>2, <2>9 DEF Delivered
      <3>2. TypeOK'
        BY <1>1, <1>3, <2>1, <2>3, <3>1 DEF TypeOK, Texts, Session0
      <3>3. Pointing'
        BY <1>1, <2>1, <2>3, <3>1 DEF IInv, Pointing
      <3>4. FinishedSurvives'
        BY <2>1, <2>2, <2>3, <2>5, <2>7, <3>1, ZenonT(60) DEF IInv, FinishedSurvives
      <3>5. Unsent' /\ OnDisk'
        BY <1>1, <2>3, <3>1, WritingAssumption DEF IInv, Unsent, OnDisk
      <3>6. QED BY <1>3, <2>6, <3>2, <3>3, <3>4, <3>5 DEF IInv
    <2>11. QED BY <2>8, <2>9
  <1>8. QED BY <1>5, <1>6, <1>7 DEF Finish

\* ".q" and abort_writing.
LEMMA UnfinishedKeeps ==
    ASSUME IInv, NEW p \in Player, \E c \in bufs : c.ch = p, NEW x \in {"standing", "fighting"},
           pos' = [pos EXCEPT ![p] = x], Unfinished(p)
    PROVE  IInv'
  <1> USE Typing
  <1> DEFINE b == Session(p)
  <1>1. bufs' = bufs \ {b} /\ UNCHANGED <<known, notes, disk, unsaved>>
    BY DEF Unfinished
  <1>2. /\ b \in bufs /\ b \in Session0 /\ b.ch = p /\ b.orig \in Text
        /\ \A c \in bufs' : c \in bufs /\ c # b /\ c.of # b.of /\ c.ch # p
    BY <1>1, TheSession, Subjects
  <1>3. Sessions' /\ pos' \in [Player -> {"standing", "writing", "fighting", Nil}] /\ bufs' \subseteq Session0
    BY <1>1, Ending
  <1>4. \A y \in Player : pos[y] # Nil => pos'[y] # Nil
    OBVIOUS
  <1>5. CASE b.kind \in {"write", "edit"} /\ Unwrite(b) /\ UNCHANGED <<note, pnote>>
    <2>1. b.of \in DOMAIN board /\ (b.kind = "edit" => b.orig = board[b.of].text)
      BY <1>2, <1>5, Subjects
    <2>2. /\ DOMAIN board' = IF b.kind = "write" THEN DOMAIN board \ {b.of} ELSE DOMAIN board
          /\ board' \in [DOMAIN board' -> [author : Player, text : Text \cup {Nil}]]
          /\ \A y \in DOMAIN board' : /\ board'[y].author = board[y].author /\ board'[y].text = board[y].text
                                      /\ board'[y].text = Nil => y # b.of
      <3>1. CASE b.kind = "write"
        <4>1. board' = [y \in DOMAIN board \ {b.of} |-> board[y]]
          BY <1>5, <3>1 DEF Unwrite, Drop
        <4>2. QED BY <3>1, <4>1
      <3>2. CASE b.kind # "write"
        <4>1. board' = [board EXCEPT ![b.of].text = b.orig]
          BY <1>5, <3>2 DEF Unwrite
        <4>2. QED BY <1>2, <1>5, <2>1, <3>2, <4>1, Retexting
      <3>3. QED BY <3>1, <3>2
    <2>3. TypeOK'
      BY <1>1, <1>3, <1>5, <2>2 DEF TypeOK, Texts, Session0
    <2>4. Pointing'
      <3>1. SUFFICES ASSUME NEW c \in bufs'
                     PROVE  IF c.kind = "note" THEN /\ c.of \in DOMAIN note \ notes /\ pnote[c.ch] \in {c.of, Nil}
                                                    /\ ~c.left => pnote[c.ch] = c.of
                            ELSE /\ c.of \in DOMAIN board' /\ (~c.left => board'[c.of].author = c.ch)
                                 /\ c.kind = "edit" => c.orig = board'[c.of].text
        BY <1>1, <1>5 DEF Pointing
      <3>2. QED BY <1>2, <2>2, Subjects
    <2>5. NoneUnwritten'
      <3>1. SUFFICES ASSUME NEW m \in DOMAIN board', board'[m].text = Nil PROVE \E c \in bufs' : c.of = m
        BY DEF NoneUnwritten
      <3>2. m \in DOMAIN board /\ m # b.of /\ board[m].text = Nil
        BY <2>2, <3>1
      <3>3. PICK c \in bufs : c.of = m
        BY <3>2 DEF IInv, NoneUnwritten
      <3>4. QED BY <1>1, <3>2, <3>3
    <2>6. FinishedSurvives'
      <3>1. \A m \in DOMAIN board' : (\E c \in bufs : c.kind = "write" /\ c.of = m) => \E c \in bufs' : c.kind = "write" /\ c.of = m
        BY <1>1, <1>2, <1>5, <2>2
      <3>2. DOMAIN board' \subseteq DOMAIN board
        BY <2>2
      <3>3. QED BY <1>1, <1>5, <2>2, <3>1, <3>2 DEF IInv, FinishedSurvives
    <2>7. Unsent' /\ OnDisk'
      BY <1>1, <1>4, <1>5 DEF IInv, Unsent, OnDisk
    <2>8. QED BY <1>3, <2>3, <2>4, <2>5, <2>6, <2>7 DEF IInv
  <1>6. CASE b.kind = "note" /\ note' = Drop(note, pnote[p]) /\ pnote' = [pnote EXCEPT ![p] = Nil] /\ UNCHANGED board
    <2>1. /\ DOMAIN note' = DOMAIN note \ {pnote[p]} /\ \A y \in DOMAIN note' : note'[y] = note[y]
          /\ note' \in [DOMAIN note' -> [from : Player, to : Player, text : Text \cup {Nil}, unread : BOOLEAN]]
      BY <1>6 DEF Drop
    <2>2. b.of \notin Message
      BY <1>2, <1>6, Subjects
    <2>3. pnote[p] \notin notes /\ notes \subseteq DOMAIN note'
      BY <2>1 DEF IInv, Unsent
    <2>4. TypeOK'
      BY <1>1, <1>3, <1>6, <2>1 DEF TypeOK, Texts, Session0
    <2>5. Pointing'
      <3>1. \A c \in bufs' : c.kind = "note" => c.of # pnote[p]
        <4>1. SUFFICES ASSUME NEW c \in bufs', c.kind = "note", c.of = pnote[p] PROVE FALSE
          OBVIOUS
        <4>2. pnote[p] \in {b.of, Nil} /\ c \in bufs /\ c.of # b.of /\ c.of \in DOMAIN note
          BY <1>2, <1>6, <4>1, Subjects
        <4>3. QED BY <4>1, <4>2
      <3>2. \A c \in bufs' : pnote'[c.ch] = pnote[c.ch]
        BY <1>2, <1>6
      <3>3. QED BY <1>1, <1>2, <1>6, <2>1, <3>1, <3>2, Subjects DEF Pointing
    <2>6. NoneUnwritten'
      BY <1>1, <1>6, <2>2 DEF IInv, NoneUnwritten
    <2>7. FinishedSurvives'
      <3>1. \A m : (\E c \in bufs : c.kind = "write" /\ c.of = m) => \E c \in bufs' : c.kind = "write" /\ c.of = m
        BY <1>1, <1>6
      <3>2. QED BY <1>1, <1>6, <2>1, <2>3, <3>1 DEF IInv, FinishedSurvives
    <2>8. Unsent'
      <3>1. \A y \in Player : pnote'[y] = IF y = p THEN Nil ELSE pnote[y]
        BY <1>6
      <3>2. \A y \in Player \ {p} : pnote[y] # Nil => pnote[y] # pnote[p]
        BY DEF IInv, Unsent
      <3>3. QED BY <1>1, <1>4, <2>1, <2>3, <3>1, <3>2 DEF IInv, Unsent
    <2>9. OnDisk'
      BY <1>1 DEF IInv, OnDisk
    <2>10. QED BY <1>3, <2>4, <2>5, <2>6, <2>7, <2>8, <2>9 DEF IInv
  <1>7. QED BY <1>5, <1>6 DEF Unfinished

-----------------------------------------------------------------------------
(* Fights, death, entering and leaving. *)

LEMMA Resting ==
    ASSUME IInv, NEW p \in Player, ~Writes(p), pos[p] # Nil, NEW x \in {"standing", "fighting"},
           pos' = [pos EXCEPT ![p] = x], UNCHANGED <<known, bufs, board, note, pnote, notes, disk, unsaved>>
    PROVE  IInv'
  <1> USE Typing
  <1>1. Sessions' /\ pos' \in [Player -> {"standing", "writing", "fighting", Nil}]
    BY DEF IInv, Sessions, Writes
  <1>2. NoneUnwritten' /\ OnDisk' /\ Pointing' /\ FinishedSurvives'
    BY DEF IInv, NoneUnwritten, OnDisk, Pointing, FinishedSurvives
  <1>3. TypeOK'
    BY <1>1 DEF IInv, TypeOK
  <1>4. Unsent'
    BY DEF IInv, Unsent
  <1>5. QED BY <1>1, <1>2, <1>3, <1>4 DEF IInv

LEMMA AttackedKeeps == ASSUME IInv, NEW p \in Player, Attacked(p) \/ Peace(p) PROVE IInv'
  <1>1. CASE Attacked(p) /\ \E b \in bufs : b.ch = p
    BY <1>1, UnfinishedKeeps DEF Attacked, Ended
  <1>2. CASE Attacked(p) /\ ~\E b \in bufs : b.ch = p
    <2>1. ~Writes(p)
      BY <1>2, WritersSession
    <2>2. QED BY <1>2, <2>1, Resting DEF Attacked, Ended, InGame
  <1>3. CASE Peace(p)
    BY <1>3, Resting, Typing DEF Peace, Writes, InGame
  <1>4. QED BY <1>1, <1>2, <1>3

\* The session that its writer leaves.
LEMMA Leaving ==
    ASSUME IInv, NEW p \in Player, NEW x \in {"standing", Nil}, pos' = [pos EXCEPT ![p] = x], Left(p),
           known' \subseteq Player, UNCHANGED <<board, note, notes, disk, unsaved>>,
           \/ pnote' = [pnote EXCEPT ![p] = Nil]
           \/ x # Nil /\ pnote' = pnote
    PROVE  IInv'
  <1> USE Typing
  <1> DEFINE f == [b \in bufs |-> IF b.ch = p THEN [b EXCEPT !.left = TRUE] ELSE b]
  <1>1. \A b \in bufs : /\ f[b] \in Session0 /\ f[b].kind = b.kind /\ f[b].of = b.of /\ f[b].orig = b.orig /\ f[b].ch = b.ch
                        /\ f[b].left = IF b.ch = p THEN TRUE ELSE b.left
    <2>1. SUFFICES ASSUME NEW b \in bufs
                   PROVE  /\ f[b] \in Session0 /\ f[b].kind = b.kind /\ f[b].of = b.of /\ f[b].orig = b.orig
                          /\ f[b].ch = b.ch /\ f[b].left = IF b.ch = p THEN TRUE ELSE b.left
      OBVIOUS
    <2>2. b \in Session0
      OBVIOUS
    <2>3. CASE b.ch = p
      BY <2>2, <2>3 DEF Session0
    <2>4. CASE b.ch # p
      BY <2>2, <2>4 DEF Session0
    <2>5. QED BY <2>3, <2>4
  <1>2. bufs' = {f[b] : b \in bufs}
    BY DEF Left
  <1> HIDE DEF f
  <1>3. \A b \in bufs : b.ch \in Player
    BY DEF Session0
  <1>4. \A y \in Player : pnote'[y] \in {pnote[y], Nil} /\ (y # p => pnote'[y] = pnote[y])
    OBVIOUS
  <1>5. /\ bufs' \subseteq Session0 /\ Pointing' /\ NoneUnwritten' /\ FinishedSurvives' /\ OnDisk'
        /\ \A b, c \in bufs' : b.ch = c.ch \/ b.of = c.of => b = c
    <2>1. \A b \in bufs : /\ f[b] \in Session0 /\ f[b].kind = b.kind /\ f[b].of = b.of /\ f[b].orig = b.orig
                          /\ ~f[b].left => ~b.left /\ f[b].ch = b.ch /\ pnote'[b.ch] = pnote[b.ch]
                          /\ pnote'[f[b].ch] \in {pnote[b.ch], Nil}
      BY <1>1, <1>3, <1>4
    <2>2. \A b, c \in bufs : f[b].ch = f[c].ch => b.ch = c.ch
      BY <1>1
    <2>3. QED BY <1>2, <2>1, <2>2, Moving
  <1>6. \A y \in Player : Writes(y)' <=> \E b \in bufs' : b.ch = y /\ ~b.left
    <2>1. \A y \in Player : Writes(y)' <=> y # p /\ Writes(y)
      BY WritingAssumption DEF Writes
    <2>2. \A y \in Player : (\E b \in bufs' : b.ch = y /\ ~b.left) <=> y # p /\ \E b \in bufs : b.ch = y /\ ~b.left
      <3>1. \A b \in bufs : f[b].ch = b.ch /\ (~f[b].left <=> ~b.left /\ b.ch # p)
        BY <1>1
      <3>2. \A c : c \in bufs' <=> \E b \in bufs : c = f[b]
        BY <1>2
      <3>3. SUFFICES ASSUME NEW y \in Player
                     PROVE  (\E c \in bufs' : c.ch = y /\ ~c.left) <=> y # p /\ \E b \in bufs : b.ch = y /\ ~b.left
        OBVIOUS
      <3>4. ASSUME NEW c \in bufs', c.ch = y, ~c.left PROVE y # p /\ \E b \in bufs : b.ch = y /\ ~b.left
        <4>1. PICK b \in bufs : c = f[b]
          BY <3>2
        <4>2. QED BY <3>1, <3>4, <4>1
      <3>5. ASSUME y # p, NEW b \in bufs, b.ch = y, ~b.left PROVE \E c \in bufs' : c.ch = y /\ ~c.left
        <4>1. f[b] \in bufs' /\ f[b].ch = y /\ ~f[b].left
          BY <3>1, <3>2, <3>5
        <4>2. QED BY <4>1
      <3>6. QED BY <3>4, <3>5
    <2>3. QED BY <2>1, <2>2 DEF IInv, Sessions
  <1>7. Sessions'
    BY <1>5, <1>6 DEF Sessions
  <1>8. TypeOK'
    BY <1>5 DEF IInv, TypeOK, Texts, Session0
  <1>9. Unsent'
    <2>1. \A y \in Player : pnote'[y] # Nil => pnote'[y] = pnote[y] /\ pos'[y] # Nil
      BY <1>4, WritingAssumption DEF IInv, Unsent
    <2>2. QED BY <2>1 DEF IInv, Unsent
  <1>10. QED BY <1>5, <1>7, <1>8, <1>9 DEF IInv

LEMMA StruckKeeps == ASSUME IInv, NEW p \in Player, Struck(p) PROVE IInv'
  BY Leaving, Typing DEF Struck

LEMMA GoneKeeps == ASSUME IInv, NEW p \in Player, Quit(p) \/ Forget(p) PROVE IInv'
  BY Leaving, Typing DEF Quit, Forget, Gone

\* Whose memory changes hands is not in the game, so that he left his session and has no note.
LEMMA EnterKeeps == ASSUME IInv, NEW p \in Player, Enter(p) PROVE IInv'
  <1> USE Typing
  <1>1. PICK q \in Player \ InGame : Inherited(p, q)
    BY DEF Enter
  <1>2. /\ pos' = [pos EXCEPT ![p] = "standing"] /\ known' = known \cup {p} /\ pos[p] = Nil /\ pos[q] = Nil
        /\ UNCHANGED <<board, note, pnote, notes, disk, unsaved>>
    BY <1>1 DEF Enter, InGame
  <1> DEFINE g(x) == IF x = p THEN q ELSE IF x = q THEN p ELSE x
             f == [b \in bufs |-> [b EXCEPT !.ch = g(@)]]
  <1>3. \A b \in bufs : f[b] \in Session0 /\ f[b].kind = b.kind /\ f[b].of = b.of /\ f[b].orig = b.orig
                        /\ f[b].ch = g(b.ch) /\ f[b].left = b.left
    BY <1>1 DEF Session0
  <1>4. bufs' = {f[b] : b \in bufs}
    BY <1>1 DEF Inherited
  <1> HIDE DEF f
  <1>5. pnote[p] = Nil /\ pnote[q] = Nil
    BY <1>1, <1>2 DEF IInv, Unsent
  <1>6. \A b \in bufs : b.ch \in Player /\ (b.ch = p \/ b.ch = q => b.left)
    BY <1>1, <1>2 DEF IInv, Sessions, Writes, Session0
  <1>7. /\ bufs' \subseteq Session0 /\ Pointing' /\ NoneUnwritten' /\ FinishedSurvives' /\ OnDisk'
        /\ \A b, c \in bufs' : b.ch = c.ch \/ b.of = c.of => b = c
    <2>1. \A b \in bufs : /\ f[b] \in Session0 /\ f[b].kind = b.kind /\ f[b].of = b.of /\ f[b].orig = b.orig
                          /\ ~f[b].left => ~b.left /\ f[b].ch = b.ch /\ pnote'[b.ch] = pnote[b.ch]
                          /\ pnote'[f[b].ch] \in {pnote[b.ch], Nil}
      BY <1>2, <1>3, <1>5, <1>6
    <2>2. \A b, c \in bufs : f[b].ch = f[c].ch => b.ch = c.ch
      BY <1>3
    <2>3. QED BY <1>2, <1>4, <2>1, <2>2, Moving
  <1>8. \A y \in Player : Writes(y)' <=> \E b \in bufs' : b.ch = y /\ ~b.left
    <2>1. \A y \in Player : Writes(y)' <=> Writes(y)
      BY <1>2 DEF Writes
    <2>2. \A y \in Player : (\E b \in bufs' : b.ch = y /\ ~b.left) <=> \E b \in bufs : b.ch = y /\ ~b.left
      BY <1>3, <1>4, <1>6
    <2>3. QED BY <2>1, <2>2 DEF IInv, Sessions
  <1>9. Sessions'
    BY <1>7, <1>8 DEF Sessions
  <1>10. TypeOK'
    BY <1>2, <1>7 DEF IInv, TypeOK, Texts, Session0
  <1>11. Unsent'
    BY <1>2 DEF IInv, Unsent
  <1>12. QED BY <1>7, <1>9, <1>10, <1>11 DEF IInv

LEMMA CrashKeeps == ASSUME IInv, Crash PROVE IInv'
  <1> USE Typing
  <1>1. /\ pos' = [p \in Player |-> Nil] /\ bufs' = {} /\ pnote' = [p \in Player |-> Nil]
        /\ board' = disk.board /\ note' = disk.notes /\ notes' = DOMAIN disk.notes /\ unsaved' = {}
        /\ UNCHANGED <<known, disk>>
    BY DEF Crash
  <1>2. /\ DOMAIN board' \subseteq Message /\ board' \in [DOMAIN board' -> [author : Player, text : Text]]
        /\ note' \in [DOMAIN note' -> [from : Player, to : Player, text : Texts, unread : BOOLEAN]]
        /\ DOMAIN note' \subseteq Note
    BY <1>1 DEF IInv, OnDisk, FinishedSurvives
  <1>3. TypeOK'
    BY <1>1, <1>2 DEF TypeOK, Texts
  <1>4. Sessions' /\ Pointing' /\ Unsent' /\ OnDisk'
    BY <1>1 DEF IInv, Sessions, Writes, Pointing, Unsent, OnDisk
  <1>5. NoneUnwritten'
    BY <1>2 DEF NoneUnwritten
  <1>6. FinishedSurvives'
    BY <1>1 DEF FinishedSurvives
  <1>7. QED BY <1>3, <1>4, <1>5, <1>6 DEF IInv

-----------------------------------------------------------------------------
(* The theorems. *)

LEMMA Invariance == ASSUME Careful PROVE Spec => []IInv
  <1>1. Init => IInv
    <2>1. SUFFICES ASSUME Init PROVE IInv
      OBVIOUS
    <2>2. DOMAIN board = {} /\ DOMAIN note = {} /\ DOMAIN disk.board = {} /\ DOMAIN disk.notes = {}
      BY <2>1 DEF Init, None
    <2>3. TypeOK
      BY <2>1, <2>2 DEF Init, None, TypeOK
    <2>4. Sessions /\ Pointing /\ Unsent /\ NoneUnwritten /\ FinishedSurvives
      BY <2>1, <2>2, WritingAssumption DEF Init, Sessions, Writes, Pointing, Unsent, NoneUnwritten, FinishedSurvives
    <2>5. OnDisk
      BY <2>1, <2>2 DEF Init, None, OnDisk
    <2>6. QED BY <2>3, <2>4, <2>5 DEF IInv
  <1>2. IInv /\ [Next]_vars => IInv'
    <2>1. ASSUME IInv, UNCHANGED vars PROVE IInv'
      BY <2>1 DEF vars, IInv, TypeOK, Sessions, Writes, Pointing, Unsent, NoneUnwritten, FinishedSurvives, OnDisk
    <2>2. ASSUME IInv, NEW p \in Player, Act(p) PROVE IInv'
      <3>1. CASE Enter(p) \/ Quit(p) \/ Forget(p) \/ Struck(p)
        BY <2>2, <3>1, EnterKeeps, GoneKeeps, StruckKeeps
      <3>2. CASE Attacked(p) \/ Peace(p)
        BY <2>2, <3>2, AttackedKeeps
      <3>3. CASE Finish(p) \/ Configure(p)
        BY <2>2, <3>3, FinishKeeps, ConfigureKeeps
      <3>4. CASE Cancel(p)
        BY <2>2, <3>4, WritersSession, UnfinishedKeeps DEF Cancel
      <3>5. CASE \E m \in Message : Write(p, m) \/ Edit(p, m) \/ Delete(p, m)
        BY <2>2, <3>5, WriteKeeps, EditKeeps, DeleteKeeps
      <3>6. CASE \E t \in Text : Line(p, t)
        BY <2>2, <3>6, LineKeeps
      <3>7. CASE \E n \in Note : Read(p, n) \/ \E q \in Player : Send(p, q, n)
        BY <2>2, <3>7, ReadKeeps, SendKeeps
      <3>8. CASE \E N \in SUBSET notes : Remove(p, N)
        BY <2>2, <3>8, RemoveKeeps
      <3>9. QED BY <2>2, <3>1, <3>2, <3>3, <3>4, <3>5, <3>6, <3>7, <3>8 DEF Act
    <2>3. QED BY <2>1, <2>2, CrashKeeps DEF Next
  <1>3. QED BY <1>1, <1>2, PTL DEF Spec

\* Provided that nobody begins a session beside one he has, nor edits or deletes a message
\* that a session is of: who writes has a session, who does not has none but what a
\* writer left, and each points into a message of the board, or into a note that was not sent,
\* which no other session has, through blows, deaths, leavings and reused memory.
THEOREM WritingSessionsSound == ASSUME Careful PROVE Spec => []SessionsSound
  <1>1. IInv => SessionsSound
    BY DEF SessionsSound, IInv, Pointing, Sessions
  <1>2. QED BY <1>1, Invariance, PTL

\* On the same conditions: the board file has every message that is not being written for the
\* first time, with its author, and with its text but for edits since the board was last
\* saved; and the file of notes has every note that was sent, as it is.
THEOREM WritingFinishedSurvives == ASSUME Careful PROVE Spec => []FinishedSurvives
  <1>1. IInv => FinishedSurvives
    BY DEF IInv
  <1>2. QED BY <1>1, Invariance, PTL

\* On the same conditions: a message without a text has a session that may give it one, also after a boot:
\* what save_board wrote of an unfinished message is what its writer had.
THEOREM WritingNoneUnwritten == ASSUME Careful PROVE Spec => []NoneUnwritten
  <1>1. IInv => NoneUnwritten
    BY DEF IInv
  <1>2. QED BY <1>1, Invariance, PTL
=============================================================================
