------------------------------ MODULE Writing ------------------------------
(***************************************************************************)
(* The line editor (write.c) and those who write with it: messages on a     *)
(* board (board.c) and notes to players (act_comm.c).  A session is a       *)
(* record of its own, with a buffer and a pointer to the string that will   *)
(* be replaced; in the meantime that string is the buffer, and anybody may  *)
(* read it, save it, or try to delete what it belongs to.  A blow ends the  *)
(* session; a writer who dies of something else, or is thrown out, leaves   *)
(* it behind.                                                               *)
(***************************************************************************)
EXTENDS Integers, FiniteSets

CONSTANTS
    Player,
    Boss,           \* those who may delete any message (the trusted, bosses of the clan)
    Message, Note,  \* MESSAGE_DATA and NOTE_DATA, in the lists or free
    Text, Empty,    \* what may be written, and the text of no lines
    Full,           \* messages a board has room for (300)
    Mailbox,        \* notes one may have with another (10)
    Careful,        \* two checks that the code lacks are made, see Busy and Begins
    Nil

ASSUME WritingAssumption ==
    /\ Boss \subseteq Player /\ Nil \notin Player \cup Message \cup Note \cup Text
    /\ Message \cap Note = {} /\ Nil \notin {"standing", "writing", "fighting"}
    /\ Empty \in Text /\ {Full, Mailbox} \subseteq Nat /\ Careful \in BOOLEAN

VARIABLES
    pos,        \* position of those in the game, Nil of those who are not
    known,      \* players with a file
    bufs,       \* first_buf
    board,      \* author and text of the messages of board->first_message
    note,       \* from, to, text and unread of notes that are in use
    pnote,      \* ch->pnote
    notes,      \* first_note
    disk,       \* the files of the board and of the notes
    unsaved     \* history: messages of which the file may have another text, see FinishedSurvives

vars == <<pos, known, bufs, board, note, pnote, notes, disk, unsaved>>

InGame == {p \in Player : pos[p] # Nil}
Drop(f, x) == [y \in DOMAIN f \ {x} |-> f[y]]
Put(f, x, v) == [y \in DOMAIN f \cup {x} |-> IF y = x THEN v ELSE f[y]]

\* The session that write_interpret and abort_writing find.
Session(p) == CHOOSE b \in bufs : b.ch = p
Writes(p) == pos[p] = "writing"

\* The messages whose strings build_editstr has lent to the editor.
Edited == {m \in DOMAIN board : \E b \in bufs : b.kind = "edit" /\ b.of = m}

\* msg->message, which is the buffer while somebody writes it.
TextOf(m) == IF \E b \in bufs : b.of = m THEN (CHOOSE b \in bufs : b.of = m).text ELSE board[m].text

\* save_board and save_notes write all there is.
BoardFile(B) == disk' = [disk EXCEPT !.board = B] /\ unsaved' = Edited
AllOf(B) == [m \in DOMAIN B |-> [B[m] EXCEPT !.text = TextOf(m)]]
NoteFile(f, N) == disk' = [disk EXCEPT !.notes = [n \in N |-> f[n]]] /\ UNCHANGED unsaved

\* Who may begin to write; with Careful, nobody who has a session already.
Begins(p) == p \in InGame /\ pos[p] = "standing" /\ (Careful => ~\E b \in bufs : b.ch = p)

\* write_start
Start(p, kind, x, t) ==
    /\ bufs' = bufs \cup {[ch |-> p, kind |-> kind, of |-> x, text |-> t, orig |-> t, left |-> FALSE]}
    /\ pos' = [pos EXCEPT ![p] = "writing"]

\* do_delete and do_edit_message ask whether a session has the message as its parameter, and
\* say that someone is editing it: the sessions of do_write have, those of do_edit_message
\* have not.  With Careful these are found, too.
Busy(m) == \E b \in bufs : b.of = m /\ (Careful \/ b.kind = "write")

-----------------------------------------------------------------------------
(* board.c *)

\* do_write: the message is on the board from the first.
Write(p, m) ==
    /\ Begins(p) /\ m \notin DOMAIN board /\ Cardinality(DOMAIN board) < Full
    /\ board' = Put(board, m, [author |-> p, text |-> Nil])
    /\ Start(p, "write", m, Empty)
    /\ UNCHANGED <<known, note, pnote, notes, disk, unsaved>>

\* do_edit_message
Edit(p, m) ==
    /\ Begins(p) /\ m \in DOMAIN board /\ board[m].author = p /\ ~Busy(m)
    /\ Start(p, "edit", m, TextOf(m))
    /\ UNCHANGED <<known, board, note, pnote, notes, disk, unsaved>>

\* do_delete
Delete(p, m) ==
    /\ p \in InGame /\ pos[p] = "standing" /\ m \in DOMAIN board /\ (board[m].author = p \/ p \in Boss)
    /\ ~Busy(m)
    /\ board' = Drop(board, m) /\ BoardFile(Drop(AllOf(board), m))
    /\ UNCHANGED <<pos, known, bufs, note, pnote, notes>>

\* do_board
Configure(p) ==
    /\ p \in Boss /\ p \in InGame /\ pos[p] = "standing" /\ BoardFile(AllOf(board))
    /\ UNCHANGED <<pos, known, bufs, board, note, pnote, notes>>

-----------------------------------------------------------------------------
(* act_comm.c: notes *)

Letters(p, q) == {n \in notes : note[n].from = p /\ note[n].to = q}

Send(p, q, n) ==
    /\ Begins(p) /\ q \in known /\ n \notin DOMAIN note
    /\ Cardinality(Letters(p, q)) < Mailbox
    /\ note' = Put(note, n, [from |-> p, to |-> q, text |-> Nil, unread |-> TRUE])
    /\ pnote' = [pnote EXCEPT ![p] = n]
    /\ Start(p, "note", n, Empty)
    /\ NoteFile(note, notes)
    /\ UNCHANGED <<known, board, notes>>

Read(p, n) ==
    /\ p \in InGame /\ pos[p] = "standing" /\ n \in notes /\ note[n].to = p
    /\ note' = [note EXCEPT ![n].unread = FALSE] /\ NoteFile(note', notes)
    /\ UNCHANGED <<pos, known, bufs, board, pnote, notes>>

\* note del, of one or of all
Remove(p, N) ==
    /\ p \in InGame /\ pos[p] = "standing" /\ N # {} /\ N \subseteq notes /\ \A n \in N : note[n].to = p
    /\ notes' = notes \ N /\ note' = [n \in DOMAIN note \ N |-> note[n]] /\ NoteFile(note', notes')
    /\ UNCHANGED <<pos, known, bufs, board, pnote>>

-----------------------------------------------------------------------------
(* write.c *)

\* A line more, or fewer, or all anew.
Line(p, t) ==
    /\ p \in InGame /\ Writes(p) /\ t # Session(p).text
    /\ bufs' = (bufs \ {Session(p)}) \cup {[Session(p) EXCEPT !.text = t]}
    /\ UNCHANGED <<pos, known, board, note, pnote, notes, disk, unsaved>>

\* Mutant: it is written with the next change of the board.
KeptUnwritten(b) ==
    board' = [board EXCEPT ![b.of].text = b.text] /\ UNCHANGED <<note, pnote, notes, disk, unsaved>>

\* finished_editing: the message and its board go to the disk.
Kept(b) ==
    /\ board' = [board EXCEPT ![b.of].text = b.text]
    /\ BoardFile([AllOf(board) EXCEPT ![b.of].text = b.text])
    /\ UNCHANGED <<note, pnote, notes>>

\* note_finished: what the writer has as his note is sent.  If whom it is for was deleted
\* meanwhile, he keeps it for ever.
Delivered(b) ==
    /\ note' = [note EXCEPT ![b.of].text = b.text]
    /\ LET n == pnote[b.ch] IN
       IF n # Nil /\ note[n].to \in known
       THEN /\ notes' = notes \cup {n} /\ pnote' = [pnote EXCEPT ![b.ch] = Nil]
            /\ NoteFile(note', notes')
       ELSE UNCHANGED <<notes, pnote, disk, unsaved>>
    /\ UNCHANGED board

\* build_finishedstr: an edited message is saved when the board is the next time.
Reworded(b) ==
    /\ board' = [board EXCEPT ![b.of].text = b.text] /\ unsaved' = unsaved \cup {b.of}
    /\ UNCHANGED <<note, pnote, notes, disk>>

\* ".s": the string and what the session's function does with it.
Finish(p) ==
    /\ p \in InGame /\ Writes(p)
    /\ LET b == Session(p) IN
       /\ bufs' = bufs \ {b} /\ pos' = [pos EXCEPT ![p] = "standing"]
       /\ \/ b.kind = "write" /\ Kept(b)
          \/ b.kind = "edit" /\ Reworded(b)
          \/ b.kind = "note" /\ Delivered(b)
    /\ UNCHANGED known

\* Mutant: the message stays, empty.
UnwriteNothing(b) == UNCHANGED board

\* A message that was never finished leaves the board, and its old text comes back.
Unwrite(b) ==
    board' = IF b.kind = "write" THEN Drop(board, b.of) ELSE [board EXCEPT ![b.of].text = b.orig]

\* The session of p ends without a string: ".q" and abort_writing.  Nothing is saved, and of
\* notes it is that of p that goes.
Unfinished(p) ==
    LET b == Session(p) IN
    /\ bufs' = bufs \ {b}
    /\ \/ b.kind \in {"write", "edit"} /\ Unwrite(b) /\ UNCHANGED <<note, pnote>>
       \/ /\ b.kind = "note" /\ note' = Drop(note, pnote[p]) /\ pnote' = [pnote EXCEPT ![p] = Nil]
          /\ UNCHANGED board
    /\ UNCHANGED <<known, notes, disk, unsaved>>

Cancel(p) == p \in InGame /\ Writes(p) /\ pos' = [pos EXCEPT ![p] = "standing"] /\ Unfinished(p)

\* Mutant: only a fighter is told.
EndedNever(p) == UNCHANGED <<known, bufs, board, note, pnote, notes, disk, unsaved>>

\* set_fighting and damage call abort_writing for both.
Ended(p) ==
    IF \E b \in bufs : b.ch = p THEN Unfinished(p)
    ELSE UNCHANGED <<known, bufs, board, note, pnote, notes, disk, unsaved>>

Attacked(p) == p \in InGame /\ pos[p] # "fighting" /\ pos' = [pos EXCEPT ![p] = "fighting"] /\ Ended(p)

-----------------------------------------------------------------------------
(* Peace, death, entering and leaving. *)

Peace(p) ==
    /\ p \in InGame /\ pos[p] = "fighting" /\ pos' = [pos EXCEPT ![p] = "standing"]
    /\ UNCHANGED <<known, bufs, board, note, pnote, notes, disk, unsaved>>

\* The session of p goes on without its writer.
Left(p) == bufs' = {IF b.ch = p THEN [b EXCEPT !.left = TRUE] ELSE b : b \in bufs}

\* A writer dies of poison or is slain: no blow, so nobody calls abort_writing.
Struck(p) ==
    /\ p \in InGame /\ Writes(p) /\ pos' = [pos EXCEPT ![p] = "standing"] /\ Left(p)
    /\ UNCHANGED <<known, board, note, pnote, notes, disk, unsaved>>

\* Who enters gets the memory of somebody who left, and the session that was left in it.
Inherited(p, q) ==
    bufs' = {[b EXCEPT !.ch = IF @ = p THEN q ELSE IF @ = q THEN p ELSE @] : b \in bufs}

Enter(p) ==
    /\ p \notin InGame /\ pos' = [pos EXCEPT ![p] = "standing"] /\ known' = known \cup {p}
    /\ \E q \in Player \ InGame : Inherited(p, q)
    /\ UNCHANGED <<board, note, pnote, notes, disk, unsaved>>

\* extract_char and free_char, which know nothing of sessions and of ch->pnote.
Gone(p) ==
    /\ pos' = [pos EXCEPT ![p] = Nil] /\ pnote' = [pnote EXCEPT ![p] = Nil] /\ Left(p)
    /\ UNCHANGED <<board, note, notes, disk, unsaved>>

\* do_quit: his command, or that of char_update for one who is idle, or of do_deny.
Quit(p) == p \in InGame /\ pos[p] # "fighting" /\ Gone(p) /\ UNCHANGED known

\* do_sdelete: the file is gone and he is extracted.
Forget(p) == p \in InGame /\ pos[p] = "standing" /\ Gone(p) /\ known' = known \ {p}

\* Everybody is out, the board is read when it is first used and the notes are read at boot.
Crash ==
    /\ pos' = [p \in Player |-> Nil] /\ bufs' = {} /\ pnote' = [p \in Player |-> Nil]
    /\ board' = disk.board /\ note' = disk.notes /\ notes' = DOMAIN disk.notes
    /\ unsaved' = {} /\ UNCHANGED <<known, disk>>

None == [x \in {} |-> Nil]

Init ==
    /\ pos = [p \in Player |-> Nil] /\ known = {} /\ bufs = {} /\ board = None /\ note = None
    /\ pnote = [p \in Player |-> Nil] /\ notes = {} /\ disk = [board |-> None, notes |-> None]
    /\ unsaved = {}

Act(p) ==
    \/ Enter(p) \/ Quit(p) \/ Forget(p) \/ Attacked(p) \/ Struck(p) \/ Peace(p) \/ Finish(p) \/ Cancel(p) \/ Configure(p)
    \/ \E m \in Message : Write(p, m) \/ Edit(p, m) \/ Delete(p, m)
    \/ \E t \in Text : Line(p, t)
    \/ \E n \in Note : Read(p, n) \/ \E q \in Player : Send(p, q, n)
    \/ \E N \in SUBSET notes : Remove(p, N)

Next == Crash \/ \E p \in Player : Act(p)

Spec == Init /\ [][Next]_vars

-----------------------------------------------------------------------------
Texts == Text \cup {Nil}

TypeOK ==
    /\ pos \in [Player -> {"standing", "writing", "fighting", Nil}] /\ known \subseteq Player
    /\ bufs \subseteq [ch : Player, kind : {"write", "edit", "note"}, of : Message \cup Note,
                       text : Text, orig : Text, left : BOOLEAN]
    /\ DOMAIN board \subseteq Message /\ board \in [DOMAIN board -> [author : Player, text : Texts]]
    /\ DOMAIN note \subseteq Note
    /\ note \in [DOMAIN note -> [from : Player, to : Player, text : Texts, unread : BOOLEAN]]
    /\ pnote \in [Player -> Note \cup {Nil}] /\ notes \subseteq Note
    /\ unsaved \subseteq Message

\* With Careful: whoever writes has a session, and a session is that of one who writes, whom
\* a fight ends it for, or was left by its writer when he died or was thrown out
\* (update.c:1232, 1258), and then it may be anybody's.  Left or not, each points into a
\* message that is on the board, or into a note that was not sent, of which there is no other
\* session; and nobody has two (write.c:60-70, 402-424, fight.c:976, 2125, board.c:504-509).
SessionsSound ==
    /\ TypeOK
    /\ \A p \in Player : Writes(p) <=> \E b \in bufs : b.ch = p /\ ~b.left
    /\ \A b \in bufs :
          IF b.kind = "note" THEN b.of \in DOMAIN note \ notes /\ (~b.left => pnote[b.ch] = b.of)
          ELSE b.of \in DOMAIN board /\ (~b.left => board[b.of].author = b.ch)
    /\ \A b, c \in bufs : b.of = c.of \/ b.ch = c.ch => b = c

\* With Careful: what was finished is on the disk as its owner left it, so that a crash loses
\* only what was being written: every message of the board with its text, and every note.
\* There are two exceptions: a message that is being written for the first time, by whoever
\* that was, need not be there (board.c:700); and a message may be there with another text if an
\* edit of it was finished since the board was last saved, or was under way then (build.c:4572
\* saves nothing, and save_board saves what it finds).
FinishedSurvives ==
    /\ \A m \in DOMAIN board :
          \/ \E b \in bufs : b.kind = "write" /\ b.of = m
          \/ /\ m \in DOMAIN disk.board /\ disk.board[m].author = board[m].author
             /\ m \in unsaved \/ disk.board[m].text = board[m].text
    /\ notes = DOMAIN disk.notes /\ \A n \in notes : note[n] = disk.notes[n]

\* With Careful: no message stays on the board without a text unless a session is there to give
\* it one, though the board has it from the first (board.c:700-741).
NoneUnwritten == \A m \in DOMAIN board : board[m].text = Nil => \E b \in bufs : b.of = m
=============================================================================
