----------------------------- MODULE VaultTasks -----------------------------
(***************************************************************************)
(* The task lines of the vault (internal/tasks, remind.Add, cmd/qilla/      *)
(* task.go).  `qilla task new` finds the next free id by reading the notes   *)
(* one after the other; somebody writes the line later, and copies it to     *)
(* other notes.  `done`, `sweep`, `summary` and `remind add` read a note and *)
(* put a new one in its place (a temporary file of their own, then a         *)
(* rename), the user edits the same notes, and nothing is locked.  A note    *)
(* that cannot be read is passed over by those that walk.                    *)
(*                                                                         *)
(* A note is the set of its task lines: order, headings, text and children   *)
(* of a line are left out, the ids are those of one day.                     *)
(***************************************************************************)
EXTENDS Naturals, Sequences, SequencesExt, FiniteSetsExt

CONSTANTS
    Notes,      \* the walk: a sequence of notes, "archive" and "todo" among them
    Writers,    \* tasks: who asks for an id and writes the line
    Doners,     \* `qilla task done` commands
    Sweepers,   \* `qilla task sweep` commands, run again and again
    Summaries,  \* `qilla task summary` commands
    Reminders,  \* `qilla remind add` commands, and the lines they add
    MaxId,      \* bound: ids in a day
    MaxCopies   \* bound: lines copied by hand

VARIABLES
    note,       \* per note: its lines
    writer,     \* per task: the walk for its id, then the id (`before` and `swept`
                \* are history: ids written when it began, but for those of a note
                \* it could not read; a sweep meanwhile)
    command,    \* per command: program counter and locals
    copies,
    (* history, read by properties only *)
    written,    \* the lines the notes were given: note, task and id
    finished,   \* ids that a `done` walked to the end, and no open line since
    stale,      \* a note was replaced that had changed since it was read
    crossed,    \* ids of which an open line was written while a `done` walked
    unread      \* notes with the ids whose `done` could not read them last

vars == <<note, writer, command, copies, written, finished, stale, crossed, unread>>
history == <<written, finished, stale, crossed, unread>>

Rewriters == Doners \cup Sweepers \cup Summaries \cup Reminders
Todo == "todo"
Archive == "archive"
NoteNames == Range(Notes)

Tasks == Writers \cup Reminders
Line == [task: Tasks, id: 0..MaxId, box: {"open", "ticked", "stamped"}]
Ids(lines) == {l.id : l \in lines}
Carrying(lines, id) == {l \in lines : l.id = id}

NotStarted == [pc |-> "off", pos |-> 1, high |-> 0, id |-> 0, before |-> {}, swept |-> FALSE]
Off == [pc |-> "off", id |-> 0, pos |-> 1, base |-> {}, other |-> {}]
Ended == [Off EXCEPT !.pc = "done"]
Over(c) == IF c \in Sweepers THEN Off ELSE Ended

Init ==
    /\ note = [n \in NoteNames |-> {}]
    /\ writer = [w \in Writers |-> NotStarted]
    /\ command = [c \in Rewriters |-> Off]
    /\ copies = 0
    /\ written = {} /\ finished = {} /\ stale = FALSE /\ crossed = {} /\ unread = {}

Walking(id) == \E d \in Doners : command[d].pc \in {"read", "rename"} /\ command[d].id = id

\* Commands that rewrite: the note is what it makes of the lines it has read.
Replace(n, c, lines) ==
    /\ note' = [note EXCEPT ![n] = lines]
    /\ stale' = (stale \/ note[n] # command[c].base)

-----------------------------------------------------------------------------
(* qilla task new: NextID.                                                  *)

StartWalk(w) ==
    /\ writer[w].pc = "off"
    /\ writer' = [writer EXCEPT ![w].pc = "walk",
                                ![w].before = {entry[3] : entry \in written}]
    /\ UNCHANGED <<note, command, copies, history>>

Highest(n) == Max(Ids(note[n]) \cup {0})

\* A note, or the directory it is in, that cannot be read is passed over.
WalkNote(w) ==
    LET n == Notes[writer[w].pos]
        high == Max({writer[w].high, Highest(n)})
    IN  /\ writer[w].pc = "walk"
        /\ writer[w].pos <= Len(Notes)
        /\ \/ writer' = [writer EXCEPT ![w].pos = @ + 1, ![w].high = high]
           \/ writer' = [writer EXCEPT ![w].pos = @ + 1, ![w].before = @ \ Ids(note[n])]
        /\ UNCHANGED <<note, command, copies, history>>

\* One past the highest.  Nothing but a written line reserves the id.
NextID(w) ==
    /\ writer[w].pc = "walk"
    /\ writer[w].pos > Len(Notes)
    /\ writer[w].high < MaxId
    /\ writer' = [writer EXCEPT ![w] = [NotStarted EXCEPT !.pc = "write", !.id = writer[w].high + 1]]
    /\ UNCHANGED <<note, command, copies, history>>

-----------------------------------------------------------------------------
(* The user and the agents, who edit notes by other means.                  *)

Put(n, line) ==
    /\ note' = [note EXCEPT ![n] = @ \cup {line}]
    /\ written' = written \cup {<<n, line.task, line.id>>}
    /\ finished' = IF line.box = "open" THEN finished \ {line.id} ELSE finished
    /\ crossed' = IF line.box = "open" /\ Walking(line.id) THEN crossed \cup {line.id} ELSE crossed

WriteLine(w, n) ==
    /\ writer[w].pc = "write" /\ n # Archive
    /\ Put(n, [task |-> w, id |-> writer[w].id, box |-> "open"])
    /\ writer' = [writer EXCEPT ![w].pc = "done"]
    /\ UNCHANGED <<command, copies, stale, unread>>

CopyLine(from, to) ==
    /\ from # to /\ to # Archive
    /\ copies < MaxCopies
    /\ \E line \in note[from] : line \notin note[to] /\ Put(to, line)
    /\ copies' = copies + 1
    /\ UNCHANGED <<writer, command, stale, unread>>

Tick(n) ==
    /\ \E line \in note[n] :
         /\ line.box = "open"
         /\ note' = [note EXCEPT ![n] = (@ \ {line}) \cup {[line EXCEPT !.box = "ticked"]}]
    /\ UNCHANGED <<writer, command, copies, history>>

-----------------------------------------------------------------------------
(* qilla task done <id>: note by note.                                      *)

StartDone(d, id) ==
    /\ command[d].pc = "off"
    /\ \E entry \in written : entry[3] = id
    /\ command' = [command EXCEPT ![d].pc = "read", ![d].id = id]
    /\ UNCHANGED <<note, writer, copies, history>>

NextNote(d) ==
    IF command[d].pos < Len(Notes)
    THEN command' = [command EXCEPT ![d].pc = "read", ![d].pos = @ + 1, ![d].base = {}]
         /\ UNCHANGED finished
    ELSE command' = [command EXCEPT ![d] = Ended]
         /\ finished' = finished \cup {command[d].id}

Here(d) == <<Notes[command[d].pos], command[d].id>>

\* Mutant: a note is left alone once one of its lines is done.
ToStamp_First(lines, id) ==
    IF \E l \in Carrying(lines, id) : l.box = "stamped" THEN {}
    ELSE {l \in Carrying(lines, id) : l.box # "stamped"}

ToStamp(lines, id) == {l \in Carrying(lines, id) : l.box # "stamped"}

\* A note without such a line is not rewritten; one that cannot be read is passed
\* over without a word, like those of a directory that cannot be.
ReadForDone(d) ==
    LET n == Notes[command[d].pos]
    IN  /\ command[d].pc = "read" /\ d \in Doners
        /\ \/ /\ ToStamp(note[n], command[d].id) = {}
              /\ NextNote(d)
              /\ unread' = unread \ {Here(d)}
           \/ /\ ToStamp(note[n], command[d].id) # {}
              /\ command' = [command EXCEPT ![d].pc = "rename", ![d].base = note[n]]
              /\ UNCHANGED <<finished, unread>>
           \/ /\ NextNote(d)
              /\ unread' = unread \cup {Here(d)}
        /\ UNCHANGED <<note, writer, copies, written, stale, crossed>>

StampCopies(d) ==
    LET base == command[d].base
        old == ToStamp(base, command[d].id)
    IN  /\ command[d].pc = "rename" /\ d \in Doners
        /\ Replace(Notes[command[d].pos], d,
                   (base \ old) \cup {[l EXCEPT !.box = "stamped"] : l \in old})
        /\ NextNote(d)
        /\ unread' = unread \ {Here(d)}
        /\ UNCHANGED <<writer, copies, written, crossed>>

-----------------------------------------------------------------------------
(* qilla task sweep.                                                        *)

DoneLines(lines) == {l \in lines : l.box # "open"}

\* Nothing done, or --dry-run: nothing is written.
ReadForSweep(s) ==
    /\ command[s].pc = "off" /\ s \in Sweepers
    /\ command' = [command EXCEPT ![s] =
         IF DoneLines(note[Todo]) = {} THEN @
         ELSE [@ EXCEPT !.pc = "read", !.base = note[Todo]]]
    /\ UNCHANGED <<note, writer, copies, history>>

ReadArchive(s) ==
    /\ command[s].pc = "read" /\ s \in Sweepers
    /\ command' = [command EXCEPT ![s].pc = "archive", ![s].other = note[Archive]]
    /\ UNCHANGED <<note, writer, copies, history>>

SweepArchive(s) ==
    /\ command[s].pc = "archive"
    /\ note' = [note EXCEPT ![Archive] = command[s].other \cup DoneLines(command[s].base)]
    /\ stale' = (stale \/ note[Archive] # command[s].other)
    /\ command' = [command EXCEPT ![s].pc = "todo", ![s].other = {}]
    /\ UNCHANGED <<writer, copies, written, finished, crossed, unread>>

SweepTodo(s) ==
    LET swept == DoneLines(command[s].base)
    IN  /\ command[s].pc = "todo"
        /\ Replace(Todo, s, command[s].base \ swept)
        /\ command' = [command EXCEPT ![s] = Over(s)]
        /\ writer' = [w \in Writers |-> IF writer[w].pc = "walk" THEN [writer[w] EXCEPT !.swept = TRUE]
                                       ELSE writer[w]]
        /\ UNCHANGED <<copies, written, finished, crossed, unread>>

-----------------------------------------------------------------------------
(* qilla task summary and qilla remind add.                                 *)

ReadTodo(c) ==
    /\ command[c].pc = "off" /\ c \in Summaries \cup Reminders
    /\ command' = [command EXCEPT ![c].pc = "rename", ![c].base = note[Todo]]
    /\ UNCHANGED <<note, writer, copies, history>>

\* The callout is no task line; without one nothing is written (Dies).
Summarize(c) ==
    /\ command[c].pc = "rename" /\ c \in Summaries
    /\ Replace(Todo, c, command[c].base)
    /\ command' = [command EXCEPT ![c] = Ended]
    /\ UNCHANGED <<writer, copies, written, finished, crossed, unread>>

AddReminder(c) ==
    /\ command[c].pc = "rename" /\ c \in Reminders
    /\ Replace(Todo, c, command[c].base \cup {[task |-> c, id |-> 0, box |-> "open"]})
    /\ written' = written \cup {<<Todo, c, 0>>}
    /\ command' = [command EXCEPT ![c] = Ended]
    /\ UNCHANGED <<writer, copies, finished, crossed, unread>>

\* The command dies or a write fails; its temporary file is nobody's note.
Dies(c) ==
    /\ command[c].pc \notin {"off", "done"}
    /\ command' = [command EXCEPT ![c] = Over(c)]
    /\ UNCHANGED <<note, writer, copies, history>>

Ask(w) == StartWalk(w) \/ WalkNote(w) \/ NextID(w)

Rewrite(c) ==
    \/ ReadForDone(c) \/ StampCopies(c)
    \/ ReadForSweep(c) \/ ReadArchive(c) \/ SweepArchive(c) \/ SweepTodo(c)
    \/ ReadTodo(c) \/ Summarize(c) \/ AddReminder(c)
    \/ Dies(c)

Next ==
    \/ \E w \in Writers : Ask(w)
    \/ \E w \in Writers, n \in NoteNames : WriteLine(w, n)
    \/ \E from, to \in NoteNames : CopyLine(from, to)
    \/ \E n \in NoteNames : Tick(n)
    \/ \E d \in Doners, id \in 1..MaxId : StartDone(d, id)
    \/ \E c \in Rewriters : Rewrite(c)

Spec == Init /\ [][Next]_vars

-----------------------------------------------------------------------------
(* Properties.                                                              *)

TypeOK ==
    /\ note \in [NoteNames -> SUBSET Line]
    /\ writer \in [Writers -> [pc: {"off", "walk", "write", "done"}, pos: 1..(Len(Notes) + 1),
                               high: 0..MaxId, id: 0..MaxId,
                               before: SUBSET (0..MaxId), swept: BOOLEAN]]
    /\ command \in [Rewriters -> [pc: {"off", "read", "archive", "todo", "rename", "done"},
                                  id: 0..MaxId, pos: 1..Len(Notes),
                                  base: SUBSET Line, other: SUBSET Line]]
    /\ copies \in 0..MaxCopies
    /\ written \subseteq (NoteNames \X Tasks \X (0..MaxId))
    /\ finished \subseteq 1..MaxId /\ crossed \subseteq 0..MaxId
    /\ stale \in BOOLEAN /\ unread \subseteq NoteNames \X (1..MaxId)

\* sweep.go: "Nothing is deleted: the archive is written first, then the todo
\* file, both atomically".  A line that was ever in a note is still there, or in
\* the archive when it was a line of the todo file, whatever command dies in the
\* middle - until a note is replaced that had changed since it was read.
NothingIsDeleted ==
    ~stale => \A entry \in written :
        \E n \in {entry[1]} \cup (IF entry[1] = Todo THEN {Archive} ELSE {}) :
            \E l \in note[n] : l.task = entry[2] /\ l.id = entry[3]

\* tasks.go: "the next free id for day: one past the highest sequence already
\* written anywhere".  The id that NextID returns was on no line when it began,
\* unless the note of that line could not be read, a sweep moved lines while it
\* walked, or a replaced note lost some.
IdIsFresh ==
    [][\A w \in Writers :
         NextID(w) => writer'[w].id \notin writer[w].before \/ writer[w].swept \/ stale]_vars

\* Package comment: "tick one and the others quietly lie".  Once a `done` has
\* walked all notes no copy of its task is open in a note it could read, until one
\* is written again, or was written behind the walk, or a note that had changed
\* was replaced.
DoneTicksEveryCopy ==
    \A id \in finished, n \in NoteNames :
        \/ stale \/ id \in crossed \/ <<n, id>> \in unread
        \/ \A l \in Carrying(note[n], id) : l.box # "open"
=============================================================================
