------------------------------ MODULE Handoff ------------------------------
(***************************************************************************)
(* The handoff note of one host (internal/tasks/handoff.go).  Other hosts   *)
(* send it tasks: a line appended to the note, after the header when there   *)
(* is no note yet.  A worker there reads its inbox, does a task (minutes)    *)
(* and marks it by its LINE NUMBER: the note is read again, that line is     *)
(* flipped, and a new note takes the place of the old one.  The user edits   *)
(* the note as well.  Nothing is locked.                                     *)
(***************************************************************************)
EXTENDS Naturals, Sequences, SequencesExt

CONSTANTS
    Jots,       \* tasks sent, one per `qilla task send`
    Workers,    \* those who read the inbox, do a task and mark it
    MaxEdits    \* bound: lines the user removes

VARIABLES
    lines,      \* the note; empty means there is none
    sender,     \* per task: program counter and locals of its `send`
    worker,     \* per worker: program counter and locals
    edits,
    (* history, read by properties only *)
    handled,    \* tasks a worker was done with
    shifted     \* a line was removed by hand, or lost by a replaced note

vars == <<lines, sender, worker, edits, handled, shifted>>

Header == [jot |-> "header", done |-> FALSE]
Entry == {Header} \cup [jot: Jots, done: BOOLEAN]
NotSent == [pc |-> "off", header |-> FALSE, attached |-> FALSE]
AtRest == [pc |-> "idle", line |-> 0, jot |-> "header", base |-> <<>>]

Init ==
    /\ lines = <<>>
    /\ sender = [j \in Jots |-> NotSent]
    /\ worker = [w \in Workers |-> AtRest]
    /\ edits = 0
    /\ handled = {}
    /\ shifted = FALSE

-----------------------------------------------------------------------------
(* qilla task send: stat, open or create, write.                            *)

StatNote(j) ==
    /\ sender[j].pc = "off"
    /\ sender' = [sender EXCEPT ![j].pc = "open", ![j].header = lines = <<>>]
    /\ UNCHANGED <<lines, worker, edits, handled, shifted>>

OpenNote(j) ==
    /\ sender[j].pc = "open"
    /\ sender' = [sender EXCEPT ![j].attached = TRUE,
                                ![j].pc = IF sender[j].header THEN "header" ELSE "line"]
    /\ UNCHANGED <<lines, worker, edits, handled, shifted>>

\* To the note that was opened: the name may mean another one by now.
Append1(j, entry) == lines' = IF sender[j].attached THEN Append(lines, entry) ELSE lines

WriteHeader(j) ==
    /\ sender[j].pc = "header"
    /\ Append1(j, Header)
    /\ sender' = [sender EXCEPT ![j].pc = "line"]
    /\ UNCHANGED <<worker, edits, handled, shifted>>

WriteLine(j) ==
    /\ sender[j].pc = "line"
    /\ Append1(j, [jot |-> j, done |-> FALSE])
    /\ sender' = [sender EXCEPT ![j] = [NotSent EXCEPT !.pc = "sent"]]
    /\ UNCHANGED <<worker, edits, handled, shifted>>

-----------------------------------------------------------------------------
(* The worker: qilla task inbox, the work, qilla task done --line <n>.      *)

IsOpen(i) == i \in DOMAIN lines /\ lines[i] # Header /\ ~lines[i].done

\* Mutant: the number of the task in the inbox, not of its line.
Inbox_Counted(w, i) ==
    /\ worker[w].pc = "idle"
    /\ IsOpen(i)
    /\ worker' = [worker EXCEPT ![w].pc = "work", ![w].jot = lines[i].jot,
         ![w].line = Len(SelectSeq(SubSeq(lines, 1, i), LAMBDA e : e # Header /\ ~e.done))]
    /\ UNCHANGED <<lines, sender, edits, handled, shifted>>

Inbox(w, i) ==
    /\ worker[w].pc = "idle"
    /\ IsOpen(i)
    /\ worker' = [worker EXCEPT ![w].pc = "work", ![w].line = i, ![w].jot = lines[i].jot]
    /\ UNCHANGED <<lines, sender, edits, handled, shifted>>

\* No such line, or not an open one: an error, nothing is marked.
ReadForMark(w) ==
    /\ worker[w].pc = "work"
    /\ handled' = handled \cup {worker[w].jot}
    /\ worker' = [worker EXCEPT ![w] =
         IF IsOpen(@.line) THEN [@ EXCEPT !.pc = "mark", !.base = lines] ELSE AtRest]
    /\ UNCHANGED <<lines, sender, edits, shifted>>

Flipped(base, n) == [base EXCEPT ![n].done = TRUE]

MarkDone(w) ==
    /\ worker[w].pc = "mark"
    /\ lines' = Flipped(worker[w].base, worker[w].line)
    /\ sender' = [j \in Jots |-> [sender[j] EXCEPT !.attached = FALSE]]
    /\ worker' = [worker EXCEPT ![w] = AtRest]
    /\ shifted' = (shifted \/ Len(lines) # Len(worker[w].base))
    /\ UNCHANGED <<edits, handled>>

\* The worker gives up, or its command dies.
GivesUp(w) ==
    /\ worker[w].pc # "idle"
    /\ worker' = [worker EXCEPT ![w] = AtRest]
    /\ UNCHANGED <<lines, sender, edits, handled, shifted>>

\* The user removes a line.
RemoveLine(i) ==
    /\ edits < MaxEdits
    /\ edits' = edits + 1
    /\ lines' = RemoveAt(lines, i)
    /\ shifted' = TRUE
    /\ UNCHANGED <<sender, worker, handled>>

Send(j) == StatNote(j) \/ OpenNote(j) \/ WriteHeader(j) \/ WriteLine(j)
Work(w) == (\E i \in DOMAIN lines : Inbox(w, i)) \/ ReadForMark(w) \/ MarkDone(w) \/ GivesUp(w)

Next ==
    \/ \E j \in Jots : Send(j)
    \/ \E w \in Workers : Work(w)
    \/ \E i \in DOMAIN lines : RemoveLine(i)

Spec == Init /\ [][Next]_vars

-----------------------------------------------------------------------------
(* Properties.                                                              *)

TypeOK ==
    /\ lines \in Seq(Entry)
    /\ sender \in [Jots -> [pc: {"off", "open", "header", "line", "sent"}, header: BOOLEAN,
                            attached: BOOLEAN]]
    /\ worker \in [Workers -> [pc: {"idle", "work", "mark"}, line: Nat, jot: Jots \cup {"header"},
                               base: Seq(Entry)]]
    /\ edits \in 0..MaxEdits
    /\ handled \subseteq Jots /\ shifted \in BOOLEAN

\* MarkDone: "only that line is touched", and the number is the one Inbox gave
\* minutes before.  Whatever was sent, marked by others and marked at the same
\* time meanwhile, a task that is marked was done by a worker - until a line is
\* removed or lost.
MarkedWasDone ==
    ~shifted => \A i \in DOMAIN lines : lines[i] # Header /\ lines[i].done => lines[i].jot \in handled
=============================================================================
