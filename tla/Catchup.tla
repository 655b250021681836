-------------------------------- MODULE Catchup --------------------------------
(***************************************************************************)
(* `qilla log` and `qilla catchup` (cmd/qilla/log.go, catchup.go;             *)
(* internal/catchup; internal/vault): lines are put at the end of the Log      *)
(* section of a daily note, by reading the note and writing it anew, while     *)
(* sessions that start are shown the lines they have not seen, by a bookmark   *)
(* that counts lines.  Nothing locks a note, and os.WriteFile empties it       *)
(* before it fills it.                                                        *)
(*                                                                         *)
(* One agent, whose sessions share the bookmark; agents do not share any.      *)
(***************************************************************************)
EXTENDS Naturals, Sequences, SequencesExt

CONSTANTS
    Loggers,    \* processes that run `qilla log`
    Sessions,   \* processes that run `qilla catchup`
    Kept,       \* days a bookmark is kept
    MaxDay,     \* bound: days
    MaxLines,   \* bound: lines logged
    MaxEdits,   \* bound: lines removed in the editor
    MaxDeaths   \* bound: processes that die half way

VARIABLES
    note,       \* per day: the lines of its Log section
    log,        \* per logger: program counter, day, what it read, its line
    session,    \* per session: program counter, day, bookmark loaded, counts, lines found
    seen,       \* the bookmark: per day with a row, lines
    today,
    logged, edits, deaths,
    had,        \* history: per day, lines that were ever on the note
    shown,      \* history: lines that were printed
    undone      \* history: days whose note lost a line that a logger may put back

vars == <<note, log, session, seen, today, logged, edits, deaths, had, shown, undone>>

Days == 0..MaxDay
LogAtRest == [pc |-> "idle", day |-> 0, read |-> <<>>, line |-> 0]
AtRest == [pc |-> "idle", day |-> 0, seen |-> <<>>, counts |-> <<>>, found |-> {}]

Init ==
    /\ note = [d \in Days |-> <<>>]
    /\ log = [l \in Loggers |-> LogAtRest]
    /\ session = [s \in Sessions |-> AtRest]
    /\ seen = [d \in {} |-> 0]
    /\ today = 0 /\ logged = 0 /\ edits = 0 /\ deaths = 0
    /\ had = [d \in Days |-> {}] /\ shown = {} /\ undone = {}

-----------------------------------------------------------------------------
(* appendLog.  A note that is being written reads as empty, and a log line is   *)
(* put on what was read.                                                     *)

ReadNote(l, day) ==
    /\ log[l].pc = "idle" /\ logged < MaxLines
    /\ day \in {today} \cup {d \in Days : d + 1 = today}
    /\ logged' = logged + 1
    /\ log' = [log EXCEPT ![l] = [pc |-> "empty", day |-> day, read |-> note[day], line |-> logged']]
    /\ UNCHANGED <<note, session, seen, today, edits, deaths, had, shown, undone>>

Empty(l) ==
    /\ log[l].pc = "empty"
    /\ note' = [note EXCEPT ![log[l].day] = <<>>]
    /\ log' = [log EXCEPT ![l].pc = "fill"]
    /\ UNCHANGED <<session, seen, today, logged, edits, deaths, had, shown, undone>>

\* AppendToSection: behind the last line of the section.
Fill(l) ==
    LET day == log[l].day
    IN  /\ log[l].pc = "fill"
        /\ note' = [note EXCEPT ![day] = Append(log[l].read, log[l].line)]
        /\ had' = [had EXCEPT ![day] = @ \cup ToSet(note'[day])]
        /\ log' = [log EXCEPT ![l] = LogAtRest]
        /\ UNCHANGED <<session, seen, today, logged, edits, deaths, shown, undone>>

\* The user takes a line out.
EditDown(day, i) ==
    /\ edits < MaxEdits /\ i \in DOMAIN note[day]
    /\ edits' = edits + 1
    /\ note' = [note EXCEPT ![day] = RemoveAt(@, i)]
    /\ undone' = IF \E l \in Loggers : log[l].pc # "idle" /\ log[l].day = day
                 THEN undone \cup {day} ELSE undone
    /\ UNCHANGED <<log, session, seen, today, logged, deaths, had, shown>>

-----------------------------------------------------------------------------
(* runCatchup.                                                              *)

LoadBookmark(s) ==
    /\ session[s].pc = "idle"
    /\ session' = [session EXCEPT ![s] = [pc |-> "scan", day |-> today, seen |-> seen,
                                          counts |-> <<>>, found |-> {}]]
    /\ UNCHANGED <<note, log, seen, today, logged, edits, deaths, had, shown, undone>>

\* Lines of a note behind the bookmark; a note with fewer lines has none.
New(lines, from) == {lines[i] : i \in {j \in DOMAIN lines : j > from}}

\* Scan: today's note and yesterday's, one after the other; one that is not there,
\* or empty, is passed over.
Scan(s) ==
    LET days == {d \in Days : d \in {session[s].day} \/ d + 1 = session[s].day}
        read == {d \in days : note[d] # <<>>}
        from(d) == IF d \in DOMAIN session[s].seen THEN session[s].seen[d] ELSE 0
    IN  /\ session[s].pc = "scan"
        /\ session' = [session EXCEPT ![s].pc = "write",
                                      ![s].seen = <<>>,
                                      ![s].counts = [d \in read |-> Len(note[d])],
                                      ![s].found = UNION {New(note[d], from(d)) : d \in read}]
        /\ UNCHANGED <<note, log, seen, today, logged, edits, deaths, had, shown, undone>>

WriteCatchup(s) ==
    /\ session[s].pc = "write"
    /\ shown' = shown \cup session[s].found
    /\ session' = [session EXCEPT ![s].pc = "save", ![s].found = {}]
    /\ UNCHANGED <<note, log, seen, today, logged, edits, deaths, had, undone>>

\* Mutant: the bookmark is moved to the lines there are by now.
Saved_Now(s, d) == Len(note[d])

\* The count of the lines that were scanned.
Saved(s, d) == session[s].counts[d]

\* Save: one transaction.
Save(s) ==
    LET rows == DOMAIN seen \cup DOMAIN session[s].counts
    IN  /\ session[s].pc = "save"
        /\ seen' = [d \in {r \in rows : r + Kept >= session[s].day} |->
                        IF d \in DOMAIN session[s].counts THEN Saved(s, d) ELSE seen[d]]
        /\ session' = [session EXCEPT ![s] = AtRest]
        /\ UNCHANGED <<note, log, today, logged, edits, deaths, had, shown, undone>>

-----------------------------------------------------------------------------

LoggerDies(l) ==
    /\ log[l].pc # "idle" /\ deaths < MaxDeaths
    /\ deaths' = deaths + 1
    /\ log' = [log EXCEPT ![l] = LogAtRest]
    /\ UNCHANGED <<note, session, seen, today, logged, edits, had, shown, undone>>

SessionDies(s) ==
    /\ session[s].pc # "idle" /\ deaths < MaxDeaths
    /\ deaths' = deaths + 1
    /\ session' = [session EXCEPT ![s] = AtRest]
    /\ UNCHANGED <<note, log, seen, today, logged, edits, had, shown, undone>>

NewDay ==
    /\ today < MaxDay
    /\ today' = today + 1
    /\ UNCHANGED <<note, log, session, seen, logged, edits, deaths, had, shown, undone>>

Next ==
    \/ \E l \in Loggers : (\E d \in Days : ReadNote(l, d)) \/ Empty(l) \/ Fill(l) \/ LoggerDies(l)
    \/ \E d \in Days, i \in 1..MaxLines : EditDown(d, i)
    \/ \E s \in Sessions :
         LoadBookmark(s) \/ Scan(s) \/ WriteCatchup(s) \/ Save(s) \/ SessionDies(s)
    \/ NewDay

Spec == Init /\ [][Next]_vars

-----------------------------------------------------------------------------
(* Properties.                                                              *)

TypeOK ==
    /\ \A d \in Days : ToSet(note[d]) \subseteq had[d] /\ had[d] \subseteq 1..MaxLines
    /\ \A l \in Loggers : log[l].pc \in {"idle", "empty", "fill"}
    /\ \A s \in Sessions : session[s].pc \in {"idle", "scan", "write", "save"}
    /\ DOMAIN seen \subseteq Days /\ \A d \in DOMAIN seen : seen[d] \in 1..MaxLines
    /\ today \in Days /\ logged \in 0..MaxLines

\* Every line the note ever had is on it.
Whole(day) == had[day] \subseteq ToSet(note[day])

\* catchup.go: "only the deltas", and what the bookmark has passed is not printed
\* again: on a note that has lost no line, the bookmark passes no line that no
\* session printed, whatever is logged and scanned at the same time and whoever dies;
\* unless a line was taken out and a logger, who had read it before, put it back.
BookmarkIsShown ==
    \A d \in DOMAIN seen \ undone : Whole(d) =>
        \A i \in DOMAIN note[d] : i <= seen[d] => note[d][i] \in shown
=============================================================================
