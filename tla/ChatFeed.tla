------------------------------ MODULE ChatFeed ------------------------------
(***************************************************************************)
(* What the Chat tab of the web page shows (internal/serve: chat.go, hub.go, *)
(* http.go and ui/index.html).  claude appends to the transcript of the      *)
(* agent's session; once a second the supervisor publishes what was added    *)
(* behind its cursor; the hub hands an event to every subscriber with room   *)
(* for it and keeps the latest for replay; the page renders a turn and, a    *)
(* quarter of a second after the last event, loads the whole history anew.   *)
(*                                                                         *)
(* A line is two halves, the second with its newline: the cursor may meet    *)
(* half a line.  One agent, one page; the text of a turn is its number.      *)
(***************************************************************************)
EXTENDS Naturals, Sequences, SequencesExt, FiniteSetsExt

CONSTANTS
    MaxTurn,    \* bound: lines claude writes
    Plumbing,   \* lines that parseTurn makes nothing of (tool results, events)
    Buffer,     \* events a subscriber's channel holds (32 in the code)
    Recent,     \* events the hub keeps for replay (100 in the code)
    PageTurns,  \* turns a history gives (n: the page asks for 60, the default is 40)
    MaxLoads,   \* bound: histories asked for at a time
    MaxEvents   \* bound: rotations, rewinds and restarts of the supervisor

Sessions == 1..2
Turns == 1..MaxTurn
Token == [turn: Turns, end: BOOLEAN]

VARIABLES
    live,       \* the session of the agent's row
    file,       \* per session: the halves in its transcript
    written,    \* lines begun
    cursor,     \* the tail's session, offset and unfinished line
    recent,     \* the hub's replay buffer
    page,       \* the page: connected, its channel, what it shows (stale: of an answer
                \* amiss), its loads
    events,
    (* history, read by properties only *)
    rewound,    \* the transcript was cut back since the tail last looked
    excused     \* turns a cursor was put behind, or whose event was dropped

vars == <<live, file, written, cursor, recent, page, events, rewound, excused>>

\* Where the lines end that parseTurn makes a turn of; half a line, or the end of one,
\* is no JSON.
TurnsAt(halves) ==
    {i \in 2..Len(halves) :
        /\ halves[i].end /\ halves[i - 1] = [turn |-> halves[i].turn, end |-> FALSE]
        /\ halves[i].turn \notin Plumbing}

\* readTurns: the last n of them.  (It counts a run of lines with tool calls only as one
\* turn, and so reaches further back; here each line counts.)
NewestAt(halves) ==
    {i \in TurnsAt(halves) : Cardinality({j \in TurnsAt(halves) : j > i}) < PageTurns}
NewestTurns(halves) == {halves[i].turn : i \in NewestAt(halves)}

\* The same, line by line.
Parsed(halves) ==
    LET parsed[i \in 0..Len(halves)] ==
          IF i = 0 THEN <<>>
          ELSE IF i \in TurnsAt(halves) THEN Append(parsed[i - 1], halves[i].turn)
          ELSE parsed[i - 1]
    IN  parsed[Len(halves)]

NoCursor == [sid |-> 0, off |-> 0, rest |-> <<>>]
Unplugged == [on |-> FALSE, queue |-> <<>>, shown |-> {}, reload |-> FALSE,
              loads |-> <<>>, stale |-> FALSE]

Init ==
    /\ live = 1
    /\ file = [s \in Sessions |-> <<>>]
    /\ written = 0
    /\ cursor = NoCursor
    /\ recent = <<>>
    /\ page = Unplugged
    /\ events = 0
    /\ rewound = FALSE /\ excused = {}

-----------------------------------------------------------------------------
(* claude.                                                                  *)

HalfOpen(s) == file[s] # <<>> /\ ~Last(file[s]).end

Write ==
    /\ IF HalfOpen(live)
       THEN /\ file' = [file EXCEPT ![live] = Append(@, [turn |-> Last(@).turn, end |-> TRUE])]
            /\ UNCHANGED written
       ELSE /\ written < MaxTurn
            /\ written' = written + 1
            /\ file' = [file EXCEPT ![live] = Append(@, [turn |-> written + 1, end |-> FALSE])]
    /\ UNCHANGED <<live, cursor, recent, page, events, rewound, excused>>

\* The transcript is cut back to an earlier line.
Rewind(n) ==
    /\ events < MaxEvents /\ events' = events + 1
    /\ n < Len(file[live]) /\ (n > 0 => file[live][n].end)
    /\ file' = [file EXCEPT ![live] = SubSeq(@, 1, n)]
    /\ rewound' = TRUE
    /\ UNCHANGED <<live, written, cursor, recent, page, excused>>

\* The row is repointed (AgentSession); the old transcript grows no more.
Rotate ==
    /\ events < MaxEvents /\ events' = events + 1
    /\ live = 1 /\ ~HalfOpen(1)
    /\ live' = 2
    /\ UNCHANGED <<file, written, cursor, recent, page, rewound, excused>>

-----------------------------------------------------------------------------
(* tailTranscripts and the hub.                                             *)

Trim(s) == SubSeq(s, IF Len(s) > Recent THEN Len(s) - Recent + 1 ELSE 1, Len(s))

\* What the transcript holds when the cursor is put at its end.
PassedOver == {t.turn : t \in Range(file[live])}

\* publish, event by event: a full channel loses it.
Publish(turns) ==
    LET room == Buffer - Len(page.queue)
        sent == IF page.on THEN SubSeq(turns, 1, IF room < Len(turns) THEN room ELSE Len(turns)) ELSE <<>>
    IN  /\ recent' = Trim(recent \o turns)
        /\ page' = [page EXCEPT !.queue = @ \o sent]
        /\ excused' = excused \cup (IF page.on THEN Range(turns) \ Range(sent) ELSE {})
                              \cup (IF rewound THEN PassedOver ELSE {})

\* A new or rotated session: start at the end, "history is the endpoint's job".
StartAtEnd ==
    /\ cursor.sid # live
    /\ file[live] # <<>>
    /\ cursor' = [sid |-> live, off |-> Len(file[live]), rest |-> <<>>]
    /\ rewound' = FALSE /\ excused' = excused \cup PassedOver
    /\ UNCHANGED <<live, file, written, recent, page, events>>

Truncated ==
    /\ cursor.sid = live
    /\ Len(file[live]) < cursor.off
    /\ cursor' = [cursor EXCEPT !.off = Len(file[live]), !.rest = <<>>]
    /\ rewound' = FALSE /\ excused' = excused \cup PassedOver
    /\ UNCHANGED <<live, file, written, recent, page, events>>

\* The last newline among the halves; what is behind it waits for the next tick.
LastEnd(halves) == Max({0} \cup {i \in DOMAIN halves : halves[i].end})

\* Mutant: the unfinished line is read again and kept as well.
ReadOn_Kept(data, n) == SubSeq(data, 1, n)

ReadOn(data, n) == SubSeq(data, n + 1, Len(data))

Follow ==
    LET added == SubSeq(file[live], cursor.off + 1, Len(file[live]))
        data == cursor.rest \o added
        n == LastEnd(data)
    IN  /\ cursor.sid = live
        /\ Len(file[live]) > cursor.off
        /\ cursor' = [cursor EXCEPT !.off = Len(file[live]), !.rest = ReadOn(data, n)]
        /\ Publish(Parsed(SubSeq(data, 1, n)))
        /\ rewound' = FALSE
        /\ UNCHANGED <<live, file, written, events>>

\* The supervisor exits when idle, or is restarted: cursor and hub are gone.
Restart ==
    /\ events < MaxEvents /\ events' = events + 1
    /\ cursor' = NoCursor
    /\ recent' = <<>>
    /\ page' = [page EXCEPT !.on = FALSE, !.queue = <<>>, !.loads = <<>>]
    /\ UNCHANGED <<live, file, written, rewound, excused>>

-----------------------------------------------------------------------------
(* The page.                                                                *)

\* The stream opens: the replay goes ahead of what is published from now on,
\* and opening asks for a reload.
Subscribe ==
    /\ ~page.on
    /\ page' = [page EXCEPT !.on = TRUE, !.queue = recent, !.reload = TRUE]
    /\ UNCHANGED <<live, file, written, cursor, recent, events, rewound, excused>>

Received(p) == [p EXCEPT !.queue = Tail(@), !.shown = @ \cup {Head(p.queue)}, !.reload = TRUE]

OnMessage ==
    /\ page.on /\ page.queue # <<>>
    /\ page' = Received(page)
    /\ UNCHANGED <<live, file, written, cursor, recent, events, rewound, excused>>

\* GET /api/chat/history, after the quiet quarter of a second: readTurns of the
\* session as it is now, or no turns where the transcript cannot be read (a line
\* longer than the scanner's 16 MB).
Load ==
    /\ page.on /\ page.reload
    /\ Len(page.loads) < MaxLoads
    /\ \E readable \in BOOLEAN :
         page' = [page EXCEPT
                    !.reload = FALSE,
                    !.loads = Append(@, [turns |-> IF readable THEN NewestTurns(file[live]) ELSE {},
                                         amiss |-> ~readable])]
    /\ UNCHANGED <<live, file, written, cursor, recent, events, rewound, excused>>

\* An answer arrives, perhaps ahead of that to an earlier request: the page is
\* cleared and shows what it says.
Loaded(i) ==
    /\ i \in DOMAIN page.loads
    /\ page' = [page EXCEPT !.shown = page.loads[i].turns,
                            !.stale = page.loads[i].amiss,
                            !.loads = [k \in 1..(Len(page.loads) - 1) |->
                                         IF k < i THEN [page.loads[k] EXCEPT !.amiss = TRUE]
                                         ELSE page.loads[k + 1]]]
    /\ UNCHANGED <<live, file, written, cursor, recent, events, rewound, excused>>

Next ==
    \/ Write \/ \E n \in 0..(2 * MaxTurn) : Rewind(n)
    \/ Rotate
    \/ StartAtEnd \/ Truncated \/ Follow \/ Restart
    \/ Subscribe \/ OnMessage \/ Load \/ \E i \in 1..MaxLoads : Loaded(i)

Spec == Init /\ [][Next]_vars

-----------------------------------------------------------------------------
(* Properties.                                                              *)

TypeOK ==
    /\ live \in Sessions /\ written \in 0..MaxTurn
    /\ file \in [Sessions -> Seq(Token)]
    /\ cursor.sid \in Sessions \cup {0} /\ cursor.off \in 0..(2 * MaxTurn)
    /\ cursor.rest \in Seq(Token)
    /\ recent \in Seq(Turns) /\ Len(recent) <= Recent
    /\ page.queue \in Seq(Turns) /\ page.shown \subseteq Turns /\ Len(page.loads) <= MaxLoads
    /\ events \in 0..MaxEvents /\ rewound \in BOOLEAN /\ excused \subseteq Turns

\* Nothing is on its way to the page.
Quiet ==
    /\ page.on /\ page.queue = <<>> /\ ~page.reload /\ page.loads = <<>>
    /\ cursor.sid = live /\ cursor.off = Len(file[live])

\* chat.go: turns typed anywhere "all show up in one place".  When nothing is on
\* its way the page shows the newest turns of the live session, as many as a history
\* gives: the tail puts halves together, what the hub sent before the page came is
\* replayed, and a history that is older than the events it overwrites is loaded
\* again.  Excused are the turns the tail's cursor was put behind, those a full
\* channel lost, a page whose last answer was overtaken by a later one or of a
\* transcript that could not be read, and a transcript that was cut back and has
\* since grown to its old length, which the tail cannot tell.
QuietPageIsComplete ==
    Quiet => page.stale \/ rewound \/ NewestTurns(file[live]) \subseteq page.shown \cup excused
=============================================================================
