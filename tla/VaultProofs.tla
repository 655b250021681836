------------------------------ MODULE VaultProofs ------------------------------
(* Of the notes of the vault that commands write: its tasks, and the inbox of the  *)
(* handoffs.  The theorems are about Files, where the components live side by      *)
(* side.                                                                           *)
EXTENDS Files, FiniteSetTheorems, SequenceTheorems, WellFoundedInduction, TLAPS

(* Numbers.                                                                  *)

\* A set of numbers that is not empty has a least one.
LEMMA Smallest == ASSUME NEW S \in SUBSET Nat, S # {} PROVE \E m \in S : \A n \in S : m <= n
<1>1. IsWellFoundedOn(OpToRel(<, Nat), Nat)
  BY NatLessThanWellFounded
<1>2. PICK x \in S : \A y \in S : ~ (<<y, x>> \in OpToRel(<, Nat))
  BY <1>1, WFMin
<1>3. \A y \in S : ~ (y < x)
  BY <1>2 DEF OpToRel
<1>. QED  BY <1>3

\* Induction over the naturals, for a set.
LEMMA AllNaturals ==
    ASSUME NEW N \in SUBSET Nat, 0 \in N, \A n \in N : n + 1 \in N
    PROVE  N = Nat
<1>. SUFFICES ASSUME Nat \ N # {} PROVE FALSE
  OBVIOUS
<1>1. PICK m \in Nat \ N : \A n \in Nat \ N : m <= n
  BY Smallest
<1>2. m # 0 /\ m - 1 \in Nat /\ m - 1 \notin Nat \ N
  BY <1>1
<1>. QED  BY <1>1, <1>2

-----------------------------------------------------------------------------
(* The task lines of the vault.                                              *)

WriterRow ==
    [pc: {"off", "walk", "write", "done"}, pos: 1..(Len(Walk) + 1), high: 0..MaxId, id: 0..MaxId,
     before: SUBSET (0..MaxId), swept: BOOLEAN]
TaskRow ==
    [pc: {"off", "read", "archive", "todo", "rename", "done"}, id: 0..MaxId, pos: 1..Len(Walk),
     base: SUBSET T!Line, other: SUBSET T!Line]

Held(n, t, i) == \E l \in note[n] : l.task = t /\ l.id = i
OpenIn(n, i) == \E l \in note[n] : l.id = i /\ l.box = "open"
Left(n, i) == OpenIn(n, i) /\ <<n, i>> \notin unread
Ticking(d) == d \in Doners /\ command[d].pc \in {"read", "rename"}

\* What every command and writer is, at each place.
TasksTyped ==
    /\ T!TypeOK
    /\ \A w \in Writers : writer[w].pc = "off" => writer[w] = T!NotStarted
    /\ \A d \in Doners : command[d].pc \in {"off", "read", "rename", "done"}
                         /\ (command[d].pc = "off" => command[d] = T!Off)
    /\ \A d \in Doners : command[d].pc \in {"read", "rename"} => command[d].id \in 1..MaxId
    /\ \A c \in T!Rewriters : command[c].pc \in {"archive", "todo"} => c \in Sweepers

\* A line that was written is held, or archived.
Written ==
    \A e \in written : Held(e[1], e[2], e[3]) \/ (e[1] = "todo" /\ Held("archive", e[2], e[3]))

\* What a sweep is about to take out of the todo file is in the archive.
Archived ==
    \A s \in Sweepers : command[s].pc = "todo" =>
        \A l \in T!DoneLines(command[s].base) : Held("archive", l.task, l.id)

\* Of a task that is done, or in the notes a `done` has walked, no line is left open,
\* but in a note that could not be read.
Closed ==
    /\ \A i \in finished \ crossed : \A n \in T!NoteNames : ~Left(n, i)
    /\ \A d \in Doners : Ticking(d) /\ command[d].id \notin crossed =>
         \A k \in 1..(command[d].pos - 1) : ~Left(Walk[k], command[d].id)

\* An id that was taken when a writer began is not above the highest it has seen, or is
\* in a note it has still to read.
Ahead ==
    \A w \in Writers : writer[w].pc = "walk" /\ ~writer[w].swept =>
        \A i \in writer[w].before :
            i <= writer[w].high \/ \E k \in writer[w].pos..Len(Walk) : \E l \in note[Walk[k]] : l.id = i

TasksInv == TasksTyped /\ (~stale => Written /\ Archived /\ Closed /\ Ahead)

LEMMA TheWalk ==
    /\ Len(Walk) \in Nat /\ 1 \in 1..Len(Walk) /\ MaxId \in Nat /\ MaxCopies \in Nat
    /\ T!NoteNames = {Walk[k] : k \in 1..Len(Walk)} /\ \A k \in 1..Len(Walk) : Walk[k] \in T!NoteNames
    /\ "archive" \in T!NoteNames /\ "todo" \in T!NoteNames
<1>1. Len(Walk) \in Nat /\ DOMAIN Walk = 1..Len(Walk) /\ MaxId \in Nat /\ MaxCopies \in Nat
      /\ (\E i \in DOMAIN Walk : Walk[i] = "todo") /\ (\E i \in DOMAIN Walk : Walk[i] = "archive")
  BY TaskAssumption
<1>2. T!NoteNames = {Walk[k] : k \in 1..Len(Walk)}
  BY <1>1 DEF T!NoteNames, T!Range
<1>. QED  BY <1>1, <1>2

LEMMA TaskTypes ==
    TasksTyped => /\ note \in [T!NoteNames -> SUBSET T!Line]
                  /\ writer \in [Writers -> WriterRow]
                  /\ command \in [T!Rewriters -> TaskRow]
                  /\ copies \in 0..MaxCopies
                  /\ written \subseteq (T!NoteNames \X T!Tasks \X (0..MaxId))
                  /\ finished \subseteq 1..MaxId /\ crossed \subseteq 0..MaxId
                  /\ stale \in BOOLEAN /\ unread \subseteq T!NoteNames \X (1..MaxId)
  BY DEF TasksTyped, T!TypeOK, WriterRow, TaskRow

LEMMA TypedTasks ==
    ASSUME note \in [T!NoteNames -> SUBSET T!Line], writer \in [Writers -> WriterRow],
           command \in [T!Rewriters -> TaskRow], copies \in 0..MaxCopies,
           written \subseteq (T!NoteNames \X T!Tasks \X (0..MaxId)),
           finished \subseteq 1..MaxId, crossed \subseteq 0..MaxId, stale \in BOOLEAN,
           unread \subseteq T!NoteNames \X (1..MaxId)
    PROVE  T!TypeOK
  BY DEF T!TypeOK, WriterRow, TaskRow

LEMMA TasksStart == ASSUME T!Init PROVE TasksInv
<1>1. T!NotStarted \in WriterRow
  BY TheWalk DEF T!NotStarted, WriterRow
<1>2. T!Off \in TaskRow
  BY TheWalk DEF T!Off, TaskRow
<1>3. /\ note = [n \in T!NoteNames |-> {}] /\ writer = [w \in Writers |-> T!NotStarted]
      /\ command = [c \in T!Rewriters |-> T!Off] /\ copies = 0
      /\ written = {} /\ finished = {} /\ stale = FALSE /\ crossed = {} /\ unread = {}
  BY DEF T!Init
<1>4. T!TypeOK
  <2>1. copies \in 0..MaxCopies
    BY <1>3, TheWalk
  <2>2. note \in [T!NoteNames -> SUBSET T!Line] /\ writer \in [Writers -> WriterRow]
        /\ command \in [T!Rewriters -> TaskRow]
    BY <1>1, <1>2, <1>3
  <2>. QED  BY <1>3, <2>1, <2>2, TypedTasks
<1>5. (\A w \in Writers : writer[w] = T!NotStarted) /\ \A c \in T!Rewriters : command[c] = T!Off
  BY <1>3
<1>6. T!Off.pc = "off" /\ T!NotStarted.pc = "off" /\ Doners \subseteq T!Rewriters /\ Sweepers \subseteq T!Rewriters
  BY DEF T!Off, T!NotStarted, T!Rewriters
<1>7. TasksTyped
  BY <1>4, <1>5, <1>6 DEF TasksTyped
<1>8. Written /\ Archived /\ Closed /\ Ahead
  BY <1>3, <1>5, <1>6 DEF Written, Archived, Closed, Ahead, Ticking
<1>. QED  BY <1>7, <1>8 DEF TasksInv

\* What a step leaves to show.
LEMMA TasksMoveOn ==
    ASSUME TasksInv, TasksTyped',
           ~stale' =>
             /\ ~stale
             /\ \A t, i : \A n \in T!NoteNames : Held(n, t, i) =>
                  Held(n, t, i)' \/ (/\ n = "todo" /\ Held("archive", t, i)'
                                     /\ \A w \in Writers : writer'[w].pc = "walk" => writer'[w].swept)
             /\ \A i : \A n \in T!NoteNames : Left(n, i)' =>
                  Left(n, i) \/ (i \notin finished' /\ \A d \in Doners : Ticking(d)' /\ command'[d].id = i => i \in crossed')
             /\ \A e \in written' : e \in written \/ Held(e[1], e[2], e[3])'
             /\ crossed \subseteq crossed'
             /\ \A i \in finished' \ crossed' : i \in finished \/ \A n \in T!NoteNames : ~Left(n, i)'
             /\ \A s \in Sweepers : command'[s].pc = "todo" =>
                  \/ command[s].pc = "todo" /\ command'[s].base = command[s].base
                  \/ \A l \in T!DoneLines(command'[s].base) : Held("archive", l.task, l.id)'
             /\ \A d \in Doners : Ticking(d)' /\ command'[d].id \notin crossed' =>
                  \/ Ticking(d) /\ command'[d].id = command[d].id /\ command'[d].pos = command[d].pos
                  \/ \A k \in 1..(command'[d].pos - 1) : \A l \in note'[Walk[k]] :
                       l.id = command'[d].id /\ l.box = "open" => <<Walk[k], command'[d].id>> \in unread'
             /\ \A w \in Writers : writer'[w].pc = "walk" /\ ~writer'[w].swept =>
                  \/ writer'[w] = writer[w]
                  \/ \A i \in writer'[w].before :
                       i <= writer'[w].high \/ \E k \in writer'[w].pos..Len(Walk) : \E l \in note'[Walk[k]] : l.id = i
    PROVE  TasksInv'
<1>. SUFFICES ASSUME ~stale' PROVE Written' /\ Archived' /\ Closed' /\ Ahead'
  BY DEF TasksInv
<1>1. ~stale /\ Written /\ Archived /\ Closed /\ Ahead /\ TasksTyped
  BY DEF TasksInv
<1>2. ASSUME NEW t, NEW i, Held("archive", t, i) PROVE Held("archive", t, i)'
  BY <1>2, TheWalk
<1>3. Written'
  <2>. SUFFICES ASSUME NEW e \in written'
       PROVE  Held(e[1], e[2], e[3])' \/ (e[1] = "todo" /\ Held("archive", e[2], e[3])')
    BY DEF Written, Held
  <2>1. CASE e \in written
    <3>1. Held(e[1], e[2], e[3]) \/ (e[1] = "todo" /\ Held("archive", e[2], e[3]))
      BY <1>1, <2>1 DEF Written
    <3>2. e[1] \in T!NoteNames
      BY <1>1, <2>1, TaskTypes
    <3>. QED  BY <1>2, <3>1, <3>2
  <2>2. CASE e \notin written
    BY <2>2
  <2>. QED  BY <2>1, <2>2
<1>4. Archived'
  <2>. SUFFICES ASSUME NEW s \in Sweepers, command'[s].pc = "todo", NEW l \in T!DoneLines(command'[s].base)
       PROVE  Held("archive", l.task, l.id)'
    BY DEF Archived, T!DoneLines, Held
  <2>1. CASE command[s].pc = "todo" /\ command'[s].base = command[s].base
    <3>1. l \in T!DoneLines(command[s].base)
      BY <2>1
    <3>2. Held("archive", l.task, l.id)
      BY <1>1, <2>1, <3>1 DEF Archived
    <3>. QED  BY <1>2, <3>2
  <2>2. CASE ~(command[s].pc = "todo" /\ command'[s].base = command[s].base)
    BY <2>2
  <2>. QED  BY <2>1, <2>2
<1>5. T!NoteNames' = T!NoteNames
  BY DEF T!NoteNames, T!Range
<1>8. \A d \in Doners : Ticking(d)' /\ command'[d].id \notin crossed' =>
        \/ Ticking(d) /\ command'[d].id = command[d].id /\ command'[d].pos = command[d].pos
        \/ \A k \in 1..(command'[d].pos - 1) : \A l \in note'[Walk[k]] :
             l.id = command'[d].id /\ l.box = "open" => <<Walk[k], command'[d].id>> \in unread'
  OBVIOUS
<1>6. Closed'
  <2>1. ASSUME NEW i \in finished' \ crossed', NEW n \in T!NoteNames PROVE ~Left(n, i)'
    <3>1. CASE i \in finished
      BY <1>1, <2>1, <3>1 DEF Closed
    <3>. QED  BY <2>1, <3>1
  <2>2. ASSUME NEW d \in Doners, Ticking(d)', command'[d].id \notin crossed',
               NEW k \in 1..(command'[d].pos - 1)
        PROVE  \A l \in note'[Walk[k]] :
                 l.id = command'[d].id /\ l.box = "open" => <<Walk[k], command'[d].id>> \in unread'
    <3>1. command'[d] \in TaskRow
      <4>1. command' \in [T!Rewriters -> TaskRow]
        BY DEF TasksTyped, T!TypeOK, TaskRow, T!Rewriters, T!Line, T!Tasks
      <4>. QED  BY <4>1 DEF T!Rewriters
    <3>2. Walk[k] \in T!NoteNames
      <4>1. command'[d].pos \in 1..Len(Walk)
        BY <3>1 DEF TaskRow
      <4>2. k \in 1..Len(Walk)
        BY <2>2, <4>1, TheWalk
      <4>. QED  BY <4>2, TheWalk
    <3>3. CASE Ticking(d) /\ command'[d].id = command[d].id /\ command'[d].pos = command[d].pos
      <4>. PICK i : i = command[d].id
        OBVIOUS
      <4>1. i \notin crossed
        BY <2>2, <3>3
      <4>2. ~Left(Walk[k], i)
        BY <1>1, <2>2, <3>3, <4>1 DEF Closed
      <4>3. command'[d].id = i
        BY <3>3
      <4>4. ~Left(Walk[k], i)'
        BY <2>2, <3>2, <4>2, <4>3
      <4>. QED  BY <4>3, <4>4 DEF Left, OpenIn
    <3>4. CASE ~(Ticking(d) /\ command'[d].id = command[d].id /\ command'[d].pos = command[d].pos)
      BY <1>8, <2>2, <3>4
    <3>. QED  BY <3>3, <3>4
  <2>. QED  BY <1>5, <2>1, <2>2 DEF Closed, Ticking, Left, OpenIn
<1>7. Ahead'
  <2>. SUFFICES ASSUME NEW w \in Writers, writer'[w].pc = "walk", ~writer'[w].swept, NEW i \in writer'[w].before
       PROVE  i <= writer'[w].high \/ \E k \in writer'[w].pos..Len(Walk) : \E l \in note'[Walk[k]] : l.id = i
    BY DEF Ahead
  <2>1. CASE writer'[w] = writer[w]
    <3>. SUFFICES ASSUME ~(i <= writer[w].high)
         PROVE  \E k \in writer[w].pos..Len(Walk) : \E l \in note'[Walk[k]] : l.id = i
      BY <2>1
    <3>1. PICK k \in writer[w].pos..Len(Walk) : \E l \in note[Walk[k]] : l.id = i
      BY <1>1, <2>1 DEF Ahead
    <3>2. Walk[k] \in T!NoteNames
      <4>1. writer[w].pos \in 1..(Len(Walk) + 1)
        BY <1>1, TaskTypes DEF WriterRow
      <4>2. k \in 1..Len(Walk)
        BY <4>1, TheWalk
      <4>. QED  BY <4>2, TheWalk
    <3>3. PICK l \in note[Walk[k]] : l.id = i
      BY <3>1
    <3>4. Held(Walk[k], l.task, i)
      BY <3>3 DEF Held
    <3>5. Held(Walk[k], l.task, i)'
      BY <2>1, <3>2, <3>4
    <3>. QED  BY <3>5 DEF Held
  <2>2. CASE writer'[w] # writer[w]
    BY <2>2
  <2>. QED  BY <2>1, <2>2
<1>. QED  BY <1>3, <1>4, <1>6, <1>7

LEMMA MaxIs ==
    ASSUME NEW N \in Nat, NEW S \in SUBSET (0..N), S # {}
    PROVE  T!Max(S) \in S /\ \A n \in S : n <= T!Max(S)
<1>1. PICK s \in S : TRUE
  OBVIOUS
<1>2. N - s \in {N - n : n \in S} /\ {N - n : n \in S} \in SUBSET Nat
  BY <1>1
<1>3. PICK m \in {N - n : n \in S} : \A n \in {N - n : n \in S} : m <= n
  BY <1>2, Smallest
<1>4. PICK x \in S : m = N - x
  BY <1>3
<1>5. \A n \in S : N - x <= N - n
  BY <1>3, <1>4
<1>6. \A n \in S : x >= n
  <2>1. \A n \in S : n \in Nat
    OBVIOUS
  <2>. QED  BY <1>5, <2>1
<1>7. T!Max(S) \in S /\ \A n \in S : T!Max(S) >= n
  BY <1>6 DEF T!Max
<1>. QED  BY <1>7

\* The highest number seen, with a note more.
LEMMA HighIs ==
    ASSUME TasksTyped, NEW w \in Writers, writer[w].pos <= Len(Walk)
    PROVE  LET high == T!Max({writer[w].high, T!Highest(Walk[writer[w].pos])}) IN
           /\ high \in 0..MaxId /\ writer[w].high <= high
           /\ \A l \in note[Walk[writer[w].pos]] : l.id <= high
<1>. DEFINE n == Walk[writer[w].pos]
            S == T!Ids(note[n]) \cup {0}
            h == T!Highest(n)
            Two == {writer[w].high, h}
<1>1. writer[w] \in WriterRow /\ MaxId \in Nat /\ n \in T!NoteNames
  <2>1. writer[w] \in WriterRow
    BY TaskTypes
  <2>2. writer[w].pos \in 1..Len(Walk)
    BY <2>1, TheWalk DEF WriterRow
  <2>. QED  BY <2>1, <2>2, TheWalk
<1>2. note[n] \subseteq T!Line
  BY <1>1, TaskTypes
<1>3. \A l \in note[n] : l.id \in 0..MaxId
  BY <1>2 DEF T!Line
<1>4. S \in SUBSET (0..MaxId) /\ S # {}
  BY <1>1, <1>3 DEF T!Ids
<1>5. h = T!Max(S)
  BY DEF T!Highest
<1>6. h \in S /\ \A i \in S : i <= h
  <2>. HIDE DEF S, h
  <2>. QED  BY <1>1, <1>4, <1>5, MaxIs
<1>7. \A l \in note[n] : l.id <= h
  BY <1>6 DEF T!Ids
<1>8. writer[w].high \in 0..MaxId /\ h \in 0..MaxId
  BY <1>1, <1>4, <1>6 DEF WriterRow
<1>. HIDE DEF h
<1>9. T!Max(Two) \in Two /\ \A i \in Two : i <= T!Max(Two)
  <2>1. Two \in SUBSET (0..MaxId) /\ Two # {}
    BY <1>8
  <2>. HIDE DEF Two
  <2>. QED  BY <1>1, <2>1, MaxIs
<1>10. T!Max(Two) \in 0..MaxId /\ writer[w].high <= T!Max(Two) /\ h <= T!Max(Two)
  BY <1>8, <1>9
<1>11. ASSUME NEW l \in note[n] PROVE l.id <= T!Max(Two)
  <2>1. l.id \in 0..MaxId /\ l.id <= h
    BY <1>3, <1>7
  <2>. QED  BY <1>8, <1>10, <2>1
<1>. QED  BY <1>10, <1>11 DEF h

\* Only a writer moves.
LEMMA WriterMoves ==
    ASSUME TasksInv, NEW w \in Writers, NEW r \in WriterRow, writer' = [writer EXCEPT ![w] = r],
           UNCHANGED <<note, command, copies, written, finished, stale, crossed, unread>>, r.pc # "off",
           ~stale /\ r.pc = "walk" /\ ~r.swept =>
             \A i \in r.before : i <= r.high \/ \E k \in r.pos..Len(Walk) : \E l \in note[Walk[k]] : l.id = i
    PROVE  TasksInv'
<1>1. writer \in [Writers -> WriterRow]
  BY TaskTypes DEF TasksInv
<1>2. writer' \in [Writers -> WriterRow] /\ writer'[w] = r /\ \A v \in Writers : v # w => writer'[v] = writer[v]
  BY <1>1
<1>3. TasksTyped'
  <2>1. T!TypeOK'
    BY <1>2 DEF TasksInv, TasksTyped, T!TypeOK, WriterRow, T!NoteNames, T!Rewriters, T!Line, T!Tasks, T!Range
  <2>2. \A v \in Writers : writer'[v].pc = "off" => writer'[v] = T!NotStarted
    BY <1>2 DEF TasksInv, TasksTyped
  <2>3. T!Rewriters' = T!Rewriters /\ T!Off' = T!Off /\ T!NotStarted' = T!NotStarted
    BY DEF T!Rewriters, T!Off, T!NotStarted
  <2>. QED  BY <2>1, <2>2, <2>3 DEF TasksInv, TasksTyped
<1>4. \A n, t, i : Held(n, t, i)' <=> Held(n, t, i)
  BY DEF Held
<1>5. \A n, i : Left(n, i)' <=> Left(n, i)
  BY DEF Left, OpenIn
<1>6. \A d : Ticking(d)' <=> Ticking(d)
  BY DEF Ticking
<1>7. \A v \in Writers : (writer'[v].pc = "walk" /\ ~writer'[v].swept /\ ~stale) =>
        \/ writer'[v] = writer[v]
        \/ \A i \in writer'[v].before :
             i <= writer'[v].high \/ \E k \in writer'[v].pos..Len(Walk) : \E l \in note'[Walk[k]] : l.id = i
  BY <1>2
<1>. QED  BY <1>3, <1>4, <1>5, <1>6, <1>7, TasksMoveOn DEF TasksInv

LEMMA WriterAsks == ASSUME TasksInv, NEW w \in Writers, T!Ask(w) PROVE TasksInv'
<1>1. TasksTyped /\ writer[w] \in WriterRow /\ writer \in [Writers -> WriterRow]
      /\ (~stale => Written /\ Ahead)
  BY TaskTypes DEF TasksInv
<1>2. CASE T!StartWalk(w)
  <2>. DEFINE before == {e[3] : e \in written}
              r == [writer[w] EXCEPT !.pc = "walk", !.before = before]
  <2>1. writer' = [writer EXCEPT ![w] = r] /\ writer[w].pc = "off"
        /\ UNCHANGED <<note, command, copies, written, finished, stale, crossed, unread>>
    BY <1>2 DEF T!StartWalk, T!history
  <2>2. before \in SUBSET (0..MaxId)
    BY <1>1, TaskTypes
  <2>3. writer[w] = T!NotStarted
    BY <1>1, <2>1 DEF TasksTyped
  <2>4. writer[w].pos = 1
    BY <2>3 DEF T!NotStarted
  <2>5. ASSUME ~stale, NEW i \in before PROVE \E k \in 1..Len(Walk) : \E l \in note[Walk[k]] : l.id = i
    <3>1. PICK e \in written : i = e[3]
      OBVIOUS
    <3>2. e[1] \in T!NoteNames
      BY <1>1, <3>1, TaskTypes
    <3>3. PICK n \in T!NoteNames : Held(n, e[2], i)
      <4>1. Held(e[1], e[2], e[3]) \/ Held("archive", e[2], e[3])
        BY <1>1, <2>5 DEF Written
      <4>. QED  BY <3>1, <3>2, <4>1, TheWalk
    <3>4. PICK k \in 1..Len(Walk) : n = Walk[k]
      BY TheWalk
    <3>. QED  BY <3>3, <3>4 DEF Held
  <2>. HIDE DEF before
  <2>6. r \in WriterRow /\ r.pc = "walk" /\ r.pos = 1 /\ r.before = before
    BY <1>1, <2>2, <2>4 DEF WriterRow
  <2>. HIDE DEF r
  <2>. QED  BY <2>1, <2>5, <2>6, WriterMoves
<1>3. CASE T!WalkNote(w)
  <2>. DEFINE high == T!Max({writer[w].high, T!Highest(Walk[writer[w].pos])})
              some == writer[w].before \ T!Ids(note[Walk[writer[w].pos]])
              seen == [writer[w] EXCEPT !.pos = writer[w].pos + 1, !.high = high]
              skipped == [writer[w] EXCEPT !.pos = writer[w].pos + 1, !.before = some]
  <2>1. /\ writer[w].pc = "walk" /\ writer[w].pos <= Len(Walk)
        /\ writer' = [writer EXCEPT ![w] = seen] \/ writer' = [writer EXCEPT ![w] = skipped]
        /\ UNCHANGED <<note, command, copies, written, finished, stale, crossed, unread>>
    BY <1>1, <1>3 DEF T!WalkNote, T!history, WriterRow
  <2>2. /\ high \in 0..MaxId /\ writer[w].high <= high
        /\ \A l \in note[Walk[writer[w].pos]] : l.id <= high
    BY <1>1, <2>1, HighIs
  <2>3. some \subseteq writer[w].before
        /\ \A i \in some : ~ \E l \in note[Walk[writer[w].pos]] : l.id = i
    BY DEF T!Ids
  <2>. HIDE DEF high, some
  <2>4. writer[w].pos \in 1..Len(Walk) /\ writer[w].pos + 1 \in 1..(Len(Walk) + 1) /\ Len(Walk) \in Nat
    <3>1. writer[w].pos \in 1..(Len(Walk) + 1) /\ Len(Walk) \in Nat
      BY <1>1, TheWalk DEF WriterRow
    <3>. QED  BY <2>1, <3>1
  <2>5. PICK r \in WriterRow :
          /\ writer' = [writer EXCEPT ![w] = r]
          /\ r.pc = "walk" /\ r.pos = writer[w].pos + 1 /\ r.swept = writer[w].swept
          /\ r.before \subseteq writer[w].before /\ writer[w].high <= r.high
          /\ \A i \in r.before : i <= r.high \/ ~ \E l \in note[Walk[writer[w].pos]] : l.id = i
    <3>1. seen \in WriterRow /\ seen.pc = "walk" /\ seen.pos = writer[w].pos + 1 /\ seen.high = high
          /\ seen.before = writer[w].before /\ seen.swept = writer[w].swept
      BY <1>1, <2>1, <2>2, <2>4 DEF WriterRow
    <3>2. skipped \in WriterRow /\ skipped.pc = "walk" /\ skipped.pos = writer[w].pos + 1
          /\ skipped.high = writer[w].high /\ skipped.before = some /\ skipped.swept = writer[w].swept
      BY <1>1, <2>1, <2>3, <2>4 DEF WriterRow
    <3>3. writer[w].high <= writer[w].high
      BY <1>1 DEF WriterRow
    <3>. HIDE DEF seen, skipped
    <3>4. CASE writer' = [writer EXCEPT ![w] = seen]
      BY <2>2, <3>1, <3>4
    <3>5. CASE writer' = [writer EXCEPT ![w] = skipped]
      BY <2>3, <3>2, <3>3, <3>5
    <3>. QED  BY <2>1, <3>4, <3>5
  <2>6. ASSUME ~stale, ~r.swept, NEW i \in r.before
        PROVE  i <= r.high \/ \E k \in r.pos..Len(Walk) : \E l \in note[Walk[k]] : l.id = i
    <3>1. i <= writer[w].high \/ \E k \in writer[w].pos..Len(Walk) : \E l \in note[Walk[k]] : l.id = i
      BY <1>1, <2>1, <2>5, <2>6 DEF Ahead
    <3>2. CASE i <= writer[w].high
      <4>1. i \in 0..MaxId /\ writer[w].high \in 0..MaxId /\ r.high \in 0..MaxId
        BY <1>1, <2>5 DEF WriterRow
      <4>. QED  BY <2>5, <3>2, <4>1
    <3>3. ASSUME NEW k \in writer[w].pos..Len(Walk), NEW l \in note[Walk[k]], l.id = i
          PROVE  i <= r.high \/ \E j \in r.pos..Len(Walk) : \E m \in note[Walk[j]] : m.id = i
      <4>1. CASE k = writer[w].pos
        BY <2>5, <3>3, <4>1
      <4>2. CASE k # writer[w].pos
        <5>1. k \in r.pos..Len(Walk)
          BY <2>4, <2>5, <4>2
        <5>. QED  BY <3>3, <5>1
      <4>. QED  BY <4>1, <4>2
    <3>. QED  BY <3>1, <3>2, <3>3
  <2>. QED  BY <2>1, <2>5, <2>6, WriterMoves
<1>4. CASE T!NextID(w)
  <2>. DEFINE r == [T!NotStarted EXCEPT !.pc = "write", !.id = writer[w].high + 1]
  <2>1. writer[w].high < MaxId /\ writer' = [writer EXCEPT ![w] = r]
        /\ UNCHANGED <<note, command, copies, written, finished, stale, crossed, unread>>
    BY <1>4 DEF T!NextID, T!history
  <2>2. writer[w].high \in 0..MaxId
    BY <1>1 DEF WriterRow
  <2>3. writer[w].high + 1 \in 0..MaxId
    BY <2>1, <2>2, TheWalk
  <2>4. r \in WriterRow /\ r.pc = "write"
    <3>1. T!NotStarted \in WriterRow
      BY TheWalk DEF T!NotStarted, WriterRow
    <3>. QED  BY <2>3, <3>1 DEF WriterRow
  <2>. HIDE DEF r
  <2>. QED  BY <2>1, <2>4, WriterMoves
<1>. QED  BY <1>2, <1>3, <1>4 DEF T!Ask

\* The id that is given is above every one that was written when the walk began.
LEMMA NextIsFresh ==
    ASSUME TasksInv, NEW w \in Writers, T!NextID(w)
    PROVE  writer'[w].id \notin writer[w].before \/ writer[w].swept \/ stale
<1>1. TasksTyped /\ writer[w] \in WriterRow /\ writer \in [Writers -> WriterRow] /\ (~stale => Ahead)
  BY TaskTypes DEF TasksInv
<1>2. writer[w].pc = "walk" /\ writer[w].pos > Len(Walk) /\ writer'[w].id = writer[w].high + 1
  <2>. DEFINE r == [T!NotStarted EXCEPT !.pc = "write", !.id = writer[w].high + 1]
  <2>1. writer' = [writer EXCEPT ![w] = r]
    BY DEF T!NextID
  <2>2. r.id = writer[w].high + 1
    BY DEF T!NotStarted
  <2>. HIDE DEF r
  <2>3. writer'[w].id = writer[w].high + 1
    BY <1>1, <2>1, <2>2
  <2>. QED  BY <2>3 DEF T!NextID
<1>. SUFFICES ASSUME writer[w].high + 1 \in writer[w].before, ~writer[w].swept, ~stale PROVE FALSE
  BY <1>2
<1>3. writer[w].high + 1 <= writer[w].high
      \/ \E k \in writer[w].pos..Len(Walk) : \E l \in note[Walk[k]] : l.id = writer[w].high + 1
  BY <1>1, <1>2 DEF Ahead
<1>4. writer[w].high \in 0..MaxId /\ writer[w].pos \in 1..(Len(Walk) + 1)
  BY <1>1 DEF WriterRow
<1>. QED  BY <1>2, <1>3, <1>4, TheWalk

LEMMA PutMoves ==
    ASSUME TasksInv, NEW n \in T!NoteNames, NEW new \in T!Line, T!Put(n, new),
           UNCHANGED <<command, stale, unread>>, copies' \in 0..MaxCopies, writer' \in [Writers -> WriterRow],
           \A w \in Writers : writer'[w] = writer[w] \/ writer'[w].pc = "done"
    PROVE  TasksInv'
<1>1. /\ note' = [note EXCEPT ![n] = note[n] \cup {new}]
      /\ written' = written \cup {<<n, new.task, new.id>>}
      /\ finished' = (IF new.box = "open" THEN finished \ {new.id} ELSE finished)
      /\ crossed' = (IF new.box = "open" /\ T!Walking(new.id) THEN crossed \cup {new.id} ELSE crossed)
  BY DEF T!Put
<1>2. TasksTyped
  BY DEF TasksInv
<1>3. note \in [T!NoteNames -> SUBSET T!Line] /\ note' \in [T!NoteNames -> SUBSET T!Line]
      /\ \A m \in T!NoteNames : note'[m] = IF m = n THEN note[n] \cup {new} ELSE note[m]
  <2>1. note \in [T!NoteNames -> SUBSET T!Line]
    BY <1>2, TaskTypes
  <2>2. note[n] \cup {new} \in SUBSET T!Line
    BY <2>1
  <2>. QED  BY <1>1, <2>1, <2>2
<1>4. TasksTyped'
  <2>1. new.task \in T!Tasks /\ new.id \in 0..MaxId
    BY DEF T!Line
  <2>2. written' \subseteq (T!NoteNames \X T!Tasks \X (0..MaxId))
    BY <1>1, <1>2, <2>1, TaskTypes
  <2>3. finished' \subseteq 1..MaxId /\ crossed' \subseteq 0..MaxId
    BY <1>1, <1>2, <2>1, TaskTypes
  <2>4. T!TypeOK'
    <3>1. command' \in [T!Rewriters -> TaskRow] /\ stale' \in BOOLEAN /\ unread' \subseteq T!NoteNames \X (1..MaxId)
      BY <1>2, TaskTypes
    <3>. QED  BY <1>3, <2>2, <2>3, <3>1
         DEF T!TypeOK, WriterRow, TaskRow, T!NoteNames, T!Rewriters, T!Line, T!Tasks, T!Range
  <2>5. \A w \in Writers : writer'[w].pc = "off" => writer'[w] = T!NotStarted
    BY <1>2 DEF TasksTyped
  <2>6. T!Rewriters' = T!Rewriters /\ T!Off' = T!Off /\ T!NotStarted' = T!NotStarted
    BY DEF T!Rewriters, T!Off, T!NotStarted
  <2>. QED  BY <1>2, <2>4, <2>5, <2>6 DEF TasksTyped
<1>5. \A t, i : \A m \in T!NoteNames : Held(m, t, i) => Held(m, t, i)'
  BY <1>3 DEF Held
<1>6. ASSUME NEW i, NEW m \in T!NoteNames, Left(m, i)', ~Left(m, i)
      PROVE  i \notin finished' /\ \A d \in Doners : Ticking(d)' /\ command'[d].id = i => i \in crossed'
  <2>1. i = new.id /\ new.box = "open"
    BY <1>3, <1>6 DEF Left, OpenIn
  <2>2. ASSUME NEW d \in Doners, Ticking(d)', command'[d].id = i PROVE i \in crossed'
    <3>1. T!Walking(i)
      BY <2>2 DEF Ticking, T!Walking
    <3>. QED  BY <1>1, <2>1, <3>1
  <2>. QED  BY <1>1, <2>1, <2>2
<1>7. ASSUME NEW e \in written', e \notin written PROVE Held(e[1], e[2], e[3])'
  <2>1. e = <<n, new.task, new.id>>
    BY <1>1, <1>7
  <2>2. e[1] = n /\ e[2] = new.task /\ e[3] = new.id
    BY <2>1
  <2>3. new \in note'[n]
    BY <1>3
  <2>. QED  BY <2>2, <2>3 DEF Held
<1>8. crossed \subseteq crossed' /\ finished' \subseteq finished
  BY <1>1
<1>9. \A d : Ticking(d)' <=> Ticking(d)
  BY DEF Ticking
<1>. QED  BY <1>4, <1>5, <1>6, <1>7, <1>8, <1>9, TasksMoveOn

LEMMA LinesPut ==
    ASSUME TasksInv,
           \/ \E w \in Writers, n \in T!NoteNames : T!WriteLine(w, n)
           \/ \E from, to \in T!NoteNames : T!CopyLine(from, to)
    PROVE  TasksInv'
<1>1. TasksTyped /\ writer \in [Writers -> WriterRow] /\ copies \in 0..MaxCopies /\ MaxCopies \in Nat
  BY TaskTypes, TheWalk DEF TasksInv
<1>2. ASSUME NEW w \in Writers, NEW n \in T!NoteNames, T!WriteLine(w, n) PROVE TasksInv'
  <2>. DEFINE new == [task |-> w, id |-> writer[w].id, box |-> "open"]
  <2>1. T!Put(n, new) /\ writer' = [writer EXCEPT ![w] = [writer[w] EXCEPT !.pc = "done"]]
        /\ UNCHANGED <<command, copies, stale, unread>>
    BY <1>1, <1>2 DEF T!WriteLine
  <2>2. new \in T!Line
    <3>1. writer[w].id \in 0..MaxId /\ w \in T!Tasks
      BY <1>1 DEF WriterRow, T!Tasks
    <3>. QED  BY <3>1 DEF T!Line
  <2>3. writer' \in [Writers -> WriterRow] /\ \A v \in Writers : writer'[v] = writer[v] \/ writer'[v].pc = "done"
    <3>1. [writer[w] EXCEPT !.pc = "done"] \in WriterRow /\ [writer[w] EXCEPT !.pc = "done"].pc = "done"
      BY <1>1 DEF WriterRow
    <3>. QED  BY <1>1, <2>1, <3>1
  <2>. HIDE DEF new
  <2>. QED  BY <1>1, <2>1, <2>2, <2>3, PutMoves
<1>3. ASSUME NEW from \in T!NoteNames, NEW to \in T!NoteNames, T!CopyLine(from, to) PROVE TasksInv'
  <2>1. PICK new \in note[from] : T!Put(to, new)
    BY <1>3 DEF T!CopyLine
  <2>2. copies < MaxCopies /\ copies' = copies + 1 /\ UNCHANGED <<writer, command, stale, unread>>
    BY <1>3 DEF T!CopyLine
  <2>3. new \in T!Line
    BY <1>1, TaskTypes
  <2>4. copies' \in 0..MaxCopies
    BY <1>1, <2>2
  <2>. QED  BY <1>1, <2>1, <2>2, <2>3, <2>4, PutMoves
<1>. QED  BY <1>2, <1>3

LEMMA LineTicked == ASSUME TasksInv, NEW n \in T!NoteNames, T!Tick(n) PROVE TasksInv'
<1>1. PICK old \in note[n] : /\ old.box = "open"
                             /\ note' = [note EXCEPT ![n] = (note[n] \ {old}) \cup {[old EXCEPT !.box = "ticked"]}]
  BY DEF T!Tick
<1>2. UNCHANGED <<writer, command, copies, written, finished, stale, crossed, unread>>
  BY DEF T!Tick, T!history
<1>3. TasksTyped /\ note \in [T!NoteNames -> SUBSET T!Line] /\ old \in T!Line
  <2>1. TasksTyped /\ note \in [T!NoteNames -> SUBSET T!Line]
    BY TaskTypes DEF TasksInv
  <2>. QED  BY <2>1
<1>. DEFINE new == [old EXCEPT !.box = "ticked"]
<1>4. new \in T!Line /\ new.task = old.task /\ new.id = old.id /\ new.box = "ticked"
  BY <1>3 DEF T!Line
<1>. HIDE DEF new
<1>5. note' \in [T!NoteNames -> SUBSET T!Line]
      /\ \A m \in T!NoteNames : note'[m] = IF m = n THEN (note[n] \ {old}) \cup {new} ELSE note[m]
  <2>1. note' = [note EXCEPT ![n] = (note[n] \ {old}) \cup {new}]
    BY <1>1 DEF new
  <2>2. (note[n] \ {old}) \cup {new} \in SUBSET T!Line
    BY <1>3, <1>4
  <2>. QED  BY <1>3, <2>1, <2>2
<1>6. TasksTyped'
  <2>1. T!TypeOK'
    BY <1>2, <1>3, <1>5, TaskTypes
    DEF T!TypeOK, WriterRow, TaskRow, T!NoteNames, T!Rewriters, T!Line, T!Tasks, T!Range
  <2>2. T!Rewriters' = T!Rewriters /\ T!Off' = T!Off /\ T!NotStarted' = T!NotStarted
    BY DEF T!Rewriters, T!Off, T!NotStarted
  <2>. QED  BY <1>2, <1>3, <2>1, <2>2 DEF TasksTyped
<1>7. \A t, i : \A m \in T!NoteNames : Held(m, t, i) => Held(m, t, i)'
  <2>. SUFFICES ASSUME NEW t, NEW i, NEW m \in T!NoteNames, NEW l \in note[m], l.task = t, l.id = i
       PROVE  \E k \in note'[m] : k.task = t /\ k.id = i
    BY DEF Held
  <2>1. CASE l = old /\ m = n
    BY <1>4, <1>5, <2>1
  <2>2. CASE ~(l = old /\ m = n)
    BY <1>5, <2>2
  <2>. QED  BY <2>1, <2>2
<1>8. \A i : \A m \in T!NoteNames : Left(m, i)' => Left(m, i)
  BY <1>2, <1>4, <1>5 DEF Left, OpenIn
<1>9. \A d : Ticking(d)' <=> Ticking(d)
  BY <1>2 DEF Ticking
<1>. QED  BY <1>2, <1>6, <1>7, <1>8, <1>9, TasksMoveOn

\* A step of one command.
LEMMA CommandMoves ==
    ASSUME TasksInv, NEW c \in T!Rewriters, NEW r \in TaskRow, command' = [command EXCEPT ![c] = r],
           UNCHANGED <<copies, crossed>>, note' \in [T!NoteNames -> SUBSET T!Line],
           writer' \in [Writers -> WriterRow],
           \A w \in Writers : \/ writer'[w] = writer[w]
                              \/ writer'[w].pc = "walk" /\ writer'[w].swept,
           written' \subseteq (T!NoteNames \X T!Tasks \X (0..MaxId)), finished' \subseteq 1..MaxId,
           stale' \in BOOLEAN, unread' \subseteq T!NoteNames \X (1..MaxId),
           c \in Doners => /\ r.pc \in {"off", "read", "rename", "done"} /\ (r.pc = "off" => r = T!Off)
                           /\ (r.pc \in {"read", "rename"} => r.id \in 1..MaxId),
           r.pc \in {"archive", "todo"} => c \in Sweepers,
           ~stale' =>
             /\ ~stale
             /\ \A t, i : \A n \in T!NoteNames : Held(n, t, i) =>
                  Held(n, t, i)' \/ (/\ n = "todo" /\ Held("archive", t, i)'
                                     /\ \A w \in Writers : writer'[w].pc = "walk" => writer'[w].swept)
             /\ \A i : \A n \in T!NoteNames : Left(n, i)' => Left(n, i) \/ i = 0
             /\ \A e \in written' : e \in written \/ Held(e[1], e[2], e[3])'
             /\ \A i \in finished' \ crossed : i \in finished \/ \A n \in T!NoteNames : ~Left(n, i)'
             /\ r.pc = "todo" => \A l \in T!DoneLines(r.base) : Held("archive", l.task, l.id)'
             /\ c \in Doners /\ r.pc \in {"read", "rename"} /\ r.id \notin crossed =>
                  \A k \in 1..(r.pos - 1) : \A l \in note'[Walk[k]] :
                    l.id = r.id /\ l.box = "open" => <<Walk[k], r.id>> \in unread'
    PROVE  TasksInv'
<1>1. TasksTyped /\ command \in [T!Rewriters -> TaskRow] /\ Doners \subseteq T!Rewriters
      /\ Sweepers \subseteq T!Rewriters
  BY TaskTypes DEF TasksInv, T!Rewriters
<1>2. command' \in [T!Rewriters -> TaskRow] /\ command'[c] = r
      /\ \A d \in T!Rewriters : d # c => command'[d] = command[d]
  BY <1>1
<1>3. TasksTyped'
  <2>1. T!TypeOK'
    <3>1. copies' \in 0..MaxCopies /\ crossed' \subseteq 0..MaxId
      BY <1>1, TaskTypes
    <3>. QED  BY <1>2, <3>1 DEF T!TypeOK, WriterRow, TaskRow, T!NoteNames, T!Rewriters, T!Line, T!Tasks, T!Range
  <2>2. \A w \in Writers : writer'[w].pc = "off" => writer'[w] = T!NotStarted
    BY <1>1 DEF TasksTyped
  <2>3. \A d \in Doners : /\ command'[d].pc \in {"off", "read", "rename", "done"}
                          /\ (command'[d].pc = "off" => command'[d] = T!Off)
                          /\ command'[d].pc \in {"read", "rename"} => command'[d].id \in 1..MaxId
    BY <1>1, <1>2 DEF TasksTyped
  <2>4. \A d \in T!Rewriters : command'[d].pc \in {"archive", "todo"} => d \in Sweepers
    BY <1>1, <1>2 DEF TasksTyped
  <2>5. T!Rewriters' = T!Rewriters /\ T!Off' = T!Off /\ T!NotStarted' = T!NotStarted
    BY DEF T!Rewriters, T!Off, T!NotStarted
  <2>. QED  BY <2>1, <2>2, <2>3, <2>4, <2>5 DEF TasksTyped
<1>. SUFFICES ASSUME ~stale' PROVE TasksInv'
  BY <1>3 DEF TasksInv
<1>4. 0 \notin finished' /\ \A d \in Doners : Ticking(d)' => command'[d].id # 0
  <2>1. \A d \in Doners : command'[d].pc \in {"read", "rename"} => command'[d].id \in 1..MaxId
    BY <1>3 DEF TasksTyped
  <2>. QED  BY <2>1 DEF Ticking
<1>5. \A i : \A n \in T!NoteNames : Left(n, i)' =>
        Left(n, i) \/ (i \notin finished' /\ \A d \in Doners : Ticking(d)' /\ command'[d].id = i => i \in crossed')
  BY <1>4
<1>6. \A s \in Sweepers : command'[s].pc = "todo" =>
        \/ command[s].pc = "todo" /\ command'[s].base = command[s].base
        \/ \A l \in T!DoneLines(command'[s].base) : Held("archive", l.task, l.id)'
  <2>. SUFFICES ASSUME NEW s \in Sweepers, command'[s].pc = "todo",
                       NEW l \in T!DoneLines(command'[s].base), s = c
       PROVE  Held("archive", l.task, l.id)'
    BY <1>1, <1>2
  <2>1. r.pc = "todo" /\ l \in T!DoneLines(r.base)
    BY <1>2
  <2>. QED  BY <2>1
<1>7. ASSUME NEW d \in Doners, Ticking(d)', command'[d].id \notin crossed'
      PROVE  \/ Ticking(d) /\ command'[d].id = command[d].id /\ command'[d].pos = command[d].pos
             \/ \A k \in 1..(command'[d].pos - 1) : \A l \in note'[Walk[k]] :
                  l.id = command'[d].id /\ l.box = "open" => <<Walk[k], command'[d].id>> \in unread'
  <2>1. CASE d = c
    <3>1. c \in Doners /\ r.pc \in {"read", "rename"} /\ r.id \notin crossed /\ command'[d] = r
      BY <1>2, <1>7, <2>1 DEF Ticking
    <3>. QED  BY <3>1
  <2>2. CASE d # c
    BY <1>1, <1>2, <1>7, <2>2 DEF Ticking
  <2>. QED  BY <2>1, <2>2
<1>8. \A e \in written' : e \in written \/ Held(e[1], e[2], e[3])'
  OBVIOUS
<1>9. \A w \in Writers : writer'[w].pc = "walk" /\ ~writer'[w].swept => writer'[w] = writer[w]
  OBVIOUS
<1>10. crossed' = crossed
  OBVIOUS
<1>. QED  BY <1>3, <1>5, <1>6, <1>7, <1>8, <1>9, <1>10, TasksMoveOn

\* One that only looks, or ends.
LEMMA CommandLooks ==
    ASSUME TasksInv, NEW c \in T!Rewriters, NEW r \in TaskRow, command' = [command EXCEPT ![c] = r],
           UNCHANGED <<note, writer, copies, written, finished, stale, crossed, unread>>,
           c \in Doners => /\ r.pc \in {"off", "read", "rename", "done"} /\ (r.pc = "off" => r = T!Off)
                           /\ (r.pc \in {"read", "rename"} => r.id \in 1..MaxId),
           r.pc \in {"archive", "todo"} => c \in Sweepers, r.pc # "todo",
           ~stale /\ c \in Doners /\ r.pc \in {"read", "rename"} /\ r.id \notin crossed =>
             \A k \in 1..(r.pos - 1) : \A l \in note[Walk[k]] :
               l.id = r.id /\ l.box = "open" => <<Walk[k], r.id>> \in unread
    PROVE  TasksInv'
<1>1. \A n, t, i : Held(n, t, i)' <=> Held(n, t, i)
  BY DEF Held
<1>2. \A n, i : Left(n, i)' <=> Left(n, i)
  BY DEF Left, OpenIn
<1>3. TasksTyped
  BY DEF TasksInv
<1>4. /\ note' \in [T!NoteNames -> SUBSET T!Line] /\ writer' \in [Writers -> WriterRow]
      /\ written' \subseteq (T!NoteNames \X T!Tasks \X (0..MaxId)) /\ finished' \subseteq 1..MaxId
      /\ stale' \in BOOLEAN /\ unread' \subseteq T!NoteNames \X (1..MaxId)
  BY <1>3, TaskTypes
<1>5. \A w \in Writers : writer'[w] = writer[w]
  OBVIOUS
<1>. QED  BY <1>1, <1>2, <1>4, <1>5, CommandMoves

LEMMA OffIs ==
    ASSUME NEW c
    PROVE  /\ T!Off \in TaskRow /\ T!Off.pc = "off" /\ T!Off.pos = 1 /\ T!Off.id = 0
           /\ T!Ended \in TaskRow /\ T!Ended.pc = "done"
           /\ T!Over(c) \in TaskRow /\ T!Over(c).pc \in {"off", "done"}
           /\ (c \in Doners => T!Over(c) = T!Ended)
<1>1. T!Off \in TaskRow /\ T!Off.pc = "off" /\ T!Off.pos = 1 /\ T!Off.id = 0
  BY TheWalk DEF T!Off, TaskRow
<1>2. T!Ended \in TaskRow /\ T!Ended.pc = "done"
  BY <1>1 DEF T!Ended, TaskRow
<1>3. c \in Doners => c \notin Sweepers
  BY TaskAssumption
<1>. QED  BY <1>1, <1>2, <1>3 DEF T!Over

LEMMA CommandsLook ==
    ASSUME TasksInv, NEW c \in T!Rewriters,
           \/ T!ReadForSweep(c) \/ T!ReadArchive(c) \/ T!ReadTodo(c) \/ T!Dies(c)
           \/ c \in Doners /\ \E i \in 1..MaxId : T!StartDone(c, i)
    PROVE  TasksInv'
<1>1. TasksTyped /\ command \in [T!Rewriters -> TaskRow] /\ command[c] \in TaskRow
      /\ note \in [T!NoteNames -> SUBSET T!Line]
  BY TaskTypes DEF TasksInv
<1>2. UNCHANGED <<note, writer, copies, written, finished, stale, crossed, unread>>
  BY DEF T!ReadForSweep, T!ReadArchive, T!ReadTodo, T!Dies, T!StartDone, T!history
<1>3. CASE T!ReadForSweep(c) \/ T!ReadArchive(c) \/ T!ReadTodo(c)
  <2>1. c \notin Doners
    BY <1>3, TaskAssumption DEF T!ReadForSweep, T!ReadArchive, T!ReadTodo
  <2>2. note["todo"] \in SUBSET T!Line /\ note["archive"] \in SUBSET T!Line
    BY <1>1, TheWalk
  <2>3. PICK r \in TaskRow : /\ command' = [command EXCEPT ![c] = r] /\ r.pc # "todo"
                             /\ r.pc = "archive" => c \in Sweepers
    <3>1. CASE T!ReadForSweep(c)
      <4>1. command[c] \in TaskRow /\ command[c].pc = "off"
        BY <1>1, <3>1 DEF T!ReadForSweep
      <4>2. [command[c] EXCEPT !.pc = "read", !.base = note["todo"]] \in TaskRow
            /\ [command[c] EXCEPT !.pc = "read", !.base = note["todo"]].pc = "read"
        BY <1>1, <2>2 DEF TaskRow
      <4>. QED  BY <1>1, <3>1, <4>1, <4>2 DEF T!ReadForSweep, T!Todo
    <3>2. CASE T!ReadArchive(c)
      <4>1. [command[c] EXCEPT !.pc = "archive", !.other = note["archive"]] \in TaskRow
        BY <1>1, <2>2 DEF TaskRow
      <4>2. command' = [command EXCEPT ![c] = [command[c] EXCEPT !.pc = "archive", !.other = note["archive"]]]
            /\ c \in Sweepers
        BY <1>1, <3>2 DEF T!ReadArchive, T!Archive, TaskRow
      <4>3. [command[c] EXCEPT !.pc = "archive", !.other = note["archive"]].pc = "archive"
        BY <1>1 DEF TaskRow
      <4>. QED  BY <4>1, <4>2, <4>3
    <3>3. CASE T!ReadTodo(c)
      <4>1. [command[c] EXCEPT !.pc = "rename", !.base = note["todo"]] \in TaskRow
            /\ [command[c] EXCEPT !.pc = "rename", !.base = note["todo"]].pc = "rename"
        BY <1>1, <2>2 DEF TaskRow
      <4>2. command' = [command EXCEPT ![c] = [command[c] EXCEPT !.pc = "rename", !.base = note["todo"]]]
        BY <1>1, <3>3 DEF T!ReadTodo, T!Todo, TaskRow
      <4>. QED  BY <4>1, <4>2
    <3>. QED  BY <1>3, <3>1, <3>2, <3>3
  <2>4. /\ r \in TaskRow /\ command' = [command EXCEPT ![c] = r] /\ r.pc # "todo"
        /\ r.pc \in {"archive", "todo"} => c \in Sweepers
    BY <2>3
  <2>5. c \in Doners => /\ r.pc \in {"off", "read", "rename", "done"} /\ (r.pc = "off" => r = T!Off)
                       /\ (r.pc \in {"read", "rename"} => r.id \in 1..MaxId)
    BY <2>1
  <2>6. ~stale /\ c \in Doners /\ r.pc \in {"read", "rename"} /\ r.id \notin crossed =>
          \A k \in 1..(r.pos - 1) : \A l \in note[Walk[k]] :
            l.id = r.id /\ l.box = "open" => <<Walk[k], r.id>> \in unread
    BY <2>1
  <2>. QED  BY <1>2, <2>4, <2>5, <2>6, CommandLooks
<1>4. CASE T!Dies(c)
  <2>1. command' = [command EXCEPT ![c] = T!Over(c)]
    BY <1>4 DEF T!Dies
  <2>. QED  BY <1>2, <2>1, OffIs, CommandLooks
<1>5. ASSUME c \in Doners, NEW i \in 1..MaxId, T!StartDone(c, i) PROVE TasksInv'
  <2>. DEFINE r == [command[c] EXCEPT !.pc = "read", !.id = i]
  <2>1. command' = [command EXCEPT ![c] = r] /\ command[c].pc = "off"
    BY <1>1, <1>5 DEF T!StartDone, TaskRow
  <2>2. command[c] = T!Off
    BY <1>1, <1>5, <2>1 DEF TasksTyped
  <2>3. command[c].pos = 1
    BY <2>2, OffIs
  <2>4. i \in 0..MaxId
    BY TheWalk
  <2>5. r \in TaskRow /\ r.pc = "read" /\ r.id = i /\ r.pos = 1
    BY <1>1, <2>3, <2>4 DEF TaskRow
  <2>. HIDE DEF r
  <2>6. \A k \in 1..(r.pos - 1) : FALSE
    BY <2>5
  <2>7. c \notin Sweepers
    BY <1>5, TaskAssumption
  <2>8. /\ r.pc \in {"off", "read", "rename", "done"} /\ (r.pc = "off" => r = T!Off)
        /\ (r.pc \in {"read", "rename"} => r.id \in 1..MaxId)
        /\ ~(r.pc \in {"archive", "todo"}) /\ r.pc # "todo"
    BY <2>5
  <2>. QED  BY <1>2, <2>1, <2>5, <2>6, <2>8, CommandLooks
<1>. QED  BY <1>3, <1>4, <1>5

\* Where a `done` is after a note.
LEMMA NextNoteIs ==
    ASSUME TasksInv, NEW d \in Doners, Ticking(d), T!NextNote(d)
    PROVE  \E r \in TaskRow :
             /\ command' = [command EXCEPT ![d] = r] /\ r.pc \in {"read", "done"}
             /\ r.pc = "read" => /\ r.id = command[d].id /\ r.pos = command[d].pos + 1
                                 /\ finished' = finished
             /\ r.pc = "done" => /\ command[d].pos = Len(Walk)
                                 /\ finished' = finished \cup {command[d].id}
<1>1. command \in [T!Rewriters -> TaskRow] /\ command[d] \in TaskRow
  <2>1. d \in T!Rewriters
    BY DEF T!Rewriters
  <2>. QED  BY <2>1, TaskTypes DEF TasksInv
<1>2. command[d].pos \in 1..Len(Walk) /\ Len(Walk) \in Nat
  BY <1>1, TheWalk DEF TaskRow
<1>3. CASE command[d].pos < Len(Walk)
  <2>. DEFINE r == [command[d] EXCEPT !.pc = "read", !.pos = command[d].pos + 1, !.base = {}]
  <2>1. command' = [command EXCEPT ![d] = r] /\ finished' = finished
    BY <1>1, <1>3 DEF T!NextNote, TaskRow
  <2>2. command[d].pos + 1 \in 1..Len(Walk)
    BY <1>2, <1>3
  <2>3. r \in TaskRow /\ r.pc = "read" /\ r.id = command[d].id /\ r.pos = command[d].pos + 1
    BY <1>1, <2>2 DEF TaskRow
  <2>. HIDE DEF r
  <2>. QED  BY <2>1, <2>3
<1>4. CASE ~(command[d].pos < Len(Walk))
  <2>1. command[d].pos = Len(Walk)
    BY <1>2, <1>4
  <2>2. command' = [command EXCEPT ![d] = T!Ended] /\ finished' = finished \cup {command[d].id}
    BY <1>4 DEF T!NextNote
  <2>. QED  BY <2>1, <2>2, OffIs
<1>. QED  BY <1>3, <1>4

\* A `done` that has left no line of its task open in a note goes on to the next.
LEMMA DoneMoves ==
    ASSUME TasksInv, NEW d \in Doners, Ticking(d), T!NextNote(d),
           UNCHANGED <<writer, copies, written, crossed>>, note' \in [T!NoteNames -> SUBSET T!Line],
           stale' \in BOOLEAN, unread' \in {unread \ {T!Here(d)}, unread \cup {T!Here(d)}},
           ~stale' =>
             /\ ~stale
             /\ \A t, i : \A n \in T!NoteNames : Held(n, t, i) => Held(n, t, i)'
             /\ \A i : \A n \in T!NoteNames : OpenIn(n, i)' => OpenIn(n, i)
             /\ \/ T!Here(d) \in unread'
                \/ \A l \in note'[Walk[command[d].pos]] : l.id = command[d].id => l.box # "open"
    PROVE  TasksInv'
<1>1. PICK r \in TaskRow :
             /\ command' = [command EXCEPT ![d] = r] /\ r.pc \in {"read", "done"}
             /\ r.pc = "read" => /\ r.id = command[d].id /\ r.pos = command[d].pos + 1
                                 /\ finished' = finished
             /\ r.pc = "done" => /\ command[d].pos = Len(Walk)
                                 /\ finished' = finished \cup {command[d].id}
  BY NextNoteIs
<1>2. TasksTyped /\ d \in T!Rewriters /\ command[d] \in TaskRow /\ command[d].id \in 1..MaxId
  <2>1. d \in T!Rewriters /\ TasksTyped
    BY DEF T!Rewriters, TasksInv
  <2>2. command[d].pc \in {"read", "rename"}
    BY DEF Ticking
  <2>3. command[d].id \in 1..MaxId
    BY <2>1, <2>2 DEF TasksTyped
  <2>. QED  BY <2>1, <2>3, TaskTypes
<1>3. command[d].pos \in 1..Len(Walk) /\ Len(Walk) \in Nat
  BY <1>2, TheWalk DEF TaskRow
<1>11. ASSUME ~stale', NEW i, NEW n \in T!NoteNames, Left(n, i)' PROVE Left(n, i)
  <2>1. OpenIn(n, i)' /\ OpenIn(n, i) /\ <<n, i>> \notin unread'
    BY <1>11 DEF Left
  <2>2. CASE <<n, i>> = T!Here(d)
    <3>1. n = Walk[command[d].pos] /\ i = command[d].id
      BY <2>2 DEF T!Here
    <3>2. \A l \in note'[n] : l.id = i => l.box # "open"
      BY <1>11, <2>1, <2>2, <3>1
    <3>. QED  BY <2>1, <3>2 DEF OpenIn
  <2>3. CASE <<n, i>> # T!Here(d)
    BY <2>1, <2>3 DEF Left
  <2>. QED  BY <2>2, <2>3
<1>12. unread' \subseteq T!NoteNames \X (1..MaxId)
  <2>1. unread \subseteq T!NoteNames \X (1..MaxId) /\ T!Here(d) \in T!NoteNames \X (1..MaxId)
    BY <1>2, <1>3, TheWalk, TaskTypes DEF T!Here
  <2>. QED  BY <2>1
<1>4. ASSUME ~stale', command[d].id \notin crossed, NEW k \in 1..command[d].pos,
             NEW l \in note'[Walk[k]], l.id = command[d].id, l.box = "open",
             <<Walk[k], command[d].id>> \notin unread'
      PROVE  FALSE
  <2>1. Closed
    BY <1>4 DEF TasksInv
  <2>2. CASE k = command[d].pos
    BY <1>4, <2>2 DEF T!Here
  <2>3. CASE k # command[d].pos
    <3>1. k \in 1..(command[d].pos - 1)
      BY <1>3, <2>3
    <3>. PICK i : i = command[d].id
      OBVIOUS
    <3>2. ~Left(Walk[k], i)
      BY <1>4, <2>1, <3>1 DEF Closed
    <3>3. Left(Walk[k], i)'
      BY <1>4 DEF Left, OpenIn
    <3>4. Walk[k] \in T!NoteNames
      BY <1>3, <3>1, TheWalk
    <3>. QED  BY <1>4, <1>11, <3>2, <3>3, <3>4
  <2>. QED  BY <2>2, <2>3
<1>5. /\ written' \subseteq (T!NoteNames \X T!Tasks \X (0..MaxId)) /\ writer' \in [Writers -> WriterRow]
      /\ finished' \subseteq 1..MaxId
  BY <1>1, <1>2, TaskTypes
<1>6. ASSUME ~stale', NEW i \in finished' \ crossed, i \notin finished, NEW n \in T!NoteNames
      PROVE  ~Left(n, i)'
  <2>1. i = command[d].id /\ r.pc = "done" /\ command[d].pos = Len(Walk)
    BY <1>1, <1>6
  <2>2. PICK k \in 1..Len(Walk) : n = Walk[k]
    BY TheWalk
  <2>. SUFFICES ASSUME NEW l \in note'[Walk[k]], l.id = i, l.box = "open", <<Walk[k], i>> \notin unread'
                PROVE  FALSE
    BY <2>2 DEF Left, OpenIn
  <2>. QED  BY <1>4, <1>6, <2>1
<1>7. ASSUME ~stale', r.pc \in {"read", "rename"}, r.id \notin crossed,
             NEW k \in 1..(r.pos - 1), NEW l \in note'[Walk[k]], l.id = r.id, l.box = "open",
             <<Walk[k], r.id>> \notin unread'
      PROVE  FALSE
  <2>1. r.id = command[d].id /\ r.pos = command[d].pos + 1
    BY <1>1, <1>7
  <2>2. k \in 1..command[d].pos
    BY <1>3, <2>1
  <2>. QED  BY <1>4, <1>7, <2>1, <2>2
<1>8. /\ r.pc \in {"off", "read", "rename", "done"} /\ (r.pc = "off" => r = T!Off)
      /\ (r.pc \in {"read", "rename"} => r.id \in 1..MaxId)
      /\ ~(r.pc \in {"archive", "todo"}) /\ r.pc # "todo"
  BY <1>1, <1>2
<1>9. \A w \in Writers : writer'[w] = writer[w]
  OBVIOUS
<1>10. UNCHANGED <<copies, crossed, written>>
  OBVIOUS
<1>. QED  BY <1>1, <1>2, <1>5, <1>6, <1>7, <1>8, <1>9, <1>10, <1>11, <1>12, CommandMoves

LEMMA DoneReads == ASSUME TasksInv, NEW d \in T!Rewriters, T!ReadForDone(d) PROVE TasksInv'
<1>. DEFINE n == Walk[command[d].pos]
<1>1. d \in Doners /\ command[d].pc = "read" /\ Ticking(d)
      /\ UNCHANGED <<note, writer, copies, written, stale, crossed>>
  BY DEF T!ReadForDone, Ticking
<1>2. TasksTyped /\ command \in [T!Rewriters -> TaskRow] /\ command[d] \in TaskRow
      /\ note \in [T!NoteNames -> SUBSET T!Line] /\ stale \in BOOLEAN /\ command[d].id \in 1..MaxId
  <2>1. TasksTyped
    BY DEF TasksInv
  <2>2. command[d].id \in 1..MaxId
    BY <1>1, <2>1 DEF TasksTyped
  <2>. QED  BY <2>1, <2>2, TaskTypes
<1>3. n \in T!NoteNames /\ note[n] \in SUBSET T!Line
  <2>1. command[d].pos \in 1..Len(Walk)
    BY <1>2 DEF TaskRow
  <2>2. n \in T!NoteNames
    BY <2>1, TheWalk
  <2>. QED  BY <1>2, <2>2
<1>4. CASE /\ T!NextNote(d)
           /\ \/ T!ToStamp(note[n], command[d].id) = {} /\ unread' = unread \ {T!Here(d)}
              \/ unread' = unread \cup {T!Here(d)}
  <2>1. T!Here(d) \in unread' \/ \A l \in note[n] : l.id = command[d].id => l.box # "open"
    <3>. SUFFICES ASSUME NEW l \in note[n], l.id = command[d].id, l.box = "open",
                         T!ToStamp(note[n], command[d].id) = {}
                  PROVE  FALSE
      BY <1>4
    <3>1. l \in T!ToStamp(note[n], command[d].id)
      BY DEF T!ToStamp, T!Carrying
    <3>. QED  BY <3>1
  <2>2. \A t, i : \A m \in T!NoteNames : Held(m, t, i) => Held(m, t, i)'
    BY <1>1 DEF Held
  <2>3. \A i : \A m \in T!NoteNames : OpenIn(m, i)' => OpenIn(m, i)
    BY <1>1 DEF OpenIn
  <2>. QED  BY <1>1, <1>2, <1>4, <2>1, <2>2, <2>3, DoneMoves
<1>5. CASE command' = [command EXCEPT ![d].pc = "rename", ![d].base = note[n]] /\ UNCHANGED <<finished, unread>>
  <2>. DEFINE r == [command[d] EXCEPT !.pc = "rename", !.base = note[n]]
  <2>1. command' = [command EXCEPT ![d] = r]
    BY <1>2, <1>5 DEF TaskRow
  <2>2. r \in TaskRow /\ r.pc = "rename" /\ r.id = command[d].id /\ r.pos = command[d].pos
    BY <1>2, <1>3 DEF TaskRow
  <2>. HIDE DEF r
  <2>3. ASSUME ~stale, r.id \notin crossed, NEW k \in 1..(r.pos - 1), NEW l \in note[Walk[k]], l.id = r.id, l.box = "open",
               <<Walk[k], r.id>> \notin unread
        PROVE  FALSE
    <3>1. ~Left(Walk[k], command[d].id)
      BY <1>1, <2>2, <2>3 DEF TasksInv, Closed
    <3>. QED  BY <2>2, <2>3, <3>1 DEF Left, OpenIn
  <2>4. /\ r.pc \in {"off", "read", "rename", "done"} /\ (r.pc = "off" => r = T!Off)
        /\ (r.pc \in {"read", "rename"} => r.id \in 1..MaxId)
        /\ ~(r.pc \in {"archive", "todo"}) /\ r.pc # "todo"
    BY <1>2, <2>2
  <2>. QED  BY <1>1, <1>5, <2>1, <2>2, <2>3, <2>4, CommandLooks
<1>. QED  BY <1>4, <1>5 DEF T!ReadForDone

LEMMA DoneStamps == ASSUME TasksInv, NEW d \in T!Rewriters, T!StampCopies(d) PROVE TasksInv'
<1>. DEFINE n == Walk[command[d].pos]
            base == command[d].base
            old == T!ToStamp(base, command[d].id)
            new == {[l EXCEPT !.box = "stamped"] : l \in old}
<1>1. /\ d \in Doners /\ command[d].pc = "rename" /\ Ticking(d)
      /\ note' = [note EXCEPT ![n] = (base \ old) \cup new]
      /\ stale' = (stale \/ note[n] # base)
      /\ T!NextNote(d) /\ unread' = unread \ {T!Here(d)}
      /\ UNCHANGED <<writer, copies, written, crossed>>
  BY DEF T!StampCopies, T!Replace, Ticking
<1>2. TasksTyped /\ command[d] \in TaskRow /\ note \in [T!NoteNames -> SUBSET T!Line] /\ stale \in BOOLEAN
  BY TaskTypes DEF TasksInv
<1>3. n \in T!NoteNames /\ base \in SUBSET T!Line
  <2>1. command[d].pos \in 1..Len(Walk) /\ base \in SUBSET T!Line
    BY <1>2 DEF TaskRow
  <2>. QED  BY <2>1, TheWalk
<1>4. (\A l \in old : l \in base /\ l.id = command[d].id)
      /\ \A l \in base : l \in old \/ l.id # command[d].id \/ l.box = "stamped"
  BY DEF T!ToStamp, T!Carrying
<1>5. ASSUME NEW l \in old
      PROVE  LET m == [l EXCEPT !.box = "stamped"] IN
             m \in T!Line /\ m.task = l.task /\ m.id = l.id /\ m.box = "stamped"
  <2>1. l \in T!Line
    BY <1>3, <1>4, <1>5
  <2>. QED  BY <2>1 DEF T!Line
<1>6. new \in SUBSET T!Line /\ \A m \in new : m.box = "stamped"
  BY <1>5
<1>7. \A l \in old : \E m \in new : m.task = l.task /\ m.id = l.id
  BY <1>5
<1>. HIDE DEF new, old
<1>8. note' \in [T!NoteNames -> SUBSET T!Line]
      /\ \A m \in T!NoteNames : note'[m] = IF m = n THEN (base \ old) \cup new ELSE note[m]
  <2>1. (base \ old) \cup new \in SUBSET T!Line
    BY <1>3, <1>6
  <2>. HIDE DEF n, base
  <2>. QED  BY <1>1, <1>2, <1>3, <2>1
<1>9. stale' \in BOOLEAN
  BY <1>1, <1>2
<1>10. ASSUME ~stale'
       PROVE  /\ ~stale
              /\ \A t, i : \A m \in T!NoteNames : Held(m, t, i) => Held(m, t, i)'
              /\ \A i : \A m \in T!NoteNames : OpenIn(m, i)' => OpenIn(m, i)
              /\ \A l \in note'[n] : l.id = command[d].id => l.box # "open"
  <2>1. ~stale /\ note[n] = base
    BY <1>1, <1>10
  <2>2. \A l \in note'[n] : l \in base \ old \/ l.box = "stamped"
    BY <1>3, <1>6, <1>8
  <2>3. ASSUME NEW l \in note'[n], l.id = command[d].id, l.box = "open" PROVE FALSE
    <3>1. l \in base \ old
      BY <2>2, <2>3
    <3>. HIDE DEF base
    <3>. QED  BY <1>4, <2>3, <3>1
  <2>4. ASSUME NEW t, NEW i, NEW m \in T!NoteNames, Held(m, t, i) PROVE Held(m, t, i)'
    <3>1. PICK l \in note[m] : l.task = t /\ l.id = i
      BY <2>4 DEF Held
    <3>2. CASE m = n /\ l \in old
      BY <1>7, <1>8, <3>1, <3>2 DEF Held
    <3>3. CASE ~(m = n /\ l \in old)
      <4>1. l \in note'[m]
        BY <1>8, <2>1, <3>1, <3>3
      <4>. QED  BY <3>1, <4>1 DEF Held
    <3>. QED  BY <3>2, <3>3
  <2>5. ASSUME NEW i, NEW m \in T!NoteNames, OpenIn(m, i)' PROVE OpenIn(m, i)
    <3>1. PICK l \in note'[m] : l.id = i /\ l.box = "open"
      BY <2>5 DEF OpenIn
    <3>2. l \in note[m]
      BY <1>8, <2>1, <2>2, <3>1
    <3>. QED  BY <3>1, <3>2 DEF OpenIn
  <2>. QED  BY <2>1, <2>3, <2>4, <2>5
<1>. QED  BY <1>1, <1>8, <1>9, <1>10, DoneMoves

\* The archive is written first.
LEMMA ArchiveSwept == ASSUME TasksInv, NEW s \in T!Rewriters, T!SweepArchive(s) PROVE TasksInv'
<1>. DEFINE swept == T!DoneLines(command[s].base)
            other == command[s].other
            r == [command[s] EXCEPT !.pc = "todo", !.other = {}]
<1>1. TasksTyped /\ command \in [T!Rewriters -> TaskRow] /\ command[s] \in TaskRow
      /\ note \in [T!NoteNames -> SUBSET T!Line] /\ stale \in BOOLEAN
  BY TaskTypes DEF TasksInv
<1>2. /\ command[s].pc = "archive"
      /\ note' = [note EXCEPT !["archive"] = other \cup swept]
      /\ stale' = (stale \/ note["archive"] # other)
      /\ command' = [command EXCEPT ![s] = r]
      /\ UNCHANGED <<writer, copies, written, finished, crossed, unread>>
  BY <1>1 DEF T!SweepArchive, T!Archive, TaskRow
<1>3. r \in TaskRow /\ r.pc = "todo" /\ r.base = command[s].base
  BY <1>1 DEF TaskRow
<1>4. s \in Sweepers /\ s \notin Doners
  BY <1>1, <1>2, TaskAssumption DEF TasksTyped
<1>5. swept \in SUBSET T!Line /\ other \in SUBSET T!Line /\ \A l \in swept : l.box # "open"
  BY <1>1 DEF TaskRow, T!DoneLines
<1>6. swept = T!DoneLines(r.base)
  BY <1>3
<1>. HIDE DEF r, swept, other
<1>7. note' \in [T!NoteNames -> SUBSET T!Line]
      /\ \A m \in T!NoteNames : note'[m] = IF m = "archive" THEN other \cup swept ELSE note[m]
  BY <1>1, <1>2, <1>5, TheWalk
<1>8. ASSUME ~stale'
      PROVE  /\ ~stale
             /\ \A t, i : \A n \in T!NoteNames : Held(n, t, i) => Held(n, t, i)'
             /\ \A i : \A n \in T!NoteNames : Left(n, i)' => Left(n, i)
             /\ \A l \in swept : Held("archive", l.task, l.id)'
  <2>1. ~stale /\ note["archive"] = other
    BY <1>2, <1>8
  <2>2. \A t, i : \A n \in T!NoteNames : Held(n, t, i) => Held(n, t, i)'
    BY <1>7, <2>1 DEF Held
  <2>3. \A i : \A n \in T!NoteNames : Left(n, i)' => Left(n, i)
    BY <1>2, <1>5, <1>7, <2>1 DEF Left, OpenIn
  <2>4. \A l \in swept : l \in note'["archive"]
    BY <1>7, TheWalk
  <2>. QED  BY <2>1, <2>2, <2>3, <2>4 DEF Held
<1>9. stale' \in BOOLEAN /\ unread' \subseteq T!NoteNames \X (1..MaxId)
  BY <1>1, <1>2, TaskTypes
<1>10. /\ written' \subseteq (T!NoteNames \X T!Tasks \X (0..MaxId)) /\ writer' \in [Writers -> WriterRow]
       /\ finished' \subseteq 1..MaxId /\ UNCHANGED <<copies, crossed, written, finished, unread>>
       /\ \A w \in Writers : writer'[w] = writer[w]
  BY <1>1, <1>2, TaskTypes
<1>. QED  BY <1>2, <1>3, <1>4, <1>6, <1>7, <1>8, <1>9, <1>10, CommandMoves

LEMMA TodoSwept == ASSUME TasksInv, NEW s \in T!Rewriters, T!SweepTodo(s) PROVE TasksInv'
<1>. DEFINE base == command[s].base
            swept == T!DoneLines(base)
            r == T!Over(s)
            row(w) == IF writer[w].pc = "walk" THEN [writer[w] EXCEPT !.swept = TRUE] ELSE writer[w]
<1>1. TasksTyped /\ command \in [T!Rewriters -> TaskRow] /\ command[s] \in TaskRow
      /\ note \in [T!NoteNames -> SUBSET T!Line] /\ stale \in BOOLEAN /\ writer \in [Writers -> WriterRow]
  BY TaskTypes DEF TasksInv
<1>2. /\ command[s].pc = "todo"
      /\ note' = [note EXCEPT !["todo"] = base \ swept]
      /\ stale' = (stale \/ note["todo"] # base)
      /\ command' = [command EXCEPT ![s] = r]
      /\ writer' = [w \in Writers |-> row(w)]
      /\ UNCHANGED <<copies, written, finished, crossed, unread>>
  BY DEF T!SweepTodo, T!Todo, T!Replace
<1>3. s \in Sweepers /\ s \notin Doners
  BY <1>1, <1>2, TaskAssumption DEF TasksTyped
<1>4. r \in TaskRow /\ r.pc \in {"off", "done"}
  BY OffIs
<1>5. base \in SUBSET T!Line /\ swept \subseteq base
  BY <1>1 DEF TaskRow, T!DoneLines
<1>6. ASSUME NEW w \in Writers
      PROVE  row(w) \in WriterRow /\ (row(w) = writer[w] \/ (row(w).pc = "walk" /\ row(w).swept))
             /\ (row(w).pc = "walk" => row(w).swept)
  <2>1. writer[w] \in WriterRow
    BY <1>1
  <2>2. CASE writer[w].pc = "walk"
    <3>1. row(w) = [writer[w] EXCEPT !.swept = TRUE]
      BY <2>2
    <3>2. row(w) \in WriterRow /\ row(w).pc = "walk" /\ row(w).swept = TRUE
      BY <2>1, <2>2, <3>1 DEF WriterRow
    <3>. HIDE DEF row
    <3>. QED  BY <3>2
  <2>3. CASE writer[w].pc # "walk"
    BY <2>1, <2>3
  <2>. QED  BY <2>2, <2>3
<1>. HIDE DEF r, row
<1>7. writer' \in [Writers -> WriterRow] /\ \A w \in Writers : writer'[w].pc = "walk" => writer'[w].swept
  BY <1>2, <1>6
<1>8. note' \in [T!NoteNames -> SUBSET T!Line]
      /\ \A m \in T!NoteNames : note'[m] = IF m = "todo" THEN base \ swept ELSE note[m]
  <2>1. base \ swept \in SUBSET T!Line
    BY <1>5
  <2>. HIDE DEF base, swept
  <2>. QED  BY <1>1, <1>2, <2>1, TheWalk
<1>9. ASSUME ~stale'
      PROVE  /\ ~stale
             /\ \A t, i : \A n \in T!NoteNames : Held(n, t, i) =>
                  Held(n, t, i)' \/ (n = "todo" /\ Held("archive", t, i)')
             /\ \A i : \A n \in T!NoteNames : Left(n, i)' => Left(n, i)
  <2>1. ~stale /\ note["todo"] = base /\ Archived
    BY <1>2, <1>9 DEF TasksInv
  <2>2. ASSUME NEW l \in swept PROVE Held("archive", l.task, l.id)'
    <3>1. Held("archive", l.task, l.id)
      BY <1>2, <1>3, <2>1 DEF Archived
    <3>2. note'["archive"] = note["archive"]
      BY <1>8, TheWalk
    <3>. QED  BY <3>1, <3>2 DEF Held
  <2>. HIDE DEF swept, base
  <2>3. ASSUME NEW t, NEW i, NEW n \in T!NoteNames, Held(n, t, i)
        PROVE  Held(n, t, i)' \/ (n = "todo" /\ Held("archive", t, i)')
    <3>1. PICK l \in note[n] : l.task = t /\ l.id = i
      BY <2>3 DEF Held
    <3>2. CASE n = "todo" /\ l \in swept
      BY <2>2, <3>1, <3>2
    <3>3. CASE ~(n = "todo" /\ l \in swept)
      <4>1. l \in note'[n]
        BY <1>8, <2>1, <3>1, <3>3
      <4>. QED  BY <3>1, <4>1 DEF Held
    <3>. QED  BY <3>2, <3>3
  <2>4. ASSUME NEW i, NEW n \in T!NoteNames, Left(n, i)' PROVE Left(n, i)
    <3>1. note'[n] \subseteq note[n]
      BY <1>8, <2>1
    <3>. QED  BY <1>2, <2>4, <3>1 DEF Left, OpenIn
  <2>. QED  BY <2>1, <2>3, <2>4
<1>10. stale' \in BOOLEAN /\ unread' \subseteq T!NoteNames \X (1..MaxId)
  BY <1>1, <1>2, TaskTypes
<1>11. /\ written' \subseteq (T!NoteNames \X T!Tasks \X (0..MaxId))
       /\ finished' \subseteq 1..MaxId /\ UNCHANGED <<copies, crossed, written, finished, unread>>
  BY <1>1, <1>2, TaskTypes
<1>12. ~(r.pc \in {"archive", "todo"}) /\ r.pc # "todo"
  BY <1>4
<1>13. command' = [command EXCEPT ![s] = r]
  BY <1>2
<1>14. ~stale' =>
         /\ ~stale
         /\ \A t, i : \A n \in T!NoteNames : Held(n, t, i) =>
              Held(n, t, i)' \/ (/\ n = "todo" /\ Held("archive", t, i)'
                                 /\ \A w \in Writers : writer'[w].pc = "walk" => writer'[w].swept)
         /\ \A i : \A n \in T!NoteNames : Left(n, i)' => Left(n, i) \/ i = 0
         /\ \A e \in written' : e \in written \/ Held(e[1], e[2], e[3])'
         /\ \A i \in finished' \ crossed : i \in finished \/ \A n \in T!NoteNames : ~Left(n, i)'
  BY <1>7, <1>9, <1>11
<1>. HIDE DEF base, swept
<1>15. ASSUME NEW w \in Writers
       PROVE  writer'[w] = writer[w] \/ (writer'[w].pc = "walk" /\ writer'[w].swept)
  <2>1. writer'[w] = row(w)
    BY <1>2
  <2>2. CASE row(w) = writer[w]
    BY <2>1, <2>2
  <2>3. CASE row(w) # writer[w]
    <3>1. row(w).pc = "walk" /\ row(w).swept
      BY <1>6, <2>3
    <3>. QED  BY <2>1, <3>1
  <2>. QED  BY <2>2, <2>3
<1>16. s \in Doners => /\ r.pc \in {"off", "read", "rename", "done"} /\ (r.pc = "off" => r = T!Off)
                      /\ (r.pc \in {"read", "rename"} => r.id \in 1..MaxId)
  BY <1>3
<1>17. ~stale' =>
         /\ ~stale
         /\ \A t, i : \A n \in T!NoteNames : Held(n, t, i) =>
              Held(n, t, i)' \/ (/\ n = "todo" /\ Held("archive", t, i)'
                                 /\ \A w \in Writers : writer'[w].pc = "walk" => writer'[w].swept)
         /\ \A i : \A n \in T!NoteNames : Left(n, i)' => Left(n, i) \/ i = 0
         /\ \A e \in written' : e \in written \/ Held(e[1], e[2], e[3])'
         /\ \A i \in finished' \ crossed : i \in finished \/ \A n \in T!NoteNames : ~Left(n, i)'
         /\ r.pc = "todo" => \A l \in T!DoneLines(r.base) : Held("archive", l.task, l.id)'
         /\ s \in Doners /\ r.pc \in {"read", "rename"} /\ r.id \notin crossed =>
              \A k \in 1..(r.pos - 1) : \A l \in note'[Walk[k]] : 
                l.id = r.id /\ l.box = "open" => <<Walk[k], r.id>> \in unread'
  BY <1>3, <1>12, <1>14
<1>18. r.pc \in {"archive", "todo"} => s \in Sweepers
  BY <1>3
<1>19. UNCHANGED <<copies, crossed>>
  BY <1>11
<1>20. /\ note' \in [T!NoteNames -> SUBSET T!Line] /\ writer' \in [Writers -> WriterRow]
       /\ written' \subseteq (T!NoteNames \X T!Tasks \X (0..MaxId)) /\ finished' \subseteq 1..MaxId
       /\ stale' \in BOOLEAN /\ r \in TaskRow /\ unread' \subseteq T!NoteNames \X (1..MaxId)
  BY <1>4, <1>7, <1>8, <1>10, <1>11
<1>. QED  BY <1>13, <1>15, <1>16, <1>17, <1>18, <1>19, <1>20, CommandMoves

\* The callout, or the line of a reminder.
LEMMA TodoRewritten ==
    ASSUME TasksInv, NEW c \in T!Rewriters, T!Summarize(c) \/ T!AddReminder(c)
    PROVE  TasksInv'
<1>. DEFINE base == command[c].base
            new == [task |-> c, id |-> 0, box |-> "open"]
            more == IF T!Summarize(c) THEN {} ELSE {new}
<1>1. TasksTyped /\ command \in [T!Rewriters -> TaskRow] /\ command[c] \in TaskRow
      /\ note \in [T!NoteNames -> SUBSET T!Line] /\ stale \in BOOLEAN /\ writer \in [Writers -> WriterRow]
  BY TaskTypes DEF TasksInv
<1>2. /\ note' = [note EXCEPT !["todo"] = base \cup more]
      /\ stale' = (stale \/ note["todo"] # base)
      /\ command' = [command EXCEPT ![c] = T!Ended]
      /\ written' = written \/ (written' = written \cup {<<"todo", c, 0>>} /\ more = {new})
      /\ UNCHANGED <<writer, copies, finished, crossed, unread>>
  <2>1. CASE T!Summarize(c)
    <3>1. /\ note' = [note EXCEPT !["todo"] = base] /\ stale' = (stale \/ note["todo"] # base)
          /\ command' = [command EXCEPT ![c] = T!Ended] /\ UNCHANGED <<writer, copies, written, finished, crossed, unread>>
      BY <2>1 DEF T!Summarize, T!Replace, T!Todo
    <3>2. base \cup more = base
      BY <2>1
    <3>. QED  BY <3>1, <3>2
  <2>2. CASE ~T!Summarize(c)
    <3>1. /\ note' = [note EXCEPT !["todo"] = base \cup {new}] /\ stale' = (stale \/ note["todo"] # base)
          /\ command' = [command EXCEPT ![c] = T!Ended] /\ written' = written \cup {<<"todo", c, 0>>}
          /\ UNCHANGED <<writer, copies, finished, crossed, unread>>
      BY <2>2 DEF T!AddReminder, T!Replace, T!Todo
    <3>2. more = {new}
      BY <2>2
    <3>. QED  BY <3>1, <3>2
  <2>. QED  BY <2>1, <2>2
<1>3. c \notin Doners /\ (~T!Summarize(c) => c \in Additions)
  BY TaskAssumption DEF T!Summarize, T!AddReminder
<1>4. base \in SUBSET T!Line /\ more \in SUBSET T!Line /\ \A l \in more : l.id = 0
  <2>1. ~T!Summarize(c) => new \in T!Line
    BY <1>3, TheWalk DEF T!Line, T!Tasks
  <2>2. base \in SUBSET T!Line
    BY <1>1 DEF TaskRow
  <2>3. new.id = 0
    OBVIOUS
  <2>. HIDE DEF new
  <2>. QED  BY <2>1, <2>2, <2>3
<1>5. written' \subseteq (T!NoteNames \X T!Tasks \X (0..MaxId))
      /\ \A e \in written' : e \in written \/ (e = <<"todo", c, 0>> /\ more = {new})
  <2>1. written \subseteq (T!NoteNames \X T!Tasks \X (0..MaxId)) /\ 0 \in 0..MaxId /\ "todo" \in T!NoteNames
    BY <1>1, TaskTypes, TheWalk
  <2>2. written' # written => c \in T!Tasks
    <3>1. written' # written => ~T!Summarize(c)
      BY DEF T!Summarize
    <3>. QED  BY <1>3, <3>1 DEF T!Tasks
  <2>3. CASE written' = written
    BY <2>1, <2>3
  <2>4. CASE written' # written
    <3>1. written' = written \cup {<<"todo", c, 0>>} /\ more = {new} /\ c \in T!Tasks
      BY <1>2, <2>2, <2>4
    <3>. HIDE DEF more, new
    <3>. QED  BY <2>1, <3>1
  <2>. QED  BY <2>3, <2>4
<1>6. new.task = c /\ new.id = 0
  OBVIOUS
<1>. HIDE DEF more, new, base
<1>7. note' \in [T!NoteNames -> SUBSET T!Line]
      /\ \A m \in T!NoteNames : note'[m] = IF m = "todo" THEN base \cup more ELSE note[m]
  <2>1. base \cup more \in SUBSET T!Line
    BY <1>4
  <2>. QED  BY <1>1, <1>2, <2>1, TheWalk
<1>8. ASSUME ~stale'
      PROVE  /\ ~stale
             /\ \A t, i : \A n \in T!NoteNames : Held(n, t, i) => Held(n, t, i)'
             /\ \A i : \A n \in T!NoteNames : Left(n, i)' => Left(n, i) \/ i = 0
             /\ \A e \in written' : e \in written \/ Held(e[1], e[2], e[3])'
  <2>1. ~stale /\ note["todo"] = base
    BY <1>2, <1>8
  <2>2. \A t, i : \A n \in T!NoteNames : Held(n, t, i) => Held(n, t, i)'
    BY <1>7, <2>1 DEF Held
  <2>3. \A i : \A n \in T!NoteNames : Left(n, i)' => Left(n, i) \/ i = 0
    BY <1>2, <1>4, <1>7, <2>1 DEF Left, OpenIn
  <2>4. ASSUME NEW e \in written', e \notin written PROVE Held(e[1], e[2], e[3])'
    <3>1. e[1] = "todo" /\ e[2] = c /\ e[3] = 0 /\ more = {new}
      BY <1>5, <2>4
    <3>2. new \in note'["todo"]
      BY <1>7, <3>1, TheWalk
    <3>. QED  BY <1>6, <3>1, <3>2 DEF Held
  <2>. QED  BY <2>1, <2>2, <2>3, <2>4
<1>9. stale' \in BOOLEAN /\ unread' \subseteq T!NoteNames \X (1..MaxId)
  BY <1>1, <1>2, TaskTypes
<1>10. /\ writer' \in [Writers -> WriterRow] /\ finished' \subseteq 1..MaxId /\ UNCHANGED <<copies, crossed, finished, unread>>
       /\ \A w \in Writers : writer'[w] = writer[w]
  BY <1>1, <1>2, TaskTypes
<1>11. T!Ended \in TaskRow /\ T!Ended.pc \notin {"archive", "todo"} /\ T!Ended.pc # "todo"
  BY OffIs
<1>. QED  BY <1>2, <1>3, <1>5, <1>7, <1>8, <1>9, <1>10, <1>11, CommandMoves

LEMMA TasksKeep == ASSUME TasksInv, [T!Next]_(T!vars) PROVE TasksInv'
<1>1. CASE T!Next
  <2>1. ASSUME NEW d \in Doners, NEW i \in 1..MaxId, T!StartDone(d, i) PROVE TasksInv'
    <3>1. d \in T!Rewriters
      BY DEF T!Rewriters
    <3>. QED  BY <2>1, <3>1, CommandsLook
  <2>2. ASSUME NEW c \in T!Rewriters, T!Rewrite(c) PROVE TasksInv'
    BY <2>2, DoneReads, DoneStamps, CommandsLook, ArchiveSwept, TodoSwept, TodoRewritten DEF T!Rewrite
  <2>. QED  BY <1>1, <2>1, <2>2, WriterAsks, LinesPut, LineTicked DEF T!Next
<1>2. CASE UNCHANGED T!vars
  <2>1. UNCHANGED <<note, writer, command, copies, written, finished, stale, crossed, unread>>
    BY <1>2 DEF T!vars, T!history
  <2>2. TasksTyped'
    BY <2>1 DEF TasksInv, TasksTyped, T!TypeOK, T!NoteNames, T!Rewriters, T!Line, T!Tasks, T!Range, T!Off, T!NotStarted
  <2>3. ~stale' => Written' /\ Archived' /\ Closed' /\ Ahead'
    BY <2>1 DEF TasksInv, Written, Archived, Closed, Ahead, Held, Left, OpenIn, Ticking, T!DoneLines, T!NoteNames, T!Range
  <2>. QED  BY <2>2, <2>3 DEF TasksInv
<1>. QED  BY <1>1, <1>2

LEMMA TasksImply == TasksInv => T!TypeOK /\ T!NothingIsDeleted /\ T!DoneTicksEveryCopy
<1>. SUFFICES ASSUME TasksInv PROVE T!TypeOK /\ T!NothingIsDeleted /\ T!DoneTicksEveryCopy
  OBVIOUS
<1>1. T!TypeOK
  BY DEF TasksInv, TasksTyped
<1>2. T!NothingIsDeleted
  <2>. SUFFICES ASSUME ~stale, NEW e \in written
       PROVE  \E n \in {e[1]} \cup (IF e[1] = "todo" THEN {"archive"} ELSE {}) :
                 \E l \in note[n] : l.task = e[2] /\ l.id = e[3]
    BY DEF T!NothingIsDeleted, T!Todo, T!Archive
  <2>1. Held(e[1], e[2], e[3]) \/ (e[1] = "todo" /\ Held("archive", e[2], e[3]))
    BY DEF TasksInv, Written
  <2>. QED  BY <2>1 DEF Held
<1>3. T!DoneTicksEveryCopy
  BY DEF TasksInv, Closed, Left, OpenIn, T!DoneTicksEveryCopy, T!Carrying
<1>. QED  BY <1>1, <1>2, <1>3

LEMMA TasksMove == ASSUME [FilesNext]_filesVars PROVE [T!Next]_(T!vars)
BY DEF FilesNext, filesVars, taskVars, T!history, T!vars

LEMMA TasksHold == FilesSpec => []TasksInv
<1>1. FilesInit => TasksInv
  BY TasksStart DEF FilesInit
<1>2. TasksInv /\ [FilesNext]_filesVars => TasksInv'
  BY TasksMove, TasksKeep
<1>. QED  BY <1>1, <1>2, PTL DEF FilesSpec

LEMMA FreshHolds == FilesSpec => T!IdIsFresh
<1>1. ASSUME TasksInv, [FilesNext]_filesVars
      PROVE  [\A w \in Writers :
                T!NextID(w) => writer'[w].id \notin writer[w].before \/ writer[w].swept \/ stale]_(T!vars)
  BY <1>1, NextIsFresh
<1>. QED  BY <1>1, TasksHold, PTL DEF FilesSpec, T!IdIsFresh

\* "tick one and the others quietly lie": a `done` leaves no copy open, for any notes,
\* walks and commands that rewrite the notes beside it.
THEOREM DoneTicksEveryCopyHolds == FilesSpec => []DoneTicksEveryCopy
<1>1. TasksInv => DoneTicksEveryCopy
  BY TasksImply DEF DoneTicksEveryCopy
<1>. QED  BY <1>1, TasksHold, PTL

-----------------------------------------------------------------------------
\* A worker that was given a line knows its task; one that is about to write the note has
\* a note in which that line is a task.
HandoffHeld ==
    \A w \in Workers :
       /\ worker[w].pc # "idle" => worker[w].jot \in Jots
       /\ worker[w].pc = "mark" =>
             /\ worker[w].line \in DOMAIN worker[w].base
             /\ worker[w].base[worker[w].line] \in [jot : Jots, done : BOOLEAN]

\* Until a line is removed or lost, lines are only added, and each is about the same task
\* for ever: in the note as in every copy that somebody is about to write.
MarksInv ==
    ~shifted =>
       /\ \A i \in DOMAIN lines : lines[i].done => lines[i].jot \in handled
       /\ \A w \in Workers : worker[w].pc # "idle" =>
             worker[w].line \in DOMAIN lines /\ lines[worker[w].line].jot = worker[w].jot
       /\ \A w \in Workers : worker[w].pc = "mark" =>
             /\ worker[w].jot \in handled /\ Len(worker[w].base) <= Len(lines)
             /\ \A i \in DOMAIN worker[w].base :
                   /\ worker[w].base[i].jot = lines[i].jot
                   /\ worker[w].base[i].done => worker[w].base[i].jot \in handled

HandoffInv == H!TypeOK /\ HandoffHeld /\ MarksInv

SenderRow == [pc : {"off", "open", "header", "line", "sent"}, header : BOOLEAN, attached : BOOLEAN]
WorkerRow == [pc : {"idle", "work", "mark"}, line : Nat, jot : Jots \cup {"header"}, base : Seq(H!Entry)]

LEMMA HandoffTypes ==
    H!TypeOK <=> /\ lines \in Seq(H!Entry) /\ sender \in [Jots -> SenderRow]
                 /\ worker \in [Workers -> WorkerRow] /\ edits \in 0..LineEdits
                 /\ handled \subseteq Jots /\ shifted \in BOOLEAN
BY DEF H!TypeOK, SenderRow, WorkerRow

LEMMA RestIsTyped == H!AtRest \in WorkerRow /\ H!AtRest.pc = "idle"
<1>1. <<>> \in Seq(H!Entry)
  OBVIOUS
<1>. QED  BY <1>1 DEF H!AtRest, WorkerRow

LEMMA EntriesAre ==
    ASSUME NEW e \in H!Entry
    PROVE  /\ e # H!Header => e \in [jot : Jots, done : BOOLEAN]
           /\ e.done => e # H!Header
BY DEF H!Entry, H!Header

LEMMA HandoffStarts == ASSUME H!Init PROVE HandoffInv
<1>1. lines \in Seq(H!Entry) /\ DOMAIN lines = {}
  BY DEF H!Init
<1>2. sender \in [Jots -> SenderRow]
  <2>1. H!NotSent \in SenderRow
    BY DEF H!NotSent, SenderRow
  <2>2. sender = [j \in Jots |-> H!NotSent]
    BY DEF H!Init
  <2>. QED  BY <2>1, <2>2
<1>3. worker \in [Workers -> WorkerRow] /\ \A w \in Workers : worker[w].pc = "idle"
  BY RestIsTyped DEF H!Init
<1>4. edits \in 0..LineEdits /\ handled \subseteq Jots /\ shifted \in BOOLEAN
  <2>1. LineEdits \in Nat
    BY HandoffAssumption
  <2>2. edits = 0 /\ handled = {} /\ shifted = FALSE
    BY DEF H!Init
  <2>3. edits \in 0..LineEdits
    BY <2>1, <2>2
  <2>. QED  BY <2>2, <2>3
<1>. QED  BY <1>1, <1>2, <1>3, <1>4, HandoffTypes DEF HandoffInv, HandoffHeld, MarksInv

\* A line more changes nothing about those that were there.
LEMMA NoteGrows ==
    ASSUME HandoffInv, NEW e \in H!Entry, lines' = Append(lines, e) \/ lines' = lines,
           e.done = FALSE,
           UNCHANGED <<worker, edits, handled, shifted>>
    PROVE  lines' \in Seq(H!Entry) /\ HandoffHeld' /\ MarksInv'
<1>1. lines \in Seq(H!Entry)
  BY HandoffTypes DEF HandoffInv
<1>2. /\ lines' \in Seq(H!Entry) /\ Len(lines') \in Nat /\ Len(lines) \in Nat
      /\ Len(lines) <= Len(lines') /\ DOMAIN lines = 1..Len(lines)
      /\ DOMAIN lines' = 1..Len(lines')
      /\ \A i \in DOMAIN lines : i \in DOMAIN lines' /\ lines'[i] = lines[i]
      /\ \A i \in DOMAIN lines' : i \in DOMAIN lines \/ lines'[i] = e
  BY <1>1
<1>3. HandoffHeld'
  BY DEF HandoffInv, HandoffHeld
<1>4. MarksInv'
  <2>. SUFFICES ASSUME ~shifted PROVE MarksInv'
    BY DEF MarksInv
  <2>1. \A i \in DOMAIN lines' : lines'[i].done => lines'[i].jot \in handled
    BY <1>2 DEF HandoffInv, MarksInv
  <2>2. \A w \in Workers : worker[w].pc # "idle" =>
             worker[w].line \in DOMAIN lines' /\ lines'[worker[w].line].jot = worker[w].jot
    BY <1>2 DEF HandoffInv, MarksInv
  <2>3. ASSUME NEW w \in Workers, worker[w].pc = "mark"
        PROVE  /\ worker[w].jot \in handled /\ Len(worker[w].base) <= Len(lines')
               /\ \A i \in DOMAIN worker[w].base :
                    /\ worker[w].base[i].jot = lines'[i].jot
                    /\ worker[w].base[i].done => worker[w].base[i].jot \in handled
    <3>1. worker[w].base \in Seq(H!Entry)
      BY HandoffTypes DEF HandoffInv, WorkerRow
    <3>2. Len(worker[w].base) \in Nat /\ DOMAIN worker[w].base = 1..Len(worker[w].base)
      BY <3>1
    <3>3. Len(worker[w].base) <= Len(lines)
      BY <2>3 DEF HandoffInv, MarksInv
    <3>4. Len(lines) \in Nat /\ Len(lines') \in Nat /\ Len(lines) <= Len(lines')
          /\ DOMAIN lines = 1..Len(lines)
      BY <1>2
    <3>5. \A i \in DOMAIN worker[w].base : i \in DOMAIN lines
      BY <3>2, <3>3, <3>4
    <3>6. Len(worker[w].base) <= Len(lines')
      BY <3>2, <3>3, <3>4
    <3>7. \A i \in DOMAIN lines : lines'[i] = lines[i]
      BY <1>2
    <3>8. worker[w].jot \in handled
          /\ \A i \in DOMAIN worker[w].base :
               /\ worker[w].base[i].jot = lines[i].jot
               /\ worker[w].base[i].done => worker[w].base[i].jot \in handled
      BY <2>3 DEF HandoffInv, MarksInv
    <3>. QED  BY <3>5, <3>6, <3>7, <3>8
  <2>. QED  BY <2>1, <2>2, <2>3 DEF MarksInv
<1>. QED  BY <1>2, <1>3, <1>4

LEMMA SendKeepsHandoff ==
    ASSUME HandoffInv, NEW j \in Jots, H!Send(j)
    PROVE  HandoffInv'
<1>1. /\ lines \in Seq(H!Entry) /\ sender \in [Jots -> SenderRow] /\ sender[j] \in SenderRow
      /\ worker \in [Workers -> WorkerRow] /\ edits \in 0..LineEdits
      /\ handled \subseteq Jots /\ shifted \in BOOLEAN
  BY HandoffTypes DEF HandoffInv
<1>2. UNCHANGED <<worker, edits, handled, shifted>>
  BY DEF H!Send, H!StatNote, H!OpenNote, H!WriteHeader, H!WriteLine
<1>3. PICK e \in H!Entry : e.done = FALSE /\ (lines' = Append(lines, e) \/ lines' = lines)
  <2>1. H!Header \in H!Entry /\ H!Header.done = FALSE
    BY DEF H!Entry, H!Header
  <2>2. [jot |-> j, done |-> FALSE] \in H!Entry /\ [jot |-> j, done |-> FALSE].done = FALSE
    BY DEF H!Entry
  <2>. QED  BY <2>1, <2>2 DEF H!Send, H!StatNote, H!OpenNote, H!WriteHeader, H!WriteLine, H!Append1
<1>4. lines' \in Seq(H!Entry) /\ HandoffHeld' /\ MarksInv'
  BY <1>2, <1>3, NoteGrows
<1>5. sender' \in [Jots -> SenderRow]
  <2>1. CASE H!StatNote(j)
    <3>1. sender[j] \in SenderRow /\ (lines = <<>>) \in BOOLEAN
      BY <1>1
    <3>. QED  BY <1>1, <2>1, <3>1 DEF H!StatNote, SenderRow
  <2>2. CASE H!OpenNote(j)
    BY <1>1, <2>2 DEF H!OpenNote, SenderRow
  <2>3. CASE H!WriteHeader(j)
    BY <1>1, <2>3 DEF H!WriteHeader, SenderRow
  <2>4. CASE H!WriteLine(j)
    BY <1>1, <2>4 DEF H!WriteLine, SenderRow, H!NotSent
  <2>. QED  BY <2>1, <2>2, <2>3, <2>4 DEF H!Send
<1>6. H!TypeOK'
  BY <1>1, <1>2, <1>4, <1>5, HandoffTypes DEF H!TypeOK, SenderRow, WorkerRow
<1>. QED  BY <1>4, <1>6 DEF HandoffInv

\* A step of one worker that leaves the note alone.
LEMMA WorkersOwn ==
    ASSUME HandoffInv, NEW w \in Workers, NEW row \in WorkerRow,
           worker' = [worker EXCEPT ![w] = row],
           handled' \subseteq Jots, handled \subseteq handled',
           UNCHANGED <<lines, sender, edits, shifted>>,
           row.pc # "idle" => row.jot \in Jots,
           row.pc = "mark" => /\ row.line \in DOMAIN row.base
                              /\ row.base[row.line] \in [jot : Jots, done : BOOLEAN],
           ~shifted =>
              /\ row.pc # "idle" => row.line \in DOMAIN lines /\ lines[row.line].jot = row.jot
              /\ row.pc = "mark" => row.jot \in handled' /\ row.base = lines
    PROVE  HandoffInv'
<1>1. worker \in [Workers -> WorkerRow] /\ lines \in Seq(H!Entry)
  BY HandoffTypes DEF HandoffInv
<1>2. \A v \in Workers : worker'[v] = IF v = w THEN row ELSE worker[v]
  BY <1>1
<1>3. worker' \in [Workers -> WorkerRow]
  BY <1>1
<1>4. H!TypeOK'
  BY <1>3, HandoffTypes DEF HandoffInv, H!TypeOK, SenderRow, WorkerRow
<1>5. HandoffHeld'
  BY <1>2 DEF HandoffInv, HandoffHeld
<1>6. MarksInv'
  <2>. SUFFICES ASSUME ~shifted PROVE MarksInv'
    BY DEF MarksInv
  <2>0. UNCHANGED lines /\ Len(lines) \in Nat
    BY <1>1
  <2>1. \A i \in DOMAIN lines : lines[i].done => lines[i].jot \in handled'
    BY DEF HandoffInv, MarksInv
  <2>2. ASSUME NEW v \in Workers, worker'[v].pc # "idle"
        PROVE  worker'[v].line \in DOMAIN lines /\ lines[worker'[v].line].jot = worker'[v].jot
    BY <1>2, <2>2 DEF HandoffInv, MarksInv
  <2>3. ASSUME NEW v \in Workers, worker'[v].pc = "mark"
        PROVE  /\ worker'[v].jot \in handled' /\ Len(worker'[v].base) <= Len(lines)
               /\ \A i \in DOMAIN worker'[v].base :
                    /\ worker'[v].base[i].jot = lines[i].jot
                    /\ worker'[v].base[i].done => worker'[v].base[i].jot \in handled'
    <3>1. CASE v = w
      BY <1>2, <2>0, <2>1, <2>3, <3>1
    <3>2. CASE v # w
      BY <1>2, <2>3, <3>2 DEF HandoffInv, MarksInv
    <3>. QED  BY <3>1, <3>2
  <2>. QED  BY <2>0, <2>1, <2>2, <2>3 DEF MarksInv
<1>. QED  BY <1>4, <1>5, <1>6 DEF HandoffInv

LEMMA ReadKeepsHandoff ==
    ASSUME HandoffInv, NEW w \in Workers,
           (\E i \in DOMAIN lines : H!Inbox(w, i)) \/ H!ReadForMark(w) \/ H!GivesUp(w)
    PROVE  HandoffInv'
<1>1. worker \in [Workers -> WorkerRow] /\ worker[w] \in WorkerRow /\ lines \in Seq(H!Entry)
      /\ handled \subseteq Jots
  BY HandoffTypes DEF HandoffInv
<1>2. \A i \in DOMAIN lines : lines[i] \in H!Entry /\ i \in Nat
  BY <1>1
<1>3. \A i \in DOMAIN lines : H!IsOpen(i) => lines[i] \in [jot : Jots, done : BOOLEAN]
  BY <1>2, EntriesAre DEF H!IsOpen
<1>4. ASSUME NEW i \in DOMAIN lines, H!Inbox(w, i) PROVE HandoffInv'
  <2>1. lines[i].jot \in Jots /\ i \in Nat
    BY <1>2, <1>3, <1>4 DEF H!Inbox
  <2>. DEFINE row == [worker[w] EXCEPT !.pc = "work", !.line = i, !.jot = lines[i].jot]
  <2>2. row \in WorkerRow /\ row.pc = "work" /\ row.line = i /\ row.jot = lines[i].jot
    BY <1>1, <2>1 DEF WorkerRow
  <2>3. worker' = [worker EXCEPT ![w] = row]
    BY <1>1, <1>4 DEF H!Inbox, WorkerRow
  <2>4. UNCHANGED <<lines, sender, edits, handled, shifted>>
    BY <1>4 DEF H!Inbox
  <2>. HIDE DEF row
  <2>. QED  BY <1>1, <2>1, <2>2, <2>3, <2>4, WorkersOwn
<1>5. CASE H!GivesUp(w)
  <2>1. worker' = [worker EXCEPT ![w] = H!AtRest] /\ UNCHANGED <<lines, sender, edits, handled, shifted>>
    BY <1>5 DEF H!GivesUp
  <2>. QED  BY <1>1, <2>1, RestIsTyped, WorkersOwn
<1>6. CASE H!ReadForMark(w)
  <2>1. /\ worker[w].pc = "work" /\ handled' = handled \cup {worker[w].jot}
        /\ UNCHANGED <<lines, sender, edits, shifted>>
        /\ worker' = [worker EXCEPT ![w] =
             IF H!IsOpen(worker[w].line) THEN [worker[w] EXCEPT !.pc = "mark", !.base = lines]
             ELSE H!AtRest]
    BY <1>6 DEF H!ReadForMark
  <2>2. worker[w].jot \in Jots
    BY <2>1 DEF HandoffInv, HandoffHeld
  <2>3. handled' \subseteq Jots /\ handled \subseteq handled' /\ worker[w].jot \in handled'
    BY <1>1, <2>1, <2>2
  <2>4. CASE ~H!IsOpen(worker[w].line)
    <3>1. worker' = [worker EXCEPT ![w] = H!AtRest]
      BY <2>1, <2>4
    <3>. QED  BY <1>1, <2>1, <2>3, <3>1, RestIsTyped, WorkersOwn
  <2>5. CASE H!IsOpen(worker[w].line)
    <3>. DEFINE row == [worker[w] EXCEPT !.pc = "mark", !.base = lines]
    <3>1. row \in WorkerRow /\ row.pc = "mark" /\ row.line = worker[w].line /\ row.base = lines
          /\ row.jot = worker[w].jot
      BY <1>1 DEF WorkerRow
    <3>2. worker' = [worker EXCEPT ![w] = row]
      BY <2>1, <2>5
    <3>. HIDE DEF row
    <3>3. row.line \in DOMAIN row.base /\ row.base[row.line] \in [jot : Jots, done : BOOLEAN]
      BY <1>3, <2>5, <3>1 DEF H!IsOpen
    <3>4. ~shifted => row.line \in DOMAIN lines /\ lines[row.line].jot = row.jot
      BY <2>1, <3>1 DEF HandoffInv, MarksInv
    <3>. QED  BY <2>1, <2>2, <2>3, <3>1, <3>2, <3>3, <3>4, WorkersOwn
  <2>. QED  BY <2>4, <2>5
<1>. QED  BY <1>4, <1>5, <1>6

\* The note is replaced by the copy with one line ticked.  If the note has as many lines
\* as the copy, they are about the same tasks; if not, lines are lost.
LEMMA MarkKeepsHandoff ==
    ASSUME HandoffInv, NEW w \in Workers, H!MarkDone(w)
    PROVE  HandoffInv'
<1>. DEFINE base == worker[w].base
            n == worker[w].line
<1>1. /\ worker \in [Workers -> WorkerRow] /\ worker[w] \in WorkerRow /\ lines \in Seq(H!Entry)
      /\ handled \subseteq Jots /\ sender \in [Jots -> SenderRow] /\ edits \in 0..LineEdits
      /\ shifted \in BOOLEAN
  BY HandoffTypes DEF HandoffInv
<1>2. base \in Seq(H!Entry)
  BY <1>1 DEF WorkerRow
<1>3. /\ worker[w].pc = "mark" /\ lines' = [base EXCEPT ![n].done = TRUE]
      /\ sender' = [j \in Jots |-> [sender[j] EXCEPT !.attached = FALSE]]
      /\ worker' = [worker EXCEPT ![w] = H!AtRest]
      /\ shifted' = (shifted \/ Len(lines) # Len(base))
      /\ UNCHANGED <<edits, handled>>
  BY DEF H!MarkDone, H!Flipped
<1>4. n \in DOMAIN base /\ base[n] \in [jot : Jots, done : BOOLEAN]
  BY <1>3 DEF HandoffInv, HandoffHeld
<1>. HIDE DEF base, n
<1>5. PICK e : e = [base[n] EXCEPT !.done = TRUE]
  OBVIOUS
<1>6. e \in H!Entry /\ e.jot = base[n].jot
  BY <1>4, <1>5 DEF H!Entry
<1>7. lines' = [base EXCEPT ![n] = e]
  BY <1>2, <1>3, <1>4, <1>5
<1>8. /\ lines' \in Seq(H!Entry) /\ DOMAIN lines' = DOMAIN base /\ Len(lines') = Len(base)
      /\ \A i \in DOMAIN base : lines'[i] = IF i = n THEN e ELSE base[i]
  BY <1>2, <1>4, <1>6, <1>7
<1>9. /\ worker' \in [Workers -> WorkerRow]
      /\ \A v \in Workers : worker'[v].pc # "idle" => v # w /\ worker'[v] = worker[v]
  BY <1>1, <1>3, RestIsTyped
<1>10. sender' \in [Jots -> SenderRow]
  <2>1. \A j \in Jots : [sender[j] EXCEPT !.attached = FALSE] \in SenderRow
    BY <1>1 DEF SenderRow
  <2>. QED  BY <1>3, <2>1
<1>11. shifted' \in BOOLEAN
  BY <1>1, <1>3
<1>12. H!TypeOK'
  BY <1>1, <1>3, <1>8, <1>9, <1>10, <1>11 DEF H!TypeOK, SenderRow, WorkerRow
<1>13. HandoffHeld'
  BY <1>9 DEF HandoffInv, HandoffHeld
<1>14. MarksInv'
  <2>. SUFFICES ASSUME ~shifted, Len(lines) = Len(base) PROVE MarksInv'
    BY <1>1, <1>3 DEF MarksInv
  <2>1. DOMAIN base = DOMAIN lines
    BY <1>1, <1>2
  <2>2. \A i \in DOMAIN base : base[i].jot = lines[i].jot /\ (base[i].done => base[i].jot \in handled)
    BY <1>3 DEF HandoffInv, MarksInv, base
  <2>3. base[n].jot \in handled
    <3>1. base[n].jot = lines[n].jot
      BY <1>4, <2>2
    <3>2. lines[n].jot = worker[w].jot /\ worker[w].jot \in handled
      BY <1>3 DEF HandoffInv, MarksInv, n
    <3>. QED  BY <3>1, <3>2
  <2>4. \A i \in DOMAIN lines : i \in DOMAIN lines' /\ lines'[i].jot = lines[i].jot
    BY <1>6, <1>8, <2>1, <2>2
  <2>5. \A i \in DOMAIN lines' : lines'[i].done => lines'[i].jot \in handled
    BY <1>6, <1>8, <2>2, <2>3
  <2>6. ASSUME NEW v \in Workers, worker'[v].pc # "idle"
        PROVE  worker'[v].line \in DOMAIN lines' /\ lines'[worker'[v].line].jot = worker'[v].jot
    BY <1>9, <2>4, <2>6 DEF HandoffInv, MarksInv
  <2>7. ASSUME NEW v \in Workers, worker'[v].pc = "mark"
        PROVE  /\ worker'[v].jot \in handled /\ Len(worker'[v].base) <= Len(lines')
               /\ \A i \in DOMAIN worker'[v].base :
                    /\ worker'[v].base[i].jot = lines'[i].jot
                    /\ worker'[v].base[i].done => worker'[v].base[i].jot \in handled
    <3>1. worker'[v] = worker[v] /\ worker[v].base \in Seq(H!Entry)
      BY <1>1, <1>9, <2>7 DEF WorkerRow
    <3>2. worker[v].jot \in handled /\ Len(worker[v].base) <= Len(lines)
          /\ \A i \in DOMAIN worker[v].base :
               /\ worker[v].base[i].jot = lines[i].jot
               /\ worker[v].base[i].done => worker[v].base[i].jot \in handled
      BY <2>7, <3>1 DEF HandoffInv, MarksInv
    <3>3. DOMAIN worker[v].base = 1..Len(worker[v].base) /\ DOMAIN lines = 1..Len(lines)
          /\ Len(worker[v].base) \in Nat /\ Len(lines) \in Nat
      BY <1>1, <3>1
    <3>4. \A i \in DOMAIN worker[v].base : i \in DOMAIN lines
      BY <3>2, <3>3
    <3>5. Len(lines') = Len(lines)
      BY <1>8
    <3>. QED  BY <2>4, <3>1, <3>2, <3>4, <3>5
  <2>8. UNCHANGED handled
    BY <1>3
  <2>. QED  BY <2>5, <2>6, <2>7, <2>8 DEF MarksInv
<1>. QED  BY <1>12, <1>13, <1>14 DEF HandoffInv

LEMMA EditKeepsHandoff ==
    ASSUME HandoffInv, NEW i \in DOMAIN lines, H!RemoveLine(i)
    PROVE  HandoffInv'
<1>1. /\ worker \in [Workers -> WorkerRow] /\ lines \in Seq(H!Entry)
      /\ handled \subseteq Jots /\ sender \in [Jots -> SenderRow] /\ edits \in 0..LineEdits
  BY HandoffTypes DEF HandoffInv
<1>2. /\ edits < LineEdits /\ edits' = edits + 1 /\ shifted' = TRUE
      /\ lines' = SubSeq(lines, 1, i - 1) \o SubSeq(lines, i + 1, Len(lines))
      /\ UNCHANGED <<sender, worker, handled>>
  BY DEF H!RemoveLine, H!RemoveAt
<1>3. lines' \in Seq(H!Entry)
  <2>1. i \in 1..Len(lines) /\ Len(lines) \in Nat
    BY <1>1
  <2>2. SubSeq(lines, 1, i - 1) \in Seq(H!Entry) /\ SubSeq(lines, i + 1, Len(lines)) \in Seq(H!Entry)
    BY <1>1, <2>1
  <2>. QED  BY <1>2, <2>2
<1>4. edits' \in 0..LineEdits
  <2>1. LineEdits \in Nat
    BY HandoffAssumption
  <2>. QED  BY <1>1, <1>2, <2>1
<1>5. H!TypeOK'
  BY <1>1, <1>2, <1>3, <1>4 DEF H!TypeOK, SenderRow, WorkerRow
<1>. QED  BY <1>2, <1>5 DEF HandoffInv, HandoffHeld, MarksInv

LEMMA HandoffKeeps == ASSUME HandoffInv, [H!Next]_(H!vars) PROVE HandoffInv'
<1>1. CASE UNCHANGED H!vars
  BY <1>1 DEF H!vars, HandoffInv, H!TypeOK, HandoffHeld, MarksInv
<1>. QED
  BY <1>1, SendKeepsHandoff, ReadKeepsHandoff, MarkKeepsHandoff, EditKeepsHandoff DEF H!Next, H!Work

LEMMA HandoffMove == ASSUME [FilesNext]_filesVars PROVE [H!Next]_(H!vars)
BY DEF FilesNext, filesVars, handoffVars, H!vars

LEMMA HandoffHold == FilesSpec => []HandoffInv
<1>1. FilesInit => HandoffInv
  BY HandoffStarts DEF FilesInit
<1>2. HandoffInv /\ [FilesNext]_filesVars => HandoffInv'
  BY HandoffMove, HandoffKeeps
<1>. QED  BY <1>1, <1>2, PTL DEF FilesSpec

\* handoff.go: the line that is ticked is the one whose task the worker has done, for any
\* senders and workers - until a line before it was taken out or lost.
THEOREM MarkedWasDoneHolds == FilesSpec => []MarkedWasDone
<1>1. HandoffInv => MarkedWasDone
  BY DEF HandoffInv, MarksInv, MarkedWasDone, H!MarkedWasDone
<1>. QED  BY <1>1, HandoffHold, PTL
================================================================================
