---------------------------- MODULE RoutineProofs -----------------------------
(* Of a routine's day: first of reconcile, by itself; then of the run, the       *)
(* ledger, the memory and the log, beside it, for every value of their           *)
(* constants.                                                                  *)
EXTENDS Routine, FiniteSetTheorems, SequenceTheorems, WellFoundedInduction, TLAPS

-----------------------------------------------------------------------------
\* A round that is asking about a routine asks about a must_run routine, and
\* the job in the worker's hands is a row.
LocalsInv ==
    /\ \A c \in Reconcilers :
          rec[c].pc \in {"pending", "late", "lookup", "insert"} => rec[c].r \in Routines
    /\ \A c \in Reconcilers : rec[c].day <= day
    /\ worker.pc # "idle" => worker.id \in JobIds /\ jobs[worker.id] # NoRow

USE DEF history

LEMMA InitTypeOK == Init => TypeOK /\ LocalsInv
<1> SUFFICES ASSUME Init PROVE TypeOK /\ LocalsInv
  OBVIOUS
<1>1. AtRest \in RoundLocals /\ Resting \in WorkerLocals
  BY ReconcileBounds DEF AtRest, RoundLocals, RecPCs, Days, Hours, Resting, WorkerLocals
<1>2. AtRest.pc = "idle" /\ AtRest.day = 0 /\ Resting.pc = "idle"
  BY DEF AtRest, Resting
<1>. QED
  BY <1>1, <1>2, ReconcileBounds DEF Init, TypeOK, LocalsInv, JobIds, Days, Hours, NoRow

\* An INSERT adds a well-typed row.
LEMMA InsertTypeOK ==
    ASSUME TypeOK, NEW r \in Routines, NEW late \in BOOLEAN, NEW d \in Days,
           Insert(r, late, d), day' = day
    PROVE  /\ jobs' \in [JobIds -> Row \cup {NoRow}]
           /\ nextId \in JobIds
           /\ nextId' \in 1..(MaxJobs + 1)
           /\ \A id \in JobIds : jobs'[id] # NoRow => jobs'[id].created <= day'
           /\ \A id \in JobIds : jobs[id] # NoRow => jobs'[id] # NoRow
<1> DEFINE row == [state |-> "queued", routine |-> r, late |-> late,
                   created |-> day, due |-> d, attempts |-> 0]
<1>1. row \in Row /\ row.created = day /\ row # NoRow
  BY ReconcileBounds DEF TypeOK, Row, JobStates, Days, NoRow
<1>2. jobs' = [jobs EXCEPT ![nextId] = row] /\ nextId' = nextId + 1 /\ nextId \in JobIds
  BY DEF Insert
<1>. HIDE DEF row
<1>3. MaxJobs \in Nat
  BY ReconcileBounds
<1>4. jobs \in [JobIds -> Row \cup {NoRow}] /\ day \in Nat /\ nextId \in Nat
  BY DEF TypeOK, Days, JobIds
<1>5. jobs' \in [JobIds -> Row \cup {NoRow}]
  BY <1>1, <1>2, <1>4
<1>6. \A id \in JobIds : jobs'[id] = IF id = nextId THEN row ELSE jobs[id]
  BY <1>2, <1>4
<1>7. nextId' \in 1..(MaxJobs + 1)
  BY <1>2, <1>3, <1>4 DEF JobIds
<1>8. \A id \in JobIds : jobs'[id] # NoRow => jobs'[id].created <= day'
  BY <1>1, <1>4, <1>6 DEF TypeOK
<1>. QED  BY <1>1, <1>2, <1>5, <1>6, <1>7, <1>8

-----------------------------------------------------------------------------
(* The steps of a round keep the types.                                     *)

\* What a round's locals become at its steps.
LEMMA StagesTyped ==
    ASSUME TypeOK, LocalsInv, NEW c \in Reconcilers
    PROVE  /\ AtRest \in RoundLocals /\ AtRest.day = 0 /\ AtRest.pc = "idle"
           /\ Begun \in RoundLocals /\ Begun.day = day /\ Begun.pc = "routine"
           /\ \A r, e : e \in BOOLEAN =>
                /\ DoneWith(c, r, e) \in RoundLocals
                /\ DoneWith(c, r, e).day = rec[c].day
                /\ DoneWith(c, r, e).pc = "routine"
           /\ \A pc \in RecPCs, r \in Routines, late \in BOOLEAN :
                /\ Asking(c, pc, r, late) \in RoundLocals
                /\ Asking(c, pc, r, late).day = rec[c].day
                /\ Asking(c, pc, r, late).r = r
<1>1. rec[c] \in RoundLocals /\ day \in Days /\ hour \in Hours
  BY DEF TypeOK
<1>2. 0 \in Days /\ 0 \in Hours
  BY ReconcileBounds DEF Days, Hours
<1>3. AtRest \in RoundLocals /\ AtRest.day = 0 /\ AtRest.pc = "idle"
  BY <1>2 DEF AtRest, RoundLocals, RecPCs
<1>4. Begun \in RoundLocals /\ Begun.day = day /\ Begun.pc = "routine"
  BY <1>1 DEF Begun, RoundLocals, RecPCs
<1>5. ASSUME NEW r, NEW e \in BOOLEAN
      PROVE  /\ DoneWith(c, r, e) \in RoundLocals
             /\ DoneWith(c, r, e).day = rec[c].day
             /\ DoneWith(c, r, e).pc = "routine"
  BY <1>1 DEF DoneWith, RoundLocals, RecPCs
<1>6. ASSUME NEW pc \in RecPCs, NEW r \in Routines, NEW late \in BOOLEAN
      PROVE  /\ Asking(c, pc, r, late) \in RoundLocals
             /\ Asking(c, pc, r, late).day = rec[c].day
             /\ Asking(c, pc, r, late).r = r
  BY <1>1 DEF Asking, RoundLocals
<1>. QED  BY <1>3, <1>4, <1>5, <1>6

\* Giving a round other locals keeps the types, when they are locals of a
\* round of today or earlier.
LEMMA LocalsTyped ==
    ASSUME TypeOK, LocalsInv, NEW c \in Reconcilers, NEW l \in RoundLocals,
           rec' = [rec EXCEPT ![c] = l],
           l.day <= day, l.pc \in {"idle", "routine"} \/ l.r \in Routines
    PROVE  /\ rec' \in [Reconcilers -> RoundLocals]
           /\ \A e \in Reconcilers :
                 rec'[e].pc \in {"pending", "late", "lookup", "insert"}
                    => rec'[e].r \in Routines
           /\ \A e \in Reconcilers : rec'[e].day <= day
<1>1. rec \in [Reconcilers -> RoundLocals]
  BY DEF TypeOK
<1>2. \A e \in Reconcilers : rec'[e] = IF e = c THEN l ELSE rec[e]
  BY <1>1
<1>. QED  BY <1>1, <1>2 DEF LocalsInv

\* The locals a round may move to.
Stage(c, l) == /\ l \in RoundLocals
               /\ l.day <= day
               /\ l.pc \in {"idle", "routine"} \/ l.r \in Routines

LEMMA RoundTypeOK ==
    ASSUME TypeOK, LocalsInv, NEW c \in Reconcilers, Round(c) \/ Fails(c), ~EnqueueInsert(c)
    PROVE  TypeOK' /\ LocalsInv'
<1>0. rec[c] \in RoundLocals /\ rec[c].day <= day /\ day \in Nat
      /\ rec[c].enqueued \in BOOLEAN /\ rec[c].late \in BOOLEAN
      /\ (rec[c].pc \in {"pending", "late", "lookup", "insert"} => rec[c].r \in Routines)
  BY DEF TypeOK, LocalsInv, Days, RoundLocals
<1>a. \E l : Stage(c, l) /\ rec' = [rec EXCEPT ![c] = l]
  <2> USE <1>0, StagesTyped DEF Stage, MovesTo, RecPCs
  <2>1. CASE Begin(c)
    <3>1. Stage(c, Begun) /\ rec' = [rec EXCEPT ![c] = Begun]
      BY <2>1 DEF Begin
    <3>. QED  BY <3>1
  <2>2. ASSUME NEW r \in Routines, ReportDone(c, r) \/ NotDone(c, r)
        PROVE  \E l : Stage(c, l) /\ rec' = [rec EXCEPT ![c] = l]
    <3>1. CASE ReportDone(c, r)
      <4>1. Stage(c, DoneWith(c, r, rec[c].enqueued))
        OBVIOUS
      <4>. QED  BY <3>1, <4>1 DEF ReportDone
    <3>2. CASE NotDone(c, r)
      <4>1. /\ Asking(c, "pending", r, FALSE) \in RoundLocals
            /\ Asking(c, "pending", r, FALSE).day = rec[c].day
            /\ Asking(c, "pending", r, FALSE).r = r
        OBVIOUS
      <4>. QED  BY <3>2, <4>1 DEF NotDone
    <3>. QED  BY <2>2, <3>1, <3>2
  <2>3. CASE ReportQueued(c) \/ LeaveAlone(c)
    BY <2>3 DEF ReportQueued, LeaveAlone
  <2>4. CASE Decide(c)
    BY <2>4 DEF Decide
  <2>5. CASE AskLate(c)
    BY <2>5 DEF AskLate
  <2>6. CASE EnqueueLookup(c)
    <3>1. /\ DoneWith(c, rec[c].r, TRUE) \in RoundLocals
          /\ DoneWith(c, rec[c].r, TRUE).day = rec[c].day
          /\ DoneWith(c, rec[c].r, TRUE).pc = "routine"
      OBVIOUS
    <3>2. Stage(c, Asking(c, "insert", rec[c].r, rec[c].late))
      BY <2>6 DEF EnqueueLookup
    <3>. QED  BY <2>6, <3>1, <3>2 DEF EnqueueLookup
  <2>7. CASE Finish(c) \/ Fails(c)
    BY <2>7 DEF Finish, Fails
  <2>. QED  BY <2>1, <2>2, <2>3, <2>4, <2>5, <2>6, <2>7 DEF Round
<1>1. /\ rec' \in [Reconcilers -> RoundLocals]
      /\ \A e \in Reconcilers :
            rec'[e].pc \in {"pending", "late", "lookup", "insert"} => rec'[e].r \in Routines
      /\ \A e \in Reconcilers : rec'[e].day <= day
  <2>1. PICK l : Stage(c, l) /\ rec' = [rec EXCEPT ![c] = l]
    BY <1>a
  <2>. QED  BY <2>1, LocalsTyped DEF Stage
<1>b. CASE Fails(c)
  <2>1. used' \in [{"timers", "page", "errors", "lost", "crashes", "holds"} -> Nat]
    BY <1>b DEF TypeOK, Fails, Spend
  <2>. QED  BY <1>1, <1>b, <2>1 DEF TypeOK, LocalsInv, Fails
<1>c. CASE ~Fails(c)
  <2>1. UNCHANGED <<jobs, nextId, ok, day, hour, timer, worker, used>>
    BY <1>c DEF Round, MovesTo, Begin, ReportDone, NotDone, ReportQueued, LeaveAlone,
                Decide, AskLate, EnqueueLookup, Finish
  <2>2. /\ unpoked' \in [Reconcilers -> SUBSET JobIds]
        /\ cut' \subseteq Reconcilers /\ racing' \subseteq Reconcilers
        /\ UNCHANGED <<raced, orphans>>
    <3>1. CASE AskLate(c)
      BY <3>1 DEF TypeOK, AskLate, AboutToInsert
    <3>2. CASE ~AskLate(c)
      BY <1>c, <3>2 DEF TypeOK, Round, Begin, ReportDone, NotDone, ReportQueued, LeaveAlone,
                        Decide, EnqueueLookup, Finish
    <3>. QED  BY <3>1, <3>2
  <2>. QED  BY <1>1, <2>1, <2>2 DEF TypeOK, LocalsInv
<1>. QED  BY <1>b, <1>c

LEMMA InsertingRoundTypeOK ==
    ASSUME TypeOK, LocalsInv, NEW c \in Reconcilers, EnqueueInsert(c)
    PROVE  TypeOK' /\ LocalsInv'
<1>0. rec[c] \in RoundLocals /\ rec[c].day <= day /\ rec[c].r \in Routines
      /\ rec[c].late \in BOOLEAN /\ rec[c].day \in Days
  BY DEF TypeOK, LocalsInv, EnqueueInsert, RoundLocals
<1>1. Insert(rec[c].r, rec[c].late, rec[c].day) /\ day' = day
      /\ UNCHANGED <<ok, hour, timer, worker, used>>
  BY DEF EnqueueInsert
<1>2. /\ jobs' \in [JobIds -> Row \cup {NoRow}]
      /\ nextId \in JobIds
      /\ nextId' \in 1..(MaxJobs + 1)
      /\ \A id \in JobIds : jobs'[id] # NoRow => jobs'[id].created <= day'
      /\ \A id \in JobIds : jobs[id] # NoRow => jobs'[id] # NoRow
  BY <1>0, <1>1, InsertTypeOK
<1>4. rec' = [rec EXCEPT ![c] = DoneWith(c, rec[c].r, TRUE)]
  BY DEF EnqueueInsert
<1>5. /\ rec' \in [Reconcilers -> RoundLocals]
      /\ \A e \in Reconcilers :
            rec'[e].pc \in {"pending", "late", "lookup", "insert"} => rec'[e].r \in Routines
      /\ \A e \in Reconcilers : rec'[e].day <= day
  <2>1. /\ DoneWith(c, rec[c].r, TRUE) \in RoundLocals
        /\ DoneWith(c, rec[c].r, TRUE).day = rec[c].day
        /\ DoneWith(c, rec[c].r, TRUE).pc = "routine"
    BY StagesTyped
  <2>. QED  BY <1>0, <1>4, <2>1, LocalsTyped
<1>6. /\ unpoked' \in [Reconcilers -> SUBSET JobIds] /\ raced' \subseteq JobIds
      /\ UNCHANGED <<cut, racing, orphans>>
  BY <1>2 DEF EnqueueInsert, TypeOK
<1>. QED  BY <1>1, <1>2, <1>5, <1>6 DEF TypeOK, LocalsInv

-----------------------------------------------------------------------------
(* So do the worker, the page, the timers and the clock.                    *)

\* Writing a row anew keeps the table typed, when creation is left alone.
LEMMA RowTyped ==
    ASSUME TypeOK, NEW id \in JobIds, jobs[id] # NoRow, NEW row \in Row,
           row.created = jobs[id].created, jobs' = [jobs EXCEPT ![id] = row]
    PROVE  /\ jobs' \in [JobIds -> Row \cup {NoRow}]
           /\ \A i \in JobIds : jobs'[i] # NoRow => jobs'[i].created <= day
           /\ \A i \in JobIds : jobs[i] # NoRow => jobs'[i] # NoRow
<1>1. \A i \in JobIds : jobs'[i] = IF i = id THEN row ELSE jobs[i]
  BY DEF TypeOK
<1>2. row # NoRow
  BY DEF Row, NoRow
<1>. QED  BY <1>1, <1>2 DEF TypeOK

\* The worker's locals at its steps.
LEMMA WorkerTyped ==
    ASSUME TypeOK
    PROVE  /\ Resting \in WorkerLocals /\ Resting.pc = "idle"
           /\ \A id \in JobIds : /\ [Resting EXCEPT !.pc = "gate", !.id = id] \in WorkerLocals
                                 /\ [Resting EXCEPT !.pc = "gate", !.id = id].id = id
           /\ [worker EXCEPT !.pc = "run", !.started = day] \in WorkerLocals
           /\ [worker EXCEPT !.pc = "run", !.started = day].id = worker.id
           /\ \A e \in {"ok", "failed", "deferred"} :
                /\ [worker EXCEPT !.pc = "settle", !.end = e] \in WorkerLocals
                /\ [worker EXCEPT !.pc = "settle", !.end = e].id = worker.id
<1>1. worker \in WorkerLocals /\ day \in Days
  BY DEF TypeOK
<1>2. 0 \in Days /\ JobIds \subseteq 0..MaxJobs /\ 0 \in 0..MaxJobs
  BY ReconcileBounds DEF Days, JobIds
<1>3. Resting \in WorkerLocals /\ Resting.pc = "idle"
  BY <1>2 DEF Resting, WorkerLocals
<1>. QED  BY <1>1, <1>2, <1>3 DEF WorkerLocals

LEMMA WorkTypeOK ==
    ASSUME TypeOK, LocalsInv, Work \/ Blocked \/ Crash
    PROVE  TypeOK' /\ LocalsInv'
<1> USE DEF Spend
<1>0. MaxAttempts \in Nat /\ day \in Nat /\ LastDay \in Nat /\ day <= LastDay
  BY ReconcileBounds DEF TypeOK, Days
<1>1. ASSUME NEW id \in JobIds, Take(id)
      PROVE  TypeOK' /\ LocalsInv'
  <2>1. [jobs[id] EXCEPT !.state = "running"] \in Row
        /\ [jobs[id] EXCEPT !.state = "running"].created = jobs[id].created
    BY <1>1 DEF Take, TypeOK, Row, JobStates
  <2>2. jobs' = [jobs EXCEPT ![id] = [jobs[id] EXCEPT !.state = "running"]]
    BY <1>1 DEF Take
  <2>. QED  BY <1>1, <2>1, <2>2, RowTyped, WorkerTyped DEF Take, TypeOK, LocalsInv
<1>2. CASE Blocked
  <2>1. worker.id \in JobIds /\ jobs[worker.id] # NoRow
    BY <1>2 DEF Blocked, LocalsInv
  <2>2. day + 1 \in 0..(LastDay + 1)
    BY <1>0
  <2>3. [jobs[worker.id] EXCEPT !.state = "queued", !.due = day + 1] \in Row
        /\ [jobs[worker.id] EXCEPT !.state = "queued", !.due = day + 1].created
              = jobs[worker.id].created
    BY <2>1, <2>2 DEF TypeOK, Row, JobStates
  <2>4. jobs' = [jobs EXCEPT ![worker.id] =
                   [jobs[worker.id] EXCEPT !.state = "queued", !.due = day + 1]]
    BY <1>2 DEF Blocked
  <2>5. /\ jobs' \in [JobIds -> Row \cup {NoRow}]
        /\ \A i \in JobIds : jobs'[i] # NoRow => jobs'[i].created <= day
    BY <2>1, <2>3, <2>4, RowTyped
  <2>6. used' \in [{"timers", "page", "errors", "lost", "crashes", "holds"} -> Nat]
    BY <1>2 DEF Blocked, TypeOK
  <2>7. worker' = Resting /\ UNCHANGED <<nextId, ok, day, hour, rec, timer, history>>
    BY <1>2 DEF Blocked
  <2>. QED  BY <2>5, <2>6, <2>7, WorkerTyped DEF TypeOK, LocalsInv
<1>3. CASE StartRun
  BY <1>3, WorkerTyped DEF StartRun, TypeOK, LocalsInv
<1>4. ASSUME NEW end \in {"ok", "failed", "deferred"}, RecordRun(end)
      PROVE  TypeOK' /\ LocalsInv'
  <2>1. jobs[worker.id].routine \in Routines /\ worker.started \in Days
    BY <1>4 DEF RecordRun, LocalsInv, TypeOK, Row, WorkerLocals
  <2>2. ok' \subseteq Routines \X Days
    BY <1>4, <2>1 DEF RecordRun, TypeOK
  <2>3. used' \in [{"timers", "page", "errors", "lost", "crashes", "holds"} -> Nat]
    BY <1>4 DEF RecordRun, TypeOK
  <2>. QED  BY <1>4, <2>2, <2>3, WorkerTyped DEF RecordRun, TypeOK, LocalsInv
<1>5. CASE Settle
  <2> DEFINE id == worker.id
  <2>1. id \in JobIds /\ jobs[id] # NoRow /\ jobs[id] \in Row
    BY <1>5 DEF Settle, LocalsInv, TypeOK
  <2>2. \E row \in Row : row.created = jobs[id].created /\ jobs' = [jobs EXCEPT ![id] = row]
    <3>1. CASE worker.end = "ok"
      <4>1. [jobs[id] EXCEPT !.state = "done"] \in Row
            /\ [jobs[id] EXCEPT !.state = "done"].created = jobs[id].created
        BY <2>1 DEF Row, JobStates
      <4>2. jobs' = [jobs EXCEPT ![id] = [jobs[id] EXCEPT !.state = "done"]]
        BY <1>5, <3>1 DEF Settle
      <4>. QED  BY <4>1, <4>2
    <3>2. CASE worker.end = "deferred"
      <4>1. PICK d \in {day, day + 1} :
              jobs' = [jobs EXCEPT ![id].state = "queued", ![id].due = d]
        BY <1>5, <3>2 DEF Settle
      <4>2. d \in 0..(LastDay + 1)
        BY <1>0
      <4>3. [jobs[id] EXCEPT !.state = "queued", !.due = d] \in Row
            /\ [jobs[id] EXCEPT !.state = "queued", !.due = d].created = jobs[id].created
        BY <2>1, <4>2 DEF Row, JobStates
      <4>4. jobs' = [jobs EXCEPT ![id] = [jobs[id] EXCEPT !.state = "queued", !.due = d]]
        BY <4>1
      <4>. QED  BY <4>3, <4>4
    <3>3. CASE worker.end \notin {"ok", "deferred"}
      <4> DEFINE tried == jobs[id].attempts + 1
                 n == IF tried < MaxAttempts THEN tried ELSE MaxAttempts
      <4>1. PICK max \in {1, MaxAttempts} :
              jobs' = [jobs EXCEPT ![id].state = IF tried < max THEN "queued" ELSE "failed",
                                   ![id].attempts = n]
        BY <1>5, <3>3 DEF Settle
      <4> DEFINE st == IF tried < max THEN "queued" ELSE "failed"
      <4>2. n \in 0..MaxAttempts /\ st \in JobStates
        BY <1>0, <2>1 DEF Row, JobStates
      <4>3. jobs' = [jobs EXCEPT ![id] = [jobs[id] EXCEPT !.state = st, !.attempts = n]]
        BY <4>1
      <4>. HIDE DEF n, st
      <4>4. [jobs[id] EXCEPT !.state = st, !.attempts = n] \in Row
            /\ [jobs[id] EXCEPT !.state = st, !.attempts = n].created = jobs[id].created
        BY <2>1, <4>2 DEF Row
      <4>. QED  BY <4>3, <4>4
    <3>. QED  BY <3>1, <3>2, <3>3
  <2>3. /\ jobs' \in [JobIds -> Row \cup {NoRow}]
        /\ \A i \in JobIds : jobs'[i] # NoRow => jobs'[i].created <= day
    BY <2>1, <2>2, RowTyped
  <2>4. used' \in [{"timers", "page", "errors", "lost", "crashes", "holds"} -> Nat]
    BY <1>5 DEF Settle, TypeOK
  <2>. QED  BY <1>5, <2>3, <2>4, WorkerTyped DEF Settle, TypeOK, LocalsInv
<1>6. CASE Crash
  <2>1. used' \in [{"timers", "page", "errors", "lost", "crashes", "holds"} -> Nat]
    BY <1>6 DEF Crash, TypeOK
  <2>. QED  BY <1>6, <2>1, WorkerTyped DEF Crash, TypeOK, LocalsInv
<1>. QED  BY <1>1, <1>2, <1>3, <1>4, <1>5, <1>6 DEF Work

LEMMA OtherTypeOK ==
    ASSUME TypeOK, LocalsInv,
           \/ \E r \in Routines : TimerLookup(r) \/ TimerInsert(r)
           \/ \E id \in JobIds : Drop(id) \/ Retry(id)
           \/ Tick
    PROVE  TypeOK' /\ LocalsInv'
<1> USE DEF Spend
<1>0. day \in Nat /\ LastDay \in Nat /\ LastHour \in Nat /\ day <= LastDay /\ hour \in 0..LastHour
  BY ReconcileBounds DEF TypeOK, Days, Hours
<1>1. ASSUME NEW r \in Routines, TimerLookup(r)
      PROVE  TypeOK' /\ LocalsInv'
  <2>1. used' \in [{"timers", "page", "errors", "lost", "crashes", "holds"} -> Nat]
    BY <1>1 DEF TimerLookup, TypeOK
  <2>. QED  BY <1>1, <2>1 DEF TimerLookup, TypeOK, LocalsInv
<1>2. ASSUME NEW r \in Routines, TimerInsert(r)
      PROVE  TypeOK' /\ LocalsInv'
  <2>1. Insert(r, FALSE, day) /\ day' = day /\ day \in Days
    BY <1>2 DEF TimerInsert, TypeOK
  <2>2. /\ jobs' \in [JobIds -> Row \cup {NoRow}]
        /\ nextId' \in 1..(MaxJobs + 1)
        /\ \A id \in JobIds : jobs'[id] # NoRow => jobs'[id].created <= day'
        /\ \A id \in JobIds : jobs[id] # NoRow => jobs'[id] # NoRow
    BY <2>1, InsertTypeOK
  <2>. QED  BY <1>2, <2>2 DEF TimerInsert, TypeOK, LocalsInv
<1>3. ASSUME NEW id \in JobIds, Drop(id) \/ Retry(id)
      PROVE  TypeOK' /\ LocalsInv'
  <2>1. used' \in [{"timers", "page", "errors", "lost", "crashes", "holds"} -> Nat]
    BY <1>3 DEF Drop, Retry, TypeOK
  <2>2. jobs[id] # NoRow /\ jobs[id] \in Row /\ day \in 0..(LastDay + 1)
    BY <1>0, <1>3 DEF Drop, Retry, TypeOK
  <2>3. \E row \in Row : row.created = jobs[id].created /\ jobs' = [jobs EXCEPT ![id] = row]
    <3>1. [jobs[id] EXCEPT !.state = "suspended"] \in Row
          /\ [jobs[id] EXCEPT !.state = "suspended"].created = jobs[id].created
      BY <2>2 DEF Row, JobStates
    <3>2. [jobs[id] EXCEPT !.state = "queued", !.due = day] \in Row
          /\ [jobs[id] EXCEPT !.state = "queued", !.due = day].created = jobs[id].created
      BY <2>2 DEF Row, JobStates
    <3>3. CASE Drop(id)
      <4>1. jobs' = [jobs EXCEPT ![id] = [jobs[id] EXCEPT !.state = "suspended"]]
        BY <3>3 DEF Drop
      <4>. QED  BY <3>1, <4>1
    <3>4. CASE Retry(id)
      <4>1. jobs' = [jobs EXCEPT ![id] = [jobs[id] EXCEPT !.state = "queued", !.due = day]]
        BY <3>4 DEF Retry
      <4>. QED  BY <3>2, <4>1
    <3>. QED  BY <1>3, <3>3, <3>4
  <2>4. /\ jobs' \in [JobIds -> Row \cup {NoRow}]
        /\ \A i \in JobIds : jobs'[i] # NoRow => jobs'[i].created <= day
        /\ \A i \in JobIds : jobs[i] # NoRow => jobs'[i] # NoRow
    BY <2>2, <2>3, RowTyped
  <2>. QED  BY <1>3, <2>1, <2>4 DEF Drop, Retry, TypeOK, LocalsInv
<1>4. CASE Tick
  <2>1. day' \in Days /\ hour' \in Hours /\ day <= day' /\ day' \in Nat
    BY <1>0, <1>4 DEF Tick, Days, Hours
  <2>2. \A id \in JobIds : jobs[id] # NoRow => jobs[id].created <= day'
    BY <1>0, <2>1 DEF TypeOK, Row, Days
  <2>3. \A c \in Reconcilers : rec[c].day <= day'
    BY <1>0, <2>1 DEF TypeOK, LocalsInv, RoundLocals, Days
  <2>. QED  BY <1>4, <2>1, <2>2, <2>3 DEF Tick, TypeOK, LocalsInv
<1>. QED  BY <1>1, <1>2, <1>3, <1>4

\* Every reachable state is well-typed: in particular no row is created in the
\* future or put off past the next midnight.
THEOREM ReconcileTypeCorrect == Spec => [](TypeOK /\ LocalsInv)
<1>1. TypeOK /\ LocalsInv /\ UNCHANGED vars => (TypeOK /\ LocalsInv)'
  BY DEF TypeOK, LocalsInv, vars
<1>2. TypeOK /\ LocalsInv /\ Next => (TypeOK /\ LocalsInv)'
  BY RoundTypeOK, InsertingRoundTypeOK, WorkTypeOK, OtherTypeOK DEF Next
<1>. QED  BY <1>1, <1>2, InitTypeOK, PTL DEF Spec

-----------------------------------------------------------------------------
(* Once and late, but for rounds that overlap.                              *)

\* A late row that does not forbid the round c another: it is of an earlier day, or both
\* rounds had asked before either inserted.
Allowed(c, row, id, d) == row.created < d \/ (c \in racing /\ id \in raced)

\* A round about to insert a late row has seen that no late row of the routine is of its
\* day or a later one, and what came since came from a round that raced with it; two
\* rounds about to insert one for the same routine know of each other.
LateInv ==
    /\ \A c \in Reconcilers :
          rec[c].pc \in {"lookup", "insert"} /\ rec[c].late =>
              \A id \in JobIds :
                  jobs[id] # NoRow /\ jobs[id].late /\ jobs[id].routine = rec[c].r
                      => Allowed(c, jobs[id], id, rec[c].day)
    /\ \A c, e \in Reconcilers :
          /\ c # e
          /\ rec[c].pc \in {"lookup", "insert"} /\ rec[c].late
          /\ rec[e].pc \in {"lookup", "insert"} /\ rec[e].late
          /\ rec[c].r = rec[e].r
          => c \in racing /\ e \in racing

\* A late row that exists after the step existed before it.
LateRowsKept ==
    \A id \in JobIds :
        jobs'[id] # NoRow /\ jobs'[id].late =>
            /\ jobs[id] # NoRow
            /\ jobs[id].late
            /\ jobs[id].routine = jobs'[id].routine
            /\ jobs[id].created = jobs'[id].created

LEMMA OnlyRoundsInsertLate ==
    ASSUME TypeOK, LocalsInv, Next, \A c \in Reconcilers : ~EnqueueInsert(c)
    PROVE  LateRowsKept
<1> USE DEF LateRowsKept
<1>0. jobs \in [JobIds -> Row \cup {NoRow}]
  BY DEF TypeOK
<1>1. CASE jobs' = jobs
  BY <1>1
<1>2. ASSUME NEW id \in JobIds, jobs[id] # NoRow, NEW row,
             row.late = jobs[id].late, row.routine = jobs[id].routine,
             row.created = jobs[id].created, jobs' = [jobs EXCEPT ![id] = row]
      PROVE  LateRowsKept
  BY <1>0, <1>2
<1>3. ASSUME NEW r \in Routines, TimerInsert(r)
      PROVE  LateRowsKept
  <2> DEFINE row == [state |-> "queued", routine |-> r, late |-> FALSE,
                     created |-> day, due |-> day, attempts |-> 0]
  <2>1. jobs' = [jobs EXCEPT ![nextId] = row] /\ ~row.late
    BY <1>3 DEF TimerInsert, Insert
  <2>. HIDE DEF row
  <2>. QED  BY <1>0, <2>1
<1>4. CASE Work \/ Blocked \/ Crash
  <2>1. worker.pc # "idle" => worker.id \in JobIds /\ jobs[worker.id] # NoRow
                              /\ jobs[worker.id] \in Row
    BY <1>0 DEF LocalsInv
  <2>2. ASSUME NEW id \in JobIds, Take(id) PROVE LateRowsKept
    <3> DEFINE row == [jobs[id] EXCEPT !.state = "running"]
    <3>1. jobs[id] # NoRow /\ jobs' = [jobs EXCEPT ![id] = row]
      BY <2>2 DEF Take
    <3>2. /\ row.late = jobs[id].late
          /\ row.routine = jobs[id].routine
          /\ row.created = jobs[id].created
      BY <1>0, <3>1 DEF Row
    <3>. QED  BY <1>2, <3>1, <3>2
  <2>3. CASE Blocked
    <3> DEFINE row == [jobs[worker.id] EXCEPT !.state = "queued", !.due = day + 1]
    <3>1. worker.id \in JobIds /\ jobs[worker.id] # NoRow /\ jobs[worker.id] \in Row
      BY <2>1, <2>3 DEF Blocked
    <3>2. jobs' = [jobs EXCEPT ![worker.id] = row]
      BY <2>3 DEF Blocked
    <3>3. /\ row.late = jobs[worker.id].late
          /\ row.routine = jobs[worker.id].routine
          /\ row.created = jobs[worker.id].created
      BY <3>1 DEF Row
    <3>. QED  BY <1>2, <3>1, <3>2, <3>3
  <2>4. CASE Settle
    <3> DEFINE id == worker.id
    <3>0. id \in JobIds /\ jobs[id] # NoRow /\ jobs[id] \in Row
      BY <2>1, <2>4 DEF Settle
    <3>1. CASE worker.end = "ok"
      <4> DEFINE row == [jobs[id] EXCEPT !.state = "done"]
      <4>1. jobs' = [jobs EXCEPT ![id] = row]
        BY <2>4, <3>1 DEF Settle
      <4>2. /\ row.late = jobs[id].late
            /\ row.routine = jobs[id].routine
            /\ row.created = jobs[id].created
        BY <3>0 DEF Row
      <4>. QED  BY <1>2, <3>0, <4>1, <4>2
    <3>2. CASE worker.end = "deferred"
      <4>1. PICK d \in {day, day + 1} :
              jobs' = [jobs EXCEPT ![id].state = "queued", ![id].due = d]
        BY <2>4, <3>2 DEF Settle
      <4> DEFINE row == [jobs[id] EXCEPT !.state = "queued", !.due = d]
      <4>2. jobs' = [jobs EXCEPT ![id] = row]
        BY <4>1
      <4>3. /\ row.late = jobs[id].late
            /\ row.routine = jobs[id].routine
            /\ row.created = jobs[id].created
        BY <3>0 DEF Row
      <4>. QED  BY <1>2, <3>0, <4>2, <4>3
    <3>3. CASE worker.end \notin {"ok", "deferred"}
      <4>1. PICK s, n : jobs' = [jobs EXCEPT ![id].state = s, ![id].attempts = n]
        BY <2>4, <3>3 DEF Settle
      <4> DEFINE row == [jobs[id] EXCEPT !.state = s, !.attempts = n]
      <4>2. jobs' = [jobs EXCEPT ![id] = row]
        BY <4>1
      <4>3. /\ row.late = jobs[id].late
            /\ row.routine = jobs[id].routine
            /\ row.created = jobs[id].created
        BY <3>0 DEF Row
      <4>. QED  BY <1>2, <3>0, <4>2, <4>3
    <3>. QED  BY <3>1, <3>2, <3>3
  <2>5. CASE StartRun \/ Crash
    BY <1>1, <2>5 DEF StartRun, Crash
  <2>6. ASSUME NEW end \in {"ok", "failed", "deferred"}, RecordRun(end) PROVE LateRowsKept
    BY <1>1, <2>6 DEF RecordRun
  <2>. QED  BY <1>4, <2>2, <2>3, <2>4, <2>5, <2>6 DEF Work
<1>5. ASSUME NEW id \in JobIds, Drop(id) \/ Retry(id) PROVE LateRowsKept
  <2>1. jobs[id] # NoRow /\ jobs[id] \in Row
    BY <1>0, <1>5 DEF Drop, Retry
  <2>2. CASE Drop(id)
    <3> DEFINE row == [jobs[id] EXCEPT !.state = "suspended"]
    <3>1. jobs' = [jobs EXCEPT ![id] = row]
      BY <2>2 DEF Drop
    <3>2. /\ row.late = jobs[id].late
          /\ row.routine = jobs[id].routine
          /\ row.created = jobs[id].created
      BY <2>1 DEF Row
    <3>. QED  BY <1>2, <2>1, <3>1, <3>2
  <2>3. CASE Retry(id)
    <3> DEFINE row == [jobs[id] EXCEPT !.state = "queued", !.due = day]
    <3>1. jobs' = [jobs EXCEPT ![id] = row]
      BY <2>3 DEF Retry
    <3>2. /\ row.late = jobs[id].late
          /\ row.routine = jobs[id].routine
          /\ row.created = jobs[id].created
      BY <2>1 DEF Row
    <3>. QED  BY <1>2, <2>1, <3>1, <3>2
  <2>. QED  BY <1>5, <2>2, <2>3
<1>6. CASE Tick \/ \E r \in Routines : TimerLookup(r)
  BY <1>1, <1>6 DEF Tick, TimerLookup
<1>7. ASSUME NEW c \in Reconcilers, Round(c) \/ Fails(c) PROVE LateRowsKept
  BY <1>1, <1>7 DEF Round, Fails, MovesTo, Begin, ReportDone, NotDone, ReportQueued,
                    LeaveAlone, Decide, AskLate, EnqueueLookup, Finish
<1>. QED  BY <1>3, <1>4, <1>5, <1>6, <1>7 DEF Next

LEMMA LateInvInit == Init => LateInv
BY DEF Init, LateInv, AtRest

\* Steps that insert nothing late keep LateInv; the round that goes on to look
\* for a waiting job has just asked hadLateJob.
LEMMA LateInvKept ==
    ASSUME TypeOK, LocalsInv, LateInv, Next, \A c \in Reconcilers : ~EnqueueInsert(c)
    PROVE  LateInv'
<1>1. LateRowsKept
  BY OnlyRoundsInsertLate
<1>0. /\ jobs \in [JobIds -> Row \cup {NoRow}] /\ rec \in [Reconcilers -> RoundLocals]
      /\ \A c \in Reconcilers : rec[c].day \in Nat
      /\ \A id \in JobIds : jobs[id] # NoRow => jobs[id].created \in Nat
  BY DEF TypeOK, RoundLocals, Row, Days
<1>r. raced' = raced
  BY DEF Next, Round, Fails, MovesTo, Begin, ReportDone, NotDone, ReportQueued, LeaveAlone, Decide,
         AskLate, EnqueueLookup, Finish, TimerLookup, TimerInsert, Work, Take, StartRun, RecordRun,
         Settle, Blocked, Crash, Drop, Retry, Tick
<1>2. CASE UNCHANGED <<rec, racing>>
  BY <1>1, <1>2, <1>r DEF LateInv, LateRowsKept, Allowed
\* A round that is not about to insert, or was before.
<1>3. ASSUME NEW c \in Reconcilers, NEW l, rec' = [rec EXCEPT ![c] = l], racing' = racing,
             l.pc \in {"lookup", "insert"} /\ l.late =>
                /\ rec[c].pc \in {"lookup", "insert"} /\ rec[c].late
                /\ rec[c].r = l.r /\ rec[c].day = l.day
      PROVE  LateInv'
  <2>1. \A e \in Reconcilers : rec'[e] = IF e = c THEN l ELSE rec[e]
    BY <1>0, <1>3
  <2>2. ASSUME NEW e \in Reconcilers, rec'[e].pc \in {"lookup", "insert"}, rec'[e].late
        PROVE  /\ rec[e].pc \in {"lookup", "insert"} /\ rec[e].late
               /\ rec'[e].r = rec[e].r /\ rec'[e].day = rec[e].day
    BY <1>3, <2>1, <2>2
  <2>. QED  BY <1>1, <1>3, <1>r, <2>2 DEF LateInv, LateRowsKept, Allowed
<1>4. ASSUME NEW c \in Reconcilers, Round(c) \/ Fails(c)
      PROVE  LateInv'
  <2>1. ASSUME NEW l, rec' = [rec EXCEPT ![c] = l], racing' = racing, l.pc \notin {"lookup", "insert"}
        PROVE  LateInv'
    BY <1>3, <2>1
  <2>2. CASE Begin(c)
    BY <2>1, <2>2 DEF Begin, MovesTo, Begun
  <2>3. ASSUME NEW r \in Routines, ReportDone(c, r) \/ NotDone(c, r)
        PROVE  LateInv'
    BY <2>1, <2>3 DEF ReportDone, NotDone, MovesTo, DoneWith, Asking
  <2>4. CASE ReportQueued(c) \/ LeaveAlone(c)
    BY <2>1, <2>4 DEF ReportQueued, LeaveAlone, MovesTo, DoneWith
  <2>5. CASE Decide(c)
    <3>1. CASE MovesTo(c, Asking(c, "lookup", rec[c].r, FALSE))
      BY <1>3, <2>5, <3>1 DEF Decide, MovesTo, Asking
    <3>2. CASE MovesTo(c, Asking(c, "late", rec[c].r, TRUE))
      BY <2>1, <2>5, <3>2 DEF Decide, MovesTo, Asking
    <3>. QED  BY <2>5, <3>1, <3>2 DEF Decide
  <2>6. CASE AskLate(c)
    <3>1. CASE MovesTo(c, DoneWith(c, rec[c].r, rec[c].enqueued)) /\ racing' = racing
      BY <2>1, <3>1 DEF MovesTo, DoneWith
    <3>2. CASE /\ ~HadLateJob(rec[c].r, rec[c].day)
               /\ MovesTo(c, Asking(c, "lookup", rec[c].r, rec[c].late))
               /\ racing' = IF AboutToInsert(rec[c].r) = {} THEN racing \ {c}
                            ELSE racing \cup {c} \cup AboutToInsert(rec[c].r)
      <4> DEFINE l == Asking(c, "lookup", rec[c].r, rec[c].late)
      <4>1. l.day = rec[c].day /\ l.r = rec[c].r /\ l.late = rec[c].late
        BY DEF Asking
      <4>2. rec' = [rec EXCEPT ![c] = l]
        BY <3>2 DEF MovesTo
      <4>. HIDE DEF l
      <4>3. \A e \in Reconcilers : rec'[e] = IF e = c THEN l ELSE rec[e]
        BY <1>0, <4>2
      <4>4. \A id \in JobIds :
               jobs'[id] # NoRow /\ jobs'[id].late /\ jobs'[id].routine = l.r
                   => jobs'[id].created < l.day
        BY <1>0, <1>1, <3>2, <4>1 DEF HadLateJob, Of, LateRowsKept
      <4>5. rec[c].pc = "late"
        BY <2>6 DEF AskLate
      <4>6. ASSUME NEW e \in Reconcilers, e # c, rec[e].pc \in {"lookup", "insert"}, rec[e].late
            PROVE  /\ e \in racing => e \in racing'
                   /\ rec[e].r = l.r => e \in racing' /\ c \in racing'
        BY <3>2, <4>1, <4>6 DEF AboutToInsert
      <4>7. ASSUME NEW e \in Reconcilers, rec'[e].pc \in {"lookup", "insert"}, rec'[e].late,
                   NEW id \in JobIds, jobs'[id] # NoRow, jobs'[id].late, jobs'[id].routine = rec'[e].r
            PROVE  Allowed(e, jobs[id], id, rec[e].day)'
        <5>1. CASE e = c
          <6>1. rec'[e] = l
            BY <4>3, <5>1
          <6>2. jobs'[id].created < l.day
            BY <4>4, <4>7, <6>1
          <6>. QED  BY <6>1, <6>2 DEF Allowed
        <5>2. CASE e # c
          <6>1. rec'[e] = rec[e] /\ (e \in racing => e \in racing')
            BY <4>3, <4>6, <4>7, <5>2
          <6>2. Allowed(e, jobs[id], id, rec[e].day) /\ jobs'[id].created = jobs[id].created
            BY <1>1, <4>7, <6>1 DEF LateInv, LateRowsKept
          <6>. QED  BY <1>r, <6>1, <6>2 DEF Allowed
        <5>. QED  BY <5>1, <5>2
      <4>8. ASSUME NEW e \in Reconcilers, NEW g \in Reconcilers, e # g,
                   rec'[e].pc \in {"lookup", "insert"}, rec'[e].late,
                   rec'[g].pc \in {"lookup", "insert"}, rec'[g].late, rec'[e].r = rec'[g].r
            PROVE  e \in racing' /\ g \in racing'
        <5>1. CASE e = c \/ g = c
          BY <4>3, <4>6, <4>8, <5>1
        <5>2. CASE e # c /\ g # c
          BY <4>3, <4>6, <4>8, <5>2 DEF LateInv
        <5>. QED  BY <5>1, <5>2
      <4>. QED  BY <4>7, <4>8 DEF LateInv
    <3>. QED  BY <2>6, <3>1, <3>2 DEF AskLate
  <2>7. CASE EnqueueLookup(c)
    <3>1. CASE MovesTo(c, DoneWith(c, rec[c].r, TRUE))
      BY <2>1, <2>7, <3>1 DEF EnqueueLookup, MovesTo, DoneWith
    <3>2. CASE MovesTo(c, Asking(c, "insert", rec[c].r, rec[c].late))
      <4> DEFINE l == Asking(c, "insert", rec[c].r, rec[c].late)
      <4>1. l.day = rec[c].day /\ l.r = rec[c].r /\ l.late = rec[c].late
        BY DEF Asking
      <4>2. rec' = [rec EXCEPT ![c] = l]
        BY <3>2 DEF MovesTo
      <4>3. rec[c].pc = "lookup" /\ racing' = racing
        BY <2>7 DEF EnqueueLookup
      <4>. HIDE DEF l
      <4>. QED  BY <1>3, <4>1, <4>2, <4>3
    <3>. QED  BY <2>7, <3>1, <3>2 DEF EnqueueLookup
  <2>8. CASE Finish(c) \/ Fails(c)
    BY <2>1, <2>8 DEF Finish, Fails, MovesTo, AtRest
  <2>. QED  BY <1>4, <2>2, <2>3, <2>4, <2>5, <2>6, <2>7, <2>8 DEF Round
<1>5. CASE \A c \in Reconcilers : ~(Round(c) \/ Fails(c))
  BY <1>2, <1>5 DEF Next, TimerLookup, TimerInsert, Work, Take, StartRun, RecordRun,
                    Settle, Blocked, Crash, Drop, Retry, Tick
<1>. QED  BY <1>4, <1>5

\* The insert itself: the row's creation day is later than that of every other late row of
\* the routine that did not race with its round, because the clock does not run backwards.
LEMMA LateInsert ==
    ASSUME TypeOK, LocalsInv, LateInv, OneLateJobPerDay,
           NEW c \in Reconcilers, EnqueueInsert(c)
    PROVE  LateInv' /\ OneLateJobPerDay'
<1> DEFINE row == [state |-> "queued", routine |-> rec[c].r, late |-> rec[c].late,
                   created |-> day, due |-> rec[c].day, attempts |-> 0]
<1>1. /\ jobs' = [jobs EXCEPT ![nextId] = row] /\ nextId \in JobIds /\ racing' = racing
      /\ raced' = raced \cup (IF c \in racing THEN {nextId} ELSE {})
  BY DEF EnqueueInsert, Insert
<1>2. row.late = rec[c].late /\ row.routine = rec[c].r /\ row.created = day
  OBVIOUS
<1>3. \A id \in JobIds : jobs'[id] = IF id = nextId THEN row ELSE jobs[id]
  BY <1>1 DEF TypeOK
<1>. HIDE DEF row
<1>4. rec[c].pc = "insert" /\ rec'[c].pc = "routine" /\ \A e \in Reconcilers : e # c => rec'[e] = rec[e]
  BY DEF EnqueueInsert, DoneWith, TypeOK
<1>5. LateInv'
  <2>1. ASSUME NEW e \in Reconcilers, rec'[e].pc \in {"lookup", "insert"}, rec'[e].late,
               NEW id \in JobIds, jobs'[id] # NoRow, jobs'[id].late, jobs'[id].routine = rec'[e].r
        PROVE  Allowed(e, jobs[id], id, rec[e].day)'
    <3>1. e # c /\ rec'[e] = rec[e]
      BY <1>4, <2>1
    <3>2. CASE id = nextId
      <4>1. rec[c].late /\ rec[c].r = rec[e].r
        BY <1>2, <1>3, <2>1, <3>1, <3>2
      <4>2. c \in racing /\ e \in racing
        BY <1>4, <2>1, <3>1, <4>1 DEF LateInv
      <4>. QED  BY <1>1, <3>2, <4>2 DEF Allowed
    <3>3. CASE id # nextId
      <4>1. jobs'[id] = jobs[id] /\ Allowed(e, jobs[id], id, rec[e].day)
        BY <1>3, <2>1, <3>1, <3>3 DEF LateInv
      <4>. QED  BY <1>1, <3>1, <4>1 DEF Allowed
    <3>. QED  BY <3>2, <3>3
  <2>2. ASSUME NEW e \in Reconcilers, NEW g \in Reconcilers, e # g,
               rec'[e].pc \in {"lookup", "insert"}, rec'[e].late,
               rec'[g].pc \in {"lookup", "insert"}, rec'[g].late, rec'[e].r = rec'[g].r
        PROVE  e \in racing' /\ g \in racing'
    BY <1>1, <1>4, <2>2 DEF LateInv
  <2>. QED  BY <2>1, <2>2 DEF LateInv
<1>6. day \in Nat /\ rec[c].day \in Nat /\ rec[c].day <= day
      /\ \A id \in JobIds : jobs[id] # NoRow => jobs[id].created \in Nat
  BY DEF TypeOK, LocalsInv, RoundLocals, Row, Days
<1>7. ASSUME rec[c].late, NEW id \in JobIds, jobs[id] # NoRow, jobs[id].late,
             jobs[id].routine = rec[c].r, jobs[id].created = day
      PROVE  {id, nextId} \subseteq raced'
  <2>1. Allowed(c, jobs[id], id, rec[c].day) /\ ~(jobs[id].created < rec[c].day)
    BY <1>4, <1>6, <1>7 DEF LateInv
  <2>. QED  BY <1>1, <2>1 DEF Allowed
<1>8. ASSUME NEW i \in JobIds, NEW j \in JobIds, jobs'[i] # NoRow, jobs'[j] # NoRow,
             jobs'[i].late, jobs'[j].late, jobs'[i].routine = jobs'[j].routine,
             jobs'[i].created = jobs'[j].created, i # j
      PROVE  {i, j} \subseteq raced'
  <2>1. CASE i = nextId
    BY <1>2, <1>3, <1>7, <1>8, <2>1
  <2>2. CASE j = nextId
    BY <1>2, <1>3, <1>7, <1>8, <2>2
  <2>3. CASE i # nextId /\ j # nextId
    BY <1>1, <1>3, <1>8, <2>3 DEF OneLateJobPerDay
  <2>. QED  BY <2>1, <2>2, <2>3
<1>9. OneLateJobPerDay'
  BY <1>8 DEF OneLateJobPerDay
<1>. QED  BY <1>5, <1>9

\* A routine gets at most one late job on a day, whoever runs the rounds - the timer's
\* oneshot unit, the page's button, any number of them - but for rounds that had both asked
\* for one before either inserted it, however many days and errors there are.
THEOREM OneLateJobPerDayHolds == Spec => []OneLateJobPerDay
<1>1. Init => OneLateJobPerDay
  BY DEF Init, OneLateJobPerDay
<1>2. TypeOK /\ LocalsInv /\ LateInv /\ OneLateJobPerDay /\ [Next]_vars
        => (LateInv /\ OneLateJobPerDay)'
  <2> SUFFICES ASSUME TypeOK, LocalsInv, LateInv, OneLateJobPerDay, [Next]_vars
               PROVE  (LateInv /\ OneLateJobPerDay)'
    OBVIOUS
  <2>1. CASE UNCHANGED vars
    BY <2>1 DEF vars, LateInv, OneLateJobPerDay, Allowed
  <2>2. ASSUME NEW c \in Reconcilers, EnqueueInsert(c)
        PROVE  (LateInv /\ OneLateJobPerDay)'
    BY <2>2, LateInsert
  <2>3. CASE Next /\ \A c \in Reconcilers : ~EnqueueInsert(c)
    <3>1. LateRowsKept
      BY <2>3, OnlyRoundsInsertLate
    <3>2. raced' = raced
      BY <2>3 DEF Next, Round, Fails, MovesTo, Begin, ReportDone, NotDone, ReportQueued, LeaveAlone,
                  Decide, AskLate, EnqueueLookup, Finish, TimerLookup, TimerInsert, Work, Take,
                  StartRun, RecordRun, Settle, Blocked, Crash, Drop, Retry, Tick
    <3>3. OneLateJobPerDay'
      BY <3>1, <3>2 DEF LateRowsKept, OneLateJobPerDay
    <3>. QED  BY <2>3, <3>3, LateInvKept
  <2>. QED  BY <2>1, <2>2, <2>3
<1>. QED  BY <1>1, <1>2, LateInvInit, ReconcileTypeCorrect, PTL DEF Spec

-----------------------------------------------------------------------------
(* A round wakes the supervisor, or was cut short.                          *)

\* A round with rows of its own in the table is under way and knows of them, or an error
\* has put an end to it.
PokeInv == \A c \in Reconcilers :
              unpoked[c] # {} => c \in cut \/ (rec[c].pc # "idle" /\ rec[c].enqueued)

LEMMA PokeInvStep ==
    ASSUME TypeOK, PokeInv, Next
    PROVE  PokeInv'
<1>0. /\ rec \in [Reconcilers -> RoundLocals]
      /\ unpoked \in [Reconcilers -> SUBSET JobIds]
  BY DEF TypeOK
<1>1. CASE UNCHANGED <<rec, unpoked, cut>>
  BY <1>1 DEF PokeInv
<1>2. ASSUME NEW c \in Reconcilers, NEW l, rec' = [rec EXCEPT ![c] = l],
             unpoked' = unpoked, cut' = cut, l.pc # "idle", rec[c].enqueued => l.enqueued
      PROVE  PokeInv'
  <2>1. \A e \in Reconcilers : rec'[e] = IF e = c THEN l ELSE rec[e]
    BY <1>0, <1>2
  <2>. QED  BY <1>2, <2>1 DEF PokeInv
<1>3. ASSUME NEW c \in Reconcilers, Round(c)
      PROVE  PokeInv'
  <2>1. CASE Begin(c) \/ Finish(c)
    <3>1. \A e \in Reconcilers : e # c => /\ rec'[e] = rec[e] /\ unpoked'[e] = unpoked[e]
                                          /\ e \in cut => e \in cut'
      BY <1>0, <2>1 DEF Begin, Finish, MovesTo
    <3>2. unpoked'[c] = {} \/ c \in cut'
      BY <1>0, <2>1 DEF Begin, Finish, PokeInv
    <3>. QED  BY <3>1, <3>2 DEF PokeInv
  <2>2. ASSUME NEW r \in Routines, ReportDone(c, r) \/ NotDone(c, r)
        PROVE  PokeInv'
    BY <1>2, <2>2 DEF ReportDone, NotDone, MovesTo, DoneWith, Asking
  <2>3. CASE ReportQueued(c) \/ LeaveAlone(c) \/ Decide(c)
    BY <1>2, <2>3 DEF ReportQueued, LeaveAlone, Decide, MovesTo, DoneWith, Asking
  <2>4. CASE AskLate(c) \/ EnqueueLookup(c)
    BY <1>2, <2>4 DEF AskLate, EnqueueLookup, MovesTo, DoneWith, Asking
  <2>5. CASE EnqueueInsert(c)
    <3>1. \A e \in Reconcilers : e # c => /\ rec'[e] = rec[e] /\ unpoked'[e] = unpoked[e]
                                          /\ e \in cut => e \in cut'
      BY <1>0, <2>5 DEF EnqueueInsert
    <3>2. rec'[c].pc = "routine" /\ rec'[c].enqueued
      BY <1>0, <2>5 DEF EnqueueInsert, DoneWith
    <3>. QED  BY <3>1, <3>2 DEF PokeInv
  <2>. QED  BY <1>3, <2>1, <2>2, <2>3, <2>4, <2>5 DEF Round
<1>4. ASSUME NEW c \in Reconcilers, Fails(c)
      PROVE  PokeInv'
  <2>1. \A e \in Reconcilers : e # c => /\ rec'[e] = rec[e] /\ unpoked'[e] = unpoked[e]
                                        /\ e \in cut => e \in cut'
    BY <1>0, <1>4 DEF Fails
  <2>2. c \in cut'
    BY <1>4 DEF Fails
  <2>. QED  BY <2>1, <2>2 DEF PokeInv
<1>5. CASE \A c \in Reconcilers : ~(Round(c) \/ Fails(c))
  BY <1>1, <1>5 DEF Next, TimerLookup, TimerInsert, Work, Take, StartRun,
       RecordRun, Settle, Blocked, Crash, Drop, Retry, Tick
<1>. QED  BY <1>3, <1>4, <1>5

\* Every row a round inserts is followed by a poke before the round is over, unless a
\* statement of the same round failed: for any number of routines, rounds and errors.
THEOREM InsertedIsPokedHolds == Spec => []InsertedIsPoked
<1>1. Init => PokeInv
  BY DEF Init, PokeInv
<1>2. TypeOK /\ PokeInv /\ [Next]_vars => PokeInv'
  BY PokeInvStep DEF vars, PokeInv
<1>3. PokeInv => InsertedIsPoked
  BY DEF PokeInv, InsertedIsPoked
<1>. QED  BY <1>1, <1>2, <1>3, ReconcileTypeCorrect, PTL DEF Spec

-----------------------------------------------------------------------------
(* A job left running was in the hands of a supervisor that died.           *)

\* A running row is the one in the worker's hands, or was in a dead one's.
RunningHeld == \A id \in JobIds :
                  jobs[id] # NoRow /\ jobs[id].state = "running"
                     => id \in orphans \/ (worker.pc # "idle" /\ worker.id = id)

LEMMA RunningHeldStep ==
    ASSUME TypeOK, LocalsInv, RunningHeld, Next
    PROVE  RunningHeld'
<1>0. /\ jobs \in [JobIds -> Row \cup {NoRow}]
      /\ worker \in WorkerLocals
      /\ worker.pc # "idle" => worker.id \in JobIds /\ jobs[worker.id] \in Row
  BY DEF TypeOK, LocalsInv
<1>o. CASE Crash
  <2>1. jobs' = jobs /\ orphans' = orphans \cup {worker.id}
    BY <1>o DEF Crash
  <2>. QED  BY <2>1 DEF RunningHeld
<1>1. CASE UNCHANGED <<jobs, worker, orphans>>
  BY <1>1 DEF RunningHeld
<1>2. ASSUME NEW id \in JobIds, NEW row, jobs' = [jobs EXCEPT ![id] = row],
             row.state # "running",
             worker' = worker \/ worker.id = id, orphans' = orphans
      PROVE  RunningHeld'
  BY <1>0, <1>2 DEF RunningHeld
<1>3. ASSUME NEW r, NEW late, NEW d, Insert(r, late, d), UNCHANGED <<worker, orphans>>
      PROVE  RunningHeld'
  <2> DEFINE row == [state |-> "queued", routine |-> r, late |-> late,
                     created |-> day, due |-> d, attempts |-> 0]
  <2>1. jobs' = [jobs EXCEPT ![nextId] = row] /\ nextId \in JobIds /\ row.state = "queued"
    BY <1>3 DEF Insert
  <2>. HIDE DEF row
  <2>. QED  BY <1>2, <1>3, <2>1
<1>4. ASSUME NEW id \in JobIds, Take(id)
      PROVE  RunningHeld'
  <2>1. \A i \in JobIds : jobs[i] # NoRow /\ jobs[i].state = "running" => i \in orphans'
    BY <1>4 DEF RunningHeld, Take
  <2>2. \A i \in JobIds : i # id => jobs'[i] = jobs[i]
    BY <1>0, <1>4 DEF Take
  <2>3. worker'.pc = "gate" /\ worker'.id = id
    BY <1>4 DEF Take, Resting
  <2>. QED  BY <2>1, <2>2, <2>3 DEF RunningHeld
<1>5. CASE Blocked \/ Settle
  <2> DEFINE id == worker.id
  <2>1. id \in JobIds /\ jobs[id] \in Row
    BY <1>0, <1>5 DEF Blocked, Settle
  <2>2. \A i \in JobIds : i # id => jobs'[i] = jobs[i]
    BY <1>0, <1>5 DEF Blocked, Settle
  <2>3. jobs'[id].state # "running" /\ orphans' = orphans
    BY <1>0, <1>5, <2>1 DEF Blocked, Settle, Row
  <2>. QED  BY <2>1, <2>2, <2>3 DEF RunningHeld
<1>6. CASE StartRun \/ \E end \in {"ok", "failed", "deferred"} : RecordRun(end)
  <2>1. jobs' = jobs /\ worker'.pc # "idle" /\ worker'.id = worker.id /\ orphans' = orphans
    BY <1>0, <1>6 DEF StartRun, RecordRun, WorkerLocals
  <2>. QED  BY <2>1 DEF RunningHeld
<1>7. ASSUME NEW id \in JobIds, Drop(id) \/ Retry(id)
      PROVE  RunningHeld'
  <2>1. jobs[id] \in Row /\ worker' = worker
    BY <1>0, <1>7 DEF Drop, Retry
  <2>2. \A i \in JobIds : i # id => jobs'[i] = jobs[i]
    BY <1>0, <1>7 DEF Drop, Retry
  <2>3. jobs'[id].state # "running" /\ orphans' = orphans
    BY <1>0, <1>7, <2>1 DEF Drop, Retry, Row
  <2>. QED  BY <2>1, <2>2, <2>3 DEF RunningHeld
<1>8. ASSUME NEW r \in Routines, TimerLookup(r) \/ TimerInsert(r)
      PROVE  RunningHeld'
  BY <1>1, <1>3, <1>8 DEF TimerLookup, TimerInsert
<1>9. CASE Tick
  BY <1>1, <1>9 DEF Tick
<1>10. ASSUME NEW c \in Reconcilers, Round(c) \/ Fails(c)
       PROVE  RunningHeld'
  <2>1. CASE EnqueueInsert(c)
    BY <1>3, <2>1 DEF EnqueueInsert
  <2>2. CASE ~EnqueueInsert(c)
    BY <1>1, <1>10, <2>2 DEF Round, Fails, MovesTo, Begin, ReportDone, NotDone,
         ReportQueued, LeaveAlone, Decide, AskLate, EnqueueLookup, Finish
  <2>. QED  BY <2>1, <2>2
<1>. QED  BY <1>o, <1>4, <1>5, <1>6, <1>7, <1>8, <1>9, <1>10 DEF Next, Work

\* A round leaves a routine alone as queued only for a job that is waiting, being run, or
\* left running by a supervisor that died with it, however often supervisors die.
THEOREM PendingIsHeldHolds == Spec => PendingIsHeld
<1>1. Init => RunningHeld
  BY DEF Init, RunningHeld
<1>2. TypeOK /\ LocalsInv /\ RunningHeld /\ [Next]_vars => RunningHeld'
  BY RunningHeldStep DEF vars, RunningHeld
<1>3. RunningHeld =>
        \A c \in Reconcilers :
            ReportQueued(c) => \E id \in Of(rec[c].r) : Live(id) \/ Orphaned(id)
  BY DEF RunningHeld, ReportQueued, HasPending, Of, Live, Orphaned
<1>. QED  BY <1>1, <1>2, <1>3, ReconcileTypeCorrect, PTL DEF Spec, PendingIsHeld

-----------------------------------------------------------------------------
(* A run.                                                                   *)

Pcs == {"idle", "gather", "gathered", "prompt", "settings", "claude", "remember", "import",
        "commit", "render", "digest"}
Outcomes == {"none", "failed", "skipped", "terminal", "deferred", "ok", "died"}
RunStates == [pc : Pcs, input : {0} \cup Inputs, outcome : Outcomes]

Running ==
    /\ run \in [Runners -> RunStates] /\ world \in Inputs
    /\ note \in {0} \cup Inputs /\ digest \in {0} \cup Inputs /\ head \in {0} \cup Inputs
    /\ disturbed \in BOOLEAN
    /\ \A p \in Runners : run[p].pc = "gathered" => run[p].input # 0

Busy(p) == run[p].pc # "idle"

\* Without overlap there is one run at a time; between the note and its digest the
\* note is the run's own; and otherwise the digest is the note's.
Alone == \A p, q \in Runners : Busy(p) /\ Busy(q) => p = q
NotedBy == \A p \in Runners : run[p].pc = "digest" => run[p].input = note
Agrees ==
    routine.kind = "fresh" /\ digest # 0 => note = digest \/ \E p \in Runners : run[p].pc = "digest"

RunInv == Running /\ (~disturbed => Alone /\ NotedBy /\ Agrees)

LEMMA RunStarts == ASSUME R!Init PROVE RunInv
<1>1. /\ run = [p \in Runners |-> [pc |-> "idle", input |-> 0, outcome |-> "none"]]
      /\ world \in Inputs /\ digest = 0 /\ note = 0 /\ head = 0 /\ disturbed = FALSE
  BY DEF R!Init, R!AtRest, R!None
<1>2. run \in [Runners -> RunStates] /\ \A p \in Runners : run[p].pc = "idle"
  BY <1>1 DEF RunStates, Pcs, Outcomes
<1>. QED  BY <1>1, <1>2 DEF RunInv, Running, Alone, Busy, NotedBy, Agrees

\* What a step does with a runner that only goes on.
LEMMA RunGoes ==
    ASSUME Running, NEW p \in Runners, NEW pc \in Pcs, R!Goes(p, pc)
    PROVE  /\ run' \in [Runners -> RunStates] /\ run'[p].pc = pc /\ run'[p].input = run[p].input
           /\ run'[p].outcome = run[p].outcome
           /\ \A q \in Runners \ {p} : run'[q] = run[q]
  BY DEF Running, RunStates, R!Goes

LEMMA RunEnds ==
    ASSUME Running, NEW p \in Runners, NEW o \in Outcomes, R!Ends(p, o)
    PROVE  /\ run' \in [Runners -> RunStates] /\ run'[p].pc = "idle"
           /\ run'[p].outcome = o
           /\ \A q \in Runners \ {p} : run'[q] = run[q]
  BY DEF Running, RunStates, R!Ends, R!AtRest, R!None, Pcs, Outcomes

\* A step of a runner that leaves the note and the digest alone, and does not come
\* to or from the place between them.
LEMMA RunStays ==
    ASSUME RunInv, NEW p \in Runners, run' \in [Runners -> RunStates],
           \A q \in Runners \ {p} : run'[q] = run[q],
           Busy(p), run[p].pc # "digest", run'[p].pc # "digest",
           run'[p].pc = "gathered" => run'[p].input # 0,
           world' = world, routine' = routine, note' = note, digest' = digest, disturbed' = disturbed,
           head' \in {head, note}
    PROVE  RunInv'
<1>1. Running'
  BY DEF RunInv, Running
<1>2. ASSUME ~disturbed PROVE Alone' /\ NotedBy' /\ Agrees'
  <2>1. Alone'
    BY <1>2 DEF RunInv, Alone, Busy
  <2>2. NotedBy'
    BY <1>2 DEF RunInv, NotedBy
  <2>3. Agrees'
    BY <1>2 DEF RunInv, Agrees
  <2>. QED  BY <2>1, <2>2, <2>3
<1>. QED  BY <1>1, <1>2 DEF RunInv

LEMMA BeginKeeps == ASSUME RunInv, NEW p \in Runners, R!Begin(p) PROVE RunInv'
<1>1. /\ run[p].pc = "idle" /\ UNCHANGED <<routine, world, digest, note, head>>
      /\ run' = [run EXCEPT ![p] = [R!AtRest EXCEPT !.pc = "gather"]]
      /\ disturbed' = (disturbed \/ \E q \in Runners : run[q].pc # "idle")
  BY DEF R!Begin, R!outputs
<1>2. /\ run' \in [Runners -> RunStates] /\ run'[p].pc = "gather"
      /\ \A q \in Runners \ {p} : run'[q] = run[q]
  BY <1>1 DEF RunInv, Running, RunStates, Pcs, Outcomes, R!AtRest, R!None
<1>3. disturbed' \in BOOLEAN
  BY <1>1
<1>4. Running'
  BY <1>1, <1>2, <1>3 DEF RunInv, Running
<1>5. ASSUME ~disturbed' PROVE Alone' /\ NotedBy' /\ Agrees'
  <2>1. ~disturbed /\ \A q \in Runners : run[q].pc = "idle"
    BY <1>1, <1>5
  <2>. QED  BY <1>1, <1>2, <2>1 DEF RunInv, Alone, Busy, NotedBy, Agrees
<1>. QED  BY <1>4, <1>5 DEF RunInv

LEMMA GatherStepKeeps == ASSUME RunInv, NEW p \in Runners, R!Gather(p) PROVE RunInv'
<1>1. /\ run[p].pc = "gather"
      /\ UNCHANGED <<routine, world, digest, note, head, disturbed>>
      /\ R!Ends(p, "failed") \/ run' = [run EXCEPT ![p].pc = "gathered", ![p].input = world]
  BY DEF R!Gather, R!given, R!outputs
<1>2. CASE R!Ends(p, "failed")
  BY <1>1, <1>2, RunEnds, RunStays DEF RunInv, Busy, Outcomes
<1>3. CASE run' = [run EXCEPT ![p].pc = "gathered", ![p].input = world]
  <2>1. /\ run' \in [Runners -> RunStates] /\ run'[p].pc = "gathered" /\ run'[p].input = world
        /\ \A q \in Runners \ {p} : run'[q] = run[q]
    BY <1>3 DEF RunInv, Running, RunStates, Pcs
  <2>2. world # 0
    BY RunAssumption DEF RunInv, Running
  <2>. QED  BY <1>1, <2>1, <2>2, RunStays DEF Busy
<1>. QED  BY <1>1, <1>2, <1>3

LEMMA OnKeeps ==
    ASSUME RunInv, NEW p \in Runners,
           R!Gathered(p) \/ R!Build(p) \/ R!SettingsFile(p) \/ R!Claude(p) \/ R!Remember(p)
             \/ R!ImportArtifacts(p) \/ R!CommitVault(p)
    PROVE  RunInv'
<1>1. /\ Busy(p) /\ run[p].pc # "digest"
      /\ UNCHANGED <<routine, world, digest, note, disturbed>> /\ head' \in {head, note}
  BY DEF R!Gathered, R!Build, R!SettingsFile, R!Claude, R!Remember, R!ImportArtifacts, R!CommitVault,
         R!given, R!outputs, Busy
<1>2. \/ \E o \in {"failed", "terminal", "deferred", "skipped"} : R!Ends(p, o)
      \/ \E pc \in Pcs \ {"digest", "gathered"} : R!Goes(p, pc)
  BY DEF R!Gathered, R!Build, R!SettingsFile, R!Claude, R!Remember, R!ImportArtifacts, R!CommitVault,
         R!RateLimited, R!NoResult, Pcs
<1>3. ASSUME NEW o \in {"failed", "terminal", "deferred", "skipped"}, R!Ends(p, o) PROVE RunInv'
  BY <1>1, <1>3, RunEnds, RunStays DEF RunInv, Outcomes
<1>4. ASSUME NEW pc \in Pcs \ {"digest", "gathered"}, R!Goes(p, pc) PROVE RunInv'
  BY <1>1, <1>4, RunGoes, RunStays DEF RunInv
<1>. QED  BY <1>2, <1>3, <1>4

LEMMA RenderKeeps == ASSUME RunInv, NEW p \in Runners, R!Render(p) PROVE RunInv'
<1>1. /\ run[p].pc = "render" /\ UNCHANGED <<routine, world, digest, head, disturbed>>
      /\ \/ R!Ends(p, "failed") /\ note' = note
         \/ /\ note' = run[p].input
            /\ IF routine.kind = "script" THEN R!Ends(p, "ok") ELSE R!Goes(p, "digest")
  BY DEF R!Render, R!Digested, R!given
<1>2. CASE R!Ends(p, "failed") /\ note' = note
  BY <1>1, <1>2, RunEnds, RunStays DEF RunInv, Busy, Outcomes
<1>3. CASE /\ note' = run[p].input
           /\ IF routine.kind = "script" THEN R!Ends(p, "ok") ELSE R!Goes(p, "digest")
  <2>1. /\ run' \in [Runners -> RunStates] /\ \A q \in Runners \ {p} : run'[q] = run[q]
        /\ run'[p].pc \in {"idle", "digest"}
        /\ run'[p].pc = "digest" => run'[p].input = run[p].input
        /\ routine.kind = "fresh" => run'[p].pc = "digest"
    BY <1>3, RunEnds, RunGoes DEF RunInv, Pcs, Outcomes
  <2>2. note' \in {0} \cup Inputs
    BY <1>3 DEF RunInv, Running, RunStates
  <2>3. Running'
    BY <1>1, <2>1, <2>2 DEF RunInv, Running
  <2>4. ASSUME ~disturbed PROVE Alone' /\ NotedBy' /\ Agrees'
    <3>1. \A q \in Runners \ {p} : run[q].pc = "idle" /\ run'[q].pc = "idle"
      BY <1>1, <2>1, <2>4 DEF RunInv, Alone, Busy
    <3>2. Alone'
      BY <3>1 DEF Alone, Busy
    <3>3. NotedBy'
      BY <1>3, <2>1, <3>1 DEF NotedBy
    <3>4. Agrees'
      BY <1>1, <2>1 DEF Agrees
    <3>. QED  BY <3>2, <3>3, <3>4
  <2>. QED  BY <1>1, <2>3, <2>4 DEF RunInv
<1>. QED  BY <1>1, <1>2, <1>3

LEMMA DigestKeeps == ASSUME RunInv, NEW p \in Runners, R!SetDigest(p) PROVE RunInv'
<1>1. /\ run[p].pc = "digest" /\ UNCHANGED <<routine, world, note, head>> /\ R!Ends(p, "ok")
      /\ \/ disturbed' = TRUE /\ digest' = digest
         \/ digest' = run[p].input /\ disturbed' = disturbed
  BY DEF R!SetDigest, R!Digested, R!given
<1>2. /\ run' \in [Runners -> RunStates] /\ run'[p].pc = "idle"
      /\ \A q \in Runners \ {p} : run'[q] = run[q]
  BY <1>1, RunEnds DEF RunInv, Outcomes
<1>3. digest' \in {0} \cup Inputs
  BY <1>1 DEF RunInv, Running, RunStates
<1>4. disturbed' \in BOOLEAN
  BY <1>1 DEF RunInv, Running
<1>5. Running'
  BY <1>1, <1>2, <1>3, <1>4 DEF RunInv, Running
<1>6. ASSUME ~disturbed' PROVE Alone' /\ NotedBy' /\ Agrees'
  <2>1. ~disturbed /\ digest' = run[p].input /\ note = run[p].input
    BY <1>1, <1>6 DEF RunInv, NotedBy
  <2>2. \A q \in Runners : run'[q].pc = "idle"
    BY <1>1, <1>2, <2>1 DEF RunInv, Alone, Busy
  <2>. QED  BY <1>1, <2>1, <2>2 DEF Alone, Busy, NotedBy, Agrees
<1>. QED  BY <1>5, <1>6 DEF RunInv

LEMMA RunnerDiesKeeps == ASSUME RunInv, NEW p \in Runners, R!Dies(p) PROVE RunInv'
<1>1. /\ run[p].pc # "idle" /\ UNCHANGED <<routine, world, digest, note, head>> /\ R!Ends(p, "died")
      /\ disturbed' = (disturbed \/ run[p].pc = "digest")
  BY DEF R!Dies, R!given, R!outputs
<1>2. /\ run' \in [Runners -> RunStates] /\ run'[p].pc = "idle"
      /\ \A q \in Runners \ {p} : run'[q] = run[q]
  BY <1>1, RunEnds DEF RunInv, Outcomes
<1>3. CASE run[p].pc = "digest"
  <2>1. disturbed' = TRUE
    BY <1>1, <1>3
  <2>. QED  BY <1>1, <1>2, <2>1 DEF RunInv, Running
<1>4. CASE run[p].pc # "digest"
  <2>1. disturbed' = disturbed
    BY <1>1, <1>4 DEF RunInv, Running
  <2>. QED  BY <1>1, <1>2, <1>4, <2>1, RunStays DEF Busy
<1>. QED  BY <1>3, <1>4

LEMMA RunKeeps == ASSUME RunInv, [R!Next]_(R!vars) PROVE RunInv'
<1>1. CASE R!Change
  BY <1>1 DEF R!Change, R!outputs, RunInv, Running, Alone, Busy, NotedBy, Agrees
<1>2. CASE UNCHANGED R!vars
  BY <1>2 DEF R!vars, RunInv, Running, Alone, Busy, NotedBy, Agrees
<1>. QED  BY <1>1, <1>2, BeginKeeps, GatherStepKeeps, OnKeeps, RenderKeeps, DigestKeeps, RunnerDiesKeeps
          DEF R!Next

\* Only a fresh run that has gathered is skipped, and nobody is then between the
\* note and its digest.
LEMMA RunSkips ==
    ASSUME RunInv, [R!Next]_(R!vars), NEW p \in Runners, run'[p].outcome = "skipped",
           run[p].outcome # "skipped"
    PROVE  note = run[p].input \/ disturbed
<1>1. ASSUME NEW q \in Runners, R!Gathered(q), R!Skips(q) PROVE note = run[p].input \/ disturbed
  <2>1. p = q
    <3>1. \A r \in Runners \ {q} : run'[r] = run[r]
      BY <1>1, RunEnds DEF R!Gathered, RunInv, Outcomes
    <3>. QED  BY <3>1
  <2>2. run[p].pc = "gathered" /\ routine.kind = "fresh" /\ digest = run[p].input /\ run[p].input # 0
    BY <1>1, <2>1 DEF R!Gathered, R!Skips, RunInv, Running
  <2>3. ASSUME ~disturbed PROVE note = run[p].input
    <3>1. \A r \in Runners : run[r].pc # "digest"
      BY <2>2, <2>3 DEF RunInv, Alone, Busy
    <3>. QED  BY <2>2, <2>3, <3>1 DEF RunInv, Agrees
  <2>. QED  BY <2>3
<1>2. ASSUME NEW q \in Runners, NEW o \in Outcomes, o # "skipped", R!Ends(q, o) PROVE FALSE
  <2>1. run'[q].outcome = o /\ \A r \in Runners \ {q} : run'[r] = run[r]
    BY <1>2, RunEnds DEF RunInv
  <2>. QED  BY <1>2, <2>1
<1>3. ASSUME NEW q \in Runners, NEW pc \in Pcs, R!Goes(q, pc) PROVE FALSE
  BY <1>3, RunGoes DEF RunInv
<1>4. ASSUME NEW q \in Runners, R!Begin(q) PROVE FALSE
  <2>1. run' = [run EXCEPT ![q] = [R!AtRest EXCEPT !.pc = "gather"]]
    BY <1>4 DEF R!Begin
  <2>. QED  BY <2>1 DEF R!AtRest, RunInv, Running
<1>5. ASSUME NEW q \in Runners, R!Gather(q) PROVE FALSE
  <2>1. CASE run' = [run EXCEPT ![q].pc = "gathered", ![q].input = world]
    BY <2>1 DEF RunInv, Running, RunStates
  <2>. QED  BY <1>2, <1>5, <2>1 DEF R!Gather, Outcomes
<1>6. ASSUME NEW q \in Runners, R!Gathered(q), ~R!Skips(q) PROVE FALSE
  BY <1>2, <1>3, <1>6 DEF R!Gathered, Pcs, Outcomes
<1>7. ASSUME NEW q \in Runners,
             R!Build(q) \/ R!SettingsFile(q) \/ R!Claude(q) \/ R!Remember(q) \/ R!ImportArtifacts(q)
               \/ R!CommitVault(q) \/ R!Render(q) \/ R!SetDigest(q) \/ R!Dies(q)
      PROVE  FALSE
  BY <1>2, <1>3, <1>7 DEF R!Build, R!SettingsFile, R!Claude, R!RateLimited, R!NoResult, R!Remember,
         R!ImportArtifacts, R!CommitVault, R!Render, R!SetDigest, R!Dies, Pcs, Outcomes
<1>8. run' # run
  OBVIOUS
<1>9. ~R!Change /\ ~UNCHANGED R!vars
  BY <1>8 DEF R!Change, R!vars
<1>. QED  BY <1>1, <1>4, <1>5, <1>6, <1>7, <1>9 DEF R!Next

\* Runners at one of these places.
AtOneOf(pcs) == {p \in Runners : run[p].pc \in pcs}

Early == {"gather", "gathered", "prompt", "settings", "claude", "remember"}

\* Each result that is remembered, and each that is yet to come, is of a run of its own.
Tallied ==
    /\ IsFiniteSet(AtOneOf(Early)) /\ IsFiniteSet(AtOneOf({"import"}))
    /\ runs \in 0..RunsOfDay /\ remembered \in Nat /\ imported \in Nat
    /\ remembered + Cardinality(AtOneOf(Early)) <= runs
    /\ imported + Cardinality(AtOneOf({"import"})) <= remembered
    /\ mounted \subseteq Runners

\* How a step of a runner changes who is there.
LEMMA PlacesMove ==
    ASSUME NEW p \in Runners, \A q \in Runners \ {p} : run'[q] = run[q], NEW pcs, IsFiniteSet(AtOneOf(pcs))
    PROVE  /\ IsFiniteSet(AtOneOf(pcs)') /\ Cardinality(AtOneOf(pcs)') \in Nat /\ Cardinality(AtOneOf(pcs)) \in Nat
           /\ Cardinality(AtOneOf(pcs)') <= Cardinality(AtOneOf(pcs)) + 1
           /\ run'[p].pc \notin pcs \/ run[p].pc \in pcs =>
                 Cardinality(AtOneOf(pcs)') <= Cardinality(AtOneOf(pcs))
           /\ run'[p].pc \notin pcs /\ run[p].pc \in pcs =>
                 Cardinality(AtOneOf(pcs)') = Cardinality(AtOneOf(pcs)) - 1
<1>. DEFINE S == AtOneOf(pcs)
            T == AtOneOf(pcs)'
<1>1. /\ run'[p].pc \in pcs => T = S \cup {p}
      /\ run'[p].pc \notin pcs => T = S \ {p}
      /\ run[p].pc \in pcs <=> p \in S
  BY DEF AtOneOf
<1>. HIDE DEF S, T
<1>2. IsFiniteSet(S)
  BY DEF S
<1>3. /\ IsFiniteSet(S \cup {p})
      /\ Cardinality(S \cup {p}) = IF p \in S THEN Cardinality(S) ELSE Cardinality(S) + 1
  BY <1>2, FS_AddElement
<1>4. /\ IsFiniteSet(S \ {p})
      /\ Cardinality(S \ {p}) = IF p \in S THEN Cardinality(S) - 1 ELSE Cardinality(S)
  BY <1>2, FS_RemoveElement
<1>5. Cardinality(S) \in Nat /\ Cardinality(S \cup {p}) \in Nat /\ Cardinality(S \ {p}) \in Nat
  BY <1>2, <1>3, <1>4, FS_CardinalityType
<1>6. CASE run'[p].pc \in pcs
  <2>1. T = S \cup {p}
    BY <1>1, <1>6
  <2>2. /\ IsFiniteSet(T) /\ Cardinality(T) = IF p \in S THEN Cardinality(S) ELSE Cardinality(S) + 1
        /\ Cardinality(S) \in Nat
    BY <1>3, <1>5, <2>1
  <2>3. /\ Cardinality(T) \in Nat /\ Cardinality(T) <= Cardinality(S) + 1
        /\ run[p].pc \in pcs => Cardinality(T) <= Cardinality(S)
    BY <1>1, <2>2
  <2>. QED  BY <1>6, <2>2, <2>3 DEF S, T
<1>7. CASE run'[p].pc \notin pcs
  <2>1. T = S \ {p}
    BY <1>1, <1>7
  <2>2. /\ IsFiniteSet(T) /\ Cardinality(T) = IF p \in S THEN Cardinality(S) - 1 ELSE Cardinality(S)
        /\ Cardinality(S) \in Nat /\ Cardinality(T) \in Nat
    BY <1>4, <1>5, <2>1
  <2>3. /\ Cardinality(T) <= Cardinality(S) + 1 /\ Cardinality(T) <= Cardinality(S)
        /\ run[p].pc \in pcs => Cardinality(T) = Cardinality(S) - 1
    BY <1>1, <2>2
  <2>. QED  BY <1>7, <2>2, <2>3 DEF S, T
<1>. QED  BY <1>6, <1>7

LEMMA TallyStarts == ASSUME R!Init PROVE Tallied
<1>1. /\ \A p \in Runners : run[p].pc = "idle"
      /\ runs = 0 /\ remembered = 0 /\ imported = 0 /\ mounted = {}
  BY DEF R!Init, R!AtRest
<1>2. AtOneOf(Early) = {} /\ AtOneOf({"import"}) = {}
  BY <1>1 DEF AtOneOf, Early
<1>3. IsFiniteSet({}) /\ Cardinality({}) = 0
  BY FS_EmptySet
<1>4. /\ IsFiniteSet(AtOneOf(Early)) /\ IsFiniteSet(AtOneOf({"import"}))
      /\ Cardinality(AtOneOf(Early)) = 0 /\ Cardinality(AtOneOf({"import"})) = 0
  BY <1>2, <1>3
<1>5. runs \in 0..RunsOfDay /\ remembered \in Nat /\ imported \in Nat
  BY <1>1, RunAssumption
<1>. QED  BY <1>1, <1>4, <1>5 DEF Tallied

\* A step of a runner that neither begins a run, nor remembers, nor imports.
LEMMA TallyStays ==
    ASSUME RunInv, Tallied, NEW p \in Runners, \A q \in Runners \ {p} : run'[q] = run[q],
           run'[p].pc \in Early => run[p].pc \in Early, run'[p].pc # "import",
           runs' = runs, remembered' = remembered, imported' = imported, mounted' \subseteq Runners
    PROVE  Tallied'
<1>1. /\ IsFiniteSet(AtOneOf(Early)') /\ Cardinality(AtOneOf(Early)') \in Nat /\ Cardinality(AtOneOf(Early)) \in Nat
      /\ Cardinality(AtOneOf(Early)') <= Cardinality(AtOneOf(Early))
  BY PlacesMove DEF Tallied
<1>2. /\ IsFiniteSet(AtOneOf({"import"})') /\ Cardinality(AtOneOf({"import"})') \in Nat
      /\ Cardinality(AtOneOf({"import"})) \in Nat
      /\ Cardinality(AtOneOf({"import"})') <= Cardinality(AtOneOf({"import"}))
  BY PlacesMove DEF Tallied
<1>3. remembered + Cardinality(AtOneOf(Early)') <= runs /\ imported + Cardinality(AtOneOf({"import"})') <= remembered
  <2>1. runs \in Nat
    BY RunAssumption DEF Tallied
  <2>. QED  BY <1>1, <1>2, <2>1 DEF Tallied
<1>. QED  BY <1>1, <1>2, <1>3, RunAssumption DEF Tallied, Early

LEMMA TallyKeeps == ASSUME RunInv, Tallied, [R!Next]_(R!vars) PROVE Tallied'
<1>0. runs \in Nat /\ RunsOfDay \in Nat /\ remembered \in Nat /\ imported \in Nat /\ mounted \subseteq Runners
  BY RunAssumption DEF Tallied
<1>1. ASSUME NEW p \in Runners, NEW o \in Outcomes, R!Ends(p, o), runs' = runs, remembered' = remembered,
             imported' = imported, mounted' \subseteq Runners
      PROVE  Tallied'
  <2>1. run'[p].pc = "idle" /\ \A q \in Runners \ {p} : run'[q] = run[q]
    BY <1>1, RunEnds DEF RunInv
  <2>2. "idle" \notin Early
    BY DEF Early
  <2>. QED  BY <1>1, <2>1, <2>2, TallyStays
<1>2. ASSUME NEW p \in Runners, NEW pc \in Pcs, R!Goes(p, pc), pc \in Early => run[p].pc \in Early,
             pc # "import", runs' = runs, remembered' = remembered,
             imported' = imported, mounted' = mounted
      PROVE  Tallied'
  <2>1. run'[p].pc = pc /\ \A q \in Runners \ {p} : run'[q] = run[q]
    BY <1>2, RunGoes DEF RunInv
  <2>. QED  BY <1>0, <1>2, <2>1, TallyStays
<1>3. ASSUME NEW p \in Runners, R!Begin(p) PROVE Tallied'
  <2>1. /\ run[p].pc = "idle" /\ runs < RunsOfDay /\ runs' = runs + 1 /\ mounted' \subseteq Runners
        /\ run' = [run EXCEPT ![p] = [R!AtRest EXCEPT !.pc = "gather"]]
        /\ UNCHANGED <<remembered, imported>>
    BY <1>0, <1>3 DEF R!Begin, R!outputs, R!Mount
  <2>2. run'[p].pc = "gather" /\ \A q \in Runners \ {p} : run'[q] = run[q]
    BY <2>1 DEF RunInv, Running, R!AtRest
  <2>3. /\ IsFiniteSet(AtOneOf(Early)') /\ Cardinality(AtOneOf(Early)') \in Nat /\ Cardinality(AtOneOf(Early)) \in Nat
        /\ Cardinality(AtOneOf(Early)') <= Cardinality(AtOneOf(Early)) + 1
    BY <2>2, PlacesMove DEF Tallied
  <2>4. /\ IsFiniteSet(AtOneOf({"import"})') /\ Cardinality(AtOneOf({"import"})') \in Nat
        /\ Cardinality(AtOneOf({"import"})) \in Nat
        /\ Cardinality(AtOneOf({"import"})') <= Cardinality(AtOneOf({"import"}))
    BY <2>2, PlacesMove DEF Tallied
  <2>5. remembered + Cardinality(AtOneOf(Early)') <= runs + 1 /\ imported + Cardinality(AtOneOf({"import"})') <= remembered
    BY <1>0, <2>3, <2>4 DEF Tallied
  <2>6. runs' \in 0..RunsOfDay /\ remembered' \in Nat /\ imported' \in Nat
    BY <1>0, <2>1
  <2>. QED  BY <2>1, <2>3, <2>4, <2>5, <2>6 DEF Tallied
<1>4. ASSUME NEW p \in Runners, R!Gather(p) PROVE Tallied'
  <2>1. run[p].pc = "gather" /\ UNCHANGED <<runs, remembered, imported>> /\ mounted' \subseteq Runners
    BY <1>0, <1>4 DEF R!Gather, R!given, R!outputs, R!Cleanup
  <2>2. CASE run' = [run EXCEPT ![p].pc = "gathered", ![p].input = world]
    <3>1. run'[p].pc = "gathered" /\ \A q \in Runners \ {p} : run'[q] = run[q]
      BY <2>2 DEF RunInv, Running, RunStates
    <3>2. run[p].pc \in Early /\ "gathered" # "import"
      BY <2>1 DEF Early
    <3>. QED  BY <2>1, <3>1, <3>2, TallyStays
  <2>. QED  BY <1>1, <1>4, <2>1, <2>2 DEF R!Gather, Outcomes
<1>5. ASSUME NEW p \in Runners,
             R!Gathered(p) \/ R!Build(p) \/ R!SettingsFile(p) \/ R!Claude(p) \/ R!CommitVault(p)
               \/ R!Render(p) \/ R!SetDigest(p) \/ R!Dies(p)
      PROVE  Tallied'
  <2>1. UNCHANGED <<runs, remembered, imported, mounted>>
    BY <1>5 DEF R!Gathered, R!Build, R!SettingsFile, R!Claude, R!CommitVault, R!Render, R!SetDigest, R!Dies,
                R!given, R!outputs
  <2>2. \/ \E o \in Outcomes : R!Ends(p, o)
        \/ \E pc \in Pcs : R!Goes(p, pc) /\ pc # "import" /\ (pc \in Early => run[p].pc \in Early)
    BY <1>5 DEF R!Gathered, R!Build, R!SettingsFile, R!Claude, R!RateLimited, R!NoResult, R!CommitVault,
                R!Render, R!SetDigest, R!Dies, Outcomes, Pcs, Early
  <2>. QED  BY <1>0, <1>1, <1>2, <2>1, <2>2
<1>6. ASSUME NEW p \in Runners, R!Remember(p) PROVE Tallied'
  <2>1. PICK json \in BOOLEAN :
           /\ remembered' = IF json THEN remembered + 1 ELSE remembered
           /\ R!Goes(p, IF json THEN "import" ELSE IF routine.commit THEN "commit" ELSE "render")
           /\ run[p].pc = "remember" /\ UNCHANGED <<runs, imported, mounted>>
    BY <1>6 DEF R!Remember, R!given
  <2>2. CASE ~json
    <3>1. PICK pc \in {"commit", "render"} : R!Goes(p, pc)
      BY <2>1, <2>2
    <3>. QED  BY <1>2, <2>1, <2>2, <3>1 DEF Pcs, Early
  <2>3. CASE json
    <3>1. R!Goes(p, "import") /\ remembered' = remembered + 1
      BY <2>1, <2>3
    <3>2. run'[p].pc = "import" /\ \A q \in Runners \ {p} : run'[q] = run[q]
      BY <3>1, RunGoes DEF RunInv, Pcs
    <3>3. run[p].pc \in Early /\ "import" \notin Early
      BY <2>1 DEF Early
    <3>4. /\ IsFiniteSet(AtOneOf(Early)') /\ Cardinality(AtOneOf(Early)') \in Nat /\ Cardinality(AtOneOf(Early)) \in Nat
          /\ Cardinality(AtOneOf(Early)') = Cardinality(AtOneOf(Early)) - 1
      BY <3>2, <3>3, PlacesMove DEF Tallied
    <3>5. /\ IsFiniteSet(AtOneOf({"import"})') /\ Cardinality(AtOneOf({"import"})') \in Nat
          /\ Cardinality(AtOneOf({"import"})) \in Nat
          /\ Cardinality(AtOneOf({"import"})') <= Cardinality(AtOneOf({"import"})) + 1
      BY <3>2, PlacesMove DEF Tallied
    <3>6. remembered' + Cardinality(AtOneOf(Early)') <= runs /\ imported + Cardinality(AtOneOf({"import"})') <= remembered'
      BY <1>0, <3>1, <3>4, <3>5 DEF Tallied
    <3>7. remembered' \in Nat /\ runs' \in 0..RunsOfDay /\ imported' \in Nat
      BY <1>0, <2>1, <3>1 DEF Tallied
    <3>. QED  BY <1>0, <2>1, <3>4, <3>5, <3>6, <3>7 DEF Tallied
  <2>. QED  BY <2>2, <2>3
<1>7. ASSUME NEW p \in Runners, R!ImportArtifacts(p) PROVE Tallied'
  <2>1. /\ imported' = imported + 1 /\ run[p].pc = "import" /\ UNCHANGED <<runs, remembered, mounted>>
        /\ R!Goes(p, IF routine.commit THEN "commit" ELSE "render")
    BY <1>7 DEF R!ImportArtifacts, R!given
  <2>2. PICK pc \in {"commit", "render"} : R!Goes(p, pc)
    BY <2>1
  <2>3. run'[p].pc \in {"commit", "render"} /\ \A q \in Runners \ {p} : run'[q] = run[q]
    BY <2>2, RunGoes DEF RunInv, Pcs
  <2>4. run'[p].pc \notin Early
    BY <2>3 DEF Early
  <2>5. /\ IsFiniteSet(AtOneOf(Early)') /\ Cardinality(AtOneOf(Early)') \in Nat /\ Cardinality(AtOneOf(Early)) \in Nat
        /\ Cardinality(AtOneOf(Early)') <= Cardinality(AtOneOf(Early))
    BY <2>3, <2>4, PlacesMove DEF Tallied
  <2>6. /\ IsFiniteSet(AtOneOf({"import"})') /\ Cardinality(AtOneOf({"import"})') \in Nat
        /\ Cardinality(AtOneOf({"import"})) \in Nat
        /\ Cardinality(AtOneOf({"import"})') = Cardinality(AtOneOf({"import"})) - 1
    BY <2>1, <2>3, PlacesMove DEF Tallied
  <2>7. remembered + Cardinality(AtOneOf(Early)') <= runs /\ imported' + Cardinality(AtOneOf({"import"})') <= remembered
    BY <1>0, <2>1, <2>5, <2>6 DEF Tallied
  <2>8. imported' \in Nat
    BY <1>0, <2>1
  <2>. QED  BY <1>0, <2>1, <2>5, <2>6, <2>7, <2>8 DEF Tallied
<1>8. CASE R!Change \/ UNCHANGED R!vars
  <2>1. UNCHANGED <<run, runs, remembered, imported, mounted>>
    BY <1>8 DEF R!Change, R!outputs, R!vars
  <2>. QED  BY <2>1 DEF Tallied, AtOneOf
<1>. QED  BY <1>3, <1>4, <1>5, <1>6, <1>7, <1>8 DEF R!Next

LEMMA RunIsTyped == ASSUME RunInv, Tallied PROVE R!TypeOK
<1>1. Cardinality(AtOneOf(Early)) \in Nat /\ Cardinality(AtOneOf({"import"})) \in Nat
  BY FS_CardinalityType DEF Tallied
<1>2. remembered \in 0..RunsOfDay /\ imported \in 0..remembered
  BY <1>1, RunAssumption DEF Tallied
<1>3. \A p \in Runners : run[p].pc \in Pcs /\ run[p].input \in {0} \cup Inputs
  BY DEF RunInv, Running, RunStates
<1>. QED  BY <1>2, <1>3 DEF RunInv, Running, Tallied, Pcs, R!None, R!TypeOK

LEMMA RunMoves == ASSUME [RoutineNext]_routineVars PROVE [R!Next]_(R!vars)
BY DEF RoutineNext, routineVars, runVars, R!vars

LEMMA RunHolds == RoutineSpec => []RunInv
<1>1. RoutineInit => RunInv
  BY RunStarts DEF RoutineInit
<1>2. RunInv /\ [RoutineNext]_routineVars => RunInv'
  BY RunMoves, RunKeeps
<1>. QED  BY <1>1, <1>2, PTL DEF RoutineSpec

\* worker.go, "skip when nothing changed since the last success": what is skipped was
\* rendered.  For any number of runners, inputs, changes, failures and deaths.
THEOREM SkippedIsShownHolds == RoutineSpec => SkippedIsShown
<1>1. ASSUME RunInv, [RoutineNext]_routineVars
      PROVE  [\A p \in Runners :
                 run'[p].outcome = "skipped" =>
                    run[p].outcome = "skipped" \/ note = run[p].input \/ disturbed]_(R!vars)
  <2>1. ASSUME NEW p \in Runners, run'[p].outcome = "skipped", run[p].outcome # "skipped"
        PROVE  note = run[p].input \/ disturbed
    BY <1>1, <2>1, RunMoves, RunSkips
  <2>. QED  BY <2>1
<1>. QED  BY <1>1, RunHolds, PTL DEF RoutineSpec, SkippedIsShown, R!SkippedIsShown

-----------------------------------------------------------------------------
(* What rows of the ledger add up to.                                       *)

LEMMA Smallest == ASSUME NEW T \in SUBSET Nat, T # {} PROVE \E m \in T : \A n \in T : m <= n
<1>1. IsWellFoundedOn(OpToRel(<, Nat), Nat)
  BY NatLessThanWellFounded
<1>2. PICK x \in T : \A y \in T : ~ (<<y, x>> \in OpToRel(<, Nat))
  BY <1>1, WFMin
<1>3. \A y \in T : ~ (y < x)
  BY <1>2 DEF OpToRel
<1>. QED  BY <1>3

\* Induction over the naturals, for a set.
LEMMA AllNaturals ==
    ASSUME NEW N \in SUBSET Nat, 0 \in N, \A n \in N : n + 1 \in N
    PROVE  N = Nat
<1>. SUFFICES ASSUME Nat \ N # {} PROVE FALSE
  OBVIOUS
<1>1. PICK m \in Nat \ N : \A n \in Nat \ N : m <= n
  BY Smallest
<1>2. m # 0 /\ m - 1 \in Nat /\ m - 1 \notin Nat \ N
  BY <1>1
<1>. QED  BY <1>1, <1>2

\* What a set of runs has cost, as the fold adds it up: one after the other.
Total(S) == L!Sum(S, LAMBDA r : r.cost)
Pick(s) == CHOOSE x \in s : TRUE
Added(f, s) == IF s = {} THEN 0 ELSE Pick(s).cost + f[s \ {Pick(s)}]
Adds(f, S) == f = [s \in SUBSET S |-> Added(f, s)]

LEMMA TotalIs == ASSUME NEW S PROVE Total(S) = (CHOOSE f : Adds(f, S))[S]
  BY DEF Total, Adds, Added, Pick, L!Sum, L!MapThenSumSet, L!MapThenFoldSet

LEMMA PickIn == ASSUME NEW s, s # {} PROVE Pick(s) \in s
  BY DEF Pick

LEMMA SmallerByOne ==
    ASSUME NEW s, IsFiniteSet(s), NEW x \in s, NEW n \in Nat, Cardinality(s) <= n + 1
    PROVE  IsFiniteSet(s \ {x}) /\ Cardinality(s \ {x}) <= n /\ Cardinality(s) \in Nat
<1>1. IsFiniteSet(s \ {x}) /\ Cardinality(s \ {x}) = Cardinality(s) - 1
  BY FS_RemoveElement
<1>2. Cardinality(s) \in Nat
  BY FS_CardinalityType
<1>. QED  BY <1>1, <1>2

LEMMA NoneLeft == ASSUME NEW s, IsFiniteSet(s), Cardinality(s) <= 0 PROVE s = {}
  BY FS_EmptySet, FS_CardinalityType

\* There is a function that adds up: for sets of up to n elements, one after the other.
LEMMA SomeAdds == ASSUME NEW S, IsFiniteSet(S) PROVE \E f : Adds(f, S)
<1>. DEFINE D(n) == {s \in SUBSET S : Cardinality(s) <= n}
            N == {n \in Nat : \E f : f = [s \in D(n) |-> Added(f, s)]}
<1>0. \A s \in SUBSET S : IsFiniteSet(s) /\ Cardinality(s) \in Nat /\ Cardinality(s) <= Cardinality(S)
  BY FS_Subset, FS_CardinalityType
<1>1. 0 \in N
  <2>1. \A s \in D(0) : s = {}
    BY <1>0, NoneLeft
  <2>. DEFINE f == [s \in D(0) |-> 0]
  <2>2. f = [s \in D(0) |-> Added(f, s)]
    BY <2>1 DEF Added
  <2>. QED  BY <2>2
<1>2. ASSUME NEW n \in N PROVE n + 1 \in N
  <2>1. PICK f : f = [s \in D(n) |-> Added(f, s)]
    OBVIOUS
  <2>. DEFINE g == [s \in D(n + 1) |-> Added(f, s)]
  <2>2. n \in Nat /\ n + 1 \in Nat
    OBVIOUS
  <2>3. \A s \in D(n) : s \in D(n + 1) /\ f[s] = Added(f, s)
    BY <1>0, <2>1, <2>2
  <2>4. \A s \in D(n) : g[s] = f[s]
    BY <2>3
  <2>5. ASSUME NEW s \in D(n + 1), s # {} PROVE s \ {Pick(s)} \in D(n)
    BY <1>0, <2>2, <2>5, PickIn, SmallerByOne
  <2>. HIDE DEF D
  <2>6. \A s \in D(n + 1) : Added(f, s) = Added(g, s)
    <3>. HIDE DEF g
    <3>. QED  BY <2>4, <2>5 DEF Added
  <2>7. g = [s \in D(n + 1) |-> Added(g, s)]
    <3>1. g = [s \in D(n + 1) |-> Added(f, s)]
      OBVIOUS
    <3>. HIDE DEF g
    <3>. QED  BY <2>6, <3>1
  <2>. QED  BY <2>2, <2>7
<1>3. N = Nat
  <2>1. N \in SUBSET Nat
    OBVIOUS
  <2>. HIDE DEF N
  <2>. QED  BY <1>1, <1>2, <2>1, AllNaturals
<1>4. Cardinality(S) \in Nat
  BY FS_CardinalityType
<1>5. PICK f : f = [s \in D(Cardinality(S)) |-> Added(f, s)]
  <2>1. Cardinality(S) \in N
    BY <1>3, <1>4
  <2>. QED  BY <2>1
<1>6. D(Cardinality(S)) = SUBSET S
  BY <1>0
<1>. QED  BY <1>5, <1>6 DEF Adds

\* Any two such functions agree where they are both defined.
LEMMA AddsAgree ==
    ASSUME NEW S, IsFiniteSet(S), NEW T \in SUBSET S, NEW f, NEW g, Adds(f, S), Adds(g, T)
    PROVE  f[T] = g[T]
<1>. DEFINE N == {n \in Nat : \A s \in SUBSET T : Cardinality(s) <= n => f[s] = g[s]}
<1>0. IsFiniteSet(T) /\ \A s \in SUBSET T : IsFiniteSet(s)
  BY FS_Subset
<1>1. \A s \in SUBSET T : f[s] = Added(f, s) /\ g[s] = Added(g, s)
  BY DEF Adds
<1>2. 0 \in N
  <2>1. ASSUME NEW s \in SUBSET T, Cardinality(s) <= 0 PROVE f[s] = g[s]
    BY <1>0, <1>1, <2>1, NoneLeft DEF Added
  <2>. QED  BY <2>1
<1>3. ASSUME NEW n \in N PROVE n + 1 \in N
  <2>1. ASSUME NEW s \in SUBSET T, Cardinality(s) <= n + 1, s # {} PROVE f[s] = g[s]
    <3>1. s \ {Pick(s)} \in SUBSET T /\ Cardinality(s \ {Pick(s)}) <= n
      BY <1>0, <2>1, PickIn, SmallerByOne
    <3>2. f[s \ {Pick(s)}] = g[s \ {Pick(s)}]
      BY <3>1
    <3>. QED  BY <1>1, <3>2 DEF Added
  <2>2. ASSUME NEW s \in SUBSET T, s = {} PROVE f[s] = g[s]
    BY <1>1, <2>2 DEF Added
  <2>. QED  BY <2>1, <2>2
<1>4. N = Nat
  <2>1. N \in SUBSET Nat
    OBVIOUS
  <2>. HIDE DEF N
  <2>. QED  BY <1>2, <1>3, <2>1, AllNaturals
<1>5. Cardinality(T) \in N
  BY <1>0, <1>4, FS_CardinalityType
<1>6. Cardinality(T) <= Cardinality(T)
  BY <1>0, FS_CardinalityType
<1>. QED  BY <1>5, <1>6

LEMMA TotalOfNone == Total({}) = 0
<1>1. PICK f : Adds(f, {})
  BY SomeAdds, FS_EmptySet
<1>2. Adds((CHOOSE h : Adds(h, {})), {})
  BY <1>1
<1>. QED  BY <1>2, TotalIs DEF Adds, Added

LEMMA TotalOfPicked ==
    ASSUME NEW S, IsFiniteSet(S), S # {}
    PROVE  Total(S) = Pick(S).cost + Total(S \ {Pick(S)})
<1>. DEFINE T == S \ {Pick(S)}
<1>1. IsFiniteSet(T) /\ T \in SUBSET S
  BY FS_Subset
<1>2. PICK f : f = (CHOOSE h : Adds(h, S)) /\ Adds(f, S)
  BY SomeAdds
<1>3. PICK g : g = (CHOOSE h : Adds(h, T)) /\ Adds(g, T)
  BY <1>1, SomeAdds
<1>4. f[T] = g[T]
  BY <1>1, <1>2, <1>3, AddsAgree
<1>5. f[S] = Pick(S).cost + f[T]
  BY <1>2 DEF Adds, Added
<1>. QED  BY <1>2, <1>3, <1>4, <1>5, TotalIs

Priced(S) == IsFiniteSet(S) /\ \A r \in S : r.cost \in Nat

LEMMA TotalIsNumber == ASSUME NEW U, Priced(U) PROVE \A S \in SUBSET U : Total(S) \in Nat
<1>. DEFINE N == {n \in Nat : \A s \in SUBSET U : Cardinality(s) <= n => Total(s) \in Nat}
<1>0. \A s \in SUBSET U : IsFiniteSet(s)
  BY FS_Subset DEF Priced
<1>1. 0 \in N
  <2>1. ASSUME NEW s \in SUBSET U, Cardinality(s) <= 0 PROVE Total(s) \in Nat
    <3>1. s = {}
      BY <1>0, <2>1, NoneLeft
    <3>. QED  BY <3>1, TotalOfNone
  <2>. QED  BY <2>1
<1>2. ASSUME NEW n \in N PROVE n + 1 \in N
  <2>1. ASSUME NEW s \in SUBSET U, Cardinality(s) <= n + 1, s # {} PROVE Total(s) \in Nat
    <3>1. s \ {Pick(s)} \in SUBSET U /\ Cardinality(s \ {Pick(s)}) <= n
      BY <1>0, <2>1, PickIn, SmallerByOne
    <3>2. Total(s \ {Pick(s)}) \in Nat /\ Pick(s).cost \in Nat
      BY <2>1, <3>1, PickIn DEF Priced
    <3>3. Total(s) = Pick(s).cost + Total(s \ {Pick(s)})
      BY <1>0, <2>1, TotalOfPicked
    <3>. QED  BY <3>2, <3>3
  <2>2. ASSUME NEW s \in SUBSET U, s = {} PROVE Total(s) \in Nat
    BY <2>2, TotalOfNone
  <2>. QED  BY <2>1, <2>2
<1>3. N = Nat
  <2>1. N \in SUBSET Nat
    OBVIOUS
  <2>. HIDE DEF N
  <2>. QED  BY <1>1, <1>2, <2>1, AllNaturals
<1>4. ASSUME NEW S \in SUBSET U PROVE Total(S) \in Nat
  <2>1. Cardinality(S) \in N /\ Cardinality(S) <= Cardinality(S)
    BY <1>0, <1>3, FS_CardinalityType
  <2>. QED  BY <2>1
<1>. QED  BY <1>4

\* The order does not matter: any of the set may be added last.
LEMMA TotalOfAny ==
    ASSUME NEW U, Priced(U)
    PROVE  \A S \in SUBSET U : \A x \in S : Total(S) = x.cost + Total(S \ {x})
<1>. DEFINE N == {n \in Nat : \A s \in SUBSET U : Cardinality(s) <= n =>
                                 \A x \in s : Total(s) = x.cost + Total(s \ {x})}
<1>0. \A s \in SUBSET U : IsFiniteSet(s)
  BY FS_Subset DEF Priced
<1>1. 0 \in N
  <2>1. ASSUME NEW s \in SUBSET U, Cardinality(s) <= 0 PROVE s = {}
    BY <1>0, <2>1, NoneLeft
  <2>. QED  BY <2>1
<1>2. ASSUME NEW n \in N PROVE n + 1 \in N
  <2>1. ASSUME NEW s \in SUBSET U, Cardinality(s) <= n + 1, NEW x \in s
        PROVE  Total(s) = x.cost + Total(s \ {x})
    <3>. DEFINE y == Pick(s)
    <3>1. y \in s /\ Total(s) = y.cost + Total(s \ {y})
      BY <1>0, PickIn, TotalOfPicked
    <3>. HIDE DEF y
    <3>2. CASE x = y
      BY <3>1, <3>2
    <3>3. CASE x # y
      <4>1. /\ s \ {y} \in SUBSET U /\ Cardinality(s \ {y}) <= n /\ x \in s \ {y}
            /\ s \ {x} \in SUBSET U /\ Cardinality(s \ {x}) <= n /\ y \in s \ {x}
        BY <1>0, <2>1, <3>1, <3>3, SmallerByOne
      <4>2. Total(s \ {y}) = x.cost + Total((s \ {y}) \ {x})
        BY <4>1
      <4>3. Total(s \ {x}) = y.cost + Total((s \ {x}) \ {y})
        BY <4>1
      <4>4. (s \ {y}) \ {x} = (s \ {x}) \ {y} /\ (s \ {y}) \ {x} \in SUBSET U
        OBVIOUS
      <4>5. Total((s \ {y}) \ {x}) \in Nat /\ x.cost \in Nat /\ y.cost \in Nat
        BY <3>1, <4>4, TotalIsNumber DEF Priced
      <4>. QED  BY <3>1, <4>2, <4>3, <4>4, <4>5
    <3>. QED  BY <3>2, <3>3
  <2>. QED  BY <2>1
<1>3. N = Nat
  <2>1. N \in SUBSET Nat
    OBVIOUS
  <2>. HIDE DEF N
  <2>. QED  BY <1>1, <1>2, <2>1, AllNaturals
<1>4. ASSUME NEW S \in SUBSET U, NEW x \in S PROVE Total(S) = x.cost + Total(S \ {x})
  <2>1. Cardinality(S) \in N /\ Cardinality(S) <= Cardinality(S)
    BY <1>0, <1>3, FS_CardinalityType
  <2>. QED  BY <2>1
<1>. QED  BY <1>4

\* More runs cost no less.
LEMMA TotalGrows ==
    ASSUME NEW U, Priced(U)
    PROVE  \A S \in SUBSET U : Total(S) <= Total(U)
<1>. DEFINE N == {n \in Nat : \A W \in SUBSET U : Cardinality(W) <= n =>
                                 \A S \in SUBSET W : Total(S) <= Total(W)}
<1>0. \A s \in SUBSET U : IsFiniteSet(s) /\ Total(s) \in Nat
  BY FS_Subset, TotalIsNumber DEF Priced
<1>1. 0 \in N
  <2>1. ASSUME NEW W \in SUBSET U, Cardinality(W) <= 0, NEW S \in SUBSET W PROVE Total(S) <= Total(W)
    <3>1. W = {} /\ S = {}
      BY <1>0, <2>1, NoneLeft
    <3>. QED  BY <3>1, TotalOfNone
  <2>. QED  BY <2>1
<1>2. ASSUME NEW n \in N PROVE n + 1 \in N
  <2>1. ASSUME NEW W \in SUBSET U, Cardinality(W) <= n + 1, NEW S \in SUBSET W PROVE Total(S) <= Total(W)
    <3>1. CASE S = W
      BY <1>0, <3>1
    <3>2. CASE S # W
      <4>1. PICK x \in W : x \notin S
        BY <3>2
      <4>2. W \ {x} \in SUBSET U /\ Cardinality(W \ {x}) <= n /\ S \in SUBSET (W \ {x})
        BY <1>0, <2>1, <4>1, SmallerByOne
      <4>3. Total(S) <= Total(W \ {x})
        BY <4>2
      <4>4. Total(W) = x.cost + Total(W \ {x}) /\ x.cost \in Nat
        BY TotalOfAny DEF Priced
      <4>5. Total(S) \in Nat /\ Total(W \ {x}) \in Nat
        BY <1>0, <4>2
      <4>. QED  BY <4>3, <4>4, <4>5
    <3>. QED  BY <3>1, <3>2
  <2>. QED  BY <2>1
<1>3. N = Nat
  <2>1. N \in SUBSET Nat
    OBVIOUS
  <2>. HIDE DEF N
  <2>. QED  BY <1>1, <1>2, <2>1, AllNaturals
<1>4. Cardinality(U) \in N /\ Cardinality(U) <= Cardinality(U)
  BY <1>0, <1>3, FS_CardinalityType
<1>. QED  BY <1>4

-----------------------------------------------------------------------------
LEMMA Greatest ==
    ASSUME NEW n \in Nat, NEW T \in SUBSET (0..n), T # {}
    PROVE  \E m \in T : \A y \in T : m >= y
<1>. DEFINE U == {m \in Nat : \E x \in T : m = n - x}
<1>1. U \in SUBSET Nat
  OBVIOUS
<1>2. U # {}
  <2>1. PICK x \in T : TRUE
    OBVIOUS
  <2>2. n - x \in Nat
    OBVIOUS
  <2>. QED  BY <2>1, <2>2
<1>3. PICK u \in U : \A v \in U : u <= v
  <2>. HIDE DEF U
  <2>. QED  BY <1>1, <1>2, Smallest
<1>4. PICK x \in T : u = n - x
  OBVIOUS
<1>5. ASSUME NEW y \in T PROVE x >= y
  <2>1. n - y \in U /\ x \in 0..n /\ y \in 0..n
    OBVIOUS
  <2>2. n - x <= n - y
    BY <1>3, <1>4, <2>1
  <2>. QED  BY <2>1, <2>2
<1>. QED  BY <1>5

-----------------------------------------------------------------------------
(* The ledger.                                                              *)

RowsUpTo(t) == [id : Nat, routine : Costed, started : 0..t, ok : BOOLEAN, cost : 0..MaxCost,
                gated : BOOLEAN, late : BOOLEAN]
Admits == [pc : {"admitted"}, id : Nat, routine : Costed]
AtRun(t) == [pc : {"input", "running"}, id : Nat, routine : Costed, started : 0..t, gated : BOOLEAN,
             fed : SUBSET Nat]

AnyState(t) == {L!Idle} \cup Admits \cup AtRun(t)

Started(p) == process[p] \in AtRun(clock)

Booked ==
    /\ clock \in Nat /\ began \in Nat /\ learned \subseteq Nat
    /\ IsFiniteSet(rows) /\ \A r \in rows : r \in RowsUpTo(clock)
    /\ process \in [L!Processes -> AnyState(clock)]
    /\ Started("serve") => process["serve"].gated = TRUE
    /\ Started("hand") => process["hand"].gated = FALSE
    /\ process["hand"] \notin Admits
    /\ \A p \in L!Processes : process[p].pc = "input" => process[p].routine = Learner

\* What a learning run knows, once it has been fed.
Known(p) == learned \cup process[p].fed

Taught ==
    /\ \A q, r \in rows :
          q.routine = Learner /\ q.ok /\ r.routine # Learner /\ r.started <= q.started =>
             r.id \in learned \/ r.late
    /\ \A p \in L!Processes : \A r \in rows :
          /\ process[p].pc = "running" /\ process[p].routine = Learner
          /\ r.routine # Learner /\ r.started <= process[p].started
          => r.id \in Known(p) \/ r.late

Weighed(kind) == kind \notin Scripts \cup {Ask}

\* The runs that count towards a cap and went through its gate.
GatedOn(d, scope) ==
    {r \in rows : r.gated /\ r.routine \notin Scripts \cup {Ask} /\ L!Day(r.started) = d
                  /\ scope \in L!Scopes(r.routine)}

Under(d, scope) == Total(GatedOn(d, scope)) < Block[scope]

\* A day is over its cap by less than one run; and it is under it when the gate lets
\* a run through, on any day from then on, until the run is over.
Capped ==
    /\ \A scope \in DOMAIN Block : \A d \in Nat : Total(GatedOn(d, scope)) < Block[scope] + MaxCost
    /\ process["serve"] \in Admits /\ Weighed(process["serve"].routine) =>
         \A scope \in L!Scopes(process["serve"].routine) \cap DOMAIN Block :
           \A d \in Nat : L!Day(clock) <= d => Under(d, scope)
    /\ Started("serve") /\ Weighed(process["serve"].routine) =>
         \A scope \in L!Scopes(process["serve"].routine) \cap DOMAIN Block :
           Under(L!Day(process["serve"].started), scope)

LedInv == Booked /\ Taught /\ Capped

\* Later days do not have smaller numbers.
LEMMA DaysGoOn ==
    ASSUME NEW s \in Nat, NEW t \in Nat, s <= t
    PROVE  L!Day(s) \in Nat /\ L!Day(t) \in Nat /\ L!Day(s) <= L!Day(t)
  BY LedgerAssumption DEF L!Day

LEMMA RowsArePriced == ASSUME Booked PROVE Priced(rows) /\ \A S \in SUBSET rows : Priced(S)
<1>1. \A r \in rows : r.cost \in Nat
  BY LedgerAssumption DEF Booked, RowsUpTo
<1>. QED  BY <1>1, FS_Subset DEF Booked, Priced

LEMMA LedStarts == ASSUME L!Init PROVE LedInv
<1>1. /\ rows = {} /\ process = [p \in L!Processes |-> L!Idle] /\ clock = 0 /\ began = 0 /\ learned = {}
  BY DEF L!Init
<1>2. L!Idle.pc = "idle" /\ L!Idle \notin Admits /\ L!Idle \notin AtRun(clock)
  BY DEF L!Idle, Admits, AtRun
<1>3. Booked
  BY <1>1, <1>2, FS_EmptySet DEF Booked, Started, L!Processes, AnyState
<1>4. Taught
  BY <1>1, <1>2 DEF Taught, L!Processes
<1>5. \A d, scope : GatedOn(d, scope) = {}
  BY <1>1 DEF GatedOn
<1>6. Capped
  <2>1. process["serve"] \notin Admits /\ ~Started("serve")
    BY <1>1, <1>2 DEF L!Processes, Started
  <2>2. ASSUME NEW scope \in DOMAIN Block PROVE 0 < Block[scope] + MaxCost
    BY LedgerAssumption
  <2>3. \A d, scope : Total(GatedOn(d, scope)) = 0
    BY <1>5, TotalOfNone
  <2>. QED  BY <2>1, <2>2, <2>3 DEF Capped
<1>. QED  BY <1>3, <1>4, <1>6 DEF LedInv

LEMMA StatesApart ==
    ASSUME NEW t
    PROVE  /\ L!Idle.pc = "idle" /\ L!Idle \notin Admits /\ L!Idle \notin AtRun(t)
           /\ \A s \in Admits : s.pc = "admitted" /\ s \notin AtRun(t)
           /\ \A s \in AtRun(t) : s.pc \in {"input", "running"}
  BY DEF L!Idle, Admits, AtRun

LEMMA ProcessSet ==
    ASSUME Booked, NEW p \in L!Processes, NEW x \in AnyState(clock), process' = [process EXCEPT ![p] = x]
    PROVE  /\ process' \in [L!Processes -> AnyState(clock)] /\ process'[p] = x
           /\ \A o \in L!Processes \ {p} : process'[o] = process[o]
  BY DEF Booked

\* A step that records nothing: what a day has cost is what it was.
LEMMA SameRows ==
    ASSUME rows' = rows
    PROVE  \A d, scope : GatedOn(d, scope)' = GatedOn(d, scope)
  BY DEF GatedOn

LEMMA CapHolds ==
    ASSUME LedInv, rows' = rows
    PROVE  \A scope \in DOMAIN Block : \A d \in Nat : Total(GatedOn(d, scope)') < Block[scope] + MaxCost
  BY SameRows DEF LedInv, Capped

\* No run of a later day is on record.
LEMMA LaterIsEmpty ==
    ASSUME Booked, NEW d \in Nat, L!Day(clock) < d, NEW scope
    PROVE  GatedOn(d, scope) = {}
<1>1. ASSUME NEW r \in rows PROVE L!Day(r.started) # d
  <2>1. r.started \in Nat /\ r.started <= clock /\ clock \in Nat
    BY DEF Booked, RowsUpTo
  <2>2. L!Day(r.started) \in Nat /\ L!Day(clock) \in Nat /\ L!Day(r.started) <= L!Day(clock)
    BY <2>1, DaysGoOn
  <2>. QED  BY <2>2
<1>. QED  BY <1>1 DEF GatedOn

LEMMA GateLooks ==
    ASSUME LedInv, NEW kind \in Costed, Weighed(kind), L!Gate(kind), NEW scope \in L!Scopes(kind) \cap DOMAIN Block,
           NEW d \in Nat, L!Day(clock) <= d
    PROVE  Under(d, scope)
<1>1. clock \in Nat /\ L!Day(clock) \in Nat
  BY DaysGoOn DEF LedInv, Booked
<1>2. CASE d = L!Day(clock)
  <2>. DEFINE S == {r \in rows : L!Day(r.started) = d /\ scope \in L!Scopes(r.routine)}
  <2>1. L!Spent(d, scope) = Total(S)
    BY DEF L!Spent, Total, L!Sum, L!MapThenSumSet, L!MapThenFoldSet
  <2>2. ~(L!Spent(d, scope) >= Block[scope])
    BY <1>2 DEF L!Gate, L!Blocked, Weighed
  <2>3. S \in SUBSET rows /\ GatedOn(d, scope) \in SUBSET S
    BY DEF GatedOn
  <2>. HIDE DEF S
  <2>4. Priced(S) /\ Priced(rows)
    BY <2>3, RowsArePriced DEF LedInv
  <2>5. Total(GatedOn(d, scope)) <= Total(S)
    BY <2>3, <2>4, TotalGrows
  <2>6. Total(S) \in Nat /\ Total(GatedOn(d, scope)) \in Nat
    BY <2>3, <2>4, TotalIsNumber
  <2>7. Block[scope] \in Nat
    BY LedgerAssumption
  <2>. QED  BY <2>1, <2>2, <2>5, <2>6, <2>7 DEF Under
<1>3. CASE d # L!Day(clock)
  <2>1. GatedOn(d, scope) = {}
    BY <1>1, <1>3, LaterIsEmpty DEF LedInv
  <2>. QED  BY <2>1, TotalOfNone, LedgerAssumption DEF Under
<1>. QED  BY <1>2, <1>3

LEMMA AdmitKeeps == ASSUME LedInv, NEW kind \in Costed, L!Admit(kind) PROVE LedInv'
<1>. DEFINE x == [pc |-> "admitted", id |-> began + 1, routine |-> kind]
<1>1. /\ process["serve"] = L!Idle /\ L!Gate(kind) /\ process' = [process EXCEPT !["serve"] = x]
      /\ began' = began + 1 /\ UNCHANGED <<rows, clock, learned>>
  BY DEF L!Admit
<1>2. x \in Admits /\ x \in AnyState(clock) /\ x.pc = "admitted" /\ x.routine = kind
  BY DEF Admits, AnyState, LedInv, Booked
<1>. HIDE DEF x
<1>3. /\ process' \in [L!Processes -> AnyState(clock)] /\ process'["serve"] = x
      /\ process'["hand"] = process["hand"]
  BY <1>1, <1>2, ProcessSet DEF LedInv, L!Processes
<1>4. x \notin AtRun(clock)
  BY <1>2, StatesApart
<1>5. Booked'
  BY <1>1, <1>2, <1>3, <1>4 DEF LedInv, Booked, Started, L!Processes
<1>6. Taught'
  BY <1>1, <1>2, <1>3 DEF LedInv, Taught, Known, L!Processes
<1>7. Capped'
  <2>1. \A scope \in L!Scopes(kind) \cap DOMAIN Block : \A d \in Nat :
           Weighed(kind) /\ L!Day(clock) <= d => Under(d, scope)
    BY <1>1, GateLooks
  <2>2. \A d, scope : GatedOn(d, scope)' = GatedOn(d, scope)
    BY <1>1, SameRows
  <2>3. \A scope \in L!Scopes(kind) \cap DOMAIN Block : \A d \in Nat :
           Weighed(kind) /\ L!Day(clock) <= d => Total(GatedOn(d, scope)') < Block[scope]
    BY <2>1, <2>2 DEF Under
  <2>. QED  BY <1>1, <1>2, <1>3, <1>4, <2>3, CapHolds DEF Capped, Under, Started
<1>. QED  BY <1>5, <1>6, <1>7 DEF LedInv

LEMMA StartAdmittedKeeps == ASSUME LedInv, L!StartAdmitted PROVE LedInv'
<1>. DEFINE was == process["serve"]
            x == [pc |-> IF was.routine = Learner THEN "input" ELSE "running", id |-> was.id,
                  routine |-> was.routine, started |-> clock, gated |-> "serve" = "serve", fed |-> {}]
<1>1. /\ was.pc = "admitted" /\ process' = [process EXCEPT !["serve"] = x]
      /\ UNCHANGED <<rows, clock, began, learned>>
  BY DEF L!StartAdmitted, L!Started, LedInv, Booked, L!Processes
<1>2. was \in Admits /\ clock \in Nat
  <2>1. was \in AnyState(clock)
    BY DEF LedInv, Booked, L!Processes
  <2>. QED  BY <1>1, <2>1, StatesApart DEF AnyState, LedInv, Booked
<1>3. /\ x \in AtRun(clock) /\ x.gated = TRUE /\ x.started = clock /\ x.routine = was.routine
      /\ x.pc \in {"input", "running"} /\ (x.pc = "input" <=> x.routine = Learner)
  <2>1. was.id \in Nat /\ was.routine \in Costed /\ clock \in 0..clock /\ {} \in SUBSET Nat
    BY <1>2 DEF Admits
  <2>2. x.gated = TRUE /\ x.gated \in BOOLEAN
    BY Zenon
  <2>3. x.pc \in {"input", "running"} /\ (x.pc = "input" <=> x.routine = Learner)
    OBVIOUS
  <2>. QED  BY <2>1, <2>2, <2>3 DEF AtRun
<1>. HIDE DEF x
<1>4. x \in AnyState(clock)
  BY <1>3 DEF AnyState
<1>5. /\ process' \in [L!Processes -> AnyState(clock)] /\ process'["serve"] = x
      /\ process'["hand"] = process["hand"]
  BY <1>1, <1>4, ProcessSet DEF LedInv, L!Processes
<1>6. Booked'
  BY <1>1, <1>3, <1>5 DEF LedInv, Booked, Started, L!Processes
<1>7. Taught'
  BY <1>1, <1>3, <1>5 DEF LedInv, Taught, Known, L!Processes
<1>8. Capped'
  <2>1. \A d, scope : GatedOn(d, scope)' = GatedOn(d, scope)
    BY <1>1, SameRows
  <2>2. x \notin Admits
    BY <1>3, StatesApart
  <2>3. Weighed(x.routine) => \A scope \in L!Scopes(x.routine) \cap DOMAIN Block :
                                 Total(GatedOn(L!Day(clock), scope)') < Block[scope]
    <3>1. L!Day(clock) \in Nat /\ L!Day(clock) <= L!Day(clock)
      BY <1>2, DaysGoOn
    <3>. QED  BY <1>1, <1>2, <1>3, <2>1, <3>1 DEF LedInv, Capped, Under
  <2>. QED  BY <1>1, <1>3, <1>5, <2>2, <2>3, CapHolds DEF Capped, Under, Started
<1>. QED  BY <1>6, <1>7, <1>8 DEF LedInv

LEMMA StartByHandKeeps == ASSUME LedInv, NEW kind \in Costed, L!StartByHand(kind) PROVE LedInv'
<1>. DEFINE x == [pc |-> IF kind = Learner THEN "input" ELSE "running", id |-> began + 1,
                  routine |-> kind, started |-> clock, gated |-> "hand" = "serve", fed |-> {}]
<1>1. /\ process' = [process EXCEPT !["hand"] = x] /\ began' = began + 1
      /\ UNCHANGED <<rows, clock, learned>>
  BY DEF L!StartByHand, L!Started
<1>2. /\ x \in AtRun(clock) /\ x.gated = FALSE /\ x.pc \in {"input", "running"}
      /\ (x.pc = "input" <=> x.routine = Learner)
  <2>1. began + 1 \in Nat /\ clock \in 0..clock /\ {} \in SUBSET Nat
    BY DEF LedInv, Booked
  <2>2. x.gated = FALSE /\ x.gated \in BOOLEAN
    <3>1. ("hand" = "serve") = FALSE
      OBVIOUS
    <3>. QED  BY <3>1, Zenon
  <2>3. x.pc \in {"input", "running"} /\ (x.pc = "input" <=> x.routine = Learner)
    OBVIOUS
  <2>. QED  BY <2>1, <2>2, <2>3 DEF AtRun
<1>. HIDE DEF x
<1>3. x \in AnyState(clock) /\ x \notin Admits
  BY <1>2, StatesApart DEF AnyState
<1>4. /\ process' \in [L!Processes -> AnyState(clock)] /\ process'["hand"] = x
      /\ process'["serve"] = process["serve"]
  BY <1>1, <1>3, ProcessSet DEF LedInv, L!Processes
<1>5. Booked'
  BY <1>1, <1>2, <1>3, <1>4 DEF LedInv, Booked, Started, L!Processes
<1>6. Taught'
  BY <1>1, <1>2, <1>4 DEF LedInv, Taught, Known, L!Processes
<1>7. Capped'
  <2>1. \A d, scope : GatedOn(d, scope)' = GatedOn(d, scope)
    BY <1>1, SameRows
  <2>. QED  BY <1>1, <1>4, <2>1 DEF LedInv, Capped, Under, Started
<1>. QED  BY <1>5, <1>6, <1>7 DEF LedInv

\* The bookmark is a time of a learning run that succeeded, plus one.
LEMMA BookmarkIsRuns ==
    ASSUME Booked, NEW t \in Nat, t < L!Since
    PROVE  \E q \in rows : q.routine = Learner /\ q.ok /\ t <= q.started
<1>. DEFINE T == {0} \cup {r.started + 1 : r \in {q \in rows : q.routine = Learner /\ q.ok}}
<1>1. clock + 1 \in Nat /\ \A r \in rows : r.started + 1 \in 0..(clock + 1) /\ r.started \in Nat
  BY DEF Booked, RowsUpTo
<1>2. T \in SUBSET (0..(clock + 1)) /\ T # {}
  BY <1>1
<1>3. L!Since = L!Max(T)
  BY DEF L!Since
<1>. HIDE DEF T
<1>4. PICK m \in T : \A y \in T : m >= y
  BY <1>1, <1>2, Greatest
<1>5. L!Max(T) \in T
  BY <1>4 DEF L!Max
<1>6. L!Since # 0
  <2>. HIDE DEF L!Since
  <2>. QED  OBVIOUS
<1>7. PICK q \in rows : q.routine = Learner /\ q.ok /\ L!Since = q.started + 1
  BY <1>3, <1>5, <1>6 DEF T
<1>8. t <= q.started
  <2>1. q.started \in Nat
    BY <1>1
  <2>. HIDE DEF L!Since
  <2>. QED  BY <1>7, <2>1
<1>. QED  BY <1>7, <1>8

LEMMA LedTeaches == ASSUME LedInv PROVE L!RunsAreLearnedFrom
<1>1. ASSUME NEW r \in rows, r.routine # Learner, r.started < L!Since PROVE r.id \in learned \/ r.late
  <2>1. r.started \in Nat
    BY DEF LedInv, Booked, RowsUpTo
  <2>2. PICK q \in rows : q.routine = Learner /\ q.ok /\ r.started <= q.started
    BY <1>1, <2>1, BookmarkIsRuns DEF LedInv
  <2>. QED  BY <1>1, <2>2 DEF LedInv, Taught
<1>. QED  BY <1>1 DEF L!RunsAreLearnedFrom

LEMMA InputRunsKeeps == ASSUME LedInv, NEW p \in L!Processes, L!InputRuns(p) PROVE LedInv'
<1>. DEFINE fed == {r.id : r \in {q \in rows : q.routine # Learner /\ q.started >= L!Since}}
            x == [process[p] EXCEPT !.pc = "running", !.fed = fed]
<1>1. /\ process[p].pc = "input" /\ process' = [process EXCEPT ![p] = x]
      /\ UNCHANGED <<rows, clock, began, learned>>
  BY DEF L!InputRuns, LedInv, Booked
<1>2. process[p] \in AtRun(clock)
  <2>1. process[p] \in AnyState(clock)
    BY DEF LedInv, Booked
  <2>. QED  BY <1>1, <2>1, StatesApart DEF AnyState
<1>3. fed \in SUBSET Nat
  BY DEF LedInv, Booked, RowsUpTo
<1>4. \A r \in rows : r.routine # Learner => r.id \in learned \cup fed \/ r.late
  <2>1. ASSUME NEW r \in rows, r.routine # Learner, ~(r.started >= L!Since) PROVE r.id \in learned \/ r.late
    <3>1. L!Since \in Int
      <4>1. \A q \in rows : q.started + 1 \in Nat
        BY DEF LedInv, Booked, RowsUpTo
      <4>2. L!Since \in Nat
        <5>. DEFINE T == {0} \cup {q.started + 1 : q \in {o \in rows : o.routine = Learner /\ o.ok}}
        <5>1. T \in SUBSET (0..(clock + 1)) /\ T # {} /\ clock + 1 \in Nat
          BY DEF LedInv, Booked, RowsUpTo
        <5>2. L!Since = L!Max(T)
          BY DEF L!Since
        <5>. HIDE DEF T
        <5>3. PICK m \in T : \A y \in T : m >= y
          BY <5>1, Greatest
        <5>4. L!Max(T) \in T
          BY <5>3 DEF L!Max
        <5>5. \A n \in T : n \in Nat
          BY <5>1
        <5>. QED  BY <5>2, <5>4, <5>5
      <4>. QED  BY <4>2
    <3>2. r.started \in Int
      BY DEF LedInv, Booked, RowsUpTo
    <3>3. r.started < L!Since
      <4>. HIDE DEF L!Since
      <4>. QED  BY <2>1, <3>1, <3>2
    <3>. QED  BY <2>1, <3>3, LedTeaches DEF L!RunsAreLearnedFrom
  <2>. QED  BY <2>1
<1>. HIDE DEF fed
<1>5. /\ x \in AtRun(clock) /\ x.pc = "running" /\ x.routine = process[p].routine /\ x.fed = fed
      /\ x.started = process[p].started /\ x.gated = process[p].gated
  BY <1>2, <1>3 DEF AtRun
<1>. HIDE DEF x
<1>6. x \in AnyState(clock) /\ x \notin Admits /\ process[p] \notin Admits
  BY <1>2, <1>5, StatesApart DEF AnyState
<1>7. /\ process' \in [L!Processes -> AnyState(clock)] /\ process'[p] = x
      /\ \A o \in L!Processes \ {p} : process'[o] = process[o]
  BY <1>1, <1>6, ProcessSet DEF LedInv
<1>8. Booked'
  BY <1>1, <1>2, <1>5, <1>6, <1>7 DEF LedInv, Booked, Started, L!Processes
<1>9. Taught'
  <2>1. ASSUME NEW o \in L!Processes, NEW r \in rows,
               process'[o].pc = "running", process'[o].routine = Learner,
               r.routine # Learner, r.started <= process'[o].started
        PROVE  r.id \in learned \cup process'[o].fed \/ r.late
    <3>1. CASE o = p
      BY <1>4, <1>5, <1>7, <2>1, <3>1
    <3>2. CASE o # p
      BY <1>7, <2>1, <3>2 DEF LedInv, Taught, Known
    <3>. QED  BY <3>1, <3>2
  <2>. QED  BY <1>1, <2>1 DEF LedInv, Taught, Known
<1>10. Capped'
  <2>1. \A d, scope : GatedOn(d, scope)' = GatedOn(d, scope)
    BY <1>1, SameRows
  <2>. QED  BY <1>1, <1>2, <1>5, <1>6, <1>7, <2>1 DEF LedInv, Capped, Under, Started, L!Processes
<1>. QED  BY <1>8, <1>9, <1>10 DEF LedInv

LEMMA ProcessDiesKeeps == ASSUME LedInv, NEW p \in L!Processes, L!Dies(p) PROVE LedInv'
<1>1. process' = [process EXCEPT ![p] = L!Idle] /\ UNCHANGED <<rows, clock, began, learned>>
  BY DEF L!Dies
<1>2. L!Idle \in AnyState(clock) /\ L!Idle.pc = "idle" /\ L!Idle \notin Admits /\ L!Idle \notin AtRun(clock)
  BY StatesApart DEF AnyState
<1>3. /\ process' \in [L!Processes -> AnyState(clock)] /\ process'[p] = L!Idle
      /\ \A o \in L!Processes \ {p} : process'[o] = process[o]
  BY <1>1, <1>2, ProcessSet DEF LedInv
<1>. HIDE DEF L!Idle
<1>4. Booked'
  BY <1>1, <1>2, <1>3 DEF LedInv, Booked, Started, L!Processes
<1>5. Taught'
  BY <1>1, <1>2, <1>3 DEF LedInv, Taught, Known
<1>6. Capped'
  <2>1. \A d, scope : GatedOn(d, scope)' = GatedOn(d, scope)
    BY <1>1, SameRows
  <2>. QED  BY <1>1, <1>2, <1>3, <2>1 DEF LedInv, Capped, Under, Started, L!Processes
<1>. QED  BY <1>4, <1>5, <1>6 DEF LedInv

LEMMA ClockKeeps == ASSUME LedInv, L!Tick PROVE LedInv'
<1>1. UNCHANGED <<rows, process, began, learned>> /\ clock' = clock + 1 /\ clock \in Nat
  BY DEF L!Tick, LedInv, Booked
<1>2. RowsUpTo(clock) \subseteq RowsUpTo(clock') /\ AtRun(clock) \subseteq AtRun(clock')
  BY <1>1 DEF RowsUpTo, AtRun
<1>3. AnyState(clock) \subseteq AnyState(clock')
  BY <1>2 DEF AnyState
<1>4. \A p \in L!Processes : Started(p)' => Started(p)
  <2>1. ASSUME NEW p \in L!Processes, Started(p)' PROVE Started(p)
    <3>1. process[p] \in AtRun(clock') /\ process[p] \in AnyState(clock)
      BY <1>1, <2>1 DEF Started, LedInv, Booked
    <3>. QED  BY <3>1, StatesApart DEF AnyState, Started
  <2>. QED  BY <2>1
<1>5. Booked'
  <2>1. process' \in [L!Processes -> AnyState(clock')] /\ \A r \in rows' : r \in RowsUpTo(clock')
    BY <1>1, <1>2, <1>3 DEF LedInv, Booked
  <2>. QED  BY <1>1, <1>4, <2>1 DEF LedInv, Booked, L!Processes
<1>6. Taught'
  BY <1>1 DEF LedInv, Taught, Known
<1>7. Capped'
  <2>1. \A d, scope : GatedOn(d, scope)' = GatedOn(d, scope)
    BY <1>1, SameRows
  <2>2. L!Day(clock) \in Nat /\ L!Day(clock') \in Nat /\ L!Day(clock) <= L!Day(clock')
    BY <1>1, DaysGoOn
  <2>3. \A d \in Nat : L!Day(clock') <= d => L!Day(clock) <= d
    BY <2>2
  <2>4. \A scope \in DOMAIN Block : \A d \in Nat : Total(GatedOn(d, scope)') < Block[scope] + MaxCost
    BY <1>1, CapHolds
  <2>5. process'["serve"] \in Admits /\ Weighed(process'["serve"].routine) =>
          \A scope \in L!Scopes(process'["serve"].routine) \cap DOMAIN Block :
            \A d \in Nat : L!Day(clock') <= d => Total(GatedOn(d, scope)') < Block[scope]
    BY <1>1, <2>1, <2>3 DEF LedInv, Capped, Under
  <2>6. Started("serve")' /\ Weighed(process'["serve"].routine) =>
          \A scope \in L!Scopes(process'["serve"].routine) \cap DOMAIN Block :
            Total(GatedOn(L!Day(process["serve"].started), scope)') < Block[scope]
    BY <1>1, <1>4, <2>1 DEF LedInv, Capped, Under, L!Processes
  <2>. QED  BY <2>4, <2>5, <2>6 DEF Capped, Under
<1>. QED  BY <1>5, <1>6, <1>7 DEF LedInv

\* A run more: the days and caps it counts towards grow by its cost, and no others.
LEMMA RowCounts ==
    ASSUME Booked, NEW x, x.cost \in Nat, rows' = rows \cup {x}, NEW d, NEW scope
    PROVE  /\ Total(GatedOn(d, scope)) \in Nat /\ Total(GatedOn(d, scope)') \in Nat
           /\ ~x.gated \/ ~Weighed(x.routine) \/ L!Day(x.started) # d \/ scope \notin L!Scopes(x.routine) =>
                 Total(GatedOn(d, scope)') = Total(GatedOn(d, scope))
           /\ Total(GatedOn(d, scope)') <= Total(GatedOn(d, scope)) + x.cost
<1>1. IsFiniteSet(rows \cup {x}) /\ Priced(rows \cup {x})
  <2>1. IsFiniteSet(rows \cup {x})
    BY FS_AddElement DEF Booked
  <2>. QED  BY <2>1, RowsArePriced DEF Priced
<1>. DEFINE G == GatedOn(d, scope)
            H == GatedOn(d, scope)'
<1>2. /\ G \in SUBSET (rows \cup {x})
      /\ H = G \/ H = G \cup {x}
      /\ ~x.gated \/ ~Weighed(x.routine) \/ L!Day(x.started) # d \/ scope \notin L!Scopes(x.routine) => H = G
  BY DEF GatedOn, Weighed
<1>. HIDE DEF G, H
<1>3. H \in SUBSET (rows \cup {x})
  BY <1>2
<1>4. Total(G) \in Nat /\ Total(H) \in Nat
  BY <1>1, <1>2, <1>3, TotalIsNumber
<1>5. ASSUME H = G \cup {x}, x \notin G PROVE Total(H) = x.cost + Total(G)
  <2>1. x \in H /\ H \ {x} = G
    BY <1>5
  <2>. QED  BY <1>1, <1>3, <2>1, TotalOfAny
<1>6. Total(H) <= Total(G) + x.cost
  <2>1. H = G \/ (H = G \cup {x} /\ x \notin G)
    BY <1>2
  <2>. QED  BY <1>4, <1>5, <2>1
<1>. QED  BY <1>2, <1>4, <1>6 DEF G, H

LEMMA FinishKeeps ==
    ASSUME LedInv, NEW p \in L!Processes, NEW good \in BOOLEAN, NEW cost \in 0..MaxCost, L!Finish(p, good, cost)
    PROVE  LedInv'
<1>. DEFINE was == process[p]
            x == [id |-> was.id, routine |-> was.routine, started |-> was.started, ok |-> good,
                  cost |-> cost, gated |-> was.gated, late |-> L!LearnerSince(was.started)]
<1>1. /\ was.pc = "running" \/ (was.pc = "input" /\ ~good)
      /\ rows' = rows \cup {x} /\ process' = [process EXCEPT ![p] = L!Idle]
      /\ learned' = (IF good THEN learned \cup was.fed ELSE learned) /\ UNCHANGED <<clock, began>>
  BY DEF L!Finish
<1>2. was \in AtRun(clock)
  <2>1. was \in AnyState(clock)
    BY DEF LedInv, Booked
  <2>. QED  BY <1>1, <2>1, StatesApart DEF AnyState
<1>3. /\ was.id \in Nat /\ was.routine \in Costed /\ was.started \in 0..clock /\ was.gated \in BOOLEAN
      /\ was.fed \in SUBSET Nat /\ clock \in Nat /\ MaxCost \in Nat /\ was \notin Admits
  BY <1>2, StatesApart, LedgerAssumption DEF AtRun, LedInv, Booked
<1>4. x \in RowsUpTo(clock)
  <2>1. x.late \in BOOLEAN
    BY Zenon DEF L!LearnerSince
  <2>. QED  BY <1>3, <2>1 DEF RowsUpTo
<1>5. /\ x.id = was.id /\ x.routine = was.routine /\ x.started = was.started /\ x.ok = good /\ x.cost = cost
      /\ x.gated = was.gated /\ x.cost \in Nat /\ x.cost <= MaxCost
      /\ x.late = L!LearnerSince(was.started)
  BY <1>3
<1>. HIDE DEF x, was
<1>6. L!Idle \in AnyState(clock) /\ L!Idle.pc = "idle" /\ L!Idle \notin Admits /\ L!Idle \notin AtRun(clock)
  BY StatesApart DEF AnyState
<1>7. /\ process' \in [L!Processes -> AnyState(clock)] /\ process'[p] = L!Idle
      /\ \A o \in L!Processes \ {p} : process'[o] = process[o]
  BY <1>1, <1>6, ProcessSet DEF LedInv
<1>. HIDE DEF L!Idle
<1>8. Booked'
  <2>1. IsFiniteSet(rows') /\ \A r \in rows' : r \in RowsUpTo(clock)
    <3>1. IsFiniteSet(rows')
      BY <1>1, FS_AddElement DEF LedInv, Booked
    <3>. QED  BY <1>1, <1>4, <3>1 DEF LedInv, Booked
  <2>2. learned' \subseteq Nat
    BY <1>1, <1>3 DEF LedInv, Booked
  <2>. QED  BY <1>1, <1>6, <1>7, <2>1, <2>2 DEF LedInv, Booked, Started, L!Processes
<1>9. Taught'
  <2>1. learned \subseteq learned'
    BY <1>1
  <2>2. ASSUME NEW q \in rows', NEW r \in rows', q.routine = Learner, q.ok, r.routine # Learner,
               r.started <= q.started
        PROVE  r.id \in learned' \/ r.late
    <3>1. CASE q \in rows /\ r \in rows
      BY <2>1, <2>2, <3>1 DEF LedInv, Taught
    <3>2. CASE q \in rows /\ r = x
      <4>1. q.started >= was.started
        BY <1>3, <1>5, <2>2, <3>2 DEF LedInv, Booked, RowsUpTo
      <4>2. L!LearnerSince(was.started)
        BY <2>2, <3>2, <4>1 DEF L!LearnerSince
      <4>. QED  BY <1>5, <3>2, <4>2
    <3>3. CASE q = x /\ r \in rows
      <4>1. good /\ was.pc = "running" /\ was.routine = Learner
        BY <1>1, <1>5, <2>2, <3>3
      <4>2. r.id \in learned \cup was.fed \/ r.late
        BY <1>5, <2>2, <3>3, <4>1 DEF LedInv, Taught, Known, was
      <4>. QED  BY <1>1, <4>1, <4>2
    <3>4. CASE q = x /\ r = x
      BY <2>2, <3>4
    <3>. QED  BY <1>1, <3>1, <3>2, <3>3, <3>4
  <2>3. ASSUME NEW o \in L!Processes, NEW r \in rows', process'[o].pc = "running", process'[o].routine = Learner,
               r.routine # Learner, r.started <= process'[o].started
        PROVE  r.id \in learned' \cup process'[o].fed \/ r.late
    <3>1. o # p /\ process'[o] = process[o]
      BY <1>6, <1>7, <2>3
    <3>2. CASE r \in rows
      BY <2>1, <2>3, <3>1, <3>2 DEF LedInv, Taught, Known
    <3>3. CASE r = x
      <4>1. process[o] \in AtRun(clock)
        <5>1. process[o] \in AnyState(clock)
          BY DEF LedInv, Booked
        <5>. QED  BY <2>3, <3>1, <5>1, StatesApart DEF AnyState
      <4>2. process[o].started >= was.started
        BY <1>3, <1>5, <2>3, <3>1, <3>3, <4>1 DEF AtRun
      <4>3. L!LearnerSince(was.started)
        BY <2>3, <3>1, <4>2 DEF L!LearnerSince
      <4>. QED  BY <1>5, <3>3, <4>3
    <3>. QED  BY <1>1, <3>2, <3>3
  <2>. QED  BY <2>2, <2>3 DEF Taught, Known
<1>10. \A scope \in DOMAIN Block : \A d \in Nat : Total(GatedOn(d, scope)') < Block[scope] + MaxCost
  <2>1. SUFFICES ASSUME NEW scope \in DOMAIN Block, NEW d \in Nat
                 PROVE  Total(GatedOn(d, scope)') < Block[scope] + MaxCost
    OBVIOUS
  <2>2. /\ Total(GatedOn(d, scope)) \in Nat /\ Total(GatedOn(d, scope)') \in Nat
        /\ ~x.gated \/ ~Weighed(x.routine) \/ L!Day(x.started) # d \/ scope \notin L!Scopes(x.routine) =>
              Total(GatedOn(d, scope)') = Total(GatedOn(d, scope))
        /\ Total(GatedOn(d, scope)') <= Total(GatedOn(d, scope)) + x.cost
    BY <1>1, <1>5, RowCounts DEF LedInv
  <2>3. Total(GatedOn(d, scope)) < Block[scope] + MaxCost
    BY DEF LedInv, Capped
  <2>4. CASE ~x.gated \/ ~Weighed(x.routine) \/ L!Day(x.started) # d \/ scope \notin L!Scopes(x.routine)
    BY <2>2, <2>3, <2>4
  <2>5. CASE x.gated /\ Weighed(x.routine) /\ L!Day(x.started) = d /\ scope \in L!Scopes(x.routine)
    <3>1. p = "serve"
      BY <1>2, <1>5, <2>5 DEF LedInv, Booked, Started, L!Processes, was
    <3>2. Under(d, scope)
      BY <1>2, <1>5, <2>5, <3>1 DEF LedInv, Capped, Started, was
    <3>3. Total(GatedOn(d, scope)) < Block[scope] /\ Block[scope] \in Nat
      BY <3>2, LedgerAssumption DEF Under
    <3>. QED  BY <1>3, <1>5, <2>2, <3>3
  <2>. QED  BY <2>4, <2>5
<1>11. p # "serve" => \A d, scope : Total(GatedOn(d, scope)') = Total(GatedOn(d, scope))
  <2>1. ASSUME p # "serve", NEW d, NEW scope PROVE Total(GatedOn(d, scope)') = Total(GatedOn(d, scope))
    <3>1. p = "hand"
      BY <2>1 DEF L!Processes
    <3>2. ~x.gated
      BY <1>2, <1>5, <3>1 DEF LedInv, Booked, Started, was
    <3>. QED  BY <1>1, <1>5, <3>2, RowCounts DEF LedInv
  <2>. QED  BY <2>1
<1>12. Capped'
  <2>1. CASE p = "serve"
    BY <1>6, <1>7, <1>10, <1>1, <2>1 DEF Capped, Started
  <2>2. CASE p # "serve"
    <3>1. process'["serve"] = process["serve"]
      BY <1>7, <2>2 DEF L!Processes
    <3>2. process'["serve"] \in Admits /\ Weighed(process'["serve"].routine) =>
          \A scope \in L!Scopes(process'["serve"].routine) \cap DOMAIN Block :
            \A d \in Nat : L!Day(clock') <= d => Total(GatedOn(d, scope)') < Block[scope]
      BY <1>1, <1>11, <2>2, <3>1 DEF LedInv, Capped, Under
    <3>3. Started("serve")' /\ Weighed(process'["serve"].routine) =>
          \A scope \in L!Scopes(process'["serve"].routine) \cap DOMAIN Block :
            Total(GatedOn(L!Day(process["serve"].started), scope)') < Block[scope]
      BY <1>1, <1>11, <2>2, <3>1 DEF LedInv, Capped, Under, Started
    <3>. QED  BY <1>10, <3>2, <3>3 DEF Capped, Under
  <2>. QED  BY <2>1, <2>2
<1>. QED  BY <1>8, <1>9, <1>12 DEF LedInv

LEMMA LedKeeps == ASSUME LedInv, [L!Next]_(L!vars) PROVE LedInv'
<1>1. CASE UNCHANGED L!vars
  <2>1. UNCHANGED <<rows, process, clock, began, learned>>
    BY <1>1 DEF L!vars
  <2>2. \A d, scope : GatedOn(d, scope)' = GatedOn(d, scope)
    BY <2>1, SameRows
  <2>3. Booked' /\ Taught'
    BY <2>1 DEF LedInv, Booked, Taught, Known, Started
  <2>4. Capped'
    BY <2>1, <2>2 DEF LedInv, Capped, Under, Started
  <2>. QED  BY <2>3, <2>4 DEF LedInv
<1>. QED  BY <1>1, AdmitKeeps, StartByHandKeeps, StartAdmittedKeeps, InputRunsKeeps, ProcessDiesKeeps, FinishKeeps,
             ClockKeeps DEF L!Next

LEMMA LedCaps == ASSUME LedInv PROVE L!OvershootIsOneRun
<1>1. SUFFICES ASSUME NEW scope \in DOMAIN Block, NEW d \in 0..L!Day(LedgerTime)
               PROVE  L!Sum({r \in rows : /\ r.gated /\ r.routine \notin Scripts \cup {Ask}
                                          /\ L!Day(r.started) = d /\ scope \in L!Scopes(r.routine)},
                            LAMBDA r : r.cost) < Block[scope] + MaxCost
  BY DEF L!OvershootIsOneRun, L!Sum, L!MapThenSumSet, L!MapThenFoldSet
<1>2. Total(GatedOn(d, scope)) < Block[scope] + MaxCost
  BY DEF LedInv, Capped
<1>. QED  BY <1>2 DEF Total, GatedOn

Ids == {r.id : r \in rows}

\* Every run has a number of its own, and so has its row.
Numbered ==
    /\ clock \in 0..LedgerTime /\ began \in 0..LedgerRuns
    /\ Ids \subseteq 1..began /\ learned \subseteq 1..began
    /\ IsFiniteSet(Ids) /\ Cardinality(Ids) = Cardinality(rows)
    /\ \A p \in L!Processes : process[p].pc # "idle" =>
         /\ process[p].id \in 1..began /\ process[p].id \notin Ids
         /\ \A o \in L!Processes \ {p} : process[o].pc # "idle" => process[o].id # process[p].id
    /\ \A p \in L!Processes : process[p].pc \in {"input", "running"} => process[p].fed \subseteq 1..began

LEMMA NumbersStart == ASSUME L!Init PROVE Numbered
<1>1. /\ rows = {} /\ process = [p \in L!Processes |-> L!Idle] /\ clock = 0 /\ began = 0 /\ learned = {}
      /\ Ids = {} /\ L!Idle.pc = "idle"
  BY DEF L!Init, L!Idle, Ids
<1>2. IsFiniteSet({}) /\ Cardinality({}) = 0
  BY FS_EmptySet
<1>3. clock \in 0..LedgerTime /\ began \in 0..LedgerRuns
  BY <1>1, LedgerAssumption
<1>. QED  BY <1>1, <1>2, <1>3 DEF Numbered

\* A step of one process that neither records nor begins a run.
LEMMA NumbersStay ==
    ASSUME LedInv, Numbered, NEW p \in L!Processes, process' \in [L!Processes -> AnyState(clock)],
           \A o \in L!Processes \ {p} : process'[o] = process[o],
           process'[p].pc # "idle" => process[p].pc # "idle" /\ process'[p].id = process[p].id,
           process'[p].pc \in {"input", "running"} => process'[p].fed \subseteq 1..began,
           rows' = rows, clock' = clock, began' = began, learned' = learned
    PROVE  Numbered'
<1>1. Ids' = Ids
  BY DEF Ids
<1>. QED  BY <1>1 DEF Numbered

\* A step that begins a run.
LEMMA NumbersBegin ==
    ASSUME LedInv, Numbered, NEW p \in L!Processes, process' \in [L!Processes -> AnyState(clock)],
           \A o \in L!Processes \ {p} : process'[o] = process[o],
           process'[p].id = began + 1,
           process'[p].pc \in {"input", "running"} => process'[p].fed = {},
           began < LedgerRuns, rows' = rows, clock' = clock, began' = began + 1, learned' = learned
    PROVE  Numbered'
<1>1. Ids' = Ids
  BY DEF Ids
<1>2. began \in Nat /\ began' \in 0..LedgerRuns /\ began' = began + 1 /\ 1..began \subseteq 1..began'
      /\ began' \in 1..began' /\ began' \notin 1..began
  BY LedgerAssumption DEF Numbered
<1>3. ASSUME NEW o \in L!Processes, process'[o].pc # "idle"
      PROVE  /\ process'[o].id \in 1..began' /\ process'[o].id \notin Ids'
             /\ \A q \in L!Processes \ {o} : process'[q].pc # "idle" => process'[q].id # process'[o].id
  BY <1>1, <1>2, <1>3 DEF Numbered
<1>4. ASSUME NEW o \in L!Processes, process'[o].pc \in {"input", "running"}
      PROVE  process'[o].fed \subseteq 1..began'
  BY <1>1, <1>2, <1>4 DEF Numbered
<1>5. Ids \subseteq 1..began' /\ learned \subseteq 1..began'
  BY <1>2 DEF Numbered
<1>. QED  BY <1>1, <1>2, <1>3, <1>4, <1>5 DEF Numbered

LEMMA NumbersKeep == ASSUME LedInv, Numbered, [L!Next]_(L!vars) PROVE Numbered'
<1>0. L!Idle.pc = "idle" /\ L!Idle \in AnyState(clock)
  BY DEF L!Idle, AnyState
<1>1. ASSUME NEW kind \in Costed, L!Admit(kind) PROVE Numbered'
  <2>. DEFINE x == [pc |-> "admitted", id |-> began + 1, routine |-> kind]
  <2>1. /\ process' = [process EXCEPT !["serve"] = x] /\ began < LedgerRuns
        /\ began' = began + 1 /\ UNCHANGED <<rows, clock, learned>>
    BY <1>1 DEF L!Admit
  <2>2. x \in AnyState(clock) /\ x.id = began + 1 /\ x.pc = "admitted"
    BY DEF Admits, AnyState, LedInv, Booked
  <2>. HIDE DEF x
  <2>3. /\ process' \in [L!Processes -> AnyState(clock)] /\ process'["serve"] = x /\ "serve" \in L!Processes
        /\ \A o \in L!Processes \ {"serve"} : process'[o] = process[o]
    BY <2>1, <2>2, ProcessSet DEF LedInv, L!Processes
  <2>. QED  BY <2>1, <2>2, <2>3, NumbersBegin
<1>2. ASSUME L!StartAdmitted PROVE Numbered'
  <2>. DEFINE was == process["serve"]
              x == L!Started(was.id, was.routine, "serve")
  <2>1. /\ was.pc = "admitted" /\ UNCHANGED <<rows, clock, began, learned>>
        /\ process' = [process EXCEPT !["serve"] = x] /\ "serve" \in L!Processes
    BY <1>2 DEF L!StartAdmitted, LedInv, Booked, L!Processes
  <2>2. x.id = was.id /\ x.fed = {} /\ DOMAIN process = L!Processes
    BY DEF L!Started, LedInv, Booked
  <2>3. LedInv'
    BY <1>2, StartAdmittedKeeps
  <2>4. process' \in [L!Processes -> AnyState(clock)]
    BY <2>1, <2>3 DEF LedInv, Booked, AnyState, AtRun
  <2>. HIDE DEF x
  <2>5. process'["serve"] = x /\ \A o \in L!Processes \ {"serve"} : process'[o] = process[o]
    BY <2>1, <2>2
  <2>6. was.pc # "idle" /\ x.fed \subseteq 1..began
    BY <2>1, <2>2
  <2>. QED  BY <2>1, <2>2, <2>4, <2>5, <2>6, NumbersStay
<1>3. ASSUME NEW kind \in Costed, L!StartByHand(kind) PROVE Numbered'
  <2>. DEFINE x == L!Started(began + 1, kind, "hand")
  <2>1. /\ process' = [process EXCEPT !["hand"] = x] /\ began < LedgerRuns /\ "hand" \in L!Processes
        /\ began' = began + 1 /\ UNCHANGED <<rows, clock, learned>>
    BY <1>3 DEF L!StartByHand, L!Processes
  <2>2. x.id = began + 1 /\ x.fed = {} /\ DOMAIN process = L!Processes
    BY DEF L!Started, LedInv, Booked
  <2>3. LedInv'
    BY <1>3, StartByHandKeeps
  <2>4. process' \in [L!Processes -> AnyState(clock)]
    BY <2>1, <2>3 DEF LedInv, Booked, AnyState, AtRun
  <2>. HIDE DEF x
  <2>5. process'["hand"] = x /\ \A o \in L!Processes \ {"hand"} : process'[o] = process[o]
    BY <2>1, <2>2
  <2>. QED  BY <2>1, <2>2, <2>4, <2>5, NumbersBegin
<1>4. ASSUME NEW p \in L!Processes, L!InputRuns(p) PROVE Numbered'
  <2>. DEFINE fed == {r.id : r \in {q \in rows : q.routine # Learner /\ q.started >= L!Since}}
  <2>1. /\ process[p].pc = "input" /\ process' = [process EXCEPT ![p].pc = "running", ![p].fed = fed]
        /\ UNCHANGED <<rows, clock, began, learned>>
    BY <1>4 DEF L!InputRuns
  <2>2. fed \subseteq 1..began
    BY DEF Numbered, Ids
  <2>. HIDE DEF fed
  <2>3. process[p] \in AtRun(clock) /\ DOMAIN process = L!Processes
    <3>1. process[p] \in AnyState(clock)
      BY DEF LedInv, Booked
    <3>. QED  BY <2>1, <3>1, StatesApart DEF AnyState, LedInv, Booked
  <2>4. /\ process'[p].pc = "running" /\ process'[p].id = process[p].id /\ process'[p].fed = fed
        /\ \A o \in L!Processes \ {p} : process'[o] = process[o]
    BY <2>1, <2>3 DEF AtRun
  <2>5. LedInv'
    BY <1>4, InputRunsKeeps
  <2>6. process' \in [L!Processes -> AnyState(clock)]
    BY <2>1, <2>5 DEF LedInv, Booked, AnyState, AtRun
  <2>. QED  BY <2>1, <2>2, <2>4, <2>6, NumbersStay
<1>5. ASSUME NEW p \in L!Processes, L!Dies(p) PROVE Numbered'
  <2>1. process' = [process EXCEPT ![p] = L!Idle] /\ UNCHANGED <<rows, clock, began, learned>>
    BY <1>5 DEF L!Dies
  <2>. HIDE DEF L!Idle
  <2>2. /\ process' \in [L!Processes -> AnyState(clock)] /\ process'[p] = L!Idle
        /\ \A o \in L!Processes \ {p} : process'[o] = process[o]
    BY <1>0, <2>1, ProcessSet DEF LedInv
  <2>. QED  BY <1>0, <2>1, <2>2, NumbersStay
<1>6. ASSUME NEW p \in L!Processes, NEW good \in BOOLEAN, NEW cost \in 0..MaxCost, L!Finish(p, good, cost)
      PROVE  Numbered'
  <2>. DEFINE was == process[p]
              x == [id |-> was.id, routine |-> was.routine, started |-> was.started, ok |-> good,
                    cost |-> cost, gated |-> was.gated, late |-> L!LearnerSince(was.started)]
  <2>1. /\ was.pc \in {"running", "input"}
        /\ rows' = rows \cup {x} /\ process' = [process EXCEPT ![p] = L!Idle]
        /\ learned' \subseteq learned \cup was.fed /\ UNCHANGED <<clock, began>>
    BY <1>6 DEF L!Finish
  <2>2. x.id = was.id
    OBVIOUS
  <2>. HIDE DEF x, L!Idle
  <2>3. /\ process' \in [L!Processes -> AnyState(clock)] /\ process'[p] = L!Idle
        /\ \A o \in L!Processes \ {p} : process'[o] = process[o]
    BY <1>0, <2>1, ProcessSet DEF LedInv
  <2>4. was.id \in 1..began /\ was.id \notin Ids /\ was.fed \subseteq 1..began
    BY <2>1 DEF Numbered
  <2>5. x \notin rows /\ Ids' = Ids \cup {was.id}
    BY <2>1, <2>2, <2>4 DEF Ids
  <2>6. /\ IsFiniteSet(rows \cup {x}) /\ Cardinality(rows \cup {x}) = Cardinality(rows) + 1
    BY <2>5, FS_AddElement DEF LedInv, Booked
  <2>7. /\ IsFiniteSet(Ids \cup {was.id}) /\ Cardinality(Ids \cup {was.id}) = Cardinality(Ids) + 1
    BY <2>4, FS_AddElement DEF Numbered
  <2>8. IsFiniteSet(Ids') /\ Cardinality(Ids') = Cardinality(rows')
    BY <2>1, <2>5, <2>6, <2>7 DEF Numbered
  <2>9. Ids' \subseteq 1..began /\ learned' \subseteq 1..began
    BY <2>1, <2>4, <2>5 DEF Numbered
  <2>10. ASSUME NEW o \in L!Processes, process'[o].pc # "idle"
         PROVE  /\ process'[o].id \in 1..began /\ process'[o].id \notin Ids'
                /\ \A q \in L!Processes \ {o} : process'[q].pc # "idle" => process'[q].id # process'[o].id
    <3>1. o # p /\ process'[o] = process[o] /\ process[o].pc # "idle"
      BY <1>0, <2>3, <2>10
    <3>2. process[o].id # was.id /\ process[o].id \notin Ids /\ process[o].id \in 1..began
      BY <2>1, <3>1 DEF Numbered
    <3>3. \A q \in L!Processes \ {o} : process'[q].pc # "idle" => process'[q].id # process'[o].id
      BY <1>0, <2>3, <3>1 DEF Numbered
    <3>. QED  BY <2>5, <3>1, <3>2, <3>3
  <2>11. ASSUME NEW o \in L!Processes, process'[o].pc \in {"input", "running"} PROVE process'[o].fed \subseteq 1..began
    <3>1. o # p /\ process'[o] = process[o]
      BY <1>0, <2>3, <2>11
    <3>. QED  BY <2>11, <3>1 DEF Numbered
  <2>. HIDE DEF was
  <2>. QED  BY <2>1, <2>8, <2>9, <2>10, <2>11 DEF Numbered
<1>7. ASSUME L!Tick PROVE Numbered'
  <2>1. clock' \in 0..LedgerTime /\ UNCHANGED <<rows, process, began, learned>>
    BY <1>7, LedgerAssumption DEF L!Tick, Numbered
  <2>2. Ids' = Ids
    BY <2>1 DEF Ids
  <2>. QED  BY <2>1, <2>2 DEF Numbered
<1>8. CASE UNCHANGED L!vars
  BY <1>8 DEF L!vars, Numbered, Ids
<1>. QED  BY <1>1, <1>2, <1>3, <1>4, <1>5, <1>6, <1>7, <1>8 DEF L!Next

LEMMA LedIsTyped == ASSUME LedInv, Numbered PROVE L!TypeOK
<1>1. \A r \in rows : r.id \in 1..LedgerRuns /\ r.routine \in Costed /\ r.cost \in 0..MaxCost
  <2>1. \A r \in rows : r.id \in 1..began
    BY DEF Numbered, Ids
  <2>. QED  BY <2>1, LedgerAssumption DEF LedInv, Booked, RowsUpTo, Numbered
<1>2. L!Cardinality({r.id : r \in rows}) = L!Cardinality(rows)
  <2>1. Cardinality({r.id : r \in rows}) = Cardinality(rows)
    BY DEF Numbered, Ids
  <2>2. \A S : L!Cardinality(S) = Cardinality(S)
    BY DEF L!Cardinality, Cardinality, L!IsFiniteSet, IsFiniteSet
  <2>. QED  BY <2>1, <2>2
<1>3. \A p \in L!Processes : process[p].pc \in {"idle", "admitted", "input", "running"}
  <2>1. \A p \in L!Processes : process[p] \in AnyState(clock)
    BY DEF LedInv, Booked
  <2>. QED  BY <2>1, StatesApart DEF AnyState
<1>4. clock \in 0..LedgerTime /\ began \in 0..LedgerRuns /\ learned \subseteq 1..LedgerRuns
  BY LedgerAssumption DEF Numbered
<1>. QED  BY <1>1, <1>2, <1>3, <1>4 DEF L!TypeOK

LEMMA LedgerMoves == ASSUME [RoutineNext]_routineVars PROVE [L!Next]_(L!vars)
BY DEF RoutineNext, routineVars, ledgerVars, L!vars

LEMMA LedgerHolds == RoutineSpec => []LedInv
<1>1. RoutineInit => LedInv
  BY LedStarts DEF RoutineInit
<1>2. LedInv /\ [RoutineNext]_routineVars => LedInv'
  BY LedgerMoves, LedKeeps
<1>. QED  BY <1>1, <1>2, PTL DEF RoutineSpec

\* README, "priced against a daily budget": what the drain admits goes over a cap by less
\* than a run's cost.  For any routines, agents and caps, on any day.
THEOREM OvershootIsOneRunHolds == RoutineSpec => []OvershootIsOneRun
<1>1. LedInv => OvershootIsOneRun
  BY LedCaps DEF OvershootIsOneRun
<1>. QED  BY <1>1, LedgerHolds, PTL

\* worker.go, inputRuns: the learning routine is fed each run that was over before it
\* began, once it has passed it.
THEOREM RunsAreLearnedFromHolds == RoutineSpec => []RunsAreLearnedFrom
<1>1. LedInv => RunsAreLearnedFrom
  BY LedTeaches DEF RunsAreLearnedFrom
<1>. QED  BY <1>1, LedgerHolds, PTL

-----------------------------------------------------------------------------
(* The working memory.                                                      *)

Steps == {"idle", "save", "meta", "bump", "delete", "deleteMeta"}
ActorStates == [pc : Steps, key : Keys, id : Nat, ids : SUBSET Nat]
Rows == [kind : {KindOf[k] : k \in Keys}, created : Nat, used : Nat, ttl : Nat, promoted : BOOLEAN]
NotesBy(t) == [key : Keys, born : 0..t, added : 0..t, used : 0..t]

Remembering ==
    /\ now \in Nat /\ uses \in Nat
    /\ actor \in [Actors -> ActorStates]
    /\ \E n \in Nat : DOMAIN notes \subseteq 1..n
    /\ \A i \in DOMAIN notes : notes[i] \in NotesBy(now)
    /\ DOMAIN meta \subseteq Nat /\ \A i \in DOMAIN meta : meta[i] \in Rows

IsAt(pc, i) == \E a \in Actors : actor[a].pc = pc /\ actor[a].id = i

\* Who is to write a note's row knows its key.
Knows(i) ==
    \A a \in Actors :
        actor[a].pc \in {"save", "meta", "bump"} /\ actor[a].id = i => actor[a].key = notes[i].key

\* The row is of the note's kind; its TTL and its last use are those of the note, or
\* somebody is about to write them.
Agreed(i) ==
    /\ meta[i].kind = KindOf[notes[i].key]
    /\ \/ meta[i].ttl = 0
       \/ KindOf[notes[i].key] = "said" /\ notes[i].added + SaidTTL <= meta[i].ttl
       \/ KindOf[notes[i].key] = "said" /\ IsAt("meta", i)
    /\ \/ notes[i].used <= meta[i].used
       \/ notes[i].used <= meta[i].created
       \/ IsAt("bump", i)

MemInv ==
    /\ Remembering
    /\ \A i \in DOMAIN notes \ astray : Knows(i) /\ (i \in DOMAIN meta => Agreed(i))

LEMMA MemStarts == ASSUME M!Init PROVE MemInv
<1>1. DOMAIN notes = {} /\ DOMAIN meta = {} /\ now = 0 /\ uses = 0 /\ actor = [a \in Actors |-> M!AtRest]
  BY DEF M!Init
<1>2. M!AtRest \in ActorStates
  BY MemoryAssumption DEF M!AtRest, M!None, ActorStates, Steps
<1>3. DOMAIN notes \subseteq 1..0
  BY <1>1
<1>. QED  BY <1>1, <1>2, <1>3 DEF MemInv, Remembering

LEMMA ActorSet ==
    ASSUME Remembering, NEW a \in Actors, NEW new \in ActorStates, M!Set(a, new)
    PROVE  /\ actor' \in [Actors -> ActorStates] /\ actor'[a] = new
           /\ \A b \in Actors \ {a} : actor'[b] = actor[b]
  BY DEF Remembering, M!Set

LEMMA RestIsAState == M!AtRest \in ActorStates
  BY MemoryAssumption DEF M!AtRest, M!None, ActorStates, Steps

\* A note and a row that a step leaves alone still agree, unless the step's actor was
\* to write the row, or is on its way to do so under another key.
LEMMA NoteStays ==
    ASSUME MemInv, NEW i \in DOMAIN notes \ astray, NEW a \in Actors, NEW new \in ActorStates,
           M!Set(a, new), notes'[i] = notes[i],
           i \in DOMAIN meta' => i \in DOMAIN meta /\ meta'[i] = meta[i],
           new.pc \in {"save", "meta", "bump"} /\ new.id = i => new.key = notes[i].key,
           actor[a].pc \in {"meta", "bump"} /\ actor[a].id = i => new.pc = actor[a].pc /\ new.id = i
    PROVE  Knows(i)' /\ (i \in DOMAIN meta' => Agreed(i)')
<1>1. /\ actor' \in [Actors -> ActorStates] /\ actor'[a] = new
      /\ \A b \in Actors \ {a} : actor'[b] = actor[b]
  BY ActorSet DEF MemInv
<1>2. Knows(i)'
  BY <1>1 DEF MemInv, Knows
<1>3. \A pc \in {"meta", "bump"} : IsAt(pc, i) => IsAt(pc, i)'
  BY <1>1 DEF IsAt
<1>4. ASSUME i \in DOMAIN meta' PROVE Agreed(i)'
  BY <1>3, <1>4 DEF MemInv, Agreed
<1>. QED  BY <1>2, <1>4

LEMMA WithElement ==
    ASSUME NEW f, NEW i, NEW x
    PROVE  /\ DOMAIN M!With(f, i, x) = DOMAIN f \cup {i} /\ M!With(f, i, x)[i] = x
           /\ \A j \in DOMAIN f \ {i} : M!With(f, i, x)[j] = f[j]
  BY DEF M!With

LEMMA WithoutElement ==
    ASSUME NEW f, NEW i
    PROVE  /\ DOMAIN M!Without(f, i) = DOMAIN f \ {i}
           /\ \A j \in DOMAIN f \ {i} : M!Without(f, i)[j] = f[j]
  BY DEF M!Without





LEMMA FindKeeps == ASSUME MemInv, NEW a \in Actors, NEW k \in Keys, M!Find(a, k) PROVE MemInv'
<1>. DEFINE old == {i \in DOMAIN notes : notes[i].key = k}
            id == IF k # Unkeyed /\ old # {} THEN M!Min(old) ELSE 0
            new == [M!AtRest EXCEPT !.pc = "save", !.key = k, !.id = id]
<1>1. /\ UNCHANGED <<notes, meta, now, astray>> /\ uses' = uses + 1 /\ M!Set(a, new)
      /\ actor[a].pc = "idle"
  BY DEF M!Find, M!Begin, M!None
<1>2. id \in Nat /\ (id \in DOMAIN notes => notes[id].key = k)
  <2>1. ASSUME old # {} PROVE M!Min(old) \in old
    <3>1. old \in SUBSET Nat
      BY DEF MemInv, Remembering
    <3>. HIDE DEF old
    <3>2. PICK m \in old : \A n \in old : m <= n
      BY <2>1, <3>1, Smallest
    <3>. QED  BY <3>2 DEF M!Min
  <2>2. 0 \notin DOMAIN notes /\ DOMAIN notes \subseteq Nat
    BY DEF MemInv, Remembering
  <2>. QED  BY <2>1, <2>2
<1>. HIDE DEF id
<1>3. new \in ActorStates /\ new.id = id /\ new.key = k
  BY <1>2, MemoryAssumption DEF ActorStates, Steps, M!AtRest, M!None
<1>4. Remembering'
  <2>1. actor' \in [Actors -> ActorStates]
    <3>. HIDE DEF new
    <3>. QED  BY <1>1, <1>3, ActorSet DEF MemInv
  <2>. QED  BY <1>1, <2>1 DEF MemInv, Remembering
<1>5. ASSUME NEW i \in DOMAIN notes \ astray PROVE Knows(i)' /\ (i \in DOMAIN meta' => Agreed(i)')
  <2>1. new.id = i => new.key = notes[i].key
    BY <1>2, <1>3
  <2>. HIDE DEF new
  <2>. QED  BY <1>1, <1>3, <2>1, NoteStays
<1>. QED  BY <1>1, <1>4, <1>5 DEF MemInv

LEMMA UpdateKeeps == ASSUME MemInv, NEW a \in Actors, M!Update(a) PROVE MemInv'
<1>. PICK j \in Nat : j = actor[a].id
  BY DEF MemInv, Remembering, ActorStates
<1>. DEFINE new == [actor[a] EXCEPT !.pc = "meta"]
<1>1. /\ UNCHANGED <<meta, now, uses, astray>> /\ actor[a].pc = "save" /\ actor[a] \in ActorStates
  BY DEF M!Update, MemInv, Remembering
<1>2. CASE j \notin DOMAIN notes
  <2>1. notes' = notes /\ M!Set(a, M!AtRest)
    BY <1>2 DEF M!Update
  <2>2. Remembering'
    BY <1>1, <2>1, ActorSet, RestIsAState DEF MemInv, Remembering
  <2>3. M!AtRest.pc = "idle"
    BY DEF M!AtRest
  <2>4. ASSUME NEW i \in DOMAIN notes \ astray PROVE Knows(i)' /\ (i \in DOMAIN meta' => Agreed(i)')
    BY <1>1, <2>1, <2>3, NoteStays, RestIsAState
  <2>. QED  BY <1>1, <2>1, <2>2, <2>4 DEF MemInv
<1>3. CASE j \in DOMAIN notes
  <2>1. notes' = [notes EXCEPT ![j].added = now] /\ M!Set(a, new)
    BY <1>3 DEF M!Update
  <2>2. new \in ActorStates /\ new.pc = "meta" /\ new.id = j /\ new.key = actor[a].key
    BY <1>1 DEF ActorStates, Steps
  <2>3. /\ actor' \in [Actors -> ActorStates] /\ actor'[a] = new
        /\ \A b \in Actors \ {a} : actor'[b] = actor[b]
    <3>. HIDE DEF new
    <3>. QED  BY <2>1, <2>2, ActorSet DEF MemInv
  <2>4. /\ DOMAIN notes' = DOMAIN notes /\ notes'[j] \in NotesBy(now) /\ notes'[j].key = notes[j].key
        /\ notes'[j].used = notes[j].used /\ \A i \in DOMAIN notes \ {j} : notes'[i] = notes[i]
    BY <1>3, <2>1 DEF MemInv, Remembering, NotesBy
  <2>. HIDE DEF new
  <2>5. Remembering'
    BY <1>1, <2>3, <2>4 DEF MemInv, Remembering
  <2>6. ASSUME NEW i \in DOMAIN notes \ astray, i # j
        PROVE  Knows(i)' /\ (i \in DOMAIN meta' => Agreed(i)')
    BY <1>1, <2>1, <2>2, <2>4, <2>6, NoteStays
  <2>7. ASSUME j \in DOMAIN notes \ astray PROVE Knows(j)' /\ (j \in DOMAIN meta' => Agreed(j)')
    <3>1. Knows(j)'
      BY <1>1, <2>2, <2>3, <2>4, <2>7 DEF MemInv, Knows
    <3>2. IsAt("meta", j)' /\ (IsAt("bump", j) => IsAt("bump", j)')
      BY <1>1, <2>2, <2>3 DEF IsAt
    <3>3. ASSUME j \in DOMAIN meta PROVE Agreed(j)'
      BY <1>1, <2>4, <2>7, <3>2, <3>3 DEF MemInv, Agreed
    <3>. QED  BY <1>1, <3>1, <3>3
  <2>. QED  BY <1>1, <2>4, <2>5, <2>6, <2>7 DEF MemInv
<1>. QED  BY <1>2, <1>3

LEMMA NewIdIsNew ==
    ASSUME Remembering
    PROVE  M!NewId \in Nat \ {0} /\ \A i \in DOMAIN notes : i < M!NewId
<1>1. PICK n \in Nat : DOMAIN notes \subseteq 1..n
  BY DEF Remembering
<1>. DEFINE T == {0} \cup DOMAIN notes
<1>2. T \in SUBSET (0..n) /\ T # {}
  BY <1>1
<1>. HIDE DEF T
<1>3. PICK m \in T : \A y \in T : m >= y
  BY <1>2, Greatest
<1>4. M!Max(T) \in T /\ \A y \in T : M!Max(T) >= y
  BY <1>3 DEF M!Max
<1>5. M!NewId = 1 + M!Max(T)
  BY DEF M!NewId, T
<1>6. M!Max(T) \in Nat
  <2>1. M!Max(T) \in 0..n
    BY <1>2, <1>4
  <2>. HIDE DEF M!Max
  <2>. QED  BY <2>1
<1>7. \A i \in DOMAIN notes : i \in T /\ i \in Nat
  BY <1>1 DEF T
<1>. QED  BY <1>4, <1>5, <1>6, <1>7

LEMMA InsertKeeps == ASSUME MemInv, NEW a \in Actors, M!Insert(a) PROVE MemInv'
<1>. DEFINE k == actor[a].key  x == [key |-> k, born |-> now, added |-> now, used |-> now]
            new == [actor[a] EXCEPT !.pc = "meta", !.id = M!NewId]
<1>1. /\ UNCHANGED <<meta, now, uses>> /\ actor[a].pc = "save" /\ actor[a].id = 0 /\ actor[a] \in ActorStates
      /\ \/ M!Set(a, M!AtRest) /\ UNCHANGED <<notes, astray>>
         \/ /\ notes' = M!With(notes, M!NewId, x) /\ M!Set(a, new)
            /\ astray' = IF M!NewId \in DOMAIN meta \/ M!Held(M!NewId)
                            THEN astray \cup {M!NewId} ELSE astray \ {M!NewId}
  BY DEF M!Insert, MemInv, Remembering, M!None
<1>2. CASE M!Set(a, M!AtRest) /\ UNCHANGED <<notes, astray>>
  <2>2. Remembering'
    BY <1>1, <1>2, ActorSet, RestIsAState DEF MemInv, Remembering
  <2>3. M!AtRest.pc = "idle"
    BY DEF M!AtRest
  <2>4. ASSUME NEW i \in DOMAIN notes \ astray PROVE Knows(i)' /\ (i \in DOMAIN meta' => Agreed(i)')
    BY <1>1, <1>2, <2>3, NoteStays, RestIsAState
  <2>. QED  BY <1>2, <2>2, <2>4 DEF MemInv
<1>3. CASE /\ notes' = M!With(notes, M!NewId, x) /\ M!Set(a, new)
           /\ astray' = IF M!NewId \in DOMAIN meta \/ M!Held(M!NewId)
                           THEN astray \cup {M!NewId} ELSE astray \ {M!NewId}
  <2>. PICK j \in Nat : j = M!NewId
    BY NewIdIsNew DEF MemInv
  <2>1. j \in Nat \ {0} /\ \A i \in DOMAIN notes : i < j
    BY NewIdIsNew DEF MemInv
  <2>2. new \in ActorStates /\ new.pc = "meta" /\ new.id = j /\ new.key = k /\ k \in Keys
    BY <1>1, <2>1 DEF ActorStates, Steps
  <2>3. x \in NotesBy(now) /\ x.key = k
    BY <2>2 DEF NotesBy, MemInv, Remembering
  <2>. HIDE DEF x, new
  <2>4. /\ actor' \in [Actors -> ActorStates] /\ actor'[a] = new
        /\ \A b \in Actors \ {a} : actor'[b] = actor[b]
    BY <1>3, <2>2, ActorSet DEF MemInv
  <2>5. /\ DOMAIN notes' = DOMAIN notes \cup {j} /\ notes'[j] = x
        /\ \A i \in DOMAIN notes \ {j} : notes'[i] = notes[i]
    <3>1. notes' = M!With(notes, j, x)
      BY <1>3
    <3>. QED  BY <3>1 DEF M!With
  <2>6. \E n \in Nat : DOMAIN notes' \subseteq 1..n
    <3>1. \A i \in DOMAIN notes : i \in Nat \ {0}
      BY DEF MemInv, Remembering
    <3>2. DOMAIN notes' \subseteq 1..j
      BY <2>1, <2>5, <3>1
    <3>. QED  BY <2>1, <3>2
  <2>7. Remembering'
    BY <1>1, <2>3, <2>4, <2>5, <2>6 DEF MemInv, Remembering
  <2>8. ASSUME NEW i \in DOMAIN notes \ astray', i # j
        PROVE  Knows(i)' /\ (i \in DOMAIN meta' => Agreed(i)')
    <3>1. i \notin astray
      BY <1>3, <2>8
    <3>. QED  BY <1>1, <1>3, <2>2, <2>5, <2>8, <3>1, NoteStays
  <2>9. ASSUME j \notin astray' PROVE Knows(j)' /\ j \notin DOMAIN meta
    <3>1. j \notin DOMAIN meta /\ ~M!Held(j)
      BY <1>3, <2>9
    <3>. QED  BY <2>2, <2>3, <2>4, <2>5, <3>1 DEF M!Held, Knows
  <2>. QED  BY <1>1, <2>5, <2>7, <2>8, <2>9 DEF MemInv
<1>. QED  BY <1>1, <1>2, <1>3

LEMMA RowPut ==
    ASSUME MemInv, NEW i \in Nat, NEW x \in Rows, meta' = M!With(meta, i, x)
    PROVE  /\ DOMAIN meta' = DOMAIN meta \cup {i} /\ meta'[i] = x
           /\ \A j \in DOMAIN meta \ {i} : meta'[j] = meta[j]
           /\ DOMAIN meta' \subseteq Nat /\ \A j \in DOMAIN meta' : meta'[j] \in Rows
  BY DEF M!With, MemInv, Remembering

LEMMA AddMetaKeeps == ASSUME MemInv, NEW a \in Actors, M!AddMeta(a) PROVE MemInv'
<1>. PICK j \in Nat : j = actor[a].id
  BY DEF MemInv, Remembering, ActorStates
<1>. PICK k \in Keys : k = actor[a].key
  BY DEF MemInv, Remembering, ActorStates
<1>. DEFINE ttl == IF KindOf[k] = "said" THEN now + SaidTTL ELSE 0
            row == IF j \in DOMAIN meta THEN M!Upserted(meta[j], ttl)
                   ELSE [kind |-> KindOf[k], created |-> now, used |-> 0, ttl |-> ttl, promoted |-> FALSE]
<1>1. /\ UNCHANGED <<notes, now, uses, astray>> /\ actor[a].pc = "meta"
      /\ meta' = M!With(meta, j, row) /\ M!Set(a, M!AtRest)
  BY DEF M!AddMeta
<1>2. ttl \in Nat /\ (KindOf[k] = "said" => ttl = now + SaidTTL) /\ (KindOf[k] # "said" => ttl = 0)
  BY MemoryAssumption DEF MemInv, Remembering
<1>. HIDE DEF ttl
<1>3. /\ row \in Rows /\ row.ttl = ttl
      /\ j \in DOMAIN meta => row.kind = meta[j].kind /\ row.created = meta[j].created /\ row.used = meta[j].used
      /\ j \notin DOMAIN meta => row.kind = KindOf[k] /\ row.created = now
  <2>1. CASE j \in DOMAIN meta
    <3>1. meta[j] \in Rows
      BY <2>1 DEF MemInv, Remembering
    <3>. QED  BY <1>2, <2>1, <3>1 DEF M!Upserted, Rows
  <2>2. CASE j \notin DOMAIN meta
    BY <1>2, <2>2 DEF Rows, MemInv, Remembering
  <2>. QED  BY <2>1, <2>2
<1>. HIDE DEF row
<1>4. /\ DOMAIN meta' = DOMAIN meta \cup {j} /\ meta'[j] = row
      /\ \A i \in DOMAIN meta \ {j} : meta'[i] = meta[i]
      /\ DOMAIN meta' \subseteq Nat /\ \A i \in DOMAIN meta' : meta'[i] \in Rows
  BY <1>1, <1>3, RowPut
<1>5. /\ actor' \in [Actors -> ActorStates] /\ actor'[a] = M!AtRest
      /\ \A b \in Actors \ {a} : actor'[b] = actor[b]
  BY <1>1, ActorSet, RestIsAState DEF MemInv
<1>6. M!AtRest.pc = "idle"
  BY DEF M!AtRest
<1>7. Remembering'
  BY <1>1, <1>4, <1>5 DEF MemInv, Remembering
<1>8. ASSUME NEW i \in DOMAIN notes \ astray, i # j PROVE Knows(i)' /\ (i \in DOMAIN meta' => Agreed(i)')
  BY <1>1, <1>4, <1>6, <1>8, NoteStays, RestIsAState
<1>9. ASSUME j \in DOMAIN notes \ astray PROVE Knows(j)' /\ Agreed(j)'
  <2>1. Knows(j) /\ notes[j].key = k /\ (j \in DOMAIN meta => Agreed(j)) /\ notes[j] \in NotesBy(now)
    BY <1>1, <1>9 DEF MemInv, Knows, Remembering
  <2>2. Knows(j)'
    BY <1>1, <1>5, <1>6, <2>1 DEF Knows
  <2>3. IsAt("bump", j) => IsAt("bump", j)'
    BY <1>1, <1>5 DEF IsAt
  <2>4. notes[j].added \in 0..now /\ notes[j].used \in 0..now /\ now \in Nat
    BY <2>1 DEF NotesBy, MemInv, Remembering
  <2>5. row.kind = KindOf[k]
    BY <1>3, <2>1 DEF Agreed
  <2>6. ttl = 0 \/ (KindOf[k] = "said" /\ notes[j].added + SaidTTL <= ttl)
    BY <1>2, <2>4, MemoryAssumption
  <2>7. notes[j].used <= row.used \/ notes[j].used <= row.created \/ IsAt("bump", j)'
    <3>1. CASE j \in DOMAIN meta
      BY <1>3, <2>1, <2>3, <3>1 DEF Agreed
    <3>2. CASE j \notin DOMAIN meta
      BY <1>3, <2>4, <3>2
    <3>. QED  BY <3>1, <3>2
  <2>8. notes' = notes /\ meta'[j] = row /\ row.ttl = ttl
    BY <1>1, <1>3, <1>4
  <2>9. Agreed(j)'
    BY <2>1, <2>5, <2>6, <2>7, <2>8 DEF Agreed
  <2>. QED  BY <2>2, <2>9
<1>. QED  BY <1>1, <1>7, <1>8, <1>9 DEF MemInv

LEMMA BumpKeeps == ASSUME MemInv, NEW a \in Actors, M!Bump(a) PROVE MemInv'
<1>. PICK j \in Nat : j = actor[a].id
  BY DEF MemInv, Remembering, ActorStates
<1>. PICK k \in Keys : k = actor[a].key
  BY DEF MemInv, Remembering, ActorStates
<1>. DEFINE row == IF j \in DOMAIN meta THEN [meta[j] EXCEPT !.used = now]
                   ELSE [kind |-> KindOf[k], created |-> now, used |-> now, ttl |-> 0, promoted |-> FALSE]
<1>1. /\ UNCHANGED <<notes, now, uses, astray>> /\ actor[a].pc = "bump"
      /\ meta' = M!With(meta, j, row) /\ M!Set(a, M!AtRest)
  BY DEF M!Bump
<1>3. /\ row \in Rows /\ row.used = now
      /\ j \in DOMAIN meta => row.kind = meta[j].kind /\ row.ttl = meta[j].ttl
      /\ j \notin DOMAIN meta => row.kind = KindOf[k] /\ row.ttl = 0
  <2>1. CASE j \in DOMAIN meta
    <3>1. meta[j] \in Rows /\ now \in Nat
      BY <2>1 DEF MemInv, Remembering
    <3>. QED  BY <2>1, <3>1 DEF Rows
  <2>2. CASE j \notin DOMAIN meta
    BY <2>2 DEF Rows, MemInv, Remembering
  <2>. QED  BY <2>1, <2>2
<1>. HIDE DEF row
<1>4. /\ DOMAIN meta' = DOMAIN meta \cup {j} /\ meta'[j] = row
      /\ \A i \in DOMAIN meta \ {j} : meta'[i] = meta[i]
      /\ DOMAIN meta' \subseteq Nat /\ \A i \in DOMAIN meta' : meta'[i] \in Rows
  BY <1>1, <1>3, RowPut
<1>5. /\ actor' \in [Actors -> ActorStates] /\ actor'[a] = M!AtRest
      /\ \A b \in Actors \ {a} : actor'[b] = actor[b]
  BY <1>1, ActorSet, RestIsAState DEF MemInv
<1>6. M!AtRest.pc = "idle"
  BY DEF M!AtRest
<1>7. Remembering'
  BY <1>1, <1>4, <1>5 DEF MemInv, Remembering
<1>8. ASSUME NEW i \in DOMAIN notes \ astray, i # j PROVE Knows(i)' /\ (i \in DOMAIN meta' => Agreed(i)')
  BY <1>1, <1>4, <1>6, <1>8, NoteStays, RestIsAState
<1>9. ASSUME j \in DOMAIN notes \ astray PROVE Knows(j)' /\ Agreed(j)'
  <2>1. Knows(j) /\ notes[j].key = k /\ (j \in DOMAIN meta => Agreed(j)) /\ notes[j] \in NotesBy(now)
    BY <1>1, <1>9 DEF MemInv, Knows, Remembering
  <2>2. Knows(j)'
    BY <1>1, <1>5, <1>6, <2>1 DEF Knows
  <2>3. IsAt("meta", j) => IsAt("meta", j)'
    BY <1>1, <1>5 DEF IsAt
  <2>4. notes[j].used \in 0..now /\ now \in Nat
    BY <2>1 DEF NotesBy, MemInv, Remembering
  <2>5. row.kind = KindOf[k]
    BY <1>3, <2>1 DEF Agreed
  <2>6. \/ row.ttl = 0
        \/ KindOf[k] = "said" /\ notes[j].added + SaidTTL <= row.ttl
        \/ KindOf[k] = "said" /\ IsAt("meta", j)'
    BY <1>3, <2>1, <2>3 DEF Agreed
  <2>7. notes[j].used <= row.used
    BY <1>3, <2>4
  <2>8. notes' = notes /\ meta'[j] = row
    BY <1>1, <1>4
  <2>9. Agreed(j)'
    BY <2>1, <2>5, <2>6, <2>7, <2>8 DEF Agreed
  <2>. QED  BY <2>2, <2>9
<1>. QED  BY <1>1, <1>7, <1>8, <1>9 DEF MemInv

LEMMA ShowKeeps == ASSUME MemInv, NEW a \in Actors, NEW j \in M!Ids, M!Show(a, j) PROVE MemInv'
<1>. DEFINE new == [M!AtRest EXCEPT !.pc = "bump", !.key = notes[j].key, !.id = j]
<1>1. /\ UNCHANGED <<meta, now, astray>> /\ uses' = uses + 1 /\ M!Set(a, new) /\ j \in DOMAIN notes
      /\ actor[a].pc = "idle" /\ notes' = [notes EXCEPT ![j].used = now]
  BY DEF M!Show, M!Begin
<1>2. notes[j] \in NotesBy(now) /\ now \in Nat /\ j \in Nat
  BY <1>1 DEF MemInv, Remembering
<1>3. new \in ActorStates /\ new.id = j /\ new.key = notes[j].key /\ new.pc = "bump"
  BY <1>2, MemoryAssumption DEF ActorStates, Steps, M!AtRest, M!None, NotesBy
<1>. HIDE DEF new
<1>4. /\ actor' \in [Actors -> ActorStates] /\ actor'[a] = new
      /\ \A b \in Actors \ {a} : actor'[b] = actor[b]
  BY <1>1, <1>3, ActorSet DEF MemInv
<1>5. /\ DOMAIN notes' = DOMAIN notes /\ notes'[j] \in NotesBy(now) /\ notes'[j].key = notes[j].key
      /\ notes'[j].added = notes[j].added /\ \A i \in DOMAIN notes \ {j} : notes'[i] = notes[i]
  BY <1>1, <1>2 DEF NotesBy
<1>6. Remembering'
  BY <1>1, <1>4, <1>5 DEF MemInv, Remembering
<1>7. ASSUME NEW i \in DOMAIN notes \ astray, i # j PROVE Knows(i)' /\ (i \in DOMAIN meta' => Agreed(i)')
  BY <1>1, <1>3, <1>5, <1>7, NoteStays
<1>8. ASSUME j \in DOMAIN notes \ astray PROVE Knows(j)' /\ (j \in DOMAIN meta' => Agreed(j)')
  <2>1. Knows(j)'
    BY <1>3, <1>4, <1>5, <1>8 DEF MemInv, Knows
  <2>2. IsAt("bump", j)' /\ (IsAt("meta", j) => IsAt("meta", j)')
    BY <1>1, <1>3, <1>4 DEF IsAt
  <2>3. ASSUME j \in DOMAIN meta PROVE Agreed(j)'
    BY <1>1, <1>5, <1>8, <2>2, <2>3 DEF MemInv, Agreed
  <2>. QED  BY <1>1, <2>1, <2>3
<1>. QED  BY <1>1, <1>5, <1>6, <1>7, <1>8 DEF MemInv

\* Operations that begin with no id of their own.
LEMMA DropKeeps ==
    ASSUME MemInv, NEW a \in Actors, NEW ids \in SUBSET Nat,
           M!Begin(a, [M!AtRest EXCEPT !.pc = "delete", !.ids = ids]),
           UNCHANGED <<notes, meta, now, astray>>
    PROVE  MemInv'
<1>. DEFINE new == [M!AtRest EXCEPT !.pc = "delete", !.ids = ids]
<1>1. uses' = uses + 1 /\ M!Set(a, new) /\ actor[a].pc = "idle"
  BY DEF M!Begin
<1>2. new \in ActorStates /\ new.pc = "delete"
  BY MemoryAssumption DEF ActorStates, Steps, M!AtRest, M!None
<1>. HIDE DEF new
<1>3. Remembering'
  BY <1>1, <1>2, ActorSet DEF MemInv, Remembering
<1>4. ASSUME NEW i \in DOMAIN notes \ astray PROVE Knows(i)' /\ (i \in DOMAIN meta' => Agreed(i)')
  BY <1>1, <1>2, NoteStays
<1>. QED  BY <1>3, <1>4 DEF MemInv

LEMMA DeleteNoteKeeps == ASSUME MemInv, NEW a \in Actors, NEW j \in M!Ids, M!DeleteNote(a, j) PROVE MemInv'
<1>. DEFINE new == [actor[a] EXCEPT !.pc = "deleteMeta", !.id = j]
<1>1. /\ UNCHANGED <<meta, now, uses, astray>> /\ M!Set(a, new) /\ actor[a].pc = "delete"
      /\ notes' = M!Without(notes, j) /\ actor[a] \in ActorStates /\ j \in actor[a].ids
  BY DEF M!DeleteNote, MemInv, Remembering
<1>2. new \in ActorStates /\ new.pc = "deleteMeta"
  BY <1>1 DEF ActorStates, Steps
<1>. HIDE DEF new
<1>3. DOMAIN notes' = DOMAIN notes \ {j} /\ \A i \in DOMAIN notes \ {j} : notes'[i] = notes[i]
  BY <1>1 DEF M!Without
<1>4. \E n \in Nat : DOMAIN notes' \subseteq 1..n
  BY <1>3 DEF MemInv, Remembering
<1>5. Remembering'
  BY <1>1, <1>2, <1>3, <1>4, ActorSet DEF MemInv, Remembering
<1>6. ASSUME NEW i \in DOMAIN notes \ astray, i # j PROVE Knows(i)' /\ (i \in DOMAIN meta' => Agreed(i)')
  BY <1>1, <1>2, <1>3, <1>6, NoteStays
<1>. QED  BY <1>1, <1>3, <1>5, <1>6 DEF MemInv

LEMMA DeleteMetaKeeps == ASSUME MemInv, NEW a \in Actors, M!DeleteMeta(a) PROVE MemInv'
<1>. PICK j \in Nat : j = actor[a].id
  BY DEF MemInv, Remembering, ActorStates
<1>. DEFINE new == IF actor[a].ids = {j} THEN M!AtRest
                   ELSE [actor[a] EXCEPT !.pc = "delete", !.id = M!None, !.ids = @ \ {j}]
<1>1. /\ UNCHANGED <<notes, now, uses, astray>> /\ M!Set(a, new) /\ actor[a].pc = "deleteMeta"
      /\ meta' = M!Without(meta, j) /\ actor[a] \in ActorStates
  BY DEF M!DeleteMeta, MemInv, Remembering
<1>2. new \in ActorStates /\ new.pc \in {"idle", "delete"}
  BY <1>1, MemoryAssumption DEF ActorStates, Steps, M!AtRest, M!None
<1>. HIDE DEF new
<1>3. DOMAIN meta' = DOMAIN meta \ {j} /\ \A i \in DOMAIN meta \ {j} : meta'[i] = meta[i]
  BY <1>1 DEF M!Without
<1>5. Remembering'
  BY <1>1, <1>2, <1>3, ActorSet DEF MemInv, Remembering
<1>6. ASSUME NEW i \in DOMAIN notes \ astray PROVE Knows(i)' /\ (i \in DOMAIN meta' => Agreed(i)')
  BY <1>1, <1>2, <1>3, NoteStays
<1>. QED  BY <1>1, <1>5, <1>6 DEF MemInv

LEMMA PromoteKeeps == ASSUME MemInv, NEW a \in Actors, NEW j \in M!Ids, M!MarkPromoted(a, j) PROVE MemInv'
<1>1. /\ UNCHANGED <<notes, now, astray>> /\ uses' = uses + 1 /\ M!Set(a, M!AtRest) /\ actor[a].pc = "idle"
      /\ j \in DOMAIN meta /\ meta' = [meta EXCEPT ![j].promoted = TRUE]
  BY DEF M!MarkPromoted, M!Begin
<1>2. /\ DOMAIN meta' = DOMAIN meta /\ \A i \in DOMAIN meta : meta'[i] \in Rows /\ meta'[i].kind = meta[i].kind
            /\ meta'[i].ttl = meta[i].ttl /\ meta'[i].used = meta[i].used /\ meta'[i].created = meta[i].created
  BY <1>1 DEF MemInv, Remembering, Rows
<1>3. /\ actor' \in [Actors -> ActorStates] /\ actor'[a].pc = "idle"
      /\ \A b \in Actors \ {a} : actor'[b] = actor[b]
  BY <1>1, ActorSet, RestIsAState DEF MemInv, M!AtRest
<1>4. Remembering'
  <2>1. DOMAIN meta' \subseteq Nat /\ \A i \in DOMAIN meta' : meta'[i] \in Rows
    BY <1>2 DEF MemInv, Remembering
  <2>2. \A i \in DOMAIN notes' : notes'[i] \in NotesBy(now')
    BY <1>1 DEF MemInv, Remembering
  <2>3. uses' \in Nat /\ now' \in Nat
    BY <1>1 DEF MemInv, Remembering
  <2>4. \E n \in Nat : DOMAIN notes' \subseteq 1..n
    BY <1>1 DEF MemInv, Remembering
  <2>. QED  BY <1>3, <2>1, <2>2, <2>3, <2>4 DEF Remembering
<1>5. ASSUME NEW i \in DOMAIN notes \ astray PROVE Knows(i)' /\ (i \in DOMAIN meta' => Agreed(i)')
  <2>1. Knows(i)'
    BY <1>1, <1>3 DEF MemInv, Knows
  <2>2. \A pc \in {"meta", "bump"} : IsAt(pc, i) => IsAt(pc, i)'
    BY <1>1, <1>3 DEF IsAt
  <2>3. ASSUME i \in DOMAIN meta PROVE Agreed(i)'
    BY <1>1, <1>2, <2>2, <2>3 DEF MemInv, Agreed
  <2>. QED  BY <1>2, <2>1, <2>3
<1>. QED  BY <1>1, <1>4, <1>5 DEF MemInv

LEMMA ActorDiesKeeps == ASSUME MemInv, NEW a \in Actors, M!Dies(a) PROVE MemInv'
<1>1. /\ UNCHANGED <<notes, meta, now, uses>> /\ M!Set(a, M!AtRest)
      /\ astray' = IF actor[a].pc \in {"meta", "bump"} THEN astray \cup {actor[a].id} ELSE astray
  BY DEF M!Dies
<1>2. Remembering'
  BY <1>1, ActorSet, RestIsAState DEF MemInv, Remembering
<1>3. M!AtRest.pc = "idle"
  BY DEF M!AtRest
<1>4. ASSUME NEW i \in DOMAIN notes \ astray' PROVE Knows(i)' /\ (i \in DOMAIN meta' => Agreed(i)')
  <2>1. i \notin astray /\ ~(actor[a].pc \in {"meta", "bump"} /\ actor[a].id = i)
    BY <1>1, <1>4
  <2>. QED  BY <1>1, <1>3, <2>1, NoteStays, RestIsAState
<1>. QED  BY <1>1, <1>2, <1>4 DEF MemInv

LEMMA MemKeeps == ASSUME MemInv, [M!Next]_(M!vars) PROVE MemInv'
<1>1. CASE M!Tick
  <2>1. UNCHANGED <<notes, meta, actor, uses, astray>> /\ now' = now + 1
    BY <1>1 DEF M!Tick
  <2>2. \A i \in DOMAIN notes : notes[i] \in NotesBy(now')
    BY <2>1 DEF MemInv, Remembering, NotesBy
  <2>3. Remembering'
    BY <2>1, <2>2 DEF MemInv, Remembering
  <2>. QED  BY <2>1, <2>3 DEF MemInv, Knows, Agreed, IsAt
<1>2. CASE UNCHANGED M!vars
  <2>1. UNCHANGED <<notes, meta, actor, uses, now, astray>>
    BY <1>2 DEF M!vars
  <2>. QED  BY <2>1 DEF MemInv, Remembering, Knows, Agreed, IsAt
<1>3. ASSUME NEW a \in Actors, M!Purge(a) PROVE MemInv'
  <2>1. M!Purgeable \in SUBSET Nat
    BY DEF M!Purgeable, MemInv, Remembering
  <2>. QED  BY <1>3, <2>1, DropKeeps DEF M!Purge
<1>4. ASSUME NEW a \in Actors, NEW i \in M!Ids, M!Forget(a, i) PROVE MemInv'
  <2>1. {i} \in SUBSET Nat
    BY <1>4 DEF M!Forget, MemInv, Remembering
  <2>. QED  BY <1>4, <2>1, DropKeeps DEF M!Forget
<1>5. ASSUME NEW a \in Actors, NEW i \in M!Ids, M!Show(a, i) \/ M!DeleteNote(a, i) \/ M!MarkPromoted(a, i)
      PROVE  MemInv'
  BY <1>5, ShowKeeps, DeleteNoteKeeps, PromoteKeeps
<1>6. ASSUME NEW a \in Actors,
             (\E k \in Keys : M!Find(a, k)) \/ M!Update(a) \/ M!Insert(a) \/ M!AddMeta(a)
               \/ M!Bump(a) \/ M!DeleteMeta(a) \/ M!Dies(a)
      PROVE  MemInv'
  BY <1>6, FindKeeps, UpdateKeeps, InsertKeeps, AddMetaKeeps, BumpKeeps, DeleteMetaKeeps, ActorDiesKeeps
<1>. QED  BY <1>1, <1>2, <1>3, <1>4, <1>5, <1>6 DEF M!Next

\* A row that agrees is purgeable only if the note is due, or somebody is at it.
LEMMA MemImplies == ASSUME MemInv PROVE M!PurgeTakesTheExpired
<1>1. ASSUME NEW i \in M!Purgeable \cap DOMAIN notes, i \notin astray, ~M!Held(i) PROVE M!Due(i)
  <2>1. Agreed(i) /\ i \in DOMAIN meta /\ meta[i] \in Rows /\ notes[i] \in NotesBy(now) /\ now \in Nat
    BY <1>1 DEF MemInv, Remembering, M!Purgeable
  <2>2. ~IsAt("meta", i) /\ ~IsAt("bump", i)
    BY <1>1 DEF M!Held, IsAt
  <2>3. /\ meta[i].ttl \in Nat /\ meta[i].used \in Nat /\ meta[i].created \in Nat
        /\ notes[i].added \in Nat /\ notes[i].used \in Nat
    BY <2>1 DEF Rows, NotesBy
  <2>4. CASE meta[i].ttl > 0 /\ meta[i].ttl < now
    BY <2>1, <2>2, <2>3, <2>4, MemoryAssumption DEF Agreed, M!Due, M!Kind
  <2>5. CASE /\ meta[i].kind # "heuristic"
             /\ (IF meta[i].used > meta[i].created THEN meta[i].used ELSE meta[i].created) + Unused < now
    <3>1. meta[i].used + Unused < now /\ meta[i].created + Unused < now
      BY <2>1, <2>3, <2>5, MemoryAssumption
    <3>2. notes[i].used + Unused < now
      BY <2>1, <2>2, <2>3, <3>1, MemoryAssumption DEF Agreed
    <3>. QED  BY <2>1, <2>5, <3>2 DEF Agreed, M!Due, M!Kind
  <2>. QED  BY <1>1, <2>4, <2>5 DEF M!Purgeable
<1>. QED  BY <1>1 DEF M!PurgeTakesTheExpired

\* Who is about to save may insert one note more.
Saving == {a \in Actors : actor[a].pc = "save"}

\* Ids and times are within their bounds.
Bounded ==
    /\ now \in 0..MemoryTime /\ uses \in 0..MaxUses /\ deaths \in 0..MemoryDeaths
    /\ \A i \in DOMAIN notes : i + Cardinality(Saving) <= uses
    /\ Cardinality(Saving) <= uses
    /\ \A a \in Actors : actor[a].pc \in {"meta", "bump"} => actor[a].id \in 1..uses
    /\ \A i \in DOMAIN notes : notes[i].born <= notes[i].used
    /\ DOMAIN meta \subseteq 1..uses /\ \A i \in DOMAIN meta : meta[i].created <= now

LEMMA SavingIsFinite == IsFiniteSet(Saving) /\ Cardinality(Saving) \in Nat
BY MemoryAssumption, FS_Subset, FS_CardinalityType DEF Saving

LEMMA OneSaves ==
    ASSUME NEW S, IsFiniteSet(S), NEW a
    PROVE  /\ Cardinality(S \cup {a}) <= Cardinality(S) + 1
           /\ Cardinality(S \ {a}) <= Cardinality(S)
           /\ a \in S => Cardinality(S \ {a}) = Cardinality(S) - 1
           /\ IsFiniteSet(S \cup {a}) /\ IsFiniteSet(S \ {a})
<1>1. /\ IsFiniteSet(S \cup {a})
      /\ Cardinality(S \cup {a}) = IF a \in S THEN Cardinality(S) ELSE Cardinality(S) + 1
  BY FS_AddElement
<1>2. /\ IsFiniteSet(S \ {a})
      /\ Cardinality(S \ {a}) = IF a \in S THEN Cardinality(S) - 1 ELSE Cardinality(S)
  BY FS_RemoveElement
<1>3. Cardinality(S) \in Nat
  BY FS_CardinalityType
<1>. QED  BY <1>1, <1>2, <1>3

\* How a step of an actor changes who saves.
LEMMA SavingMoves ==
    ASSUME Remembering, NEW a \in Actors, NEW new \in ActorStates, M!Set(a, new)
    PROVE  /\ Cardinality(Saving)' \in Nat
           /\ Cardinality(Saving)' <= Cardinality(Saving) + 1
           /\ new.pc # "save" => Cardinality(Saving)' <= Cardinality(Saving)
           /\ new.pc # "save" /\ actor[a].pc = "save" => Cardinality(Saving)' = Cardinality(Saving) - 1
<1>1. /\ actor' \in [Actors -> ActorStates] /\ actor'[a] = new
      /\ \A b \in Actors \ {a} : actor'[b] = actor[b]
  BY ActorSet
<1>2. IsFiniteSet(Saving) /\ Cardinality(Saving) \in Nat
  BY SavingIsFinite
<1>3. IsFiniteSet(Actors)
  BY MemoryAssumption
<1>4. Saving' \subseteq Actors /\ Saving' = {b \in Actors : actor'[b].pc = "save"}
  BY DEF Saving
<1>5. IsFiniteSet(Saving') /\ Cardinality(Saving') \in Nat
  BY <1>3, <1>4, FS_Subset, FS_CardinalityType
<1>6. new.pc = "save" => Saving' = Saving \cup {a}
  BY <1>1, <1>4 DEF Saving
<1>7. new.pc # "save" => Saving' = Saving \ {a}
  BY <1>1, <1>4 DEF Saving
<1>8. actor[a].pc = "save" => a \in Saving
  BY DEF Saving
<1>9. Cardinality(Saving)' = Cardinality(Saving')
  OBVIOUS
<1>. HIDE DEF Saving
<1>10. /\ Cardinality(Saving \cup {a}) <= Cardinality(Saving) + 1
       /\ Cardinality(Saving \ {a}) <= Cardinality(Saving)
       /\ a \in Saving => Cardinality(Saving \ {a}) = Cardinality(Saving) - 1
  BY <1>2, OneSaves
<1>11. CASE new.pc = "save"
  BY <1>2, <1>5, <1>6, <1>10, <1>11
<1>12. CASE new.pc # "save"
  <2>1. Cardinality(Saving') = Cardinality(Saving \ {a})
    BY <1>7, <1>12
  <2>2. Cardinality(Saving') <= Cardinality(Saving) /\ Cardinality(Saving') <= Cardinality(Saving) + 1
    BY <1>2, <1>5, <1>10, <2>1
  <2>3. actor[a].pc = "save" => Cardinality(Saving') = Cardinality(Saving) - 1
    BY <1>8, <1>10, <2>1
  <2>. QED  BY <1>5, <1>12, <2>2, <2>3
<1>. QED  BY <1>11, <1>12

\* A step that changes only an actor, and perhaps the number of uses.
LEMMA BoundsStay ==
    ASSUME Remembering, Bounded, NEW a \in Actors, NEW new \in ActorStates, M!Set(a, new),
           uses' \in {uses, uses + 1}, uses' <= MaxUses,
           new.pc = "save" => uses' = uses + 1,
           DOMAIN notes' \subseteq DOMAIN notes, \A i \in DOMAIN notes' : notes'[i].born <= notes'[i].used,
           DOMAIN meta' \subseteq 1..uses, \A i \in DOMAIN meta' : meta'[i].created <= now,
           new.pc \in {"meta", "bump"} => new.id \in 1..uses,
           now' = now, deaths' \in 0..MemoryDeaths
    PROVE  Bounded'
<1>1. /\ actor' \in [Actors -> ActorStates] /\ actor'[a] = new
      /\ \A b \in Actors \ {a} : actor'[b] = actor[b]
  BY ActorSet
<1>2. /\ Cardinality(Saving)' \in Nat /\ Cardinality(Saving)' <= Cardinality(Saving) + 1
      /\ new.pc # "save" => Cardinality(Saving)' <= Cardinality(Saving)
  BY SavingMoves
<1>3. Cardinality(Saving) \in Nat
  BY SavingIsFinite
<1>4. uses \in Nat /\ uses' \in Nat /\ uses <= uses' /\ \A i \in DOMAIN notes : i \in Nat
  BY DEF Bounded, Remembering
<1>. HIDE DEF Saving
<1>5. \A i \in DOMAIN notes' : i + Cardinality(Saving)' <= uses'
  <2>1. ASSUME NEW i \in DOMAIN notes' PROVE i + Cardinality(Saving)' <= uses'
    <3>1. i \in Nat /\ i + Cardinality(Saving) <= uses
      BY <1>4 DEF Bounded
    <3>. QED  BY <1>2, <1>3, <1>4, <3>1
  <2>. QED  BY <2>1
<1>6. Cardinality(Saving)' <= uses'
  BY <1>2, <1>3, <1>4 DEF Bounded
<1>7. \A b \in Actors : actor'[b].pc \in {"meta", "bump"} => actor'[b].id \in 1..uses'
  BY <1>1, <1>4 DEF Bounded
<1>8. now' \in 0..MemoryTime /\ uses' \in 0..MaxUses
  BY <1>4 DEF Bounded
<1>9. DOMAIN meta' \subseteq 1..uses' /\ \A i \in DOMAIN meta' : meta'[i].created <= now'
  BY <1>4
<1>. QED  BY <1>5, <1>6, <1>7, <1>8, <1>9 DEF Bounded

LEMMA BoundsStart == ASSUME M!Init PROVE Bounded
<1>1. /\ DOMAIN notes = {} /\ DOMAIN meta = {} /\ now = 0 /\ uses = 0 /\ deaths = 0
      /\ \A a \in Actors : actor[a].pc = "idle"
  BY DEF M!Init, M!AtRest
<1>2. Saving = {}
  BY <1>1 DEF Saving
<1>. QED  BY <1>1, <1>2, FS_EmptySet, MemoryAssumption DEF Bounded

LEMMA BoundsKeep == ASSUME MemInv, Bounded, [M!Next]_(M!vars) PROVE Bounded'
<1>0. /\ Remembering /\ uses \in Nat /\ now \in Nat /\ deaths \in 0..MemoryDeaths /\ uses <= MaxUses /\ MaxUses \in Nat
      /\ DOMAIN meta \subseteq 1..uses /\ \A i \in DOMAIN meta : meta[i].created <= now
      /\ \A i \in DOMAIN notes : notes[i].born <= notes[i].used /\ i \in Nat \ {0}
  BY MemoryAssumption DEF MemInv, Remembering, Bounded
<1>1. \A i \in DOMAIN notes : i \in 1..uses
  <2>1. Cardinality(Saving) \in Nat
    BY SavingIsFinite
  <2>. QED  BY <1>0, <2>1 DEF Bounded
<1>2. \A a \in Actors : actor[a] \in ActorStates
  BY DEF MemInv, Remembering
<1>3. M!AtRest \in ActorStates /\ M!AtRest.pc = "idle"
  BY RestIsAState DEF M!AtRest
<1>4. ASSUME NEW a \in Actors, NEW k \in Keys, M!Find(a, k) PROVE Bounded'
  <2>. DEFINE old == {i \in DOMAIN notes : notes[i].key = k}
              id == IF k # Unkeyed /\ old # {} THEN M!Min(old) ELSE 0
              new == [M!AtRest EXCEPT !.pc = "save", !.key = k, !.id = id]
  <2>1. /\ UNCHANGED <<notes, meta, now, deaths>> /\ uses' = uses + 1 /\ M!Set(a, new) /\ uses < MaxUses
    BY <1>4 DEF M!Find, M!Begin, M!None
  <2>2. id \in Nat
    <3>1. ASSUME old # {} PROVE M!Min(old) \in Nat
      <4>1. old \in SUBSET Nat
        BY <1>0
      <4>. HIDE DEF old
      <4>2. PICK m \in old : \A n \in old : m <= n
        BY <3>1, <4>1, Smallest
      <4>3. M!Min(old) \in old
        BY <4>2 DEF M!Min
      <4>. QED  BY <4>1, <4>3
    <3>. QED  BY <3>1
  <2>. HIDE DEF id
  <2>3. new \in ActorStates /\ new.pc = "save"
    BY <2>2, MemoryAssumption DEF ActorStates, Steps, M!AtRest, M!None
  <2>. HIDE DEF new
  <2>. QED  BY <1>0, <2>1, <2>3, BoundsStay
<1>5. ASSUME NEW a \in Actors, M!Update(a) PROVE Bounded'
  <2>1. CASE actor[a].id \notin DOMAIN notes
    BY <1>0, <1>3, <1>5, <2>1, BoundsStay DEF M!Update
  <2>2. CASE actor[a].id \in DOMAIN notes
    <3>. DEFINE new == [actor[a] EXCEPT !.pc = "meta"]
    <3>1. /\ notes' = [notes EXCEPT ![actor[a].id].added = now] /\ M!Set(a, new) /\ UNCHANGED <<meta, now, uses, deaths>>
      BY <1>5, <2>2 DEF M!Update
    <3>2. new \in ActorStates /\ new.pc = "meta" /\ new.id = actor[a].id
      BY <1>2 DEF ActorStates, Steps
    <3>3. DOMAIN notes' = DOMAIN notes /\ \A i \in DOMAIN notes' : notes'[i].born <= notes'[i].used
      <4>1. \A i \in DOMAIN notes : notes[i] \in NotesBy(now)
        BY DEF MemInv, Remembering
      <4>. QED  BY <1>0, <2>2, <3>1, <4>1 DEF NotesBy
    <3>. HIDE DEF new
    <3>. QED  BY <1>0, <1>1, <2>2, <3>1, <3>2, <3>3, BoundsStay
  <2>. QED  BY <2>1, <2>2
<1>6. ASSUME NEW a \in Actors, M!Insert(a) PROVE Bounded'
  <2>1. CASE M!Set(a, M!AtRest) /\ notes' = notes
    <3>1. UNCHANGED <<meta, now, uses, deaths>>
      BY <1>6 DEF M!Insert
    <3>. QED  BY <1>0, <1>3, <2>1, <3>1, BoundsStay
  <2>2. CASE ~(M!Set(a, M!AtRest) /\ notes' = notes)
    <3>. PICK j \in Nat \ {0} : j = M!NewId
      BY NewIdIsNew DEF MemInv
    <3>. DEFINE x == [key |-> actor[a].key, born |-> now, added |-> now, used |-> now]
                new == [actor[a] EXCEPT !.pc = "meta", !.id = j]
    <3>1. /\ actor[a].pc = "save" /\ notes' = M!With(notes, j, x) /\ M!Set(a, new)
          /\ UNCHANGED <<meta, now, uses, deaths>>
      BY <1>6, <2>2 DEF M!Insert
    <3>2. new \in ActorStates /\ new.pc = "meta" /\ new.id = j
      BY <1>2 DEF ActorStates, Steps
    <3>3. /\ DOMAIN notes' = DOMAIN notes \cup {j} /\ notes'[j].born = now /\ notes'[j].used = now
          /\ \A i \in DOMAIN notes \ {j} : notes'[i] = notes[i]
      BY <3>1 DEF M!With
    <3>. HIDE DEF new, x
    <3>4. /\ Cardinality(Saving)' \in Nat /\ Cardinality(Saving)' = Cardinality(Saving) - 1
      BY <1>0, <3>1, <3>2, SavingMoves
    <3>5. j + Cardinality(Saving)' <= uses
      <4>1. j = 1 \/ j - 1 \in DOMAIN notes
        <5>1. PICK n \in Nat : DOMAIN notes \subseteq 1..n
          BY <1>0 DEF Remembering
        <5>. DEFINE T == {0} \cup DOMAIN notes
        <5>2. T \in SUBSET (0..n) /\ T # {}
          BY <5>1
        <5>. HIDE DEF T
        <5>3. PICK m \in T : \A y \in T : m >= y
          BY <5>2, Greatest
        <5>4. M!Max(T) \in T
          BY <5>3 DEF M!Max
        <5>5. j = 1 + M!Max(T)
          BY DEF M!NewId, T
        <5>6. PICK mx \in T : mx = M!Max(T)
          BY <5>4
        <5>7. mx \in Nat /\ j = 1 + mx
          BY <5>2, <5>5, <5>6
        <5>. QED  BY <5>7 DEF T
      <4>2. Cardinality(Saving) \in Nat
        BY SavingIsFinite
      <4>3. CASE j = 1
        BY <3>4, <4>2, <4>3, <1>0 DEF Bounded
      <4>4. CASE j - 1 \in DOMAIN notes
        <5>1. (j - 1) + Cardinality(Saving) <= uses
          BY <4>4 DEF Bounded
        <5>. HIDE DEF Saving
        <5>. QED  BY <1>0, <3>4, <4>2, <5>1
      <4>. QED  BY <4>1, <4>3, <4>4
    <3>6. \A i \in DOMAIN notes' : i + Cardinality(Saving)' <= uses'
      <4>1. ASSUME NEW i \in DOMAIN notes, i # j PROVE i + Cardinality(Saving)' <= uses'
        <5>1. i + Cardinality(Saving) <= uses /\ i \in Nat
          BY <1>0 DEF Bounded
        <5>2. Cardinality(Saving) \in Nat
          BY SavingIsFinite
        <5>. HIDE DEF Saving
        <5>. QED  BY <1>0, <3>1, <3>4, <5>1, <5>2
      <4>. QED  BY <3>1, <3>3, <3>5, <4>1
    <3>7. j \in 1..uses /\ Cardinality(Saving)' <= uses'
      <4>. HIDE DEF Saving
      <4>. QED  BY <1>0, <3>1, <3>4, <3>5
    <3>8. /\ actor'[a] = new /\ \A b \in Actors \ {a} : actor'[b] = actor[b]
      BY <1>0, <3>1, <3>2, ActorSet
    <3>9. \A b \in Actors : actor'[b].pc \in {"meta", "bump"} => actor'[b].id \in 1..uses'
      BY <3>1, <3>2, <3>7, <3>8 DEF Bounded
    <3>10. \A i \in DOMAIN notes' : notes'[i].born <= notes'[i].used
      BY <1>0, <3>3
    <3>. QED  BY <1>0, <3>1, <3>6, <3>7, <3>9, <3>10 DEF Bounded
  <2>. QED  BY <2>1, <2>2
<1>7. ASSUME NEW a \in Actors, M!AddMeta(a) \/ M!Bump(a) PROVE Bounded'
  <2>. PICK j \in 1..uses : j = actor[a].id
    BY <1>7 DEF Bounded, M!AddMeta, M!Bump
  <2>1. PICK row : /\ meta' = M!With(meta, j, row)
                   /\ row.created = now \/ (j \in DOMAIN meta /\ row.created = meta[j].created)
    <3>1. ASSUME j \in DOMAIN meta
          PROVE  \A ttl, use : /\ M!Upserted(meta[j], ttl).created = meta[j].created
                               /\ [meta[j] EXCEPT !.used = use].created = meta[j].created
      <4>1. meta[j] \in Rows
        BY <3>1 DEF MemInv, Remembering
      <4>. QED  BY <4>1 DEF M!Upserted, Rows
    <3>2. CASE M!AddMeta(a)
      <4>1. PICK ttl : meta' = M!With(meta, j, IF j \in DOMAIN meta THEN M!Upserted(meta[j], ttl)
                                 ELSE [kind |-> KindOf[actor[a].key], created |-> now, used |-> 0,
                                       ttl |-> ttl, promoted |-> FALSE])
        BY <3>2 DEF M!AddMeta
      <4>. QED  BY <3>1, <4>1
    <3>3. CASE M!Bump(a)
      <4>1. meta' = M!With(meta, j, IF j \in DOMAIN meta THEN [meta[j] EXCEPT !.used = now]
                                 ELSE [kind |-> KindOf[actor[a].key], created |-> now, used |-> now,
                                       ttl |-> 0, promoted |-> FALSE])
        BY <3>3 DEF M!Bump
      <4>2. CASE j \in DOMAIN meta
        BY <3>1, <4>1, <4>2
      <4>3. CASE j \notin DOMAIN meta
        BY <4>1, <4>3
      <4>. QED  BY <4>2, <4>3
    <3>. QED  BY <1>7, <3>2, <3>3
  <2>2. DOMAIN meta' \subseteq 1..uses /\ \A i \in DOMAIN meta' : meta'[i].created <= now
    BY <1>0, <2>1 DEF M!With
  <2>. QED  BY <1>0, <1>3, <1>7, <2>2, BoundsStay DEF M!AddMeta, M!Bump
<1>8. ASSUME NEW a \in Actors, NEW j \in M!Ids, M!Show(a, j) PROVE Bounded'
  <2>. DEFINE new == [M!AtRest EXCEPT !.pc = "bump", !.key = notes[j].key, !.id = j]
  <2>1. /\ UNCHANGED <<meta, now, deaths>> /\ uses' = uses + 1 /\ M!Set(a, new) /\ uses < MaxUses
        /\ j \in DOMAIN notes /\ notes' = [notes EXCEPT ![j].used = now]
    BY <1>8 DEF M!Show, M!Begin
  <2>2. \A i \in DOMAIN notes : notes[i] \in NotesBy(now)
    BY DEF MemInv, Remembering
  <2>3. new \in ActorStates /\ new.pc = "bump" /\ new.id = j
    BY <1>0, <2>1, <2>2, MemoryAssumption DEF ActorStates, Steps, M!AtRest, M!None, NotesBy
  <2>4. DOMAIN notes' = DOMAIN notes /\ \A i \in DOMAIN notes' : notes'[i].born <= notes'[i].used
    BY <1>0, <2>1, <2>2 DEF NotesBy
  <2>. HIDE DEF new
  <2>. QED  BY <1>0, <1>1, <2>1, <2>3, <2>4, BoundsStay
<1>9. ASSUME NEW a \in Actors, NEW ids \in SUBSET Nat,
             M!Begin(a, [M!AtRest EXCEPT !.pc = "delete", !.ids = ids]), UNCHANGED <<notes, meta, now, deaths>>
      PROVE  Bounded'
  <2>. DEFINE new == [M!AtRest EXCEPT !.pc = "delete", !.ids = ids]
  <2>1. uses' = uses + 1 /\ M!Set(a, new) /\ uses < MaxUses
    BY <1>9 DEF M!Begin
  <2>2. new \in ActorStates /\ new.pc = "delete"
    BY MemoryAssumption DEF ActorStates, Steps, M!AtRest, M!None
  <2>. HIDE DEF new
  <2>. QED  BY <1>0, <1>9, <2>1, <2>2, BoundsStay
<1>10. ASSUME NEW a \in Actors, M!Purge(a) PROVE Bounded'
  <2>1. M!Purgeable \in SUBSET Nat
    BY DEF M!Purgeable, MemInv, Remembering
  <2>. QED  BY <1>9, <1>10, <2>1 DEF M!Purge
<1>11. ASSUME NEW a \in Actors, NEW i \in M!Ids, M!Forget(a, i) PROVE Bounded'
  <2>1. {i} \in SUBSET Nat
    BY <1>0, <1>11 DEF M!Forget
  <2>. QED  BY <1>9, <1>11, <2>1 DEF M!Forget
<1>12. ASSUME NEW a \in Actors, NEW j \in M!Ids, M!DeleteNote(a, j) PROVE Bounded'
  <2>. DEFINE new == [actor[a] EXCEPT !.pc = "deleteMeta", !.id = j]
  <2>1. M!Set(a, new) /\ notes' = M!Without(notes, j) /\ UNCHANGED <<meta, now, uses, deaths>>
        /\ j \in actor[a].ids
    BY <1>12 DEF M!DeleteNote
  <2>2. new \in ActorStates /\ new.pc = "deleteMeta"
    BY <1>2, <2>1 DEF ActorStates, Steps
  <2>3. DOMAIN notes' \subseteq DOMAIN notes /\ \A i \in DOMAIN notes' : notes'[i].born <= notes'[i].used
    BY <1>0, <2>1 DEF M!Without
  <2>. HIDE DEF new
  <2>. QED  BY <1>0, <2>1, <2>2, <2>3, BoundsStay
<1>13. ASSUME NEW a \in Actors, M!DeleteMeta(a) PROVE Bounded'
  <2>. DEFINE new == IF actor[a].ids = {actor[a].id} THEN M!AtRest
                     ELSE [actor[a] EXCEPT !.pc = "delete", !.id = M!None, !.ids = @ \ {actor[a].id}]
  <2>1. M!Set(a, new) /\ meta' = M!Without(meta, actor[a].id) /\ UNCHANGED <<notes, now, uses, deaths>>
    BY <1>13 DEF M!DeleteMeta
  <2>2. new \in ActorStates /\ new.pc \in {"idle", "delete"}
    BY <1>2, MemoryAssumption DEF ActorStates, Steps, M!AtRest, M!None
  <2>3. DOMAIN meta' \subseteq 1..uses /\ \A i \in DOMAIN meta' : meta'[i].created <= now
    BY <1>0, <2>1 DEF M!Without
  <2>. HIDE DEF new
  <2>. QED  BY <1>0, <2>1, <2>2, <2>3, BoundsStay
<1>14. ASSUME NEW a \in Actors, NEW j \in M!Ids, M!MarkPromoted(a, j) PROVE Bounded'
  <2>1. /\ UNCHANGED <<notes, now, deaths>> /\ uses' = uses + 1 /\ uses < MaxUses /\ M!Set(a, M!AtRest)
        /\ j \in DOMAIN meta /\ meta' = [meta EXCEPT ![j].promoted = TRUE]
    BY <1>14 DEF M!MarkPromoted, M!Begin
  <2>2. DOMAIN meta' = DOMAIN meta /\ \A i \in DOMAIN meta : meta'[i].created = meta[i].created
    BY <2>1 DEF MemInv, Remembering, Rows
  <2>. QED  BY <1>0, <1>3, <2>1, <2>2, BoundsStay
<1>15. ASSUME NEW a \in Actors, M!Dies(a) PROVE Bounded'
  BY <1>0, <1>3, <1>15, BoundsStay, MemoryAssumption DEF M!Dies
<1>16. CASE M!Tick
  <2>1. UNCHANGED <<notes, meta, actor, uses, deaths>> /\ now' = now + 1 /\ now < MemoryTime
    BY <1>16 DEF M!Tick
  <2>2. Cardinality(Saving)' = Cardinality(Saving)
    BY <2>1 DEF Saving
  <2>3. now' \in 0..MemoryTime /\ \A i \in DOMAIN meta' : meta'[i].created <= now'
    <3>1. \A i \in DOMAIN meta : meta[i].created \in Nat
      BY DEF MemInv, Remembering, Rows
    <3>. QED  BY <1>0, <2>1, <3>1, MemoryAssumption
  <2>4. /\ uses' \in 0..MaxUses /\ deaths' \in 0..MemoryDeaths
        /\ \A i \in DOMAIN notes' : i + Cardinality(Saving)' <= uses' /\ notes'[i].born <= notes'[i].used
        /\ Cardinality(Saving)' <= uses' /\ DOMAIN meta' \subseteq 1..uses'
        /\ \A a \in Actors : actor'[a].pc \in {"meta", "bump"} => actor'[a].id \in 1..uses'
    <3>. HIDE DEF Saving
    <3>. QED  BY <2>1, <2>2 DEF Bounded
  <2>. QED  BY <2>3, <2>4 DEF Bounded
<1>17. CASE UNCHANGED M!vars
  BY <1>17 DEF M!vars, Bounded, Saving
<1>. QED  BY <1>4, <1>5, <1>6, <1>7, <1>8, <1>10, <1>11, <1>12, <1>13, <1>14, <1>15, <1>16, <1>17 DEF M!Next

LEMMA MemIsTyped == ASSUME MemInv, Bounded PROVE M!TypeOK
<1>1. Cardinality(Saving) \in Nat
  BY SavingIsFinite
<1>2. \A i \in DOMAIN notes : i \in Nat \ {0} /\ i + Cardinality(Saving) <= uses /\ notes[i].key \in Keys
  BY DEF MemInv, Remembering, Bounded, NotesBy
<1>3. \A i \in DOMAIN meta : meta[i].created \in Nat /\ meta[i].created <= now
  BY DEF MemInv, Remembering, Bounded, Rows
<1>4. uses \in 0..MaxUses /\ now \in 0..MemoryTime /\ MaxUses \in Nat /\ MemoryTime \in Nat
  BY MemoryAssumption DEF Bounded
<1>5. DOMAIN notes \subseteq M!Ids
  <2>. HIDE DEF Saving
  <2>. QED  BY <1>1, <1>2, <1>4 DEF M!Ids
<1>6. DOMAIN meta \subseteq M!Ids
  BY <1>4 DEF Bounded, M!Ids
<1>7. \A a \in Actors : actor[a].pc \in Steps
  BY DEF MemInv, Remembering, ActorStates
<1>. QED  BY <1>2, <1>3, <1>4, <1>5, <1>6, <1>7 DEF Bounded, Steps, M!TypeOK

LEMMA MemoryMoves == ASSUME [RoutineNext]_routineVars PROVE [M!Next]_(M!vars)
BY DEF RoutineNext, routineVars, memoryVars, M!vars

LEMMA MemoryHolds == RoutineSpec => []MemInv
<1>1. RoutineInit => MemInv
  BY MemStarts DEF RoutineInit
<1>2. MemInv /\ [RoutineNext]_routineVars => MemInv'
  BY MemoryMoves, MemKeeps
<1>. QED  BY <1>1, <1>2, PTL DEF RoutineSpec

\* memory.go: a purge takes what is past its time, whoever notes, uses or promotes beside
\* it and wherever a writer dies.  For any actors, keys, kinds and ages.
THEOREM PurgeTakesTheExpiredHolds == RoutineSpec => []PurgeTakesTheExpired
<1>1. MemInv => PurgeTakesTheExpired
  BY MemImplies DEF PurgeTakesTheExpired
<1>. QED  BY <1>1, MemoryHolds, PTL

-----------------------------------------------------------------------------
(* The log and the catch-up.                                                *)

Lines == 1..MaxLines

\* The notes, what loggers read, and what sessions count.
Noted ==
    /\ daily \in [C!Days -> Seq(Lines)] /\ had \in [C!Days -> SUBSET Lines]
    /\ today \in C!Days /\ logged \in 0..MaxLines
    /\ shown \subseteq Lines /\ undone \subseteq C!Days
    /\ DOMAIN seen \subseteq C!Days /\ \A d \in DOMAIN seen : seen[d] \in Lines

Logging ==
    /\ DOMAIN log = Loggers
    /\ \A l \in Loggers :
         /\ DOMAIN log[l] = {"pc", "day", "read", "line"}
         /\ log[l].pc \in {"idle", "empty", "fill"} /\ log[l].day \in C!Days
         /\ log[l].read \in Seq(Lines)

Scanning ==
    /\ DOMAIN session = Sessions
    /\ \A s \in Sessions :
         /\ DOMAIN session[s] = {"pc", "day", "seen", "counts", "found"}
         /\ session[s].pc \in {"idle", "scan", "write", "save"} /\ session[s].day \in C!Days
         /\ DOMAIN session[s].seen \subseteq C!Days /\ DOMAIN session[s].counts \subseteq C!Days
         /\ \A d \in DOMAIN session[s].seen : session[s].seen[d] \in Lines
         /\ \A d \in DOMAIN session[s].counts : session[s].counts[d] \in Lines
         /\ session[s].found \subseteq Lines
         /\ session[s].pc \in {"idle", "save"} => session[s].found = {}

Distinct(q) == \A i, j \in 1..Len(q) : q[i] = q[j] => i = j

At(l, d) == log[l].pc # "idle" /\ log[l].day = d

\* What is on a note or was read from it was put there, each line once; the line of a
\* logger that is at work is on no note yet.
Fresh ==
    /\ \A d \in C!Days : /\ C!ToSet(daily[d]) \subseteq had[d] /\ Distinct(daily[d])
                         /\ had[d] \subseteq 1..logged
    /\ \A l \in Loggers : log[l].pc # "idle" =>
         /\ log[l].line \in 1..logged /\ \A d \in C!Days : log[l].line \notin had[d]
         /\ C!ToSet(log[l].read) \subseteq had[log[l].day] /\ Distinct(log[l].read)
         /\ \A m \in Loggers \ {l} : log[m].pc # "idle" => log[m].line # log[l].line

\* What a note may be made of: what is on it, and what a logger read.
Carried(d) == {daily[d]} \cup {log[l].read : l \in {m \in Loggers : At(m, d)}}

\* The first n of these lines are there and in S.
Passed(q, n, S) == n <= Len(q) /\ \A i \in 1..n : q[i] \in S

Starts(p, q) == Len(p) <= Len(q) /\ \A i \in 1..Len(p) : p[i] = q[i]

\* What bookmarks, loaded or not, and counts have passed of the lines q.
Shown(d, q) ==
    /\ d \in DOMAIN seen => Passed(q, seen[d], shown)
    /\ \A s \in Sessions :
         /\ d \in DOMAIN session[s].seen => Passed(q, session[s].seen[d], shown)
         /\ d \in DOMAIN session[s].counts => Passed(q, session[s].counts[d], shown \cup session[s].found)

\* Whatever has all lines of the day begins with what is on the note.
Chained ==
    \A d \in C!Days \ undone : \A q \in Carried(d) :
        had[d] \subseteq C!ToSet(q) => Starts(daily[d], q) /\ Shown(d, q)

\* A day that is counted has lines.
Counted ==
    \A d \in C!Days : had[d] = {} =>
        /\ d \notin DOMAIN seen
        /\ \A s \in Sessions : d \notin DOMAIN session[s].seen /\ d \notin DOMAIN session[s].counts

LogInv == Noted /\ Logging /\ Scanning /\ Fresh /\ Chained /\ Counted

LEMMA CarriedAreLines ==
    ASSUME Noted, Logging, NEW d \in C!Days, NEW q \in Carried(d)
    PROVE  q \in Seq(Lines)
BY DEF Noted, Logging, Carried, At

LEMMA LogInitHolds == ASSUME C!Init PROVE LogInv
<1>0. 0 \in C!Days /\ 0 \in 0..MaxLines
  BY LogAssumption DEF C!Days
<1>1. <<>> \in Seq(Lines) /\ Len(<<>>) = 0 /\ DOMAIN <<>> = {} /\ C!ToSet(<<>>) = {}
  BY EmptySeq DEF C!ToSet
<1>2. /\ \A d \in C!Days : daily[d] = <<>> /\ had[d] = {}
      /\ \A l \in Loggers : log[l] = [pc |-> "idle", day |-> 0, read |-> <<>>, line |-> 0]
      /\ \A s \in Sessions : session[s] = [pc |-> "idle", day |-> 0, seen |-> <<>>, counts |-> <<>>,
                                           found |-> {}]
      /\ DOMAIN seen = {} /\ today = 0 /\ logged = 0 /\ shown = {} /\ undone = {}
      /\ DOMAIN log = Loggers /\ DOMAIN session = Sessions
  BY DEF C!Init, C!LogAtRest, C!AtRest
<1>3. Noted
  <2>1. daily \in [C!Days -> Seq(Lines)]
    BY <1>1 DEF C!Init
  <2>2. had \in [C!Days -> SUBSET Lines]
    BY DEF C!Init
  <2>3. today \in C!Days /\ logged \in 0..MaxLines
    BY <1>0, <1>2
  <2>. QED  BY <1>2, <2>1, <2>2, <2>3 DEF Noted
<1>4. Logging /\ Scanning
  <2>1. Logging
    <3>1. ASSUME NEW l \in Loggers
          PROVE  /\ DOMAIN log[l] = {"pc", "day", "read", "line"}
                 /\ log[l].pc = "idle" /\ log[l].day = 0 /\ log[l].read = <<>>
      BY <1>2
    <3>. QED  BY <1>0, <1>1, <1>2, <3>1 DEF Logging
  <2>2. ASSUME NEW s \in Sessions
        PROVE  /\ DOMAIN session[s] = {"pc", "day", "seen", "counts", "found"}
               /\ session[s].pc = "idle" /\ session[s].day = 0 /\ session[s].found = {}
               /\ session[s].seen = <<>> /\ session[s].counts = <<>>
    BY <1>2
  <2>. QED  BY <1>0, <1>1, <1>2, <2>1, <2>2 DEF Scanning
<1>5. Fresh
  BY <1>1, <1>2 DEF Fresh, Distinct
<1>6. Chained
  <2>1. ASSUME NEW d \in C!Days PROVE Carried(d) = {<<>>}
    BY <1>2 DEF Carried, At
  <2>2. ASSUME NEW d \in C!Days PROVE Shown(d, <<>>) /\ Starts(daily[d], <<>>)
    BY <1>1, <1>2 DEF Shown, Starts
  <2>. QED  BY <2>1, <2>2 DEF Chained
<1>7. Counted
  BY <1>1, <1>2 DEF Counted
<1>. QED  BY <1>3, <1>4, <1>5, <1>6, <1>7 DEF LogInv

\* A step that leaves the notes, and what was read of them.
LEMMA NotesStay ==
    ASSUME LogInv, UNCHANGED <<daily, had, logged, today, undone, log>>, Scanning',
           shown \subseteq shown', shown' \subseteq Lines,
           DOMAIN seen' \subseteq C!Days, \A d \in DOMAIN seen' : seen'[d] \in Lines,
           \A d \in C!Days \ undone : \A q \in Carried(d) :
               had[d] \subseteq C!ToSet(q) => Shown(d, q)',
           Counted'
    PROVE  LogInv'
<1>1. Noted' /\ Logging' /\ Fresh'
  BY DEF LogInv, Noted, Logging, Fresh
<1>2. \A d \in C!Days : Carried(d)' = Carried(d)
  BY DEF Carried, At
<1>3. Chained'
  BY <1>2 DEF LogInv, Chained, Starts
<1>. QED  BY <1>1, <1>3 DEF LogInv

LEMMA LoadKeeps == ASSUME LogInv, NEW s \in Sessions, C!LoadBookmark(s) PROVE LogInv'
<1>1. /\ UNCHANGED <<daily, had, logged, today, undone, log, seen, shown>>
      /\ session' = [session EXCEPT ![s] = [pc |-> "scan", day |-> today, seen |-> seen,
                                            counts |-> <<>>, found |-> {}]]
  BY DEF C!LoadBookmark
<1>2. DOMAIN <<>> = {}
  BY EmptySeq
<1>3. /\ DOMAIN session' = Sessions /\ \A t \in Sessions \ {s} : session'[t] = session[t]
      /\ DOMAIN session'[s] = {"pc", "day", "seen", "counts", "found"}
      /\ session'[s].pc = "scan" /\ session'[s].day = today /\ session'[s].seen = seen
      /\ DOMAIN session'[s].counts = {} /\ session'[s].found = {}
  BY <1>1, <1>2 DEF LogInv, Scanning
<1>4. Scanning'
  BY <1>1, <1>3 DEF LogInv, Scanning, Noted
<1>5. Counted'
  BY <1>1, <1>3 DEF LogInv, Counted
<1>6. ASSUME NEW d \in C!Days \ undone, NEW q \in Carried(d), had[d] \subseteq C!ToSet(q)
      PROVE  Shown(d, q)'
  <2>1. Shown(d, q)
    BY <1>6 DEF LogInv, Chained
  <2>. QED  BY <1>1, <1>3, <2>1 DEF Shown
<1>. QED  BY <1>1, <1>4, <1>5, <1>6, NotesStay DEF LogInv, Noted

LEMMA WriteKeeps == ASSUME LogInv, NEW s \in Sessions, C!WriteCatchup(s) PROVE LogInv'
<1>1. /\ UNCHANGED <<daily, had, logged, today, undone, log, seen>>
      /\ shown' = shown \cup session[s].found
      /\ session' = [session EXCEPT ![s].pc = "save", ![s].found = {}]
  BY DEF C!WriteCatchup
<1>2. /\ DOMAIN session' = Sessions /\ \A t \in Sessions \ {s} : session'[t] = session[t]
      /\ DOMAIN session'[s] = {"pc", "day", "seen", "counts", "found"}
      /\ session'[s].pc = "save" /\ session'[s].day = session[s].day /\ session'[s].seen = session[s].seen
      /\ session'[s].counts = session[s].counts /\ session'[s].found = {}
  BY <1>1 DEF LogInv, Scanning
<1>3. Scanning'
  BY <1>2 DEF LogInv, Scanning
<1>4. Counted'
  BY <1>1, <1>2 DEF LogInv, Counted
<1>5. ASSUME NEW d \in C!Days \ undone, NEW q \in Carried(d), had[d] \subseteq C!ToSet(q)
      PROVE  Shown(d, q)'
  <2>1. Shown(d, q)
    BY <1>5 DEF LogInv, Chained
  <2>. QED  BY <1>1, <1>2, <2>1 DEF Shown, Passed
<1>6. shown \subseteq shown' /\ shown' \subseteq Lines
  BY <1>1 DEF LogInv, Noted, Scanning
<1>. QED  BY <1>1, <1>3, <1>4, <1>5, <1>6, NotesStay DEF LogInv, Noted

LEMMA SessionDiesKeeps == ASSUME LogInv, NEW s \in Sessions, C!SessionDies(s) PROVE LogInv'
<1>1. /\ UNCHANGED <<daily, had, logged, today, undone, log, seen, shown>>
      /\ session' = [session EXCEPT ![s] = C!AtRest]
  BY DEF C!SessionDies
<1>2. DOMAIN <<>> = {} /\ 0 \in C!Days
  BY EmptySeq, LogAssumption DEF C!Days
<1>3. /\ DOMAIN session' = Sessions /\ \A t \in Sessions \ {s} : session'[t] = session[t]
      /\ DOMAIN session'[s] = {"pc", "day", "seen", "counts", "found"}
      /\ session'[s].pc = "idle" /\ session'[s].day = 0 /\ DOMAIN session'[s].seen = {}
      /\ DOMAIN session'[s].counts = {} /\ session'[s].found = {}
  BY <1>1, <1>2 DEF LogInv, Scanning, C!AtRest
<1>4. Scanning'
  BY <1>2, <1>3 DEF LogInv, Scanning
<1>5. Counted'
  BY <1>1, <1>3 DEF LogInv, Counted
<1>6. ASSUME NEW d \in C!Days \ undone, NEW q \in Carried(d), had[d] \subseteq C!ToSet(q)
      PROVE  Shown(d, q)'
  <2>1. Shown(d, q)
    BY <1>6 DEF LogInv, Chained
  <2>. QED  BY <1>1, <1>3, <2>1 DEF Shown
<1>. QED  BY <1>1, <1>4, <1>5, <1>6, NotesStay DEF LogInv, Noted

\* The bookmark is moved to what was counted, and that was printed.
LEMMA SaveKeeps == ASSUME LogInv, NEW s \in Sessions, C!Save(s) PROVE LogInv'
<1>1. /\ UNCHANGED <<daily, had, logged, today, undone, log, shown>>
      /\ session[s].pc = "save"
      /\ session' = [session EXCEPT ![s] = C!AtRest]
      /\ DOMAIN seen' \subseteq DOMAIN seen \cup DOMAIN session[s].counts
      /\ \A d \in DOMAIN seen' :
           seen'[d] = IF d \in DOMAIN session[s].counts THEN session[s].counts[d] ELSE seen[d]
  BY DEF C!Save, C!Saved
<1>2. DOMAIN <<>> = {} /\ 0 \in C!Days
  BY EmptySeq, LogAssumption DEF C!Days
<1>3. /\ DOMAIN session' = Sessions /\ \A t \in Sessions \ {s} : session'[t] = session[t]
      /\ DOMAIN session'[s] = {"pc", "day", "seen", "counts", "found"}
      /\ session'[s].pc = "idle" /\ session'[s].day = 0 /\ DOMAIN session'[s].seen = {}
      /\ DOMAIN session'[s].counts = {} /\ session'[s].found = {}
  BY <1>1, <1>2 DEF LogInv, Scanning, C!AtRest
<1>4. Scanning'
  BY <1>2, <1>3 DEF LogInv, Scanning
<1>5. Counted'
  BY <1>1, <1>3 DEF LogInv, Counted
<1>6. ASSUME NEW d \in C!Days \ undone, NEW q \in Carried(d), had[d] \subseteq C!ToSet(q)
      PROVE  Shown(d, q)'
  <2>1. Shown(d, q) /\ session[s].found = {}
    BY <1>1, <1>6 DEF LogInv, Chained, Scanning
  <2>2. d \in DOMAIN seen' => Passed(q, seen'[d], shown)
    BY <1>1, <2>1 DEF Shown, Passed
  <2>. QED  BY <1>1, <1>3, <2>1, <2>2 DEF Shown
<1>7. DOMAIN seen' \subseteq C!Days /\ \A d \in DOMAIN seen' : seen'[d] \in Lines
  BY <1>1 DEF LogInv, Noted, Scanning
<1>. QED  BY <1>1, <1>4, <1>5, <1>6, <1>7, NotesStay DEF LogInv, Noted

\* As many lines as there may be.
LEMMA DistinctIsShort ==
    ASSUME NEW q \in Seq(Lines), Distinct(q)
    PROVE  Len(q) <= MaxLines
<1>1. MaxLines \in Nat /\ Len(q) \in Nat /\ q \in [1..Len(q) -> Lines]
  BY LogAssumption
<1>2. /\ IsFiniteSet(1..Len(q)) /\ Cardinality(1..Len(q)) = Len(q)
      /\ IsFiniteSet(Lines) /\ Cardinality(Lines) = MaxLines
  <2>1. \A n \in Nat : IsFiniteSet(1..n) /\ Cardinality(1..n) = n
    <3>1. \A n \in Nat : IsFiniteSet(1..n) /\ Cardinality(1..n) = IF 1 > n THEN 0 ELSE n - 1 + 1
      BY FS_Interval
    <3>. QED  BY <3>1
  <2>. QED  BY <1>1, <2>1 DEF Lines
<1>3. ~(Cardinality(Lines) < Cardinality(1..Len(q)))
  BY <1>1, <1>2, FS_PigeonHole DEF Distinct
<1>. QED  BY <1>1, <1>2, <1>3

\* The lines behind the bookmark that was loaded are found, of the notes that have any.
LEMMA ScanKeeps == ASSUME LogInv, NEW s \in Sessions, C!Scan(s) PROVE LogInv'
<1>. DEFINE days == {d \in C!Days : d \in {session[s].day} \/ d + 1 = session[s].day}
            read == {d \in days : daily[d] # <<>>}
            from(d) == IF d \in DOMAIN session[s].seen THEN session[s].seen[d] ELSE 0
            found == UNION {C!New(daily[d], from(d)) : d \in read}
<1>1. /\ UNCHANGED <<daily, had, logged, today, undone, log, seen, shown>>
      /\ session' = [session EXCEPT ![s].pc = "write", ![s].seen = <<>>,
                                    ![s].counts = [d \in read |-> Len(daily[d])],
                                    ![s].found = found]
      /\ session[s].pc = "scan"
  BY DEF C!Scan
<1>2. DOMAIN <<>> = {}
  BY EmptySeq
<1>3. /\ DOMAIN session' = Sessions /\ \A t \in Sessions \ {s} : session'[t] = session[t]
      /\ DOMAIN session'[s] = {"pc", "day", "seen", "counts", "found"}
      /\ session'[s].pc = "write" /\ session'[s].day = session[s].day /\ DOMAIN session'[s].seen = {}
      /\ DOMAIN session'[s].counts = read /\ \A d \in read : session'[s].counts[d] = Len(daily[d])
      /\ session'[s].found = found
  <2>. HIDE DEF read, found
  <2>. QED  BY <1>1, <1>2 DEF LogInv, Scanning
<1>4. \A d \in read : d \in C!Days /\ daily[d] # <<>> /\ daily[d] \in Seq(Lines)
  BY DEF LogInv, Noted
<1>5. \A d \in read : Len(daily[d]) \in Nat \ {0} /\ DOMAIN daily[d] = 1..Len(daily[d])
  <2>. HIDE DEF read
  <2>. QED  BY <1>4, EmptySeq
<1>6. \A d \in read : \A i \in 1..Len(daily[d]) : i > from(d) => daily[d][i] \in found
  <2>. HIDE DEF from, read
  <2>. QED  BY <1>5 DEF C!New
<1>7. found \subseteq Lines
  <2>1. ASSUME NEW d \in read PROVE C!New(daily[d], from(d)) \subseteq Lines
    <3>. HIDE DEF from, read
    <3>. QED  BY <1>4, <1>5 DEF C!New
  <2>. QED  BY <2>1
<1>8. \A d \in read : Len(daily[d]) \in Lines
  <2>. HIDE DEF read
  <2>. QED  BY <1>4, <1>5, DistinctIsShort DEF LogInv, Fresh, Lines
<1>. HIDE DEF days, read, found
<1>9. Scanning'
  BY <1>3, <1>4, <1>7, <1>8 DEF LogInv, Scanning
<1>10. Counted'
  <2>1. ASSUME NEW d \in read PROVE had[d] # {}
    <3>1. daily[d][1] \in C!ToSet(daily[d])
      BY <1>5, <2>1 DEF C!ToSet
    <3>. QED  BY <1>4, <3>1 DEF LogInv, Fresh
  <2>2. ASSUME NEW d \in C!Days, had[d] = {}, NEW t \in Sessions
        PROVE  d \notin DOMAIN session'[t].seen /\ d \notin DOMAIN session'[t].counts
    <3>1. CASE t = s
      BY <1>3, <2>1, <2>2, <3>1
    <3>2. CASE t # s
      BY <1>3, <2>2, <3>2 DEF LogInv, Counted
    <3>. QED  BY <3>1, <3>2
  <2>. QED  BY <1>1, <2>2 DEF LogInv, Counted
<1>11. ASSUME NEW d \in C!Days \ undone, NEW q \in Carried(d), had[d] \subseteq C!ToSet(q)
       PROVE  Shown(d, q)'
  <2>1. Shown(d, q) /\ Starts(daily[d], q)
    BY <1>11 DEF LogInv, Chained
  <2>2. ASSUME d \in read PROVE Passed(q, Len(daily[d]), shown \cup found)
    <3>0. from(d) \in Nat
      BY DEF LogInv, Scanning, Lines
    <3>1. \A i \in 1..Len(daily[d]) : i <= from(d) => q[i] \in shown
      BY <2>1, <2>2 DEF Shown, Passed
    <3>. HIDE DEF from
    <3>2. \A i \in 1..Len(daily[d]) : q[i] \in shown \cup found
      BY <1>5, <1>6, <2>1, <2>2, <3>0, <3>1 DEF Starts
    <3>. QED  BY <2>1, <3>2 DEF Passed, Starts
  <2>3. ASSUME NEW t \in Sessions
        PROVE  /\ d \in DOMAIN session'[t].seen => Passed(q, session'[t].seen[d], shown)
               /\ d \in DOMAIN session'[t].counts =>
                    Passed(q, session'[t].counts[d], shown \cup session'[t].found)
    <3>1. CASE t = s
      BY <1>3, <2>2, <3>1
    <3>2. CASE t # s
      BY <1>3, <2>1, <3>2 DEF Shown
    <3>. QED  BY <3>1, <3>2
  <2>. QED  BY <1>1, <2>1, <2>3 DEF Shown
<1>. QED  BY <1>1, <1>9, <1>10, <1>11, NotesStay DEF LogInv, Noted

-----------------------------------------------------------------------------
\* A step of a logger, of the editor or of the clock.
LEMMA SessionsStay ==
    ASSUME LogInv, UNCHANGED <<session, seen, shown>>, Noted', Logging', Fresh',
           \A d \in C!Days : had[d] \subseteq had'[d],
           \A d \in C!Days \ undone' : \A q \in Carried(d)' :
               had'[d] \subseteq C!ToSet(q) => Starts(daily'[d], q) /\ Shown(d, q)
    PROVE  LogInv'
<1>1. Scanning'
  BY DEF LogInv, Scanning
<1>2. Counted'
  BY DEF LogInv, Counted
<1>3. Chained'
  BY DEF Chained, Shown
<1>. QED  BY <1>1, <1>2, <1>3 DEF LogInv

\* A step that puts no line on a note and leaves loggers with what they may go by.
LEMMA NoneComes ==
    ASSUME LogInv, UNCHANGED <<session, seen, shown, daily, had, undone>>, Noted', Logging', Fresh',
           \A d \in C!Days : Carried(d)' \subseteq Carried(d)
    PROVE  LogInv'
<1>1. \A d \in C!Days \ undone' : \A q \in Carried(d)' :
          had'[d] \subseteq C!ToSet(q) => Starts(daily'[d], q) /\ Shown(d, q)
  BY DEF LogInv, Chained
<1>. QED  BY <1>1, SessionsStay

LEMMA ReadKeeps == ASSUME LogInv, NEW l \in Loggers, NEW d \in C!Days, C!ReadNote(l, d) PROVE LogInv'
<1>1. /\ UNCHANGED <<daily, session, seen, today, had, shown, undone>>
      /\ log[l].pc = "idle" /\ logged < MaxLines /\ logged' = logged + 1
      /\ log' = [log EXCEPT ![l] = [pc |-> "empty", day |-> d, read |-> daily[d], line |-> logged + 1]]
  BY DEF C!ReadNote
<1>2. /\ DOMAIN log' = Loggers /\ \A m \in Loggers \ {l} : log'[m] = log[m]
      /\ DOMAIN log'[l] = {"pc", "day", "read", "line"} /\ log'[l].pc = "empty" /\ log'[l].day = d
      /\ log'[l].read = daily[d] /\ log'[l].line = logged + 1
  BY <1>1 DEF LogInv, Logging
<1>3. logged \in Nat /\ MaxLines \in Nat
  BY LogAssumption DEF LogInv, Noted
<1>4. Noted' /\ Logging'
  BY <1>1, <1>2, <1>3 DEF LogInv, Noted, Logging
<1>5. Fresh'
  <2>1. \A e \in C!Days : had[e] \subseteq 1..(logged + 1) /\ logged + 1 \notin had[e]
    BY <1>3 DEF LogInv, Fresh
  <2>2. \A m \in Loggers : log[m].pc # "idle" => log[m].line \in 1..(logged + 1) /\ log[m].line # logged + 1
    BY <1>3 DEF LogInv, Fresh
  <2>3. logged + 1 \in 1..(logged + 1)
    BY <1>3
  <2>. QED  BY <1>1, <1>2, <2>1, <2>2, <2>3 DEF LogInv, Fresh
<1>6. \A e \in C!Days : Carried(e)' \subseteq Carried(e)
  BY <1>1, <1>2 DEF Carried, At
<1>. QED  BY <1>1, <1>4, <1>5, <1>6, NoneComes

LEMMA LoggerDiesKeeps == ASSUME LogInv, NEW l \in Loggers, C!LoggerDies(l) PROVE LogInv'
<1>1. /\ UNCHANGED <<daily, session, seen, today, logged, had, shown, undone>>
      /\ log' = [log EXCEPT ![l] = C!LogAtRest]
  BY DEF C!LoggerDies
<1>2. /\ DOMAIN log' = Loggers /\ \A m \in Loggers \ {l} : log'[m] = log[m]
      /\ DOMAIN log'[l] = {"pc", "day", "read", "line"} /\ log'[l].pc = "idle" /\ log'[l].day = 0
      /\ log'[l].read = <<>>
  BY <1>1 DEF LogInv, Logging, C!LogAtRest
<1>3. 0 \in C!Days /\ <<>> \in Seq(Lines)
  BY LogAssumption, EmptySeq DEF C!Days
<1>4. Noted' /\ Logging'
  BY <1>1, <1>2, <1>3 DEF LogInv, Noted, Logging
<1>5. Fresh'
  BY <1>1, <1>2 DEF LogInv, Fresh
<1>6. \A e \in C!Days : Carried(e)' \subseteq Carried(e)
  BY <1>1, <1>2 DEF Carried, At
<1>. QED  BY <1>1, <1>4, <1>5, <1>6, NoneComes

LEMMA NewDayKeeps == ASSUME LogInv, C!NewDay PROVE LogInv'
<1>1. UNCHANGED <<daily, log, session, seen, logged, had, shown, undone>>
  BY DEF C!NewDay
<1>2. today' \in C!Days
  BY LogAssumption DEF C!NewDay, C!Days, LogInv, Noted
<1>3. Noted' /\ Logging' /\ Fresh'
  BY <1>1, <1>2 DEF LogInv, Noted, Logging, Fresh
<1>4. \A e \in C!Days : Carried(e)' \subseteq Carried(e)
  BY <1>1 DEF Carried, At
<1>. QED  BY <1>1, <1>3, <1>4, NoneComes

LEMMA EmptyKeeps == ASSUME LogInv, NEW l \in Loggers, C!Empty(l) PROVE LogInv'
<1>. DEFINE date == log[l].day
<1>1. /\ UNCHANGED <<session, seen, today, logged, had, shown, undone>>
      /\ log[l].pc = "empty" /\ daily' = [daily EXCEPT ![date] = <<>>]
      /\ log' = [log EXCEPT ![l].pc = "fill"]
  BY DEF C!Empty
<1>2. /\ DOMAIN log' = Loggers /\ \A m \in Loggers \ {l} : log'[m] = log[m]
      /\ DOMAIN log'[l] = {"pc", "day", "read", "line"} /\ log'[l].pc = "fill"
      /\ log'[l].day = log[l].day /\ log'[l].read = log[l].read /\ log'[l].line = log[l].line
  BY <1>1 DEF LogInv, Logging
<1>3. date \in C!Days
  BY DEF LogInv, Logging
<1>4. /\ <<>> \in Seq(Lines) /\ Len(<<>>) = 0 /\ C!ToSet(<<>>) = {} /\ Distinct(<<>>)
  BY EmptySeq DEF C!ToSet, Distinct
<1>5. daily' \in [C!Days -> Seq(Lines)] /\ daily'[date] = <<>>
      /\ \A d \in C!Days \ {date} : daily'[d] = daily[d]
  BY <1>1, <1>3, <1>4 DEF LogInv, Noted
<1>6. Noted' /\ Logging'
  BY <1>1, <1>2, <1>5 DEF LogInv, Noted, Logging
<1>. HIDE DEF date
<1>7. Fresh'
  <2>1. \A d \in C!Days : C!ToSet(daily'[d]) \subseteq had[d] /\ Distinct(daily'[d])
    BY <1>4, <1>5 DEF LogInv, Fresh
  <2>. QED  BY <1>1, <1>2, <2>1 DEF LogInv, Fresh
<1>8. ASSUME NEW d \in C!Days \ undone', NEW q \in Carried(d)', had'[d] \subseteq C!ToSet(q)
      PROVE  Starts(daily'[d], q) /\ Shown(d, q)
  <2>1. q \in Carried(d) \/ (d = date /\ q = <<>>)
    BY <1>1, <1>2, <1>5 DEF Carried, At
  <2>2. CASE q \in Carried(d)
    <3>1. Starts(daily[d], q) /\ Shown(d, q)
      BY <1>1, <1>8, <2>2 DEF LogInv, Chained
    <3>2. q \in Seq(Lines)
      BY <2>2, CarriedAreLines DEF LogInv
    <3>3. Len(q) \in Nat
      BY <3>2
    <3>. QED  BY <1>4, <1>5, <3>1, <3>3 DEF Starts
  <2>3. CASE d = date /\ q = <<>>
    <3>1. had[d] = {}
      BY <1>1, <1>4, <1>8, <2>3
    <3>2. Shown(d, q)
      BY <3>1 DEF LogInv, Counted, Shown
    <3>. QED  BY <1>4, <1>5, <2>3, <3>2 DEF Starts
  <2>. QED  BY <2>1, <2>2, <2>3
<1>. QED  BY <1>1, <1>6, <1>7, <1>8, SessionsStay

\* The line is on no other logger's note: who read a whole note before is whole no more.
LEMMA FillKeeps == ASSUME LogInv, NEW l \in Loggers, C!Fill(l) PROVE LogInv'
<1>. DEFINE date == log[l].day  line == log[l].line  read == log[l].read
            new == Append(read, line)
<1>1. /\ UNCHANGED <<session, seen, today, logged, shown, undone>>
      /\ log[l].pc = "fill" /\ daily' = [daily EXCEPT ![date] = new]
      /\ had' = [had EXCEPT ![date] = @ \cup C!ToSet(daily'[date])]
      /\ log' = [log EXCEPT ![l] = C!LogAtRest]
  BY DEF C!Fill
<1>2. /\ DOMAIN log' = Loggers /\ \A m \in Loggers \ {l} : log'[m] = log[m]
      /\ DOMAIN log'[l] = {"pc", "day", "read", "line"} /\ log'[l].pc = "idle" /\ log'[l].day = 0
      /\ log'[l].read = <<>>
  BY <1>1 DEF LogInv, Logging, C!LogAtRest
<1>3. date \in C!Days /\ read \in Seq(Lines) /\ line \in 1..logged /\ logged \in 0..MaxLines
  BY <1>1 DEF LogInv, Logging, Noted, Fresh
<1>4. line \in Lines
  BY <1>3, LogAssumption DEF Lines
<1>5. /\ C!ToSet(read) \subseteq had[date] /\ Distinct(read) /\ \A d \in C!Days : line \notin had[d]
  BY <1>1 DEF LogInv, Fresh
<1>. HIDE DEF date, line, read
<1>6. /\ new \in Seq(Lines) /\ Len(new) = Len(read) + 1 /\ new[Len(read) + 1] = line
      /\ \A i \in 1..Len(read) : new[i] = read[i]
      /\ Len(read) \in Nat /\ DOMAIN read = 1..Len(read) /\ DOMAIN new = 1..Len(new)
  BY <1>3, <1>4, AppendProperties
<1>. HIDE DEF new
<1>7. C!ToSet(new) = C!ToSet(read) \cup {line}
  <2>1. \A i \in 1..Len(new) : i \in 1..Len(read) \/ i = Len(read) + 1
    BY <1>6
  <2>2. \A i \in 1..Len(read) : i \in 1..Len(new)
    BY <1>6
  <2>3. Len(read) + 1 \in 1..Len(new)
    BY <1>6
  <2>. QED  BY <1>6, <2>1, <2>2, <2>3 DEF C!ToSet
<1>8. Distinct(new)
  <2>1. \A i \in 1..Len(read) : read[i] # line
    BY <1>3, <1>5, <1>6 DEF C!ToSet
  <2>2. \A i \in 1..Len(new) : i \in 1..Len(read) \/ i = Len(read) + 1
    BY <1>6
  <2>. QED  BY <1>5, <1>6, <2>1, <2>2 DEF Distinct
<1>9. /\ daily' \in [C!Days -> Seq(Lines)] /\ daily'[date] = new
      /\ \A d \in C!Days \ {date} : daily'[d] = daily[d]
  BY <1>1, <1>3, <1>6 DEF LogInv, Noted
<1>10. /\ had' \in [C!Days -> SUBSET Lines] /\ had'[date] = had[date] \cup {line}
       /\ \A d \in C!Days \ {date} : had'[d] = had[d]
  <2>1. had[date] \cup C!ToSet(new) = had[date] \cup {line}
    BY <1>5, <1>7
  <2>. QED  BY <1>1, <1>3, <1>4, <1>9, <2>1 DEF LogInv, Noted
<1>11. Noted' /\ Logging'
  <2>1. 0 \in C!Days /\ <<>> \in Seq(Lines)
    BY LogAssumption, EmptySeq DEF C!Days
  <2>. QED  BY <1>1, <1>2, <1>9, <1>10, <2>1 DEF LogInv, Noted, Logging
<1>12. Fresh'
  <2>1. ASSUME NEW d \in C!Days
        PROVE  /\ C!ToSet(daily'[d]) \subseteq had'[d] /\ Distinct(daily'[d])
               /\ had'[d] \subseteq 1..logged
    BY <1>3, <1>5, <1>7, <1>8, <1>9, <1>10 DEF LogInv, Fresh
  <2>2. ASSUME NEW m \in Loggers, log'[m].pc # "idle"
        PROVE  /\ m # l /\ log'[m] = log[m] /\ log[m].pc # "idle" /\ log[m].day \in C!Days
               /\ log[m].line # line
    BY <1>1, <1>2, <2>2 DEF LogInv, Fresh, Logging, line
  <2>3. ASSUME NEW m \in Loggers, log'[m].pc # "idle"
        PROVE  /\ log'[m].line \in 1..logged /\ \A d \in C!Days : log'[m].line \notin had'[d]
               /\ C!ToSet(log'[m].read) \subseteq had'[log'[m].day] /\ Distinct(log'[m].read)
    BY <1>10, <2>2, <2>3 DEF LogInv, Fresh
  <2>4. ASSUME NEW m \in Loggers, NEW k \in Loggers \ {m}, log'[m].pc # "idle", log'[k].pc # "idle"
        PROVE  log'[k].line # log'[m].line
    BY <2>2, <2>4 DEF LogInv, Fresh
  <2>. QED  BY <1>1, <2>1, <2>3, <2>4 DEF Fresh
<1>13. ASSUME NEW d \in C!Days \ undone', NEW q \in Carried(d)', had'[d] \subseteq C!ToSet(q)
       PROVE  Starts(daily'[d], q) /\ Shown(d, q)
  <2>1. q \in Carried(d) \/ (d = date /\ q = new)
    BY <1>1, <1>2, <1>9 DEF Carried, At
  <2>2. CASE d # date
    BY <1>1, <1>9, <1>10, <1>13, <2>1, <2>2 DEF LogInv, Chained
  <2>3. CASE d = date /\ q = new
    <3>1. had[date] \subseteq C!ToSet(read)
      BY <1>3, <1>5, <1>7, <1>10, <1>13, <2>3
    <3>2. read \in Carried(date)
      BY <1>1 DEF Carried, At, date, read
    <3>3. Shown(date, read)
      BY <1>1, <1>3, <1>13, <2>3, <3>1, <3>2 DEF LogInv, Chained
    <3>4. \A n, S : Passed(read, n, S) /\ n \in Nat => Passed(new, n, S)
      BY <1>6 DEF Passed
    <3>5. Shown(date, new)
      <4>1. \A n \in Lines : n \in Nat
        BY DEF Lines
      <4>2. date \in DOMAIN seen => Passed(new, seen[date], shown)
        BY <3>3, <3>4, <4>1 DEF Shown, LogInv, Noted
      <4>3. ASSUME NEW s \in Sessions
            PROVE  /\ date \in DOMAIN session[s].seen => Passed(new, session[s].seen[date], shown)
                   /\ date \in DOMAIN session[s].counts =>
                        Passed(new, session[s].counts[date], shown \cup session[s].found)
        BY <3>3, <3>4, <4>1 DEF Shown, LogInv, Scanning
      <4>. QED  BY <4>2, <4>3 DEF Shown
    <3>6. Starts(new, new)
      BY <1>6 DEF Starts
    <3>. QED  BY <1>9, <2>3, <3>5, <3>6
  <2>4. CASE d = date /\ q \in Carried(d)' /\ q # new
    <3>1. C!ToSet(q) \subseteq had[date]
      BY <1>1, <1>2, <1>9, <2>4 DEF Carried, At, LogInv, Fresh
    <3>. QED  BY <1>3, <1>5, <1>10, <1>13, <2>4, <3>1
  <2>. QED  BY <2>1, <2>2, <2>3, <2>4
<1>14. \A d \in C!Days : had[d] \subseteq had'[d]
  BY <1>10
<1>. QED  BY <1>1, <1>11, <1>12, <1>13, <1>14, SessionsStay

LEMMA RemovedFrom ==
    ASSUME NEW q \in Seq(Lines), NEW i \in 1..Len(q)
    PROVE  /\ C!RemoveAt(q, i) \in Seq(Lines) /\ Len(C!RemoveAt(q, i)) = Len(q) - 1
           /\ \A j \in 1..(Len(q) - 1) :
                C!RemoveAt(q, i)[j] = IF j < i THEN q[j] ELSE q[j + 1]
<1>. DEFINE p == SubSeq(q, 1, i - 1)  r == SubSeq(q, i + 1, Len(q))
<1>1. Len(q) \in Nat /\ \A j \in 1..Len(q) : q[j] \in Lines
  OBVIOUS
<1>2. /\ p \in Seq(Lines) /\ Len(p) = i - 1
      /\ \A j \in 1..(i - 1) : p[j] = q[j]
  <2>1. /\ SubSeq(q, 1, i - 1) \in Seq(Lines)
        /\ Len(SubSeq(q, 1, i - 1)) = IF 1 <= i - 1 THEN i - 1 - 1 + 1 ELSE 0
        /\ \A j \in 1..(i - 1 - 1 + 1) : SubSeq(q, 1, i - 1)[j] = q[1 + j - 1]
    BY <1>1, SubSeqProperties
  <2>. QED  BY <2>1
<1>3. /\ r \in Seq(Lines) /\ Len(r) = Len(q) - i
      /\ \A j \in 1..(Len(q) - i) : r[j] = q[i + j]
  <2>1. /\ SubSeq(q, i + 1, Len(q)) \in Seq(Lines)
        /\ Len(SubSeq(q, i + 1, Len(q))) = IF i + 1 <= Len(q) THEN Len(q) - (i + 1) + 1 ELSE 0
        /\ \A j \in 1..(Len(q) - (i + 1) + 1) : SubSeq(q, i + 1, Len(q))[j] = q[i + 1 + j - 1]
    BY <1>1, SubSeqProperties
  <2>2. \A j \in 1..(Len(q) - i) : i + 1 + j - 1 = i + j
    BY <1>1
  <2>. QED  BY <1>1, <2>1, <2>2
<1>. HIDE DEF p, r
<1>4. /\ p \o r \in Seq(Lines) /\ Len(p \o r) = Len(p) + Len(r)
      /\ \A j \in 1..(Len(p) + Len(r)) : (p \o r)[j] = IF j <= Len(p) THEN p[j] ELSE r[j - Len(p)]
  BY <1>2, <1>3, ConcatProperties
<1>5. ASSUME NEW j \in 1..(Len(q) - 1) PROVE (p \o r)[j] = IF j < i THEN q[j] ELSE q[j + 1]
  <2>1. CASE j < i
    BY <1>1, <1>2, <1>3, <1>4, <2>1
  <2>2. CASE ~(j < i)
    <3>1. j - (i - 1) \in 1..(Len(q) - i) /\ i + (j - (i - 1)) = j + 1
      BY <1>1, <2>2
    <3>2. (p \o r)[j] = r[j - (i - 1)]
      BY <1>1, <1>2, <1>3, <1>4, <2>2
    <3>. QED  BY <1>3, <2>2, <3>1, <3>2
  <2>. QED  BY <2>1, <2>2
<1>6. C!RemoveAt(q, i) = p \o r
  BY DEF C!RemoveAt, p, r
<1>. QED  BY <1>1, <1>2, <1>3, <1>4, <1>5, <1>6

\* A line that is taken out is on no note any more, unless a logger has read it.
LEMMA EditKeeps ==
    ASSUME LogInv, NEW d \in C!Days, NEW i \in 1..MaxLines, C!EditDown(d, i)
    PROVE  LogInv'
<1>. DEFINE q == daily[d]  r == C!RemoveAt(q, i)  x == q[i]
<1>1. /\ UNCHANGED <<log, session, seen, today, logged, had, shown>>
      /\ daily' = [daily EXCEPT ![d] = r] /\ i \in DOMAIN q
      /\ undone' = IF \E l \in Loggers : At(l, d) THEN undone \cup {d} ELSE undone
  BY DEF C!EditDown, At
<1>2. /\ q \in Seq(Lines) /\ Distinct(q) /\ C!ToSet(q) \subseteq had[d]
      /\ had[d] \subseteq 1..logged /\ undone \subseteq C!Days
  BY DEF LogInv, Noted, Fresh
<1>. HIDE DEF q
<1>3. Len(q) \in Nat /\ DOMAIN q = 1..Len(q) /\ i \in 1..Len(q)
  BY <1>1, <1>2
<1>4. /\ r \in Seq(Lines) /\ Len(r) = Len(q) - 1 /\ DOMAIN r = 1..Len(r)
      /\ \A j \in 1..(Len(q) - 1) : r[j] = IF j < i THEN q[j] ELSE q[j + 1]
  <2>1. /\ r \in Seq(Lines) /\ Len(r) = Len(q) - 1
        /\ \A j \in 1..(Len(q) - 1) : r[j] = IF j < i THEN q[j] ELSE q[j + 1]
    <3>. HIDE DEF r
    <3>1. r = C!RemoveAt(q, i)
      BY DEF r
    <3>. QED  BY <1>2, <1>3, <3>1, RemovedFrom
  <2>. HIDE DEF r
  <2>. QED  BY <2>1
<1>. HIDE DEF r
<1>5. \A j \in 1..Len(r) : \E k \in 1..Len(q) : k # i /\ r[j] = q[k]
  <2>1. ASSUME NEW j \in 1..Len(r), j < i PROVE j \in 1..Len(q) /\ j # i /\ r[j] = q[j]
    BY <1>3, <1>4, <2>1
  <2>2. ASSUME NEW j \in 1..Len(r), ~(j < i) PROVE j + 1 \in 1..Len(q) /\ j + 1 # i /\ r[j] = q[j + 1]
    BY <1>3, <1>4, <2>2
  <2>. QED  BY <2>1, <2>2
<1>6. C!ToSet(r) \subseteq C!ToSet(q) /\ x \notin C!ToSet(r) /\ x \in had[d]
  <2>1. \A j \in DOMAIN r : \E k \in DOMAIN q : r[j] = q[k]
    BY <1>3, <1>4, <1>5
  <2>4. C!ToSet(r) \subseteq C!ToSet(q)
    BY <2>1 DEF C!ToSet
  <2>2. x \notin C!ToSet(r)
    BY <1>2, <1>3, <1>4, <1>5 DEF C!ToSet, Distinct
  <2>3. x \in C!ToSet(q)
    BY <1>3 DEF C!ToSet
  <2>. QED  BY <1>2, <2>2, <2>3, <2>4
<1>7. Distinct(r)
  <2>. SUFFICES ASSUME NEW j \in 1..Len(r), NEW k \in 1..Len(r), r[j] = r[k] PROVE j = k
    BY DEF Distinct
  <2>. DEFINE was(n) == IF n < i THEN n ELSE n + 1
  <2>1. was(j) \in 1..Len(q) /\ was(k) \in 1..Len(q) /\ r[j] = q[was(j)] /\ r[k] = q[was(k)]
    BY <1>3, <1>4
  <2>2. was(j) = was(k)
    <3>. HIDE DEF was
    <3>. QED  BY <1>2, <2>1 DEF Distinct
  <2>. QED  BY <1>3, <2>2
<1>8. /\ daily' \in [C!Days -> Seq(Lines)] /\ daily'[d] = r
      /\ \A e \in C!Days \ {d} : daily'[e] = daily[e]
  BY <1>1, <1>4 DEF LogInv, Noted
<1>9. undone \subseteq undone' /\ undone' \subseteq C!Days
  BY <1>1, <1>2
<1>10. Noted' /\ Logging'
  BY <1>1, <1>8, <1>9 DEF LogInv, Noted, Logging
<1>11. Fresh'
  <2>1. ASSUME NEW e \in C!Days PROVE C!ToSet(daily'[e]) \subseteq had[e] /\ Distinct(daily'[e])
    BY <1>2, <1>6, <1>7, <1>8 DEF LogInv, Fresh
  <2>. QED  BY <1>1, <2>1 DEF LogInv, Fresh
<1>12. ASSUME NEW e \in C!Days \ undone', NEW p \in Carried(e)', had'[e] \subseteq C!ToSet(p)
       PROVE  Starts(daily'[e], p) /\ Shown(e, p)
  <2>1. CASE e = d
    <3>1. ~ \E l \in Loggers : At(l, d)
      BY <1>1, <1>12, <2>1
    <3>2. p = r
      BY <1>1, <1>8, <2>1, <3>1 DEF Carried, At
    <3>. QED  BY <1>1, <1>6, <1>12, <2>1, <3>2
  <2>2. CASE e # d
    <3>1. p \in Carried(e) /\ daily'[e] = daily[e] /\ e \notin undone
      BY <1>1, <1>8, <1>9, <1>12, <2>2 DEF Carried, At
    <3>. QED  BY <1>1, <1>12, <3>1 DEF LogInv, Chained
  <2>. QED  BY <2>1, <2>2
<1>. QED  BY <1>1, <1>10, <1>11, <1>12, SessionsStay

LEMMA LogKeeps == ASSUME LogInv, [C!Next]_(C!vars) PROVE LogInv'
<1>1. ASSUME NEW l \in Loggers, (\E d \in C!Days : C!ReadNote(l, d)) \/ C!Empty(l) \/ C!Fill(l) \/ C!LoggerDies(l)
      PROVE  LogInv'
  BY <1>1, ReadKeeps, EmptyKeeps, FillKeeps, LoggerDiesKeeps
<1>2. ASSUME NEW d \in C!Days, NEW i \in 1..MaxLines, C!EditDown(d, i) PROVE LogInv'
  BY <1>2, EditKeeps
<1>3. ASSUME NEW s \in Sessions,
             C!LoadBookmark(s) \/ C!Scan(s) \/ C!WriteCatchup(s) \/ C!Save(s) \/ C!SessionDies(s)
      PROVE  LogInv'
  BY <1>3, LoadKeeps, ScanKeeps, WriteKeeps, SaveKeeps, SessionDiesKeeps
<1>4. CASE C!NewDay
  BY <1>4, NewDayKeeps
<1>5. CASE UNCHANGED C!vars
  <2>1. UNCHANGED <<daily, log, session, seen, today, logged, had, shown, undone>>
    BY <1>5 DEF C!vars
  <2>2. Noted' /\ Logging' /\ Fresh'
    BY <2>1 DEF LogInv, Noted, Logging, Fresh
  <2>3. \A e \in C!Days : Carried(e)' \subseteq Carried(e)
    BY <2>1 DEF Carried, At
  <2>. QED  BY <2>1, <2>2, <2>3, NoneComes
<1>. QED  BY <1>1, <1>2, <1>3, <1>4, <1>5 DEF C!Next

LEMMA LogImplies == ASSUME LogInv PROVE C!BookmarkIsShown
<1>1. ASSUME NEW d \in DOMAIN seen \ undone, C!Whole(d), NEW i \in DOMAIN daily[d], i <= seen[d]
      PROVE  daily[d][i] \in shown
  <2>1. d \in C!Days /\ daily[d] \in Seq(Lines) /\ daily[d] \in Carried(d)
    BY DEF LogInv, Noted, Carried
  <2>2. Shown(d, daily[d])
    BY <1>1, <2>1 DEF LogInv, Chained, C!Whole
  <2>3. i \in Nat \ {0} /\ seen[d] \in Nat
    BY <2>1 DEF LogInv, Noted, Lines
  <2>. QED  BY <1>1, <2>2, <2>3 DEF Shown, Passed
<1>. QED  BY <1>1 DEF C!BookmarkIsShown

LEMMA LogIsTyped == ASSUME LogInv PROVE C!TypeOK
<1>1. \A d \in C!Days : C!ToSet(daily[d]) \subseteq had[d] /\ had[d] \subseteq 1..MaxLines
  BY DEF LogInv, Noted, Fresh, Lines
<1>2. \A l \in Loggers : log[l].pc \in {"idle", "empty", "fill"}
  BY DEF LogInv, Logging
<1>3. \A s \in Sessions : session[s].pc \in {"idle", "scan", "write", "save"}
  BY DEF LogInv, Scanning
<1>4. /\ DOMAIN seen \subseteq C!Days /\ \A d \in DOMAIN seen : seen[d] \in 1..MaxLines
      /\ today \in C!Days /\ logged \in 0..MaxLines
  BY DEF LogInv, Noted, Lines
<1>. QED  BY <1>1, <1>2, <1>3, <1>4 DEF C!TypeOK

LEMMA LogMoves == ASSUME [RoutineNext]_routineVars PROVE [C!Next]_(C!vars)
BY DEF RoutineNext, routineVars, logVars, C!vars

LEMMA LogHolds == RoutineSpec => []LogInv
<1>1. RoutineInit => LogInv
  BY LogInitHolds DEF RoutineInit
<1>2. LogInv /\ [RoutineNext]_routineVars => LogInv'
  BY LogMoves, LogKeeps
<1>. QED  BY <1>1, <1>2, PTL DEF RoutineSpec

\* catchup.go: the bookmark passes no line of a whole note that no session printed.  For
\* any number of loggers, sessions, days and lines.
THEOREM BookmarkIsShownHolds == RoutineSpec => []BookmarkIsShown
<1>1. LogInv => BookmarkIsShown
  BY LogImplies DEF BookmarkIsShown
<1>. QED  BY <1>1, LogHolds, PTL

-----------------------------------------------------------------------------
(* All parts.                                                               *)

LEMMA DayMoves == ASSUME [RoutineNext]_routineVars PROVE [Next]_vars
BY DEF RoutineNext, routineVars, dayVars

\* Every reachable state of every part is well-typed: no row of reconcile is created in
\* the future, no result is imported that was not remembered, each row of the ledger is of
\* a run of its own, and each note and row of memory of a use of its own.
THEOREM PartsTypeOKHolds == RoutineSpec => []PartsTypeOK
<1>. DEFINE I == (TypeOK /\ LocalsInv) /\ (RunInv /\ Tallied) /\ (LedInv /\ Numbered)
                 /\ (MemInv /\ Bounded) /\ LogInv
<1>1. RoutineInit => I
  BY InitTypeOK, RunStarts, TallyStarts, LedStarts, NumbersStart, MemStarts, BoundsStart, LogInitHolds
     DEF RoutineInit
<1>2. ASSUME I, [RoutineNext]_routineVars PROVE I'
  <2>1. (TypeOK /\ LocalsInv)'
    <3>1. CASE UNCHANGED vars
      BY <1>2, <3>1 DEF TypeOK, LocalsInv, vars
    <3>2. CASE Next
      BY <1>2, <3>2, RoundTypeOK, InsertingRoundTypeOK, WorkTypeOK, OtherTypeOK DEF Next
    <3>. QED  BY <1>2, <3>1, <3>2, DayMoves
  <2>2. RunInv' /\ Tallied'
    BY <1>2, RunMoves, RunKeeps, TallyKeeps
  <2>3. LedInv' /\ Numbered'
    BY <1>2, LedgerMoves, LedKeeps, NumbersKeep
  <2>4. MemInv' /\ Bounded'
    BY <1>2, MemoryMoves, MemKeeps, BoundsKeep
  <2>5. LogInv'
    BY <1>2, LogMoves, LogKeeps
  <2>. QED  BY <2>1, <2>2, <2>3, <2>4, <2>5
<1>3. I => PartsTypeOK
  BY RunIsTyped, LedIsTyped, MemIsTyped, LogIsTyped DEF PartsTypeOK
<1>. QED  BY <1>1, <1>2, <1>3, PTL DEF RoutineSpec
===============================================================================
