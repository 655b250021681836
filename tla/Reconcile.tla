----------------------------- MODULE Reconcile -----------------------------
(***************************************************************************)
(* The daily guarantee for must_run routines (internal/reconcile,          *)
(* cmd/qilla/reconcile.go, the page's reconcile button): a round reads the *)
(* ledger and the job table routine by routine and enqueues what is        *)
(* missing, while the routine's own timer enqueues, the worker runs jobs   *)
(* and records them, the page drops and retries jobs, and the day goes by. *)
(*                                                                         *)
(* The unit of atomicity is one SQL statement: a round holds no            *)
(* transaction, and it runs in another process (the reconcile timer) or    *)
(* another goroutine (the page) than the drain.  A round captures the time *)
(* once, at its start; the rows it inserts are stamped with the clock.     *)
(* The wall clock is a day and an hour of that day.                        *)
(***************************************************************************)
EXTENDS Naturals, FiniteSets

CONSTANTS
    Routines,     \* the must_run routines
    Reconcilers,  \* processes and goroutines that may be inside a round
    Window,       \* routine -> [from, to) in hours; no window = the whole day
    MaxAttempts,  \* attempts a job is given
    LastHour,     \* hours of a day: 0..LastHour
    LastDay,      \* bound: days modelled
    MaxJobs,      \* bound: rows ever inserted
    MaxTimers,    \* bound: firings of the routines' own timers
    MaxPageOps,   \* bound: presses of retry and drop
    MaxErrors,    \* bound: statements of a round that fail
    MaxLost,      \* bound: ledger rows that are not written
    MaxCrashes,   \* bound: deaths of the supervisor
    MaxHolds      \* bound: jobs put back by a gate or a Deferred error

ASSUME WindowAssumption ==
    Window \in [Routines -> [from: Nat, to: Nat]]
ASSUME ReconcileBounds ==
    /\ {MaxAttempts, LastHour, LastDay, MaxJobs, MaxTimers, MaxPageOps,
        MaxErrors, MaxLost, MaxCrashes, MaxHolds} \subseteq Nat
    /\ MaxAttempts # 0

VARIABLES
    jobs,    \* the rows of the table, by id
    nextId,
    ok,      \* ledger: <<routine, day>> with a run of ok=1
    day, hour,
    rec,     \* per reconciler: program counter and locals of its round
    timer,   \* routines whose timer is between its SELECT and its INSERT
    worker,  \* the drain: program counter and locals
    used,    \* how much of each bound was used
    (* history, read by properties only *)
    unpoked, \* per reconciler, rows its last round inserted unpoked
    cut,     \* reconcilers whose last round was cut short by an error
    racing,  \* reconcilers that asked for a late job when another had asked and not inserted
    raced,   \* rows that such a round inserted
    orphans  \* rows a dead supervisor had in its hands

history == <<unpoked, cut, racing, raced, orphans>>
vars == <<jobs, nextId, ok, day, hour, rec, timer, worker, used, history>>

Days == 0..LastDay
Hours == 0..LastHour
JobIds == 1..MaxJobs
JobStates == {"queued", "running", "done", "failed", "suspended"}

\* A row; created and due are kept as days.
Row == [state: JobStates, routine: Routines, late: BOOLEAN, created: Days,
        due: 0..(LastDay + 1), attempts: 0..MaxAttempts]
NoRow == [state |-> "none"]

RecPCs == {"idle", "routine", "pending", "late", "lookup", "insert"}
RoundLocals == [pc: RecPCs, day: Days, hour: Hours, todo: SUBSET Routines,
                r: Routines \cup {"none"}, late: BOOLEAN, enqueued: BOOLEAN]
AtRest == [pc |-> "idle", day |-> 0, hour |-> 0, todo |-> {}, r |-> "none",
           late |-> FALSE, enqueued |-> FALSE]
WorkerLocals == [pc: {"idle", "gate", "run", "settle"}, id: 0..MaxJobs,
                 started: Days, end: {"none", "ok", "failed", "deferred"}]
Resting == [pc |-> "idle", id |-> 0, started |-> 0, end |-> "none"]

Spend(what) == used' = [used EXCEPT ![what] = @ + 1]

Of(r) == {id \in JobIds : jobs[id] # NoRow /\ jobs[id].routine = r}

Init ==
    /\ jobs = [id \in JobIds |-> NoRow]
    /\ nextId = 1
    /\ ok = {}
    /\ day = 0 /\ hour = 0
    /\ rec = [c \in Reconcilers |-> AtRest]
    /\ timer = {}
    /\ worker = Resting
    /\ used = [timers |-> 0, page |-> 0, errors |-> 0, lost |-> 0,
             crashes |-> 0, holds |-> 0]
    /\ unpoked = [c \in Reconcilers |-> {}]
    /\ cut = {} /\ racing = {} /\ raced = {} /\ orphans = {}

-----------------------------------------------------------------------------
(* What a round asks.                                                       *)

SucceededToday(d, r) == <<r, d>> \in ok

\* Mutant: every row of the routine counts.
HasPending_AnyRow(r) == Of(r) # {}

HasPending(r) == \E id \in Of(r) : jobs[id].state \in {"queued", "running"}

\* A window that ends before it begins has no inside.
Position(r, h) ==
    CASE h < Window[r].from -> "before"
      [] h >= Window[r].from /\ h >= Window[r].to -> "after"
      [] OTHER -> "inside"

\* Mutant: a late job that is finished does not count.
HadLateJob_Unfinished(r, d) ==
    \E id \in Of(r) : /\ jobs[id].late
                      /\ jobs[id].created >= d
                      /\ jobs[id].state \in {"queued", "running"}

\* created >= the first second of the day, with no upper end.
HadLateJob(r, d) ==
    \E id \in Of(r) : jobs[id].late /\ jobs[id].created >= d

\* Enqueue's SELECT: the queued routine jobs.
Waiting(r) == {id \in Of(r) : jobs[id].state = "queued"}

\* Enqueue's INSERT.  Due is the caller's time, created the clock's.
Insert(r, late, dueDay) ==
    /\ nextId \in JobIds
    /\ jobs' = [jobs EXCEPT ![nextId] =
                  [state |-> "queued", routine |-> r, late |-> late,
                   created |-> day, due |-> dueDay, attempts |-> 0]]
    /\ nextId' = nextId + 1

-----------------------------------------------------------------------------
(* A round: RunWith, one statement at a time.                               *)

\* The locals of a round: at its start, while it asks about routine r, and
\* when r needs nothing more.
Begun == [pc |-> "routine", day |-> day, hour |-> hour, todo |-> Routines,
          r |-> "none", late |-> FALSE, enqueued |-> FALSE]
Asking(c, pc, r, late) ==
    [pc |-> pc, day |-> rec[c].day, hour |-> rec[c].hour, todo |-> rec[c].todo,
     r |-> r, late |-> late, enqueued |-> rec[c].enqueued]
DoneWith(c, r, enqueued) ==
    [pc |-> "routine", day |-> rec[c].day, hour |-> rec[c].hour,
     todo |-> rec[c].todo \ {r}, r |-> "none", late |-> FALSE, enqueued |-> enqueued]

\* The step of a round that only moves it along, to the locals l.
MovesTo(c, l) ==
    /\ rec' = [rec EXCEPT ![c] = l]
    /\ UNCHANGED <<jobs, nextId, ok, day, hour, timer, worker, used>>

Begin(c) ==
    /\ rec[c].pc = "idle"
    /\ MovesTo(c, Begun)
    /\ unpoked' = [unpoked EXCEPT ![c] = {}]
    /\ cut' = cut \ {c}
    /\ UNCHANGED <<racing, raced, orphans>>

ReportDone(c, r) ==
    /\ rec[c].pc = "routine"
    /\ r \in rec[c].todo
    /\ SucceededToday(rec[c].day, r)
    /\ MovesTo(c, DoneWith(c, r, rec[c].enqueued))
    /\ UNCHANGED history

NotDone(c, r) ==
    /\ rec[c].pc = "routine"
    /\ r \in rec[c].todo
    /\ ~SucceededToday(rec[c].day, r)
    /\ MovesTo(c, Asking(c, "pending", r, FALSE))
    /\ UNCHANGED history

ReportQueued(c) ==
    /\ rec[c].pc = "pending"
    /\ HasPending(rec[c].r)
    /\ MovesTo(c, DoneWith(c, rec[c].r, rec[c].enqueued))
    /\ UNCHANGED history

\* Before the window ("waiting"), or inside it with the routine's own timer
\* about to fire ("scheduled"; what systemd says of the timer is free).
LeaveAlone(c) ==
    /\ rec[c].pc = "pending"
    /\ ~HasPending(rec[c].r)
    /\ Position(rec[c].r, rec[c].hour) \in {"before", "inside"}
    /\ MovesTo(c, DoneWith(c, rec[c].r, rec[c].enqueued))
    /\ UNCHANGED history

\* Inside the window it enqueues; after it, it asks first for a late job.
Decide(c) ==
    /\ rec[c].pc = "pending"
    /\ ~HasPending(rec[c].r)
    /\ \/ /\ Position(rec[c].r, rec[c].hour) = "inside"
          /\ MovesTo(c, Asking(c, "lookup", rec[c].r, FALSE))
       \/ /\ Position(rec[c].r, rec[c].hour) = "after"
          /\ MovesTo(c, Asking(c, "late", rec[c].r, TRUE))
    /\ UNCHANGED history

\* The rounds that have asked for a late job of r and are about to insert one.
AboutToInsert(r) == {c \in Reconcilers :
    rec[c].pc \in {"lookup", "insert"} /\ rec[c].late /\ rec[c].r = r}

AskLate(c) ==
    /\ rec[c].pc = "late"
    /\ \/ /\ HadLateJob(rec[c].r, rec[c].day)
          /\ MovesTo(c, DoneWith(c, rec[c].r, rec[c].enqueued))
          /\ UNCHANGED racing
       \/ /\ ~HadLateJob(rec[c].r, rec[c].day)
          /\ MovesTo(c, Asking(c, "lookup", rec[c].r, rec[c].late))
          /\ racing' = IF AboutToInsert(rec[c].r) = {} THEN racing \ {c}
                       ELSE racing \cup {c} \cup AboutToInsert(rec[c].r)
    /\ UNCHANGED <<unpoked, cut, raced, orphans>>

\* Enqueue's SELECT.  A job it finds counts as enqueued.
EnqueueLookup(c) ==
    /\ rec[c].pc = "lookup"
    /\ \/ /\ Waiting(rec[c].r) # {}
          /\ MovesTo(c, DoneWith(c, rec[c].r, TRUE))
       \/ /\ Waiting(rec[c].r) = {}
          /\ MovesTo(c, Asking(c, "insert", rec[c].r, rec[c].late))
    /\ UNCHANGED history

\* Mutant: only a late job sets the flag that makes the caller poke.
EnqueueInsert_LateOnly(c) ==
    /\ rec[c].pc = "insert"
    /\ Insert(rec[c].r, rec[c].late, rec[c].day)
    /\ rec' = [rec EXCEPT ![c] = DoneWith(c, rec[c].r, rec[c].enqueued \/ rec[c].late)]
    /\ unpoked' = [unpoked EXCEPT ![c] = @ \cup {nextId}]
    /\ raced' = raced \cup (IF c \in racing THEN {nextId} ELSE {})
    /\ UNCHANGED <<ok, day, hour, timer, worker, used, cut, racing, orphans>>

EnqueueInsert(c) ==
    /\ rec[c].pc = "insert"
    /\ Insert(rec[c].r, rec[c].late, rec[c].day)
    /\ rec' = [rec EXCEPT ![c] = DoneWith(c, rec[c].r, TRUE)]
    /\ unpoked' = [unpoked EXCEPT ![c] = @ \cup {nextId}]
    /\ raced' = raced \cup (IF c \in racing THEN {nextId} ELSE {})
    /\ UNCHANGED <<ok, day, hour, timer, worker, used, cut, racing, orphans>>

\* The caller pokes (the command) or kicks (the page) when told to.
Finish(c) ==
    /\ rec[c].pc = "routine"
    /\ rec[c].todo = {}
    /\ MovesTo(c, AtRest)
    /\ unpoked' = [unpoked EXCEPT ![c] = IF rec[c].enqueued THEN {} ELSE @]
    /\ UNCHANGED <<cut, racing, raced, orphans>>

\* Any statement of the round fails: RunWith answers (nil, false, err), the
\* caller returns the error.
Fails(c) ==
    /\ \/ rec[c].pc \in {"pending", "late", "lookup", "insert"}
       \/ rec[c].pc = "routine" /\ rec[c].todo # {}
    /\ used.errors < MaxErrors
    /\ Spend("errors")
    /\ rec' = [rec EXCEPT ![c] = AtRest]
    /\ cut' = cut \cup {c}
    /\ UNCHANGED <<jobs, nextId, ok, day, hour, timer, worker, unpoked, racing, raced, orphans>>

Round(c) ==
    \/ Begin(c)
    \/ \E r \in Routines : ReportDone(c, r) \/ NotDone(c, r)
    \/ ReportQueued(c)
    \/ LeaveAlone(c)
    \/ Decide(c)
    \/ AskLate(c)
    \/ EnqueueLookup(c)
    \/ EnqueueInsert(c)
    \/ Finish(c)

-----------------------------------------------------------------------------
(* The routine's own timer: qilla enqueue <routine>.                        *)

TimerLookup(r) ==
    /\ used.timers < MaxTimers
    /\ r \notin timer
    /\ Waiting(r) = {}
    /\ Spend("timers")
    /\ timer' = timer \cup {r}
    /\ UNCHANGED <<jobs, nextId, ok, day, hour, rec, worker, history>>

TimerInsert(r) ==
    /\ r \in timer
    /\ Insert(r, FALSE, day)
    /\ timer' = timer \ {r}
    /\ UNCHANGED <<ok, day, hour, rec, worker, used, history>>

-----------------------------------------------------------------------------
(* The drain, as far as the table and the ledger see it.                    *)

Take(id) ==
    /\ worker.pc = "idle"
    /\ jobs[id] # NoRow
    /\ jobs[id].state = "queued"
    /\ jobs[id].due <= day
    /\ jobs' = [jobs EXCEPT ![id].state = "running"]
    /\ worker' = [Resting EXCEPT !.pc = "gate", !.id = id]
    /\ UNCHANGED <<nextId, ok, day, hour, rec, timer, used, history>>

\* The budget gate puts the job back until the next midnight.
\* Mutant: of the day after that.
Blocked_SkipsADay ==
    /\ worker.pc = "gate"
    /\ used.holds < MaxHolds
    /\ Spend("holds")
    /\ jobs' = [jobs EXCEPT ![worker.id].state = "queued",
                            ![worker.id].due = day + 2]
    /\ worker' = Resting
    /\ UNCHANGED <<nextId, ok, day, hour, rec, timer, history>>

Blocked ==
    /\ worker.pc = "gate"
    /\ used.holds < MaxHolds
    /\ Spend("holds")
    /\ jobs' = [jobs EXCEPT ![worker.id].state = "queued",
                            ![worker.id].due = day + 1]
    /\ worker' = Resting
    /\ UNCHANGED <<nextId, ok, day, hour, rec, timer, history>>

\* Worker.Run notes the start; the ledger row will carry its day.
StartRun ==
    /\ worker.pc = "gate"
    /\ worker' = [worker EXCEPT !.pc = "run", !.started = day]
    /\ UNCHANGED <<jobs, nextId, ok, day, hour, rec, timer, used, history>>

\* OnRun comes before the job is settled.  The INSERT's error is dropped, so
\* a success may leave no row.
RecordRun(end) ==
    /\ worker.pc = "run"
    /\ end = "deferred" => used.holds < MaxHolds
    /\ worker' = [worker EXCEPT !.pc = "settle", !.end = end]
    /\ \/ /\ ok' = IF end = "ok"
                   THEN ok \cup {<<jobs[worker.id].routine, worker.started>>}
                   ELSE ok
          /\ UNCHANGED used
       \/ /\ end = "ok"
          /\ used.lost < MaxLost
          /\ Spend("lost")
          /\ UNCHANGED ok
    /\ UNCHANGED <<jobs, nextId, day, hour, rec, timer, history>>

\* Done; Requeue until the usage window resets; Fail with attempts left, or not
\* (a Terminal error allows one).
Settle ==
    /\ worker.pc = "settle"
    /\ LET row == jobs[worker.id]
           tried == row.attempts + 1
       IN  \/ /\ worker.end = "ok"
              /\ jobs' = [jobs EXCEPT ![worker.id].state = "done"]
              /\ UNCHANGED used
           \/ /\ worker.end = "deferred"
              /\ \E d \in {day, day + 1} :
                   jobs' = [jobs EXCEPT ![worker.id].state = "queued",
                                        ![worker.id].due = d]
              /\ Spend("holds")
           \/ /\ worker.end = "failed"
              /\ \E max \in {1, MaxAttempts} :
                   jobs' = [jobs EXCEPT ![worker.id].state =
                                IF tried < max THEN "queued" ELSE "failed",
                            ![worker.id].attempts =
                                IF tried < MaxAttempts THEN tried ELSE MaxAttempts]
              /\ UNCHANGED used
    /\ worker' = Resting
    /\ UNCHANGED <<nextId, ok, day, hour, rec, timer, history>>

\* The supervisor dies; its row stays running and nobody ever resets it.
Crash ==
    /\ worker.pc # "idle"
    /\ used.crashes < MaxCrashes
    /\ Spend("crashes")
    /\ worker' = Resting
    /\ orphans' = orphans \cup {worker.id}
    /\ UNCHANGED <<jobs, nextId, ok, day, hour, rec, timer, unpoked, cut, racing, raced>>

Work ==
    \/ \E id \in JobIds : Take(id)
    \/ StartRun
    \/ \E end \in {"ok", "failed", "deferred"} : RecordRun(end)
    \/ Settle

-----------------------------------------------------------------------------
(* The page's buttons, and time.                                            *)

Drop(id) ==
    /\ jobs[id] # NoRow
    /\ used.page < MaxPageOps
    /\ Spend("page")
    /\ jobs' = [jobs EXCEPT ![id].state = "suspended"]
    /\ UNCHANGED <<nextId, ok, day, hour, rec, timer, worker, history>>

Retry(id) ==
    /\ jobs[id] # NoRow
    /\ used.page < MaxPageOps
    /\ Spend("page")
    /\ jobs' = [jobs EXCEPT ![id].state = "queued", ![id].due = day]
    /\ UNCHANGED <<nextId, ok, day, hour, rec, timer, worker, history>>

Tick ==
    /\ \/ hour < LastHour /\ hour' = hour + 1 /\ UNCHANGED day
       \/ hour = LastHour /\ day < LastDay /\ hour' = 0 /\ day' = day + 1
    /\ UNCHANGED <<jobs, nextId, ok, rec, timer, worker, used, history>>

Next ==
    \/ \E c \in Reconcilers : Round(c) \/ Fails(c)
    \/ \E r \in Routines : TimerLookup(r) \/ TimerInsert(r)
    \/ Work
    \/ Blocked
    \/ Crash
    \/ \E id \in JobIds : Drop(id) \/ Retry(id)
    \/ Tick

Spec == Init /\ [][Next]_vars

\* The reconcile timer fires every half hour and a round does not stop half
\* way; the drain works off what is due.  Nothing is assumed of the clock, of
\* the page, of errors or of crashes.
Fairness ==
    /\ \A c \in Reconcilers : WF_vars(Round(c))
    /\ WF_vars(Work)
    /\ \A r \in Routines : WF_vars(TimerInsert(r))

FairSpec == Spec /\ Fairness

-----------------------------------------------------------------------------
(* Properties.                                                              *)

\* Rows, rounds and the worker keep their shape; a row is never due later
\* than the next midnight and never created in the future.
TypeOK ==
    /\ jobs \in [JobIds -> Row \cup {NoRow}]
    /\ nextId \in 1..(MaxJobs + 1)
    /\ ok \subseteq Routines \X Days
    /\ day \in Days /\ hour \in Hours
    /\ rec \in [Reconcilers -> RoundLocals]
    /\ timer \subseteq Routines
    /\ worker \in WorkerLocals
    /\ used \in [{"timers", "page", "errors", "lost", "crashes", "holds"} -> Nat]
    /\ unpoked \in [Reconcilers -> SUBSET JobIds]
    /\ cut \subseteq Reconcilers /\ racing \subseteq Reconcilers
    /\ raced \subseteq JobIds /\ orphans \subseteq JobIds
    /\ \A id \in JobIds : jobs[id] # NoRow => jobs[id].created <= day

\* A routine that missed its window is enqueued late once on a day (hadLateJob): two
\* late rows of a routine are of the same day only when the rounds that inserted them,
\* the timer's and the page's, had both asked before either inserted.
OneLateJobPerDay ==
    \A i, j \in JobIds :
        /\ jobs[i] # NoRow /\ jobs[j] # NoRow
        /\ jobs[i].late /\ jobs[j].late
        /\ jobs[i].routine = jobs[j].routine
        /\ jobs[i].created = jobs[j].created
        => i = j \/ {i, j} \subseteq raced

\* Whatever a round put into the table, it has woken the supervisor for by the time it
\* is over (the bool RunWith returns for its caller to poke), unless a statement for a
\* later routine failed, which loses the bool.
InsertedIsPoked == \A c \in Reconcilers : rec[c].pc = "idle" => unpoked[c] = {} \/ c \in cut

\* Somebody is going to run this row, or is running it.
Live(id) == \/ jobs[id] # NoRow /\ jobs[id].state = "queued"
            \/ worker.pc # "idle" /\ worker.id = id

\* A round leaves a routine alone as queued only when one of its jobs is in
\* the queue or in the worker's hands (hasPending).
PendingIsLive ==
    [][\A c \in Reconcilers :
         ReportQueued(c) => \E id \in Of(rec[c].r) : Live(id)]_vars

\* A supervisor died with the row in its hands, and it reads running since.
Orphaned(id) == id \in orphans /\ jobs[id].state = "running"

\* What is left of it when supervisors die: one of the routine's jobs is in the queue,
\* in the worker's hands, or running for ever since it was in the hands of one that died.
PendingIsHeld ==
    [][\A c \in Reconcilers :
         ReportQueued(c) =>
            \E id \in Of(rec[c].r) : Live(id) \/ Orphaned(id)]_vars

\* The day of a must_run routine past its window comes to an end in one of
\* these ways, as long as the day lasts: it succeeded, it was tried late, its
\* job is put off to tomorrow, or a dead supervisor left it running.
\* (RowsUsedUp is the bound of the model.)
RowsUsedUp == nextId > MaxJobs
Accounted(r, d) ==
    \/ SucceededToday(d, r)
    \/ HadLateJob(r, d)
    \/ \E id \in Of(r) : \/ jobs[id].state = "queued" /\ jobs[id].due > d
                         \/ jobs[id].state = "running" /\ ~Live(id)
MissedDayIsAccounted ==
    \A r \in Routines, d \in Days :
        (day = d /\ hour >= Window[r].to)
            ~> (Accounted(r, d) \/ day > d \/ RowsUsedUp)
=============================================================================
