------------------------------ MODULE JobQueue ------------------------------
(***************************************************************************)
(* The job table (internal/queue/queue.go), the drain loop that empties it *)
(* (internal/queue/drain.go) and everything else that writes to it: the    *)
(* enqueuers (timers, the CLI, reconcile, the page) and the page's retry   *)
(* and drop buttons (internal/serve/http.go).                              *)
(*                                                                         *)
(* The unit of atomicity is ONE SQL STATEMENT.  Store methods that issue   *)
(* several (Enqueue, Next, Fail) hold no transaction across them, and the  *)
(* writers are separate processes or HTTP goroutines, so another writer    *)
(* can come between any two.                                               *)
(*                                                                         *)
(* The table is kept column by column.  The columns a job is inserted with *)
(* and that never change are the record job[id]; state, due and attempts   *)
(* are the ones that do.  Time is counted in ticks.                        *)
(***************************************************************************)
EXTENDS Naturals, Sequences

CONSTANTS
    Routines,     \* names a job can carry
    Enqueuers,    \* processes and goroutines that may be inside Enqueue at once
    Priorities,   \* the priorities callers pass
    Lifetimes,    \* how long a job stays valid; 0 = no not_after
    Waits,        \* how far a gate or a Deferred error can push a job
    Backoff,      \* delays between attempts
    MaxAttempts,  \* attempts a routine allows
    MaxJobs,      \* bound: rows ever inserted
    MaxTime,      \* bound: last tick of the clock
    MaxPageOps,   \* bound: presses of retry and drop
    MaxAborts     \* bound: drains cut short (crash or SQL error)

ASSUME RoutinesAssumption == Routines # {}
ASSUME PrioritiesAssumption == Priorities \subseteq Nat
ASSUME LifetimesAssumption == Lifetimes \subseteq Nat
ASSUME WaitsAssumption == Waits \subseteq Nat \ {0}
ASSUME BackoffAssumption == Backoff \in Seq(Nat \ {0}) /\ Backoff # <<>>
ASSUME AttemptsAssumption == MaxAttempts \in [Routines -> Nat \ {0}]
ASSUME BoundsAssumption == /\ MaxJobs \in Nat
                           /\ MaxTime \in Nat
                           /\ MaxPageOps \in Nat
                           /\ MaxAborts \in Nat

VARIABLES
    state,     \* column: job state, "none" for an id not inserted yet
    job,       \* columns fixed at insertion
    due,       \* column
    attempts,  \* column
    nextId,    \* the id the next INSERT gets
    now,       \* wall clock
    enq,       \* per enqueuer: the INSERT it is about to issue, or NoRequest
    drain,     \* the drain loop's program counter and locals
    aborts,    \* how often a drain was cut short
    pageOps,   \* how often the page was used
    (* history, read by properties only *)
    lastPick,  \* the time Next was called with when it last took the job, 0 = never
    retries,   \* how often the page re-opened the job
    owed,      \* jobs that answered an Enqueue and have not started a run since
    orphans,   \* jobs in the drain's hands when it was cut short
    insertedBy \* the enqueuer that inserted the row

columns == <<state, job, due, attempts, nextId>>
history == <<lastPick, retries, owed, orphans, insertedBy>>
vars == <<columns, now, enq, drain, aborts, pageOps, history>>

JobIds == 1..MaxJobs
JobStates == {"queued", "running", "done", "failed", "suspended", "expired"}

\* The arguments of one Enqueue call.  text is TRUE for an ask.
Request == [routine: Routines, text: BOOLEAN, prio: Priorities,
            due: Nat, notAfter: Nat]
NoRequest == [routine |-> "none"]

DrainPCs == {"idle", "loop", "select", "mark", "gate", "run", "failing"}
Idle == [pc |-> "idle", id |-> 0, t |-> 0, tried |-> 0, to |-> "none", due |-> 0]

\* The drain has taken this job and has not settled it.
InHand == drain.pc \in {"mark", "gate", "run", "failing"}
Held(id) == InHand /\ drain.id = id

Init ==
    /\ state = [id \in JobIds |-> "none"]
    /\ job = [id \in JobIds |-> NoRequest]
    /\ due = [id \in JobIds |-> 0]
    /\ attempts = [id \in JobIds |-> 0]
    /\ nextId = 1
    /\ now = 1
    /\ enq = [e \in Enqueuers |-> NoRequest]
    /\ drain = Idle
    /\ aborts = 0
    /\ pageOps = 0
    /\ lastPick = [id \in JobIds |-> 0]
    /\ retries = [id \in JobIds |-> 0]
    /\ owed = {}
    /\ orphans = {}
    /\ insertedBy = [id \in JobIds |-> "nobody"]

-----------------------------------------------------------------------------
(* Store.Enqueue: a SELECT for a waiting job of the routine, then an INSERT. *)

\* Mutants: the SELECT asks for text NULL and matches nothing, or it also
\* matches a job that is running.
Waiting_NullText(r) == {}

Waiting_OrRunning(r) == {id \in JobIds : /\ state[id] \in {"queued", "running"}
                                         /\ job[id].routine = r
                                         /\ ~job[id].text}

\* The rows the SELECT matches: queued routine jobs without a text.
Waiting(r) == {id \in JobIds : /\ state[id] = "queued"
                               /\ job[id].routine = r
                               /\ ~job[id].text}

\* The SELECT finds nothing, or is not issued for an ask: go on to the INSERT.
EnqueueLookup(e, r, text, prio, life) ==
    /\ enq[e] = NoRequest
    /\ text \/ Waiting(r) = {}
    /\ enq' = [enq EXCEPT ![e] =
                 [routine |-> r, text |-> text, prio |-> prio, due |-> now,
                  notAfter |-> IF life = 0 THEN 0 ELSE now + life]]
    /\ UNCHANGED <<columns, now, drain, aborts, pageOps, history>>

\* The SELECT finds a waiting job: its id is the answer, nothing is inserted.
EnqueueDeduped(e, r) ==
    /\ enq[e] = NoRequest
    /\ \E id \in Waiting(r) : owed' = owed \cup {id}
    /\ UNCHANGED <<columns, now, enq, drain, aborts, pageOps,
                   lastPick, retries, orphans, insertedBy>>

EnqueueInsert(e) ==
    /\ enq[e] # NoRequest
    /\ nextId \in JobIds
    /\ state' = [state EXCEPT ![nextId] = "queued"]
    /\ job' = [job EXCEPT ![nextId] = enq[e]]
    /\ due' = [due EXCEPT ![nextId] = enq[e].due]
    /\ nextId' = nextId + 1
    /\ enq' = [enq EXCEPT ![e] = NoRequest]
    /\ owed' = owed \cup {nextId}
    /\ insertedBy' = [insertedBy EXCEPT ![nextId] = e]
    /\ UNCHANGED <<attempts, now, drain, aborts, pageOps,
                   lastPick, retries, orphans>>

-----------------------------------------------------------------------------
(* Store.Next: expire, select, mark.                                        *)

StartDrain ==
    /\ drain.pc = "idle"
    /\ drain' = [Idle EXCEPT !.pc = "loop"]
    /\ UNCHANGED <<columns, now, enq, aborts, pageOps, history>>

\* Mutant: running jobs expire too.
Overdue_OrRunning(id, t) == /\ state[id] \in {"queued", "running"}
                            /\ job[id].notAfter > 0
                            /\ job[id].notAfter < t

Overdue(id, t) == /\ state[id] = "queued"
                  /\ job[id].notAfter > 0
                  /\ job[id].notAfter < t

ExpireOverdue ==
    /\ drain.pc = "loop"
    /\ state' = [id \in JobIds |->
                   IF Overdue(id, now) THEN "expired" ELSE state[id]]
    /\ drain' = [drain EXCEPT !.pc = "select", !.t = now]
    /\ UNCHANGED <<job, due, attempts, nextId, now, enq, aborts, pageOps, history>>

Eligible(t) == {id \in JobIds : state[id] = "queued" /\ due[id] <= t}

\* ORDER BY priority DESC, due ASC LIMIT 1; ties are SQLite's choice.
Best(t) == {id \in Eligible(t) : \A other \in Eligible(t) :
              \/ job[id].prio > job[other].prio
              \/ job[id].prio = job[other].prio /\ due[id] <= due[other]}

SelectJob ==
    /\ drain.pc = "select"
    /\ \E id \in Best(drain.t) :
         drain' = [drain EXCEPT !.pc = "mark", !.id = id]
    /\ UNCHANGED <<columns, now, enq, aborts, pageOps, history>>

SelectNothing ==
    /\ drain.pc = "select"
    /\ Eligible(drain.t) = {}
    /\ drain' = Idle
    /\ UNCHANGED <<columns, now, enq, aborts, pageOps, history>>

\* UPDATE ... WHERE id=?: whatever state the row is in by now.
MarkRunning ==
    /\ drain.pc = "mark"
    /\ state' = [state EXCEPT ![drain.id] = "running"]
    /\ lastPick' = [lastPick EXCEPT ![drain.id] = drain.t]
    /\ drain' = [Idle EXCEPT !.pc = "gate", !.id = drain.id]
    /\ UNCHANGED <<job, due, attempts, nextId, now, enq, aborts, pageOps,
                   retries, owed, orphans, insertedBy>>

-----------------------------------------------------------------------------
(* Drain: gate, run, settle.                                                *)

BackToLoop == drain' = [Idle EXCEPT !.pc = "loop"]

\* Mutant: the UPDATE forgets the state.
RequeueUntil_DueOnly(until) ==
    /\ due' = [due EXCEPT ![drain.id] = until]
    /\ BackToLoop
    /\ UNCHANGED <<state, job, attempts, nextId, now, enq, aborts, pageOps, history>>

\* Store.Requeue by the drain: a blocked or deferred job waits until `until`.
RequeueUntil(until) ==
    /\ state' = [state EXCEPT ![drain.id] = "queued"]
    /\ due' = [due EXCEPT ![drain.id] = until]
    /\ BackToLoop
    /\ UNCHANGED <<job, attempts, nextId, now, enq, aborts, pageOps, history>>

GateBlocks(w) ==
    /\ drain.pc = "gate"
    /\ RequeueUntil(now + w)

GatePasses ==
    /\ drain.pc = "gate"
    /\ drain' = [drain EXCEPT !.pc = "run"]
    /\ owed' = owed \ {drain.id}
    /\ UNCHANGED <<columns, now, enq, aborts, pageOps,
                   lastPick, retries, orphans, insertedBy>>

RunDeferred(w) ==
    /\ drain.pc = "run"
    /\ RequeueUntil(now + w)

RunSucceeds ==
    /\ drain.pc = "run"
    /\ state' = [state EXCEPT ![drain.id] = "done"]
    /\ BackToLoop
    /\ UNCHANGED <<job, due, attempts, nextId, now, enq, aborts, pageOps, history>>

BackoffAfter(n) == Backoff[IF n < Len(Backoff) THEN n ELSE Len(Backoff)]

\* Mutant: one attempt too many.
TriesAgain_OffByOne(terminal) ==
    attempts[drain.id] + 1 <= IF terminal THEN 1 ELSE MaxAttempts[job[drain.id].routine]

\* The row has an attempt left; a Terminal error allows a single one.
TriesAgain(terminal) ==
    attempts[drain.id] + 1 < IF terminal THEN 1 ELSE MaxAttempts[job[drain.id].routine]

\* Store.Fail reads the row (Get) and decides ...
RunFails(terminal) ==
    LET tried == attempts[drain.id] + 1
    IN  /\ drain.pc = "run"
        /\ drain' = [drain EXCEPT
                       !.pc = "failing",
                       !.tried = tried,
                       !.to = IF TriesAgain(terminal) THEN "queued" ELSE "failed",
                       !.due = IF TriesAgain(terminal) THEN now + BackoffAfter(tried)
                                                       ELSE due[drain.id]]
        /\ UNCHANGED <<columns, now, enq, aborts, pageOps, history>>

\* ... and writes its decision.
RecordFailure ==
    /\ drain.pc = "failing"
    /\ state' = [state EXCEPT ![drain.id] = drain.to]
    /\ attempts' = [attempts EXCEPT ![drain.id] = drain.tried]
    /\ due' = [due EXCEPT ![drain.id] = drain.due]
    /\ BackToLoop
    /\ UNCHANGED <<job, nextId, now, enq, aborts, pageOps, history>>

\* The supervisor dies, or a statement returns an error and Drain returns it:
\* nothing puts the row it held back, now or at the next start.
AbortDrain ==
    /\ drain.pc # "idle"
    /\ aborts < MaxAborts
    /\ aborts' = aborts + 1
    /\ orphans' = orphans \cup {id \in JobIds : Held(id)}
    /\ drain' = Idle
    /\ UNCHANGED <<columns, now, enq, pageOps, lastPick, retries, owed, insertedBy>>

-----------------------------------------------------------------------------
(* The page: both handlers update the row whatever its state.               *)

RetryFromPage(id) ==
    /\ state[id] # "none"
    /\ pageOps < MaxPageOps
    /\ state' = [state EXCEPT ![id] = "queued"]
    /\ due' = [due EXCEPT ![id] = now]
    /\ retries' = [retries EXCEPT ![id] = @ + 1]
    /\ pageOps' = pageOps + 1
    /\ UNCHANGED <<job, attempts, nextId, now, enq, drain, aborts,
                   lastPick, owed, orphans, insertedBy>>

DropFromPage(id) ==
    /\ state[id] # "none"
    /\ pageOps < MaxPageOps
    /\ state' = [state EXCEPT ![id] = "suspended"]
    /\ pageOps' = pageOps + 1
    /\ UNCHANGED <<job, due, attempts, nextId, now, enq, drain, aborts, history>>

Tick ==
    /\ now < MaxTime
    /\ now' = now + 1
    /\ UNCHANGED <<columns, enq, drain, aborts, pageOps, history>>

-----------------------------------------------------------------------------

EnqueueStep(e) ==
    \/ \E r \in Routines, text \in BOOLEAN, prio \in Priorities, life \in Lifetimes :
         EnqueueLookup(e, r, text, prio, life)
    \/ \E r \in Routines : EnqueueDeduped(e, r)
    \/ EnqueueInsert(e)

DrainStep ==
    \/ StartDrain
    \/ ExpireOverdue
    \/ SelectJob
    \/ SelectNothing
    \/ MarkRunning
    \/ \E w \in Waits : GateBlocks(w)
    \/ GatePasses
    \/ \E w \in Waits : RunDeferred(w)
    \/ RunSucceeds
    \/ \E terminal \in BOOLEAN : RunFails(terminal)
    \/ RecordFailure
    \/ AbortDrain

PageStep == \E id \in JobIds : RetryFromPage(id) \/ DropFromPage(id)

Next ==
    \/ \E e \in Enqueuers : EnqueueStep(e)
    \/ DrainStep
    \/ PageStep
    \/ Tick

Spec == Init /\ [][Next]_vars

-----------------------------------------------------------------------------
(* Properties                                                               *)

TypeOK ==
    /\ state \in [JobIds -> JobStates \cup {"none"}]
    /\ job \in [JobIds -> Request \cup {NoRequest}]
    /\ due \in [JobIds -> Nat]
    /\ attempts \in [JobIds -> Nat]
    /\ nextId \in 1..(MaxJobs + 1)
    /\ now \in Nat \ {0}
    /\ enq \in [Enqueuers -> Request \cup {NoRequest}]
    /\ drain \in [pc: DrainPCs, id: JobIds \cup {0}, t: Nat, tried: Nat,
                  to: {"none", "queued", "failed"}, due: Nat]
    /\ aborts \in Nat
    /\ pageOps \in Nat
    /\ lastPick \in [JobIds -> Nat]
    /\ retries \in [JobIds -> Nat]
    /\ owed \subseteq JobIds
    /\ orphans \subseteq JobIds
    /\ insertedBy \in [JobIds -> Enqueuers \cup {"nobody"}]

\* A row reads "running" only while the drain has the job in its hands, or
\* because a drain was cut short with it (nothing else ever leaves one behind).
RunningIsHeld ==
    \A id \in JobIds : state[id] = "running" => Held(id) \/ id \in orphans

\* A routine job waiting for its first run.  Jobs the page re-opened are its
\* user's business.
Fresh(id) == state[id] = "queued" /\ lastPick[id] = 0 /\ retries[id] = 0 /\ ~job[id].text

\* Enqueue's promise, read literally: a routine job already queued is returned,
\* not duplicated.  It takes a lookup and an insert that nobody comes between.
NoFreshDuplicate ==
    \A i, j \in JobIds :
        Fresh(i) /\ Fresh(j) /\ job[i].routine = job[j].routine => i = j

\* What is left of it when calls overlap: no enqueuer ever inserts a job beside
\* one of its own, so a routine has at most one fresh job per enqueuer.
OneFreshJobPerEnqueuer ==
    \A i, j \in JobIds :
        /\ Fresh(i) /\ Fresh(j)
        /\ job[i].routine = job[j].routine
        /\ insertedBy[i] = insertedBy[j]
        => i = j

\* A job that went back to the queue by itself (gate, Deferred, Fail) is due
\* strictly after the time it was taken at, so the drain loop cannot spin on it.
RequeuedJobWaits ==
    \A id \in JobIds :
        state[id] = "queued" /\ lastPick[id] > 0 /\ retries[id] = 0
            => due[id] > lastPick[id]

\* A job that may still run has an attempt left; each press of retry is worth at
\* most one attempt more than the routine's allowance.
Allowance(id) == MaxAttempts[job[id].routine] + retries[id]

AttemptsWithinAllowance ==
    \A id \in JobIds :
        /\ state[id] # "none" => attempts[id] <= Allowance(id)
        /\ state[id] \in {"queued", "running"} => attempts[id] < Allowance(id)

\* An Enqueue answered with a job, new or already waiting, is served by a run
\* that starts afterwards: the job cannot settle as done or failed before.
\* (A retry of a job while it runs can break this, hence retries[id] = 0.)
EnqueueIsServed ==
    \A id \in owed : retries[id] = 0 => state[id] \notin {"done", "failed"}

\* A settled job outside the drain's hands stays settled: only the page's retry
\* re-opens it, and the page's drop is the only other change.
SettledStaysSettled ==
    [][\A id \in JobIds :
         state[id] \in {"done", "failed", "suspended", "expired"} /\ ~Held(id)
            => \/ state'[id] \in {state[id], "suspended"}
               \/ state'[id] = "queued" /\ retries'[id] = retries[id] + 1]_vars

-----------------------------------------------------------------------------
(* What all these statements amount to: see JobLifecycle.                   *)

Lifecycle == INSTANCE JobLifecycle
    WITH Jobs <- JobIds,
         status <- state,
         inHand <- IF InHand THEN drain.id ELSE 0,
         started <- drain.pc \in {"gate", "run", "failing"}

\* The store and the drain, statement by statement, implement the job lifecycle.
ImplementsLifecycle == Lifecycle!Spec
=============================================================================
