----------------------------- MODULE Supervisor -----------------------------
(***************************************************************************)
(* The life of the supervisor process (internal/serve/serve.go): started   *)
(* by its sockets, woken by pokes, drains the queue, exits when idle.      *)
(*                                                                         *)
(* Who may wake it: CLI clients and timers (cmd/qilla/enqueue.go: INSERT,  *)
(* then a poke over the unix socket), the page (internal/serve/http.go: a  *)
(* handler in the supervisor itself INSERTs, then kicks) and reconcile     *)
(* (cmd/qilla/reconcile.go: a poke only when it enqueued something).       *)
(*                                                                         *)
(* A job is seen from outside only: when it is due, taken and settled.     *)
(* What happens inside a drain, statement by statement, is JobQueue's.     *)
(***************************************************************************)
EXTENDS Naturals, FiniteSets

CONSTANTS
    CliJobs,       \* jobs enqueued by `qilla enqueue` (a user or a timer)
    PageJobs,      \* jobs enqueued from the page
    MustRun,       \* the CLI's jobs that reconcile enqueues when it finds none
    TimersRecur,   \* a routine's timer fires again while its job still waits
    MaxRetries,    \* bound: how often jobs go back to the queue
    MaxFaults,     \* bound: failed pokes and SQL errors
    MaxCrashes,    \* bound: the process dies
    MaxStops       \* bound: SIGTERMs

ASSUME MustRunAssumption == MustRun \subseteq CliJobs
ASSUME JobsAssumption == CliJobs \cap PageJobs = {} /\ TimersRecur \in BOOLEAN

Jobs == CliJobs \cup PageJobs
NoJob == "no job"
ASSUME NoJobAssumption == NoJob \notin Jobs

VARIABLES
    table,     \* per job: none, due, later (queued, not due), ripe (was later), running, settled
    client,    \* per job: how far its client is
    backlog,   \* pokes waiting in the socket systemd holds
    proc,      \* down, failed, select, drain, closing
    acceptor,  \* the acceptPokes goroutine: in Accept, or about to kick
    wake, act, tick, idle,   \* the channels of Run's select: something to receive
    stopping,  \* the stop channel is closed
    drain,     \* the drain in progress: what started it, its job, whether it ran any
    reconcile, \* asleep, awake, or about to poke
    lost,      \* history: a wake-up was lost since the queue was last seen empty
    faults, crashes, stops, retries   \* counters of the bounds

inMemory == <<acceptor, wake, act, tick, idle, stopping, drain>>
counters == <<faults, crashes, stops, retries>>
vars == <<table, client, backlog, proc, inMemory, reconcile, lost, counters>>

NoDrain == [from |-> "none", job |-> NoJob, ran |-> FALSE]

Alive == proc \in {"select", "drain", "closing"}
Serving == proc \in {"select", "drain"}
Takeable == {j \in Jobs : table[j] \in {"due", "ripe"}}

\* Mutant: every row counts.
Pending_AllRows == {j \in Jobs : table[j] # "none"}

\* Store.Pending counts queued and running rows.
Pending == {j \in Jobs : table[j] \in {"due", "ripe", "later", "running"}}

Init ==
    /\ table = [j \in Jobs |-> "none"]
    /\ client = [j \in Jobs |-> "off"]
    /\ backlog = 0
    /\ proc = "down"
    /\ acceptor = "accept"
    /\ wake = FALSE /\ act = FALSE /\ tick = FALSE /\ idle = FALSE
    /\ stopping = FALSE
    /\ drain = NoDrain
    /\ reconcile = "asleep"
    /\ lost = FALSE
    /\ faults = 0 /\ crashes = 0 /\ stops = 0 /\ retries = 0

\* What a new process starts with.
FreshMemory(kicked) ==
    /\ acceptor' = "accept"
    /\ wake' = kicked
    /\ act' = FALSE /\ tick' = FALSE /\ idle' = FALSE
    /\ stopping' = FALSE
    /\ drain' = NoDrain

-----------------------------------------------------------------------------
(* Clients outside the process: insert first, then poke.                    *)

CliInsert(j) ==
    /\ j \in CliJobs
    /\ client[j] = "off" /\ table[j] = "none"
    /\ table' = [table EXCEPT ![j] = "due"]
    /\ client' = [client EXCEPT ![j] = "poking"]
    /\ UNCHANGED <<backlog, proc, inMemory, reconcile, lost, counters>>

CliPoke(j) ==
    /\ client[j] = "poking"
    /\ client' = [client EXCEPT ![j] = "done"]
    /\ backlog' = backlog + 1
    /\ UNCHANGED <<table, proc, inMemory, reconcile, lost, counters>>

\* The dial fails: poke returns without a word.
CliPokeFails(j) ==
    /\ client[j] = "poking"
    /\ faults < MaxFaults
    /\ faults' = faults + 1
    /\ client' = [client EXCEPT ![j] = "done"]
    /\ lost' = TRUE
    /\ UNCHANGED <<table, backlog, proc, inMemory, reconcile, crashes, stops, retries>>

\* Mutant: a duplicate is not poked for.
TimerPokes_NewOnly ==
    /\ TimersRecur
    /\ CliJobs \cap Takeable # {}
    /\ UNCHANGED vars

\* The routine's timer fires again: the waiting job is found, and poked for.
TimerPokes ==
    /\ TimersRecur
    /\ backlog = 0
    /\ CliJobs \cap Takeable # {}
    /\ backlog' = 1
    /\ UNCHANGED <<table, client, proc, inMemory, reconcile, lost, counters>>

\* Every half hour.
ReconcileWakes ==
    /\ reconcile = "asleep"
    /\ reconcile' = "awake"
    /\ UNCHANGED <<table, client, backlog, proc, inMemory, lost, counters>>

\* A must_run routine with a job already queued or running is left alone, and
\* when nothing was enqueued there is no poke.
ReconcileRuns ==
    LET missing == {j \in MustRun : table[j] = "none"}
    IN  /\ reconcile = "awake"
        /\ table' = [j \in Jobs |-> IF j \in missing THEN "due" ELSE table[j]]
        /\ reconcile' = IF missing = {} THEN "asleep" ELSE "poke"
        /\ UNCHANGED <<client, backlog, proc, inMemory, lost, counters>>

ReconcilePokes ==
    /\ reconcile = "poke"
    /\ reconcile' = "asleep"
    /\ backlog' = backlog + 1
    /\ UNCHANGED <<table, client, proc, inMemory, lost, counters>>

-----------------------------------------------------------------------------
(* The page: its requests start the process too, and are served inside it.  *)

PageConnects(j) ==
    /\ j \in PageJobs
    /\ client[j] = "off"
    /\ client' = [client EXCEPT ![j] = "connecting"]
    /\ UNCHANGED <<table, backlog, proc, inMemory, reconcile, lost, counters>>

\* The activity middleware touches the idle timer before the handler runs.
PageAccepted(j) ==
    /\ client[j] = "connecting"
    /\ Serving
    /\ client' = [client EXCEPT ![j] = "handling"]
    /\ act' = TRUE
    /\ UNCHANGED <<table, backlog, proc, acceptor, wake, tick, idle, stopping, drain,
                   reconcile, lost, counters>>

PageInserts(j) ==
    /\ client[j] = "handling"
    /\ Alive
    /\ table' = [table EXCEPT ![j] = "due"]
    /\ client' = [client EXCEPT ![j] = "kicking"]
    /\ UNCHANGED <<backlog, proc, inMemory, reconcile, lost, counters>>

PageKicks(j) ==
    /\ client[j] = "kicking"
    /\ Alive
    /\ client' = [client EXCEPT ![j] = "done"]
    /\ wake' = TRUE
    /\ lost' = (lost \/ proc = "closing")
    /\ UNCHANGED <<table, backlog, proc, acceptor, act, tick, idle, stopping, drain,
                   reconcile, counters>>

-----------------------------------------------------------------------------
(* acceptPokes keeps accepting until the process is gone.                   *)

AcceptPoke ==
    /\ Alive
    /\ acceptor = "accept"
    /\ backlog > 0
    /\ backlog' = backlog - 1
    /\ acceptor' = "kick"
    /\ UNCHANGED <<table, client, proc, wake, act, tick, idle, stopping, drain,
                   reconcile, lost, counters>>

\* wake holds one token: a kick when it is full adds nothing.
KickFromPoke ==
    /\ Alive
    /\ acceptor = "kick"
    /\ acceptor' = "accept"
    /\ wake' = TRUE
    /\ lost' = (lost \/ proc = "closing")
    /\ UNCHANGED <<table, client, backlog, proc, act, tick, idle, stopping, drain,
                   reconcile, counters>>

-----------------------------------------------------------------------------
(* Start, stop, crash.                                                      *)

\* systemd: a connection on either socket starts the service, Restart=on-failure
\* brings a dead one back.  Run kicks itself before its first select.
Start ==
    /\ \/ proc = "failed"
       \/ proc = "down" /\ (backlog > 0 \/ \E j \in PageJobs : client[j] = "connecting")
    /\ proc' = "select"
    /\ FreshMemory(TRUE)
    /\ lost' = FALSE
    /\ UNCHANGED <<table, client, backlog, reconcile, counters>>

Interrupted == [j \in Jobs |-> IF client[j] \in {"handling", "kicking"}
                               THEN "gone" ELSE client[j]]

\* Run's deferred Shutdown waits for handlers, 3 s at most; then the process
\* ends, and with it every channel and goroutine.
Exit ==
    /\ proc = "closing"
    /\ proc' = "down"
    /\ client' = Interrupted
    /\ lost' = (lost \/ acceptor = "kick" \/ \E j \in Jobs : client[j] = "kicking")
    /\ FreshMemory(FALSE)
    /\ UNCHANGED <<table, backlog, reconcile, counters>>

Crash ==
    /\ Alive
    /\ crashes < MaxCrashes
    /\ crashes' = crashes + 1
    /\ proc' = "failed"
    /\ client' = Interrupted
    /\ FreshMemory(FALSE)
    /\ UNCHANGED <<table, backlog, reconcile, lost, faults, stops, retries>>

Stop ==
    /\ Serving
    /\ stops < MaxStops
    /\ stops' = stops + 1
    /\ stopping' = TRUE
    /\ UNCHANGED <<table, client, backlog, proc, acceptor, wake, act, tick, idle, drain,
                   reconcile, lost, faults, crashes, retries>>

-----------------------------------------------------------------------------
(* Run's select: any ready case may be the one taken.                       *)

IdleElapses ==
    /\ Serving /\ ~idle
    /\ idle' = TRUE
    /\ UNCHANGED <<table, client, backlog, proc, acceptor, wake, act, tick, stopping, drain,
                   reconcile, lost, counters>>

TickElapses ==
    /\ Serving /\ ~tick
    /\ tick' = TRUE
    /\ UNCHANGED <<table, client, backlog, proc, acceptor, wake, act, idle, stopping, drain,
                   reconcile, lost, counters>>

\* Mutant: the loop goes on.
SelectStop_GoesOn ==
    /\ proc = "select" /\ stopping
    /\ lost' = TRUE
    /\ UNCHANGED <<table, client, backlog, proc, inMemory, reconcile, counters>>

SelectStop ==
    /\ proc = "select" /\ stopping
    /\ proc' = "closing"
    /\ lost' = TRUE
    /\ UNCHANGED <<table, client, backlog, inMemory, reconcile, counters>>

SelectWake ==
    /\ proc = "select" /\ wake
    /\ wake' = FALSE
    /\ proc' = "drain"
    /\ drain' = [NoDrain EXCEPT !.from = "wake"]
    /\ UNCHANGED <<table, client, backlog, acceptor, act, tick, idle, stopping,
                   reconcile, lost, counters>>

SelectTick ==
    /\ proc = "select" /\ tick
    /\ tick' = FALSE
    /\ proc' = "drain"
    /\ drain' = [NoDrain EXCEPT !.from = "tick"]
    /\ UNCHANGED <<table, client, backlog, acceptor, wake, act, idle, stopping,
                   reconcile, lost, counters>>

SelectAct ==
    /\ proc = "select" /\ act
    /\ act' = FALSE
    /\ idle' = FALSE
    /\ UNCHANGED <<table, client, backlog, proc, acceptor, wake, tick, stopping, drain,
                   reconcile, lost, counters>>

\* Mutant: the queue is not looked at.
SelectIdle_Unchecked ==
    /\ proc = "select" /\ idle
    /\ proc' = "closing"
    /\ UNCHANGED <<table, client, backlog, inMemory, reconcile, lost, counters>>

SelectIdle ==
    /\ proc = "select" /\ idle
    /\ IF Pending = {}
       THEN proc' = "closing" /\ UNCHANGED idle
       ELSE idle' = FALSE /\ UNCHANGED proc
    /\ UNCHANGED <<table, client, backlog, acceptor, wake, act, tick, stopping, drain,
                   reconcile, lost, counters>>

\* The error of Pending is dropped and its count is then 0.
SelectIdleBlind ==
    /\ proc = "select" /\ idle
    /\ faults < MaxFaults
    /\ faults' = faults + 1
    /\ proc' = "closing"
    /\ lost' = TRUE
    /\ UNCHANGED <<table, client, backlog, inMemory, reconcile, crashes, stops, retries>>

-----------------------------------------------------------------------------
(* drain.                                                                   *)

DrainTakes(j) ==
    /\ proc = "drain" /\ drain.job = NoJob
    /\ j \in Takeable
    /\ table' = [table EXCEPT ![j] = "running"]
    /\ drain' = [drain EXCEPT !.job = j]
    /\ UNCHANGED <<client, backlog, proc, acceptor, wake, act, tick, idle, stopping,
                   reconcile, lost, counters>>

DrainSettles ==
    /\ proc = "drain" /\ drain.job # NoJob
    /\ table' = [table EXCEPT ![drain.job] = "settled"]
    /\ drain' = [drain EXCEPT !.job = NoJob, !.ran = TRUE]
    /\ UNCHANGED <<client, backlog, proc, acceptor, wake, act, tick, idle, stopping,
                   reconcile, lost, counters>>

\* Gate and Deferred put the job back without counting it as run; a failed
\* attempt counts.
DrainPutsBack(counted) ==
    /\ proc = "drain" /\ drain.job # NoJob
    /\ retries < MaxRetries
    /\ retries' = retries + 1
    /\ table' = [table EXCEPT ![drain.job] = "later"]
    /\ drain' = [drain EXCEPT !.job = NoJob, !.ran = drain.ran \/ counted]
    /\ UNCHANGED <<client, backlog, proc, acceptor, wake, act, tick, idle, stopping,
                   reconcile, lost, faults, crashes, stops>>

\* drain touches the idle timer when it ran something; a wake also resets it.
ToSelect ==
    /\ proc' = "select"
    /\ drain' = NoDrain
    /\ act' = (act \/ drain.ran)
    /\ idle' = (idle /\ drain.from # "wake")

DrainEnds ==
    /\ proc = "drain" /\ drain.job = NoJob
    /\ Takeable = {}
    /\ ToSelect
    /\ lost' = FALSE
    /\ UNCHANGED <<table, client, backlog, acceptor, wake, tick, stopping, reconcile,
                   counters>>

\* A statement fails: Drain returns, the row in hand stays as it is.
DrainFails ==
    /\ proc = "drain"
    /\ faults < MaxFaults
    /\ faults' = faults + 1
    /\ ToSelect
    /\ lost' = TRUE
    /\ UNCHANGED <<table, client, backlog, acceptor, wake, tick, stopping, reconcile,
                   crashes, stops, retries>>

\* The wait of a job that was put back is over.
Ripens(j) ==
    /\ table[j] = "later"
    /\ table' = [table EXCEPT ![j] = "ripe"]
    /\ UNCHANGED <<client, backlog, proc, inMemory, reconcile, lost, counters>>

-----------------------------------------------------------------------------

ClientStep(j) ==
    \/ CliInsert(j)
    \/ CliPoke(j)
    \/ CliPokeFails(j)
    \/ PageConnects(j)
    \/ PageAccepted(j)
    \/ PageInserts(j)
    \/ PageKicks(j)

ReconcileStep == ReconcileWakes \/ ReconcileRuns \/ ReconcilePokes

ProcessStep == Start \/ Exit \/ Crash \/ Stop

AcceptorStep == AcceptPoke \/ KickFromPoke

SelectStep ==
    \/ SelectStop
    \/ SelectWake
    \/ SelectTick
    \/ SelectAct
    \/ SelectIdle
    \/ SelectIdleBlind

\* What a drain does without meeting an SQL error.
DrainWorks ==
    \/ \E j \in Jobs : DrainTakes(j)
    \/ DrainSettles
    \/ \E counted \in BOOLEAN : DrainPutsBack(counted)
    \/ DrainEnds

ClockStep == IdleElapses \/ TickElapses \/ \E j \in Jobs : Ripens(j)

Next ==
    \/ \E j \in Jobs : ClientStep(j)
    \/ TimerPokes
    \/ ReconcileStep
    \/ ProcessStep
    \/ AcceptorStep
    \/ SelectStep
    \/ DrainWorks
    \/ DrainFails
    \/ ClockStep

Spec == Init /\ [][Next]_vars

\* A client that began goes on; systemd starts what it should; goroutines,
\* drains and timers make progress; Go's select takes every case that is ready
\* again and again; a process serves for minutes, so a connection that keeps
\* waiting is accepted by one.  Nobody has to enqueue, crash, stop or meet an
\* error.
Fairness ==
    /\ \A j \in Jobs :
         /\ WF_vars(CliPoke(j))
         /\ SF_vars(PageAccepted(j))
         /\ WF_vars(PageInserts(j))
         /\ WF_vars(PageKicks(j))
         /\ WF_vars(Ripens(j))
    /\ WF_vars(TimerPokes)
    /\ WF_vars(ReconcileStep)
    /\ WF_vars(Start)
    /\ WF_vars(Exit)
    /\ SF_vars(AcceptPoke)
    /\ WF_vars(KickFromPoke)
    /\ WF_vars(DrainWorks)
    /\ WF_vars(TickElapses)
    /\ WF_vars(IdleElapses)
    /\ SF_vars(SelectStop)
    /\ SF_vars(SelectWake)
    /\ SF_vars(SelectTick)
    /\ SF_vars(SelectAct)
    /\ SF_vars(SelectIdle)

FairSpec == Spec /\ Fairness

-----------------------------------------------------------------------------
(* Properties                                                               *)

TypeOK ==
    /\ table \in [Jobs -> {"none", "due", "later", "ripe", "running", "settled"}]
    /\ client \in [Jobs -> {"off", "poking", "connecting", "handling", "kicking",
                            "done", "gone"}]
    /\ backlog \in Nat
    /\ proc \in {"down", "failed", "select", "drain", "closing"}
    /\ acceptor \in {"accept", "kick"}
    /\ {wake, act, tick, idle, stopping, lost} \subseteq BOOLEAN
    /\ drain \in [from: {"none", "wake", "tick"}, job: Jobs \cup {NoJob}, ran: BOOLEAN]
    /\ reconcile \in {"asleep", "awake", "poke"}
    /\ {faults, crashes, stops, retries} \subseteq Nat

\* Somebody who has inserted a job will still wake the process for it, or its
\* wake-up is somewhere between the socket and the select.
WakeInFlight ==
    \/ \E j \in Jobs : client[j] \in {"poking", "kicking"}
    \/ reconcile = "poke"
    \/ backlog > 0
    \/ acceptor = "kick"
    \/ wake
    \/ proc = "failed"

\* No wake-up is missed: while a job waits for its first run, either a drain is
\* going on (which will find it), a wake-up is in flight, or a wake-up was lost
\* to an error, a SIGTERM or the few seconds of a shutdown.  In particular a
\* drain, a full wake channel or an idle timer never swallow one.
NoMissedWake ==
    \A j \in Jobs : table[j] = "due" => proc = "drain" \/ WakeInFlight \/ lost

\* An idle exit leaves no job behind that waits for its time.
NothingLeftBehind ==
    proc = "down" /\ ~lost => \A j \in Jobs : table[j] \notin {"later", "ripe"}

\* With the timers running, every job that is due is taken, whatever was lost.
DueJobsAreTaken ==
    \A j \in CliJobs : table[j] \in {"due", "ripe"} ~> table[j] \notin {"due", "ripe"}

\* The same when reconcile is all that is left to wake the process.
ReconcileWakesForWaiting == DueJobsAreTaken

\* With every job settled, the process goes away.
ExitsWhenIdle ==
    <>[](\A j \in Jobs : table[j] \in {"none", "settled"}) => <>[](proc = "down")

\* SIGTERM is obeyed in the end: no stream of wake-ups keeps the process.
StopIsHonoured == stopping ~> ~Serving
=============================================================================
