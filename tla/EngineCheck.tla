------------------------------ MODULE EngineCheck ------------------------------
(***************************************************************************)
(* `qilla run` of one routine on an agent host (cmd/qilla/run.go), which asks  *)
(* the engine over ssh first (internal/engine): not while the engine runs the  *)
(* routine, and not soon after it ran well.  The engine answers from two       *)
(* tables, one after the other: the jobs that are marked running, the newest   *)
(* run of the ledger.  Its drain marks the job, runs it, records the run and   *)
(* settles the job; a run by hand on the engine has no job; a process that     *)
(* dies leaves its job marked for good; the web page puts a job that is        *)
(* running back in the queue, or drops it; a row the ledger cannot write is    *)
(* lost without a word.  An engine that cannot be reached stops nobody.        *)
(***************************************************************************)
EXTENDS Naturals, Sequences

CONSTANTS
    Recent,     \* RecentWindow: 6 h
    Stale,      \* staleRunning: 12 h
    MaxTime,    \* bound: ticks
    MaxRuns     \* bound: runs of the engine

VARIABLES
    manual,     \* the routine's schedule is "manual"
    now,
    jobs,       \* the drain's jobs: its run, 0 while the gate is asked, since when, still marked
    ledger,     \* the engine's runs table: ids of runs, in the order they were recorded
    runs,       \* the engine's runs: who runs it, start, how far it is; history: without a mark
    call        \* the agent's `qilla run`

vars == <<manual, now, jobs, ledger, runs, call>>
engine == <<jobs, ledger, runs>>

NoStatus == [running |-> FALSE, last |-> 0]
NoCall == [pc |-> "idle", force |-> FALSE, met |-> {}, status |-> NoStatus, warned |-> FALSE]

Init ==
    /\ manual \in BOOLEAN
    /\ now = 0 /\ jobs = {} /\ ledger = <<>> /\ runs = <<>>
    /\ call = NoCall

-----------------------------------------------------------------------------
(* The engine.                                                               *)

Draining == \E i \in DOMAIN runs : runs[i].by = "serve" /\ runs[i].is \in {"live", "recorded"}

\* Next marks the job; the gate may hold it back, and it is queued again.
Mark ==
    /\ ~Draining /\ ~\E j \in jobs : j.run = 0
    /\ Len(runs) < MaxRuns
    /\ jobs' = jobs \cup {[run |-> 0, since |-> now, marked |-> TRUE]}
    /\ UNCHANGED <<manual, now, ledger, runs, call>>

HoldBack(j) ==
    /\ j.run = 0
    /\ jobs' = jobs \ {j}
    /\ UNCHANGED <<manual, now, ledger, runs, call>>

Run(by, unmarked) ==
    runs' = Append(runs, [by |-> by, start |-> now, is |-> "live", ok |-> FALSE,
                          unmarked |-> unmarked])

RunJob(j) ==
    /\ j.run = 0 /\ Len(runs) < MaxRuns
    /\ Run("serve", ~j.marked)
    /\ jobs' = (jobs \ {j}) \cup {[j EXCEPT !.run = Len(runs) + 1]}
    /\ UNCHANGED <<manual, now, ledger, call>>

\* runRoutine on the engine itself.
RunByHand ==
    /\ Len(runs) < MaxRuns
    /\ Run("hand", TRUE)
    /\ UNCHANGED <<manual, now, jobs, ledger, call>>

\* Worker.Run, Store.Record: a run that is over has a row, if it can be written.
Record(i, ok) ==
    /\ runs[i].is = "live"
    /\ runs' = [runs EXCEPT ![i].ok = ok, ![i].is = IF runs[i].by = "serve" THEN "recorded" ELSE "over"]
    /\ ledger' \in {ledger, Append(ledger, i)}
    /\ UNCHANGED <<manual, now, jobs, call>>

\* The drain marks the job done, failed or queued again.
Settle(i) ==
    /\ runs[i].is = "recorded"
    /\ runs' = [runs EXCEPT ![i].is = "over"]
    /\ jobs' = {j \in jobs : j.run # i}
    /\ UNCHANGED <<manual, now, ledger, call>>

\* Requeue, Suspend, from the page: the row is not marked running any more, whoever runs it.
Unmark(j) ==
    /\ j.marked
    /\ jobs' = (jobs \ {j}) \cup {[j EXCEPT !.marked = FALSE]}
    /\ runs' = [i \in DOMAIN runs |-> IF i = j.run THEN [runs[i] EXCEPT !.unmarked = TRUE] ELSE runs[i]]
    /\ UNCHANGED <<manual, now, ledger, call>>

\* The process dies.
Dies(i) ==
    /\ runs[i].is \in {"live", "recorded"}
    /\ runs' = [runs EXCEPT ![i].is = IF runs[i].is = "live" THEN "died" ELSE "over"]
    /\ UNCHANGED <<manual, now, jobs, ledger, call>>

-----------------------------------------------------------------------------
(* The answer.                                                               *)

\* Remote: ssh has reached the engine.
Reach ==
    /\ call.pc = "calling"
    /\ call' = [call EXCEPT !.pc = "running?",
                            !.met = {i \in DOMAIN runs : runs[i].by = "serve" /\ runs[i].is = "live"}]
    /\ UNCHANGED <<manual, now, engine>>

Running == \E j \in jobs : j.marked /\ j.since + Stale >= now
Last == IF ledger = <<>> THEN 0 ELSE ledger[Len(ledger)]

\* Mutant: the ledger is read before the job table.
Reads_LedgerFirst(pc) ==
    IF pc = "running?" THEN [call.status EXCEPT !.last = Last] ELSE [call.status EXCEPT !.running = Running]

Reads(pc) ==
    IF pc = "running?" THEN [call.status EXCEPT !.running = Running] ELSE [call.status EXCEPT !.last = Last]

\* Local: one query, then the other.
LocalRunning ==
    /\ call.pc = "running?"
    /\ call' = [call EXCEPT !.pc = "last?", !.status = Reads("running?")]
    /\ UNCHANGED <<manual, now, engine>>

LocalLast ==
    /\ call.pc = "last?"
    /\ call' = [call EXCEPT !.pc = "answered", !.status = Reads("last?")]
    /\ UNCHANGED <<manual, now, engine>>

-----------------------------------------------------------------------------
(* The agent.                                                                *)

\* engineAllowsRun, on a host that is not the engine.
Call(force) ==
    /\ call.pc = "idle"
    /\ call' = [NoCall EXCEPT !.pc = "calling", !.force = force]
    /\ UNCHANGED <<manual, now, engine>>

\* It ran well, and not long ago.
RanRecently(i) == i # 0 /\ runs[i].ok /\ ~manual /\ now < runs[i].start + Recent

\* Decide.
Stops == ~call.force /\ (call.status.running \/ RanRecently(call.status.last))

Decide ==
    /\ call.pc = "answered"
    /\ call' = [call EXCEPT !.pc = IF Stops THEN "stopped" ELSE "allowed", !.status = NoStatus]
    /\ UNCHANGED <<manual, now, engine>>

\* Decide, with an error: a warning.
Unreachable ==
    /\ call.pc \in {"calling", "running?", "last?", "answered"}
    /\ call' = [call EXCEPT !.pc = "allowed", !.warned = TRUE, !.status = NoStatus]
    /\ UNCHANGED <<manual, now, engine>>

\* runRoutine: a bundle that is not ready (Bundle) is refused, unless forced.
RunHere ==
    /\ call.pc = "allowed"
    /\ \E ready \in BOOLEAN :
         call' = [call EXCEPT !.pc = IF ready \/ call.force THEN "running" ELSE "refused"]
    /\ UNCHANGED <<manual, now, engine>>

\* An hour passes; the gate does not take that long.
Tick ==
    /\ now < MaxTime /\ ~\E j \in jobs : j.run = 0
    /\ now' = now + 1
    /\ UNCHANGED <<manual, engine, call>>

\* Bound: one call, to its end.
Next ==
    /\ call.pc \notin {"stopped", "refused", "running"}
    /\ \/ Mark \/ RunByHand
       \/ \E j \in jobs : HoldBack(j) \/ RunJob(j) \/ Unmark(j)
       \/ \E i \in DOMAIN runs : Settle(i) \/ Dies(i) \/ \E ok \in BOOLEAN : Record(i, ok)
       \/ \E force \in BOOLEAN : Call(force)
       \/ Reach \/ LocalRunning \/ LocalLast \/ Decide \/ Unreachable \/ RunHere
       \/ Tick

Spec == Init /\ [][Next]_vars

-----------------------------------------------------------------------------
(* Properties.                                                              *)

TypeOK ==
    /\ now \in 0..MaxTime /\ Len(runs) <= MaxRuns
    /\ \A j \in jobs : j.run \in 0..Len(runs) /\ j.since \in 0..now
    /\ \A i \in DOMAIN ledger : ledger[i] \in DOMAIN runs
    /\ call.pc \in {"idle", "calling", "running?", "last?", "answered", "stopped", "allowed",
                    "refused", "running"}

\* Its row could not be written, or another's is behind it.
Superseded(i) == Last # i

\* run.go: "on an agent whose [engine].host names another host, ask the engine
\* first".  A run that the agent was allowed, not forced and not for want of an answer,
\* is not one the engine is at: of the drain's runs that were under way when the engine
\* was reached, whatever became of them while it answered, none is under way since less
\* than the stale limit or has ended well in the recent window - unless the page took the
\* mark off it; the ledger could not write its row or has another behind it, which is the
\* only one looked at; or the routine is manual.
EngineIsNotAtIt ==
    call.pc \in {"allowed", "running"} /\ ~call.force /\ ~call.warned =>
        \A i \in call.met :
            \/ runs[i].unmarked
            \/ ~runs[i].ok /\ runs[i].is # "live"
            \/ runs[i].start + Stale < now
            \/ runs[i].ok /\ (manual \/ runs[i].start + Recent <= now \/ Superseded(i))
=============================================================================
