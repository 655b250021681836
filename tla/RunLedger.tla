------------------------------- MODULE RunLedger -------------------------------
(***************************************************************************)
(* The ledger of runs (internal/ledger) and who reads it: the budget gate of  *)
(* a drain, which weighs what a day has cost, and the routine whose input is  *)
(* "runs" (Worker.inputRuns), which is fed every run since its own last one.  *)
(* A run becomes a row when it is over, and the row carries the time it       *)
(* started; the supervisor runs one job at a time, `qilla run` beside it is   *)
(* not gated.  What a run is known to have cost is 0 if claude reported no    *)
(* usage, or if the price sheet the process loaded does not have the model.    *)
(***************************************************************************)
EXTENDS Naturals, FiniteSets, FiniteSetsExt

CONSTANTS
    Routines,   \* what is run: among them Learner, Ask and scripts
    Learner,    \* the routine with input = "runs"
    Ask,        \* `qilla ask`
    Scripts,    \* routines of kind script
    AgentOf,    \* per routine, its agent
    Block,      \* the daily cap: per scope ("global", routines and agents that have one)
    MaxCost,    \* the most a single run costs
    DayLength,  \* ticks in a day
    MaxTime,    \* bound: ticks
    MaxRuns     \* bound: runs

VARIABLES
    rows,       \* the runs table
    run,        \* per process, "serve" and "hand": the run it is at, if any
    now,
    began,      \* runs begun
    learned     \* history: rows fed to a learning run that succeeded

vars == <<rows, run, now, began, learned>>

Processes == {"serve", "hand"}
Idle == [pc |-> "idle"]
Day(t) == t \div DayLength

Init ==
    /\ rows = {}
    /\ run = [p \in Processes |-> Idle]
    /\ now = 0 /\ began = 0 /\ learned = {}

Sum(S, F(_)) == MapThenSumSet(F, S)

\* What the cost of a routine's run counts towards.
Scopes(routine) == {"global", routine, AgentOf[routine]}

\* Mutant: a run that failed costs nothing.
Spent_OfSuccess(day, scope) ==
    LET cost(r) == r.cost
    IN  Sum({r \in rows : Day(r.started) = day /\ r.ok /\ scope \in Scopes(r.routine)}, cost)

\* Spent: what a day has cost on record, of one routine, of one
\* agent, or of all.
Spent(day, scope) ==
    LET cost(r) == r.cost
    IN  Sum({r \in rows : Day(r.started) = day /\ scope \in Scopes(r.routine)}, cost)

Blocked(day, scope) == scope \in DOMAIN Block /\ Spent(day, scope) >= Block[scope]

\* Gate: scripts and asks are never held back.
Gate(routine) ==
    routine \in Scripts \cup {Ask} \/ \A s \in Scopes(routine) : ~Blocked(Day(now), s)

\* The drain asks the gate, which looks at the clock; the run notes when it starts.
Admit(routine) ==
    /\ run["serve"] = Idle /\ began < MaxRuns
    /\ Gate(routine)
    /\ run' = [run EXCEPT !["serve"] = [pc |-> "admitted", id |-> began + 1,
                                            routine |-> routine]]
    /\ began' = began + 1
    /\ UNCHANGED <<rows, now, learned>>

Started(id, routine, p) ==
    [pc |-> IF routine = Learner THEN "input" ELSE "running", id |-> id, routine |-> routine,
     started |-> now, gated |-> p = "serve", fed |-> {}]

StartAdmitted ==
    /\ run["serve"].pc = "admitted"
    /\ run' = [run EXCEPT !["serve"] = Started(@.id, @.routine, "serve")]
    /\ UNCHANGED <<rows, now, began, learned>>

\* `qilla run`: no gate.
StartByHand(routine) ==
    /\ run["hand"] = Idle /\ began < MaxRuns
    /\ began' = began + 1
    /\ run' = [run EXCEPT !["hand"] = Started(began + 1, routine, "hand")]
    /\ UNCHANGED <<rows, now, learned>>

\* Mutant: a learning run that failed moves the bookmark too.
Since_AnyRun == Max({0} \cup {r.started + 1 : r \in {q \in rows : q.routine = Learner}})

\* The start of the last learning run that succeeded, plus one; 0 if there is none.
Since == Max({0} \cup {r.started + 1 : r \in {q \in rows : q.routine = Learner /\ q.ok}})

\* inputRuns.
InputRuns(p) ==
    /\ run[p].pc = "input"
    /\ run' = [run EXCEPT ![p].pc = "running",
                          ![p].fed = {r.id : r \in {q \in rows : q.routine # Learner /\ q.started >= Since}}]
    /\ UNCHANGED <<rows, now, began, learned>>

-----------------------------------------------------------------------------
(* Record.                                                                  *)

\* A learning run started no earlier than t: what started at t comes too late for it.
LearnerSince(t) ==
    \/ \E r \in rows : r.routine = Learner /\ r.started >= t
    \/ \E p \in Processes : run[p].pc \in {"input", "running"} /\ run[p].routine = Learner /\ run[p].started >= t

\* The run is over, at a cost that is on record.
Finish(p, ok, cost) ==
    /\ \/ run[p].pc = "running"
       \/ run[p].pc = "input" /\ ~ok /\ cost = 0
    /\ run[p].routine \in Scripts => cost = 0
    /\ rows' = rows \cup {[id |-> run[p].id, routine |-> run[p].routine, started |-> run[p].started,
                           ok |-> ok, cost |-> cost, gated |-> run[p].gated,
                           late |-> LearnerSince(run[p].started)]}
    /\ learned' = IF ok THEN learned \cup run[p].fed ELSE learned
    /\ run' = [run EXCEPT ![p] = Idle]
    /\ UNCHANGED <<now, began>>

\* The process dies: no row.
Dies(p) ==
    /\ run[p] # Idle
    /\ run' = [run EXCEPT ![p] = Idle]
    /\ UNCHANGED <<rows, now, began, learned>>

Tick == now < MaxTime /\ now' = now + 1 /\ UNCHANGED <<rows, run, began, learned>>

Next ==
    \/ \E r \in Routines : Admit(r) \/ StartByHand(r)
    \/ StartAdmitted
    \/ \E p \in Processes :
         \/ InputRuns(p) \/ Dies(p)
         \/ \E ok \in BOOLEAN, cost \in 0..MaxCost : Finish(p, ok, cost)
    \/ Tick

Spec == Init /\ [][Next]_vars

-----------------------------------------------------------------------------
(* Properties.                                                              *)

TypeOK ==
    /\ \A r \in rows : r.id \in 1..MaxRuns /\ r.routine \in Routines /\ r.cost \in 0..MaxCost
    /\ Cardinality({r.id : r \in rows}) = Cardinality(rows)
    /\ \A p \in Processes : run[p].pc \in {"idle", "admitted", "input", "running"}
    /\ now \in 0..MaxTime /\ began \in 0..MaxRuns /\ learned \subseteq 1..MaxRuns

\* README: "the run is priced against a daily budget".  What the drain admits goes
\* over a daily cap by less than the cost of one run, whatever runs beside it, fails,
\* or is admitted on one day and starts on the next.
OvershootIsOneRun ==
    \A scope \in DOMAIN Block : \A day \in 0..Day(MaxTime) :
        LET cost(r) == r.cost
        IN  Sum({r \in rows : /\ r.gated /\ r.routine \notin Scripts \cup {Ask}
                              /\ Day(r.started) = day /\ scope \in Scopes(r.routine)}, cost)
              < Block[scope] + MaxCost

\* inputRuns: "the ledger rows since its own last run".  A run is fed to a learning
\* run that succeeds before the bookmark has passed it, unless it was over only after
\* a learning run had begun: such a run is never learned from.
RunsAreLearnedFrom ==
    \A r \in rows : r.routine # Learner /\ r.started < Since => r.id \in learned \/ r.late
=============================================================================
