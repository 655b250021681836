------------------------------- MODULE Routine -------------------------------
(* A routine's day: reconcile, which sees to it that it runs (Reconcile); its   *)
(* run; the ledger the run ends in; the working memory it fills; and the log    *)
(* and the catch-up that tell of it.  Their files and tables are not shared in   *)
(* a way the models tell apart, so that a behaviour moves one component only    *)
(* (`which`).                                                                 *)
EXTENDS Reconcile, Sequences

CONSTANTS
    \* RoutineRun
    Runners, Kinds, Inputs, MaxChanges, RunsOfDay, RunFaults,
    \* RunLedger
    Costed, Learner, Ask, Scripts, AgentOf, Block, MaxCost, DayLength, LedgerTime, LedgerRuns,
    \* Memory
    Actors, Keys, Unkeyed, KindOf, SaidTTL, Unused, MemoryTime, MaxUses, MemoryDeaths,
    \* Catchup
    Loggers, Sessions, Kept, MaxDay, MaxLines, MaxEdits, LogDeaths

ASSUME RunAssumption ==
    /\ Kinds # {} /\ Inputs # {} /\ Inputs \subseteq Nat \ {0}
    /\ MaxChanges \in Nat /\ RunsOfDay \in Nat /\ RunFaults \in Nat
\* A cap of 0 is no cap.
ASSUME LedgerAssumption ==
    /\ \A scope \in DOMAIN Block : Block[scope] \in Nat \ {0}
    /\ MaxCost \in Nat /\ DayLength \in Nat \ {0} /\ LedgerTime \in Nat /\ LedgerRuns \in Nat
ASSUME MemoryAssumption ==
    /\ IsFiniteSet(Actors) /\ Unkeyed \in Keys
    /\ SaidTTL \in Nat /\ Unused \in Nat
    /\ MemoryTime \in Nat /\ MaxUses \in Nat /\ MemoryDeaths \in Nat
ASSUME LogAssumption ==
    Kept \in Nat /\ MaxDay \in Nat /\ MaxLines \in Nat /\ MaxEdits \in Nat /\ LogDeaths \in Nat

VARIABLES
    which,
    \* RoutineRun
    routine, world, run, mounted, digest, note, head, remembered, imported, changes, runs,
    faults, disturbed,
    \* RunLedger
    rows, process, clock, began, learned,
    \* Memory
    notes, meta, actor, now, uses, deaths, astray,
    \* Catchup
    daily, log, session, seen, today, logged, edits, lost, had, shown, undone

dayVars == vars
runVars == <<routine, world, run, mounted, digest, note, head, remembered, imported, changes,
             runs, faults, disturbed>>
ledgerVars == <<rows, process, clock, began, learned>>
memoryVars == <<notes, meta, actor, now, uses, deaths, astray>>
logVars == <<daily, log, session, seen, today, logged, edits, lost, had, shown, undone>>

R == INSTANCE RoutineRun WITH
    Processes <- Runners, Routines <- Kinds, MaxRuns <- RunsOfDay, MaxFaults <- RunFaults
L == INSTANCE RunLedger WITH
    run <- process, now <- clock, Routines <- Costed, MaxTime <- LedgerTime, MaxRuns <- LedgerRuns
M == INSTANCE Memory WITH MaxTime <- MemoryTime, MaxDeaths <- MemoryDeaths
C == INSTANCE Catchup WITH note <- daily, deaths <- lost, MaxDeaths <- LogDeaths

-----------------------------------------------------------------------------

RoutineInit ==
    /\ which \in {"day", "run", "ledger", "memory", "log"}
    /\ Init /\ R!Init /\ L!Init /\ M!Init /\ C!Init
    /\ which # "run" => /\ world = CHOOSE i \in Inputs : TRUE
                        /\ routine = CHOOSE k \in Kinds : TRUE

RoutineNext ==
    \/ /\ which = "day" /\ Next
       /\ UNCHANGED <<which, runVars, ledgerVars, memoryVars, logVars>>
    \/ /\ which = "run" /\ R!Next
       /\ UNCHANGED <<which, dayVars, ledgerVars, memoryVars, logVars>>
    \/ /\ which = "ledger" /\ L!Next
       /\ UNCHANGED <<which, dayVars, runVars, memoryVars, logVars>>
    \/ /\ which = "memory" /\ M!Next
       /\ UNCHANGED <<which, dayVars, runVars, ledgerVars, logVars>>
    \/ /\ which = "log" /\ C!Next
       /\ UNCHANGED <<which, dayVars, runVars, ledgerVars, memoryVars>>

routineVars == <<which, dayVars, runVars, ledgerVars, memoryVars, logVars>>

RoutineSpec == RoutineInit /\ [][RoutineNext]_routineVars

\* The type invariants of the parts.
PartsTypeOK ==
    /\ which = "day" => TypeOK
    /\ which = "run" => R!TypeOK
    /\ which = "ledger" => L!TypeOK
    /\ which = "memory" => M!TypeOK
    /\ which = "log" => C!TypeOK

\* The properties of the parts, each stated and explained in its module.

\* A run: what is skipped was rendered.
SkippedIsShown == R!SkippedIsShown

\* Ledger: what the gate admits goes over a cap by one run.
OvershootIsOneRun == which = "ledger" => L!OvershootIsOneRun

\* Ledger: the learning routine is fed every run once.
RunsAreLearnedFrom == which = "ledger" => L!RunsAreLearnedFrom

\* Memory: a purge takes what is past its time.
PurgeTakesTheExpired == which = "memory" => M!PurgeTakesTheExpired

\* Catch-up: what the bookmark has passed was printed.
BookmarkIsShown == which = "log" => C!BookmarkIsShown
=============================================================================
