----------------------------- MODULE ServeProofs ------------------------------
(* Of the process itself: its loop, for any sets of jobs and any number of       *)
(* retries, failures, crashes and stops; the configuration it runs on; its      *)
(* logins; its agents, whose sessions workers and chats hand on; and the chat    *)
(* page.  The theorems are about Serve, where the components live side by side. *)
EXTENDS Serve, FiniteSetTheorems, SequenceTheorems, WellFoundedInduction, TLAPS

-----------------------------------------------------------------------------
(* The loop.                                                                *)

\* Enough of the types for the steps below.
Typed ==
    /\ table = [j \in Jobs |-> table[j]]
    /\ client = [j \in Jobs |-> client[j]]
    /\ backlog \in Nat

\* A wake-up that outlives the process, or will be counted as lost if it does not.
OnItsWay ==
    \/ \E j \in Jobs : client[j] \in {"poking", "kicking"}
    \/ reconcile = "poke"
    \/ backlog > 0
    \/ acceptor = "kick"
    \/ proc = "failed"

\* A process that closes reads its wake channel no more: a token in it is no wake-up.
WakeInv ==
    \A j \in Jobs :
        table[j] = "due" =>
            proc = "drain" \/ OnItsWay \/ lost \/ (wake /\ proc # "closing")

\* From the idle exit on, what waits was inserted after it.
IdleInv ==
    proc \in {"closing", "down"} /\ ~lost => \A j \in Jobs : table[j] \notin {"later", "ripe"}

IInv == Typed /\ WakeInv /\ IdleInv

-----------------------------------------------------------------------------

LEMMA InitHolds == ASSUME Init PROVE IInv
BY DEF Init, IInv, Typed, WakeInv, IdleInv

LEMMA ClientKeeps == ASSUME IInv, NEW j \in Jobs, ClientStep(j) PROVE IInv'
<1>1. CASE CliInsert(j)
  BY <1>1 DEF CliInsert, IInv, Typed, WakeInv, IdleInv, OnItsWay, inMemory, counters
<1>2. CASE CliPoke(j)
  BY <1>2 DEF CliPoke, IInv, Typed, WakeInv, IdleInv, OnItsWay, inMemory, counters
<1>3. CASE CliPokeFails(j)
  BY <1>3 DEF CliPokeFails, IInv, Typed, WakeInv, IdleInv, OnItsWay, inMemory
<1>4. CASE PageConnects(j)
  BY <1>4 DEF PageConnects, IInv, Typed, WakeInv, IdleInv, OnItsWay, inMemory
<1>5. CASE PageAccepted(j)
  BY <1>5 DEF PageAccepted, IInv, Typed, WakeInv, IdleInv, OnItsWay
<1>6. CASE PageInserts(j)
  BY <1>6 DEF PageInserts, IInv, Typed, WakeInv, IdleInv, OnItsWay, inMemory
<1>7. CASE PageKicks(j)
  BY <1>7 DEF PageKicks, IInv, Typed, WakeInv, IdleInv, OnItsWay
<1>. QED  BY <1>1, <1>2, <1>3, <1>4, <1>5, <1>6, <1>7 DEF ClientStep

LEMMA OutsideKeeps == ASSUME IInv, TimerPokes \/ ReconcileStep PROVE IInv'
<1>1. CASE TimerPokes
  BY <1>1 DEF TimerPokes, IInv, Typed, WakeInv, IdleInv, OnItsWay, inMemory
<1>2. CASE ReconcileWakes
  BY <1>2 DEF ReconcileWakes, IInv, Typed, WakeInv, IdleInv, OnItsWay, inMemory
<1>3. CASE ReconcileRuns
  BY <1>3 DEF ReconcileRuns, IInv, Typed, WakeInv, IdleInv, OnItsWay, inMemory
<1>4. CASE ReconcilePokes
  BY <1>4 DEF ReconcilePokes, IInv, Typed, WakeInv, IdleInv, OnItsWay, inMemory
<1>. QED  BY <1>1, <1>2, <1>3, <1>4 DEF ReconcileStep

LEMMA ProcessKeeps == ASSUME IInv, ProcessStep \/ AcceptorStep PROVE IInv'
<1>1. CASE Start
  BY <1>1 DEF Start, FreshMemory, IInv, Typed, WakeInv, IdleInv, OnItsWay
<1>2. CASE Exit
  BY <1>2 DEF Exit, Interrupted, FreshMemory, IInv, Typed, WakeInv, IdleInv, OnItsWay
<1>3. CASE Crash
  BY <1>3 DEF Crash, Interrupted, FreshMemory, IInv, Typed, WakeInv, IdleInv, OnItsWay
<1>4. CASE Stop
  BY <1>4 DEF Stop, IInv, Typed, WakeInv, IdleInv, OnItsWay
<1>5. CASE AcceptPoke
  BY <1>5 DEF AcceptPoke, IInv, Typed, WakeInv, IdleInv, OnItsWay
<1>6. CASE KickFromPoke
  BY <1>6 DEF KickFromPoke, IInv, Typed, WakeInv, IdleInv, OnItsWay
<1>. QED  BY <1>1, <1>2, <1>3, <1>4, <1>5, <1>6 DEF ProcessStep, AcceptorStep

\* The process goes away on its own only when nothing is pending.
LEMMA SelectKeeps == ASSUME IInv, SelectStep PROVE IInv'
<1>1. CASE SelectStop
  BY <1>1 DEF SelectStop, IInv, Typed, WakeInv, IdleInv, OnItsWay, inMemory
<1>2. CASE SelectWake \/ SelectTick
  BY <1>2 DEF SelectWake, SelectTick, IInv, Typed, WakeInv, IdleInv, OnItsWay
<1>3. CASE SelectAct
  BY <1>3 DEF SelectAct, IInv, Typed, WakeInv, IdleInv, OnItsWay
<1>4. CASE SelectIdle
  BY <1>4 DEF SelectIdle, Pending, IInv, Typed, WakeInv, IdleInv, OnItsWay
<1>5. CASE SelectIdleBlind
  BY <1>5 DEF SelectIdleBlind, IInv, Typed, WakeInv, IdleInv, OnItsWay, inMemory
<1>. QED  BY <1>1, <1>2, <1>3, <1>4, <1>5 DEF SelectStep

\* A drain that ends has taken everything that was due.
LEMMA DrainKeeps == ASSUME IInv, DrainWorks \/ DrainFails \/ ClockStep PROVE IInv'
<1>1. ASSUME NEW j \in Jobs, DrainTakes(j) PROVE IInv'
  BY <1>1 DEF DrainTakes, IInv, Typed, WakeInv, IdleInv, OnItsWay
<1>2. CASE DrainSettles
  BY <1>2 DEF DrainSettles, IInv, Typed, WakeInv, IdleInv, OnItsWay
<1>3. ASSUME NEW counted \in BOOLEAN, DrainPutsBack(counted) PROVE IInv'
  BY <1>3 DEF DrainPutsBack, IInv, Typed, WakeInv, IdleInv, OnItsWay
<1>4. CASE DrainEnds
  BY <1>4 DEF DrainEnds, ToSelect, Takeable, IInv, Typed, WakeInv, IdleInv, OnItsWay
<1>5. CASE DrainFails
  BY <1>5 DEF DrainFails, ToSelect, IInv, Typed, WakeInv, IdleInv, OnItsWay
<1>6. CASE IdleElapses \/ TickElapses
  BY <1>6 DEF IdleElapses, TickElapses, IInv, Typed, WakeInv, IdleInv, OnItsWay
<1>7. ASSUME NEW j \in Jobs, Ripens(j) PROVE IInv'
  BY <1>7 DEF Ripens, IInv, Typed, WakeInv, IdleInv, OnItsWay, inMemory
<1>. QED  BY <1>1, <1>2, <1>3, <1>4, <1>5, <1>6, <1>7 DEF DrainWorks, ClockStep

LEMMA StepKeeps == ASSUME IInv, [Next]_vars PROVE IInv'
<1>1. CASE UNCHANGED vars
  BY <1>1 DEF vars, inMemory, IInv, Typed, WakeInv, IdleInv, OnItsWay
<1>. QED  BY <1>1, ClientKeeps, OutsideKeeps, ProcessKeeps, SelectKeeps, DrainKeeps DEF Next

LEMMA InvariantHolds == Spec => []IInv
BY InitHolds, StepKeeps, PTL DEF Spec

\* serve.go, enqueue.go: whoever inserts a job wakes the process for it.  Whatever the
\* order of inserts, pokes, kicks, drains, idle exits, crashes and starts, a job that waits
\* for its first run has a drain going on, a wake-up in flight, or one that was lost.
THEOREM NoMissedWakeHolds == Spec => []NoMissedWake
<1>1. IInv => NoMissedWake
  BY DEF IInv, WakeInv, OnItsWay, NoMissedWake, WakeInFlight
<1>. QED  BY InvariantHolds, <1>1, PTL

\* serve.go, idle: the process does not go away from a job that waits for its time.
THEOREM NothingLeftBehindHolds == Spec => []NothingLeftBehind
<1>1. IInv => NothingLeftBehind
  BY DEF IInv, IdleInv, NothingLeftBehind
<1>. QED  BY InvariantHolds, <1>1, PTL

-----------------------------------------------------------------------------
(* Its types.                                                               *)

Loops ==
    /\ table \in [Jobs -> {"none", "due", "later", "ripe", "running", "settled"}]
    /\ client \in [Jobs -> {"off", "poking", "connecting", "handling", "kicking", "done", "gone"}]
    /\ backlog \in Nat /\ proc \in {"down", "failed", "select", "drain", "closing"}
    /\ acceptor \in {"accept", "kick"} /\ reconcile \in {"asleep", "awake", "poke"}
    /\ faults \in Nat /\ crashes \in Nat /\ stops \in Nat /\ retries \in Nat
    /\ drain \in [from: {"none", "wake", "tick"}, job: Jobs \cup {NoJob}, ran: BOOLEAN]

Flags ==
    /\ wake \in BOOLEAN /\ act \in BOOLEAN /\ tick \in BOOLEAN /\ idle \in BOOLEAN
    /\ stopping \in BOOLEAN /\ lost \in BOOLEAN

LEMMA LoopTypes == ASSUME Loops, Flags PROVE TypeOK
BY DEF Loops, Flags, TypeOK

LEMMA LoopTypesInit == ASSUME Init PROVE Loops /\ Flags
<1>1. Flags
  BY Zenon DEF Init, Flags
<1>2. drain \in [from: {"none", "wake", "tick"}, job: Jobs \cup {NoJob}, ran: BOOLEAN]
  BY DEF Init, NoDrain
<1>3. /\ table = [j \in Jobs |-> "none"] /\ client = [j \in Jobs |-> "off"]
      /\ backlog = 0 /\ proc = "down" /\ acceptor = "accept" /\ reconcile = "asleep"
      /\ faults = 0 /\ crashes = 0 /\ stops = 0 /\ retries = 0
  BY DEF Init
<1>. QED  BY <1>1, <1>2, <1>3 DEF Loops

LEMMA FlagsKeep == ASSUME Loops, Flags, Next PROVE Flags'
<1>1. CASE \E j \in Jobs : ClientStep(j)
  BY <1>1 DEF Flags, ClientStep, CliInsert, CliPoke, CliPokeFails, PageConnects, PageAccepted,
              PageInserts, PageKicks, inMemory
<1>2. CASE TimerPokes \/ ReconcileStep
  BY <1>2 DEF Flags, TimerPokes, ReconcileStep, ReconcileWakes, ReconcileRuns, ReconcilePokes, inMemory
<1>3. CASE ProcessStep
  BY <1>3 DEF Flags, ProcessStep, Start, Exit, Crash, Stop, FreshMemory
<1>4. CASE AcceptorStep
  BY <1>4 DEF Flags, AcceptorStep, AcceptPoke, KickFromPoke
<1>5. CASE SelectStep
  BY <1>5 DEF Flags, SelectStep, SelectStop, SelectWake, SelectTick, SelectAct, SelectIdle,
              SelectIdleBlind, inMemory
<1>6. CASE DrainWorks \/ DrainFails
  BY <1>6 DEF Flags, DrainWorks, DrainTakes, DrainSettles, DrainPutsBack, DrainEnds, DrainFails, ToSelect
<1>7. CASE ClockStep
  BY <1>7 DEF Flags, ClockStep, IdleElapses, TickElapses, Ripens, inMemory
<1>. QED  BY <1>1, <1>2, <1>3, <1>4, <1>5, <1>6, <1>7 DEF Next

LEMMA LoopsKeep == ASSUME Loops, Next PROVE Loops'
<1>1. CASE \E j \in Jobs : ClientStep(j)
  BY <1>1 DEF Loops, ClientStep, CliInsert, CliPoke, CliPokeFails, PageConnects, PageAccepted,
              PageInserts, PageKicks, inMemory, counters
<1>2. CASE TimerPokes \/ ReconcileStep
  BY <1>2 DEF Loops, TimerPokes, ReconcileStep, ReconcileWakes, ReconcileRuns, ReconcilePokes, inMemory, counters
<1>3. CASE ProcessStep
  <2>1. Interrupted \in [Jobs -> {"off", "poking", "connecting", "handling", "kicking", "done", "gone"}]
    BY DEF Loops, Interrupted
  <2>2. NoDrain \in [from: {"none", "wake", "tick"}, job: Jobs \cup {NoJob}, ran: BOOLEAN]
    BY DEF NoDrain
  <2>3. CASE Start
    BY <2>2, <2>3 DEF Loops, Start, FreshMemory, counters
  <2>4. CASE Exit
    BY <2>1, <2>2, <2>4 DEF Loops, Exit, FreshMemory, counters
  <2>5. CASE Crash
    BY <2>1, <2>2, <2>5 DEF Loops, Crash, FreshMemory
  <2>6. CASE Stop
    BY <2>6 DEF Loops, Stop
  <2>. QED  BY <1>3, <2>3, <2>4, <2>5, <2>6 DEF ProcessStep
<1>4. CASE AcceptorStep
  BY <1>4 DEF Loops, AcceptorStep, AcceptPoke, KickFromPoke, counters
<1>5. CASE SelectStep
  <2>1. \A f \in {"none", "wake", "tick"} :
          [NoDrain EXCEPT !.from = f] \in [from: {"none", "wake", "tick"}, job: Jobs \cup {NoJob}, ran: BOOLEAN]
    BY DEF NoDrain
  <2>2. CASE SelectStop \/ SelectAct \/ SelectIdle \/ SelectIdleBlind
    BY <2>2 DEF Loops, SelectStop, SelectAct, SelectIdle, SelectIdleBlind, inMemory, counters
  <2>3. CASE SelectWake \/ SelectTick
    BY <2>1, <2>3 DEF Loops, SelectWake, SelectTick, counters
  <2>. QED  BY <1>5, <2>2, <2>3 DEF SelectStep
<1>6. CASE DrainWorks \/ DrainFails
  <2>1. NoDrain \in [from: {"none", "wake", "tick"}, job: Jobs \cup {NoJob}, ran: BOOLEAN]
    BY DEF NoDrain
  <2>2. ASSUME NEW j \in Jobs, DrainTakes(j) PROVE Loops'
    BY <2>2 DEF Loops, DrainTakes, counters
  <2>3. CASE DrainSettles
    BY <2>3 DEF Loops, DrainSettles, counters
  <2>4. ASSUME NEW counted \in BOOLEAN, DrainPutsBack(counted) PROVE Loops'
    <3>1. drain.ran \in BOOLEAN /\ drain.job \in Jobs
      BY <2>4 DEF Loops, DrainPutsBack
    <3>2. (drain.ran \/ counted) \in BOOLEAN
      OBVIOUS
    <3>3. drain' = [drain EXCEPT !.job = NoJob, !.ran = drain.ran \/ counted]
      BY <2>4 DEF DrainPutsBack
    <3>4. drain' \in [from: {"none", "wake", "tick"}, job: Jobs \cup {NoJob}, ran: BOOLEAN]
      BY <3>2, <3>3 DEF Loops
    <3>. QED  BY <2>4, <3>1, <3>4 DEF Loops, DrainPutsBack
  <2>5. CASE DrainEnds
    BY <2>1, <2>5 DEF Loops, DrainEnds, ToSelect, counters
  <2>6. CASE DrainFails
    BY <2>1, <2>6 DEF Loops, DrainFails, ToSelect
  <2>. QED  BY <1>6, <2>2, <2>3, <2>4, <2>5, <2>6 DEF DrainWorks
<1>7. CASE ClockStep
  BY <1>7 DEF Loops, ClockStep, IdleElapses, TickElapses, Ripens, inMemory, counters
<1>. QED  BY <1>1, <1>2, <1>3, <1>4, <1>5, <1>6, <1>7 DEF Next

-----------------------------------------------------------------------------
LEMMA LoopMoves == ASSUME [ServeNext]_serveVars PROVE [Next]_vars
BY DEF ServeNext, serveVars, loopVars

\* The same of the loop where it lives, in the process, with its types.
THEOREM NoneIsMissedHolds == ServeSpec => []NoneIsMissed
<1>. DEFINE Inv == IInv /\ Loops /\ Flags
<1>1. ServeInit => Inv
  BY InitHolds, LoopTypesInit DEF ServeInit
<1>2. Inv /\ [ServeNext]_serveVars => Inv'
  <2>. SUFFICES ASSUME Inv, [Next]_vars PROVE Inv'
    BY LoopMoves
  <2>1. IInv'
    BY StepKeeps
  <2>2. CASE Next
    BY <2>1, <2>2, LoopsKeep, FlagsKeep
  <2>3. CASE UNCHANGED vars
    BY <2>1, <2>3 DEF vars, inMemory, counters, Loops, Flags
  <2>. QED  BY <2>2, <2>3
<1>3. Inv => NoneIsMissed
  <2>1. IInv => NoMissedWake /\ NothingLeftBehind
    BY DEF IInv, WakeInv, OnItsWay, NoMissedWake, WakeInFlight, IdleInv, NothingLeftBehind
  <2>. QED  BY <2>1, LoopTypes DEF NoneIsMissed
<1>. QED  BY <1>1, <1>2, <1>3, PTL DEF ServeSpec

-----------------------------------------------------------------------------
(* The configuration.                                                       *)

Saved ==
    /\ toml \in [text : Texts, stamp : 0..MaxClock, next : Texts \cup {H!None}]
    /\ hold \in [text : Texts \cup {H!None}, stamp : 0..MaxClock, size : {t.size : t \in Texts} \cup {0}]
    /\ lock \in [by : {"nobody", "drain", "hup"}, loads : BOOLEAN]
    /\ sup \in {"down", "loaded", "up", "drain", "run", "gathered"}
    /\ run \in [snap : Texts \cup {H!None}, settings : {t.settings : t \in Texts} \cup {0},
                end : {"none", "not in config", "ran", "no agent"}]
    /\ clock \in 0..MaxClock /\ edits \in 0..MaxEdits /\ hups \in 0..MaxHups
    /\ seen \in BOOLEAN /\ unseen \in BOOLEAN /\ forced \in BOOLEAN

\* The holder has what the file says, or the edit does not show; what the stat shows.
Shown(f, h, u) == u \/ h.text = f.text
Same(f, h) == f.stamp = h.stamp /\ f.text.size = h.size

\* Who may be in reload when, and what the holder has meanwhile is valid.
Held ==
    /\ lock.by = "nobody" <=> lock = H!Idle
    /\ lock.by = "drain" => sup = "up"
    /\ sup \in {"down", "loaded"} => lock = H!Idle
    /\ sup # "down" => hold.text \in Texts /\ H!Validate(hold.text)

\* A valid file that shows the stat that the holder has is what it has loaded; while a
\* reload that saw that is under way, the file still does if nobody has written to it.
Known ==
    /\ sup = "loaded" /\ H!Validate(toml.text) => Shown(toml, hold, unseen)
    /\ sup \notin {"down", "loaded"} /\ ~lock.loads /\ Same(toml, hold) /\ H!Validate(toml.text) =>
         Shown(toml, hold, unseen)
    /\ lock # H!Idle /\ ~lock.loads /\ seen => Same(toml, hold)
    /\ sup # "down" /\ lock = H!Idle /\ seen /\ H!Validate(toml.text) => Shown(toml, hold, unseen)

\* A run's snapshot is valid, and the holder's until a SIGHUP.
Taken ==
    /\ sup \in {"run", "gathered"} =>
         /\ run.snap \in Texts /\ run.snap.routine /\ H!Validate(run.snap)
         /\ forced \/ (lock = H!Idle /\ hold.text = run.snap)
    /\ sup = "gathered" => forced \/ run.settings = run.snap.settings
    /\ run.end # "no agent"

ConfigInv == Saved /\ Held /\ Known /\ Taken

LEMMA ConfigImplies == ASSUME ConfigInv PROVE H!TypeOK /\ H!EditIsSeen /\ H!RunIsOfOneConfig
<1>1. H!TypeOK
  BY DEF ConfigInv, Saved, H!TypeOK
<1>2. H!EditIsSeen
  BY DEF ConfigInv, Known, Shown, H!EditIsSeen
<1>3. H!RunIsOfOneConfig
  BY DEF ConfigInv, Taken, H!RunIsOfOneConfig
<1>. QED  BY <1>1, <1>2, <1>3

LEMMA ConfigInitHolds == ASSUME H!Init PROVE ConfigInv
<1>1. PICK t \in Texts : toml = [text |-> t, stamp |-> 0, next |-> H!None]
  BY DEF H!Init
<1>2. /\ hold = [text |-> H!None, stamp |-> 0, size |-> 0] /\ lock = H!Idle /\ sup = "down"
      /\ run = H!NoRun /\ clock = 0 /\ edits = 0 /\ hups = 0
      /\ seen = FALSE /\ unseen = FALSE /\ forced = FALSE
  BY DEF H!Init
<1>3. Saved
  <2>1. toml \in [text : Texts, stamp : 0..MaxClock, next : Texts \cup {H!None}]
    BY <1>1, ConfigAssumption
  <2>2. hold \in [text : Texts \cup {H!None}, stamp : 0..MaxClock, size : {u.size : u \in Texts} \cup {0}]
    BY <1>2, ConfigAssumption
  <2>3. lock \in [by : {"nobody", "drain", "hup"}, loads : BOOLEAN]
    BY <1>2 DEF H!Idle
  <2>4. run \in [snap : Texts \cup {H!None}, settings : {u.settings : u \in Texts} \cup {0},
                end : {"none", "not in config", "ran", "no agent"}]
    BY <1>2 DEF H!NoRun
  <2>5. clock \in 0..MaxClock /\ edits \in 0..MaxEdits /\ hups \in 0..MaxHups
    BY <1>2, ConfigAssumption
  <2>. QED  BY <1>2, <2>1, <2>2, <2>3, <2>4, <2>5 DEF Saved
<1>4. lock.by = "nobody" /\ ~lock.loads /\ run.end = "none"
  BY <1>2 DEF H!Idle, H!NoRun
<1>. QED  BY <1>2, <1>3, <1>4 DEF ConfigInv, Held, Known, Taken

-----------------------------------------------------------------------------
\* A write to the file: an edit that the stat does not show is an edit that is not seen.
LEMMA EditKeeps ==
    ASSUME ConfigInv, NEW t \in Texts, NEW n \in Texts \cup {H!None},
           toml' = [text |-> t, stamp |-> clock, next |-> n], H!Edited(t),
           edits' \in 0..MaxEdits, UNCHANGED <<clock, hold, lock, sup, run, hups, forced>>
    PROVE  ConfigInv'
<1>1. /\ toml' \in [text : Texts, stamp : 0..MaxClock, next : Texts \cup {H!None}]
      /\ toml'.text = t /\ toml'.stamp = clock
  BY DEF ConfigInv, Saved
<1>2. seen' = FALSE /\ unseen' \in BOOLEAN
  BY DEF H!Edited
<1>3. \/ unseen'
      \/ sup # "loaded" /\ (t = hold.text \/ hold.stamp # clock \/ hold.size # t.size)
  BY DEF H!Edited
<1>4. Saved'
  <2>1. /\ hold' = hold /\ lock' = lock /\ sup' = sup /\ run' = run /\ clock' = clock /\ hups' = hups
        /\ forced' = forced
    BY Zenon
  <2>2. seen' \in BOOLEAN /\ unseen' \in BOOLEAN /\ forced' \in BOOLEAN
    BY Zenon, <1>2, <2>1 DEF ConfigInv, Saved
  <2>3. clock' \in 0..MaxClock /\ edits' \in 0..MaxEdits /\ hups' \in 0..MaxHups
        /\ sup' \in {"down", "loaded", "up", "drain", "run", "gathered"}
    BY Zenon, <2>1 DEF ConfigInv, Saved
  <2>4. /\ hold' \in [text : Texts \cup {H!None}, stamp : 0..MaxClock, size : {x.size : x \in Texts} \cup {0}]
        /\ lock' \in [by : {"nobody", "drain", "hup"}, loads : BOOLEAN]
        /\ run' \in [snap : Texts \cup {H!None}, settings : {x.settings : x \in Texts} \cup {0},
                     end : {"none", "not in config", "ran", "no agent"}]
    BY Zenon, <2>1 DEF ConfigInv, Saved
  <2>. QED  BY Zenon, <1>1, <2>2, <2>3, <2>4 DEF Saved
<1>5. Held' /\ Taken'
  BY DEF ConfigInv, Held, Taken
<1>6. Shown(toml', hold', unseen') \/ (sup # "loaded" /\ ~Same(toml', hold'))
  <2>1. hold' = hold
    BY Zenon
  <2>2. CASE unseen'
    BY Zenon, <2>2 DEF Shown
  <2>3. CASE ~unseen'
    <3>1. sup # "loaded" /\ (t = hold.text \/ hold.stamp # clock \/ hold.size # t.size)
      BY Zenon, <1>3, <2>3
    <3>. QED  BY Zenon, <1>1, <2>1, <3>1 DEF Shown, Same
  <2>. QED  BY Zenon, <2>2, <2>3
<1>7. Known'
  BY <1>2, <1>6 DEF Known
<1>. QED  BY <1>4, <1>5, <1>7 DEF ConfigInv

LEMMA SaveByRenameKeeps == ASSUME ConfigInv, NEW t \in Texts, H!SaveByRename(t) PROVE ConfigInv'
<1>1. /\ toml' = [text |-> t, stamp |-> clock, next |-> H!None] /\ H!Edited(t)
      /\ edits < MaxEdits /\ edits' = edits + 1 /\ UNCHANGED <<clock, hold, lock, sup, run, hups, forced>>
  BY DEF H!SaveByRename
<1>2. edits' \in 0..MaxEdits
  <2>1. edits \in 0..MaxEdits
    BY Zenon DEF ConfigInv, Saved
  <2>. QED  BY <1>1, <2>1, ConfigAssumption
<1>. QED  BY <1>1, <1>2, EditKeeps

LEMMA SaveInPlaceKeeps == ASSUME ConfigInv, NEW t \in Texts, H!SaveInPlace(t) PROVE ConfigInv'
<1>1. /\ toml' = [text |-> Blank, stamp |-> clock, next |-> t] /\ H!Edited(Blank)
      /\ edits < MaxEdits /\ edits' = edits + 1 /\ UNCHANGED <<clock, hold, lock, sup, run, hups, forced>>
  BY DEF H!SaveInPlace
<1>2. edits' \in 0..MaxEdits /\ Blank \in Texts
  <2>1. edits \in 0..MaxEdits
    BY Zenon DEF ConfigInv, Saved
  <2>. QED  BY <1>1, <2>1, ConfigAssumption
<1>. QED  BY <1>1, <1>2, EditKeeps

LEMMA FinishSaveKeeps == ASSUME ConfigInv, H!FinishSave PROVE ConfigInv'
<1>1. /\ toml' = [text |-> toml.next, stamp |-> clock, next |-> H!None] /\ H!Edited(toml.next)
      /\ toml.next # H!None /\ UNCHANGED <<clock, hold, lock, sup, run, edits, hups, forced>>
  BY DEF H!FinishSave
<1>2. edits' \in 0..MaxEdits /\ toml.next \in Texts
  <2>1. edits \in 0..MaxEdits /\ toml \in [text : Texts, stamp : 0..MaxClock, next : Texts \cup {H!None}]
    BY Zenon DEF ConfigInv, Saved
  <2>. QED  BY <1>1, <2>1
<1>. QED  BY <1>1, <1>2, EditKeeps

LEMMA ClockKeeps == ASSUME ConfigInv, H!Tick PROVE ConfigInv'
<1>1. /\ clock < MaxClock /\ clock' = clock + 1
      /\ UNCHANGED <<toml, hold, lock, sup, run, edits, hups, seen, unseen, forced>>
  BY DEF H!Tick
<1>2. clock' \in 0..MaxClock
  <2>1. clock \in 0..MaxClock
    BY Zenon DEF ConfigInv, Saved
  <2>. QED  BY <1>1, <2>1, ConfigAssumption
<1>3. Saved'
  <2>1. /\ toml' = toml /\ hold' = hold /\ lock' = lock /\ sup' = sup /\ run' = run
        /\ edits' = edits /\ hups' = hups
    BY <1>1
  <2>2. seen' \in BOOLEAN /\ unseen' \in BOOLEAN /\ forced' \in BOOLEAN
    BY Zenon, <1>1 DEF ConfigInv, Saved
  <2>3. edits' \in 0..MaxEdits /\ hups' \in 0..MaxHups
        /\ sup' \in {"down", "loaded", "up", "drain", "run", "gathered"}
    BY Zenon, <2>1 DEF ConfigInv, Saved
  <2>4. /\ toml' \in [text : Texts, stamp : 0..MaxClock, next : Texts \cup {H!None}]
        /\ hold' \in [text : Texts \cup {H!None}, stamp : 0..MaxClock, size : {x.size : x \in Texts} \cup {0}]
        /\ lock' \in [by : {"nobody", "drain", "hup"}, loads : BOOLEAN]
        /\ run' \in [snap : Texts \cup {H!None}, settings : {x.settings : x \in Texts} \cup {0},
                     end : {"none", "not in config", "ran", "no agent"}]
    BY Zenon, <2>1 DEF ConfigInv, Saved
  <2>. QED  BY Zenon, <1>2, <2>2, <2>3, <2>4 DEF Saved
<1>. QED  BY <1>1, <1>3 DEF ConfigInv, Held, Known, Taken

LEMMA StartKeeps == ASSUME ConfigInv, H!Start PROVE ConfigInv'
<1>1. /\ sup = "down" /\ H!Validate(toml.text) /\ hold' = [hold EXCEPT !.text = toml.text]
      /\ sup' = "loaded" /\ seen' = TRUE /\ unseen' = FALSE
      /\ UNCHANGED <<toml, clock, lock, run, edits, hups, forced>>
  BY DEF H!Start
<1>2. toml.text \in Texts
  BY DEF ConfigInv, Saved
<1>3. /\ hold' \in [text : Texts \cup {H!None}, stamp : 0..MaxClock, size : {t.size : t \in Texts} \cup {0}]
      /\ hold'.text = toml.text
  BY <1>1, <1>2 DEF ConfigInv, Saved
<1>4. Saved'
  BY <1>1, <1>3 DEF ConfigInv, Saved
<1>5. Held' /\ Taken'
  BY <1>1, <1>2, <1>3 DEF ConfigInv, Held, Taken
<1>6. Known'
  BY <1>1, <1>3 DEF ConfigInv, Known, Shown, Held
<1>. QED  BY <1>4, <1>5, <1>6 DEF ConfigInv

\* What the stat has shown is kept with the mtime and the size.
LEMMA StatKept ==
    ASSUME ConfigInv, hold' = [hold EXCEPT !.stamp = toml.stamp, !.size = toml.text.size]
    PROVE  /\ hold' \in [text : Texts \cup {H!None}, stamp : 0..MaxClock, size : {t.size : t \in Texts} \cup {0}]
           /\ hold'.text = hold.text /\ Same(toml, hold')
<1>1. toml.stamp \in 0..MaxClock /\ toml.text.size \in {t.size : t \in Texts}
  <2>1. toml \in [text : Texts, stamp : 0..MaxClock, next : Texts \cup {H!None}]
    BY Zenon DEF ConfigInv, Saved
  <2>. QED  BY <2>1
<1>2. hold \in [text : Texts \cup {H!None}, stamp : 0..MaxClock, size : {t.size : t \in Texts} \cup {0}]
  BY Zenon DEF ConfigInv, Saved
<1>. QED  BY <1>1, <1>2 DEF Same

LEMMA BaselineKeeps == ASSUME ConfigInv, H!Baseline PROVE ConfigInv'
<1>1. /\ sup = "loaded" /\ hold' = [hold EXCEPT !.stamp = toml.stamp, !.size = toml.text.size]
      /\ sup' = "up" /\ UNCHANGED <<toml, clock, lock, run, edits, hups, seen, unseen, forced>>
  BY DEF H!Baseline
<1>2. /\ hold' \in [text : Texts \cup {H!None}, stamp : 0..MaxClock, size : {t.size : t \in Texts} \cup {0}]
      /\ hold'.text = hold.text /\ Same(toml, hold')
  BY <1>1, StatKept
<1>3. Saved'
  BY <1>1, <1>2 DEF ConfigInv, Saved
<1>4. Held' /\ Taken'
  BY <1>1, <1>2 DEF ConfigInv, Held, Taken
<1>5. Known'
  BY <1>1, <1>2 DEF ConfigInv, Known, Shown, Held
<1>. QED  BY <1>3, <1>4, <1>5 DEF ConfigInv

\* The first half of a reload.
LEMMA StatKeeps ==
    ASSUME ConfigInv, NEW by \in {"drain", "hup"}, NEW force \in BOOLEAN, H!Stat(by, force),
           sup \notin {"down", "loaded"}, by = "drain" => sup = "up",
           toml' = toml, clock' = clock, sup' = sup, run' = run, edits' = edits,
           hups' \in 0..MaxHups, forced' \in BOOLEAN, sup \in {"run", "gathered"} => forced'
    PROVE  ConfigInv'
<1>. DEFINE loads == force \/ H!Changed
<1>1. /\ lock = H!Idle /\ lock' = [by |-> by, loads |-> loads] /\ seen' = TRUE
      /\ IF loads
         THEN hold' = [hold EXCEPT !.stamp = toml.stamp, !.size = toml.text.size] /\ unseen' = FALSE
         ELSE hold' = hold /\ unseen' = unseen
  BY Zenon DEF H!Stat
<1>2. loads \in BOOLEAN /\ (~loads => Same(toml, hold))
  BY DEF H!Changed, Same
<1>. HIDE DEF loads
<1>3. /\ lock' \in [by : {"nobody", "drain", "hup"}, loads : BOOLEAN]
      /\ lock'.by = by /\ (lock'.loads <=> loads) /\ lock' # H!Idle /\ ~lock.loads
  BY <1>1, <1>2 DEF H!Idle
<1>4. /\ hold' \in [text : Texts \cup {H!None}, stamp : 0..MaxClock, size : {t.size : t \in Texts} \cup {0}]
      /\ hold'.text = hold.text /\ Same(toml, hold')
  <2>1. CASE loads
    BY <1>1, <2>1, StatKept
  <2>2. CASE ~loads
    BY <1>1, <1>2, <2>2 DEF ConfigInv, Saved
  <2>. QED  BY <2>1, <2>2
<1>5. Saved'
  <2>1. unseen' \in BOOLEAN
    BY Zenon, <1>1 DEF ConfigInv, Saved
  <2>2. /\ toml' \in [text : Texts, stamp : 0..MaxClock, next : Texts \cup {H!None}]
        /\ sup' \in {"down", "loaded", "up", "drain", "run", "gathered"}
        /\ run' \in [snap : Texts \cup {H!None}, settings : {t.settings : t \in Texts} \cup {0},
                     end : {"none", "not in config", "ran", "no agent"}]
        /\ clock' \in 0..MaxClock /\ edits' \in 0..MaxEdits
    BY Zenon DEF ConfigInv, Saved
  <2>3. seen' \in BOOLEAN
    BY <1>1
  <2>. QED  BY Zenon, <1>3, <1>4, <2>1, <2>2, <2>3 DEF Saved
<1>6. Held'
  BY <1>3, <1>4 DEF ConfigInv, Held
<1>7. Taken'
  BY Zenon DEF ConfigInv, Taken
<1>8. Known'
  <2>1. CASE loads
    BY <1>3, <1>4, <2>1 DEF Known
  <2>2. CASE ~loads
    <3>1. hold' = hold /\ (unseen' <=> unseen)
      BY Zenon, <1>1, <2>2
    <3>2. H!Validate(toml.text) => Shown(toml, hold, unseen)
      BY <1>2, <1>3, <2>2 DEF ConfigInv, Known
    <3>3. H!Validate(toml.text) => Shown(toml', hold', unseen')
      BY Zenon, <3>1, <3>2 DEF Shown
    <3>. QED  BY <1>3, <1>4, <3>3 DEF Known
  <2>. QED  BY <2>1, <2>2
<1>. QED  BY <1>5, <1>6, <1>7, <1>8 DEF ConfigInv

LEMMA ConfigDrainKeeps == ASSUME ConfigInv, H!Drain PROVE ConfigInv'
<1>1. /\ sup = "up" /\ H!Stat("drain", FALSE) /\ toml' = toml /\ clock' = clock /\ sup' = sup
      /\ run' = run /\ edits' = edits /\ hups' = hups
  BY DEF H!Drain
<1>2. hups' \in 0..MaxHups
  BY Zenon, <1>1 DEF ConfigInv, Saved
<1>3. forced' \in BOOLEAN
  BY Zenon DEF H!Drain, ConfigInv, Saved
<1>4. "drain" \in {"drain", "hup"} /\ FALSE \in BOOLEAN /\ sup \notin {"down", "loaded", "run", "gathered"}
  BY <1>1
<1>. QED  BY Zenon, <1>1, <1>2, <1>3, <1>4, StatKeeps

LEMMA HupKeeps == ASSUME ConfigInv, H!Hup PROVE ConfigInv'
<1>1. /\ sup \notin {"down", "loaded"} /\ H!Stat("hup", TRUE) /\ toml' = toml /\ clock' = clock
      /\ sup' = sup /\ run' = run /\ edits' = edits /\ hups < MaxHups /\ hups' = hups + 1
  BY DEF H!Hup
<1>2. hups' \in 0..MaxHups
  <2>1. hups \in 0..MaxHups
    BY Zenon DEF ConfigInv, Saved
  <2>. QED  BY <1>1, <2>1, ConfigAssumption
<1>3. forced' \in BOOLEAN /\ (sup \in {"run", "gathered"} => forced')
  BY Zenon DEF H!Hup, ConfigInv, Saved
<1>4. "hup" \in {"drain", "hup"} /\ TRUE \in BOOLEAN /\ "hup" # "drain"
  OBVIOUS
<1>. QED  BY Zenon, <1>1, <1>2, <1>3, <1>4, StatKeeps

\* The second half: what is valid is the holder's, what is not changes nothing.
LEMMA LoadAgainKeeps == ASSUME ConfigInv, H!LoadAgain PROVE ConfigInv'
<1>1. /\ lock.by # "nobody" /\ lock' = H!Idle
      /\ hold' = (IF lock.loads THEN H!Swap(hold) ELSE hold)
      /\ sup' = (IF lock.by = "drain" THEN "drain" ELSE sup)
      /\ toml' = toml /\ clock' = clock /\ run' = run /\ edits' = edits /\ hups' = hups
  BY DEF H!LoadAgain
<1>2. (seen' <=> seen) /\ (unseen' <=> unseen) /\ (forced' <=> forced)
  BY Zenon DEF H!LoadAgain
<1>3. seen' \in BOOLEAN /\ unseen' \in BOOLEAN /\ forced' \in BOOLEAN
  BY Zenon DEF H!LoadAgain, ConfigInv, Saved
<1>4. /\ toml.text \in Texts
      /\ hold \in [text : Texts \cup {H!None}, stamp : 0..MaxClock, size : {t.size : t \in Texts} \cup {0}]
  BY DEF ConfigInv, Saved
<1>5. sup \notin {"down", "loaded"} /\ sup' \notin {"down", "loaded"} /\ lock # H!Idle
      /\ hold.text \in Texts /\ H!Validate(hold.text) /\ (lock.by = "drain" => sup = "up")
  BY <1>1 DEF ConfigInv, Held
<1>6. /\ hold' \in [text : Texts \cup {H!None}, stamp : 0..MaxClock, size : {t.size : t \in Texts} \cup {0}]
      /\ hold'.text = (IF lock.loads /\ H!Validate(toml.text) THEN toml.text ELSE hold.text)
      /\ hold'.stamp = hold.stamp /\ hold'.size = hold.size
  BY <1>1, <1>4 DEF H!Swap
<1>7. lock'.by = "nobody" /\ ~lock'.loads /\ lock' \in [by : {"nobody", "drain", "hup"}, loads : BOOLEAN]
  BY <1>1 DEF H!Idle
<1>8. Saved'
  <2>1. sup' \in {"down", "loaded", "up", "drain", "run", "gathered"}
    BY <1>1 DEF ConfigInv, Saved
  <2>2. /\ toml' \in [text : Texts, stamp : 0..MaxClock, next : Texts \cup {H!None}]
        /\ run' \in [snap : Texts \cup {H!None}, settings : {t.settings : t \in Texts} \cup {0},
                     end : {"none", "not in config", "ran", "no agent"}]
        /\ clock' \in 0..MaxClock /\ edits' \in 0..MaxEdits /\ hups' \in 0..MaxHups
    BY Zenon, <1>1 DEF ConfigInv, Saved
  <2>. QED  BY Zenon, <1>3, <1>6, <1>7, <2>1, <2>2 DEF Saved
<1>9. Held'
  BY <1>1, <1>4, <1>5, <1>6, <1>7 DEF Held
<1>10. H!Validate(toml.text) /\ (seen \/ Same(toml, hold)) => Shown(toml, hold', unseen)
  <2>1. CASE lock.loads
    BY <1>6, <2>1 DEF Shown
  <2>2. CASE ~lock.loads
    <3>1. seen => Same(toml, hold)
      BY <1>5, <2>2 DEF ConfigInv, Known
    <3>2. H!Validate(toml.text) /\ Same(toml, hold) => Shown(toml, hold, unseen)
      BY <1>5, <2>2 DEF ConfigInv, Known
    <3>. QED  BY <1>6, <2>2, <3>1, <3>2 DEF Shown
  <2>. QED  BY <2>1, <2>2
<1>11. H!Validate(toml'.text) /\ (seen' \/ Same(toml', hold')) => Shown(toml', hold', unseen')
  <2>1. Same(toml, hold') <=> Same(toml, hold)
    BY <1>6 DEF Same
  <2>2. toml' = toml
    BY <1>1
  <2>3. Shown(toml, hold', unseen) <=> Shown(toml, hold', unseen')
    BY Zenon, <1>2 DEF Shown
  <2>4. H!Validate(toml.text) /\ (seen' \/ Same(toml, hold')) => Shown(toml, hold', unseen)
    BY Zenon, <1>2, <1>10, <2>1
  <2>. QED  BY Zenon, <2>2, <2>3, <2>4
<1>12. Known'
  BY Zenon, <1>1, <1>5, <1>11 DEF Known
<1>13. Taken'
  <2>1. run.end # "no agent"
    BY Zenon DEF ConfigInv, Taken
  <2>2. ASSUME sup' \in {"run", "gathered"}
        PROVE  /\ run.snap \in Texts /\ run.snap.routine /\ H!Validate(run.snap) /\ forced
               /\ (sup' = "gathered" => sup = "gathered")
    <3>1. sup \in {"run", "gathered"} /\ sup' = sup
      BY <1>1, <1>5, <2>2
    <3>2. forced
      BY Zenon, <1>5, <3>1 DEF ConfigInv, Taken
    <3>. QED  BY Zenon, <3>1, <3>2 DEF ConfigInv, Taken
  <2>3. sup' = "gathered" => forced
    BY <2>2
  <2>4. forced => forced'
    BY Zenon, <1>2
  <2>. QED  BY Zenon, <1>1, <2>1, <2>2, <2>3, <2>4 DEF Taken
<1>. QED  BY <1>8, <1>9, <1>12, <1>13 DEF ConfigInv

-----------------------------------------------------------------------------
\* A step of the run: the file and its holder are as they were.
LEMMA RunStep ==
    ASSUME ConfigInv, toml' = toml, clock' = clock, hold' = hold, lock' = lock,
           edits' = edits, hups' = hups, seen' <=> seen, seen' \in BOOLEAN,
           unseen' <=> unseen, unseen' \in BOOLEAN, forced' \in BOOLEAN,
           sup' \in {"up", "drain", "run", "gathered"}, sup \notin {"down", "loaded"},
           lock.by = "drain" => sup' = "up",
           run' \in [snap : Texts \cup {H!None}, settings : {t.settings : t \in Texts} \cup {0},
                     end : {"none", "not in config", "ran", "no agent"}],
           Taken'
    PROVE  ConfigInv'
<1>1. Saved'
  <2>1. /\ toml' \in [text : Texts, stamp : 0..MaxClock, next : Texts \cup {H!None}]
        /\ hold' \in [text : Texts \cup {H!None}, stamp : 0..MaxClock, size : {t.size : t \in Texts} \cup {0}]
        /\ lock' \in [by : {"nobody", "drain", "hup"}, loads : BOOLEAN]
        /\ clock' \in 0..MaxClock /\ edits' \in 0..MaxEdits /\ hups' \in 0..MaxHups
    BY Zenon DEF ConfigInv, Saved
  <2>2. sup' \in {"down", "loaded", "up", "drain", "run", "gathered"}
    OBVIOUS
  <2>. QED  BY Zenon, <2>1, <2>2 DEF Saved
<1>2. sup' \notin {"down", "loaded"} /\ sup' # "down" /\ sup # "down" /\ sup' # "loaded"
  OBVIOUS
<1>3. Held'
  <2>1. /\ lock.by = "nobody" <=> lock = H!Idle
        /\ hold.text \in Texts /\ H!Validate(hold.text)
    BY <1>2 DEF ConfigInv, Held
  <2>. QED  BY <1>2, <2>1 DEF Held
<1>4. Known'
  <2>1. /\ ~lock.loads /\ Same(toml, hold) /\ H!Validate(toml.text) => Shown(toml, hold, unseen)
        /\ lock # H!Idle /\ ~lock.loads /\ seen => Same(toml, hold)
        /\ lock = H!Idle /\ seen /\ H!Validate(toml.text) => Shown(toml, hold, unseen)
    BY Zenon, <1>2 DEF ConfigInv, Known
  <2>2. Shown(toml, hold, unseen) => Shown(toml, hold, unseen')
    BY Zenon DEF Shown
  <2>. QED  BY Zenon, <1>2, <2>1, <2>2 DEF Known
<1>. QED  BY <1>1, <1>3, <1>4 DEF ConfigInv

LEMMA StartRunKeeps == ASSUME ConfigInv, H!StartRun PROVE ConfigInv'
<1>1. /\ sup = "drain" /\ lock = H!Idle /\ forced' = FALSE
      /\ toml' = toml /\ clock' = clock /\ hold' = hold /\ lock' = lock /\ edits' = edits /\ hups' = hups
  BY DEF H!StartRun
<1>2. (seen' <=> seen) /\ (unseen' <=> unseen) /\ seen' \in BOOLEAN /\ unseen' \in BOOLEAN
  BY Zenon DEF H!StartRun, ConfigInv, Saved
<1>3. hold.text \in Texts /\ H!Validate(hold.text) /\ lock.by = "nobody"
  BY <1>1 DEF ConfigInv, Held, H!Idle
<1>4. \/ hold.text.routine /\ sup' = "run" /\ run' = [H!NoRun EXCEPT !.snap = hold.text]
      \/ sup' = "up" /\ run' = [H!NoRun EXCEPT !.snap = hold.text, !.end = "not in config"]
  BY Zenon DEF H!StartRun
<1>5. /\ run' \in [snap : Texts \cup {H!None}, settings : {t.settings : t \in Texts} \cup {0},
                     end : {"none", "not in config", "ran", "no agent"}]
      /\ run'.snap = hold.text /\ run'.end # "no agent"
  BY <1>3, <1>4 DEF H!NoRun
<1>6. Taken'
  BY <1>1, <1>3, <1>4, <1>5 DEF Taken
<1>7. sup' \in {"up", "drain", "run", "gathered"} /\ sup \notin {"down", "loaded"} /\ forced' \in BOOLEAN
  BY <1>1, <1>4
<1>. QED  BY Zenon, <1>1, <1>2, <1>3, <1>5, <1>6, <1>7, RunStep

LEMMA GatherStepKeeps == ASSUME ConfigInv, H!Gather PROVE ConfigInv'
<1>1. /\ sup = "run" /\ lock = H!Idle /\ sup' = "gathered"
      /\ run' = [run EXCEPT !.settings = H!SettingsNow]
      /\ toml' = toml /\ clock' = clock /\ hold' = hold /\ lock' = lock /\ edits' = edits /\ hups' = hups
  BY DEF H!Gather
<1>2. /\ (seen' <=> seen) /\ (unseen' <=> unseen) /\ (forced' <=> forced)
      /\ seen' \in BOOLEAN /\ unseen' \in BOOLEAN /\ forced' \in BOOLEAN
  BY Zenon DEF H!Gather, ConfigInv, Saved
<1>3. /\ hold.text \in Texts
      /\ run \in [snap : Texts \cup {H!None}, settings : {t.settings : t \in Texts} \cup {0},
                  end : {"none", "not in config", "ran", "no agent"}]
  BY <1>1 DEF ConfigInv, Held, Saved
<1>4. /\ run' \in [snap : Texts \cup {H!None}, settings : {t.settings : t \in Texts} \cup {0},
                   end : {"none", "not in config", "ran", "no agent"}]
      /\ run'.snap = run.snap /\ run'.end = run.end /\ run'.settings = hold.text.settings
  BY <1>1, <1>3 DEF H!SettingsNow
<1>5. Taken'
  <2>1. /\ run.snap \in Texts /\ run.snap.routine /\ H!Validate(run.snap) /\ run.end # "no agent"
        /\ forced \/ (lock = H!Idle /\ hold.text = run.snap)
    BY Zenon, <1>1 DEF ConfigInv, Taken
  <2>2. forced' \/ (lock' = H!Idle /\ hold'.text = run'.snap)
    BY Zenon, <1>1, <1>2, <1>4, <2>1
  <2>3. forced' \/ run'.settings = run'.snap.settings
    BY Zenon, <1>1, <1>2, <1>4, <2>1
  <2>4. run'.snap \in Texts /\ run'.snap.routine /\ H!Validate(run'.snap) /\ run'.end # "no agent"
    BY Zenon, <1>4, <2>1
  <2>. QED  BY Zenon, <2>2, <2>3, <2>4 DEF Taken
<1>6. lock.by = "nobody" /\ sup' \in {"up", "drain", "run", "gathered"} /\ sup \notin {"down", "loaded"}
  BY <1>1 DEF H!Idle
<1>. QED  BY Zenon, <1>1, <1>2, <1>4, <1>5, <1>6, RunStep

LEMMA EndRunKeeps == ASSUME ConfigInv, H!EndRun PROVE ConfigInv'
<1>1. /\ sup = "gathered" /\ sup' \in {"up", "drain"}
      /\ run' = [run EXCEPT !.end = IF run.snap.script \/ H!AgentOf(run.snap) \in run.snap.agents
                                    THEN "ran" ELSE "no agent"]
      /\ toml' = toml /\ clock' = clock /\ hold' = hold /\ lock' = lock /\ edits' = edits /\ hups' = hups
  BY DEF H!EndRun
<1>2. /\ (seen' <=> seen) /\ (unseen' <=> unseen)
      /\ seen' \in BOOLEAN /\ unseen' \in BOOLEAN /\ forced' \in BOOLEAN
  BY Zenon DEF H!EndRun, ConfigInv, Saved
<1>3. /\ run \in [snap : Texts \cup {H!None}, settings : {t.settings : t \in Texts} \cup {0},
                  end : {"none", "not in config", "ran", "no agent"}]
      /\ run.snap.routine /\ H!Validate(run.snap) /\ (lock.by = "drain" => sup = "up")
  BY <1>1 DEF ConfigInv, Held, Taken, Saved
<1>4. run.snap.script \/ H!AgentOf(run.snap) \in run.snap.agents
  BY Zenon, <1>3 DEF H!Validate
<1>5. /\ run' \in [snap : Texts \cup {H!None}, settings : {t.settings : t \in Texts} \cup {0},
                   end : {"none", "not in config", "ran", "no agent"}]
      /\ run'.end = "ran"
  <2>1. run' = [run EXCEPT !.end = "ran"]
    BY Zenon, <1>1, <1>4
  <2>. QED  BY <1>3, <2>1
<1>6. Taken' /\ lock.by # "drain"
  BY <1>1, <1>3, <1>5 DEF Taken
<1>7. sup' \in {"up", "drain", "run", "gathered"} /\ sup \notin {"down", "loaded"}
  BY <1>1
<1>. QED  BY Zenon, <1>1, <1>2, <1>5, <1>6, <1>7, RunStep

LEMMA ConfigKeeps == ASSUME ConfigInv, [H!Next]_(H!vars) PROVE ConfigInv'
<1>1. ASSUME NEW t \in Texts, H!SaveByRename(t) \/ H!SaveInPlace(t) PROVE ConfigInv'
  BY <1>1, SaveByRenameKeeps, SaveInPlaceKeeps
<1>2. CASE H!Tick \/ H!FinishSave \/ H!Start \/ H!Baseline \/ H!LoadAgain \/ H!Drain \/ H!Hup
  BY <1>2, ClockKeeps, FinishSaveKeeps, StartKeeps, BaselineKeeps, LoadAgainKeeps, ConfigDrainKeeps, HupKeeps
<1>3. CASE H!StartRun \/ H!Gather \/ H!EndRun
  BY <1>3, StartRunKeeps, GatherStepKeeps, EndRunKeeps
<1>4. CASE UNCHANGED H!vars
  <2>1. /\ toml' = toml /\ clock' = clock /\ hold' = hold /\ lock' = lock /\ sup' = sup /\ run' = run
        /\ edits' = edits /\ hups' = hups /\ seen' = seen /\ unseen' = unseen /\ forced' = forced
    BY Zenon, <1>4 DEF H!vars
  <2>2. Saved'
    <3>1. seen' \in BOOLEAN /\ unseen' \in BOOLEAN /\ forced' \in BOOLEAN
      BY Zenon, <2>1 DEF ConfigInv, Saved
    <3>2. /\ toml' = toml /\ clock' = clock /\ hold' = hold /\ lock' = lock /\ sup' = sup
          /\ run' = run /\ edits' = edits /\ hups' = hups
      BY <2>1
    <3>3. /\ clock' \in 0..MaxClock /\ edits' \in 0..MaxEdits /\ hups' \in 0..MaxHups
          /\ sup' \in {"down", "loaded", "up", "drain", "run", "gathered"}
      BY <3>2 DEF ConfigInv, Saved
    <3>4. /\ toml' \in [text : Texts, stamp : 0..MaxClock, next : Texts \cup {H!None}]
          /\ hold' \in [text : Texts \cup {H!None}, stamp : 0..MaxClock, size : {t.size : t \in Texts} \cup {0}]
          /\ lock' \in [by : {"nobody", "drain", "hup"}, loads : BOOLEAN]
          /\ run' \in [snap : Texts \cup {H!None}, settings : {t.settings : t \in Texts} \cup {0},
                       end : {"none", "not in config", "ran", "no agent"}]
      BY <3>2 DEF ConfigInv, Saved
    <3>. QED  BY Zenon, <3>1, <3>3, <3>4 DEF Saved
  <2>3. Held'
    BY Zenon, <2>1 DEF ConfigInv, Held
  <2>4. Known'
    BY Zenon, <2>1 DEF ConfigInv, Known
  <2>5. Taken'
    BY Zenon, <2>1 DEF ConfigInv, Taken
  <2>. QED  BY <2>2, <2>3, <2>4, <2>5 DEF ConfigInv
<1>. QED  BY <1>1, <1>2, <1>3, <1>4 DEF H!Next

-----------------------------------------------------------------------------
LEMMA ConfigMoves == ASSUME [ServeNext]_serveVars PROVE [H!Next]_(H!vars)
BY DEF ServeNext, serveVars, configVars, H!vars

\* config/holder.go: whatever edits, saves, drains and SIGHUPs cross, an edit that was
\* looked at is in the holder unless mtime and size hide it; and a run goes by one
\* configuration, which has its routine and agent.  For any texts and any number of edits.
THEOREM ConfigIsWholeHolds == ServeSpec => []ConfigIsWhole
<1>1. ServeInit => ConfigInv
  BY ConfigInitHolds DEF ServeInit
<1>2. ConfigInv /\ [ServeNext]_serveVars => ConfigInv'
  BY ConfigMoves, ConfigKeeps
<1>3. ConfigInv => ConfigIsWhole
  BY ConfigImplies DEF ConfigIsWhole
<1>. QED  BY <1>1, <1>2, <1>3, PTL DEF ServeSpec

-----------------------------------------------------------------------------
(* The logins.                                                              *)

Processes == [pc : {"down", "starting", "up"}, hash : Nat, key : Nat,
              kept : BOOLEAN, fresh : BOOLEAN, quiet : BOOLEAN]

SecretsTyped ==
    /\ tomlHash \in Nat /\ keys \in Nat /\ keyFile \in Nat /\ keyFile <= keys
    /\ passwd.pc = "key" => passwd.pending
    /\ server \in Processes /\ server.hash <= tomlHash

\* What is true of a process with its key, and of a cookie it gave out.  In order: its
\* password and key are old ones or the present; a key that it got with the password of
\* the file still stands for that password; what started quietly and has the password of
\* the file is not in the middle of a change, and its key, if kept, is the one in the file.
Holds(u) ==
    /\ u.hash \in Nat /\ u.hash <= tomlHash /\ u.key \in Nat /\ 0 < u.key /\ u.key <= keys
    /\ u.quiet => u.fresh
    /\ u.fresh /\ u.key = keyFile /\ ~passwd.pending => u.hash = tomlHash
    /\ u.quiet /\ u.hash = tomlHash => ~passwd.pending /\ (u.kept => keyFile = u.key)

\* A cookie and the process that is up.
Agree(c) ==
    server.pc = "up" /\ server.quiet =>
        /\ c.fresh /\ c.key = server.key => c.hash = server.hash
        /\ c.quiet /\ c.kept /\ server.kept /\ c.hash = server.hash => c.key = server.key

LoginInv ==
    /\ SecretsTyped
    /\ server.pc = "up" => Holds(server)
    /\ \A c \in cookies : Holds(c) /\ Agree(c)

-----------------------------------------------------------------------------

LEMMA LoginInitHolds == ASSUME W!Init PROVE LoginInv
BY DEF W!Init, LoginInv, SecretsTyped, Processes, W!Down

\* A step that changes neither file nor key, nor the process.
LEMMA NothingSecret ==
    ASSUME LoginInv, UNCHANGED <<tomlHash, keyFile, keys, passwd, server>>, cookies' \subseteq cookies
    PROVE  LoginInv'
BY DEF LoginInv, SecretsTyped, Holds, Agree

\* A new password: nobody has it yet.
LEMMA PasswdKeeps == ASSUME LoginInv, W!Passwd PROVE LoginInv'
<1>1. /\ tomlHash' = tomlHash + 1 /\ UNCHANGED <<keyFile, keys, server, cookies>>
      /\ passwd' = [pc |-> "key", pending |-> TRUE]
  BY DEF W!Passwd, W!PasswdSteps, W!WriteHash
<1>2. SecretsTyped'
  BY <1>1 DEF LoginInv, SecretsTyped, Processes
<1>3. ASSUME NEW u, Holds(u) PROVE Holds(u)'
  BY <1>1, <1>3 DEF LoginInv, SecretsTyped, Holds
<1>4. \A c \in cookies : Agree(c) => Agree(c)'
  BY <1>1 DEF Agree
<1>. QED  BY <1>1, <1>2, <1>3, <1>4 DEF LoginInv

\* The key goes: it was nobody's who started quietly with the password of the file.
LEMMA InvalidateKeeps == ASSUME LoginInv, W!InvalidateSessions PROVE LoginInv'
<1>1. UNCHANGED <<tomlHash, keys, server, cookies>> /\ passwd.pending
  BY DEF W!InvalidateSessions, W!PasswdSteps, W!RemoveKey, LoginInv, SecretsTyped
<1>2. CASE keyFile' = 0 /\ passwd' = [pc |-> "idle", pending |-> FALSE]
  <2>1. SecretsTyped'
    BY <1>1, <1>2 DEF LoginInv, SecretsTyped, Processes
  <2>2. ASSUME NEW u, Holds(u) PROVE Holds(u)'
    BY <1>1, <1>2, <2>2 DEF Holds
  <2>. QED  BY <1>1, <2>1, <2>2 DEF LoginInv, Agree
<1>3. CASE keyFile' = keyFile /\ passwd' = [passwd EXCEPT !.pc = "idle"]
  <2>1. passwd'.pending = passwd.pending /\ passwd'.pc = "idle"
    BY <1>3
  <2>2. SecretsTyped'
    BY <1>1, <1>3, <2>1 DEF LoginInv, SecretsTyped, Processes
  <2>3. ASSUME NEW u, Holds(u) PROVE Holds(u)'
    BY <1>1, <1>3, <2>1, <2>3 DEF Holds
  <2>. QED  BY <1>1, <2>2, <2>3 DEF LoginInv, Agree
<1>4. \/ W!PasswdSteps(FALSE) /\ passwd' = [pc |-> "idle", pending |-> FALSE]
      \/ passwd' = [passwd EXCEPT !.pc = "idle"] /\ UNCHANGED <<tomlHash, keyFile>>
  BY Zenon DEF W!InvalidateSessions
<1>5. W!PasswdSteps(FALSE) => keyFile' = 0
  BY DEF W!PasswdSteps, W!RemoveKey
<1>6. UNCHANGED <<tomlHash, keyFile>> => keyFile' = keyFile
  OBVIOUS
<1>. QED  BY <1>2, <1>3, <1>4, <1>5, <1>6

LEMMA StartStopKeep == ASSUME LoginInv, W!Start \/ W!Stop PROVE LoginInv'
<1>1. UNCHANGED <<tomlHash, keyFile, keys, passwd, cookies>>
  BY DEF W!Start, W!Stop
<1>2. tomlHash \in Nat
  BY DEF LoginInv, SecretsTyped
<1>3. server'.pc # "up" /\ server' \in Processes /\ (server'.hash = tomlHash \/ server'.hash = 0)
  <2>1. CASE W!Start
    <3>1. server' = [pc |-> "starting", hash |-> tomlHash, key |-> 0,
                    kept |-> FALSE, fresh |-> FALSE, quiet |-> FALSE]
      BY <2>1 DEF W!Start, W!Down
    <3>. QED  BY <1>2, <3>1 DEF Processes
  <2>2. CASE W!Stop
    BY <2>2 DEF W!Stop, W!Down, Processes
  <2>. QED  BY <2>1, <2>2
<1>4. SecretsTyped'
  BY <1>1, <1>2, <1>3 DEF LoginInv, SecretsTyped
<1>5. ASSUME NEW c \in cookies PROVE Holds(c)' /\ Agree(c)'
  BY <1>1, <1>3 DEF LoginInv, Holds, Agree
<1>. QED  BY <1>1, <1>3, <1>4, <1>5 DEF LoginInv

\* A process gets a key: the one of the file, or a new one that nobody has.
LEMMA LoadKeeps == ASSUME LoginInv, W!LoadOrCreateKey PROVE LoginInv'
<1>1. UNCHANGED <<tomlHash, passwd, cookies>>
  BY DEF W!LoadOrCreateKey
<1>2. PICK k, kept :
        server' = [server EXCEPT !.pc = "up", !.key = k, !.kept = kept, !.fresh = W!Fresh, !.quiet = W!Quiet]
        /\ kept \in BOOLEAN
        /\ \/ keyFile # 0 /\ k = keyFile /\ kept = TRUE /\ UNCHANGED <<keyFile, keys>>
           \/ keyFile = 0 /\ k = keys + 1 /\ keys' = keys + 1 /\ keyFile' = IF kept THEN keys + 1 ELSE 0
  BY DEF W!LoadOrCreateKey
<1>3. /\ tomlHash \in Nat /\ keys \in Nat /\ keyFile \in Nat /\ keyFile <= keys
      /\ server.hash \in Nat /\ server.hash <= tomlHash /\ W!Fresh \in BOOLEAN /\ W!Quiet \in BOOLEAN
  BY DEF LoginInv, SecretsTyped, Processes, W!Fresh, W!Quiet
<1>4. /\ k \in Nat /\ 0 < k /\ keys' \in Nat /\ keys <= keys' /\ k <= keys'
      /\ keyFile' \in Nat /\ keyFile' <= keys'
  BY <1>2, <1>3
<1>5. server \in Processes
  BY DEF LoginInv, SecretsTyped
<1>6. /\ server'.pc = "up" /\ server'.hash = server.hash /\ server'.key = k
      /\ server'.kept = kept /\ server'.fresh = W!Fresh /\ server'.quiet = W!Quiet
  BY <1>2, <1>5 DEF Processes
<1>7. server' \in Processes
  BY <1>2, <1>3, <1>4, <1>5 DEF Processes
<1>8. SecretsTyped'
  BY <1>1, <1>3, <1>4, <1>6, <1>7 DEF LoginInv, SecretsTyped
<1>9. kept => keyFile' = k
  BY <1>2
<1>10. Holds(server)'
  BY <1>1, <1>3, <1>4, <1>6, <1>9 DEF Holds, W!Fresh, W!Quiet
<1>11. ASSUME NEW c \in cookies PROVE Holds(c)' /\ Agree(c)'
  <2>1. Holds(c)
    BY DEF LoginInv
  <2>2. CASE keyFile # 0 /\ k = keyFile /\ kept = TRUE /\ UNCHANGED <<keyFile, keys>>
    <3>1. Holds(c)'
      BY <1>1, <2>1, <2>2 DEF Holds
    <3>. QED  BY <1>1, <1>6, <2>1, <2>2, <3>1 DEF Holds, Agree, W!Fresh, W!Quiet
  <2>3. CASE keyFile = 0 /\ k = keys + 1 /\ keys' = keys + 1 /\ keyFile' = IF kept THEN keys + 1 ELSE 0
    <3>1. c.key # k /\ c.key # keyFile'
      BY <1>3, <2>1, <2>3 DEF Holds
    <3>2. ~(c.quiet /\ c.hash = tomlHash /\ c.kept)
      BY <1>3, <2>1, <2>3 DEF Holds
    <3>3. ~(c.quiet /\ c.hash = tomlHash) \/ ~passwd.pending
      BY <2>1 DEF Holds
    <3>4. Holds(c)'
      BY <1>1, <1>3, <1>4, <2>1, <3>1, <3>2, <3>3 DEF Holds
    <3>. QED  BY <1>1, <1>6, <2>1, <3>1, <3>2, <3>4 DEF Agree, W!Fresh, W!Quiet
  <2>. QED  BY <1>2, <2>2, <2>3
<1>. QED  BY <1>1, <1>8, <1>10, <1>11 DEF LoginInv

\* A cookie is what the process that gives it out is: for its password, under its key.
LEMMA RightKeeps == ASSUME LoginInv, NEW a \in Attempts, W!Right(a), server.pc = "up" PROVE LoginInv'
<1>1. UNCHANGED <<tomlHash, keyFile, keys, passwd, server>>
  BY DEF W!Right
<1>2. PICK c : /\ cookies' = cookies \cup {c}
               /\ c.hash = server.hash /\ c.key = server.key /\ c.kept = server.kept
               /\ c.fresh = server.fresh /\ c.quiet = server.quiet
  <2>. DEFINE n == CHOOSE m \in 1..MaxCookies : ~\E d \in cookies : d.n = m
              new == [n |-> n, hash |-> server.hash, key |-> server.key,
                      exp |-> day + SessionTTL, kept |-> server.kept,
                      fresh |-> server.fresh, quiet |-> server.quiet]
  <2>1. cookies' = cookies \cup {new}
    BY Zenon DEF W!Right
  <2>2. /\ new.hash = server.hash /\ new.key = server.key /\ new.kept = server.kept
        /\ new.fresh = server.fresh /\ new.quiet = server.quiet
    OBVIOUS
  <2>. HIDE DEF new
  <2>. QED  BY <2>1, <2>2
<1>3. SecretsTyped' /\ Holds(server) /\ Holds(server)'
  BY <1>1 DEF LoginInv, SecretsTyped, Holds
<1>4. Holds(c)' /\ Agree(c)'
  BY <1>1, <1>2, <1>3 DEF Holds, Agree
<1>5. \A d \in cookies : Holds(d)' /\ Agree(d)'
  BY <1>1 DEF LoginInv, Holds, Agree
<1>. QED  BY <1>1, <1>2, <1>3, <1>4, <1>5 DEF LoginInv

-----------------------------------------------------------------------------
(* The logins: what is under way, and the failures that count against it.    *)

\* Logins are under way in a process that is up.
LoginsTyped ==
    /\ attempt \in [Attempts -> {"none", "right", "wrong"}]
    /\ \A a \in Attempts : attempt[a] # "none" => server.pc = "up"
    /\ day \in 0..LoginTime /\ tomlHash \in 1..MaxHash /\ keys \in 0..MaxKeys
    /\ server.pc # "down" => server.hash # 0
    /\ server.pc # "up" => server.key = 0
    /\ \A c \in cookies : c.hash # 0

RecentOf(failed, t) == {f \in failed : f.at + FailWindow > t}
UnderWay(logins) == {a \in Attempts : logins[a] # "none"}

\* The failures of the window and the logins that may still fail.
Room == MaxFailures - 1 + Cardinality(Attempts)
Limit ==
    /\ IsFiniteSet(fails) /\ \A f \in fails : f.at \in Nat
    /\ Cardinality(RecentOf(fails, day)) + Cardinality(UnderWay(attempt)) <= Room

LEMMA LoginsAreCounted ==
    ASSUME NEW failed, IsFiniteSet(failed), NEW t, NEW logins
    PROVE  /\ IsFiniteSet(RecentOf(failed, t)) /\ IsFiniteSet(UnderWay(logins))
           /\ Cardinality(RecentOf(failed, t)) \in Nat /\ Cardinality(UnderWay(logins)) \in Nat
           /\ Cardinality(UnderWay(logins)) <= Cardinality(Attempts)
           /\ Cardinality(Attempts) \in Nat \ {0} /\ Room \in Nat /\ MaxFailures \in Nat
<1>1. RecentOf(failed, t) \in SUBSET failed /\ UnderWay(logins) \in SUBSET Attempts
  BY DEF RecentOf, UnderWay
<1>2. /\ IsFiniteSet(RecentOf(failed, t)) /\ IsFiniteSet(UnderWay(logins))
      /\ Cardinality(UnderWay(logins)) <= Cardinality(Attempts)
  BY <1>1, LoginAssumption, FS_Subset
<1>3. Cardinality(Attempts) \in Nat \ {0} /\ MaxFailures \in Nat
  BY LoginAssumption, FS_CardinalityType, FS_EmptySet
<1>4. Room \in Nat
  BY <1>3 DEF Room
<1>. QED  BY <1>2, <1>3, <1>4, FS_CardinalityType

\* With fewer of both, the limit is kept.
LEMMA FewerKeep ==
    ASSUME Limit, NEW failed, NEW t, NEW logins, IsFiniteSet(failed),
           RecentOf(failed, t) \in SUBSET RecentOf(fails, day), UnderWay(logins) \in SUBSET UnderWay(attempt)
    PROVE  Cardinality(RecentOf(failed, t)) + Cardinality(UnderWay(logins)) <= Room
<1>1. /\ IsFiniteSet(RecentOf(fails, day)) /\ IsFiniteSet(UnderWay(attempt))
      /\ Cardinality(RecentOf(fails, day)) \in Nat /\ Cardinality(UnderWay(attempt)) \in Nat
      /\ Cardinality(RecentOf(failed, t)) \in Nat /\ Cardinality(UnderWay(logins)) \in Nat /\ Room \in Nat
  BY LoginsAreCounted DEF Limit
<1>2. /\ Cardinality(RecentOf(failed, t)) <= Cardinality(RecentOf(fails, day))
      /\ Cardinality(UnderWay(logins)) <= Cardinality(UnderWay(attempt))
  BY <1>1, FS_Subset
<1>3. Cardinality(RecentOf(fails, day)) + Cardinality(UnderWay(attempt)) <= Room
  BY DEF Limit
<1>. QED  BY <1>1, <1>2, <1>3

LEMMA SameLogins == ASSUME Limit, UNCHANGED <<fails, attempt, day>> PROVE Limit'
BY DEF Limit, RecentOf, UnderWay, Room

\* The limit is looked at, and one more login let in.
LEMMA TooManyKeeps == ASSUME LoginsTyped, Limit, NEW a \in Attempts, W!TooMany(a) PROVE Limit'
<1>1. /\ fails' = RecentOf(fails, day) /\ UNCHANGED <<day, server>>
      /\ \/ UNCHANGED attempt
         \/ /\ Cardinality(RecentOf(fails, day)) < MaxFailures
            /\ \E p : attempt' = [attempt EXCEPT ![a] = p]
  <2>1. W!Kept = RecentOf(fails, day) /\ W!Cardinality(W!Kept) = Cardinality(W!Kept)
    BY DEF W!Kept, W!Recent, RecentOf, W!Cardinality, Cardinality
  <2>2. /\ fails' = W!Kept /\ UNCHANGED <<day, server>>
        /\ \/ UNCHANGED attempt
           \/ /\ W!Cardinality(W!Kept) < MaxFailures
              /\ \E p : attempt' = [attempt EXCEPT ![a] = p]
    BY Zenon DEF W!TooMany
  <2>3. W!Cardinality(W!Kept) = Cardinality(RecentOf(fails, day))
    BY <2>1
  <2>. QED  BY <2>1, <2>2, <2>3
<1>2. RecentOf(fails', day) = RecentOf(fails, day) /\ RecentOf(fails, day) \in SUBSET fails
  BY <1>1 DEF RecentOf
<1>3. IsFiniteSet(fails') /\ \A f \in fails' : f.at \in Nat
  BY <1>1, <1>2, FS_Subset DEF Limit
<1>4. CASE UNCHANGED attempt
  <2>1. Cardinality(RecentOf(fails', day')) + Cardinality(UnderWay(attempt')) <= Room
    BY <1>1, <1>2, <1>4 DEF Limit
  <2>. QED  BY <1>3, <2>1 DEF Limit, Room, RecentOf, UnderWay
<1>5. CASE Cardinality(RecentOf(fails, day)) < MaxFailures
  <2>1. /\ Cardinality(UnderWay(attempt')) \in Nat /\ Cardinality(Attempts) \in Nat /\ MaxFailures \in Nat
        /\ Cardinality(UnderWay(attempt')) <= Cardinality(Attempts)
        /\ Cardinality(RecentOf(fails, day)) \in Nat
    BY LoginsAreCounted DEF Limit
  <2>2. Cardinality(RecentOf(fails, day)) + Cardinality(UnderWay(attempt')) <= Room
    BY <1>5, <2>1 DEF Room
  <2>3. Cardinality(RecentOf(fails', day')) + Cardinality(UnderWay(attempt')) <= Room
    BY <1>1, <1>2, <2>2
  <2>. QED  BY <1>3, <2>3 DEF Limit, Room, RecentOf, UnderWay
<1>. QED  BY <1>1, <1>4, <1>5

\* A login that fails is one failure more and one login fewer.
LEMMA WrongKeeps == ASSUME LoginsTyped, Limit, NEW a \in Attempts, W!Wrong(a) PROVE Limit'
<1>1. PICK n : fails' = fails \cup {[n |-> n, at |-> day]}
  BY Zenon DEF W!Wrong
<1>2. /\ attempt' = [attempt EXCEPT ![a] = "none"] /\ attempt[a] # "none" /\ UNCHANGED day
      /\ day \in Nat
  BY LoginAssumption DEF W!Wrong, LoginsTyped
<1>. DEFINE new == [n |-> n, at |-> day]
<1>3. IsFiniteSet(fails') /\ \A f \in fails' : f.at \in Nat
  <2>1. new.at = day
    OBVIOUS
  <2>. HIDE DEF new
  <2>2. fails' = fails \cup {new}
    BY <1>1 DEF new
  <2>. QED  BY <1>2, <2>1, <2>2, FS_AddElement DEF Limit
<1>4. RecentOf(fails', day) \in SUBSET (RecentOf(fails, day) \cup {new})
  BY <1>1 DEF RecentOf
<1>5. UnderWay(attempt') = UnderWay(attempt) \ {a} /\ a \in UnderWay(attempt)
  BY <1>2 DEF UnderWay, LoginsTyped
<1>. HIDE DEF new
<1>6. /\ IsFiniteSet(RecentOf(fails, day)) /\ IsFiniteSet(UnderWay(attempt))
      /\ Cardinality(RecentOf(fails, day)) \in Nat /\ Cardinality(UnderWay(attempt)) \in Nat
      /\ Room \in Nat
  BY LoginsAreCounted DEF Limit
<1>7. Cardinality(RecentOf(fails', day)) \in Nat
  BY <1>3, LoginsAreCounted
<1>8. Cardinality(RecentOf(fails', day)) <= Cardinality(RecentOf(fails, day)) + 1
  <2>1. /\ IsFiniteSet(RecentOf(fails, day) \cup {new})
        /\ Cardinality(RecentOf(fails, day) \cup {new}) <= Cardinality(RecentOf(fails, day)) + 1
    <3>1. /\ IsFiniteSet(RecentOf(fails, day) \cup {new})
          /\ Cardinality(RecentOf(fails, day) \cup {new})
               = IF new \in RecentOf(fails, day) THEN Cardinality(RecentOf(fails, day))
                 ELSE Cardinality(RecentOf(fails, day)) + 1
      BY Zenon, <1>6, FS_AddElement
    <3>2. \A k \in Nat : k <= k + 1 /\ k + 1 <= k + 1
      OBVIOUS
    <3>. QED  BY Zenon, <1>6, <3>1, <3>2
  <2>2. /\ Cardinality(RecentOf(fails', day)) <= Cardinality(RecentOf(fails, day) \cup {new})
        /\ Cardinality(RecentOf(fails, day) \cup {new}) \in Nat
    BY <1>4, <2>1, FS_Subset, FS_CardinalityType
  <2>3. \A i, j, k \in Nat : i <= j /\ j <= k + 1 => i <= k + 1
    OBVIOUS
  <2>. QED  BY Zenon, <1>6, <1>7, <2>1, <2>2, <2>3
<1>9. Cardinality(UnderWay(attempt')) = Cardinality(UnderWay(attempt)) - 1
  BY <1>5, <1>6, FS_RemoveElement
<1>10. Cardinality(RecentOf(fails', day')) + Cardinality(UnderWay(attempt')) <= Room
  <2>1. Cardinality(RecentOf(fails, day)) + Cardinality(UnderWay(attempt)) <= Room
    BY DEF Limit
  <2>2. Cardinality(RecentOf(fails', day)) + Cardinality(UnderWay(attempt')) <= Room
    BY <1>6, <1>7, <1>8, <1>9, <2>1
  <2>. QED  BY <1>2, <2>2
<1>. QED  BY <1>3, <1>10 DEF Limit, Room, RecentOf, UnderWay

\* The failures are forgotten, by a process that ends or after a login that is right.
LEMMA ClearedKeeps ==
    ASSUME LoginsTyped, Limit, W!Stop \/ \E a \in Attempts : W!Right(a)
    PROVE  Limit'
<1>1. fails' = {} /\ UnderWay(attempt') \in SUBSET UnderWay(attempt) /\ UNCHANGED day
  BY DEF W!Stop, W!Right, UnderWay, LoginsTyped
<1>2. RecentOf(fails', day) \in SUBSET RecentOf(fails, day)
  BY <1>1 DEF RecentOf
<1>3. IsFiniteSet(fails')
  BY <1>1, FS_EmptySet
<1>4. Cardinality(RecentOf(fails', day)) + Cardinality(UnderWay(attempt')) <= Room
  BY <1>1, <1>2, <1>3, FewerKeep
<1>5. Cardinality(RecentOf(fails', day')) + Cardinality(UnderWay(attempt')) <= Room
  BY <1>1, <1>4
<1>. QED  BY <1>1, <1>3, <1>5 DEF Limit, Room, RecentOf, UnderWay

LEMMA DayKeeps == ASSUME LoginsTyped, Limit, W!Tick PROVE Limit'
<1>1. day' = day + 1 /\ UNCHANGED <<fails, attempt>> /\ day \in Nat /\ FailWindow \in Nat
  BY LoginAssumption DEF W!Tick, LoginsTyped
<1>2. RecentOf(fails, day + 1) \in SUBSET RecentOf(fails, day)
  BY <1>1 DEF RecentOf, Limit
<1>3. Cardinality(RecentOf(fails, day + 1)) + Cardinality(UnderWay(attempt)) <= Room
  BY <1>2, FewerKeep DEF Limit
<1>4. Cardinality(RecentOf(fails', day')) + Cardinality(UnderWay(attempt')) <= Room
  BY <1>1, <1>3
<1>. QED  BY <1>1, <1>4 DEF Limit, Room, RecentOf, UnderWay

LEMMA LimitKeeps == ASSUME LoginsTyped, Limit, [W!Next]_(W!vars) PROVE Limit'
<1>1. CASE UNCHANGED W!vars
  BY <1>1, SameLogins DEF W!vars
<1>2. CASE W!Passwd \/ W!InvalidateSessions \/ W!Start \/ W!LoadOrCreateKey \/ \E c \in cookies : W!Logout(c)
  BY <1>2, SameLogins DEF W!Passwd, W!InvalidateSessions, W!Start, W!LoadOrCreateKey, W!Logout
<1>. QED  BY <1>1, <1>2, TooManyKeeps, WrongKeeps, ClearedKeeps, DayKeeps DEF W!Next

-----------------------------------------------------------------------------

LEMMA LoginsTypedKeep == ASSUME LoginInv, LoginsTyped, [W!Next]_(W!vars) PROVE LoginsTyped'
<1>0. /\ LoginTime \in Nat /\ MaxHash \in Nat /\ MaxKeys \in Nat
      /\ day \in Nat /\ tomlHash \in Nat /\ keys \in Nat /\ server \in Processes
      /\ tomlHash # 0
  BY LoginAssumption DEF LoginsTyped, LoginInv, SecretsTyped
<1>1. CASE W!Passwd
  BY <1>0, <1>1 DEF W!Passwd, W!PasswdSteps, W!WriteHash, LoginsTyped
<1>2. CASE W!InvalidateSessions
  BY <1>0, <1>2 DEF W!InvalidateSessions, W!PasswdSteps, W!RemoveKey, LoginsTyped
<1>3. CASE W!Start
  BY <1>0, <1>3 DEF W!Start, W!Down, LoginsTyped
<1>4. CASE W!LoadOrCreateKey
  <2>1. /\ UNCHANGED <<day, tomlHash, attempt, cookies>> /\ server.pc = "starting"
        /\ server'.pc = "up" /\ server'.hash = server.hash
        /\ keys' = keys \/ (keys < MaxKeys /\ keys' = keys + 1)
    BY <1>0, <1>4 DEF W!LoadOrCreateKey, Processes
  <2>. QED  BY <1>0, <2>1 DEF LoginsTyped
<1>5. CASE W!Stop
  BY <1>0, <1>5 DEF W!Stop, W!Down, LoginsTyped
<1>6. ASSUME NEW a \in Attempts, W!TooMany(a) \/ W!Wrong(a) PROVE LoginsTyped'
  BY <1>0, <1>6 DEF W!TooMany, W!Wrong, LoginsTyped
<1>7. ASSUME NEW a \in Attempts, W!Right(a) PROVE LoginsTyped'
  <2>. DEFINE n == CHOOSE m \in 1..MaxCookies : ~\E d \in cookies : d.n = m
              new == [n |-> n, hash |-> server.hash, key |-> server.key,
                      exp |-> day + SessionTTL, kept |-> server.kept,
                      fresh |-> server.fresh, quiet |-> server.quiet]
  <2>1. /\ cookies' = cookies \cup {new} /\ UNCHANGED <<day, tomlHash, keys, server>>
        /\ attempt[a] = "right" /\ attempt' = [attempt EXCEPT ![a] = "none"]
    BY Zenon, <1>7 DEF W!Right
  <2>2. new.hash = server.hash
    OBVIOUS
  <2>. HIDE DEF new
  <2>3. server.pc = "up" /\ server.hash # 0
    BY <2>1 DEF LoginsTyped
  <2>. QED  BY <1>0, <2>1, <2>2, <2>3 DEF LoginsTyped
<1>8. ASSUME NEW c \in cookies, W!Logout(c) PROVE LoginsTyped'
  BY <1>8 DEF W!Logout, LoginsTyped
<1>9. CASE W!Tick
  BY <1>0, <1>9 DEF W!Tick, LoginsTyped
<1>10. CASE UNCHANGED W!vars
  BY <1>10 DEF W!vars, LoginsTyped
<1>. QED  BY <1>1, <1>2, <1>3, <1>4, <1>5, <1>6, <1>7, <1>8, <1>9, <1>10 DEF W!Next

LEMMA LoginKeeps == ASSUME LoginInv, LoginsTyped, [W!Next]_(W!vars) PROVE LoginInv'
<1>1. CASE W!Passwd  BY <1>1, PasswdKeeps
<1>2. CASE W!InvalidateSessions  BY <1>2, InvalidateKeeps
<1>3. CASE W!Start \/ W!Stop  BY <1>3, StartStopKeep
<1>4. CASE W!LoadOrCreateKey  BY <1>4, LoadKeeps
<1>5. ASSUME NEW a \in Attempts, W!TooMany(a) \/ W!Wrong(a) PROVE LoginInv'
  BY <1>5, NothingSecret DEF W!TooMany, W!Wrong
<1>6. ASSUME NEW a \in Attempts, W!Right(a) PROVE LoginInv'
  BY <1>6, RightKeeps DEF LoginsTyped, W!Right
<1>7. ASSUME NEW c \in cookies, W!Logout(c) PROVE LoginInv'
  BY <1>7, NothingSecret DEF W!Logout
<1>8. CASE W!Tick  BY <1>8, NothingSecret DEF W!Tick
<1>9. CASE UNCHANGED W!vars  BY <1>9, NothingSecret DEF W!vars
<1>. QED  BY <1>1, <1>2, <1>3, <1>4, <1>5, <1>6, <1>7, <1>8, <1>9 DEF W!Next

LEMMA LoginsInitHold == ASSUME W!Init PROVE LoginInv /\ LoginsTyped /\ Limit
<1>1. LoginInv
  BY LoginInitHolds
<1>2. LoginsTyped
  BY LoginAssumption DEF W!Init, W!Down, LoginsTyped
<1>3. fails = {} /\ UnderWay(attempt) = {}
  BY DEF W!Init, UnderWay
<1>4. RecentOf(fails, day) = {}
  BY <1>3 DEF RecentOf
<1>5. Room \in Nat /\ Cardinality({}) = 0 /\ IsFiniteSet({})
  BY FS_EmptySet, LoginsAreCounted
<1>. QED  BY <1>1, <1>2, <1>3, <1>4, <1>5 DEF Limit

LEMMA LoginsImply ==
    ASSUME LoginInv, LoginsTyped, Limit
    PROVE  W!TypeOK /\ W!SessionsFollowThePassword /\ W!LimitOvershoot
<1>1. W!TypeOK
  <2>1. /\ keys \in Nat /\ keyFile \in 0..keys /\ tomlHash \in Nat
        /\ server.pc \in {"down", "starting", "up"} /\ server.hash \in 0..tomlHash
    BY DEF LoginInv, SecretsTyped, Processes
  <2>2. server.key \in 0..keys
    <3>1. CASE server.pc = "up"
      BY <2>1, <3>1 DEF LoginInv, Holds
    <3>2. CASE server.pc # "up"
      BY <2>1, <3>2 DEF LoginsTyped
    <3>. QED  BY <3>1, <3>2
  <2>3. \A c \in cookies : c.key \in 1..keys /\ c.hash \in 1..tomlHash
    BY <2>1 DEF LoginInv, Holds, LoginsTyped
  <2>. QED  BY <2>1, <2>2, <2>3 DEF LoginsTyped, W!TypeOK
<1>2. W!SessionsFollowThePassword
  BY DEF LoginInv, Agree, W!SessionsFollowThePassword, W!Valid
<1>3. W!LimitOvershoot
  <2>1. W!Kept = RecentOf(fails, day)
    BY DEF W!Kept, W!Recent, RecentOf
  <2>2. W!Cardinality(W!Kept) = Cardinality(RecentOf(fails, day)) /\ W!Cardinality(Attempts) = Cardinality(Attempts)
    BY <2>1 DEF W!Cardinality, Cardinality
  <2>3. /\ Cardinality(RecentOf(fails, day)) \in Nat /\ Cardinality(UnderWay(attempt)) \in Nat
        /\ Cardinality(Attempts) \in Nat /\ MaxFailures \in Nat
    BY LoginsAreCounted DEF Limit
  <2>4. Cardinality(RecentOf(fails, day)) < MaxFailures + Cardinality(Attempts)
    BY <2>3 DEF Limit, Room
  <2>. QED  BY <2>2, <2>4 DEF W!LimitOvershoot
<1>. QED  BY <1>1, <1>2, <1>3

-----------------------------------------------------------------------------
LEMMA LoginsMove == ASSUME [ServeNext]_serveVars PROVE [W!Next]_(W!vars)
BY DEF ServeNext, serveVars, loginVars, W!vars

\* A session follows its password: over any number of restarts, changes, keys and logins, a
\* process that started with no change under way (Handler.valid, NewPersistent, passwd.go)
\* accepts the cookies that were given out for the password it goes by, and no others; and
\* logins that are checked side by side fail no more often in a window than the limit and
\* their number allow.
THEOREM LoginIsGuardedHolds == ServeSpec => []LoginIsGuarded
<1>. DEFINE Inv == LoginInv /\ LoginsTyped /\ Limit
<1>1. ServeInit => Inv
  BY LoginsInitHold DEF ServeInit
<1>2. Inv /\ [ServeNext]_serveVars => Inv'
  BY LoginsMove, LoginKeeps, LoginsTypedKeep, LimitKeeps
<1>3. Inv => LoginIsGuarded
  BY LoginsImply DEF LoginIsGuarded
<1>. QED  BY <1>1, <1>2, <1>3, PTL DEF ServeSpec

-----------------------------------------------------------------------------
(* Sessions.                                                                *)

Launching == [pc : {"off", "age", "retire", "repoint", "claude", "talk", "set"},
              seen : S!Ids \cup {0}, resume : S!Ids \cup {0}, new : S!Ids \cup {0}]

\* TypeOK in two parts.
Rows ==
    /\ live \in S!Ids \cup {0} /\ stamp \in 0..(MaxIdle + 1)
    /\ DOMAIN successor \subseteq S!Ids /\ \A i \in DOMAIN successor : successor[i] \in S!Ids
    /\ DOMAIN age \subseteq S!Ids /\ \A i \in DOMAIN age : age[i] \in 0..(MaxIdle + 1)
    /\ minted \in 0..MaxId /\ failures \in 0..SessionFaults /\ raced \in BOOLEAN

\* Ids in use have been minted, and a row that was seen is never gone.
Minted ==
    /\ live <= minted /\ DOMAIN successor \subseteq 1..minted
    /\ \A l \in S!Launches :
         /\ launch[l].seen <= minted /\ launch[l].resume <= minted /\ launch[l].new <= minted
         /\ launch[l].seen # 0 => live # 0

\* The id of a rotation under way is known to nobody else.
Apart(l) ==
    launch[l].pc \in {"retire", "repoint"} =>
        /\ launch[l].seen # 0 /\ launch[l].new # 0
        /\ launch[l].new # live /\ launch[l].new \notin DOMAIN successor
        /\ \A m \in S!Launches :
             /\ launch[m].seen # launch[l].new /\ launch[m].resume # launch[l].new
             /\ m # l => launch[m].new # launch[l].new

\* A worker's run is of the session that it took the row to be at.
Followed(l) ==
    /\ launch[l].pc = "age" => launch[l].seen # 0
    /\ launch[l].pc \in {"age", "retire", "repoint"} => launch[l].resume = 0
    /\ launch[l].pc \in {"set", "talk"} => launch[l].resume # 0
    /\ launch[l].pc = "claude" /\ l \in Workers =>
         \/ launch[l].resume = launch[l].seen
         \/ launch[l].resume = 0 /\ launch[l].new = launch[l].seen
    /\ launch[l].pc = "set" => launch[l].seen \in {0, launch[l].resume}

\* A rotation of the live session that has not repointed the row: the successor of the
\* live session is the id of one that has not either.
Pointed(l) ==
    launch[l].pc = "repoint" /\ launch[l].seen = live =>
        /\ live \in DOMAIN successor
        /\ \E m \in S!Launches : launch[m].pc = "repoint" /\ launch[m].new = successor[live]

SessionInv ==
    /\ Rows /\ launch \in [S!Launches -> Launching] /\ Minted
    /\ \A l \in S!Launches : Apart(l) /\ Followed(l)
    /\ ~raced => (live = 0 => DOMAIN successor = {}) /\ \A l \in S!Launches : Pointed(l)
    /\ S!HistoryChains

-----------------------------------------------------------------------------
\* What has led somewhere does so still when a session gets a successor, or leads to that.
LEMMA LeadsOn ==
    ASSUME NEW old, NEW new, NEW s \in S!Ids, NEW n \in S!Ids, NEW i, NEW j,
           DOMAIN new = DOMAIN old \cup {s}, new[s] = n,
           \A k \in DOMAIN old : k # s => new[k] = old[k],
           S!Leads(old, i, j)
    PROVE  S!Leads(new, i, j) \/ S!Leads(new, i, n)
<1>. SUFFICES ASSUME ~S!Leads(new, i, n) PROVE S!Leads(new, i, j)
  OBVIOUS
<1>1. PICK T \in SUBSET S!Ids : /\ i \in T /\ \A k \in T \cap DOMAIN new : new[k] \in T
                                /\ n \notin T
  BY DEF S!Leads
<1>2. s \notin T
  BY <1>1
<1>3. ASSUME NEW U \in SUBSET S!Ids, i \in U, \A k \in U \cap DOMAIN new : new[k] \in U
      PROVE  j \in U
  <2>1. \A k \in (T \cap U) \cap DOMAIN old : old[k] \in T \cap U
    BY <1>1, <1>2, <1>3
  <2>2. T \cap U \in SUBSET S!Ids /\ i \in T \cap U
    BY <1>1, <1>3
  <2>. QED  BY <2>1, <2>2 DEF S!Leads
<1>. QED  BY <1>3 DEF S!Leads

LEMMA LeadsToNext ==
    ASSUME NEW next, NEW i, NEW j, j \in DOMAIN next, S!Leads(next, i, j)
    PROVE  S!Leads(next, i, next[j])
BY DEF S!Leads

LEMMA SessionTypes == S!TypeOK <=> Rows /\ launch \in [S!Launches -> Launching]
BY Zenon DEF S!TypeOK, S!None, S!Idle, Rows, Launching

LEMMA SessionInitHolds == ASSUME S!Init PROVE SessionInv
<1>1. S!AtRest \in Launching /\ S!AtRest.pc = "off" /\ S!AtRest.seen = 0 /\ S!AtRest.resume = 0 /\ S!AtRest.new = 0
  BY DEF S!AtRest, Launching, S!None
<1>2. launch \in [S!Launches -> Launching] /\ \A l \in S!Launches : launch[l] = S!AtRest
  BY <1>1 DEF S!Init
<1>3. Rows
  <2>1. /\ live = 0 /\ stamp = MaxIdle + 1 /\ DOMAIN successor = {} /\ DOMAIN age = {}
        /\ minted = 0 /\ failures = 0 /\ raced = FALSE
    BY DEF S!Init, S!None, S!Idle
  <2>2. stamp \in 0..(MaxIdle + 1)
    BY <2>1, SessionAssumption
  <2>3. minted \in 0..MaxId /\ failures \in 0..SessionFaults
    BY <2>1, SessionAssumption
  <2>4. DOMAIN age \subseteq S!Ids /\ \A i \in DOMAIN age : age[i] \in 0..(MaxIdle + 1)
    BY <2>1
  <2>5. DOMAIN successor \subseteq S!Ids /\ \A i \in DOMAIN successor : successor[i] \in S!Ids
    BY <2>1
  <2>6. live \in S!Ids \cup {0} /\ raced \in BOOLEAN
    BY <2>1
  <2>. QED  BY <2>2, <2>3, <2>4, <2>5, <2>6 DEF Rows
<1>4. /\ live = 0 /\ minted = 0 /\ DOMAIN successor = {}
      /\ \A l \in S!Launches : /\ launch[l].pc = "off" /\ launch[l].seen = 0
                              /\ launch[l].resume = 0 /\ launch[l].new = 0
  BY <1>1, <1>2 DEF S!Init, S!None
<1>. QED  BY <1>2, <1>3, <1>4 DEF SessionInv, Minted, Apart, Followed, Pointed, S!HistoryChains

\* A step of one launch.
LEMMA Moved ==
    ASSUME launch \in [S!Launches -> Launching], NEW l \in S!Launches, NEW r \in Launching,
           launch' = [launch EXCEPT ![l] = r]
    PROVE  /\ launch' \in [S!Launches -> Launching] /\ launch'[l] = r
           /\ \A m \in S!Launches : m # l => launch'[m] = launch[m]
OBVIOUS

\* A step that neither writes the row nor retires a session.
LEMMA ChainStays ==
    ASSUME SessionInv, UNCHANGED <<live, successor, raced>>,
           \A m \in S!Launches : /\ launch'[m].pc = "repoint" <=> launch[m].pc = "repoint"
                                 /\ launch[m].pc = "repoint" => launch'[m] = launch[m]
    PROVE  /\ S!HistoryChains'
           /\ ~raced' => (live' = 0 => DOMAIN successor' = {}) /\ \A l \in S!Launches : Pointed(l)'
<1>1. ASSUME ~raced', NEW i \in DOMAIN successor'
      PROVE  \/ S!Leads(successor', i, live')
             \/ \E l \in S!Launches : launch'[l].pc = "repoint" /\ S!Leads(successor', i, launch'[l].new)
  <2>1. ~raced /\ i \in DOMAIN successor
    BY Zenon, <1>1
  <2>2. live' = live /\ successor' = successor
    OBVIOUS
  <2>3. \/ S!Leads(successor, i, live)
        \/ \E l \in S!Launches : launch[l].pc = "repoint" /\ S!Leads(successor, i, launch[l].new)
    BY <2>1 DEF SessionInv, S!HistoryChains
  <2>. QED  BY <2>2, <2>3
<1>2. ASSUME ~raced', NEW l \in S!Launches PROVE Pointed(l)'
  <2>1. ~raced
    BY Zenon, <1>2
  <2>2. live' = live /\ successor' = successor /\ Pointed(l)
    BY <2>1 DEF SessionInv
  <2>. QED  BY <2>2 DEF Pointed
<1>3. S!HistoryChains'
  BY <1>1 DEF S!HistoryChains
<1>. QED  BY <1>2, <1>3 DEF SessionInv

\* A step of a launch that is not in the middle of a rotation.
LEMMA MoveKeeps ==
    ASSUME SessionInv, NEW l \in S!Launches, NEW r \in Launching,
           launch' = [launch EXCEPT ![l] = r], launch[l].pc \notin {"retire", "repoint"},
           UNCHANGED <<live, successor, raced>>, Rows', minted' \in {minted, minted + 1},
           \A x \in {r.seen, r.resume, r.new} :
               \/ x \in {0, live, launch[l].seen, launch[l].resume, launch[l].new}
               \/ x = minted + 1 /\ minted' = x,
           r.pc # "repoint", r.seen # 0 => live # 0,
           r.pc = "retire" => /\ r.new = minted + 1 /\ r.seen # 0
                              /\ r.seen <= minted /\ r.resume <= minted,
           launch'[l] = r => Followed(l)'
    PROVE  SessionInv'
<1>0. Rows /\ launch \in [S!Launches -> Launching] /\ Minted
  BY DEF SessionInv
<1>1. /\ launch' \in [S!Launches -> Launching] /\ launch'[l] = r
      /\ \A m \in S!Launches : m # l => launch'[m] = launch[m]
  BY <1>0, Moved
<1>2. minted \in Nat /\ minted' \in Nat /\ minted <= minted' /\ live <= minted
  BY <1>0, SessionAssumption DEF Rows, Minted
<1>3. \A m \in S!Launches : launch[m].pc \in {"retire", "repoint"} =>
        launch[m].new \notin {r.seen, r.resume, r.new}
  <2>1. ASSUME NEW m \in S!Launches, launch[m].pc \in {"retire", "repoint"}
        PROVE  /\ launch[m].new \notin {0, live, launch[l].seen, launch[l].resume, launch[l].new}
               /\ launch[m].new # minted + 1
    <3>1. Apart(m) /\ m # l
      BY <2>1 DEF SessionInv
    <3>2. launch[m].new <= minted /\ launch[m].new \in Nat
      BY <1>0 DEF Minted, Launching, S!Ids
    <3>3. launch[m].new # minted + 1
      BY <1>2, <3>2
    <3>. QED  BY <2>1, <3>1, <3>3 DEF Apart
  <2>. QED  BY <2>1
<1>4. Minted'
  <2>1. r.seen \in Nat /\ r.resume \in Nat /\ r.new \in Nat
    BY DEF Launching, S!Ids
  <2>2. \A x \in {r.seen, r.resume, r.new} : x <= minted'
    <3>1. /\ launch[l].seen \in Nat /\ launch[l].resume \in Nat /\ launch[l].new \in Nat
          /\ launch[l].seen <= minted /\ launch[l].resume <= minted /\ launch[l].new <= minted
      BY <1>0 DEF Minted, Launching, S!Ids
    <3>2. \A x \in {0, live, launch[l].seen, launch[l].resume, launch[l].new} : x <= minted
      BY <1>2, <3>1
    <3>3. live \in Nat
      BY <1>0 DEF Rows, S!Ids
    <3>. QED  BY <1>2, <3>1, <3>2, <3>3
  <2>3. ASSUME NEW m \in S!Launches
        PROVE  /\ launch'[m].seen <= minted' /\ launch'[m].resume <= minted' /\ launch'[m].new <= minted'
               /\ launch'[m].seen # 0 => live' # 0
    <3>1. CASE m = l
      BY <1>1, <2>2, <3>1
    <3>2. CASE m # l
      <4>1. /\ launch[m].seen \in Nat /\ launch[m].resume \in Nat /\ launch[m].new \in Nat
            /\ launch[m].seen <= minted /\ launch[m].resume <= minted /\ launch[m].new <= minted
            /\ launch[m].seen # 0 => live # 0
        BY <1>0 DEF Minted, Launching, S!Ids
      <4>. QED  BY <1>1, <1>2, <3>2, <4>1
    <3>. QED  BY <3>1, <3>2
  <2>4. live' <= minted' /\ DOMAIN successor' \subseteq 1..minted'
    <3>1. \A k \in DOMAIN successor : k \in 1..minted
      BY <1>0 DEF Minted
    <3>2. \A k \in DOMAIN successor : k \in 1..minted'
      BY <1>2, <3>1
    <3>3. live \in Nat
      BY <1>0 DEF Rows, S!Ids
    <3>4. live <= minted'
      BY <1>2, <3>3
    <3>. QED  BY <3>2, <3>4
  <2>. QED  BY <2>3, <2>4 DEF Minted
<1>5. ASSUME NEW m \in S!Launches PROVE Apart(m)' /\ Followed(m)'
  <2>1. Apart(m) /\ Followed(m)
    BY DEF SessionInv
  <2>2. CASE m = l
    <3>1. ASSUME r.pc = "retire"
          PROVE  /\ r.new # 0 /\ r.new # live /\ r.new \notin DOMAIN successor
                 /\ r.new # r.seen /\ r.new # r.resume
                 /\ \A k \in S!Launches : /\ launch[k].seen # r.new /\ launch[k].resume # r.new
                                          /\ launch[k].new # r.new
      <4>1. r.new = minted + 1
        BY <3>1
      <4>2. \A k \in S!Launches : /\ launch[k].seen \in Nat /\ launch[k].resume \in Nat
                                  /\ launch[k].new \in Nat
        BY <1>0 DEF Launching, S!Ids
      <4>3. r.seen \in Nat /\ r.resume \in Nat /\ live \in Nat
        BY <1>0 DEF Launching, Rows, S!Ids
      <4>4. \A k \in S!Launches : /\ launch[k].seen <= minted /\ launch[k].resume <= minted
                                  /\ launch[k].new <= minted
        BY <1>0 DEF Minted
      <4>5. \A x \in Nat : x <= minted => x # r.new
        BY <1>2, <4>1
      <4>6. r.new \notin DOMAIN successor
        BY <1>0, <1>2, <4>1 DEF Minted
      <4>7. r.new # 0
        BY <1>2, <4>1
      <4>8. r.new # live /\ r.new # r.seen /\ r.new # r.resume
        BY <1>2, <3>1, <4>3, <4>5
      <4>9. \A k \in S!Launches : /\ launch[k].seen # r.new /\ launch[k].resume # r.new
                                  /\ launch[k].new # r.new
        BY <4>2, <4>4, <4>5
      <4>. QED  BY <4>6, <4>7, <4>8, <4>9
    <3>2. Apart(l)'
      BY <1>1, <3>1 DEF Apart
    <3>. QED  BY <1>1, <2>2, <3>2
  <2>3. CASE m # l
    <3>1. Followed(m)'
      BY <1>1, <2>1, <2>3 DEF Followed
    <3>2. Apart(m)'
      BY <1>1, <1>3, <2>1, <2>3 DEF Apart
    <3>. QED  BY <3>1, <3>2
  <2>. QED  BY <2>2, <2>3
<1>6. \A m \in S!Launches : /\ launch'[m].pc = "repoint" <=> launch[m].pc = "repoint"
                            /\ launch[m].pc = "repoint" => launch'[m] = launch[m]
  BY <1>1
<1>. QED  BY <1>1, <1>4, <1>5, <1>6, ChainStays DEF SessionInv

LEMMA AttachKeeps ==
    ASSUME SessionInv, NEW l \in S!Launches, NEW fresh \in BOOLEAN, S!Attach(l, fresh)
    PROVE  SessionInv'
<1>0. Rows /\ launch \in [S!Launches -> Launching]
  BY DEF SessionInv
<1>1. UNCHANGED <<live, stamp, successor, age, minted, failures, raced>> /\ launch[l].pc = "off"
  BY DEF S!Attach
<1>. DEFINE r == [S!AtRest EXCEPT !.seen = live,
                                  !.pc = IF live = S!None \/ fresh THEN "claude" ELSE "age"]
<1>2. launch' = [launch EXCEPT ![l] = r]
  BY DEF S!Attach
<1>3. r \in Launching /\ r.seen = live /\ r.resume = 0 /\ r.new = 0
      /\ r.pc = IF live = 0 \/ fresh THEN "claude" ELSE "age"
  BY <1>0 DEF Rows, Launching, S!AtRest, S!None
<1>. HIDE DEF r
<1>4. l \in Workers => ~fresh
  BY SessionAssumption DEF S!Attach
<1>5. Rows'
  BY <1>0, <1>1 DEF Rows
<1>6. launch'[l] = r => Followed(l)'
  BY <1>3, <1>4 DEF Followed
<1>. QED  BY <1>1, <1>2, <1>3, <1>5, <1>6, MoveKeeps

LEMMA KeepOrRotateKeeps ==
    ASSUME SessionInv, NEW l \in S!Launches, S!KeepOrRotate(l) PROVE SessionInv'
<1>0. Rows /\ launch \in [S!Launches -> Launching] /\ Minted /\ Followed(l)
  BY DEF SessionInv
<1>1. /\ UNCHANGED <<live, stamp, successor, age, failures, raced>> /\ launch[l].pc = "age"
      /\ launch[l].seen # 0
  BY <1>0 DEF S!KeepOrRotate, Followed
<1>. DEFINE sid == launch[l].seen
            rotates == S!LastActivity(sid) > MaxIdle
            turned == [launch[l] EXCEPT !.pc = "retire", !.new = S!Fresh]
            kept == [launch[l] EXCEPT !.pc = "claude", !.resume = sid]
            r == IF rotates THEN turned ELSE kept
<1>2. launch' = [launch EXCEPT ![l] = r]
  BY DEF S!KeepOrRotate
<1>3. /\ minted' = IF rotates THEN minted + 1 ELSE minted
      /\ rotates => minted < MaxId
  BY DEF S!KeepOrRotate, S!Fresh, S!CanMint
<1>4. /\ launch[l] \in Launching /\ launch[l].resume <= minted /\ sid <= minted /\ minted \in 0..MaxId
      /\ launch[l].seen # 0 => live # 0
  BY <1>0 DEF Minted, Rows
<1>5. /\ turned.pc = "retire" /\ turned.new = minted + 1
      /\ turned.seen = sid /\ turned.resume = launch[l].resume
      /\ kept.pc = "claude" /\ kept.seen = sid /\ kept.resume = sid /\ kept.new = launch[l].new
      /\ kept \in Launching
  BY <1>4 DEF Launching, S!Fresh
<1>6. rotates => minted + 1 \in S!Ids
  BY <1>3, <1>4, SessionAssumption DEF S!Ids
<1>7. rotates => turned \in Launching
  BY <1>4, <1>6 DEF Launching, S!Fresh
<1>8. minted' \in 0..MaxId /\ minted' \in {minted, minted + 1}
  BY <1>3, <1>4, SessionAssumption
<1>9. Rows'
  BY <1>0, <1>1, <1>8 DEF Rows
<1>. HIDE DEF turned, kept, rotates
<1>10. launch'[l] = r => Followed(l)'
  BY <1>0, <1>1, <1>5 DEF Followed
<1>11. /\ r \in Launching /\ r.pc # "repoint" /\ r.seen = sid
       /\ r.pc = "retire" => r.new = minted + 1 /\ r.resume = launch[l].resume
       /\ \A x \in {r.seen, r.resume, r.new} :
            x \in {launch[l].seen, launch[l].resume, launch[l].new} \/ (x = minted + 1 /\ minted' = x)
  BY <1>3, <1>5, <1>7
<1>. HIDE DEF r
<1>. QED  BY <1>1, <1>2, <1>4, <1>8, <1>9, <1>10, <1>11, MoveKeeps

LEMMA FailsKeeps ==
    ASSUME SessionInv, NEW l \in S!Launches, S!Fails(l) \/ S!Leaves(l) PROVE SessionInv'
<1>0. Rows
  BY DEF SessionInv
<1>1. /\ UNCHANGED <<live, stamp, successor, age, minted, raced>>
      /\ launch[l].pc \notin {"retire", "repoint"}
      /\ launch' = [launch EXCEPT ![l] = S!AtRest]
  BY DEF S!Fails, S!Leaves
<1>2. /\ S!AtRest \in Launching /\ S!AtRest.pc = "off" /\ S!AtRest.seen = 0
      /\ S!AtRest.resume = 0 /\ S!AtRest.new = 0
  BY DEF S!AtRest, Launching, S!None
<1>3. failures' \in 0..SessionFaults
  BY <1>0, SessionAssumption DEF S!Fails, S!Leaves, Rows
<1>4. Rows'
  BY <1>0, <1>1, <1>3 DEF Rows
<1>5. launch'[l] = S!AtRest => Followed(l)'
  BY <1>2 DEF Followed
<1>. QED  BY <1>1, <1>2, <1>4, <1>5, MoveKeeps

\* A turn in a session, or time.
LEMMA RowsKeep ==
    ASSUME SessionInv, UNCHANGED <<live, successor, launch, minted, raced>>, Rows'
    PROVE  SessionInv'
<1>1. Minted'
  BY DEF SessionInv, Minted
<1>2. \A l \in S!Launches : Apart(l)' /\ Followed(l)'
  BY DEF SessionInv, Apart, Followed
<1>. QED  BY <1>1, <1>2, ChainStays DEF SessionInv

LEMMA TurnKeeps ==
    ASSUME SessionInv, S!Tick \/ \E c \in Chats : S!Talks(c) PROVE SessionInv'
<1>0. Rows
  BY DEF SessionInv
<1>1. UNCHANGED <<live, successor, launch, minted, failures, raced>>
  BY DEF S!Tick, S!Talks
<1>2. stamp' \in 0..(MaxIdle + 1)
  BY <1>0, SessionAssumption DEF S!Tick, S!Talks, S!Idle, Rows
<1>3. DOMAIN age' = DOMAIN age
  BY DEF S!Tick, S!Talks
<1>4. ASSUME NEW i \in DOMAIN age PROVE age'[i] \in 0..(MaxIdle + 1)
  <2>1. age[i] \in 0..(MaxIdle + 1)
    BY <1>0 DEF Rows
  <2>2. CASE S!Tick
    BY <2>1, <2>2, SessionAssumption DEF S!Tick, S!Idle
  <2>3. ASSUME NEW c \in Chats, S!Talks(c) PROVE age'[i] \in 0..(MaxIdle + 1)
    BY <2>1, <2>3, SessionAssumption DEF S!Talks
  <2>. QED  BY <2>2, <2>3
<1>5. Rows'
  BY <1>0, <1>1, <1>2, <1>3, <1>4 DEF Rows
<1>. QED  BY <1>1, <1>5, RowsKeep

\* Retire: the rotation's id becomes the successor.
LEMMA RetireKeeps ==
    ASSUME SessionInv, NEW l \in S!Launches, S!Retire(l) PROVE SessionInv'
<1>0. Rows /\ launch \in [S!Launches -> Launching] /\ Minted
  BY DEF SessionInv
<1>. DEFINE r == [launch[l] EXCEPT !.pc = "repoint"]
            s == launch[l].seen
            n == launch[l].new
<1>1. UNCHANGED <<live, stamp, age, minted, failures, raced>> /\ launch[l].pc = "retire"
  BY DEF S!Retire
<1>2. launch' = [launch EXCEPT ![l] = r]
  BY DEF S!Retire
<1>3. /\ r \in Launching /\ r.pc = "repoint" /\ r.seen = s /\ r.new = n
      /\ r.resume = launch[l].resume
  BY <1>0 DEF Launching
<1>. HIDE DEF r
<1>4. /\ launch' \in [S!Launches -> Launching] /\ launch'[l] = r
      /\ \A m \in S!Launches : m # l => launch'[m] = launch[m]
  BY <1>0, <1>2, <1>3, Moved
<1>5. Apart(l) /\ s # 0 /\ n # 0 /\ s \in S!Ids /\ n \in S!Ids /\ s <= minted /\ live # 0
  BY <1>0, <1>1 DEF SessionInv, Apart, Launching, Minted
<1>6. /\ DOMAIN successor' = DOMAIN successor \cup {s} /\ successor'[s] = n
      /\ \A k \in DOMAIN successor : k # s => successor'[k] = successor[k]
  BY DEF S!Retire
<1>7. Rows'
  BY <1>0, <1>1, <1>5, <1>6 DEF Rows
<1>8. Minted'
  <2>1. DOMAIN successor' \subseteq 1..minted'
    BY <1>0, <1>1, <1>5, <1>6 DEF Minted, S!Ids
  <2>. QED  BY <1>0, <1>1, <1>3, <1>4, <2>1 DEF Minted
<1>9. ASSUME NEW m \in S!Launches PROVE Apart(m)' /\ Followed(m)'
  <2>1. Apart(m) /\ Followed(m)
    BY DEF SessionInv
  <2>2. launch'[m].pc \in {"retire", "repoint"} <=> launch[m].pc \in {"retire", "repoint"}
    BY <1>1, <1>3, <1>4
  <2>3. \A k \in S!Launches : /\ launch'[k].seen = launch[k].seen /\ launch'[k].new = launch[k].new
                              /\ launch'[k].resume = launch[k].resume
    BY <1>3, <1>4
  <2>4. Apart(m)'
    BY <1>1, <1>5, <1>6, <2>1, <2>2, <2>3 DEF Apart
  <2>5. Followed(m)'
    BY <1>1, <1>3, <1>4, <2>1 DEF Followed
  <2>. QED  BY <2>4, <2>5
<1>10. ASSUME NEW m \in S!Launches, ~raced PROVE Pointed(m)'
  <2>1. Pointed(m)
    BY <1>10 DEF SessionInv
  <2>2. CASE live = s
    BY <1>1, <1>3, <1>4, <1>6, <2>2 DEF Pointed
  <2>3. CASE live # s
    <3>1. m # l \/ launch'[m].seen # live'
      BY <1>1, <1>3, <1>4, <2>3
    <3>. QED  BY <1>1, <1>3, <1>4, <1>6, <2>1, <2>3, <3>1 DEF Pointed
  <2>. QED  BY <2>2, <2>3
<1>11. ASSUME ~raced, NEW i \in DOMAIN successor'
       PROVE  \/ S!Leads(successor', i, live')
              \/ \E m \in S!Launches : launch'[m].pc = "repoint" /\ S!Leads(successor', i, launch'[m].new)
  <2>1. CASE S!Leads(successor', i, n)
    BY <1>3, <1>4, <2>1
  <2>2. CASE i = s
    <3>1. S!Leads(successor', i, i)
      BY DEF S!Leads
    <3>2. S!Leads(successor', i, n)
      BY <1>6, <2>2, <3>1, LeadsToNext
    <3>. QED  BY <2>1, <3>2
  <2>3. CASE i # s /\ ~S!Leads(successor', i, n)
    <3>1. \/ S!Leads(successor, i, live)
          \/ \E m \in S!Launches : launch[m].pc = "repoint" /\ S!Leads(successor, i, launch[m].new)
      BY <1>6, <1>11, <2>3 DEF SessionInv, S!HistoryChains
    <3>2. \A j : S!Leads(successor, i, j) => S!Leads(successor', i, j)
      BY <1>5, <1>6, <2>3, LeadsOn
    <3>3. \A m \in S!Launches : launch[m].pc = "repoint" => launch'[m] = launch[m]
      BY <1>1, <1>4
    <3>. QED  BY <1>1, <3>1, <3>2, <3>3
  <2>. QED  BY <2>1, <2>2, <2>3
<1>12. raced' <=> raced
  BY Zenon, <1>1
<1>13. S!HistoryChains'
  BY <1>11, <1>12 DEF S!HistoryChains
<1>14. live' # 0
  BY <1>1, <1>5
<1>. QED  BY <1>4, <1>7, <1>8, <1>9, <1>10, <1>12, <1>13, <1>14 DEF SessionInv

\* The row is written, by one who had seen what is in it: what led to that leads on.
LEMMA RepointKeeps ==
    ASSUME SessionInv, NEW l \in S!Launches, S!Repoint(l) PROVE SessionInv'
<1>0. Rows /\ launch \in [S!Launches -> Launching] /\ Minted
  BY DEF SessionInv
<1>. DEFINE n == launch[l].new
            r == [launch[l] EXCEPT !.pc = "claude", !.seen = n]
<1>1. /\ UNCHANGED <<successor, age, minted, failures>> /\ launch[l].pc = "repoint"
      /\ live' = n /\ stamp' = 0
  BY DEF S!Repoint, S!WriteRow
<1>2. raced' <=> (raced \/ live # launch[l].seen)
  BY DEF S!Repoint, S!WriteRow
<1>3. launch' = [launch EXCEPT ![l] = r]
  BY DEF S!Repoint
<1>4. Apart(l) /\ n # 0 /\ n # live /\ n \in S!Ids /\ n \in Nat /\ n <= minted
  BY <1>0, <1>1 DEF SessionInv, Apart, Launching, Minted, S!Ids
<1>5. /\ r \in Launching /\ r.pc = "claude" /\ r.seen = n /\ r.new = n
      /\ r.resume = launch[l].resume
  BY <1>0, <1>4 DEF Launching
<1>. HIDE DEF r
<1>6. /\ launch' \in [S!Launches -> Launching] /\ launch'[l] = r
      /\ \A m \in S!Launches : m # l => launch'[m] = launch[m]
  BY <1>0, <1>3, <1>5, Moved
<1>7. Rows'
  <2>1. stamp' \in 0..(MaxIdle + 1)
    BY <1>1, SessionAssumption
  <2>2. raced' \in BOOLEAN
    BY DEF S!Repoint, S!WriteRow
  <2>. QED  BY <1>0, <1>1, <1>4, <2>1, <2>2 DEF Rows
<1>8. Minted'
  BY <1>0, <1>1, <1>4, <1>5, <1>6 DEF Minted
<1>9. launch[l].resume = 0
  BY <1>1 DEF SessionInv, Followed
<1>10. ASSUME NEW m \in S!Launches PROVE Apart(m)' /\ Followed(m)'
  <2>1. Apart(m) /\ Followed(m)
    BY DEF SessionInv
  <2>2. CASE m = l
    BY <1>5, <1>6, <1>9, <2>2 DEF Apart, Followed
  <2>3. CASE m # l
    BY <1>1, <1>4, <1>5, <1>6, <2>1, <2>3 DEF Apart, Followed
  <2>. QED  BY <2>2, <2>3
<1>11. ASSUME NEW m \in S!Launches PROVE Pointed(m)'
  BY <1>1, <1>4, <1>5, <1>6 DEF Pointed, Apart
<1>12. ASSUME ~raced', NEW i \in DOMAIN successor'
       PROVE  \/ S!Leads(successor', i, live')
              \/ \E m \in S!Launches : launch'[m].pc = "repoint" /\ S!Leads(successor', i, launch'[m].new)
  <2>1. ~raced /\ live = launch[l].seen
    BY <1>2, <1>12
  <2>2. PICK k \in S!Launches : /\ live \in DOMAIN successor
                               /\ launch[k].pc = "repoint" /\ launch[k].new = successor[live]
    BY <1>1, <2>1 DEF SessionInv, Pointed
  <2>3. CASE S!Leads(successor, i, live)
    <3>1. S!Leads(successor, i, launch[k].new)
      BY <2>2, <2>3, LeadsToNext
    <3>. QED  BY <1>1, <1>6, <2>2, <3>1
  <2>4. ASSUME NEW m \in S!Launches, launch[m].pc = "repoint", S!Leads(successor, i, launch[m].new)
        PROVE  \/ S!Leads(successor', i, live')
               \/ \E j \in S!Launches : launch'[j].pc = "repoint" /\ S!Leads(successor', i, launch'[j].new)
    BY <1>1, <1>6, <2>4
  <2>5. \/ S!Leads(successor, i, live)
        \/ \E m \in S!Launches : launch[m].pc = "repoint" /\ S!Leads(successor, i, launch[m].new)
    BY <1>1, <2>1 DEF SessionInv, S!HistoryChains
  <2>. QED  BY <2>3, <2>4, <2>5
<1>13. S!HistoryChains'
  BY <1>12 DEF S!HistoryChains
<1>. QED  BY <1>1, <1>4, <1>6, <1>7, <1>8, <1>10, <1>11, <1>13 DEF SessionInv

\* A worker writes what it saw, or the first row.
LEMMA SetSessionKeeps ==
    ASSUME SessionInv, NEW l \in Workers, S!SetSession(l) PROVE SessionInv'
<1>0. Rows /\ launch \in [S!Launches -> Launching] /\ Minted /\ l \in S!Launches
  BY DEF SessionInv, S!Launches
<1>. DEFINE sid == launch[l].resume
<1>1. /\ UNCHANGED <<successor, age, minted, failures>> /\ launch[l].pc = "set"
      /\ live' = sid /\ stamp' = 0 /\ launch' = [launch EXCEPT ![l] = S!AtRest]
  BY DEF S!SetSession, S!WriteRow
<1>2. raced' <=> (raced \/ live # launch[l].seen)
  BY DEF S!SetSession, S!WriteRow
<1>3. Followed(l) /\ sid # 0 /\ sid \in S!Ids /\ sid \in Nat /\ sid <= minted
      /\ launch[l].seen \in {0, sid}
  BY <1>0, <1>1 DEF SessionInv, Followed, Launching, Minted, S!Ids
<1>4. /\ S!AtRest \in Launching /\ S!AtRest.pc = "off" /\ S!AtRest.seen = 0
      /\ S!AtRest.resume = 0 /\ S!AtRest.new = 0
  BY DEF S!AtRest, Launching, S!None
<1>5. /\ launch' \in [S!Launches -> Launching] /\ launch'[l] = S!AtRest
      /\ \A m \in S!Launches : m # l => launch'[m] = launch[m]
  BY <1>0, <1>1, <1>4, Moved
<1>6. Rows'
  <2>1. stamp' \in 0..(MaxIdle + 1)
    BY <1>1, SessionAssumption
  <2>2. raced' \in BOOLEAN
    BY DEF S!SetSession, S!WriteRow
  <2>. QED  BY <1>0, <1>1, <1>3, <2>1, <2>2 DEF Rows
<1>7. Minted'
  <2>1. minted \in Nat
    BY <1>0, SessionAssumption DEF Rows
  <2>. QED  BY <1>0, <1>1, <1>3, <1>4, <1>5, <2>1 DEF Minted
<1>8. ASSUME NEW m \in S!Launches PROVE Apart(m)' /\ Followed(m)'
  <2>1. Apart(m) /\ Followed(m)
    BY DEF SessionInv
  <2>2. CASE m = l
    BY <1>4, <1>5, <2>2 DEF Apart, Followed
  <2>3. CASE m # l
    BY <1>0, <1>1, <1>3, <1>4, <1>5, <2>1, <2>3 DEF Apart, Followed
  <2>. QED  BY <2>2, <2>3
<1>9. ASSUME ~raced'
      PROVE  S!HistoryChains' /\ \A m \in S!Launches : Pointed(m)'
  <2>1. ~raced /\ (live = sid \/ live = 0)
    BY <1>2, <1>3, <1>9
  <2>2. CASE live = sid
    <3>1. \A m \in S!Launches : launch[m].pc = "repoint" => launch'[m] = launch[m]
      BY <1>1, <1>5
    <3>2. \A m \in S!Launches : launch'[m].pc = "repoint" => launch'[m] = launch[m]
      BY <1>4, <1>5
    <3>3. ASSUME NEW m \in S!Launches PROVE Pointed(m)'
      <4>1. Pointed(m)
        BY <2>1 DEF SessionInv
      <4>. QED  BY <1>1, <2>2, <3>1, <3>2, <4>1 DEF Pointed
    <3>4. ASSUME NEW i \in DOMAIN successor'
          PROVE  \/ S!Leads(successor', i, live')
                 \/ \E m \in S!Launches : launch'[m].pc = "repoint" /\ S!Leads(successor', i, launch'[m].new)
      BY <1>1, <2>1, <2>2, <3>1 DEF SessionInv, S!HistoryChains
    <3>. QED  BY <3>3, <3>4 DEF S!HistoryChains
  <2>3. CASE live = 0
    <3>1. DOMAIN successor' = {}
      BY <1>1, <2>1, <2>3 DEF SessionInv
    <3>2. \A m \in S!Launches : launch[m].pc # "repoint"
      BY <1>0, <2>3 DEF SessionInv, Apart, Minted
    <3>3. \A m \in S!Launches : launch'[m].pc # "repoint"
      BY <1>4, <1>5, <3>2
    <3>. QED  BY <3>1, <3>3 DEF Pointed, S!HistoryChains
  <2>. QED  BY <2>1, <2>2, <2>3
<1>10. S!HistoryChains'
  BY <1>9 DEF S!HistoryChains
<1>11. live' # 0
  BY <1>1, <1>3
<1>. QED  BY <1>5, <1>6, <1>7, <1>8, <1>9, <1>10, <1>11 DEF SessionInv

LEMMA AnswersKeeps ==
    ASSUME SessionInv, NEW l \in S!Launches, S!Answers(l) PROVE SessionInv'
<1>0. Rows /\ launch \in [S!Launches -> Launching] /\ Minted /\ Followed(l)
  BY DEF SessionInv
<1>. DEFINE sid == S!SessionOf(l)
            at == IF l \in Workers THEN "set" ELSE "talk"
            r == IF l \in Workers THEN [launch[l] EXCEPT !.pc = "set", !.resume = sid]
                                   ELSE [launch[l] EXCEPT !.pc = "talk", !.resume = sid]
<1>1. UNCHANGED <<live, stamp, successor, failures, raced>> /\ launch[l].pc = "claude"
  BY DEF S!Answers
<1>2. launch' = [launch EXCEPT ![l] = r]
  BY DEF S!Answers
<1>3. /\ sid = minted + 1 => minted < MaxId
      /\ minted' = IF sid = minted + 1 THEN minted + 1 ELSE minted
      /\ age' = [i \in DOMAIN age \cup {sid} |-> IF i = sid THEN 0 ELSE age[i]]
  BY DEF S!Answers, S!Fresh, S!CanMint
<1>4. /\ sid \in {launch[l].resume, launch[l].new, minted + 1}
      /\ launch[l].resume # 0 => sid = launch[l].resume
      /\ launch[l].resume = 0 /\ launch[l].new # 0 => sid = launch[l].new
      /\ launch[l].resume = 0 /\ launch[l].new = 0 => sid = minted + 1
  BY DEF S!SessionOf, S!None, S!Fresh
<1>. HIDE DEF sid
<1>5. /\ launch[l] \in Launching /\ minted \in 0..MaxId /\ minted \in Nat
      /\ launch[l].seen # 0 => live # 0
  BY <1>0, SessionAssumption DEF Rows, Minted
<1>6. minted + 1 # 0 /\ (sid = minted + 1 => sid \in S!Ids)
  BY <1>3, <1>5, SessionAssumption DEF S!Ids
<1>7. sid \in S!Ids /\ sid # 0
  BY <1>4, <1>5, <1>6 DEF Launching
<1>8. /\ r \in Launching /\ r.pc = at /\ r.seen = launch[l].seen /\ r.new = launch[l].new
      /\ r.resume = sid
  BY <1>5, <1>7 DEF Launching
<1>. HIDE DEF r
<1>9. DOMAIN age' \subseteq S!Ids /\ \A i \in DOMAIN age' : age'[i] \in 0..(MaxIdle + 1)
  BY <1>0, <1>3, <1>7, SessionAssumption DEF Rows
<1>10. minted' \in 0..MaxId /\ minted' \in {minted, minted + 1}
  BY <1>3, <1>5, SessionAssumption
<1>11. Rows'
  BY <1>0, <1>1, <1>9, <1>10 DEF Rows
<1>12. launch'[l] = r => Followed(l)'
  <2>1. l \in Workers => launch[l].seen \in {0, sid}
    BY <1>0, <1>1, <1>4 DEF Followed
  <2>. QED  BY <1>7, <1>8, <2>1 DEF Followed
<1>. QED  BY <1>1, <1>2, <1>3, <1>4, <1>5, <1>8, <1>10, <1>11, <1>12, MoveKeeps

LEMMA SessionKeeps == ASSUME SessionInv, [S!Next]_(S!vars) PROVE SessionInv'
<1>1. ASSUME NEW l \in S!Launches, NEW fresh \in BOOLEAN, S!Attach(l, fresh) PROVE SessionInv'
  BY <1>1, AttachKeeps
<1>2. ASSUME NEW l \in S!Launches,
             \/ S!KeepOrRotate(l) \/ S!Retire(l) \/ S!Repoint(l) \/ S!Answers(l) \/ S!Fails(l)
      PROVE  SessionInv'
  BY <1>2, KeepOrRotateKeeps, RetireKeeps, RepointKeeps, AnswersKeeps, FailsKeeps
<1>3. ASSUME NEW c \in Chats, S!Talks(c) \/ S!Leaves(c) PROVE SessionInv'
  BY <1>3, TurnKeeps, FailsKeeps DEF S!Launches
<1>4. ASSUME NEW w \in Workers, S!SetSession(w) PROVE SessionInv'
  BY <1>4, SetSessionKeeps
<1>5. CASE S!Tick
  BY <1>5, TurnKeeps
<1>6. CASE UNCHANGED S!vars
  <2>1. UNCHANGED <<live, successor, launch, minted, raced>> /\ UNCHANGED <<stamp, age, failures>>
    BY <1>6 DEF S!vars
  <2>2. Rows'
    <3>1. Rows
      BY DEF SessionInv
    <3>. QED  BY Zenon, <2>1, <3>1 DEF Rows
  <2>. QED  BY <2>1, <2>2, RowsKeep
<1>. QED  BY <1>1, <1>2, <1>3, <1>4, <1>5, <1>6 DEF S!Next

-----------------------------------------------------------------------------
LEMMA SessionsMove == ASSUME [ServeNext]_serveVars PROVE [S!Next]_(S!vars)
BY DEF ServeNext, serveVars, sessionVars, S!vars

\* session.go, rotate.go: whoever rotates, retires, repoints, answers or fails in between,
\* and however often a worker's write and a chat's cross, from each retired session the
\* successors lead to the live one, until a write covers a change that its writer had not
\* seen.  For any number of workers, chats, sessions and failures.
THEOREM HistoryChainsHold == ServeSpec => []HistoryChains
<1>1. ServeInit => SessionInv
  BY SessionInitHolds DEF ServeInit
<1>2. SessionInv /\ [ServeNext]_serveVars => SessionInv'
  BY SessionsMove, SessionKeeps
<1>3. SessionInv => HistoryChains
  BY SessionTypes DEF SessionInv, HistoryChains
<1>. QED  BY <1>1, <1>2, <1>3, PTL DEF ServeSpec

-----------------------------------------------------------------------------
(* The engine and the agent host that asks it.                              *)

EngineRun == [by : {"serve", "hand"}, start : Nat, ok : BOOLEAN,
              is : {"live", "recorded", "over", "died"}, unmarked : BOOLEAN]
Inquiry == [pc : {"idle", "calling", "running?", "last?", "answered", "stopped", "allowed",
                  "refused", "running"},
            force : BOOLEAN, met : SUBSET Nat, warned : BOOLEAN,
            status : [running : BOOLEAN, last : Nat]]

\* The jobs that are marked: for a run there is, or a job that is at the gate, just now.
Booked(js, n, h) ==
    \A j \in js : /\ j.run \in 0..n /\ j.since \in 0..h /\ j.marked \in BOOLEAN
                  /\ j = [run |-> j.run, since |-> j.since, marked |-> j.marked]
                  /\ j.run = 0 => j.since = h

Tables ==
    /\ hour \in 0..EngineTime /\ runs \in Seq(EngineRun) /\ Len(runs) <= EngineRuns
    /\ ledger \in Seq(Nat)
    /\ \A k \in DOMAIN ledger : ledger[k] \in DOMAIN runs
    /\ Booked(jobs, Len(runs), hour)

\* A run that is over; that has gone on for too long to be taken for one; and one that is
\* not the newest of the ledger.
Ended(r) == r.is \in {"over", "died"}
Lasting(r, h) == r.start + StaleRunning < h
Newest(l) == IF l = <<>> THEN 0 ELSE l[Len(l)]
Behind(l, i) == Newest(l) # i

\* A run of the drain keeps its job marked until it is settled, or the page takes the mark
\* off; one that did not come to its end did not end well.
JobOf(js, r, i) ==
    r.by = "serve" /\ r.is \in {"live", "recorded"} =>
        r.unmarked \/ \E j \in js : j.run = i /\ j.since = r.start /\ j.marked
EndOf(r) == r.is \in {"live", "died"} => ~r.ok
Marked == \A i \in DOMAIN runs : JobOf(jobs, runs[i], i) /\ EndOf(runs[i])

\* What the agent has been told of a run that was under way when it asked.
Told(l, r, i, h, c) ==
    ~c.status.running /\ i \in c.met /\ ~r.unmarked =>
        /\ c.pc = "last?" => Lasting(r, h) \/ Ended(r)
        /\ c.pc = "answered" =>
             \/ Lasting(r, h)
             \/ Ended(r) /\ (~r.ok \/ c.status.last = i \/ Behind(l, i))
NotAtIt(m, l, r, i, h, c) ==
    c.pc \in {"allowed", "running"} /\ ~c.force /\ ~c.warned /\ i \in c.met =>
        \/ r.unmarked
        \/ ~r.ok /\ r.is # "live"
        \/ Lasting(r, h)
        \/ r.ok /\ (m \/ r.start + RecentWindow <= h \/ Behind(l, i))

Informed ==
    /\ manual \in BOOLEAN
    /\ inquiry \in Inquiry /\ inquiry.met \subseteq DOMAIN runs
    /\ \A i \in DOMAIN runs :
         /\ i \in inquiry.met => runs[i].by = "serve"
         /\ Told(ledger, runs[i], i, hour, inquiry)
         /\ NotAtIt(manual, ledger, runs[i], i, hour, inquiry)

EngineInv == Tables /\ Marked /\ Informed

-----------------------------------------------------------------------------
LEMMA EngineImplies == ASSUME EngineInv PROVE E!TypeOK /\ E!EngineIsNotAtIt
<1>1. E!TypeOK
  BY DEF EngineInv, Tables, Informed, Inquiry, Booked, E!TypeOK
<1>2. ASSUME inquiry.pc \in {"allowed", "running"}, ~inquiry.force, ~inquiry.warned,
             NEW i \in inquiry.met
      PROVE  \/ runs[i].unmarked
             \/ ~runs[i].ok /\ runs[i].is # "live"
             \/ runs[i].start + StaleRunning < hour
             \/ runs[i].ok /\ (manual \/ runs[i].start + RecentWindow <= hour \/ E!Superseded(i))
  <2>1. i \in DOMAIN runs /\ NotAtIt(manual, ledger, runs[i], i, hour, inquiry)
    BY DEF EngineInv, Informed
  <2>2. Behind(ledger, i) => E!Superseded(i)
    BY DEF Behind, Newest, E!Superseded, E!Last
  <2>. QED  BY <1>2, <2>1, <2>2 DEF NotAtIt, Lasting
<1>. QED  BY <1>1, <1>2 DEF E!EngineIsNotAtIt

LEMMA EngineInitHolds == ASSUME E!Init PROVE EngineInv
<1>1. /\ E!NoCall \in Inquiry /\ E!NoCall.pc = "idle" /\ E!NoCall.met = {}
  BY DEF E!NoCall, E!NoStatus, Inquiry
<1>2. /\ hour = 0 /\ jobs = {} /\ ledger = <<>> /\ runs = <<>> /\ inquiry = E!NoCall
      /\ manual \in BOOLEAN
  BY DEF E!Init
<1>3. Tables
  BY <1>1, <1>2, EngineAssumption DEF Tables, Booked
<1>. QED  BY <1>1, <1>2, <1>3 DEF EngineInv, Marked, Informed

\* What is over stays over and gets no row any more, and time goes on: what the agent has been
\* told stays true of whatever the engine does meanwhile.
Ages ==
    /\ UNCHANGED <<manual, inquiry>> /\ hour <= hour'
    /\ DOMAIN runs \subseteq DOMAIN runs'
    /\ \A i \in DOMAIN runs :
         /\ runs'[i].by = runs[i].by /\ runs'[i].start = runs[i].start
         /\ runs[i].is # "live" => runs'[i].is # "live" /\ runs'[i].ok = runs[i].ok
         /\ Ended(runs[i]) => Ended(runs'[i])
         /\ runs[i].unmarked => runs'[i].unmarked
         /\ runs[i].is # "live" /\ Behind(ledger, i) => Behind(ledger', i)

LEMMA StaysInformed ==
    ASSUME EngineInv, Tables', Ages
    PROVE  Informed'
<1>1. /\ inquiry' = inquiry /\ manual' = manual /\ inquiry \in Inquiry /\ manual \in BOOLEAN
      /\ inquiry'.met \subseteq DOMAIN runs'
  BY DEF EngineInv, Informed, Ages
<1>2. ASSUME NEW i \in DOMAIN runs'
      PROVE  /\ i \in inquiry'.met => runs'[i].by = "serve"
             /\ Told(ledger', runs'[i], i, hour', inquiry')
             /\ NotAtIt(manual', ledger', runs'[i], i, hour', inquiry')
  <2>1. CASE i \notin inquiry.met
    BY <1>1, <2>1 DEF Told, NotAtIt
  <2>2. CASE i \in inquiry.met
    <3>1. i \in DOMAIN runs
      BY <2>2 DEF EngineInv, Informed
    <3>2. /\ runs'[i].by = runs[i].by /\ runs'[i].start = runs[i].start
          /\ runs[i].is # "live" => runs'[i].is # "live" /\ runs'[i].ok = runs[i].ok
          /\ Ended(runs[i]) => Ended(runs'[i])
          /\ runs[i].unmarked => runs'[i].unmarked
          /\ runs[i].is # "live" /\ Behind(ledger, i) => Behind(ledger', i)
          /\ Ended(runs[i]) \/ runs[i].ok => runs[i].is # "live"
      BY <3>1 DEF Ages, Ended, EngineInv, Marked, EndOf
    <3>3. /\ runs[i].by = "serve" /\ Told(ledger, runs[i], i, hour, inquiry)
          /\ NotAtIt(manual, ledger, runs[i], i, hour, inquiry)
      BY <2>2, <3>1 DEF EngineInv, Informed
    <3>4. /\ hour \in Nat /\ hour' \in Nat /\ hour <= hour' /\ RecentWindow \in Nat /\ StaleRunning \in Nat
      BY EngineAssumption DEF EngineInv, Tables, Ages
    <3>5. runs[i] \in EngineRun
      BY <3>1 DEF EngineInv, Tables
    <3>6. runs[i].start \in Nat
      BY <3>5 DEF EngineRun
    <3>7. Lasting(runs[i], hour) => Lasting(runs'[i], hour')
      BY <3>2, <3>4, <3>6 DEF Lasting
    <3>8. runs[i].start + RecentWindow <= hour => runs'[i].start + RecentWindow <= hour'
      BY <3>2, <3>4, <3>6
    <3>9. Told(ledger', runs'[i], i, hour', inquiry)
      BY <3>2, <3>3, <3>7 DEF Told
    <3>10. NotAtIt(manual, ledger', runs'[i], i, hour', inquiry)
      BY <3>2, <3>3, <3>7, <3>8 DEF NotAtIt
    <3>. QED  BY <1>1, <3>2, <3>3, <3>9, <3>10
  <2>. QED  BY <2>1, <2>2
<1>. QED  BY <1>1, <1>2 DEF Informed

\* The engine's steps that change its jobs only.
LEMMA JobsMove ==
    ASSUME EngineInv, UNCHANGED <<manual, hour, ledger, runs, inquiry>>,
           Booked(jobs', Len(runs), hour),
           \A j \in jobs : j.run # 0 => j \in jobs'
    PROVE  EngineInv'
<1>1. Tables'
  BY DEF EngineInv, Tables
<1>2. Marked'
  <2>1. ASSUME NEW i \in DOMAIN runs PROVE JobOf(jobs', runs[i], i)
    BY DEF EngineInv, Marked, JobOf, Tables
  <2>. QED  BY <2>1 DEF EngineInv, Marked
<1>3. Ages
  BY DEF Ages, EngineInv, Tables
<1>4. Informed'
  BY <1>1, <1>3, StaysInformed
<1>. QED  BY <1>1, <1>2, <1>4 DEF EngineInv

LEMMA MarkKeeps == ASSUME EngineInv, E!Mark PROVE EngineInv'
<1>1. jobs' = jobs \cup {[run |-> 0, since |-> hour, marked |-> TRUE]} /\ UNCHANGED <<manual, hour, ledger, runs, inquiry>>
  BY DEF E!Mark
<1>2. hour \in 0..hour /\ 0 \in 0..Len(runs)
  BY DEF EngineInv, Tables
<1>3. Booked(jobs', Len(runs), hour)
  <2>. DEFINE k == [run |-> 0, since |-> hour, marked |-> TRUE]
  <2>1. k.run = 0 /\ k.since = hour /\ k.marked = TRUE /\ k = [run |-> k.run, since |-> k.since, marked |-> k.marked]
    OBVIOUS
  <2>2. Booked(jobs, Len(runs), hour) /\ jobs' = jobs \cup {k}
    BY <1>1 DEF EngineInv, Tables
  <2>. HIDE DEF k
  <2>. QED  BY <1>2, <2>1, <2>2 DEF Booked
<1>4. \A j \in jobs : j.run # 0 => j \in jobs'
  BY <1>1
<1>. QED  BY <1>1, <1>3, <1>4, JobsMove

LEMMA HoldBackKeeps == ASSUME EngineInv, NEW j \in jobs, E!HoldBack(j) PROVE EngineInv'
<1>1. j.run = 0 /\ jobs' = jobs \ {j} /\ UNCHANGED <<manual, hour, ledger, runs, inquiry>>
  BY DEF E!HoldBack
<1>2. Booked(jobs', Len(runs), hour)
  BY <1>1 DEF Booked, EngineInv, Tables
<1>3. \A k \in jobs : k.run # 0 => k \in jobs'
  BY <1>1
<1>. QED  BY <1>1, <1>2, <1>3, JobsMove

\* A run begins.
LEMMA RunBegins ==
    ASSUME EngineInv, NEW by \in {"serve", "hand"}, NEW un \in BOOLEAN, E!Run(by, un), Len(runs) < EngineRuns,
           UNCHANGED <<manual, hour, ledger, inquiry>>,
           Booked(jobs', Len(runs) + 1, hour),
           \A j \in jobs : j.run # 0 => j \in jobs',
           by = "serve" => un \/ \E j \in jobs' : j.run = Len(runs) + 1 /\ j.since = hour /\ j.marked
    PROVE  EngineInv'
<1>. DEFINE r == [by |-> by, start |-> hour, is |-> "live", ok |-> FALSE, unmarked |-> un]
            n == Len(runs) + 1
<1>1. /\ runs' = Append(runs, r) /\ hour' = hour /\ ledger' = ledger /\ hour \in Nat
      /\ runs \in Seq(EngineRun)
  BY EngineAssumption DEF E!Run, EngineInv, Tables
<1>2. /\ r \in EngineRun /\ r.by = by /\ r.start = hour /\ r.is = "live" /\ ~r.ok /\ r.unmarked = un
  BY <1>1 DEF EngineRun
<1>. HIDE DEF r
<1>3. /\ runs' \in Seq(EngineRun) /\ Len(runs') = n /\ DOMAIN runs' = DOMAIN runs \cup {n}
      /\ runs'[n] = r /\ n \notin DOMAIN runs
      /\ \A i \in DOMAIN runs : runs'[i] = runs[i]
  BY <1>1, <1>2
<1>4. Tables'
  BY <1>1, <1>3, EngineAssumption DEF EngineInv, Tables
<1>5. Marked'
  <2>1. ASSUME NEW i \in DOMAIN runs PROVE JobOf(jobs', runs[i], i)
    BY DEF EngineInv, Marked, JobOf, Tables
  <2>2. JobOf(jobs', r, n)
    BY <1>2 DEF JobOf
  <2>3. EndOf(r)
    BY <1>2 DEF EndOf
  <2>. QED  BY <1>1, <1>3, <2>1, <2>2, <2>3 DEF EngineInv, Marked
<1>6. Ages
  BY <1>1, <1>3 DEF Ages
<1>. QED  BY <1>4, <1>5, <1>6, StaysInformed DEF EngineInv

LEMMA RunJobKeeps == ASSUME EngineInv, NEW j \in jobs, E!RunJob(j) PROVE EngineInv'
<1>. DEFINE k == [j EXCEPT !.run = Len(runs) + 1]
<1>1. /\ j.run = 0 /\ Len(runs) < EngineRuns /\ E!Run("serve", ~j.marked) /\ jobs' = (jobs \ {j}) \cup {k}
      /\ UNCHANGED <<manual, hour, ledger, inquiry>>
  BY DEF E!RunJob
<1>2. j = [run |-> j.run, since |-> j.since, marked |-> j.marked] /\ j.marked \in BOOLEAN
      /\ j.since = hour /\ hour \in 0..hour /\ Len(runs) \in Nat
  BY <1>1 DEF EngineInv, Tables, Booked
<1>3. k = [run |-> Len(runs) + 1, since |-> hour, marked |-> j.marked]
  BY <1>2
<1>4. k.run = Len(runs) + 1 /\ k.since = hour /\ k.marked = j.marked
  BY <1>3
<1>. HIDE DEF k
<1>5. Booked(jobs', Len(runs) + 1, hour)
  BY <1>1, <1>2, <1>3, <1>4 DEF EngineInv, Tables, Booked
<1>6. \A m \in jobs : m.run # 0 => m \in jobs'
  BY <1>1
<1>7. ~j.marked \/ \E m \in jobs' : m.run = Len(runs) + 1 /\ m.since = hour /\ m.marked
  BY <1>1, <1>4
<1>8. /\ "serve" \in {"serve", "hand"} /\ (~j.marked) \in BOOLEAN
      /\ "serve" = "serve" =>
           ~j.marked \/ \E m \in jobs' : m.run = Len(runs) + 1 /\ m.since = hour /\ m.marked
  BY <1>7
<1>. QED  BY <1>1, <1>5, <1>6, <1>8, RunBegins

LEMMA RunByHandKeeps == ASSUME EngineInv, E!RunByHand PROVE EngineInv'
<1>1. /\ Len(runs) < EngineRuns /\ E!Run("hand", TRUE) /\ jobs' = jobs
      /\ UNCHANGED <<manual, hour, ledger, inquiry>>
  BY DEF E!RunByHand
<1>2. Booked(jobs', Len(runs) + 1, hour)
  BY <1>1 DEF EngineInv, Tables, Booked
<1>3. "hand" \in {"serve", "hand"} /\ TRUE \in BOOLEAN /\ "hand" # "serve" /\ \A j \in jobs : j.run # 0 => j \in jobs'
  BY <1>1
<1>. QED  BY <1>1, <1>2, <1>3, RunBegins

\* A run gets further.
LEMMA RunMoves ==
    ASSUME EngineInv, NEW i \in DOMAIN runs, NEW q \in EngineRun,
           runs' = [runs EXCEPT ![i] = q]
    PROVE  /\ runs' \in Seq(EngineRun) /\ Len(runs') = Len(runs) /\ DOMAIN runs' = DOMAIN runs
           /\ runs'[i] = q /\ \A k \in DOMAIN runs : k # i => runs'[k] = runs[k]
<1>1. runs \in Seq(EngineRun)
  BY DEF EngineInv, Tables
<1>. QED  BY <1>1

LEMMA RecordKeeps ==
    ASSUME EngineInv, NEW i \in DOMAIN runs, NEW ok \in BOOLEAN, E!Record(i, ok)
    PROVE  EngineInv'
<1>. DEFINE q == [runs[i] EXCEPT !.ok = ok, !.is = IF runs[i].by = "serve" THEN "recorded" ELSE "over"]
<1>1. /\ runs[i].is = "live" /\ ledger' \in {ledger, Append(ledger, i)}
      /\ UNCHANGED <<manual, hour, jobs, inquiry>>
  BY DEF E!Record
<1>2. runs[i] \in EngineRun /\ runs \in Seq(EngineRun)
  BY DEF EngineInv, Tables
<1>3. /\ q \in EngineRun /\ q.by = runs[i].by /\ q.start = runs[i].start /\ q.ok = ok
      /\ q.unmarked = runs[i].unmarked
      /\ q.is = (IF runs[i].by = "serve" THEN "recorded" ELSE "over")
  BY <1>2 DEF EngineRun
<1>4. runs' = [runs EXCEPT ![i] = q]
  BY <1>2 DEF E!Record
<1>. HIDE DEF q
<1>5. /\ runs' \in Seq(EngineRun) /\ Len(runs') = Len(runs) /\ DOMAIN runs' = DOMAIN runs
      /\ runs'[i] = q /\ \A k \in DOMAIN runs : k # i => runs'[k] = runs[k]
  BY <1>3, <1>4, RunMoves
<1>6. i \in Nat /\ ledger \in Seq(Nat) /\ \A k \in DOMAIN ledger : ledger[k] \in DOMAIN runs
  BY <1>2 DEF EngineInv, Tables
<1>7. /\ ledger' \in Seq(Nat) /\ \A k \in DOMAIN ledger' : ledger'[k] \in DOMAIN runs
      /\ Newest(ledger') \in {Newest(ledger), i}
  <2>1. CASE ledger' = ledger
    BY <1>6, <2>1
  <2>2. CASE ledger' = Append(ledger, i)
    <3>1. /\ ledger' \in Seq(Nat) /\ DOMAIN ledger' = DOMAIN ledger \cup {Len(ledger) + 1}
          /\ ledger'[Len(ledger) + 1] = i /\ \A k \in DOMAIN ledger : ledger'[k] = ledger[k]
          /\ Len(ledger') = Len(ledger) + 1 /\ ledger' # <<>>
      BY <1>6, <2>2
    <3>. QED  BY <1>6, <3>1 DEF Newest
  <2>. QED  BY <1>1, <2>1, <2>2
<1>8. Tables'
  BY <1>1, <1>5, <1>7 DEF EngineInv, Tables
<1>9. Marked'
  <2>1. JobOf(jobs, q, i)
    <3>1. JobOf(jobs, runs[i], i)
      BY DEF EngineInv, Marked
    <3>. QED  BY <1>1, <1>3, <3>1 DEF JobOf
  <2>2. EndOf(q)
    BY <1>3 DEF EndOf
  <2>. QED  BY <1>1, <1>5, <2>1, <2>2 DEF EngineInv, Marked
<1>10. Ages
  <2>1. ASSUME NEW k \in DOMAIN runs, runs[k].is # "live", Behind(ledger, k) PROVE Behind(ledger', k)
    BY <1>1, <1>7, <2>1 DEF Behind
  <2>2. hour <= hour' /\ DOMAIN runs \subseteq DOMAIN runs' /\ UNCHANGED <<manual, inquiry>>
    BY <1>1, <1>5 DEF EngineInv, Tables
  <2>3. ASSUME NEW k \in DOMAIN runs
        PROVE  /\ runs'[k].by = runs[k].by /\ runs'[k].start = runs[k].start
               /\ runs[k].is # "live" => runs'[k].is # "live" /\ runs'[k].ok = runs[k].ok
               /\ Ended(runs[k]) => Ended(runs'[k])
               /\ runs[k].unmarked => runs'[k].unmarked
    BY <1>1, <1>3, <1>5 DEF Ended
  <2>. QED  BY <2>1, <2>2, <2>3 DEF Ages
<1>. QED  BY <1>8, <1>9, <1>10, StaysInformed DEF EngineInv

\* The page takes the mark off a job.
LEMMA UnmarkKeeps == ASSUME EngineInv, NEW j \in jobs, E!Unmark(j) PROVE EngineInv'
<1>. DEFINE k == [j EXCEPT !.marked = FALSE]
            q(i) == [runs[i] EXCEPT !.unmarked = TRUE]
<1>1. /\ jobs' = (jobs \ {j}) \cup {k} /\ UNCHANGED <<manual, hour, ledger, inquiry>>
      /\ runs' = [i \in DOMAIN runs |-> IF i = j.run THEN q(i) ELSE runs[i]]
  BY DEF E!Unmark
<1>2. runs \in Seq(EngineRun) /\ DOMAIN runs = 1..Len(runs) /\ Len(runs) \in Nat
  BY DEF EngineInv, Tables
<1>3. k = [run |-> j.run, since |-> j.since, marked |-> FALSE]
  <2>1. j = [run |-> j.run, since |-> j.since, marked |-> j.marked]
    BY DEF EngineInv, Tables, Booked
  <2>. DEFINE with(m) == [run |-> j.run, since |-> j.since, marked |-> m]
  <2>2. ASSUME NEW m, NEW n PROVE [with(m) EXCEPT !.marked = n] = with(n)
    OBVIOUS
  <2>3. j = with(j.marked)
    BY <2>1
  <2>4. [with(j.marked) EXCEPT !.marked = FALSE] = with(FALSE)
    BY <2>2
  <2>. HIDE DEF with
  <2>5. k = with(FALSE)
    BY <2>3, <2>4
  <2>. QED  BY <2>5 DEF with
<1>4. k.run = j.run /\ k.since = j.since /\ k.marked = FALSE
  BY <1>3
<1>. HIDE DEF k
<1>5. ASSUME NEW i \in DOMAIN runs
      PROVE  /\ q(i) \in EngineRun /\ q(i).by = runs[i].by /\ q(i).start = runs[i].start
             /\ q(i).is = runs[i].is /\ q(i).ok = runs[i].ok /\ q(i).unmarked
  <2>1. runs[i] \in EngineRun
    BY <1>2
  <2>. QED  BY <2>1 DEF EngineRun
<1>. HIDE DEF q
<1>6. /\ runs' \in Seq(EngineRun) /\ Len(runs') = Len(runs) /\ DOMAIN runs' = DOMAIN runs
  BY <1>1, <1>2, <1>5
<1>7. ASSUME NEW i \in DOMAIN runs
      PROVE  /\ runs'[i].by = runs[i].by /\ runs'[i].start = runs[i].start
             /\ runs'[i].is = runs[i].is /\ runs'[i].ok = runs[i].ok
             /\ runs[i].unmarked => runs'[i].unmarked
             /\ i = j.run => runs'[i].unmarked
  BY <1>1, <1>5
<1>8. Tables'
  BY <1>1, <1>3, <1>4, <1>6 DEF EngineInv, Tables, Booked
<1>9. Marked'
  <2>1. ASSUME NEW i \in DOMAIN runs PROVE JobOf(jobs', runs'[i], i) /\ EndOf(runs'[i])
    <3>1. JobOf(jobs, runs[i], i) /\ EndOf(runs[i])
      BY DEF EngineInv, Marked
    <3>2. EndOf(runs'[i])
      BY <1>7, <3>1 DEF EndOf
    <3>3. CASE i = j.run
      BY <1>7, <3>2, <3>3 DEF JobOf
    <3>4. CASE i # j.run
      <4>1. \A m \in jobs : m.run = i => m \in jobs'
        BY <1>1, <3>4
      <4>. QED  BY <1>7, <3>1, <3>2, <4>1 DEF JobOf
    <3>. QED  BY <3>3, <3>4
  <2>. QED  BY <1>6, <2>1 DEF Marked
<1>10. Ages
  <2>1. hour <= hour' /\ DOMAIN runs \subseteq DOMAIN runs' /\ UNCHANGED <<manual, inquiry, ledger>>
    BY <1>1, <1>6 DEF EngineInv, Tables
  <2>. QED  BY <1>7, <2>1 DEF Ages, Ended
<1>. QED  BY <1>8, <1>9, <1>10, StaysInformed DEF EngineInv

\* A run is over, and its job is not marked any more, or stays marked for good.
LEMMA RunEnds ==
    ASSUME EngineInv, NEW i \in DOMAIN runs, runs[i].is \in {"live", "recorded"},
           NEW is \in {"died", "over"}, is = "over" <=> runs[i].is = "recorded",
           runs' = [runs EXCEPT ![i].is = is], UNCHANGED <<manual, hour, ledger, inquiry>>,
           jobs' \subseteq jobs, \A j \in jobs : j.run # i => j \in jobs'
    PROVE  EngineInv'
<1>. DEFINE q == [runs[i] EXCEPT !.is = is]
<1>2. runs[i] \in EngineRun /\ runs \in Seq(EngineRun)
  BY DEF EngineInv, Tables
<1>3. /\ q \in EngineRun /\ q.by = runs[i].by /\ q.start = runs[i].start /\ q.ok = runs[i].ok
      /\ q.is = is /\ q.unmarked = runs[i].unmarked
  BY <1>2 DEF EngineRun
<1>4. runs' = [runs EXCEPT ![i] = q]
  BY <1>2
<1>. HIDE DEF q
<1>5. /\ runs' \in Seq(EngineRun) /\ Len(runs') = Len(runs) /\ DOMAIN runs' = DOMAIN runs
      /\ runs'[i] = q /\ \A k \in DOMAIN runs : k # i => runs'[k] = runs[k]
  BY <1>3, <1>4, RunMoves
<1>6. Tables'
  BY <1>5 DEF EngineInv, Tables, Booked
<1>7. Marked'
  <2>1. JobOf(jobs', q, i)
    BY <1>3 DEF JobOf
  <2>2. EndOf(q)
    <3>1. EndOf(runs[i])
      BY DEF EngineInv, Marked
    <3>. QED  BY <1>3, <3>1 DEF EndOf
  <2>3. ASSUME NEW k \in DOMAIN runs, k # i PROVE JobOf(jobs', runs[k], k) /\ EndOf(runs[k])
    <3>1. JobOf(jobs, runs[k], k) /\ EndOf(runs[k])
      BY DEF EngineInv, Marked
    <3>. QED  BY <2>3, <3>1 DEF JobOf
  <2>. QED  BY <1>5, <2>1, <2>2, <2>3 DEF Marked
<1>8. Ages
  <2>1. hour <= hour' /\ DOMAIN runs \subseteq DOMAIN runs' /\ UNCHANGED <<manual, inquiry>>
    BY <1>5 DEF EngineInv, Tables
  <2>2. ASSUME NEW k \in DOMAIN runs
        PROVE  /\ runs'[k].by = runs[k].by /\ runs'[k].start = runs[k].start
               /\ runs[k].is # "live" => runs'[k].is # "live" /\ runs'[k].ok = runs[k].ok
               /\ Ended(runs[k]) => Ended(runs'[k])
               /\ runs[k].unmarked => runs'[k].unmarked
    BY <1>3, <1>5 DEF Ended
  <2>. QED  BY <2>1, <2>2 DEF Ages
<1>. QED  BY <1>6, <1>7, <1>8, StaysInformed DEF EngineInv

LEMMA SettleKeeps == ASSUME EngineInv, NEW i \in DOMAIN runs, E!Settle(i) PROVE EngineInv'
<1>1. /\ runs[i].is = "recorded" /\ runs' = [runs EXCEPT ![i].is = "over"]
      /\ UNCHANGED <<manual, hour, ledger, inquiry>>
      /\ jobs' \subseteq jobs /\ \A j \in jobs : j.run # i => j \in jobs'
  BY DEF E!Settle
<1>. QED  BY <1>1, RunEnds

LEMMA DiesKeeps == ASSUME EngineInv, NEW i \in DOMAIN runs, E!Dies(i) PROVE EngineInv'
<1>. DEFINE is == IF runs[i].is = "live" THEN "died" ELSE "over"
<1>1. /\ runs[i].is \in {"live", "recorded"} /\ runs' = [runs EXCEPT ![i].is = is]
      /\ UNCHANGED <<manual, hour, ledger, inquiry>>
      /\ jobs' \subseteq jobs /\ \A j \in jobs : j.run # i => j \in jobs'
  BY DEF E!Dies
<1>2. is \in {"died", "over"} /\ (is = "over" <=> runs[i].is = "recorded")
  BY <1>1
<1>. HIDE DEF is
<1>. QED  BY <1>1, <1>2, RunEnds

LEMMA EngineTickKeeps == ASSUME EngineInv, E!Tick PROVE EngineInv'
<1>1. /\ hour < EngineTime /\ hour' = hour + 1 /\ UNCHANGED <<manual, jobs, ledger, runs, inquiry>>
      /\ \A j \in jobs : j.run # 0
  BY DEF E!Tick, E!engine
<1>2. Tables'
  BY <1>1, EngineAssumption DEF EngineInv, Tables, Booked
<1>3. Marked'
  BY <1>1 DEF EngineInv, Marked
<1>4. Ages
  BY <1>1, EngineAssumption DEF Ages, EngineInv, Tables
<1>. QED  BY <1>2, <1>3, <1>4, StaysInformed DEF EngineInv

-----------------------------------------------------------------------------
\* A step of the agent, or of the answer it waits for.
LEMMA AgentMoves ==
    ASSUME EngineInv, UNCHANGED <<manual, hour, jobs, ledger, runs>>,
           inquiry' \in Inquiry, inquiry'.met \subseteq DOMAIN runs,
           \A i \in DOMAIN runs :
             /\ i \in inquiry'.met => runs[i].by = "serve"
             /\ Told(ledger, runs[i], i, hour, inquiry')
             /\ NotAtIt(manual, ledger, runs[i], i, hour, inquiry')
    PROVE  EngineInv'
<1>1. Tables' /\ Marked'
  BY DEF EngineInv, Tables, Marked
<1>2. Informed'
  BY DEF EngineInv, Informed
<1>. QED  BY <1>1, <1>2 DEF EngineInv

LEMMA ReachKeeps == ASSUME EngineInv, E!Reach PROVE EngineInv'
<1>. DEFINE met == {i \in DOMAIN runs : runs[i].by = "serve" /\ runs[i].is = "live"}
            c == [inquiry EXCEPT !.pc = "running?", !.met = met]
<1>1. UNCHANGED <<manual, hour, jobs, ledger, runs>> /\ inquiry' = c
  BY DEF E!Reach, E!engine
<1>2. inquiry \in Inquiry /\ met \subseteq DOMAIN runs /\ DOMAIN runs \subseteq Nat
  BY DEF EngineInv, Informed, Tables
<1>3. c \in Inquiry /\ c.pc = "running?" /\ c.met = met
  BY <1>2 DEF Inquiry
<1>. HIDE DEF c
<1>4. \A i \in DOMAIN runs : /\ i \in c.met => runs[i].by = "serve"
                             /\ Told(ledger, runs[i], i, hour, c)
                             /\ NotAtIt(manual, ledger, runs[i], i, hour, c)
  BY <1>3 DEF Told, NotAtIt
<1>. QED  BY <1>1, <1>2, <1>3, <1>4, AgentMoves

LEMMA LocalRunningKeeps == ASSUME EngineInv, E!LocalRunning PROVE EngineInv'
<1>. DEFINE t == [inquiry.status EXCEPT !.running = E!Running]
            c == [inquiry EXCEPT !.pc = "last?", !.status = t]
<1>1. UNCHANGED <<manual, hour, jobs, ledger, runs>> /\ inquiry' = c
  BY DEF E!LocalRunning, E!Reads, E!engine
<1>2. inquiry \in Inquiry /\ inquiry.met \subseteq DOMAIN runs
  BY DEF EngineInv, Informed
<1>3. t \in [running : BOOLEAN, last : Nat] /\ t.running = E!Running
  BY <1>2 DEF Inquiry, E!Running
<1>. HIDE DEF t
<1>4. c \in Inquiry /\ c.pc = "last?" /\ c.met = inquiry.met /\ c.status = t
  BY <1>2, <1>3 DEF Inquiry
<1>. HIDE DEF c
<1>5. ASSUME NEW i \in DOMAIN runs, i \in inquiry.met, ~E!Running, ~runs[i].unmarked
      PROVE  Lasting(runs[i], hour) \/ Ended(runs[i])
  <2>1. JobOf(jobs, runs[i], i) /\ runs[i].by = "serve" /\ runs[i] \in EngineRun
    BY <1>5 DEF EngineInv, Marked, Informed, Tables
  <2>2. CASE runs[i].is \in {"live", "recorded"}
    <3>1. PICK j \in jobs : j.since = runs[i].start /\ j.marked
      BY <1>5, <2>1, <2>2 DEF JobOf
    <3>2. ~(j.since + StaleRunning >= hour)
      BY <1>5, <3>1 DEF E!Running
    <3>3. hour \in Nat /\ runs[i].start \in Nat /\ StaleRunning \in Nat
      BY <2>1, EngineAssumption DEF EngineInv, Tables, EngineRun
    <3>. QED  BY <3>1, <3>2, <3>3 DEF Lasting
  <2>3. CASE runs[i].is \in {"over", "died"}
    BY <2>3 DEF Ended
  <2>. QED  BY <2>1, <2>2, <2>3 DEF EngineRun
<1>6. \A i \in DOMAIN runs : /\ i \in c.met => runs[i].by = "serve"
                             /\ Told(ledger, runs[i], i, hour, c)
                             /\ NotAtIt(manual, ledger, runs[i], i, hour, c)
  <2>1. \A i \in DOMAIN runs : i \in c.met => runs[i].by = "serve"
    BY <1>4 DEF EngineInv, Informed
  <2>2. ASSUME NEW i \in DOMAIN runs PROVE Told(ledger, runs[i], i, hour, c)
    BY <1>3, <1>4, <1>5 DEF Told
  <2>3. ASSUME NEW i \in DOMAIN runs PROVE NotAtIt(manual, ledger, runs[i], i, hour, c)
    BY <1>4 DEF NotAtIt
  <2>. QED  BY <2>1, <2>2, <2>3
<1>. QED  BY <1>1, <1>2, <1>4, <1>6, AgentMoves

LEMMA LocalLastKeeps == ASSUME EngineInv, E!LocalLast PROVE EngineInv'
<1>. DEFINE t == [inquiry.status EXCEPT !.last = E!Last]
            c == [inquiry EXCEPT !.pc = "answered", !.status = t]
<1>1. UNCHANGED <<manual, hour, jobs, ledger, runs>> /\ inquiry' = c /\ inquiry.pc = "last?"
  BY DEF E!LocalLast, E!Reads, E!engine
<1>2. inquiry \in Inquiry /\ inquiry.met \subseteq DOMAIN runs
  BY DEF EngineInv, Informed
<1>3. E!Last \in Nat /\ E!Last = Newest(ledger)
  BY DEF E!Last, Newest, EngineInv, Tables
<1>4. t \in [running : BOOLEAN, last : Nat] /\ t.running = inquiry.status.running /\ t.last = E!Last
  BY <1>2, <1>3 DEF Inquiry
<1>. HIDE DEF t
<1>5. c \in Inquiry /\ c.pc = "answered" /\ c.met = inquiry.met /\ c.status = t
  BY <1>2, <1>4 DEF Inquiry
<1>. HIDE DEF c
<1>6. ASSUME NEW i \in DOMAIN runs PROVE Told(ledger, runs[i], i, hour, c)
  <2>1. Told(ledger, runs[i], i, hour, inquiry) /\ runs[i] \in EngineRun
    BY DEF EngineInv, Informed, Tables
  <2>2. t.last = i \/ Behind(ledger, i)
    BY <1>3, <1>4 DEF Behind
  <2>. QED  BY <1>1, <1>4, <1>5, <2>1, <2>2 DEF Told
<1>7. ASSUME NEW i \in DOMAIN runs
      PROVE  /\ i \in c.met => runs[i].by = "serve"
             /\ NotAtIt(manual, ledger, runs[i], i, hour, c)
  BY <1>5 DEF NotAtIt, EngineInv, Informed
<1>. QED  BY <1>1, <1>2, <1>5, <1>6, <1>7, AgentMoves

LEMMA CallKeeps == ASSUME EngineInv, NEW force \in BOOLEAN, E!Call(force) PROVE EngineInv'
<1>. DEFINE c == [E!NoCall EXCEPT !.pc = "calling", !.force = force]
<1>1. UNCHANGED <<manual, hour, jobs, ledger, runs>> /\ inquiry' = c
  BY DEF E!Call, E!engine
<1>2. c \in Inquiry /\ c.met = {}
  BY DEF E!NoCall, E!NoStatus, Inquiry
<1>. HIDE DEF c
<1>3. \A i \in DOMAIN runs : /\ i \in c.met => runs[i].by = "serve"
                             /\ Told(ledger, runs[i], i, hour, c)
                             /\ NotAtIt(manual, ledger, runs[i], i, hour, c)
  BY <1>2 DEF Told, NotAtIt
<1>. QED  BY <1>1, <1>2, <1>3, AgentMoves

LEMMA DecideKeeps == ASSUME EngineInv, E!Decide PROVE EngineInv'
<1>. DEFINE c == [inquiry EXCEPT !.pc = IF E!Stops THEN "stopped" ELSE "allowed", !.status = E!NoStatus]
<1>1. UNCHANGED <<manual, hour, jobs, ledger, runs>> /\ inquiry' = c /\ inquiry.pc = "answered"
  BY DEF E!Decide, E!engine
<1>2. inquiry \in Inquiry /\ inquiry.met \subseteq DOMAIN runs
  BY DEF EngineInv, Informed
<1>3. /\ c \in Inquiry /\ c.pc = (IF E!Stops THEN "stopped" ELSE "allowed")
      /\ c.met = inquiry.met /\ c.force = inquiry.force /\ c.warned = inquiry.warned
  BY <1>2 DEF Inquiry, E!NoStatus
<1>. HIDE DEF c
<1>4. ASSUME NEW i \in DOMAIN runs PROVE NotAtIt(manual, ledger, runs[i], i, hour, c)
  <2>. SUFFICES ASSUME ~E!Stops, ~inquiry.force, i \in inquiry.met, ~runs[i].unmarked
                PROVE  \/ ~runs[i].ok /\ runs[i].is # "live"
                       \/ Lasting(runs[i], hour)
                       \/ runs[i].ok /\ (manual \/ runs[i].start + RecentWindow <= hour \/ Behind(ledger, i))
    BY <1>3 DEF NotAtIt
  <2>1. ~inquiry.status.running /\ ~E!RanRecently(inquiry.status.last)
    BY DEF E!Stops
  <2>2. Told(ledger, runs[i], i, hour, inquiry) /\ runs[i] \in EngineRun
    BY DEF EngineInv, Informed, Tables
  <2>3. \/ Lasting(runs[i], hour)
        \/ Ended(runs[i]) /\ (~runs[i].ok \/ inquiry.status.last = i \/ Behind(ledger, i))
    BY <1>1, <2>1, <2>2 DEF Told
  <2>4. i # 0 /\ hour \in Nat /\ runs[i].start \in Nat /\ RecentWindow \in Nat
    BY <2>2, EngineAssumption DEF EngineInv, Tables, EngineRun
  <2>5. ASSUME inquiry.status.last = i, runs[i].ok, ~manual PROVE runs[i].start + RecentWindow <= hour
    <3>1. ~(hour < runs[i].start + RecentWindow)
      BY <2>1, <2>4, <2>5 DEF E!RanRecently
    <3>. QED  BY <2>4, <3>1
  <2>. QED  BY <2>3, <2>5 DEF Ended
<1>5. ASSUME NEW i \in DOMAIN runs
      PROVE  /\ i \in c.met => runs[i].by = "serve"
             /\ Told(ledger, runs[i], i, hour, c)
  BY <1>3 DEF Told, EngineInv, Informed
<1>. QED  BY <1>1, <1>2, <1>3, <1>4, <1>5, AgentMoves

LEMMA UnreachableKeeps == ASSUME EngineInv, E!Unreachable PROVE EngineInv'
<1>. DEFINE c == [inquiry EXCEPT !.pc = "allowed", !.warned = TRUE, !.status = E!NoStatus]
<1>1. UNCHANGED <<manual, hour, jobs, ledger, runs>> /\ inquiry' = c
  BY DEF E!Unreachable, E!engine
<1>2. inquiry \in Inquiry /\ inquiry.met \subseteq DOMAIN runs
  BY DEF EngineInv, Informed
<1>3. c \in Inquiry /\ c.pc = "allowed" /\ c.met = inquiry.met /\ c.warned
  BY <1>2 DEF Inquiry, E!NoStatus
<1>. HIDE DEF c
<1>4. \A i \in DOMAIN runs : /\ i \in c.met => runs[i].by = "serve"
                             /\ Told(ledger, runs[i], i, hour, c)
                             /\ NotAtIt(manual, ledger, runs[i], i, hour, c)
  BY <1>3 DEF Told, NotAtIt, EngineInv, Informed
<1>. QED  BY <1>1, <1>2, <1>3, <1>4, AgentMoves

LEMMA RunHereKeeps == ASSUME EngineInv, E!RunHere PROVE EngineInv'
<1>1. PICK ready \in BOOLEAN :
        inquiry' = [inquiry EXCEPT !.pc = IF ready \/ inquiry.force THEN "running" ELSE "refused"]
  BY DEF E!RunHere
<1>. DEFINE c == [inquiry EXCEPT !.pc = IF ready \/ inquiry.force THEN "running" ELSE "refused"]
<1>2. /\ UNCHANGED <<manual, hour, jobs, ledger, runs>> /\ inquiry' = c
      /\ inquiry.pc = "allowed" /\ inquiry \in Inquiry /\ inquiry.met \subseteq DOMAIN runs
  BY <1>1 DEF E!RunHere, E!engine, EngineInv, Informed
<1>3. /\ c \in Inquiry /\ c.pc \in {"running", "refused"} /\ c.met = inquiry.met
      /\ c.force = inquiry.force /\ c.warned = inquiry.warned
  BY <1>2 DEF Inquiry
<1>. HIDE DEF c
<1>4. \A i \in DOMAIN runs : /\ i \in c.met => runs[i].by = "serve"
                             /\ Told(ledger, runs[i], i, hour, c)
  BY <1>3 DEF Told, EngineInv, Informed
<1>5. ASSUME NEW i \in DOMAIN runs PROVE NotAtIt(manual, ledger, runs[i], i, hour, c)
  <2>1. NotAtIt(manual, ledger, runs[i], i, hour, inquiry)
    BY DEF EngineInv, Informed
  <2>. QED  BY <1>2, <1>3, <2>1 DEF NotAtIt
<1>. QED  BY <1>2, <1>3, <1>4, <1>5, AgentMoves

LEMMA EngineKeeps == ASSUME EngineInv, [E!Next]_(E!vars) PROVE EngineInv'
<1>1. CASE E!Mark
  BY <1>1, MarkKeeps
<1>2. ASSUME NEW j \in jobs, E!HoldBack(j) \/ E!RunJob(j) \/ E!Unmark(j) PROVE EngineInv'
  BY <1>2, HoldBackKeeps, RunJobKeeps, UnmarkKeeps
<1>3. CASE E!RunByHand
  BY <1>3, RunByHandKeeps
<1>4. ASSUME NEW i \in DOMAIN runs, E!Settle(i) \/ E!Dies(i) PROVE EngineInv'
  BY <1>4, SettleKeeps, DiesKeeps
<1>5. ASSUME NEW i \in DOMAIN runs, NEW ok \in BOOLEAN, E!Record(i, ok) PROVE EngineInv'
  BY <1>5, RecordKeeps
<1>6. ASSUME NEW force \in BOOLEAN, E!Call(force) PROVE EngineInv'
  BY <1>6, CallKeeps
<1>7. CASE E!Reach \/ E!LocalRunning \/ E!LocalLast \/ E!Decide \/ E!Unreachable \/ E!RunHere
  BY <1>7, ReachKeeps, LocalRunningKeeps, LocalLastKeeps, DecideKeeps, UnreachableKeeps, RunHereKeeps
<1>8. CASE E!Tick
  BY <1>8, EngineTickKeeps
<1>9. CASE UNCHANGED E!vars
  <2>1. UNCHANGED <<manual, hour, jobs, ledger, runs, inquiry>>
    BY <1>9 DEF E!vars
  <2>2. Tables' /\ Marked' /\ Informed'
    BY <2>1 DEF EngineInv, Tables, Marked, Informed
  <2>. QED  BY <2>2 DEF EngineInv
<1>. QED  BY <1>1, <1>2, <1>3, <1>4, <1>5, <1>6, <1>7, <1>8, <1>9 DEF E!Next

-----------------------------------------------------------------------------
LEMMA EngineMoves == ASSUME [ServeNext]_serveVars PROVE [E!Next]_(E!vars)
BY DEF ServeNext, serveVars, engineVars, E!vars

\* engine/status.go, cmd/qilla/engine.go: an agent host that is told to go on has been told
\* so by an engine that was not at the routine, or not by its tables (the page took the mark
\* off, the ledger lost the row), or its run had gone on for too long, and the
\* run it began then is none that the answer passed over.  For any length of the windows,
\* number of runs, and order of the engine's steps and the agent's.
THEOREM EngineIsNotAtItHolds == ServeSpec => []EngineIsNotAtIt
<1>1. ServeInit => EngineInv
  BY EngineInitHolds DEF ServeInit
<1>2. EngineInv /\ [ServeNext]_serveVars => EngineInv'
  BY EngineMoves, EngineKeeps
<1>3. EngineInv => EngineIsNotAtIt
  BY EngineImplies DEF EngineIsNotAtIt
<1>. QED  BY <1>1, <1>2, <1>3, PTL DEF ServeSpec

-----------------------------------------------------------------------------
(* The chat.                                                                *)

\* A set of numbers that is not empty has a least one.
LEMMA Smallest == ASSUME NEW T \in SUBSET Nat, T # {} PROVE \E m \in T : \A n \in T : m <= n
<1>1. IsWellFoundedOn(OpToRel(<, Nat), Nat)
  BY NatLessThanWellFounded
<1>2. PICK x \in T : \A y \in T : ~ (<<y, x>> \in OpToRel(<, Nat))
  BY <1>1, WFMin
<1>3. \A y \in T : ~ (y < x)
  BY <1>2 DEF OpToRel
<1>. QED  BY <1>3

\* Induction over the naturals, for a set.
LEMMA AllNaturals ==
    ASSUME NEW N \in SUBSET Nat, 0 \in N, \A n \in N : n + 1 \in N
    PROVE  N = Nat
<1>. SUFFICES ASSUME Nat \ N # {} PROVE FALSE
  OBVIOUS
<1>1. PICK m \in Nat \ N : \A n \in Nat \ N : m <= n
  BY Smallest
<1>2. m # 0 /\ m - 1 \in Nat /\ m - 1 \notin Nat \ N
  BY <1>1
<1>. QED  BY <1>1, <1>2


\* A function that adds v[i] at each place of K, up to n.
Adds(f, v, K, n) ==
    f = [i \in 0..n |-> IF i = 0 THEN <<>>
                        ELSE IF i \in K THEN Append(f[i - 1], v[i]) ELSE f[i - 1]]

LEMMA SomeAdds == ASSUME NEW v, NEW K, NEW n \in Nat PROVE \E f : Adds(f, v, K, n)
<1>. DEFINE N == {m \in Nat : \E f : Adds(f, v, K, m)}
<1>1. 0 \in N
  <2>. DEFINE f == [i \in 0..0 |-> <<>>]
  <2>1. Adds(f, v, K, 0)
    BY DEF Adds
  <2>. HIDE DEF f
  <2>. QED  BY <2>1
<1>2. ASSUME NEW m \in N PROVE m + 1 \in N
  <2>1. PICK f : Adds(f, v, K, m)
    OBVIOUS
  <2>. DEFINE at(h, i) == IF i = 0 THEN <<>>
                          ELSE IF i \in K THEN Append(h[i - 1], v[i]) ELSE h[i - 1]
              g == [i \in 0..(m + 1) |-> at(f, i)]
  <2>2. m \in Nat /\ m + 1 \in Nat
    OBVIOUS
  <2>3. f = [i \in 0..m |-> at(f, i)]
    BY <2>1 DEF Adds
  <2>4. \A i \in 0..m : i \in 0..(m + 1) /\ f[i] = at(f, i)
    <3>. HIDE DEF at
    <3>. QED  BY <2>2, <2>3
  <2>5. \A i \in 0..m : g[i] = f[i]
    <3>. HIDE DEF at
    <3>. QED  BY <2>4
  <2>6. \A i \in 0..(m + 1) : i # 0 => i - 1 \in 0..m
    BY <2>2
  <2>. HIDE DEF g
  <2>7. \A i \in 0..(m + 1) : at(f, i) = at(g, i)
    BY <2>5, <2>6
  <2>8. g = [i \in 0..(m + 1) |-> at(g, i)]
    <3>. HIDE DEF at
    <3>1. g = [i \in 0..(m + 1) |-> at(f, i)]
      BY DEF g
    <3>. QED  BY <2>7, <3>1
  <2>9. Adds(g, v, K, m + 1)
    BY <2>8 DEF Adds
  <2>. QED  BY <2>2, <2>9
<1>3. N \in SUBSET Nat
  OBVIOUS
<1>. HIDE DEF N
<1>4. N = Nat
  BY <1>1, <1>2, <1>3, AllNaturals
<1>. QED  BY <1>4 DEF N

\* What it has added up to m: the values at the places of K, and nothing else.
Added(t, v, K, V, m) ==
    /\ t \in Seq(V)
    /\ \A j \in 1..Len(t) : \E i \in 1..m : i \in K /\ t[j] = v[i]
    /\ \A i \in 1..m : i \in K => \E j \in 1..Len(t) : t[j] = v[i]

LEMMA AddsAdded ==
    ASSUME NEW f, NEW v, NEW K, NEW V, NEW n \in Nat, Adds(f, v, K, n),
           \A i \in 1..n : i \in K => v[i] \in V
    PROVE  Added(f[n], v, K, V, n)
<1>. DEFINE N == {m \in Nat : m <= n => Added(f[m], v, K, V, m)}
<1>1. \A i \in 0..n :
        f[i] = IF i = 0 THEN <<>> ELSE IF i \in K THEN Append(f[i - 1], v[i]) ELSE f[i - 1]
  BY DEF Adds
<1>2. 0 \in N
  <2>1. f[0] = <<>>
    BY <1>1
  <2>2. Added(<<>>, v, K, V, 0)
    BY DEF Added
  <2>. QED  BY <2>1, <2>2
<1>3. ASSUME NEW m \in N PROVE m + 1 \in N
  <2>. SUFFICES ASSUME m + 1 <= n PROVE Added(f[m + 1], v, K, V, m + 1)
    OBVIOUS
  <2>1. m \in Nat /\ m <= n /\ m + 1 \in 0..n /\ m + 1 \in 1..n /\ m + 1 # 0 /\ (m + 1) - 1 = m
    OBVIOUS
  <2>2. Added(f[m], v, K, V, m)
    BY <2>1
  <2>3. f[m + 1] = IF m + 1 \in K THEN Append(f[m], v[m + 1]) ELSE f[m]
    BY <1>1, <2>1
  <2>4. \A i \in 1..(m + 1) : i \in 1..m \/ i = m + 1
    BY <2>1
  <2>5. \A i \in 1..m : i \in 1..(m + 1)
    BY <2>1
  <2>6. m + 1 \in 1..(m + 1)
    BY <2>1
  <2>7. CASE m + 1 \notin K
    BY <2>2, <2>3, <2>4, <2>5, <2>7 DEF Added
  <2>8. CASE m + 1 \in K
    <3>. DEFINE t == f[m]
                u == Append(t, v[m + 1])
    <3>1. v[m + 1] \in V /\ t \in Seq(V) /\ Len(t) \in Nat
      BY <2>1, <2>2, <2>8, LenProperties DEF Added
    <3>2. u \in Seq(V) /\ Len(u) = Len(t) + 1 /\ u[Len(t) + 1] = v[m + 1]
          /\ \A j \in 1..Len(t) : u[j] = t[j]
      BY <3>1
    <3>. HIDE DEF u
    <3>3. \A j \in 1..Len(u) : j \in 1..Len(t) \/ j = Len(t) + 1
      BY <3>1, <3>2
    <3>4. Len(t) + 1 \in 1..Len(u) /\ \A j \in 1..Len(t) : j \in 1..Len(u)
      BY <3>1, <3>2
    <3>5. Added(t, v, K, V, m)
      BY <2>2
    <3>. HIDE DEF t
    <3>6. Added(u, v, K, V, m + 1)
      <4>1. ASSUME NEW j \in 1..Len(u) PROVE \E i \in 1..(m + 1) : i \in K /\ u[j] = v[i]
        <5>1. CASE j \in 1..Len(t)
          <6>1. PICK i \in 1..m : i \in K /\ t[j] = v[i]
            BY <3>5, <5>1 DEF Added
          <6>. QED  BY <2>5, <3>2, <5>1, <6>1
        <5>2. CASE j = Len(t) + 1
          BY <2>6, <2>8, <3>2, <5>2
        <5>. QED  BY <3>3, <5>1, <5>2
      <4>2. ASSUME NEW i \in 1..(m + 1), i \in K PROVE \E j \in 1..Len(u) : u[j] = v[i]
        <5>1. CASE i \in 1..m
          <6>1. PICK j \in 1..Len(t) : t[j] = v[i]
            BY <3>5, <4>2, <5>1 DEF Added
          <6>. QED  BY <3>2, <3>4, <6>1
        <5>2. CASE i = m + 1
          BY <3>2, <3>4, <5>2
        <5>. QED  BY <2>4, <5>1, <5>2
      <4>. QED  BY <3>2, <4>1, <4>2 DEF Added
    <3>7. f[m + 1] = u
      BY <2>3, <2>8 DEF u, t
    <3>. QED  BY <3>6, <3>7
  <2>. QED  BY <2>7, <2>8
<1>4. N \in SUBSET Nat
  OBVIOUS
<1>. HIDE DEF N
<1>5. N = Nat
  BY <1>2, <1>3, <1>4, AllNaturals
<1>. QED  BY <1>5 DEF N

\* The turns of some halves, one after the other, are those of the halves.
LEMMA ParsedAre ==
    ASSUME NEW halves \in Seq(F!Token)
    PROVE  /\ F!Parsed(halves) \in Seq(F!Turns)
           /\ \A i \in F!TurnsAt(halves) :
                \E j \in 1..Len(F!Parsed(halves)) : F!Parsed(halves)[j] = halves[i].turn
<1>. DEFINE K == F!TurnsAt(halves)
            v == [i \in 1..Len(halves) |-> halves[i].turn]
            n == Len(halves)
            f == CHOOSE g : Adds(g, v, K, n)
<1>1. n \in Nat /\ \A i \in 1..n : halves[i] \in F!Token
  OBVIOUS
<1>2. \A i \in 1..n : v[i] = halves[i].turn /\ v[i] \in F!Turns
  BY <1>1 DEF F!Token
<1>3. K \subseteq 1..n
  BY <1>1 DEF F!TurnsAt
<1>4. F!Parsed(halves) = f[n]
  <2>. DEFINE P(g) == g = [i \in 0..n |-> IF i = 0 THEN <<>>
                              ELSE IF i \in K THEN Append(g[i - 1], halves[i].turn) ELSE g[i - 1]]
  <2>1. ASSUME NEW g PROVE P(g) <=> Adds(g, v, K, n)
    <3>1. \A i \in 0..n : i \in K => v[i] = halves[i].turn
      BY <1>2, <1>3
    <3>2. [i \in 0..n |-> IF i = 0 THEN <<>>
                          ELSE IF i \in K THEN Append(g[i - 1], halves[i].turn) ELSE g[i - 1]]
        = [i \in 0..n |-> IF i = 0 THEN <<>>
                          ELSE IF i \in K THEN Append(g[i - 1], v[i]) ELSE g[i - 1]]
      <4>. HIDE DEF K, v, n
      <4>. QED  BY <3>1
    <3>. HIDE DEF K, v, n
    <3>. QED  BY <3>2 DEF Adds
  <2>2. (CHOOSE g : P(g)) = (CHOOSE g : Adds(g, v, K, n))
    <3>. HIDE DEF P, K, v, n
    <3>. QED  BY <2>1
  <2>3. F!Parsed(halves) = (CHOOSE g : P(g))[n]
    BY DEF F!Parsed
  <2>. HIDE DEF P, K, v, n
  <2>. QED  BY <2>2, <2>3
<1>5. Adds(f, v, K, n)
  <2>. HIDE DEF K, v, n
  <2>. QED  BY <1>1, SomeAdds
<1>6. \A i \in 1..n : i \in K => v[i] \in F!Turns
  BY <1>2
<1>7. Added(f[n], v, K, F!Turns, n)
  <2>. HIDE DEF f, K, v, n
  <2>. QED  BY <1>1, <1>5, <1>6, AddsAdded
<1>. DEFINE t == f[n]
<1>8. t \in Seq(F!Turns) /\ \A i \in K : \E j \in 1..Len(t) : t[j] = halves[i].turn
  <2>1. Added(t, v, K, F!Turns, n)
    BY <1>7
  <2>. HIDE DEF t, K, v, n
  <2>2. \A i \in K : i \in 1..n
    BY <1>3
  <2>. QED  BY <1>2, <2>1, <2>2 DEF Added
<1>9. F!Parsed(halves) = t
  BY <1>4
<1>. HIDE DEF t
<1>. QED  BY <1>8, <1>9


Answer == [turns : SUBSET F!Turns, amiss : BOOLEAN]
Cursor == [sid : 0..2, off : 0..(2 * MaxTurn), rest : Seq(F!Token)]
Page == [on : BOOLEAN, queue : Seq(F!Turns), shown : SUBSET F!Turns, reload : BOOLEAN,
         loads : Seq(Answer), stale : BOOLEAN]

\* Halves begin and end lines in turn; there are two of each line at most.
Alternate(s, lines) ==
    /\ s \in Seq(F!Token) /\ Len(s) + (Len(s) % 2) <= 2 * lines
    /\ \A i \in 1..Len(s) : s[i].end <=> i % 2 = 0

ChatTyped ==
    /\ chatSid \in F!Sessions /\ written \in 0..MaxTurn
    /\ DOMAIN file = F!Sessions /\ file = [s \in F!Sessions |-> file[s]]
    /\ \A s \in F!Sessions : Alternate(file[s], written)
    /\ chatSid = 1 => file[2] = <<>>
    /\ cursor \in Cursor /\ cursor.sid <= chatSid
    /\ recent \in Seq(F!Turns) /\ Len(recent) <= Replay
    /\ page \in Page /\ Len(page.loads) <= MaxLoads
    /\ events \in 0..MaxEvents /\ rewound \in BOOLEAN /\ excused \subseteq F!Turns

\* The cursor holds half a line, or nothing.
HalfHeld ==
    cursor.rest # <<>> => Len(cursor.rest) = 1 /\ cursor.off % 2 = 1 /\ ~cursor.rest[1].end

\* The cursor is in the file, and what it holds is what it has read last, unless it was put
\* in the middle of that line.
InFile(f, c, x) ==
    /\ c.off <= Len(f)
    /\ c.rest # <<>> => c.rest[1] = f[c.off]
    /\ c.off % 2 = 1 /\ c.rest = <<>> => f[c.off].turn \in x

\* A turn behind the cursor is on the page, or will be with the newest history; or the
\* answer that arrives last is an overtaken one.
Arrives(p, t) ==
    IF p.loads = <<>> THEN p.stale \/ t \in p.shown
    ELSE p.loads[Len(p.loads)].amiss \/ t \in p.loads[Len(p.loads)].turns
Reaches(f, c, p, x) ==
    p.on /\ ~p.reload /\ p.queue = <<>> =>
      \A i \in F!NewestAt(f) : i <= c.off => f[i].turn \in x \/ Arrives(p, f[i].turn)

ChatInv ==
    /\ ChatTyped /\ HalfHeld
    /\ ~rewound /\ cursor.sid = chatSid =>
         InFile(file[chatSid], cursor, excused) /\ Reaches(file[chatSid], cursor, page, excused)

LEMMA ChatImplies == ASSUME ChatInv PROVE F!TypeOK /\ F!QuietPageIsComplete
<1>1. F!TypeOK
  <2>1. file \in [F!Sessions -> Seq(F!Token)]
    BY DEF ChatInv, ChatTyped, Alternate
  <2>. QED  BY <2>1 DEF ChatInv, ChatTyped, Cursor, Page, F!TypeOK, F!Sessions
<1>2. F!QuietPageIsComplete
  <2>. SUFFICES ASSUME F!Quiet, ~page.stale, ~rewound, NEW i \in F!NewestAt(file[chatSid])
       PROVE  file[chatSid][i].turn \in page.shown \cup excused
    BY DEF F!QuietPageIsComplete, F!NewestTurns
  <2>1. Reaches(file[chatSid], cursor, page, excused) /\ i <= cursor.off
    <3>1. cursor.sid = chatSid /\ cursor.off = Len(file[chatSid])
      BY DEF F!Quiet
    <3>2. file[chatSid] \in Seq(F!Token)
      BY DEF ChatInv, ChatTyped, Alternate
    <3>3. i \in 2..Len(file[chatSid])
      BY DEF F!NewestAt, F!TurnsAt
    <3>. QED  BY <3>1, <3>2, <3>3 DEF ChatInv
  <2>. QED  BY <2>1 DEF Reaches, Arrives, F!Quiet
<1>. QED  BY <1>1, <1>2

LEMMA ChatStarts == ASSUME F!Init PROVE ChatInv
<1>1. /\ 0 \in 0..MaxTurn /\ 0 \in 0..(2 * MaxTurn) /\ 0 \in 0..MaxEvents /\ Replay \in Nat /\ MaxLoads \in Nat
  BY ChatAssumption
<1>2. <<>> \in Seq(F!Token) /\ <<>> \in Seq(F!Turns) /\ <<>> \in Seq(Answer) /\ Len(<<>>) = 0
  OBVIOUS
<1>3. cursor = F!NoCursor /\ page = F!Unplugged /\ recent = <<>> /\ chatSid = 1 /\ written = 0
      /\ events = 0 /\ rewound = FALSE /\ excused = {}
  BY DEF F!Init
<1>4. F!NoCursor \in Cursor /\ F!NoCursor.sid = 0 /\ F!NoCursor.rest = <<>>
  BY <1>1, <1>2 DEF F!NoCursor, Cursor
<1>5. F!Unplugged \in Page /\ F!Unplugged.loads = <<>>
  BY <1>2 DEF F!Unplugged, Page
<1>6. file = [s \in F!Sessions |-> <<>>]
  BY DEF F!Init
<1>7. Alternate(<<>>, 0)
  BY <1>2 DEF Alternate
<1>8. /\ DOMAIN file = F!Sessions /\ file = [s \in F!Sessions |-> file[s]]
      /\ \A s \in F!Sessions : file[s] = <<>>
  BY <1>6
<1>9. \A s \in F!Sessions : Alternate(file[s], written)
  BY <1>3, <1>7, <1>8
<1>10. 1 \in F!Sessions /\ 2 \in F!Sessions /\ 0 <= 1
  BY DEF F!Sessions
<1>11. cursor \in Cursor /\ cursor.sid <= chatSid /\ page \in Page /\ Len(page.loads) <= MaxLoads
  BY <1>1, <1>2, <1>3, <1>4, <1>5, <1>10
<1>12. recent \in Seq(F!Turns) /\ Len(recent) <= Replay
  BY <1>1, <1>2, <1>3
<1>13. ChatTyped
  BY <1>1, <1>3, <1>8, <1>9, <1>10, <1>11, <1>12 DEF ChatTyped
<1>. QED  BY <1>3, <1>4, <1>13 DEF ChatInv, HalfHeld

-----------------------------------------------------------------------------
(* Its steps.                                                               *)

LEMMA LiveIs ==
    ASSUME ChatInv
    PROVE  /\ chatSid \in F!Sessions /\ file[chatSid] \in Seq(F!Token) /\ Len(file[chatSid]) \in Nat
           /\ Alternate(file[chatSid], written) /\ Len(file[chatSid]) <= 2 * MaxTurn
           /\ written \in 0..MaxTurn /\ MaxTurn \in Nat
<1>1. chatSid \in F!Sessions /\ Alternate(file[chatSid], written) /\ written \in 0..MaxTurn
  BY DEF ChatInv, ChatTyped
<1>2. file[chatSid] \in Seq(F!Token) /\ Len(file[chatSid]) \in Nat
  BY <1>1, LenProperties DEF Alternate
<1>3. Len(file[chatSid]) <= 2 * MaxTurn
  <2>. DEFINE n == Len(file[chatSid])
  <2>0. n + (n % 2) <= 2 * written
    BY <1>1 DEF Alternate
  <2>1. n \in Nat /\ n + (n % 2) <= 2 * written /\ written \in Nat /\ written <= MaxTurn /\ MaxTurn \in Nat
    <3>. HIDE DEF n
    <3>1. n \in Nat
      BY <1>2 DEF n
    <3>. QED  BY <1>1, <2>0, <3>1, ChatAssumption
  <2>. HIDE DEF n
  <2>2. n % 2 \in 0..1
    BY <2>1
  <2>3. n <= 2 * MaxTurn
    BY <2>1, <2>2
  <2>. QED  BY <2>3 DEF n
<1>. QED  BY <1>1, <1>2, <1>3, ChatAssumption

\* A step that changes the page only.
LEMMA PageMoves ==
    ASSUME ChatInv, page' \in Page, Len(page'.loads) <= MaxLoads,
           UNCHANGED <<chatSid, file, written, cursor, recent, events, rewound, excused>>,
           ~rewound /\ cursor.sid = chatSid /\ Reaches(file[chatSid], cursor, page, excused) =>
             Reaches(file[chatSid], cursor, page', excused)
    PROVE  ChatInv'
<1>1. ChatTyped'
  BY DEF ChatInv, ChatTyped
<1>2. HalfHeld'
  BY DEF ChatInv, HalfHeld
<1>. QED  BY <1>1, <1>2 DEF ChatInv

LEMMA SubscribeKeeps == ASSUME ChatInv, F!Subscribe PROVE ChatInv'
<1>1. page \in Page /\ Len(page.loads) <= MaxLoads /\ recent \in Seq(F!Turns)
  BY DEF ChatInv, ChatTyped
<1>2. page' = [page EXCEPT !.on = TRUE, !.queue = recent, !.reload = TRUE]
  BY DEF F!Subscribe
<1>3. page' \in Page /\ page'.reload /\ Len(page'.loads) <= MaxLoads
  BY <1>1, <1>2 DEF Page
<1>. QED  BY <1>3, PageMoves DEF F!Subscribe, Reaches

LEMMA OnMessageKeeps == ASSUME ChatInv, F!OnMessage PROVE ChatInv'
<1>1. page \in Page /\ Len(page.loads) <= MaxLoads /\ page.queue \in Seq(F!Turns) /\ page.queue # <<>>
  BY DEF ChatInv, ChatTyped, Page, F!OnMessage
<1>2. Tail(page.queue) \in Seq(F!Turns) /\ Head(page.queue) \in F!Turns
  BY <1>1
<1>3. page' = [page EXCEPT !.queue = Tail(page.queue), !.shown = page.shown \cup {Head(page.queue)},
                           !.reload = TRUE]
  BY DEF F!OnMessage, F!Received
<1>4. page' \in Page /\ page'.reload /\ Len(page'.loads) <= MaxLoads
  BY <1>1, <1>2, <1>3 DEF Page
<1>. QED  BY <1>4, PageMoves DEF F!OnMessage, Reaches

LEMMA HistoryLoadKeeps == ASSUME ChatInv, F!Load PROVE ChatInv'
<1>0. PICK readable \in BOOLEAN :
        page' = [page EXCEPT
                   !.reload = FALSE,
                   !.loads = Append(page.loads,
                                    [turns |-> IF readable THEN F!NewestTurns(file[chatSid]) ELSE {},
                                     amiss |-> ~readable])]
  BY DEF F!Load
<1>. DEFINE f == file[chatSid]
            a == [turns |-> IF readable THEN F!NewestTurns(f) ELSE {}, amiss |-> ~readable]
<1>1. page \in Page /\ page.loads \in Seq(Answer) /\ Len(page.loads) < MaxLoads
      /\ Len(page.loads) \in Nat /\ MaxLoads \in Nat
  BY ChatAssumption DEF ChatInv, ChatTyped, Page, F!Load
<1>2. a \in Answer
  <2>1. \A i \in F!NewestAt(f) : f[i].turn \in F!Turns
    <3>1. f \in Seq(F!Token) /\ F!NewestAt(f) \subseteq 1..Len(f)
      BY LiveIs DEF F!NewestAt, F!TurnsAt
    <3>2. \A i \in 1..Len(f) : f[i] \in F!Token
      BY <3>1
    <3>. QED  BY <3>1, <3>2 DEF F!Token
  <2>. QED  BY <2>1 DEF F!NewestTurns, Answer
<1>. HIDE DEF a
<1>3. page' = [page EXCEPT !.reload = FALSE, !.loads = Append(page.loads, a)]
  BY <1>0 DEF a
<1>4. /\ Append(page.loads, a) \in Seq(Answer) /\ Len(Append(page.loads, a)) = Len(page.loads) + 1
      /\ Append(page.loads, a) # <<>> /\ Append(page.loads, a)[Len(page.loads) + 1] = a
  BY <1>1, <1>2
<1>5. page' \in Page /\ Len(page'.loads) <= MaxLoads
  <2>1. page' \in Page /\ page'.loads = Append(page.loads, a)
    BY <1>1, <1>3, <1>4 DEF Page
  <2>2. Len(page.loads) + 1 <= MaxLoads
    BY <1>1
  <2>. QED  BY <1>4, <2>1, <2>2
<1>6. /\ page'.loads # <<>>
      /\ page'.loads[Len(page'.loads)].amiss \/ page'.loads[Len(page'.loads)].turns = F!NewestTurns(f)
  <2>1. page'.loads = Append(page.loads, a)
    BY <1>1, <1>3 DEF Page
  <2>2. page'.loads # <<>> /\ page'.loads[Len(page'.loads)] = a
    BY <1>4, <2>1
  <2>3. a.amiss \/ a.turns = F!NewestTurns(f)
    BY DEF a
  <2>. QED  BY <2>2, <2>3
<1>7. Reaches(f, cursor, page', excused)
  BY <1>6 DEF Reaches, Arrives, F!NewestTurns
<1>8. UNCHANGED <<chatSid, file, written, cursor, recent, events, rewound, excused>>
  BY DEF F!Load
<1>. HIDE DEF f
<1>. QED  BY <1>5, <1>7, <1>8, PageMoves DEF f

LEMMA LoadedKeeps == ASSUME ChatInv, NEW i \in 1..MaxLoads, F!Loaded(i) PROVE ChatInv'
<1>. DEFINE n == Len(page.loads)
            rest == [k \in 1..(n - 1) |-> IF k < i THEN [page.loads[k] EXCEPT !.amiss = TRUE]
                                         ELSE page.loads[k + 1]]
<1>1. page \in Page /\ page.loads \in Seq(Answer) /\ n \in Nat /\ n <= MaxLoads /\ i \in 1..n
      /\ MaxLoads \in Nat
  BY ChatAssumption DEF ChatInv, ChatTyped, Page, F!Loaded
<1>2. \A k \in 1..n : page.loads[k] \in Answer
  BY <1>1
<1>3. \A k \in 1..(n - 1) : k \in 1..n /\ k + 1 \in 1..n
  BY <1>1
<1>4. \A k \in 1..(n - 1) : /\ [page.loads[k] EXCEPT !.amiss = TRUE] \in Answer
                           /\ [page.loads[k] EXCEPT !.amiss = TRUE].amiss
  BY <1>2, <1>3 DEF Answer
<1>5. \A k \in 1..(n - 1) :
        rest[k] = IF k < i THEN [page.loads[k] EXCEPT !.amiss = TRUE] ELSE page.loads[k + 1]
  OBVIOUS
<1>6. n - 1 \in Nat /\ rest \in [1..(n - 1) -> Answer]
  BY <1>1, <1>2, <1>3, <1>4
<1>7. rest \in Seq(Answer) /\ Len(rest) = n - 1 /\ (rest = <<>> <=> n = 1)
  <2>. HIDE DEF rest
  <2>1. rest \in Seq(Answer) /\ Len(rest) = n - 1
    BY <1>6
  <2>2. rest = <<>> <=> Len(rest) = 0
    BY <2>1, EmptySeq
  <2>. QED  BY <1>1, <2>1, <2>2
<1>8. page' = [page EXCEPT !.shown = page.loads[i].turns, !.stale = page.loads[i].amiss, !.loads = rest]
  BY DEF F!Loaded
<1>. HIDE DEF rest
<1>9. page.loads[i].turns \subseteq F!Turns /\ page.loads[i].amiss \in BOOLEAN
  BY <1>1, <1>2 DEF Answer
<1>10. page' \in Page /\ Len(page'.loads) <= MaxLoads /\ page'.loads = rest
       /\ page'.on = page.on /\ page'.queue = page.queue /\ page'.reload = page.reload
       /\ page'.shown = page.loads[i].turns /\ page'.stale = page.loads[i].amiss
  <2>1. page' \in Page /\ page'.loads = rest
       /\ page'.on = page.on /\ page'.queue = page.queue /\ page'.reload = page.reload
       /\ page'.shown = page.loads[i].turns /\ page'.stale = page.loads[i].amiss
    BY <1>1, <1>7, <1>8, <1>9 DEF Page
  <2>2. n - 1 <= MaxLoads
    BY <1>1
  <2>. QED  BY <1>7, <2>1, <2>2
<1>11. page.loads # <<>>
  BY <1>1
<1>12. ASSUME NEW t, Arrives(page, t) PROVE Arrives(page', t)
  <2>1. page.loads[n].amiss \/ t \in page.loads[n].turns
    BY <1>11, <1>12 DEF Arrives
  <2>2. CASE n = 1
    BY <1>1, <1>7, <1>10, <2>1, <2>2 DEF Arrives
  <2>3. CASE n # 1 /\ i = n
    <3>1. n - 1 \in 1..(n - 1) /\ n - 1 < i
      <4>1. n \in Nat /\ i \in 1..n
        BY <1>1
      <4>. HIDE DEF n
      <4>. QED  BY <2>3, <4>1
    <3>2. rest[n - 1].amiss
      BY <1>4, <1>5, <3>1
    <3>. QED  BY <1>7, <1>10, <2>3, <3>2 DEF Arrives
  <2>4. CASE n # 1 /\ i # n
    <3>1. n - 1 \in 1..(n - 1) /\ ~(n - 1 < i) /\ (n - 1) + 1 = n
      BY <1>1, <2>4
    <3>2. rest[n - 1] = page.loads[n]
      BY <1>5, <3>1
    <3>. QED  BY <1>7, <1>10, <2>1, <2>4, <3>2 DEF Arrives
  <2>. QED  BY <2>2, <2>3, <2>4
<1>13. Reaches(file[chatSid], cursor, page, excused) => Reaches(file[chatSid], cursor, page', excused)
  BY <1>10, <1>12 DEF Reaches
<1>. QED  BY <1>10, <1>13, PageMoves DEF F!Loaded

\* A step that changes the transcripts only.
LEMMA FilesMove ==
    ASSUME ChatInv, UNCHANGED <<cursor, recent, page, excused>>,
           chatSid' \in F!Sessions, chatSid <= chatSid', written' \in 0..MaxTurn,
           file' = [s \in F!Sessions |-> file'[s]], DOMAIN file' = F!Sessions,
           \A s \in F!Sessions : Alternate(file'[s], written'),
           chatSid' = 1 => file'[2] = <<>>,
           events' \in 0..MaxEvents, rewound' \in BOOLEAN,
           ~rewound' /\ cursor.sid = chatSid' =>
             InFile(file'[chatSid'], cursor, excused) /\ Reaches(file'[chatSid'], cursor, page, excused)
    PROVE  ChatInv'
<1>1. cursor.sid <= chatSid'
  <2>1. cursor.sid \in 0..2 /\ cursor.sid <= chatSid /\ chatSid \in 1..2 /\ chatSid' \in 1..2
    BY DEF ChatInv, ChatTyped, Cursor, F!Sessions
  <2>. QED  BY <2>1
<1>2. ChatTyped'
  BY <1>1 DEF ChatInv, ChatTyped
<1>3. HalfHeld'
  BY DEF ChatInv, HalfHeld
<1>. QED  BY <1>2, <1>3 DEF ChatInv

LEMMA RewindKeeps == ASSUME ChatInv, NEW n \in 0..(2 * MaxTurn), F!Rewind(n) PROVE ChatInv'
<1>. DEFINE f == file[chatSid]
<1>1. /\ chatSid \in F!Sessions /\ f \in Seq(F!Token) /\ Len(f) \in Nat /\ Alternate(f, written)
      /\ written \in 0..MaxTurn /\ MaxTurn \in Nat
  BY LiveIs
<1>2. file' = [file EXCEPT ![chatSid] = SubSeq(f, 1, n)] /\ n < Len(f) /\ (n > 0 => f[n].end)
      /\ rewound' = TRUE /\ UNCHANGED <<chatSid, written, cursor, recent, page, excused>>
      /\ events < MaxEvents /\ events' = events + 1
  BY DEF F!Rewind
<1>3. n \in Nat /\ n <= Len(f)
  BY <1>1, <1>2
<1>4. /\ SubSeq(f, 1, n) \in Seq(F!Token) /\ Len(SubSeq(f, 1, n)) = n
      /\ \A i \in 1..n : SubSeq(f, 1, n)[i] = f[i]
  <2>. HIDE DEF f
  <2>. QED  BY <1>1, <1>3
<1>5. Alternate(SubSeq(f, 1, n), written)
  <2>. DEFINE s == SubSeq(f, 1, n)
  <2>1. n % 2 = 0
    <3>1. CASE n = 0
      BY <3>1
    <3>2. CASE n > 0
      <4>1. n \in 1..Len(f)
        BY <1>1, <1>3, <3>2
      <4>. QED  BY <1>1, <1>2, <3>2, <4>1 DEF Alternate
    <3>. QED  BY <1>3, <3>1, <3>2
  <2>2. n + 0 <= 2 * written
    <3>1. Len(f) + (Len(f) % 2) <= 2 * written
      BY <1>1 DEF Alternate
    <3>2. Len(f) % 2 \in 0..1
      <4>. HIDE DEF f
      <4>. QED  BY <1>1
    <3>. HIDE DEF f
    <3>. QED  BY <1>1, <1>3, <3>1, <3>2
  <2>3. \A i \in 1..n : i \in 1..Len(f)
    <3>. HIDE DEF f
    <3>. QED  BY <1>1, <1>3
  <2>4. \A i \in 1..n : s[i].end <=> i % 2 = 0
    BY <1>1, <1>4, <2>3 DEF Alternate
  <2>5. Len(s) + (Len(s) % 2) <= 2 * written
    <3>. HIDE DEF s
    <3>. QED  BY <1>4, <2>1, <2>2 DEF s
  <2>. QED  BY <1>4, <2>4, <2>5 DEF Alternate
<1>6. /\ file' = [s \in F!Sessions |-> file'[s]] /\ DOMAIN file' = F!Sessions
      /\ \A s \in F!Sessions : Alternate(file'[s], written')
      /\ chatSid' = 1 => file'[2] = <<>>
  <2>1. /\ DOMAIN file = F!Sessions /\ \A s \in F!Sessions : Alternate(file[s], written)
        /\ chatSid = 1 => file[2] = <<>>
    BY DEF ChatInv, ChatTyped
  <2>2. 2 \in F!Sessions
    BY DEF F!Sessions
  <2>. DEFINE g == SubSeq(f, 1, n)
  <2>3. file' = [file EXCEPT ![chatSid] = g] /\ Alternate(g, written)
    BY <1>2, <1>5
  <2>. HIDE DEF f, g
  <2>4. DOMAIN file' = F!Sessions /\ file' = [s \in F!Sessions |-> file'[s]]
    BY <2>1, <2>3
  <2>5. \A s \in F!Sessions : file'[s] = IF s = chatSid THEN g ELSE file[s]
    BY <2>1, <2>3
  <2>6. \A s \in F!Sessions : Alternate(file'[s], written')
    BY <1>2, <2>1, <2>3, <2>5
  <2>7. chatSid' = 1 => file'[2] = <<>>
    BY <1>2, <2>1, <2>2, <2>5
  <2>. QED  BY <2>4, <2>6, <2>7
<1>7. events' \in 0..MaxEvents
  BY <1>2, ChatAssumption DEF ChatInv, ChatTyped
<1>8. chatSid <= chatSid'
  BY <1>1, <1>2 DEF F!Sessions
<1>. QED  BY <1>1, <1>2, <1>6, <1>7, <1>8, FilesMove

LEMMA RotateKeeps == ASSUME ChatInv, F!Rotate PROVE ChatInv'
<1>1. chatSid = 1 /\ chatSid' = 2 /\ UNCHANGED <<file, written, cursor, recent, page, rewound, excused>>
      /\ events < MaxEvents /\ events' = events + 1
  BY DEF F!Rotate
<1>2. /\ file = [s \in F!Sessions |-> file[s]] /\ DOMAIN file = F!Sessions
      /\ \A s \in F!Sessions : Alternate(file[s], written)
      /\ cursor.sid <= 1 /\ cursor.sid \in 0..2 /\ written \in 0..MaxTurn /\ rewound \in BOOLEAN
  BY <1>1 DEF ChatInv, ChatTyped, Cursor
<1>3. events' \in 0..MaxEvents
  BY <1>1, ChatAssumption DEF ChatInv, ChatTyped
<1>4. 2 \in F!Sessions /\ 1 <= 2 /\ cursor.sid # 2
  BY <1>2 DEF F!Sessions
<1>. QED  BY <1>1, <1>2, <1>3, <1>4, FilesMove

LEMMA ChatCounts == ASSUME NEW T PROVE F!Cardinality(T) = Cardinality(T)
BY DEF F!Cardinality, Cardinality

\* One half more.
LEMMA HalfMore ==
    ASSUME NEW f, NEW m \in Nat, Alternate(f, m), NEW h \in F!Token, NEW n \in Nat, m <= n,
           h.end <=> (Len(f) + 1) % 2 = 0,
           Len(f) + 1 + ((Len(f) + 1) % 2) <= 2 * n
    PROVE  /\ Alternate(Append(f, h), n) /\ Len(Append(f, h)) = Len(f) + 1 /\ Len(f) \in Nat
           /\ \A i \in 1..Len(f) : Append(f, h)[i] = f[i]
           /\ \A i \in F!NewestAt(Append(f, h)) : i <= Len(f) => i \in F!NewestAt(f)
<1>. DEFINE g == Append(f, h)
<1>1. f \in Seq(F!Token) /\ Len(f) \in Nat
  BY LenProperties DEF Alternate
<1>2. /\ g \in Seq(F!Token) /\ Len(g) = Len(f) + 1 /\ g[Len(f) + 1] = h
      /\ \A i \in 1..Len(f) : g[i] = f[i]
  BY <1>1
<1>. HIDE DEF g
<1>3. \A i \in 1..Len(g) : i \in 1..Len(f) \/ i = Len(f) + 1
  BY <1>1, <1>2
<1>4. \A i \in 1..Len(g) : g[i].end <=> i % 2 = 0
  <2>1. ASSUME NEW i \in 1..Len(f) PROVE g[i].end <=> i % 2 = 0
    BY <1>2 DEF Alternate
  <2>. QED  BY <1>2, <1>3, <2>1
<1>5. Alternate(g, n)
  BY <1>2, <1>4 DEF Alternate
<1>6. ASSUME NEW i \in F!TurnsAt(g), i <= Len(f) PROVE i \in F!TurnsAt(f)
  <2>1. i \in 2..Len(g) /\ i \in 1..Len(f) /\ i - 1 \in 1..Len(f) /\ i \in 2..Len(f)
    BY <1>1, <1>2, <1>6 DEF F!TurnsAt
  <2>2. g[i] = f[i] /\ g[i - 1] = f[i - 1]
    BY <1>2, <2>1
  <2>. QED  BY <2>1, <2>2, <1>6 DEF F!TurnsAt
<1>7. F!TurnsAt(f) \subseteq F!TurnsAt(g)
  <2>. SUFFICES ASSUME NEW i \in F!TurnsAt(f) PROVE i \in F!TurnsAt(g)
    OBVIOUS
  <2>0. i \in 2..Len(f)
    BY DEF F!TurnsAt
  <2>1. i \in 1..Len(f) /\ i - 1 \in 1..Len(f) /\ i \in 2..Len(g)
    BY <1>1, <1>2, <2>0
  <2>2. g[i] = f[i] /\ g[i - 1] = f[i - 1]
    BY <1>2, <2>1
  <2>. QED  BY <2>1, <2>2 DEF F!TurnsAt
<1>8. ASSUME NEW i \in F!NewestAt(g), i <= Len(f) PROVE i \in F!NewestAt(f)
  <2>. DEFINE After(s) == {j \in F!TurnsAt(s) : j > i}
  <2>1. i \in F!TurnsAt(g) /\ Cardinality(After(g)) < PageTurns
    BY <1>8, ChatCounts DEF F!NewestAt
  <2>2. IsFiniteSet(After(g)) /\ After(f) \subseteq After(g)
    <3>1. After(g) \subseteq 1..Len(g)
      BY <1>1, <1>2 DEF F!TurnsAt
    <3>2. 1 \in Int /\ Len(g) \in Int
      BY <1>1, <1>2
    <3>3. IsFiniteSet(1..Len(g))
      BY <3>2, FS_Interval
    <3>4. After(f) \subseteq After(g)
      BY <1>7
    <3>. HIDE DEF After
    <3>. QED  BY <3>1, <3>3, <3>4, FS_Subset
  <2>3. Cardinality(After(f)) <= Cardinality(After(g)) /\ Cardinality(After(f)) \in Nat
        /\ Cardinality(After(g)) \in Nat
    <3>. HIDE DEF After
    <3>. QED  BY <2>2, FS_Subset, FS_CardinalityType
  <2>4. Cardinality(After(f)) < PageTurns
    <3>. HIDE DEF After
    <3>. QED  BY <2>1, <2>3, ChatAssumption
  <2>5. i \in F!TurnsAt(f) /\ F!Cardinality({j \in F!TurnsAt(f) : j > i}) < PageTurns
    BY <1>6, <1>8, <2>1, <2>4, ChatCounts
  <2>. QED  BY <2>5 DEF F!NewestAt
<1>. QED  BY <1>1, <1>2, <1>5, <1>8 DEF g

LEMMA GrowKeeps ==
    ASSUME ChatInv, NEW h \in F!Token, NEW n \in 0..MaxTurn, written <= n,
           h.end <=> (Len(file[chatSid]) + 1) % 2 = 0,
           Len(file[chatSid]) + 1 + ((Len(file[chatSid]) + 1) % 2) <= 2 * n,
           file' = [file EXCEPT ![chatSid] = Append(file[chatSid], h)], written' = n,
           UNCHANGED <<chatSid, cursor, recent, page, events, rewound, excused>>
    PROVE  ChatInv'
<1>. DEFINE f == file[chatSid]
            g == Append(f, h)
<1>1. /\ chatSid \in F!Sessions /\ f \in Seq(F!Token) /\ Len(f) \in Nat /\ Alternate(f, written)
      /\ written \in Nat /\ n \in Nat
  BY LiveIs
<1>2. /\ Alternate(g, n) /\ Len(g) = Len(f) + 1
      /\ \A i \in 1..Len(f) : g[i] = f[i]
      /\ \A i \in F!NewestAt(g) : i <= Len(f) => i \in F!NewestAt(f)
  <2>1. /\ h.end <=> (Len(f) + 1) % 2 = 0
        /\ Len(f) + 1 + ((Len(f) + 1) % 2) <= 2 * n
    OBVIOUS
  <2>. HIDE DEF f
  <2>. QED  BY <1>1, <2>1, HalfMore
<1>3. file' = [file EXCEPT ![chatSid] = g]
  OBVIOUS
<1>4. /\ DOMAIN file = F!Sessions /\ \A s \in F!Sessions : Alternate(file[s], written)
      /\ chatSid = 1 => file[2] = <<>>
      /\ cursor \in Cursor /\ events \in 0..MaxEvents /\ rewound \in BOOLEAN
  BY DEF ChatInv, ChatTyped
<1>5. 2 \in F!Sessions /\ chatSid <= chatSid
  BY <1>1 DEF F!Sessions
<1>6. file'[chatSid] = g /\ \A s \in F!Sessions : s # chatSid => file'[s] = file[s]
  <2>. HIDE DEF f, g
  <2>. QED  BY <1>1, <1>3, <1>4
<1>7. DOMAIN file' = F!Sessions /\ file' = [s \in F!Sessions |-> file'[s]]
  <2>. HIDE DEF f, g
  <2>. QED  BY <1>3, <1>4
<1>8. \A s \in F!Sessions : Alternate(file'[s], n)
  <2>. SUFFICES ASSUME NEW s \in F!Sessions, s # chatSid PROVE Alternate(file[s], n)
    BY <1>2, <1>6
  <2>1. file[s] \in Seq(F!Token) /\ Len(file[s]) \in Nat
        /\ Len(file[s]) + (Len(file[s]) % 2) <= 2 * written
        /\ \A i \in 1..Len(file[s]) : file[s][i].end <=> i % 2 = 0
    BY <1>4 DEF Alternate
  <2>2. Len(file[s]) + (Len(file[s]) % 2) <= 2 * n
    <3>. DEFINE l == Len(file[s])
    <3>1. l \in Nat /\ l % 2 \in 0..1 /\ l + (l % 2) <= 2 * written
          /\ written \in Nat /\ n \in Nat /\ written <= n
      <4>1. l \in Nat /\ l + (l % 2) <= 2 * written
        BY <2>1
      <4>. HIDE DEF l
      <4>. QED  BY <1>1, <4>1
    <3>. HIDE DEF l
    <3>2. l + (l % 2) <= 2 * n
      BY <3>1
    <3>. QED  BY <3>2 DEF l
  <2>. QED  BY <2>1, <2>2 DEF Alternate
<1>9. chatSid' = 1 => file'[2] = <<>>
  BY <1>4, <1>5, <1>6
<1>10. ASSUME ~rewound, cursor.sid = chatSid
       PROVE  InFile(g, cursor, excused) /\ Reaches(g, cursor, page, excused)
  <2>1. InFile(f, cursor, excused) /\ Reaches(f, cursor, page, excused) /\ HalfHeld
    BY <1>10 DEF ChatInv
  <2>2. cursor.off \in Nat /\ cursor.off <= Len(f) /\ (cursor.off % 2 = 1 => cursor.off \in 1..Len(f))
    <3>1. cursor.off \in Nat /\ cursor.off <= Len(f)
      BY <1>4, <2>1, ChatAssumption DEF Cursor, InFile
    <3>. HIDE DEF f
    <3>. QED  BY <1>1, <3>1
  <2>3. cursor.off <= Len(g)
    <3>. HIDE DEF f, g
    <3>. QED  BY <1>1, <1>2, <2>2
  <2>4. InFile(g, cursor, excused)
    <3>. HIDE DEF f, g
    <3>. QED  BY <1>2, <2>1, <2>2, <2>3 DEF InFile, HalfHeld
  <2>5. ASSUME NEW i \in F!NewestAt(g), i <= cursor.off PROVE i \in F!NewestAt(f) /\ g[i] = f[i]
    <3>1. i \in Nat /\ i >= 2
      <4>. HIDE DEF g
      <4>. QED  BY <1>1, <1>2 DEF F!NewestAt, F!TurnsAt
    <3>2. i <= Len(f) /\ i \in 1..Len(f)
      <4>. HIDE DEF f, g
      <4>. QED  BY <1>1, <2>2, <2>5, <3>1
    <3>. QED  BY <1>2, <3>2
  <2>6. Reaches(g, cursor, page, excused)
    <3>. HIDE DEF f, g
    <3>. QED  BY <2>1, <2>5 DEF Reaches
  <2>. QED  BY <2>4, <2>6
<1>. QED  BY <1>1, <1>4, <1>5, <1>6, <1>7, <1>8, <1>9, <1>10, FilesMove

LEMMA ChatWriteKeeps == ASSUME ChatInv, F!Write PROVE ChatInv'
<1>. DEFINE f == file[chatSid]
            n == Len(f)
<1>1. /\ f \in Seq(F!Token) /\ n \in Nat /\ Alternate(f, written)
      /\ written \in 0..MaxTurn /\ written \in Nat /\ MaxTurn \in Nat
  BY LiveIs
<1>2. n + (n % 2) <= 2 * written /\ \A i \in 1..n : f[i].end <=> i % 2 = 0
  BY <1>1 DEF Alternate
<1>3. UNCHANGED <<chatSid, cursor, recent, page, events, rewound, excused>>
  BY DEF F!Write
<1>4. CASE F!HalfOpen(chatSid)
  <2>. DEFINE h == [turn |-> f[n].turn, end |-> TRUE]
  <2>1. n # 0 /\ ~f[n].end
    <3>1. f # <<>> /\ ~f[n].end
      BY <1>4 DEF F!HalfOpen, F!Last
    <3>. QED  BY <1>1, <3>1, EmptySeq
  <2>2. n \in 1..n /\ f[n] \in F!Token
    <3>1. n \in 1..n
      <4>. HIDE DEF n
      <4>. QED  BY <1>1, <2>1
    <3>. QED  BY <1>1, <3>1
  <2>3. n % 2 # 0
    BY <1>2, <2>1, <2>2
  <2>4. (n + 1) % 2 = 0 /\ n + 1 + ((n + 1) % 2) <= 2 * written
    <3>1. n \in Nat /\ n % 2 # 0 /\ n + (n % 2) <= 2 * written /\ written \in Nat
      BY <1>1, <1>2, <2>3
    <3>. HIDE DEF n
    <3>. QED  BY <3>1
  <2>5. h \in F!Token /\ h.end
    BY <2>2 DEF F!Token
  <2>6. file' = [file EXCEPT ![chatSid] = Append(f, h)] /\ written' = written
    BY <1>4 DEF F!Write, F!Last
  <2>7. written <= written
    BY <1>1
  <2>. HIDE DEF h
  <2>. QED  BY <1>1, <1>3, <2>4, <2>5, <2>6, <2>7, GrowKeeps
<1>5. CASE ~F!HalfOpen(chatSid)
  <2>. DEFINE h == [turn |-> written + 1, end |-> FALSE]
  <2>1. n = 0 \/ f[n].end
    <3>1. f = <<>> \/ f[n].end
      BY <1>5 DEF F!HalfOpen, F!Last
    <3>. QED  BY <1>1, <3>1, EmptySeq
  <2>2. n % 2 = 0
    <3>1. CASE n = 0
      <4>. HIDE DEF n
      <4>. QED  BY <3>1
    <3>2. CASE n # 0
      <4>1. n \in 1..n
        <5>1. n \in Nat
          BY <1>1
        <5>. HIDE DEF n
        <5>. QED  BY <3>2, <5>1
      <4>. QED  BY <1>2, <2>1, <3>2, <4>1
    <3>. QED  BY <3>1, <3>2
  <2>3. written < MaxTurn /\ written' = written + 1
        /\ file' = [file EXCEPT ![chatSid] = Append(f, h)]
    BY <1>5 DEF F!Write
  <2>4. (n + 1) % 2 # 0 /\ n + 1 + ((n + 1) % 2) <= 2 * (written + 1)
        /\ written + 1 \in 0..MaxTurn /\ written + 1 \in 1..MaxTurn /\ written <= written + 1
    <3>1. n \in Nat /\ n % 2 = 0 /\ n + (n % 2) <= 2 * written /\ written \in Nat /\ MaxTurn \in Nat
          /\ written < MaxTurn
      BY <1>1, <1>2, <2>2, <2>3
    <3>. HIDE DEF n
    <3>. QED  BY <3>1
  <2>5. h \in F!Token /\ ~h.end
    BY <2>4 DEF F!Token, F!Turns
  <2>. HIDE DEF h
  <2>. QED  BY <1>1, <1>3, <2>3, <2>4, <2>5, GrowKeeps
<1>. QED  BY <1>4, <1>5

\* The halves the tail looks at: what it holds, and what was added behind its cursor.
Data(f, o, r) == r \o SubSeq(f, o + 1, Len(f))

\* Where they stand in the transcript.
Joined(f, o, r, b) ==
    /\ b = o - Len(r) /\ (r = <<>> => b = o) /\ (r # <<>> => o % 2 = 1 /\ b + 1 = o)
    /\ Data(f, o, r) \in Seq(F!Token) /\ Len(Data(f, o, r)) = Len(f) - b /\ Len(f) - b \in Nat
    /\ \A j \in 1..(Len(f) - b) : Data(f, o, r)[j].end <=> (b + j) % 2 = 0
    /\ \A j \in 1..(Len(f) - b) : b + j > o => Data(f, o, r)[j] = f[b + j]
    /\ r # <<>> => Data(f, o, r)[1] = r[1]

\* The tail holds nothing, or the first half of a line whose second half is to come.
HalfRead(f, o, r) ==
    /\ f \in Seq(F!Token) /\ o \in Nat /\ o < Len(f) /\ r \in Seq(F!Token)
    /\ r # <<>> => Len(r) = 1 /\ o % 2 = 1 /\ ~r[1].end
    /\ \A i \in 1..Len(f) : f[i].end <=> i % 2 = 0

LEMMA DataIs ==
    ASSUME NEW f, NEW o, NEW r, HalfRead(f, o, r)
    PROVE  \E b \in Nat : Joined(f, o, r, b)
<1>. SUFFICES ASSUME f \in Seq(F!Token), o \in Nat, o < Len(f), r \in Seq(F!Token),
                     r # <<>> => Len(r) = 1 /\ o % 2 = 1 /\ ~r[1].end,
                     \A i \in 1..Len(f) : f[i].end <=> i % 2 = 0
              PROVE  \E b \in Nat : Joined(f, o, r, b)
  BY DEF HalfRead
<1>. DEFINE L == Len(f)
            l == Len(r)
            a == SubSeq(f, o + 1, L)
            d == Data(f, o, r)
            b == o - l
<1>1. L \in Nat /\ l \in Nat /\ o < L
  BY LenProperties
<1>2. (r = <<>> => l = 0) /\ (r # <<>> => l = 1)
  BY EmptySeq
<1>3. b \in Nat /\ (r = <<>> => b = o) /\ (r # <<>> => b + 1 = o)
  <2>1. r # <<>> => o >= 1
    OBVIOUS
  <2>. HIDE DEF l
  <2>. QED  BY <1>1, <1>2, <2>1
<1>4. /\ a \in Seq(F!Token) /\ Len(a) = L - o
      /\ \A j \in 1..(L - o) : a[j] = f[o + j]
  <2>1. \A i \in (o + 1)..L : f[i] \in F!Token
    <3>1. \A i \in (o + 1)..L : i \in 1..L
      <4>. HIDE DEF L
      <4>. QED  BY <1>1
    <3>. QED  BY <3>1
  <2>2. o + 1 \in Int /\ L \in Int /\ o + 1 <= L /\ L - (o + 1) + 1 = L - o
        /\ \A j \in 1..(L - o) : o + 1 + j - 1 = o + j
    <3>. HIDE DEF L
    <3>. QED  BY <1>1
  <2>3. /\ a \in Seq(F!Token)
        /\ Len(a) = IF o + 1 <= L THEN L - (o + 1) + 1 ELSE 0
        /\ \A j \in 1..(L - (o + 1) + 1) : a[j] = f[o + 1 + j - 1]
    <3>. HIDE DEF L
    <3>. QED  BY <2>1, <2>2, SubSeqProperties
  <2>. HIDE DEF a, L
  <2>. QED  BY <2>2, <2>3
<1>5. /\ d \in Seq(F!Token) /\ Len(d) = l + Len(a)
      /\ \A j \in 1..(l + Len(a)) : d[j] = IF j <= l THEN r[j] ELSE a[j - l]
  <2>1. d = r \o a
    BY DEF Data
  <2>2. a \in Seq(F!Token)
    BY <1>4
  <2>. HIDE DEF a, d
  <2>3. /\ r \o a \in Seq(F!Token) /\ Len(r \o a) = Len(r) + Len(a)
        /\ \A j \in 1..(Len(r) + Len(a)) : (r \o a)[j] = IF j <= Len(r) THEN r[j] ELSE a[j - Len(r)]
    BY <2>2, ConcatProperties
  <2>. QED  BY <2>1, <2>3
<1>. HIDE DEF a, d
<1>6. l + Len(a) = L - b /\ L - b \in Nat
  <2>1. Len(a) = L - o
    BY <1>4
  <2>2. L \in Nat /\ l \in Nat /\ o < L /\ b = o - l /\ b \in Nat
    BY <1>1, <1>3
  <2>. HIDE DEF L, l, b
  <2>3. l + (L - o) = L - b /\ L - b \in Nat
    BY <2>2
  <2>. QED  BY <2>1, <2>3
<1>7. Len(d) = L - b
  BY <1>5, <1>6
<1>8. \A j \in 1..(L - b) : b + j > o => d[j] = f[b + j]
  <2>. SUFFICES ASSUME NEW j \in 1..(L - b), b + j > o PROVE d[j] = f[b + j]
    OBVIOUS
  <2>1. ~(j <= l) /\ j - l \in 1..(L - o) /\ o + (j - l) = b + j
    <3>. HIDE DEF L, l
    <3>. QED  BY <1>1, <1>2, <1>3
  <2>2. d[j] = a[j - l]
    BY <1>5, <1>6, <2>1
  <2>. QED  BY <1>4, <2>1, <2>2
<1>9. r # <<>> => d[1] = r[1]
  <2>. SUFFICES ASSUME r # <<>> PROVE d[1] = r[1]
    OBVIOUS
  <2>1. 1 \in 1..(l + Len(a)) /\ 1 <= l
    <3>. HIDE DEF L, l
    <3>. QED  BY <1>1, <1>2, <1>4
  <2>. QED  BY <1>5, <2>1
<1>10. \A j \in 1..(L - b) : d[j].end <=> (b + j) % 2 = 0
  <2>. SUFFICES ASSUME NEW j \in 1..(L - b) PROVE d[j].end <=> (b + j) % 2 = 0
    OBVIOUS
  <2>1. CASE b + j > o
    <3>1. b + j \in 1..L
      <4>. HIDE DEF L, l
      <4>. QED  BY <1>1, <1>2, <1>3, <2>1
    <3>. QED  BY <1>8, <2>1, <3>1
  <2>2. CASE ~(b + j > o)
    <3>1. r # <<>> /\ j = 1 /\ b + j = o
      <4>. HIDE DEF L, l
      <4>. QED  BY <1>1, <1>2, <1>3, <2>2
    <3>2. d[j] = r[1] /\ ~r[1].end /\ o % 2 = 1
      BY <1>9, <3>1
    <3>3. (b + j) % 2 # 0
      <4>1. b + j = o /\ o % 2 = 1
        BY <3>1, <3>2
      <4>2. (b + j) % 2 = o % 2
        BY <4>1
      <4>. HIDE DEF b
      <4>3. (b + j) % 2 = 1
        BY <4>1, <4>2
      <4>. QED  BY <4>3
    <3>. QED  BY <3>2, <3>3
  <2>. QED  BY <2>1, <2>2
<1>11. r # <<>> => o % 2 = 1
  OBVIOUS
<1>12. Joined(f, o, r, b)
  <2>1. d = Data(f, o, r) /\ L = Len(f) /\ b = o - Len(r)
    BY DEF d
  <2>. HIDE DEF L, l, b
  <2>. QED  BY <1>3, <1>5, <1>6, <1>7, <1>8, <1>9, <1>10, <1>11, <2>1 DEF Joined
<1>. QED  BY <1>3, <1>12

LEMMA MaxIs ==
    ASSUME NEW T \in SUBSET Nat, NEW m \in T, \A k \in T : k <= m
    PROVE  F!Max(T) = m
<1>1. m \in T /\ \A k \in T : m >= k
  OBVIOUS
<1>2. \A x \in T : (\A y \in T : x >= y) => x = m
  OBVIOUS
<1>. QED  BY <1>1, <1>2 DEF F!Max

\* The whole lines among them, and what waits for the next tick.
Lines(f, o, r) == SubSeq(Data(f, o, r), 1, F!LastEnd(Data(f, o, r)))
Waits(f, o, r) == F!ReadOn(Data(f, o, r), F!LastEnd(Data(f, o, r)))

LEMMA LinesAre ==
    ASSUME NEW f, NEW o, NEW r, HalfRead(f, o, r)
    PROVE  /\ Lines(f, o, r) \in Seq(F!Token) /\ Waits(f, o, r) \in Seq(F!Token)
           /\ Waits(f, o, r) # <<>> =>
                /\ Len(Waits(f, o, r)) = 1 /\ Len(f) % 2 = 1
                /\ Waits(f, o, r)[1] = f[Len(f)] /\ ~f[Len(f)].end
           /\ Len(f) % 2 = 1 => Waits(f, o, r) # <<>>
           /\ \A i \in F!TurnsAt(f) : i > o =>
                \/ \E j \in F!TurnsAt(Lines(f, o, r)) : Lines(f, o, r)[j].turn = f[i].turn
                \/ o \in 1..Len(f) /\ o % 2 = 1 /\ (r = <<>> \/ r[1] # f[o]) /\ f[o].turn = f[i].turn
<1>. SUFFICES ASSUME f \in Seq(F!Token), o \in Nat, o < Len(f), r \in Seq(F!Token),
                     r # <<>> => Len(r) = 1 /\ o % 2 = 1 /\ ~r[1].end,
                     \A i \in 1..Len(f) : f[i].end <=> i % 2 = 0
              PROVE  /\ Lines(f, o, r) \in Seq(F!Token) /\ Waits(f, o, r) \in Seq(F!Token)
                     /\ Waits(f, o, r) # <<>> =>
                          /\ Len(Waits(f, o, r)) = 1 /\ Len(f) % 2 = 1
                          /\ Waits(f, o, r)[1] = f[Len(f)] /\ ~f[Len(f)].end
                     /\ Len(f) % 2 = 1 => Waits(f, o, r) # <<>>
                     /\ \A i \in F!TurnsAt(f) : i > o =>
                          \/ \E j \in F!TurnsAt(Lines(f, o, r)) : Lines(f, o, r)[j].turn = f[i].turn
                          \/ /\ o \in 1..Len(f) /\ o % 2 = 1 /\ (r = <<>> \/ r[1] # f[o])
                             /\ f[o].turn = f[i].turn
  BY DEF HalfRead
<1>. DEFINE L == Len(f)
            d == Data(f, o, r)
            n == F!LastEnd(d)
            h == Lines(f, o, r)
            w == Waits(f, o, r)
<1>0. PICK b \in Nat : Joined(f, o, r, b)
  BY DataIs
<1>1. L \in Nat /\ o < L
  BY LenProperties
<1>2. /\ b \in Nat
      /\ b = o - Len(r) /\ (r = <<>> => b = o) /\ (r # <<>> => o % 2 = 1 /\ b + 1 = o)
      /\ d \in Seq(F!Token) /\ Len(d) = L - b /\ L - b \in Nat
      /\ \A j \in 1..(L - b) : d[j].end <=> (b + j) % 2 = 0
      /\ \A j \in 1..(L - b) : b + j > o => d[j] = f[b + j]
      /\ r # <<>> => d[1] = r[1]
  BY <1>0 DEF Joined
<1>. DEFINE m == IF L % 2 = 0 THEN L - b ELSE (L - b) - 1
            Ends == {0} \cup {i \in DOMAIN d : d[i].end}
<1>. HIDE DEF d, h, w
<1>3. b <= o /\ (r # <<>> => b + 1 = o) /\ (r = <<>> => b = o)
  BY <1>2
<1>4. DOMAIN d = 1..(L - b)
  BY <1>2, LenProperties
<1>5. m \in Nat /\ m <= L - b /\ L - b <= m + 1 /\ L - b >= 1 /\ (m = L - b <=> L % 2 = 0)
  <2>1. b \in Nat /\ L - b >= 1
    <3>. HIDE DEF L
    <3>. QED  BY <1>1, <1>3
  <2>. HIDE DEF L
  <2>. QED  BY <1>1, <2>1
<1>6. \A k \in 1..(L - b) : (b + k) % 2 = 0 => k <= m
  <2>. SUFFICES ASSUME NEW k \in 1..(L - b), (b + k) % 2 = 0 PROVE k <= m
    OBVIOUS
  <2>1. L % 2 = 0 => m = L - b
    OBVIOUS
  <2>2. L % 2 # 0 => k # L - b
    <3>1. k = L - b => b + k = L
      <4>. HIDE DEF L
      <4>. QED  BY <1>1
    <3>. QED  BY <3>1
  <2>3. L % 2 # 0 => m = (L - b) - 1
    OBVIOUS
  <2>4. L - b \in Nat
    BY <1>2
  <2>. HIDE DEF L, m
  <2>. QED  BY <1>1, <2>1, <2>2, <2>3, <2>4
<1>7. m # 0 => m \in 1..(L - b) /\ (b + m) % 2 = 0
  <2>. SUFFICES ASSUME m # 0 PROVE m \in 1..(L - b) /\ (b + m) % 2 = 0
    OBVIOUS
  <2>1. m \in 1..(L - b)
    <3>1. m \in Nat /\ m <= L - b /\ m # 0 /\ L - b \in Nat
      BY <1>2, <1>5
    <3>. HIDE DEF m, L
    <3>. QED  BY <3>1
  <2>2. (b + m) % 2 = 0
    <3>1. CASE L % 2 = 0
      <4>1. b + m = L
        <5>1. m = L - b
          BY <3>1
        <5>. HIDE DEF m, L
        <5>. QED  BY <1>1, <5>1
      <4>2. (b + m) % 2 = L % 2
        BY <4>1
      <4>. QED  BY <3>1, <4>2
    <3>2. CASE L % 2 # 0
      <4>1. b + m = L - 1 /\ (L - 1) % 2 = 0
        <5>1. m = (L - b) - 1
          BY <3>2
        <5>2. L \in Nat /\ L % 2 # 0
          BY <1>1, <3>2
        <5>. HIDE DEF m, L
        <5>. QED  BY <5>1, <5>2
      <4>2. (b + m) % 2 = (L - 1) % 2
        BY <4>1
      <4>. QED  BY <4>1, <4>2
    <3>. QED  BY <3>1, <3>2
  <2>. QED  BY <2>1, <2>2
<1>8. n = m
  <2>1. Ends \in SUBSET Nat
    <3>1. \A i \in DOMAIN d : i \in Nat
      BY <1>4
    <3>. QED  BY <3>1
  <2>2. m \in Ends
    <3>1. CASE m = 0
      BY <3>1
    <3>2. CASE m # 0
      <4>. HIDE DEF m, L
      <4>. QED  BY <1>2, <1>4, <1>7, <3>2
    <3>. QED  BY <3>1, <3>2
  <2>3. \A k \in Ends : k <= m
    <3>1. \A k \in 1..(L - b) : d[k].end => k <= m
      BY <1>2, <1>6
    <3>2. 0 <= m
      BY <1>5
    <3>. HIDE DEF m, L
    <3>. QED  BY <1>4, <3>1, <3>2
  <2>4. n = F!Max(Ends)
    BY DEF F!LastEnd
  <2>. HIDE DEF Ends, m, n
  <2>. QED  BY <2>1, <2>2, <2>3, <2>4, MaxIs
<1>. HIDE DEF m, n, L, Ends
<1>9. \A i \in 1..(L - b) : d[i] \in F!Token
  BY <1>2
<1>10. h \in Seq(F!Token) /\ Len(h) = m /\ \A j \in 1..m : h[j] = d[j]
  <2>1. h = SubSeq(d, 1, m)
    BY <1>8 DEF h, Lines, n, d
  <2>2. \A i \in 1..m : i \in 1..(L - b)
    BY <1>2, <1>5
  <2>3. \A i \in 1..m : d[i] \in F!Token
    BY <1>9, <2>2
  <2>4. 1 \in Int /\ m \in Int /\ m - 1 + 1 = m /\ (1 <= m \/ m = 0) /\ \A j \in 1..m : 1 + j - 1 = j
    BY <1>5
  <2>5. /\ SubSeq(d, 1, m) \in Seq(F!Token)
        /\ Len(SubSeq(d, 1, m)) = IF 1 <= m THEN m - 1 + 1 ELSE 0
        /\ \A j \in 1..(m - 1 + 1) : SubSeq(d, 1, m)[j] = d[1 + j - 1]
    BY <2>3, <2>4, SubSeqProperties
  <2>. QED  BY <2>1, <2>4, <2>5
<1>11. w \in Seq(F!Token) /\ Len(w) = (L - b) - m /\ (Len(w) # 0 => w[1] = d[L - b])
  <2>1. w = SubSeq(d, m + 1, L - b)
    BY <1>2, <1>8 DEF w, Waits, n, d, F!ReadOn
  <2>2. \A i \in (m + 1)..(L - b) : i \in 1..(L - b)
    BY <1>2, <1>5
  <2>3. \A i \in (m + 1)..(L - b) : d[i] \in F!Token
    BY <1>9, <2>2
  <2>4. L - b \in Int /\ m + 1 \in Int /\ m \in Nat /\ m <= L - b /\ L - b <= m + 1
    BY <1>2, <1>5
  <2>5. /\ SubSeq(d, m + 1, L - b) \in Seq(F!Token)
        /\ Len(SubSeq(d, m + 1, L - b)) = IF m + 1 <= L - b THEN (L - b) - (m + 1) + 1 ELSE 0
        /\ \A j \in 1..((L - b) - (m + 1) + 1) : SubSeq(d, m + 1, L - b)[j] = d[(m + 1) + j - 1]
    <3>. DEFINE p == m + 1
                q == L - b
    <3>1. p \in Int /\ q \in Int /\ \A i \in p..q : d[i] \in F!Token
      BY <2>3, <2>4
    <3>. HIDE DEF p, q
    <3>2. /\ SubSeq(d, p, q) \in Seq(F!Token)
          /\ Len(SubSeq(d, p, q)) = IF p <= q THEN q - p + 1 ELSE 0
          /\ \A j \in 1..(q - p + 1) : SubSeq(d, p, q)[j] = d[p + j - 1]
      BY <3>1, SubSeqProperties
    <3>. QED  BY <3>2 DEF p, q
  <2>6. Len(w) = (L - b) - m
    BY <2>1, <2>4, <2>5
  <2>7. ASSUME Len(w) # 0 PROVE w[1] = d[L - b]
    <3>1. 1 \in 1..((L - b) - (m + 1) + 1) /\ (m + 1) + 1 - 1 = L - b
      BY <2>4, <2>6, <2>7
    <3>. QED  BY <2>1, <2>5, <3>1
  <2>. QED  BY <2>1, <2>5, <2>6, <2>7
<1>12. w # <<>> <=> Len(w) # 0
  BY <1>11, EmptySeq
<1>13. Len(w) # 0 <=> L % 2 # 0
  BY <1>2, <1>5, <1>11
<1>14. L - b \in 1..(L - b) /\ b + (L - b) = L /\ L > o
  BY <1>1, <1>2, <1>5
<1>15. d[L - b] = f[L]
  BY <1>2, <1>14
<1>16. w # <<>> => Len(w) = 1 /\ L % 2 = 1 /\ w[1] = f[L] /\ ~f[L].end
  <2>. SUFFICES ASSUME w # <<>> PROVE Len(w) = 1 /\ L % 2 = 1 /\ w[1] = f[L] /\ ~f[L].end
    OBVIOUS
  <2>1. L % 2 # 0 /\ L % 2 \in 0..1 /\ L \in 1..L
    BY <1>1, <1>12, <1>13
  <2>2. Len(w) = 1
    BY <1>2, <1>5, <1>11, <1>12
  <2>3. ~f[L].end
    <3>1. \A i \in 1..L : f[i].end <=> i % 2 = 0
      BY DEF L
    <3>2. f[L].end <=> L % 2 = 0
      BY <2>1, <3>1
    <3>. QED  BY <2>1, <3>2
  <2>4. L % 2 = 1
    BY <2>1
  <2>5. w[1] = f[L]
    BY <1>11, <1>15, <2>2
  <2>. QED  BY <2>2, <2>3, <2>4, <2>5
<1>17. ASSUME NEW i \in F!TurnsAt(f), i > o
       PROVE  \/ \E j \in F!TurnsAt(h) : h[j].turn = f[i].turn
              \/ o \in 1..L /\ o % 2 = 1 /\ (r = <<>> \/ r[1] # f[o]) /\ f[o].turn = f[i].turn
  <2>1. /\ i \in 2..L /\ f[i].end /\ f[i - 1] = [turn |-> f[i].turn, end |-> FALSE]
        /\ f[i].turn \notin Plumbing
    BY DEF F!TurnsAt, L
  <2>2. i % 2 = 0
    <3>1. i \in 1..L
      BY <1>1, <2>1
    <3>. QED  BY <2>1, <3>1 DEF L
  <2>3. i \in Nat /\ i - 1 >= o
    BY <1>1, <1>17, <2>1
  <2>. DEFINE j == i - b
  <2>4. j \in 1..(L - b) /\ b + j = i /\ j <= m
    <3>1. j \in 1..(L - b) /\ b + j = i
      BY <1>1, <1>2, <1>3, <1>17, <2>1
    <3>. QED  BY <1>6, <2>2, <3>1
  <2>. HIDE DEF j
  <2>5. d[j] = f[i]
    BY <1>2, <1>17, <2>4
  <2>6. ASSUME j - 1 \in 1..(L - b), d[j - 1] = f[i - 1] PROVE j \in F!TurnsAt(h) /\ h[j] = f[i]
    <3>1. j \in 2..m /\ j \in 1..m /\ j - 1 \in 1..m
      BY <1>5, <2>4, <2>6
    <3>2. h[j] = f[i] /\ h[j - 1] = f[i - 1]
      BY <1>10, <2>5, <2>6, <3>1
    <3>. QED  BY <1>10, <2>1, <3>1, <3>2 DEF F!TurnsAt
  <2>7. CASE i - 1 > o
    <3>1. j - 1 \in 1..(L - b) /\ b + (j - 1) = i - 1
      BY <1>2, <1>3, <2>3, <2>4, <2>7
    <3>2. d[j - 1] = f[i - 1]
      BY <1>2, <2>7, <3>1
    <3>. QED  BY <2>6, <3>1, <3>2
  <2>8. CASE i - 1 = o
    <3>1. o \in 1..L /\ o % 2 = 1
      BY <1>1, <2>1, <2>2, <2>8
    <3>2. CASE r # <<>> /\ r[1] = f[o]
      <4>1. j - 1 = 1 /\ 1 \in 1..(L - b)
        BY <1>2, <1>3, <2>4, <2>8, <3>2
      <4>2. d[j - 1] = f[i - 1]
        BY <1>2, <2>8, <3>2, <4>1
      <4>. QED  BY <2>6, <4>1, <4>2
    <3>3. CASE r = <<>> \/ r[1] # f[o]
      BY <2>1, <2>8, <3>1, <3>3
    <3>. QED  BY <3>2, <3>3
  <2>9. i - 1 > o \/ i - 1 = o
    BY <2>3
  <2>. QED  BY <2>7, <2>8, <2>9
<1>18. L % 2 = 1 => w # <<>>
  BY <1>12, <1>13
<1>. QED  BY <1>10, <1>11, <1>16, <1>17, <1>18 DEF L, h, w

\* What the cursor is put behind is excused.
LEMMA PassedOverIs ==
    ASSUME ChatInv
    PROVE  /\ F!PassedOver \subseteq F!Turns
           /\ \A i \in 1..Len(file[chatSid]) : file[chatSid][i].turn \in F!PassedOver
<1>. DEFINE f == file[chatSid]
<1>1. f \in Seq(F!Token)
  BY LiveIs
<1>2. DOMAIN f = 1..Len(f) /\ \A i \in 1..Len(f) : f[i] \in F!Token
  BY <1>1, LenProperties
<1>3. \A t \in F!Range(f) : t \in F!Token
  <2>. HIDE DEF f
  <2>. QED  BY <1>2 DEF F!Range
<1>4. \A i \in 1..Len(f) : f[i] \in F!Range(f)
  <2>. HIDE DEF f
  <2>. QED  BY <1>2 DEF F!Range
<1>5. F!PassedOver = {t.turn : t \in F!Range(f)}
  BY DEF F!PassedOver
<1>. HIDE DEF f
<1>6. \A t \in F!Token : t.turn \in F!Turns
  BY DEF F!Token
<1>7. F!PassedOver \subseteq F!Turns /\ \A i \in 1..Len(f) : f[i].turn \in F!PassedOver
  BY <1>3, <1>4, <1>5, <1>6
<1>. QED  BY <1>7 DEF f

LEMMA PutKeeps ==
    ASSUME ChatInv, rewound' = FALSE, excused' = excused \cup F!PassedOver,
           cursor' = [sid |-> chatSid, off |-> Len(file[chatSid]), rest |-> <<>>],
           UNCHANGED <<chatSid, file, written, recent, page, events>>
    PROVE  ChatInv'
<1>. DEFINE f == file[chatSid]
<1>1. chatSid \in F!Sessions /\ f \in Seq(F!Token) /\ Len(f) \in Nat /\ Len(f) <= 2 * MaxTurn
      /\ MaxTurn \in Nat
  BY LiveIs
<1>2. cursor' \in Cursor /\ cursor'.sid = chatSid /\ cursor'.off = Len(f) /\ cursor'.rest = <<>>
  <2>1. chatSid \in 0..2 /\ Len(f) \in 0..(2 * MaxTurn) /\ <<>> \in Seq(F!Token)
    <3>. HIDE DEF f
    <3>. QED  BY <1>1 DEF F!Sessions
  <2>. QED  BY <2>1 DEF Cursor
<1>3. F!PassedOver \subseteq F!Turns /\ \A i \in 1..Len(f) : f[i].turn \in F!PassedOver
  BY PassedOverIs
<1>4. chatSid <= chatSid
  BY <1>1 DEF F!Sessions
<1>5. ChatTyped'
  BY <1>2, <1>3, <1>4 DEF ChatInv, ChatTyped
<1>6. HalfHeld'
  BY <1>2 DEF HalfHeld
<1>7. InFile(f, cursor', excused')
  <2>1. Len(f) % 2 = 1 => Len(f) \in 1..Len(f)
    <3>. HIDE DEF f
    <3>. QED  BY <1>1
  <2>2. Len(f) <= Len(f)
    BY <1>1
  <2>. QED  BY <1>2, <1>3, <2>1, <2>2 DEF InFile
<1>8. Reaches(f, cursor', page', excused')
  <2>1. \A i \in F!NewestAt(f) : i \in 1..Len(f)
    <3>. HIDE DEF f
    <3>. QED  BY <1>1 DEF F!NewestAt, F!TurnsAt
  <2>. QED  BY <1>3, <2>1 DEF Reaches
<1>. QED  BY <1>2, <1>5, <1>6, <1>7, <1>8 DEF ChatInv

LEMMA StartAtEndKeeps == ASSUME ChatInv, F!StartAtEnd PROVE ChatInv'
BY PutKeeps DEF F!StartAtEnd

LEMMA TruncatedKeeps == ASSUME ChatInv, F!Truncated PROVE ChatInv'
<1>1. cursor \in Cursor /\ cursor.sid = chatSid
  BY DEF ChatInv, ChatTyped, F!Truncated
<1>2. cursor' = [cursor EXCEPT !.off = Len(file[chatSid]), !.rest = <<>>]
  BY DEF F!Truncated
<1>3. cursor' = [sid |-> chatSid, off |-> Len(file[chatSid]), rest |-> <<>>]
  BY <1>1, <1>2 DEF Cursor
<1>. QED  BY <1>3, PutKeeps DEF F!Truncated

LEMMA ChatRestartKeeps == ASSUME ChatInv, F!Restart PROVE ChatInv'
<1>1. /\ cursor' = F!NoCursor /\ recent' = <<>> /\ events < MaxEvents /\ events' = events + 1
      /\ page' = [page EXCEPT !.on = FALSE, !.queue = <<>>, !.loads = <<>>]
      /\ UNCHANGED <<chatSid, file, written, rewound, excused>>
  BY DEF F!Restart
<1>2. chatSid \in F!Sessions /\ MaxTurn \in Nat
  BY LiveIs
<1>3. cursor' \in Cursor /\ cursor'.sid = 0 /\ cursor'.rest = <<>>
  <2>1. 0 \in 0..2 /\ 0 \in 0..(2 * MaxTurn) /\ <<>> \in Seq(F!Token)
    BY <1>2
  <2>. QED  BY <1>1, <2>1 DEF F!NoCursor, Cursor
<1>4. page' \in Page /\ page'.loads = <<>>
  <2>1. page \in Page
    BY DEF ChatInv, ChatTyped
  <2>2. <<>> \in Seq(F!Turns) /\ <<>> \in Seq(Answer)
    OBVIOUS
  <2>. QED  BY <1>1, <2>1, <2>2 DEF Page
<1>5. events' \in 0..MaxEvents
  BY <1>1, ChatAssumption DEF ChatInv, ChatTyped
<1>6. 0 <= chatSid /\ 0 # chatSid
  BY <1>2 DEF F!Sessions
<1>7. recent' \in Seq(F!Turns) /\ Len(recent') <= Replay /\ Len(page'.loads) <= MaxLoads
  BY <1>1, <1>4, ChatAssumption
<1>8. ChatTyped'
  BY <1>1, <1>3, <1>4, <1>5, <1>6, <1>7 DEF ChatInv, ChatTyped
<1>9. HalfHeld'
  BY <1>3 DEF HalfHeld
<1>. QED  BY <1>1, <1>3, <1>6, <1>8, <1>9 DEF ChatInv

\* Publishing keeps the types; with an empty channel afterwards every turn is excused.
LEMMA PublishIs ==
    ASSUME ChatInv, NEW turns \in Seq(F!Turns), F!Publish(turns)
    PROVE  /\ recent' \in Seq(F!Turns) /\ Len(recent') <= Replay
           /\ page' \in Page /\ page'.loads = page.loads /\ page'.on = page.on
           /\ page'.reload = page.reload /\ page'.shown = page.shown /\ page'.stale = page.stale
           /\ excused' \subseteq F!Turns /\ excused \subseteq excused'
           /\ rewound => F!PassedOver \subseteq excused'
           /\ page.on /\ page'.queue = <<>> =>
                page.queue = <<>> /\ \A j \in 1..Len(turns) : turns[j] \in excused'
<1>. DEFINE q == page.queue
            all == recent \o turns
            room == Buffer - Len(q)
            k == IF room < Len(turns) THEN room ELSE Len(turns)
            handed == IF page.on THEN SubSeq(turns, 1, k) ELSE <<>>
<1>1. /\ page \in Page /\ q \in Seq(F!Turns) /\ Len(q) \in Nat /\ recent \in Seq(F!Turns)
      /\ excused \subseteq F!Turns /\ Replay \in Nat /\ Buffer \in Nat
  BY ChatAssumption, LenProperties DEF ChatInv, ChatTyped, Page
<1>2. /\ recent' = F!Trim(all)
      /\ page' = [page EXCEPT !.queue = q \o handed]
      /\ excused' = excused \cup (IF page.on THEN F!Range(turns) \ F!Range(handed) ELSE {})
                            \cup (IF rewound THEN F!PassedOver ELSE {})
  BY DEF F!Publish
<1>3. Len(turns) \in Nat /\ DOMAIN turns = 1..Len(turns) /\ \A j \in 1..Len(turns) : turns[j] \in F!Turns
  BY LenProperties
<1>4. k \in Int /\ k <= Len(turns)
  <2>. HIDE DEF q
  <2>. QED  BY <1>1, <1>3
<1>5. handed \in Seq(F!Turns)
  <2>. HIDE DEF k
  <2>1. \A j \in 1..k : turns[j] \in F!Turns
    BY <1>3, <1>4
  <2>2. SubSeq(turns, 1, k) \in Seq(F!Turns)
    BY <1>4, <2>1, SubSeqProperties
  <2>. QED  BY <2>2
<1>. HIDE DEF k, handed, q
<1>6. recent' \in Seq(F!Turns) /\ Len(recent') <= Replay
  <2>1. all \in Seq(F!Turns) /\ Len(all) \in Nat
    BY <1>1, ConcatProperties, LenProperties
  <2>. HIDE DEF all
  <2>. DEFINE n == Len(all)
              from == IF n > Replay THEN n - Replay + 1 ELSE 1
  <2>2. recent' = SubSeq(all, from, n)
    BY <1>2 DEF F!Trim
  <2>3. \A j \in 1..n : all[j] \in F!Turns
    BY <2>1
  <2>. HIDE DEF n
  <2>4. n \in Nat
    BY <2>1 DEF n
  <2>5. from \in Int /\ n \in Int /\ from >= 1 /\ (from <= n => n - from + 1 <= Replay)
    BY <1>1, <2>4
  <2>. HIDE DEF from
  <2>6. \A j \in from..n : all[j] \in F!Turns
    BY <2>3, <2>5
  <2>7. /\ SubSeq(all, from, n) \in Seq(F!Turns)
        /\ Len(SubSeq(all, from, n)) = IF from <= n THEN n - from + 1 ELSE 0
    BY <2>5, <2>6, SubSeqProperties
  <2>. QED  BY <1>1, <2>2, <2>5, <2>7
<1>7. q \o handed \in Seq(F!Turns)
  BY <1>1, <1>5, ConcatProperties
<1>8. /\ page' \in Page /\ page'.queue = q \o handed /\ page'.loads = page.loads /\ page'.on = page.on
      /\ page'.reload = page.reload /\ page'.shown = page.shown /\ page'.stale = page.stale
  BY <1>1, <1>2, <1>7 DEF Page
<1>9. \A t \in F!Range(turns) : t \in F!Turns
  BY <1>3 DEF F!Range
<1>10. \A j \in 1..Len(turns) : turns[j] \in F!Range(turns)
  BY <1>3 DEF F!Range
<1>11. excused' \subseteq F!Turns /\ excused \subseteq excused' /\ (rewound => F!PassedOver \subseteq excused')
  BY <1>1, <1>2, <1>9, PassedOverIs
<1>12. ASSUME page.on, q \o handed = <<>>
       PROVE  q = <<>> /\ \A j \in 1..Len(turns) : turns[j] \in excused'
  <2>1. q = <<>> /\ handed = <<>>
    BY <1>1, <1>5, <1>12, ConcatEqualIffEmpty
  <2>2. F!Range(handed) = {}
    <3>1. Len(handed) = 0 /\ DOMAIN handed = 1..Len(handed)
      BY <1>5, <2>1, LenProperties, EmptySeq
    <3>. QED  BY <3>1 DEF F!Range
  <2>. QED  BY <1>2, <1>10, <1>12, <2>1, <2>2
<1>. QED  BY <1>6, <1>8, <1>11, <1>12 DEF q

LEMMA FollowKeeps == ASSUME ChatInv, F!Follow PROVE ChatInv'
<1>. DEFINE f == file[chatSid]
            o == cursor.off
            r == cursor.rest
            h == Lines(f, o, r)
            w == Waits(f, o, r)
            turns == F!Parsed(h)
<1>1. /\ chatSid \in F!Sessions /\ f \in Seq(F!Token) /\ Len(f) \in Nat /\ Len(f) <= 2 * MaxTurn
      /\ MaxTurn \in Nat /\ Alternate(f, written)
  BY LiveIs
<1>2. /\ cursor \in Cursor /\ o \in Nat /\ r \in Seq(F!Token)
      /\ r # <<>> => Len(r) = 1 /\ o % 2 = 1 /\ ~r[1].end
  <2>1. cursor \in Cursor /\ HalfHeld
    BY DEF ChatInv, ChatTyped
  <2>. QED  BY <1>1, <2>1 DEF Cursor, HalfHeld
<1>3. /\ cursor.sid = chatSid /\ o < Len(f) /\ rewound' = FALSE
      /\ cursor' = [cursor EXCEPT !.off = Len(f), !.rest = w]
      /\ F!Publish(turns) /\ UNCHANGED <<chatSid, file, written, events>>
  <2>1. cursor' = [cursor EXCEPT !.off = Len(f), !.rest = w] /\ F!Publish(turns)
    BY DEF F!Follow, Waits, Lines, Data
  <2>2. o < Len(f)
    <3>1. Len(f) > o
      BY DEF F!Follow
    <3>. QED  BY <1>1, <1>2, <3>1
  <2>. QED  BY <2>1, <2>2 DEF F!Follow
<1>4. HalfRead(f, o, r)
  BY <1>1, <1>2, <1>3 DEF HalfRead, Alternate
<1>. HIDE DEF h, w, turns, o, r
<1>5. /\ h \in Seq(F!Token) /\ w \in Seq(F!Token)
      /\ w # <<>> => Len(w) = 1 /\ Len(f) % 2 = 1 /\ w[1] = f[Len(f)] /\ ~f[Len(f)].end
      /\ Len(f) % 2 = 1 => w # <<>>
      /\ \A i \in F!TurnsAt(f) : i > o =>
           \/ \E j \in F!TurnsAt(h) : h[j].turn = f[i].turn
           \/ o \in 1..Len(f) /\ o % 2 = 1 /\ (r = <<>> \/ r[1] # f[o]) /\ f[o].turn = f[i].turn
  <2>. HIDE DEF f
  <2>. QED  BY <1>4, LinesAre DEF h, w
<1>6. /\ turns \in Seq(F!Turns)
      /\ \A i \in F!TurnsAt(h) : \E j \in 1..Len(turns) : turns[j] = h[i].turn
  BY <1>5, ParsedAre DEF turns
<1>7. /\ recent' \in Seq(F!Turns) /\ Len(recent') <= Replay
      /\ page' \in Page /\ page'.loads = page.loads /\ page'.on = page.on
      /\ page'.reload = page.reload /\ page'.shown = page.shown /\ page'.stale = page.stale
      /\ excused' \subseteq F!Turns /\ excused \subseteq excused'
      /\ rewound => F!PassedOver \subseteq excused'
      /\ page.on /\ page'.queue = <<>> =>
           page.queue = <<>> /\ \A j \in 1..Len(turns) : turns[j] \in excused'
  BY <1>3, <1>6, PublishIs
<1>8. cursor' \in Cursor /\ cursor'.sid = chatSid /\ cursor'.off = Len(f) /\ cursor'.rest = w
  <2>1. Len(f) \in 0..(2 * MaxTurn)
    <3>. HIDE DEF f
    <3>. QED  BY <1>1
  <2>. QED  BY <1>2, <1>3, <1>5, <2>1 DEF Cursor
<1>9. chatSid <= chatSid /\ Len(page.loads) <= MaxLoads
  BY <1>1 DEF F!Sessions, ChatInv, ChatTyped
<1>10. ChatTyped'
  BY <1>3, <1>7, <1>8, <1>9 DEF ChatInv, ChatTyped
<1>11. HalfHeld'
  BY <1>5, <1>8 DEF HalfHeld
<1>12. InFile(f, cursor', excused')
  <2>1. Len(f) <= Len(f)
    BY <1>1
  <2>. QED  BY <1>5, <1>8, <2>1 DEF InFile
<1>13. Reaches(f, cursor', page', excused')
  <2>. SUFFICES ASSUME page.on, ~page.reload, page'.queue = <<>>, NEW i \in F!NewestAt(f), i \in F!TurnsAt(f)
       PROVE  f[i].turn \in excused' \/ Arrives(page', f[i].turn)
    BY <1>7 DEF Reaches, F!NewestAt
  <2>1. page.queue = <<>> /\ \A j \in 1..Len(turns) : turns[j] \in excused'
    BY <1>7
  <2>2. i \in 1..Len(f) /\ i \in Nat
    <3>. HIDE DEF f
    <3>. QED  BY <1>1 DEF F!TurnsAt
  <2>3. CASE rewound
    BY <1>7, <2>2, <2>3, PassedOverIs
  <2>4. CASE ~rewound
    <3>1. InFile(f, cursor, excused) /\ Reaches(f, cursor, page, excused)
      BY <1>3, <2>4 DEF ChatInv
    <3>2. CASE i <= o
      <4>1. f[i].turn \in excused \/ Arrives(page, f[i].turn)
        BY <2>1, <3>1, <3>2 DEF Reaches, o
      <4>2. Arrives(page, f[i].turn) => Arrives(page', f[i].turn)
        BY <1>7 DEF Arrives
      <4>. QED  BY <1>7, <4>1, <4>2
    <3>3. CASE i > o
      <4>1. CASE \E j \in F!TurnsAt(h) : h[j].turn = f[i].turn
        BY <1>6, <2>1, <4>1
      <4>2. CASE o \in 1..Len(f) /\ o % 2 = 1 /\ (r = <<>> \/ r[1] # f[o]) /\ f[o].turn = f[i].turn
        <5>1. f[o].turn \in excused
          BY <3>1, <4>2 DEF InFile, o, r
        <5>. QED  BY <1>7, <4>2, <5>1
      <4>. QED  BY <1>5, <3>3, <4>1, <4>2
    <3>4. i <= o \/ i > o
      BY <1>2, <2>2 DEF o
    <3>. QED  BY <3>2, <3>3, <3>4
  <2>. QED  BY <2>3, <2>4
<1>. QED  BY <1>3, <1>8, <1>10, <1>11, <1>12, <1>13 DEF ChatInv

LEMMA ChatKeeps == ASSUME ChatInv, [F!Next]_(F!vars) PROVE ChatInv'
<1>1. CASE F!Write \/ F!Rotate
  BY <1>1, ChatWriteKeeps, RotateKeeps
<1>2. ASSUME NEW n \in 0..(2 * MaxTurn), F!Rewind(n) PROVE ChatInv'
  BY <1>2, RewindKeeps
<1>3. CASE F!StartAtEnd \/ F!Truncated \/ F!Follow \/ F!Restart
  BY <1>3, StartAtEndKeeps, TruncatedKeeps, FollowKeeps, ChatRestartKeeps
<1>4. CASE F!Subscribe \/ F!OnMessage \/ F!Load
  BY <1>4, SubscribeKeeps, OnMessageKeeps, HistoryLoadKeeps
<1>5. ASSUME NEW i \in 1..MaxLoads, F!Loaded(i) PROVE ChatInv'
  BY <1>5, LoadedKeeps
<1>6. CASE UNCHANGED F!vars
  <2>1. UNCHANGED <<chatSid, file, written, cursor, recent, page, events, rewound, excused>>
    BY <1>6 DEF F!vars
  <2>2. ChatTyped' /\ HalfHeld'
    BY <2>1 DEF ChatInv, ChatTyped, HalfHeld
  <2>. QED  BY <2>1, <2>2 DEF ChatInv
<1>. QED  BY <1>1, <1>2, <1>3, <1>4, <1>5, <1>6 DEF F!Next

LEMMA ChatMoves == ASSUME [ServeNext]_serveVars PROVE [F!Next]_(F!vars)
BY DEF ServeNext, serveVars, chatVars, F!vars

\* chat.go, hub.go, ui/index.html: when nothing is on its way to the page, it shows every
\* turn of the live session but those it is excused from.  For transcripts of any length,
\* any size of the channel and the replay, and any number of histories asked for at a time.
THEOREM QuietPageIsCompleteHolds == ServeSpec => []QuietPageIsComplete
<1>1. ServeInit => ChatInv
  BY ChatStarts DEF ServeInit
<1>2. ChatInv /\ [ServeNext]_serveVars => ChatInv'
  BY ChatMoves, ChatKeeps
<1>3. ChatInv => QuietPageIsComplete
  BY ChatImplies DEF QuietPageIsComplete
<1>. QED  BY <1>1, <1>2, <1>3, PTL DEF ServeSpec
================================================================================
