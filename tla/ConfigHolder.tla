---------------------------- MODULE ConfigHolder ----------------------------
(***************************************************************************)
(* The configuration a run works with (internal/config: Load, Validate and   *)
(* the Holder; its users serve.drain, cmd/qilla/serve.go and Worker.run).    *)
(*                                                                         *)
(* The supervisor loads qilla.toml and takes the stat of it a little later;  *)
(* before every drain, and at SIGHUP, the holder looks at the file again.    *)
(* The file is saved by a rename, or in place: emptied first, and an empty   *)
(* file is a valid configuration without routines.  A run takes a snapshot,  *)
(* and its gather step asks the holder once more.                            *)
(***************************************************************************)
EXTENDS Naturals, FiniteSets

CONSTANTS
    Texts,      \* what the file may say, see Text
    Blank,      \* the empty file, one of Texts
    MaxClock,   \* bound: ticks of the file system's clock
    MaxEdits,   \* bound: writes to the file
    MaxHups     \* bound: SIGHUPs

\* odd: the fields whose value is not one of those Validate lists; agents: the
\* agents defined; agent: the routine's own ("" when left out).
Text == [size: Nat, settings: Nat, routine: BOOLEAN, script: BOOLEAN,
         agent: STRING, agents: SUBSET STRING, odd: SUBSET STRING]

None == [none |-> TRUE]

VARIABLES
    file,       \* what qilla.toml says, its mtime, and the text being written
    clock,
    hold,       \* the holder: configuration, mtime and size it knows
    lock,       \* who is in reload, and whether it goes on to load
    sup,        \* the supervisor: "down", "loaded", "up", "drain", "run", "gathered"
    run,        \* the running job: its snapshot and the settings its gather saw
    edits, hups,
    (* history, read by properties only *)
    seen,       \* a reload looked at the file after the last edit
    unseen,     \* an edit that the stat does not show
    forced      \* SIGHUP during the run

vars == <<file, clock, hold, lock, sup, run, edits, hups, seen, unseen, forced>>

Idle == [by |-> "nobody", loads |-> FALSE]
NoRun == [snap |-> None, settings |-> 0, end |-> "none"]

Init ==
    /\ file \in {[text |-> t, stamp |-> 0, next |-> None] : t \in Texts}
    /\ clock = 0
    /\ hold = [text |-> None, stamp |-> 0, size |-> 0]
    /\ lock = Idle
    /\ sup = "down" /\ run = NoRun
    /\ edits = 0 /\ hups = 0
    /\ seen = FALSE /\ unseen = FALSE /\ forced = FALSE

-----------------------------------------------------------------------------
(* Load.                                                                    *)

\* applyDefaults.
AgentOf(t) == IF ~t.script /\ t.agent = "" THEN "chief" ELSE t.agent

Validate(t) ==
    /\ t.odd = {}
    /\ t.routine /\ ~t.script => AgentOf(t) \in t.agents

-----------------------------------------------------------------------------
(* The file.                                                                *)

Tick ==
    /\ clock < MaxClock
    /\ clock' = clock + 1
    /\ UNCHANGED <<file, hold, lock, sup, run, edits, hups, seen, unseen, forced>>

\* An edit that leaves the mtime and the size the holder knows, or that falls
\* between a load and the stat that is kept for it, does not show.
Edited(t) ==
    /\ seen' = FALSE
    /\ unseen' = (\/ sup = "loaded"
                  \/ t # hold.text /\ hold.stamp = clock /\ hold.size = t.size)

SaveByRename(t) ==
    /\ edits < MaxEdits /\ edits' = edits + 1
    /\ file.next = None
    /\ file' = [text |-> t, stamp |-> clock, next |-> None]
    /\ Edited(t)
    /\ UNCHANGED <<clock, hold, lock, sup, run, hups, forced>>

SaveInPlace(t) ==
    /\ edits < MaxEdits /\ edits' = edits + 1
    /\ file.next = None /\ t # Blank
    /\ file' = [text |-> Blank, stamp |-> clock, next |-> t]
    /\ Edited(Blank)
    /\ UNCHANGED <<clock, hold, lock, sup, run, hups, forced>>

FinishSave ==
    /\ file.next # None
    /\ file' = [text |-> file.next, stamp |-> clock, next |-> None]
    /\ Edited(file.next)
    /\ UNCHANGED <<clock, hold, lock, sup, run, edits, hups, forced>>

-----------------------------------------------------------------------------
(* The supervisor and its holder.                                           *)

\* cmdServe loads; a file that cannot be loaded ends it.
Start ==
    /\ sup = "down"
    /\ Validate(file.text)
    /\ hold' = [hold EXCEPT !.text = file.text]
    /\ sup' = "loaded" /\ seen' = TRUE /\ unseen' = FALSE
    /\ UNCHANGED <<file, clock, lock, run, edits, hups, forced>>

\* NewHolder takes its baseline, the database opened in between.
Baseline ==
    /\ sup = "loaded"
    /\ hold' = [hold EXCEPT !.stamp = file.stamp, !.size = file.text.size]
    /\ sup' = "up"
    /\ UNCHANGED <<file, clock, lock, run, edits, hups, seen, unseen, forced>>

\* Mutant: the size is not looked at.
Changed_Mtime == file.stamp # hold.stamp

Changed == file.stamp # hold.stamp \/ file.text.size # hold.size

\* reload, with the lock held: the stat first, then the load; a load that fails
\* keeps the configuration, and the stat.
Stat(by, force) ==
    /\ lock = Idle
    /\ IF force \/ Changed
       THEN /\ hold' = [hold EXCEPT !.stamp = file.stamp, !.size = file.text.size]
            /\ unseen' = FALSE
       ELSE UNCHANGED <<hold, unseen>>
    /\ lock' = [by |-> by, loads |-> force \/ Changed]
    /\ seen' = TRUE

Swap(h) == [h EXCEPT !.text = IF Validate(file.text) THEN file.text ELSE @]

LoadAgain ==
    /\ lock.by # "nobody"
    /\ hold' = IF lock.loads THEN Swap(hold) ELSE hold
    /\ sup' = IF lock.by = "drain" THEN "drain" ELSE sup
    /\ lock' = Idle
    /\ UNCHANGED <<file, clock, run, edits, hups, seen, unseen, forced>>

\* A drain begins with a reload.
Drain ==
    /\ sup = "up"
    /\ Stat("drain", FALSE)
    /\ UNCHANGED <<file, clock, sup, run, edits, hups, forced>>

Hup ==
    /\ sup \notin {"down", "loaded"} /\ hups < MaxHups
    /\ hups' = hups + 1
    /\ Stat("hup", TRUE)
    /\ forced' = (sup \in {"run", "gathered"} \/ forced)
    /\ UNCHANGED <<file, clock, sup, run, edits>>

-----------------------------------------------------------------------------
(* Worker.run: `cfg := w.Cfg()`, then gather with its own w.Cfg().            *)

StartRun ==
    /\ sup = "drain" /\ lock = Idle
    /\ forced' = FALSE
    /\ IF hold.text.routine
       THEN sup' = "run" /\ run' = [NoRun EXCEPT !.snap = hold.text]
       ELSE sup' = "up" /\ run' = [NoRun EXCEPT !.snap = hold.text, !.end = "not in config"]
    /\ UNCHANGED <<file, clock, hold, lock, edits, hups, seen, unseen>>

\* Mutant: the holder looks at the file again before the gather step.
SettingsNow_Reloaded == file.text.settings

SettingsNow == hold.text.settings

Gather ==
    /\ sup = "run" /\ lock = Idle
    /\ sup' = "gathered"
    /\ run' = [run EXCEPT !.settings = SettingsNow]
    /\ UNCHANGED <<file, clock, hold, lock, edits, hups, seen, unseen, forced>>

EndRun ==
    /\ sup = "gathered"
    /\ run' = [run EXCEPT !.end = IF run.snap.script \/ AgentOf(run.snap) \in run.snap.agents
                                  THEN "ran" ELSE "no agent"]
    /\ sup' \in {"up", "drain"}
    /\ UNCHANGED <<file, clock, hold, lock, edits, hups, seen, unseen, forced>>

Next ==
    \/ Tick \/ FinishSave
    \/ \E t \in Texts : SaveByRename(t) \/ SaveInPlace(t)
    \/ Start \/ Baseline \/ LoadAgain \/ Drain \/ Hup
    \/ StartRun \/ Gather \/ EndRun

Spec == Init /\ [][Next]_vars

-----------------------------------------------------------------------------
(* Properties.                                                              *)

TypeOK ==
    /\ file.text \in Texts /\ file.stamp \in 0..MaxClock /\ file.next \in Texts \cup {None}
    /\ clock \in 0..MaxClock
    /\ hold.text \in Texts \cup {None} /\ hold.stamp \in 0..MaxClock
    /\ lock.by \in {"nobody", "drain", "hup"}
    /\ sup \in {"down", "loaded", "up", "drain", "run", "gathered"}
    /\ run.end \in {"none", "not in config", "ran", "no agent"}
    /\ edits \in 0..MaxEdits /\ hups \in 0..MaxHups
    /\ seen \in BOOLEAN /\ unseen \in BOOLEAN /\ forced \in BOOLEAN

\* holder.go: an edit would otherwise "stay invisible until a restart".  Once a
\* reload has looked at the file, the holder has what it says or the file says
\* nothing valid - however edits, the stat and the load interleave - unless the
\* stat could not show the edit.
EditIsSeen ==
    sup # "down" /\ lock = Idle /\ seen /\ Validate(file.text) =>
        unseen \/ hold.text = file.text

\* Validate "reports the first thing that would make a run fail", and a run
\* "keeps the snapshot it started with": its agent is there, and its gather step
\* sees the settings of its snapshot unless a SIGHUP came in between.
RunIsOfOneConfig ==
    /\ run.end # "no agent"
    /\ sup = "gathered" => forced \/ run.settings = run.snap.settings
=============================================================================
