--------------------------------- MODULE Bundle ---------------------------------
(***************************************************************************)
(* A routine's bundle and its timer: `qilla init` (cmd/qilla/init.go) writes   *)
(* the files a routine lacks, checks the bundle's routine.toml against the     *)
(* machine (internal/manifest) and keeps the systemd units to the routines     *)
(* that are configured and ready (internal/install).  Every other command      *)
(* writes the missing files too before it does its own work, while the author  *)
(* of the bundle puts his own in place one by one.  Nothing locks anything: a   *)
(* file is looked for, and then written.  `init --force` puts the template in   *)
(* the place of qilla.toml before all else.                                   *)
(*                                                                         *)
(* One routine.  A piece is a command on PATH, a stored secret or a setting.   *)
(***************************************************************************)
EXTENDS Naturals, Sequences

CONSTANTS
    Manifests,  \* what routine.toml may be (is): "none", "broken" or "read", and what it says
    Routines,   \* the routine's table of qilla.toml; or NotConfigured
    Hosts,      \* the engine or not, whether the routine is qmd-refresh, and the routine's
                \* part of the template (its table, and the settings there)
    Others,     \* other commands that run
    Authored,   \* files the author may put there
    Pieces,     \* pieces that the machine may lack
    Settings,   \* those of them that are settings of the routine's table
    UserFiles,  \* files of the bundle that no command writes
    Outcomes,   \* what the signals' commands may come to: "error", or what they print
    MaxEdits    \* bound: changes made by hand

NotConfigured == [kind |-> "none", output |-> FALSE, schedule |-> 0]
Manual == 0     \* a schedule is a number
NoUnit == 0

VARIABLES
    host,
    table,      \* the routine's table
    manifest,   \* its routine.toml
    have,       \* pieces the machine has
    outcome,    \* what the signals' commands come to
    bundle,     \* per file: "none", "default" or "author"
    proc,       \* `qilla init` and another command: what each has loaded, and where it is
    units,      \* the routine's units on disk: the schedule of each, or NoUnit
    edits,
    known,      \* history: nothing that init looks at changed since the last one loaded
    inTime      \* history: the author's files, but those a process had looked for before

vars == <<host, table, manifest, have, outcome, bundle, proc, units, edits, known, inTime>>

Units == {"timer", "service"}
Files == {"gather.star", "gather.sh", "prompt.md", "template.md"} \cup UserFiles
Idle == [pc |-> "idle", file |-> "", todo |-> <<>>, table |-> NotConfigured, force |-> FALSE,
         plan |-> {}, stuck |-> {}]

Init ==
    /\ host \in Hosts /\ table \in Routines
    /\ manifest \in Manifests /\ have \in SUBSET Pieces
    /\ outcome = "error"
    /\ bundle = [f \in Files |-> "none"]
    /\ proc = [p \in {"init"} \cup Others |-> Idle]
    /\ units = [u \in Units |-> NoUnit]
    /\ edits = 0 /\ known = FALSE /\ inTime = {}

machine == <<host, table, manifest, have, outcome>>

-----------------------------------------------------------------------------
(* The manifest's check.  A result is a row: what it is about, and whether it  *)
(* is in order; a hard row that is not blocks the routine.                     *)

Row(item, ok, hard) == [item |-> item, ok |-> ok, hard |-> hard]

\* A command, a secret or a setting that is required.
PieceResult(p) == Row(<<"piece", p>>, p \in have, TRUE)

\* signalOK: what the command printed: white space, words, an empty JSON list or
\* null, something in JSON; or it failed.
SignalOK(expect) ==
    /\ outcome # "error"
    /\ \/ expect = "ok"
       \/ expect = "json-nonempty" /\ outcome = "full"
       \/ expect \notin {"ok", "json-nonempty"} /\ outcome # "space"

\* Expand: a placeholder of a setting that is not set is an error.
SignalResult(s) == Row(<<"signal", s.name>>, s.settings \subseteq have /\ SignalOK(s.expect), TRUE)

\* Optional.missing: a feature that lacks a piece is disabled, which is no failure.
OptionalResult(o) == Row(<<"optional", o>>, TRUE, FALSE)

UserFileResult(f) == Row(<<"file", f.path>>, bundle[f.path] # "none" \/ ~f.required, f.required)

\* capResults: hosts or prefixes are listed, and none of them, nor a method, is odd.
CapResults(caps) == {Row(<<"cap", c.is>>, c.is = "exec" \/ (c.of # {} /\ c.odd = {}), TRUE) : c \in caps}

\* Mutant: the signals are not asked.
Check_NoSignals(m) ==
    {PieceResult(p) : p \in m.requires}
      \cup {OptionalResult(o) : o \in m.optional} \cup {UserFileResult(f) : f \in m.files}
      \cup CapResults(m.caps)

Check(m) ==
    {PieceResult(p) : p \in m.requires}
      \cup {OptionalResult(o) : o \in m.optional} \cup {UserFileResult(f) : f \in m.files}
      \cup {SignalResult(s) : s \in m.signals} \cup CapResults(m.caps)

Failed(rows) == \E r \in rows : r.hard /\ ~r.ok

\* checkBlocks: neither a bundle without a manifest nor one that cannot be read.
Blocks == manifest.is = "read" /\ Failed(Check(manifest))

-----------------------------------------------------------------------------
(* Ensure: the files of the routine's kind, one after the other.             *)

Needs(t, f) ==
    \/ f = "gather.sh" /\ t.kind \in {"script", "fresh"}
    \/ f = "prompt.md" /\ t.kind \in {"fresh", "resumed"}
    \/ f = "template.md" /\ t.output
Default(t, f) == IF Needs(t, f) THEN <<f>> ELSE <<>>
Scaffold(t) == Default(t, "gather.sh") \o Default(t, "prompt.md") \o Default(t, "template.md")

\* The template over qilla.toml: the user's table and settings of the routine are gone,
\* and so is the list of hosts, without which each is an engine.
Overwrite ==
    /\ table' = host.template.table
    /\ have' = (have \ Settings) \cup host.template.settings
    /\ host' = [host EXCEPT !.engine = TRUE]
    /\ UNCHANGED <<manifest, outcome>>

\* Load, and what there is to write.
Start(p, force) ==
    /\ proc[p].pc \in {"idle", "done"}
    /\ p # "init" => ~force /\ Scaffold(table) # <<>>
    /\ IF force THEN Overwrite ELSE UNCHANGED machine
    /\ proc' = [proc EXCEPT ![p] = [Idle EXCEPT !.pc = "ensure", !.table = table', !.force = force,
                                                !.todo = Scaffold(table')]]
    /\ known' = (known \/ p = "init")
    /\ UNCHANGED <<bundle, units, edits, inTime>>

\* Mutant: whether there is a gather.star is not looked at.
Lacks_Sh(f) == bundle[f] = "none"

\* A gather.sh would win over a gather.star that is there.
Lacks(f) == bundle[f] = "none" /\ (f = "gather.sh" => bundle["gather.star"] = "none")

\* WriteFile: the file is there, and stays; or it is not, and will be written.
Look(p) ==
    /\ proc[p].pc = "ensure" /\ proc[p].file = "" /\ proc[p].todo # <<>>
    /\ LET f == Head(proc[p].todo)
       IN  proc' = [proc EXCEPT ![p].todo = Tail(@), ![p].file = IF Lacks(f) THEN f ELSE ""]
    /\ UNCHANGED <<machine, bundle, units, edits, known, inTime>>

WriteDefault(p) ==
    /\ proc[p].pc = "ensure" /\ proc[p].file # ""
    /\ \/ /\ bundle' = [bundle EXCEPT ![proc[p].file] = "default"]
          /\ known' = (known /\ (p = "init" \/ \A f \in manifest.files : f.path # proc[p].file))
       \/ UNCHANGED <<bundle, known>>
    /\ proc' = [proc EXCEPT ![p].file = ""]
    /\ UNCHANGED <<machine, units, edits, inTime>>

\* A command is done with it; init goes on.
Ensured(p) ==
    /\ proc[p].pc = "ensure" /\ proc[p].todo = <<>> /\ proc[p].file = ""
    /\ proc' = [proc EXCEPT ![p] = IF p = "init" THEN [@ EXCEPT !.pc = "check"] ELSE Idle]
    /\ UNCHANGED <<machine, bundle, units, edits, known, inTime>>

-----------------------------------------------------------------------------
(* The units.                                                                *)

\* agentUnits, engineUnits.
Timed(t) == t # NotConfigured /\ t.schedule # Manual /\ (host.engine \/ host.qmdRefresh)

\* Units, checkRoutinesForInit: a routine that is not ready has none, unless forced.
CheckRoutine ==
    /\ proc["init"].pc = "check"
    /\ LET i == proc["init"]
           blocked == i.table # NotConfigured /\ Blocks /\ ~i.force
       IN  proc' = [proc EXCEPT !["init"].pc = "prune",
                                !["init"].plan = IF Timed(i.table) /\ ~blocked THEN Units ELSE {}]
    /\ UNCHANGED <<machine, bundle, units, edits, known, inTime>>

\* A unit that is not of the plan is removed, or cannot be, which stops nobody; then
\* the plan's are written; nothing is put back when one of them fails.
Stale(u) == u \notin proc["init"].plan \cup proc["init"].stuck /\ units[u] # NoUnit

Prune(u) ==
    /\ proc["init"].pc = "prune" /\ Stale(u)
    /\ \/ units' = [units EXCEPT ![u] = NoUnit] /\ UNCHANGED proc
       \/ proc' = [proc EXCEPT !["init"].stuck = @ \cup {u}] /\ UNCHANGED units
    /\ UNCHANGED <<machine, bundle, edits, known, inTime>>

Pruned ==
    /\ proc["init"].pc = "prune"
    /\ \A u \in Units : ~Stale(u)
    /\ proc' = [proc EXCEPT !["init"].pc = "write"]
    /\ UNCHANGED <<machine, bundle, units, edits, known, inTime>>

WriteUnit(u) ==
    /\ proc["init"].pc = "write" /\ u \in proc["init"].plan
    /\ units[u] # proc["init"].table.schedule
    /\ \/ units' = [units EXCEPT ![u] = proc["init"].table.schedule] /\ UNCHANGED proc
       \/ proc' = [proc EXCEPT !["init"] = Idle] /\ UNCHANGED units
    /\ UNCHANGED <<machine, bundle, edits, known, inTime>>

Written ==
    /\ proc["init"].pc = "write"
    /\ \A u \in proc["init"].plan : units[u] = proc["init"].table.schedule
    /\ proc' = [proc EXCEPT !["init"] = [Idle EXCEPT !.pc = "done", !.force = proc["init"].force,
                                                     !.stuck = proc["init"].stuck]]
    /\ UNCHANGED <<machine, bundle, units, edits, known, inTime>>

Dies(p) ==
    /\ proc[p].pc \notin {"idle", "done"}
    /\ proc' = [proc EXCEPT ![p] = Idle]
    /\ UNCHANGED <<machine, bundle, units, edits, known, inTime>>

-----------------------------------------------------------------------------
(* What changes by hand: the configuration, the machine, the bundle.         *)

ByHand == edits < MaxEdits /\ edits' = edits + 1 /\ known' = FALSE

Configure(t) ==
    /\ ByHand /\ table # t
    /\ table' = t
    /\ UNCHANGED <<host, manifest, have, outcome, bundle, proc, units, inTime>>

Provide(h, o) ==
    /\ ByHand /\ <<h, o>> # <<have, outcome>>
    /\ have' = h /\ outcome' = o
    /\ UNCHANGED <<host, table, manifest, bundle, proc, units, inTime>>

Describe(m) ==
    /\ ByHand /\ manifest # m
    /\ manifest' = m
    /\ UNCHANGED <<host, table, have, outcome, bundle, proc, units, inTime>>

\* One whose Ensure has looked for the file, or for the other gather.
Behind(f) ==
    \E p \in DOMAIN proc :
      /\ proc[p].pc = "ensure"
      /\ proc[p].file = f \/ (f = "gather.star" /\ proc[p].file = "gather.sh")

Place(f) ==
    /\ ByHand /\ bundle[f] # "author"
    /\ bundle' = [bundle EXCEPT ![f] = "author"]
    /\ inTime' = IF Behind(f) \/ (f = "gather.star" /\ bundle["gather.sh"] = "default")
                 THEN inTime \ {f} ELSE inTime \cup {f}
    /\ UNCHANGED <<machine, proc, units>>

Next ==
    \/ \E p \in DOMAIN proc :
         \/ \E force \in BOOLEAN : Start(p, force)
         \/ Look(p) \/ WriteDefault(p) \/ Ensured(p) \/ Dies(p)
    \/ CheckRoutine \/ Pruned \/ Written
    \/ \E u \in Units : Prune(u) \/ WriteUnit(u)
    \/ \E t \in Routines \cup {NotConfigured} : Configure(t)
    \/ \E h \in SUBSET Pieces, o \in Outcomes : Provide(h, o)
    \/ \E m \in Manifests : Describe(m)
    \/ \E f \in Authored : Place(f)

Spec == Init /\ [][Next]_vars

\* worker.gather: a gather.sh wins.
GatherIs ==
    IF bundle["gather.sh"] # "none" THEN "gather.sh"
    ELSE IF bundle["gather.star"] # "none" THEN "gather.star" ELSE "none"

-----------------------------------------------------------------------------
(* Properties.                                                              *)

TypeOK ==
    /\ table \in Routines \cup {NotConfigured} /\ manifest \in Manifests /\ have \subseteq Pieces
    /\ bundle \in [Files -> {"none", "default", "author"}]
    /\ \A p \in DOMAIN proc : proc[p].file \in Files \cup {""} /\ proc[p].plan \cup proc[p].stuck \subseteq Units
    /\ edits \in 0..MaxEdits /\ inTime \subseteq Files

\* What the manifest asks for is there.
Ready ==
    manifest.is = "read" =>
        /\ manifest.requires \subseteq have
        /\ \A f \in manifest.files : f.required => bundle[f.path] # "none"
        /\ \A s \in manifest.signals :
             /\ s.settings \subseteq have
             /\ outcome \in CASE s.expect = "ok" -> {"space", "words", "empty", "full"}
                              [] s.expect = "json-nonempty" -> {"full"}
                              [] OTHER -> {"words", "empty", "full"}
        /\ \A c \in manifest.caps : c.is # "exec" => c.of # {} /\ c.odd = {}

\* What the routine is to be timed by.
TimedBy ==
    IF table # NotConfigured /\ (host.engine \/ host.qmdRefresh) /\ (Ready \/ proc["init"].force)
    THEN table.schedule ELSE NoUnit

\* README.md: "`qilla init` warns for every configured routine and writes no timer for
\* one that fails a hard check".  When it is over and nothing that it looks at changed
\* since it began, whatever earlier inits, ended or not, left there, the routine's timer
\* and its service are of the schedule it is configured with (with --force, the one the
\* template has), if this host times it and it is ready, or forced; and else there is
\* neither, but for one that could not be removed.
TimerMeansReady ==
    known /\ proc["init"].pc = "done" =>
        \A u \in Units :
            units[u] = TimedBy \/ (TimedBy = NoUnit /\ u \in proc["init"].stuck)

\* ensure.go: "Existing files are never touched"; a gather.sh "would silently win over"
\* a gather.star.  What the author has put there stays, and his gather.star is the one
\* that runs, unless the file was put there after a process had looked for it - then it
\* is written over, or a gather.sh is written beside it, or stands there already.
AuthorsFilesStand ==
    /\ \A f \in inTime : bundle[f] = "author"
    /\ "gather.star" \in inTime /\ bundle["gather.sh"] # "author" => GatherIs = "gather.star"
=============================================================================
