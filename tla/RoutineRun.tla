------------------------------- MODULE RoutineRun ------------------------------
(***************************************************************************)
(* A run of a routine that gathers its own input (Worker.run and gather,      *)
(* worker/secrets.go, claude.Run, render.Knap): the gather sees the secrets,   *)
(* the model does not; a fresh run whose input has the digest of the last      *)
(* success is skipped; of a result, memory, artifacts, the vault's commit,     *)
(* the note and the digest are written one after the other, each in a place    *)
(* of its own.  The supervisor runs the routine, and so may `qilla run` at the  *)
(* same time.                                                                *)
(*                                                                         *)
(* An input stands for its digest, and for the note made from it.             *)
(***************************************************************************)
EXTENDS Naturals

CONSTANTS
    Processes,  \* who runs the routine
    Routines,   \* the routines looked at: their kind ("script", "fresh", "resumed") and commit
    Inputs,     \* what there is to gather, numbers from 1
    MaxChanges, \* bound: changes of it
    MaxRuns,    \* bound: runs
    MaxFaults   \* bound: steps that fail and processes that die

VARIABLES
    routine,    \* the one that is run
    world,      \* the input a gather would see
    run,        \* per process: program counter, input, outcome of its last run
    mounted,    \* processes whose secrets directory is there
    digest,     \* digests: of the last success
    note,       \* the input the routine's note was made from
    head,       \* the same, of the note in the vault's last commit
    remembered, \* results given to memory
    imported,   \* results whose artifacts were put in the store
    changes, runs, faults,
    disturbed   \* history: two runs overlapped, or a note has no digest of its own

vars == <<routine, world, run, mounted, digest, note, head, remembered,
          imported, changes, runs, faults, disturbed>>

None == 0
AtRest == [pc |-> "idle", input |-> None, outcome |-> "none"]

Init ==
    /\ routine \in Routines
    /\ world \in Inputs
    /\ run = [p \in Processes |-> AtRest]
    /\ mounted = {} /\ digest = None /\ note = None /\ head = None
    /\ remembered = 0 /\ imported = 0 /\ changes = 0 /\ runs = 0 /\ faults = 0
    /\ disturbed = FALSE

Goes(p, pc) == run' = [run EXCEPT ![p].pc = pc]
Ends(p, outcome) == run' = [run EXCEPT ![p] = [AtRest EXCEPT !.outcome = outcome]]
Faults == faults < MaxFaults /\ faults' = faults + 1

\* The parts of the state that a step leaves alone.
given == <<routine, world, changes, runs>>
outputs == <<digest, note, head, remembered, imported>>

-----------------------------------------------------------------------------

\* mountSecrets, unless none are declared or systemd has mounted them; what it
\* returns removes the directory.
Mount(p) == mounted' \in {mounted, mounted \cup {p}}
Cleanup(p) == mounted' = mounted \ {p}

\* gatherEnv mounts the secrets for the gather.
Begin(p) ==
    /\ run[p].pc = "idle" /\ runs < MaxRuns
    /\ runs' = runs + 1
    /\ run' = [run EXCEPT ![p] = [AtRest EXCEPT !.pc = "gather"]]
    /\ Mount(p)
    /\ disturbed' = (disturbed \/ \E q \in Processes : run[q].pc # "idle")
    /\ UNCHANGED <<routine, world, changes, outputs, faults>>

\* gather.sh or gather.star ran, with an input or an error; the secrets go.
Gather(p) ==
    /\ run[p].pc = "gather"
    /\ Cleanup(p)
    /\ \/ Faults /\ Ends(p, "failed")
       \/ UNCHANGED faults /\ run' = [run EXCEPT ![p].pc = "gathered", ![p].input = world]
    /\ UNCHANGED <<given, outputs, disturbed>>

Skips(p) == routine.kind = "fresh" /\ digest = run[p].input

\* A script renders its input; a routine with a prompt is skipped, fails for good
\* because its prompt, rules or agent are missing, or goes to the model.
Gathered(p) ==
    /\ run[p].pc = "gathered"
    /\ IF Skips(p) THEN Ends(p, "skipped") /\ UNCHANGED faults
       ELSE \/ routine.kind # "script" /\ Faults /\ Ends(p, "terminal")
            \/ Goes(p, IF routine.kind = "script" THEN "render" ELSE "prompt") /\ UNCHANGED faults
    /\ UNCHANGED <<given, mounted, outputs, disturbed>>

\* Build: layers that are missing are noted; a scope that cannot be read is an error.
Build(p) ==
    /\ run[p].pc = "prompt"
    /\ \/ Faults /\ Ends(p, "failed")
       \/ Goes(p, "settings") /\ UNCHANGED faults
    /\ UNCHANGED <<given, mounted, outputs, disturbed>>

\* systemPromptFile and settingsFile: without them the model is not run.
SettingsFile(p) ==
    /\ run[p].pc = "settings"
    /\ \/ Faults /\ Ends(p, "failed")
       \/ Goes(p, "claude") /\ UNCHANGED faults
    /\ UNCHANGED <<given, mounted, outputs, disturbed>>

\* RateLimited: the run is put off, and has done nothing.
RateLimited(p) == Faults /\ Ends(p, "deferred")

\* claude.Run: no result, an error for one, denied tools and nothing said.
NoResult(p) == Faults /\ \E o \in {"failed", "terminal"} : Ends(p, o)

Claude(p) ==
    /\ run[p].pc = "claude"
    /\ \/ RateLimited(p) \/ NoResult(p)
       \/ Goes(p, "remember") /\ UNCHANGED faults
    /\ UNCHANGED <<given, mounted, outputs, disturbed>>

\* jsonOrStringRecovered: there is JSON in the answer, plain, fenced or in braces.
\* Then remember and judge give it to memory.
Remember(p) ==
    /\ run[p].pc = "remember"
    /\ \E json \in BOOLEAN :
         /\ remembered' = IF json THEN remembered + 1 ELSE remembered
         /\ Goes(p, IF json THEN "import" ELSE IF routine.commit THEN "commit" ELSE "render")
    /\ UNCHANGED <<given, mounted, digest, note, head, imported, faults, disturbed>>

ImportArtifacts(p) ==
    /\ run[p].pc = "import"
    /\ imported' = imported + 1
    /\ Goes(p, IF routine.commit THEN "commit" ELSE "render")
    /\ UNCHANGED <<given, mounted, digest, note, head, remembered, faults, disturbed>>

\* commitVault: what is in the vault now; an error is a warning of the run.
CommitVault(p) ==
    /\ run[p].pc = "commit"
    /\ \/ Faults /\ UNCHANGED head
       \/ head' = note /\ UNCHANGED faults
    /\ Goes(p, "render")
    /\ UNCHANGED <<given, mounted, digest, note, remembered, imported, disturbed>>

\* Mutant: the digest is put down before the note is rendered.
Digested_First(p) == IF run[p].pc = "render" THEN run[p].input ELSE digest

\* Nothing else writes the digest.
Digested(p) == IF run[p].pc = "digest" THEN run[p].input ELSE digest

\* Render; a script has no digest.
Render(p) ==
    /\ run[p].pc = "render"
    /\ \/ Faults /\ Ends(p, "failed") /\ UNCHANGED note
       \/ /\ note' = run[p].input /\ UNCHANGED faults
          /\ IF routine.kind = "script" THEN Ends(p, "ok") ELSE Goes(p, "digest")
    /\ digest' = Digested(p)
    /\ UNCHANGED <<given, mounted, head, remembered, imported, disturbed>>

\* setDigest: an error is not noticed.
SetDigest(p) ==
    /\ run[p].pc = "digest"
    /\ \/ Faults /\ disturbed' = TRUE /\ UNCHANGED digest
       \/ digest' = Digested(p) /\ UNCHANGED <<faults, disturbed>>
    /\ Ends(p, "ok")
    /\ UNCHANGED <<given, mounted, note, head, remembered, imported>>

\* The process dies; its secrets directory stays.
Dies(p) ==
    /\ run[p].pc # "idle" /\ Faults
    /\ Ends(p, "died")
    /\ disturbed' = (disturbed \/ run[p].pc = "digest")
    /\ UNCHANGED <<given, mounted, outputs>>

Change ==
    /\ changes < MaxChanges
    /\ changes' = changes + 1
    /\ world' \in Inputs \ {world}
    /\ UNCHANGED <<routine, run, mounted, outputs, runs, faults, disturbed>>

Next ==
    \/ \E p \in Processes :
         \/ Begin(p) \/ Gather(p) \/ Gathered(p) \/ Build(p) \/ SettingsFile(p)
         \/ Claude(p) \/ Remember(p) \/ ImportArtifacts(p)
         \/ CommitVault(p) \/ Render(p) \/ SetDigest(p) \/ Dies(p)
    \/ Change

Spec == Init /\ [][Next]_vars

-----------------------------------------------------------------------------
(* Properties.                                                              *)

TypeOK ==
    /\ world \in Inputs /\ digest \in {None} \cup Inputs /\ note \in {None} \cup Inputs
    /\ head \in {None} \cup Inputs /\ remembered \in 0..MaxRuns /\ imported \in 0..remembered
    /\ mounted \subseteq Processes
    /\ \A p \in Processes :
         /\ run[p].pc \in {"idle", "gather", "gathered", "prompt", "settings", "claude", "remember",
                          "import", "commit", "render", "digest"}
         /\ run[p].input \in {None} \cup Inputs

\* worker.go: "skip when nothing changed since the last success".  A run is skipped
\* only if the note is of the very input it gathered, whatever steps of earlier runs
\* failed and however often the input went back and forth: a failure between the note
\* and the digest, and runs that overlap, apart.
SkippedIsShown ==
    [][\A p \in Processes :
          run'[p].outcome = "skipped" => run[p].outcome = "skipped" \/ note = run[p].input \/ disturbed]_vars
=============================================================================
