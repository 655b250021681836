------------------------------ MODULE JudgeRun ------------------------------
(***************************************************************************)
(* One run of a judge routine: an ai-fresh routine whose input is the      *)
(* pending file (internal/worker/worker.go: run, inputPending,             *)
(* dropPending; cmd/qilla/enqueue.go parks the items).                     *)
(*                                                                         *)
(* The run reads the file, compares its digest with the one of the last    *)
(* success, asks the model (minutes), takes the judged items out of the    *)
(* file, renders the note, and remembers the digest.  `qilla enqueue`      *)
(* appends to the file meanwhile, and `qilla run` executes a second worker *)
(* beside the supervisor's: nothing locks the file.  The unit of atomicity *)
(* is one system call or SQL statement; rewriting the file is two          *)
(* (os.WriteFile truncates, then writes).                                  *)
(***************************************************************************)
EXTENDS Naturals

CONSTANTS
    Items,      \* candidates that may be parked
    Workers,    \* the supervisor's job, a `qilla run` by hand
    Once,       \* bound: the workers that run a single time
    MaxFaults   \* bound: failing models and renders, deaths

ASSUME BoundAssumption == MaxFaults \in Nat

VARIABLES
    pending,    \* the pending file: does it exist, its whole lines, a damaged line
    client,     \* per item: how far `qilla enqueue` is with it
    digest,     \* the input whose digest is on record for the routine
    run,        \* per worker: program counter and locals
    faults,
    (* history, read by properties only *)
    judged,     \* items a model told a run to take out
    rendered,   \* items of the inputs whose runs got through to the rendering
    disturbed   \* a rewrite overlapped an append or a rewrite, or was cut short

vars == <<pending, client, digest, run, faults, judged, rendered, disturbed>>
history == <<judged, rendered, disturbed>>

File == [exists: BOOLEAN, lines: SUBSET Items, damaged: BOOLEAN]
NoFile == [exists |-> FALSE, lines |-> {}, damaged |-> FALSE]

\* What inputPending makes of the file.  An empty list is the JSON null, a
\* damaged line makes the whole list the empty string.
Input == [text: {"[]", "null", "", "list"}, items: SUBSET Items]
Gathered ==
    CASE ~pending.exists -> [text |-> "[]", items |-> {}]
      [] pending.exists /\ pending.damaged -> [text |-> "", items |-> {}]
      [] OTHER -> [text |-> IF pending.lines = {} THEN "null" ELSE "list",
                   items |-> pending.lines]
NoInput == [text |-> "none", items |-> {}]

RunPCs == {"idle", "done", "gathered", "model", "drop", "truncate", "write", "render", "digest"}
Locals == [pc: RunPCs, input: Input \cup {NoInput}, drop: SUBSET Items, keep: File]
AtRest == [pc |-> "idle", input |-> NoInput, drop |-> {}, keep |-> NoFile]
Over(w) == [AtRest EXCEPT !.pc = IF w \in Once THEN "done" ELSE "idle"]

Init ==
    /\ pending = NoFile
    /\ client = [i \in Items |-> "off"]
    /\ digest = NoInput
    /\ run = [w \in Workers |-> AtRest]
    /\ faults = 0
    /\ judged = {} /\ rendered = {}
    /\ disturbed = FALSE

Rewriting(w) == run[w].pc \in {"truncate", "write"}

-----------------------------------------------------------------------------
(* qilla enqueue <judge> --text: open or create the file, append one line.  *)

OpenPending(i) ==
    /\ client[i] = "off"
    /\ client' = [client EXCEPT ![i] = "open"]
    /\ pending' = [pending EXCEPT !.exists = TRUE]
    /\ UNCHANGED <<digest, run, faults, history>>

ParkItem(i) ==
    /\ client[i] = "open"
    /\ client' = [client EXCEPT ![i] = "parked"]
    /\ pending' = [pending EXCEPT !.lines = @ \cup {i}]
    /\ disturbed' = (disturbed \/ \E w \in Workers : Rewriting(w))
    /\ UNCHANGED <<digest, run, faults, judged, rendered>>

-----------------------------------------------------------------------------
(* The run.                                                                 *)

Gather(w) ==
    /\ run[w].pc = "idle"
    /\ run' = [run EXCEPT ![w] = [AtRest EXCEPT !.pc = "gathered", !.input = Gathered]]
    /\ UNCHANGED <<pending, client, digest, faults, history>>

\* Nothing queued.
SkipEmpty(w) ==
    /\ run[w].pc = "gathered"
    /\ run[w].input.text = "[]"
    /\ run' = [run EXCEPT ![w] = Over(w)]
    /\ UNCHANGED <<pending, client, digest, faults, history>>

SkipUnchanged(w) ==
    /\ run[w].pc = "gathered"
    /\ run[w].input.text # "[]"
    /\ run[w].input = digest
    /\ run' = [run EXCEPT ![w] = Over(w)]
    /\ UNCHANGED <<pending, client, digest, faults, history>>

\* Everything between the digest and the model's answer: rules, prompt, agent,
\* sandbox settings are read, and nothing but the run's record is written.
CallModel(w) ==
    /\ run[w].pc = "gathered"
    /\ run[w].input.text # "[]"
    /\ run[w].input # digest
    /\ run' = [run EXCEPT ![w].pc = "model"]
    /\ UNCHANGED <<pending, client, digest, faults, history>>

\* A prompt, agent or setting is missing, claude fails, is limited or denied.
ModelFails(w) ==
    /\ run[w].pc = "model"
    /\ faults < MaxFaults
    /\ faults' = faults + 1
    /\ run' = [run EXCEPT ![w] = Over(w)]
    /\ UNCHANGED <<pending, client, digest, history>>

\* The answer is an object: the ids in `drop`, or else those of its items.
ModelJudges(w, drop) ==
    /\ run[w].pc = "model"
    /\ drop \subseteq run[w].input.items
    /\ run' = [run EXCEPT ![w].pc = "drop", ![w].drop = drop]
    /\ judged' = judged \cup drop
    /\ UNCHANGED <<pending, client, digest, faults, rendered, disturbed>>

\* The answer is prose: the pending file is left alone.
ModelAnswersProse(w) ==
    /\ run[w].pc = "model"
    /\ run' = [run EXCEPT ![w].pc = "render"]
    /\ UNCHANGED <<pending, client, digest, faults, history>>

\* Mutant: the file is rewritten from what the run gathered before the model.
ReadPending_Gathered(w) ==
    /\ run[w].pc = "drop"
    /\ run' = [run EXCEPT ![w].pc = "truncate",
                          ![w].keep = [pending EXCEPT !.lines = run[w].input.items \ run[w].drop],
                          ![w].drop = {}]
    /\ disturbed' = (disturbed \/ \E other \in Workers : Rewriting(other))
    /\ UNCHANGED <<pending, client, digest, faults, judged, rendered>>

\* dropPending reads the file again and keeps what was not judged, and what it
\* cannot parse.  Without a file there is nothing to do.
ReadPending(w) ==
    /\ run[w].pc = "drop"
    /\ run' = [run EXCEPT ![w].pc = IF pending.exists THEN "truncate" ELSE "render",
                          ![w].keep = [pending EXCEPT !.lines = @ \ run[w].drop],
                          ![w].drop = {}]
    /\ disturbed' = (disturbed \/ \E other \in Workers : Rewriting(other))
    /\ UNCHANGED <<pending, client, digest, faults, judged, rendered>>

TruncatePending(w) ==
    /\ run[w].pc = "truncate"
    /\ pending' = [NoFile EXCEPT !.exists = TRUE]
    /\ run' = [run EXCEPT ![w].pc = "write"]
    /\ UNCHANGED <<client, digest, faults, history>>

\* The write starts at the beginning of the file, over whatever was appended
\* since: some whole lines of that may be left behind it, and half a line.
WritePending(w) ==
    LET keep == run[w].keep
    IN  /\ run[w].pc = "write"
        /\ \/ /\ pending.lines = {} /\ ~pending.damaged
              /\ pending' = keep
           \/ /\ pending.lines # {} \/ pending.damaged
              /\ \E left \in SUBSET pending.lines, damaged \in BOOLEAN :
                   /\ left # pending.lines \/ pending.damaged
                   /\ pending' = [keep EXCEPT !.lines = @ \cup left,
                                              !.damaged = @ \/ damaged]
        /\ run' = [run EXCEPT ![w].pc = "render", ![w].keep = NoFile]
        /\ UNCHANGED <<client, digest, faults, history>>

Render(w) ==
    /\ run[w].pc = "render"
    /\ run' = [run EXCEPT ![w].pc = "digest"]
    /\ rendered' = rendered \cup run[w].input.items
    /\ UNCHANGED <<pending, client, digest, faults, judged, disturbed>>

\* The judged items are out of the file already.
RenderFails(w) ==
    /\ run[w].pc = "render"
    /\ faults < MaxFaults
    /\ faults' = faults + 1
    /\ run' = [run EXCEPT ![w] = Over(w)]
    /\ UNCHANGED <<pending, client, digest, history>>

\* Mutant: the digest of the file as it is now.
SetDigest_Current(w) ==
    /\ run[w].pc = "digest"
    /\ digest' = Gathered
    /\ run' = [run EXCEPT ![w] = Over(w)]
    /\ UNCHANGED <<pending, client, faults, history>>

SetDigest(w) ==
    /\ run[w].pc = "digest"
    /\ digest' = run[w].input
    /\ run' = [run EXCEPT ![w] = Over(w)]
    /\ UNCHANGED <<pending, client, faults, history>>

\* The process dies.
Dies(w) ==
    /\ run[w].pc \notin {"idle", "done"}
    /\ faults < MaxFaults
    /\ faults' = faults + 1
    /\ run' = [run EXCEPT ![w] = Over(w)]
    /\ disturbed' = (disturbed \/ run[w].pc = "write")
    /\ UNCHANGED <<pending, client, digest, judged, rendered>>

Enqueue(i) == OpenPending(i) \/ ParkItem(i)

Step(w) ==
    \/ SkipEmpty(w)
    \/ SkipUnchanged(w)
    \/ CallModel(w)
    \/ \E drop \in SUBSET Items : ModelJudges(w, drop)
    \/ ModelAnswersProse(w)
    \/ ReadPending(w)
    \/ TruncatePending(w)
    \/ WritePending(w)
    \/ Render(w)
    \/ SetDigest(w)

Next ==
    \/ \E i \in Items : Enqueue(i)
    \/ \E w \in Workers : \/ Gather(w) \/ Step(w)
                          \/ ModelFails(w) \/ RenderFails(w) \/ Dies(w)

Spec == Init /\ [][Next]_vars

-----------------------------------------------------------------------------
(* Properties.                                                              *)

Typed ==
    /\ pending \in File
    /\ client \in [Items -> {"off", "open", "parked"}]
    /\ digest \in Input \cup {NoInput}
    /\ run \in [Workers -> Locals]
    /\ faults \in 0..MaxFaults
    /\ judged \subseteq Items /\ rendered \subseteq Items
    /\ disturbed \in BOOLEAN

\* Nothing removes the file: who parks an item or rewrites the list has one.
FileInv ==
    /\ pending.exists \/ pending = NoFile
    /\ \A i \in Items : client[i] # "off" => pending.exists
    /\ \A w \in Workers : Rewriting(w) => run[w].keep.exists

TypeOK == Typed /\ FileInv

\* Until a rewrite of the file is disturbed, no parked item is lost: it is in
\* the file (or in the hands of the one run that has just emptied it), or a
\* model told a run to drop it.
NothingLostUndisturbed ==
    \A i \in Items :
        client[i] = "parked" /\ ~disturbed
            => \/ i \in pending.lines \cup judged
               \/ \E w \in Workers : run[w].pc = "write" /\ i \in run[w].keep.lines

\* Every item parked in an undisturbed file gets through in the end: it is
\* judged, or in the input of a run that renders its note.
ParkedIsAnswered ==
    \A i \in Items : client[i] = "parked" ~> (i \in judged \cup rendered \/ disturbed)
=============================================================================
