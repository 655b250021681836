----------------------------- MODULE GmailStage -----------------------------
(***************************************************************************)
(* The staging ledger of Gmail messages to trash (internal/gmail/gmail.go,   *)
(* cmd/qilla/gmail.go).  A routine stages messages; `qilla gmail apply`      *)
(* reads the stage file, trashes what it read batch by batch (minutes), logs *)
(* what went through in the applied ledger, and replaces the stage file by   *)
(* what is left.  The user may take a message out of the trash again.        *)
(* Nothing locks the files; no two commands share more than these.           *)
(*                                                                           *)
(* A ledger is the set of its messages: notes, attempts, errors and repeated *)
(* lines are left out, and so is apply --dry-run, which changes nothing.     *)
(***************************************************************************)
EXTENDS FiniteSets, Naturals

CONSTANTS
    Msgs,       \* messages: account and id
    Account,    \* the account of each message
    Stagers,    \* `qilla gmail stage` commands
    Batch,      \* the messages each of them is given
    Appliers,   \* `qilla gmail apply` commands
    Gated,      \* those with --only-if-run-ok
    Chunk,      \* messages per request to Gmail
    MaxRuns,    \* bound: runs of the reading routine
    MaxFaults   \* bound: failing accounts and requests, deaths

VARIABLES
    stage,      \* the stage file
    tmp,        \* its temporary file
    applied,    \* the applied ledger
    trash,      \* Gmail: the messages in the trash
    reader,     \* the reading routine: the messages with no entry newer than the
                \* start of its run, and of its newest ok run
    stager,     \* per command: program counter and locals
    apply,      \* per command: program counter and locals
    faults,
    (* history, read by properties only *)
    trashed,    \* messages a command trashed, and not staged again since
    undone,     \* those of them the user took out of the trash
    overlapped, \* two applies overlapped
    cut         \* an apply was cut short, or a request failed that was carried out

vars == <<stage, tmp, applied, trash, reader, stager, apply, faults,
          trashed, undone, overlapped, cut>>
files == <<stage, tmp, applied>>
history == <<trashed, undone, overlapped, cut>>

NoTmp == [there |-> FALSE, lines |-> {}]
NotStaging == [pc |-> "off", add |-> {}, attached |-> FALSE]
NotApplying == [pc |-> "off", todo |-> {}, keep |-> {}, done |-> {}]

Init ==
    /\ stage = {} /\ tmp = NoTmp /\ applied = {}
    /\ trash = {}
    /\ reader = [runs |-> 0, running |-> FALSE, begun |-> {}, ok |-> FALSE, covered |-> {}]
    /\ stager = [s \in Stagers |-> NotStaging]
    /\ apply = [p \in Appliers |-> NotApplying]
    /\ faults = 0
    /\ trashed = {} /\ undone = {}
    /\ overlapped = FALSE /\ cut = FALSE

-----------------------------------------------------------------------------
(* The reading routine.                                                     *)

ReaderStarts ==
    /\ ~reader.running /\ reader.runs < MaxRuns
    /\ reader' = [reader EXCEPT !.runs = @ + 1, !.running = TRUE, !.begun = Msgs]
    /\ UNCHANGED <<files, trash, stager, apply, faults, history>>

ReaderEnds(ok) ==
    /\ reader.running
    /\ reader' = [reader EXCEPT !.running = FALSE, !.begun = {}, !.ok = @ \/ ok,
                                !.covered = IF ok THEN reader.begun ELSE @]
    /\ UNCHANGED <<files, trash, stager, apply, faults, history>>

-----------------------------------------------------------------------------
(* qilla gmail stage.                                                       *)

\* Messages that are pending already are not staged again.  The others carry
\* the time of this moment: a run that has started did not start after them.
ReadForStage(s) ==
    /\ stager[s].pc = "off"
    /\ stager' = [stager EXCEPT ![s] =
         IF Batch[s] \subseteq stage THEN [@ EXCEPT !.pc = "done"]
         ELSE [pc |-> "append", add |-> Batch[s] \ stage, attached |-> TRUE]]
    /\ reader' = [reader EXCEPT !.begun = @ \ (Batch[s] \ stage),
                                !.covered = @ \ (Batch[s] \ stage)]
    /\ UNCHANGED <<files, trash, apply, faults, history>>

\* One write per line; a rename may have replaced the file since it was opened.
AppendStaged(s, m) ==
    /\ stager[s].pc = "append"
    /\ m \in stager[s].add
    /\ stage' = IF stager[s].attached THEN stage \cup {m} ELSE stage
    /\ trashed' = trashed \ {m} /\ undone' = undone \ {m}
    /\ stager' = [stager EXCEPT ![s].add = @ \ {m},
                                ![s].pc = IF stager[s].add = {m} THEN "done" ELSE @]
    /\ UNCHANGED <<tmp, applied, trash, reader, apply, faults, overlapped, cut>>

-----------------------------------------------------------------------------
(* qilla gmail apply.                                                       *)

\* Gate: the newest ok run must have started after everything staged.
GatePasses(p) ==
    /\ apply[p].pc = "off" /\ p \in Gated
    /\ reader.ok /\ stage \subseteq reader.covered
    /\ apply' = [apply EXCEPT ![p].pc = "read"]
    /\ UNCHANGED <<files, trash, reader, stager, faults, history>>

GateRefuses(p) ==
    /\ apply[p].pc = "off" /\ p \in Gated
    /\ ~reader.ok \/ ~(stage \subseteq reader.covered)
    /\ apply' = [apply EXCEPT ![p].pc = "done"]
    /\ UNCHANGED <<files, trash, reader, stager, faults, history>>

Busy(p) == apply[p].pc \in {"trash", "log", "tmp", "rename"}

\* The stage file is read (again), for the accounts asked for: one, or all.
ReadStage(p, accounts) ==
    /\ apply[p].pc = "read" \/ (apply[p].pc = "off" /\ p \notin Gated)
    /\ LET todo == {m \in stage : Account[m] \in accounts}
       IN apply' = [apply EXCEPT ![p] = [pc |-> "trash", todo |-> todo,
                                         keep |-> stage \ todo, done |-> {}]]
    /\ overlapped' = (overlapped \/ \E other \in Appliers : Busy(other))
    /\ UNCHANGED <<files, trash, reader, stager, faults, trashed, undone, cut>>

\* No token, or none that can be refreshed: the account's messages stay staged.
AccountFails(p, account) ==
    LET batch == {m \in apply[p].todo : Account[m] = account}
    IN  /\ apply[p].pc = "trash" /\ batch # {}
        /\ \A m \in apply[p].done : Account[m] # account
        /\ faults < MaxFaults
        /\ faults' = faults + 1
        /\ apply' = [apply EXCEPT ![p].todo = @ \ batch, ![p].keep = @ \cup batch]
        /\ UNCHANGED <<files, trash, reader, stager, history>>

\* A request: messages of one account, Chunk at most.
IsBatch(p, batch) ==
    /\ apply[p].pc = "trash"
    /\ batch # {} /\ batch \subseteq apply[p].todo
    /\ \A m, n \in batch : Account[m] = Account[n]
    /\ Cardinality(batch) <= Chunk

BatchTrashed(p, batch) ==
    /\ IsBatch(p, batch)
    /\ trash' = trash \cup batch
    /\ trashed' = trashed \cup batch
    /\ apply' = [apply EXCEPT ![p].todo = @ \ batch, ![p].done = @ \cup batch]
    /\ UNCHANGED <<files, reader, stager, faults, undone, overlapped, cut>>

\* The request fails, and may have been carried out all the same.
BatchFails(p, batch, carriedOut) ==
    /\ IsBatch(p, batch)
    /\ faults < MaxFaults
    /\ faults' = faults + 1
    /\ trash' = IF carriedOut THEN trash \cup batch ELSE trash
    /\ trashed' = IF carriedOut THEN trashed \cup batch ELSE trashed
    /\ cut' = (cut \/ carriedOut)
    /\ apply' = [apply EXCEPT ![p].todo = @ \ batch, ![p].keep = @ \cup batch]
    /\ UNCHANGED <<files, reader, stager, undone, overlapped>>

RequestsDone(p) ==
    /\ apply[p].pc = "trash" /\ apply[p].todo = {}
    /\ apply' = [apply EXCEPT ![p].pc = IF apply[p].done = {} THEN "tmp" ELSE "log"]
    /\ UNCHANGED <<files, trash, reader, stager, faults, history>>

\* One line of the applied ledger per write.
LogApplied(p, m) ==
    /\ apply[p].pc = "log" /\ m \in apply[p].done
    /\ applied' = applied \cup {m}
    /\ apply' = [apply EXCEPT ![p].done = @ \ {m},
                              ![p].pc = IF apply[p].done = {m} THEN "tmp" ELSE @]
    /\ UNCHANGED <<stage, tmp, trash, reader, stager, faults, history>>

WriteTmp(p) ==
    /\ apply[p].pc = "tmp"
    /\ tmp' = [there |-> TRUE, lines |-> apply[p].keep]
    /\ apply' = [apply EXCEPT ![p].pc = "rename"]
    /\ UNCHANGED <<stage, applied, trash, reader, stager, faults, history>>

\* Mutant: what was read is left staged.
ReplaceStage_AsRead(p) ==
    /\ apply[p].pc = "rename" /\ tmp.there
    /\ stage' = stage \cup tmp.lines
    /\ tmp' = NoTmp
    /\ apply' = [apply EXCEPT ![p] = [NotApplying EXCEPT !.pc = "done"]]
    /\ UNCHANGED <<applied, trash, reader, stager, faults, history>>

ReplaceStage(p) ==
    /\ apply[p].pc = "rename" /\ tmp.there
    /\ stage' = tmp.lines
    /\ tmp' = NoTmp
    /\ stager' = [s \in Stagers |-> [stager[s] EXCEPT !.attached = FALSE]]
    /\ apply' = [apply EXCEPT ![p] = [NotApplying EXCEPT !.pc = "done"]]
    /\ UNCHANGED <<applied, trash, reader, faults, history>>

\* The command dies, a write fails, or another apply renamed the file away.
ApplyEnds(p) ==
    /\ Busy(p)
    /\ \/ /\ apply[p].pc = "rename" /\ ~tmp.there
          /\ UNCHANGED faults
       \/ /\ faults < MaxFaults
          /\ faults' = faults + 1
    /\ apply' = [apply EXCEPT ![p] = [NotApplying EXCEPT !.pc = "done"]]
    /\ cut' = TRUE
    /\ UNCHANGED <<files, trash, reader, stager, trashed, undone, overlapped>>

-----------------------------------------------------------------------------
\* qilla gmail untrash, or the user in the mailbox.
Untrash(m) ==
    /\ m \in trash
    /\ trash' = trash \ {m}
    /\ undone' = undone \cup ({m} \cap trashed)
    /\ UNCHANGED <<files, reader, stager, apply, faults, trashed, overlapped, cut>>

Stage(s) == ReadForStage(s) \/ \E m \in Msgs : AppendStaged(s, m)

Apply(p) ==
    \/ GatePasses(p)
    \/ GateRefuses(p)
    \/ \E m \in Msgs : ReadStage(p, {Account[m]})
    \/ ReadStage(p, {Account[m] : m \in Msgs})
    \/ \E m \in Msgs : AccountFails(p, Account[m])
    \/ \E batch \in SUBSET Msgs : BatchTrashed(p, batch)
    \/ \E batch \in SUBSET Msgs, carriedOut \in BOOLEAN : BatchFails(p, batch, carriedOut)
    \/ RequestsDone(p)
    \/ \E m \in Msgs : LogApplied(p, m)
    \/ WriteTmp(p)
    \/ ReplaceStage(p)
    \/ ApplyEnds(p)

Next ==
    \/ ReaderStarts
    \/ \E ok \in BOOLEAN : ReaderEnds(ok)
    \/ \E s \in Stagers : Stage(s)
    \/ \E p \in Appliers : Apply(p)
    \/ \E m \in Msgs : Untrash(m)

Spec == Init /\ [][Next]_vars

-----------------------------------------------------------------------------
(* Properties.                                                              *)

TypeOK ==
    /\ stage \subseteq Msgs /\ applied \subseteq Msgs
    /\ tmp \in [there: BOOLEAN, lines: SUBSET Msgs]
    /\ trash \subseteq Msgs
    /\ reader \in [runs: 0..MaxRuns, running: BOOLEAN, begun: SUBSET Msgs, ok: BOOLEAN, covered: SUBSET Msgs]
    /\ stager \in [Stagers -> [pc: {"off", "append", "done"}, add: SUBSET Msgs, attached: BOOLEAN]]
    /\ apply \in [Appliers -> [pc: {"off", "read", "trash", "log", "tmp", "rename", "done"},
                               todo: SUBSET Msgs, keep: SUBSET Msgs, done: SUBSET Msgs]]
    /\ faults \in 0..MaxFaults
    /\ trashed \subseteq Msgs /\ undone \subseteq Msgs
    /\ overlapped \in BOOLEAN /\ cut \in BOOLEAN

\* A message a command trashed is on record, so that it can be found again: in
\* the applied ledger, still in the stage file, or in the hands of an apply that
\* has not logged it yet - until two applies overlap.
TrashedIsOnRecord ==
    \A m \in trashed :
        \/ m \in applied \cup stage
        \/ \E p \in Appliers : m \in apply[p].done
        \/ overlapped

\* A message the user took out of the trash is not trashed again unless it is
\* staged again, when no applies overlapped and none was cut short.
UndoneStaysUndone ==
    [][\A m \in undone : m \in trash' \ trash => overlapped \/ cut]_vars
=============================================================================
