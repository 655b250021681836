------------------------------- MODULE Files -------------------------------
(* The commands that share files without a lock: the judge queues, the Gmail   *)
(* stage file, the delivered reminders, the task lines of the vault and the    *)
(* handoff note; the artifacts, the plugin's directory, and the bundle and the *)
(* units of a routine.  No two of them touch the same file in a way the models *)
(* tell apart, so that a behaviour moves one component only (`which`).         *)
EXTENDS Naturals, Sequences, FiniteSets

CONSTANTS
    \* Candidates
    Families, Adders, Droppers, TextOf,
    \* GmailStage
    Msgs, Account, Stagers, Batch, Appliers, Gated, Chunk, ReaderRuns, GmailFaults,
    \* Remind
    Reminders, StampedLines, KeyOf, DueAt, Retention, Ticks, Resets, Once, RemindTime, RemindFaults,
    \* VaultTasks
    Walk, Writers, Doners, Sweepers, Summaries, Additions, MaxId, MaxCopies,
    \* Handoff
    Jots, Workers, LineEdits,
    \* Artifacts
    Sources, Documents, TTL, LastDay, ArtifactDeaths,
    \* PluginUnion
    Procs, Dirs, Entries, Orders, PluginChanges,
    \* Bundle
    Manifests, Tables, Hosts, Others, Authored, Pieces, Settings, UserFiles, Outcomes, BundleEdits

\* Families of the queues, and the notes in the order of the walk: each once.
ASSUME QueueAssumption ==
    /\ DOMAIN Families = 1..Len(Families) /\ Len(Families) \in Nat \ {0}
    /\ \A i, j \in DOMAIN Families : Families[i] = Families[j] => i = j
ASSUME GmailAssumption ==
    /\ \A s \in Stagers : Batch[s] \subseteq Msgs
    /\ Chunk \in Nat /\ ReaderRuns \in Nat /\ GmailFaults \in Nat
ASSUME RemindAssumption ==
    /\ KeyOf \in [StampedLines -> Reminders]
    /\ Retention \in Nat /\ RemindTime \in Nat /\ RemindFaults \in Nat
ASSUME TaskAssumption ==
    /\ DOMAIN Walk = 1..Len(Walk) /\ Len(Walk) \in Nat
    /\ \E i \in DOMAIN Walk : Walk[i] = "todo"
    /\ \E i \in DOMAIN Walk : Walk[i] = "archive"
    /\ Doners \cap (Sweepers \cup Summaries \cup Additions) = {}
    /\ Sweepers \cap (Summaries \cup Additions) = {} /\ Summaries \cap Additions = {}
    /\ MaxId \in Nat /\ MaxCopies \in Nat
ASSUME HandoffAssumption == "header" \notin Jots /\ LineEdits \in Nat
ASSUME ArtifactAssumption ==
    "" \notin Documents /\ TTL \in Nat /\ LastDay \in Nat /\ ArtifactDeaths \in Nat
ASSUME PluginAssumption ==
    /\ Orders # {} /\ Orders \subseteq Seq(Dirs)
    /\ {"none", "real"} \cap Dirs = {} /\ "" \notin Entries /\ PluginChanges \in Nat

VARIABLES
    which,
    \* Candidates
    queue, queueTmp, adder, dropper, added, raced,
    \* GmailStage
    stage, stageTmp, applied, trash, reader, stager, apply, gmailFaults,
    trashed, undone, appliesOverlapped, cut,
    \* Remind
    now, line, sent, tick, reset, remindFaults, last, excused, remindOverlapped,
    \* VaultTasks
    note, writer, command, copies, written, finished, stale, crossed, unread,
    \* Handoff
    lines, sender, worker, edits, handled, shifted,
    \* Artifacts
    day, html, json, expires, taken, importer, ids, remover, page, removed, deaths,
    \* PluginUnion
    dirs, user, hooked, shipped, entry, hooks, cache, union, changes, alone,
    \* Bundle
    host, table, manifest, have, outcome, bundle, proc, units, bundleEdits, known, inTime

queueVars == <<queue, queueTmp, adder, dropper, added, raced>>
gmailVars == <<stage, stageTmp, applied, trash, reader, stager, apply, gmailFaults,
               trashed, undone, appliesOverlapped, cut>>
remindVars == <<now, line, sent, tick, reset, remindFaults, last, excused, remindOverlapped>>
taskVars == <<note, writer, command, copies, written, finished, stale, crossed, unread>>
handoffVars == <<lines, sender, worker, edits, handled, shifted>>
artifactVars == <<day, html, json, expires, taken, importer, ids, remover, page, removed, deaths>>
pluginVars == <<dirs, user, hooked, shipped, entry, hooks, cache, union, changes, alone>>
bundleVars == <<host, table, manifest, have, outcome, bundle, proc, units, bundleEdits, known, inTime>>

C == INSTANCE Candidates WITH tmp <- queueTmp
G == INSTANCE GmailStage WITH
    tmp <- stageTmp, faults <- gmailFaults, overlapped <- appliesOverlapped,
    MaxRuns <- ReaderRuns, MaxFaults <- GmailFaults
R == INSTANCE Remind WITH
    faults <- remindFaults, overlapped <- remindOverlapped,
    Lines <- StampedLines, Due <- DueAt, MaxTime <- RemindTime, MaxFaults <- RemindFaults
T == INSTANCE VaultTasks WITH Notes <- Walk, Reminders <- Additions
H == INSTANCE Handoff WITH MaxEdits <- LineEdits
A == INSTANCE Artifacts WITH
    now <- day, adder <- importer, Ids <- Documents, MaxTime <- LastDay, MaxDeaths <- ArtifactDeaths
P == INSTANCE PluginUnion WITH proc <- union, Names <- Entries, MaxChanges <- PluginChanges
B == INSTANCE Bundle WITH edits <- bundleEdits, Routines <- Tables, MaxEdits <- BundleEdits

ASSUME BundleAssumption ==
    /\ Hosts # {} /\ Manifests # {} /\ Tables # {} /\ "init" \notin Others /\ BundleEdits \in Nat
    /\ "" \notin UserFiles /\ Authored \subseteq B!Files
    /\ Outcomes \subseteq {"error", "space", "words", "empty", "full"}
    /\ Hosts \subseteq
         [engine : BOOLEAN, qmdRefresh : BOOLEAN,
          template : [table : Tables \cup {B!NotConfigured}, settings : SUBSET Pieces]]
    /\ \A m \in Manifests : \A f \in m.files : f.path \in B!Files /\ f.required \in BOOLEAN

-----------------------------------------------------------------------------

FilesInit ==
    /\ which \in {"queues", "gmail", "reminders", "tasks", "handoff", "artifacts", "plugin", "bundle"}
    /\ C!Init /\ G!Init /\ R!Init /\ T!Init /\ H!Init /\ A!Init /\ P!Init /\ B!Init
    /\ which # "plugin" => /\ dirs = CHOOSE o \in Orders : TRUE
                           /\ \A d \in DOMAIN user, n \in Entries : user[d][n] = "none"
    /\ which # "bundle" => /\ host = (CHOOSE h \in Hosts : TRUE) /\ table = (CHOOSE t \in Tables : TRUE)
                           /\ manifest = (CHOOSE m \in Manifests : TRUE) /\ have = {}

FilesNext ==
    \/ /\ which = "queues" /\ C!Next
       /\ UNCHANGED <<which, gmailVars, remindVars, taskVars, handoffVars,
                      artifactVars, pluginVars, bundleVars>>
    \/ /\ which = "gmail" /\ G!Next
       /\ UNCHANGED <<which, queueVars, remindVars, taskVars, handoffVars,
                      artifactVars, pluginVars, bundleVars>>
    \/ /\ which = "reminders" /\ R!Next
       /\ UNCHANGED <<which, queueVars, gmailVars, taskVars, handoffVars,
                      artifactVars, pluginVars, bundleVars>>
    \/ /\ which = "tasks" /\ T!Next
       /\ UNCHANGED <<which, queueVars, gmailVars, remindVars, handoffVars,
                      artifactVars, pluginVars, bundleVars>>
    \/ /\ which = "handoff" /\ H!Next
       /\ UNCHANGED <<which, queueVars, gmailVars, remindVars, taskVars,
                      artifactVars, pluginVars, bundleVars>>
    \/ /\ which = "artifacts" /\ A!Next
       /\ UNCHANGED <<which, queueVars, gmailVars, remindVars, taskVars, handoffVars,
                      pluginVars, bundleVars>>
    \/ /\ which = "plugin" /\ P!Next
       /\ UNCHANGED <<which, queueVars, gmailVars, remindVars, taskVars, handoffVars,
                      artifactVars, bundleVars>>
    \/ /\ which = "bundle" /\ B!Next
       /\ UNCHANGED <<which, queueVars, gmailVars, remindVars, taskVars, handoffVars,
                      artifactVars, pluginVars>>

filesVars == <<which, queueVars, gmailVars, remindVars, taskVars, handoffVars, artifactVars,
               pluginVars, bundleVars>>

FilesSpec == FilesInit /\ [][FilesNext]_filesVars

\* The type invariants of the parts.
PartsTypeOK ==
    /\ which = "queues" => C!TypeOK
    /\ which = "gmail" => G!TypeOK
    /\ which = "reminders" => R!TypeOK
    /\ which = "tasks" => T!TypeOK
    /\ which = "handoff" => H!TypeOK
    /\ which = "artifacts" => A!TypeOK
    /\ which = "plugin" => P!TypeOK
    /\ which = "bundle" => B!TypeOK

\* The properties of the parts, each stated and explained in its module.

\* A queued candidate stays until its id is dropped; what was trashed can be found again
\* in a ledger; no line of the todo file is lost by a sweep or by a command that dies.
\* The types of all parts are looked at along with it.
NothingIsLost ==
    /\ PartsTypeOK
    /\ which = "queues" => C!CandidateKept
    /\ which = "gmail" => G!TrashedIsOnRecord
    /\ which = "tasks" => T!NothingIsDeleted

\* The judge queues put and take a candidate once, at once; what the user took out of the
\* trash is not trashed again; nobody is told of a reminder twice; a new task gets an id
\* that is on no line.
NothingIsDoneTwice ==
    C!ImplementsAtomicQueue /\ G!UndoneStaysUndone /\ R!NotifiedOnce /\ T!IdIsFresh

\* Tasks: `done` leaves no copy of the task open.
DoneTicksEveryCopy == which = "tasks" => T!DoneTicksEveryCopy

\* Handoff: the marked line is the one whose task was done.
MarkedWasDone == which = "handoff" => H!MarkedWasDone

\* Artifacts: what is listed is served whole, or gone for a reason.
ListedIsServed == which = "artifacts" => A!ListedIsServed

\* Plugin: a command that has the directory to itself leaves it as it is configured.
UnionIsCurrent == which = "plugin" => P!UnionIsCurrent

\* Units: a routine has a timer if it is to have one and is ready.
TimerMeansReady == which = "bundle" => B!TimerMeansReady

\* Bundle: what the author put there stays, and runs.
AuthorsFilesStand == which = "bundle" => B!AuthorsFilesStand
=============================================================================
