----------------------------- MODULE Candidates -----------------------------
(***************************************************************************)
(* The judge queues (internal/candidates/candidates.go, cmd/qilla/queue.go): *)
(* a file of candidates per family.  Flows add lines, judges drop the ids    *)
(* they handled, and nothing locks the files: an Add reads the family, opens *)
(* the file and appends one line; a Drop reads the family, writes what it    *)
(* keeps to a temporary file, always the same one, and renames it over the   *)
(* queue.  Whether an empty family has a file makes no difference here.      *)
(***************************************************************************)
EXTENDS Naturals, Sequences

CONSTANTS
    Families,   \* names of queues, sorted: a sequence without repetition
    Adders,     \* `qilla queue add` commands; each mints an id of its own
    Droppers,   \* `qilla queue drop` commands
    TextOf      \* the text each add was given

VARIABLES
    queue,      \* per family: the lines of its file
    tmp,        \* per family: the lines of <family>.jsonl.tmp, or no file
    adder,      \* per add: program counter and locals
    dropper,    \* per drop: program counter and locals
    (* history, read by properties only *)
    added,      \* lines ever written
    raced       \* families in which a drop overlapped an append or a drop

vars == <<queue, tmp, adder, dropper, added, raced>>

Names == {Families[i] : i \in 1..Len(Families)}
Line == {[id |-> a, text |-> TextOf[a]] : a \in Adders}
NoTmp == [there |-> FALSE, lines |-> {}]
None == "none"

Idle == [pc |-> "off", family |-> None, attached |-> FALSE]
NotDropping == [pc |-> "off", ids |-> {}, pos |-> 1, base |-> {}]

Init ==
    /\ queue = [f \in Names |-> {}]
    /\ tmp = [f \in Names |-> NoTmp]
    /\ adder = [a \in Adders |-> Idle]
    /\ dropper = [d \in Droppers |-> NotDropping]
    /\ added = {}
    /\ raced = {}

-----------------------------------------------------------------------------
(* qilla queue add.                                                         *)

\* A text that is queued already is a duplicate, answered with the line's id.
ListForAdd(a, f) ==
    /\ adder[a].pc = "off"
    /\ adder' = [adder EXCEPT ![a] =
         [Idle EXCEPT !.pc = IF \E l \in queue[f] : l.text = TextOf[a] THEN "done" ELSE "open",
                      !.family = f]]
    /\ UNCHANGED <<queue, tmp, dropper, added, raced>>

OpenQueue(a) ==
    /\ adder[a].pc = "open"
    /\ adder' = [adder EXCEPT ![a].pc = "write", ![a].attached = TRUE]
    /\ UNCHANGED <<queue, tmp, dropper, added, raced>>

\* One write to the file that was opened, which a rename may have replaced.
AppendLine(a) ==
    LET f == adder[a].family
        line == [id |-> a, text |-> TextOf[a]]
    IN  /\ adder[a].pc = "write"
        /\ queue' = IF adder[a].attached THEN [queue EXCEPT ![f] = @ \cup {line}] ELSE queue
        /\ added' = added \cup {<<f, line>>}
        /\ adder' = [adder EXCEPT ![a].pc = "done", ![a].attached = FALSE]
        /\ UNCHANGED <<tmp, dropper, raced>>

-----------------------------------------------------------------------------
(* qilla queue drop: DropAll goes through the families by name.             *)

Family(d) == Families[dropper[d].pos]

\* The dropper is between reading a family and replacing it.
Busy(d, f) == dropper[d].pc \in {"tmp", "rename"} /\ Family(d) = f

\* The ids a judge was shown.
StartDrop(d, ids) ==
    /\ dropper[d].pc = "off"
    /\ ids # {} /\ ids \subseteq {entry[2].id : entry \in added}
    /\ dropper' = [dropper EXCEPT ![d].pc = "list", ![d].ids = ids]
    /\ UNCHANGED <<queue, tmp, adder, added, raced>>

NextFamily(drop) ==
    IF drop.pos < Len(Families)
    THEN [drop EXCEPT !.pc = "list", !.pos = @ + 1, !.base = {}]
    ELSE [drop EXCEPT !.pc = "done", !.base = {}]

\* The file is left alone when it has none of the ids.
ListForDrop(d) ==
    LET f == Family(d)
        none == \A l \in queue[f] : l.id \notin dropper[d].ids
    IN  /\ dropper[d].pc = "list"
        /\ dropper' = [dropper EXCEPT ![d] =
             IF none THEN NextFamily(@) ELSE [@ EXCEPT !.pc = "tmp", !.base = queue[f]]]
        /\ raced' = IF ~none /\ \E other \in Droppers : Busy(other, f)
                    THEN raced \cup {f} ELSE raced
        /\ UNCHANGED <<queue, tmp, adder, added>>

Kept(d) == {l \in dropper[d].base : l.id \notin dropper[d].ids}

\* Mutant: one temporary file for all families.
WriteTmp_OnePath(d) ==
    /\ dropper[d].pc = "tmp"
    /\ tmp' = [f \in Names |-> [there |-> TRUE, lines |-> Kept(d)]]
    /\ dropper' = [dropper EXCEPT ![d].pc = "rename"]
    /\ UNCHANGED <<queue, adder, added, raced>>

WriteTmp(d) ==
    /\ dropper[d].pc = "tmp"
    /\ tmp' = [tmp EXCEPT ![Family(d)] = [there |-> TRUE, lines |-> Kept(d)]]
    /\ dropper' = [dropper EXCEPT ![d].pc = "rename"]
    /\ UNCHANGED <<queue, adder, added, raced>>

\* The name now means the new file: an add that opened the old one writes to a
\* file without a name.
ReplaceQueue(d) ==
    LET f == Family(d)
        opened == {a \in Adders : adder[a].pc = "write" /\ adder[a].family = f}
    IN  /\ dropper[d].pc = "rename"
        /\ tmp[f].there
        /\ queue' = [queue EXCEPT ![f] = tmp[f].lines]
        /\ tmp' = [tmp EXCEPT ![f] = NoTmp]
        /\ adder' = [a \in Adders |->
             IF a \in opened THEN [adder[a] EXCEPT !.attached = FALSE] ELSE adder[a]]
        /\ dropper' = [dropper EXCEPT ![d] = NextFamily(@)]
        /\ raced' = IF queue[f] # dropper[d].base \/ opened # {} THEN raced \cup {f} ELSE raced
        /\ UNCHANGED added

\* Another drop has renamed the temporary file away: the command ends there.
RenameFails(d) ==
    /\ dropper[d].pc = "rename"
    /\ ~tmp[Family(d)].there
    /\ dropper' = [dropper EXCEPT ![d].pc = "done", ![d].base = {}]
    /\ UNCHANGED <<queue, tmp, adder, added, raced>>

\* The command dies, or a write fails; the temporary file may stay behind.
DropDies(d) ==
    /\ dropper[d].pc \in {"list", "tmp", "rename"}
    /\ dropper' = [dropper EXCEPT ![d].pc = "done", ![d].base = {}]
    /\ UNCHANGED <<queue, tmp, adder, added, raced>>

Add(a) ==
    \/ \E f \in Names : ListForAdd(a, f)
    \/ OpenQueue(a)
    \/ AppendLine(a)

Drop(d) ==
    \/ \E ids \in SUBSET Adders : StartDrop(d, ids)
    \/ ListForDrop(d)
    \/ WriteTmp(d)
    \/ ReplaceQueue(d)
    \/ RenameFails(d)
    \/ DropDies(d)

Next ==
    \/ \E a \in Adders : Add(a)
    \/ \E d \in Droppers : Drop(d)

Spec == Init /\ [][Next]_vars

-----------------------------------------------------------------------------
(* Properties.                                                              *)

TypeOK ==
    /\ queue \in [Names -> SUBSET Line]
    /\ tmp \in [Names -> [there: BOOLEAN, lines: SUBSET Line]]
    /\ adder \in [Adders -> [pc: {"off", "open", "write", "done"}, family: Names \cup {None},
                             attached: BOOLEAN]]
    /\ dropper \in [Droppers -> [pc: {"off", "list", "tmp", "rename", "done"}, ids: SUBSET Adders,
                                 pos: 1..Len(Families), base: SUBSET Line]]
    /\ added \subseteq (Names \X Line)
    /\ raced \subseteq Names

\* A candidate whose line was written stays queued until a judge drops its id,
\* whatever is dropped in other families, in a family in which no drop
\* overlapped an append or another drop.
CandidateKept ==
    \A f \in Names \ raced, line \in Line :
        <<f, line>> \in added =>
            \/ line \in queue[f]
            \/ \E d \in Droppers : line.id \in dropper[d].ids

\* The commands implement a queue that puts and takes at once, but in families in which
\* a drop overlapped an append or another drop: there the queue may be any of the lines
\* that were written to it.  What a drop took does not come back in the others.
Atomic == INSTANCE AtomicQueue WITH
    Families <- Names, Ids <- Adders, spoilt <- raced,
    queue <- [f \in Names |-> {l.id : l \in queue[f]}],
    put <- [f \in Names |-> {entry[2].id : entry \in {e \in added : e[1] = f}}]
ImplementsAtomicQueue == Atomic!Spec
=============================================================================
