-------------------------------- MODULE Memory --------------------------------
(***************************************************************************)
(* Working memory on its SQLite backend (internal/mem: mem.go, sqlite.go;     *)
(* `qilla mem`; Worker.run).  A note is a row of mem_notes, and what qilla    *)
(* keeps about it - when it was last shown, until when it is good - a row of  *)
(* mem_meta under the same id.  Runs, gather steps and commands add, show,    *)
(* forget and purge notes, a statement at a time and in no transaction, and   *)
(* an id whose note is deleted is given out again.                            *)
(*                                                                         *)
(* One project; a note is its kind and key.                                  *)
(***************************************************************************)
EXTENDS Naturals, FiniteSets, FiniteSetsExt

CONSTANTS
    Actors,     \* processes that use the memory
    Keys,       \* keys; notes without one are not merged (see Unkeyed)
    Unkeyed,    \* in Keys: the empty key
    KindOf,     \* per key: "said", "heuristic" or "note"
    SaidTTL,    \* [memory].said_ttl_days, in ticks
    Unused,     \* [memory].expire_unused_days, in ticks
    MaxTime,    \* bound: ticks
    MaxUses,    \* bound: operations
    MaxDeaths   \* bound: processes that die half way

VARIABLES
    notes,      \* mem_notes: per id its key, and (history) birth, last Add and last use
    meta,       \* mem_meta: per id created, last_used, ttl_until, promoted
    actor,      \* per actor: program counter, key, id, ids
    now,
    uses, deaths,
    (* history, read by properties only *)
    astray      \* ids whose meta row is known not to be the note's: it was another note's
                \* before, or the process that was to write it died

vars == <<notes, meta, actor, now, uses, deaths, astray>>

None == 0
Ids == 1..MaxUses
AtRest == [pc |-> "idle", key |-> Unkeyed, id |-> None, ids |-> {}]

Init ==
    /\ notes = [i \in {} |-> 0] /\ meta = [i \in {} |-> 0]
    /\ actor = [a \in Actors |-> AtRest]
    /\ now = 0 /\ uses = 0 /\ deaths = 0
    /\ astray = {}

Set(a, new) == actor' = [actor EXCEPT ![a] = new]

\* An operation begins.
Begin(a, new) ==
    /\ actor[a].pc = "idle" /\ uses < MaxUses
    /\ uses' = uses + 1
    /\ Set(a, new)
Kind(i) == KindOf[notes[i].key]
With(f, i, x) == [j \in DOMAIN f \cup {i} |-> IF j = i THEN x ELSE f[j]]
Without(f, i) == [j \in DOMAIN f \ {i} |-> f[j]]

\* An id that some actor is about to use.
Held(i) == \E a \in Actors : actor[a].id = i \/ i \in actor[a].ids

-----------------------------------------------------------------------------
(* Add.                                                                     *)

\* Save looks for the key.
Find(a, k) ==
    LET old == {i \in DOMAIN notes : notes[i].key = k}
    IN  /\ Begin(a, [AtRest EXCEPT !.pc = "save", !.key = k,
                                   !.id = IF k # Unkeyed /\ old # {} THEN Min(old) ELSE None])
        /\ UNCHANGED <<notes, meta, now, deaths, astray>>

\* A row that was found is updated; it may be gone.
Update(a) ==
    LET i == actor[a].id
    IN  /\ actor[a].pc = "save" /\ i # None
        /\ IF i \in DOMAIN notes
           THEN /\ notes' = [notes EXCEPT ![i].added = now]
                /\ Set(a, [actor[a] EXCEPT !.pc = "meta"])
           ELSE Set(a, AtRest) /\ UNCHANGED notes
        /\ UNCHANGED <<meta, now, uses, deaths, astray>>

\* INTEGER PRIMARY KEY: one more than the highest id there is.
NewId == 1 + Max({0} \cup DOMAIN notes)

\* The unique index refuses a key that came in between.
Insert(a) ==
    LET k == actor[a].key
    IN  /\ actor[a].pc = "save" /\ actor[a].id = None
        /\ IF k # Unkeyed /\ \E i \in DOMAIN notes : notes[i].key = k
           THEN Set(a, AtRest) /\ UNCHANGED <<notes, astray>>
           ELSE /\ notes' = With(notes, NewId, [key |-> k, born |-> now, added |-> now, used |-> now])
                /\ astray' = IF NewId \in DOMAIN meta \/ Held(NewId)
                               THEN astray \cup {NewId} ELSE astray \ {NewId}
                /\ Set(a, [actor[a] EXCEPT !.pc = "meta", !.id = NewId])
        /\ UNCHANGED <<meta, now, uses, deaths>>

\* Mutant: a note that is said again keeps its first TTL.
Upserted_FirstTTL(old, ttl) == old

Upserted(old, ttl) == [old EXCEPT !.ttl = ttl]

AddMeta(a) ==
    LET i == actor[a].id
        ttl == IF KindOf[actor[a].key] = "said" THEN now + SaidTTL ELSE 0
    IN  /\ actor[a].pc = "meta"
        /\ meta' = With(meta, i, IF i \in DOMAIN meta THEN Upserted(meta[i], ttl)
                                 ELSE [kind |-> KindOf[actor[a].key], created |-> now, used |-> 0,
                                       ttl |-> ttl, promoted |-> FALSE])
        /\ Set(a, AtRest)
        /\ UNCHANGED <<notes, now, uses, deaths, astray>>

-----------------------------------------------------------------------------
(* Search, State, Inject and Seen: what is shown, and bumpHits.              *)

\* Search leaves out what is unused for too long, State and the recent notes that
\* Inject falls back on do not: any note may be shown.
Show(a, i) ==
    /\ i \in DOMAIN notes
    /\ Begin(a, [AtRest EXCEPT !.pc = "bump", !.key = notes[i].key, !.id = i])
    /\ notes' = [notes EXCEPT ![i].used = now]
    /\ UNCHANGED <<meta, now, deaths, astray>>

\* Without a row one is made, so that no hit is lost.
Bump(a) ==
    LET i == actor[a].id
    IN  /\ actor[a].pc = "bump"
        /\ meta' = With(meta, i, IF i \in DOMAIN meta THEN [meta[i] EXCEPT !.used = now]
                                 ELSE [kind |-> KindOf[actor[a].key], created |-> now, used |-> now,
                                       ttl |-> 0, promoted |-> FALSE])
        /\ Set(a, AtRest)
        /\ UNCHANGED <<notes, now, uses, deaths, astray>>

-----------------------------------------------------------------------------
(* Forget, Purge, MarkPromoted.                                              *)

\* The ids of the purge's query.
Purgeable ==
    {i \in DOMAIN meta :
        /\ ~meta[i].promoted
        /\ \/ meta[i].ttl > 0 /\ meta[i].ttl < now
           \/ /\ meta[i].kind # "heuristic"
              /\ (IF meta[i].used > meta[i].created THEN meta[i].used ELSE meta[i].created) + Unused < now}

Purge(a) ==
    /\ Purgeable # {}
    /\ Begin(a, [AtRest EXCEPT !.pc = "delete", !.ids = Purgeable])
    /\ UNCHANGED <<notes, meta, now, deaths, astray>>

Forget(a, i) ==
    /\ i \in DOMAIN notes
    /\ Begin(a, [AtRest EXCEPT !.pc = "delete", !.ids = {i}])
    /\ UNCHANGED <<notes, meta, now, deaths, astray>>

DeleteNote(a, i) ==
    /\ actor[a].pc = "delete" /\ i \in actor[a].ids
    /\ notes' = Without(notes, i)
    /\ Set(a, [actor[a] EXCEPT !.pc = "deleteMeta", !.id = i])
    /\ UNCHANGED <<meta, now, uses, deaths, astray>>

DeleteMeta(a) ==
    LET i == actor[a].id
    IN  /\ actor[a].pc = "deleteMeta"
        /\ meta' = Without(meta, i)
        /\ Set(a, IF actor[a].ids = {i} THEN AtRest
                  ELSE [actor[a] EXCEPT !.pc = "delete", !.id = None, !.ids = @ \ {i}])
        /\ UNCHANGED <<notes, now, uses, deaths, astray>>

MarkPromoted(a, i) ==
    /\ i \in DOMAIN meta /\ ~meta[i].promoted
    /\ Begin(a, AtRest)
    /\ meta' = [meta EXCEPT ![i].promoted = TRUE]
    /\ UNCHANGED <<notes, now, deaths, astray>>

\* A statement fails, or the process is killed, between two of them.
Dies(a) ==
    /\ actor[a].pc # "idle" /\ deaths < MaxDeaths
    /\ deaths' = deaths + 1
    /\ astray' = IF actor[a].pc \in {"meta", "bump"} THEN astray \cup {actor[a].id} ELSE astray
    /\ Set(a, AtRest)
    /\ UNCHANGED <<notes, meta, now, uses>>

Tick ==
    /\ now < MaxTime
    /\ now' = now + 1
    /\ UNCHANGED <<notes, meta, actor, uses, deaths, astray>>

Next ==
    \/ \E a \in Actors :
         \/ \E k \in Keys : Find(a, k)
         \/ Update(a) \/ Insert(a) \/ AddMeta(a)
         \/ \E i \in Ids : Show(a, i) \/ Forget(a, i) \/ DeleteNote(a, i) \/ MarkPromoted(a, i)
         \/ Bump(a) \/ Purge(a) \/ DeleteMeta(a) \/ Dies(a)
    \/ Tick

Spec == Init /\ [][Next]_vars

-----------------------------------------------------------------------------
(* Properties.                                                              *)

TypeOK ==
    /\ DOMAIN notes \subseteq Ids /\ DOMAIN meta \subseteq Ids
    /\ \A i \in DOMAIN notes : notes[i].key \in Keys /\ notes[i].born <= notes[i].used
    /\ \A i \in DOMAIN meta : meta[i].created \in 0..MaxTime
    /\ \A a \in Actors : actor[a].pc \in {"idle", "save", "meta", "bump", "delete", "deleteMeta"}
    /\ now \in 0..MaxTime /\ uses \in 0..MaxUses /\ deaths \in 0..MaxDeaths

\* What a note's own history says: said too long ago, or not used for too long.
Due(i) ==
    \/ Kind(i) = "said" /\ notes[i].added + SaidTTL < now
    \/ Kind(i) # "heuristic" /\ notes[i].used + Unused < now

\* Purge: "removes entries past their TTL or unused for ExpireUnusedDays".  The
\* meta rows it goes by agree with what happened to the notes, whatever statements
\* of whom interleave or are never made: a note that is neither is not taken.
\* Excused are a note an actor is at work on, one whose actor died before it wrote
\* the row, and an id given out again while a row or a process still named it.
PurgeTakesTheExpired ==
    \A i \in Purgeable \cap DOMAIN notes :
        Due(i) \/ Held(i) \/ i \in astray
=============================================================================
