------------------------------- MODULE Artifacts -------------------------------
(***************************************************************************)
(* The artifacts (internal/artifacts): HTML documents that runs and the        *)
(* command line put aside for the page, each a document and a sidecar that      *)
(* names it and says when it expires.  The worker, the command, the page and   *)
(* reconcile's purge share the directory without a lock; files are written in   *)
(* place, and a process may die anywhere.                                     *)
(***************************************************************************)
EXTENDS Naturals, FiniteSets

CONSTANTS
    Sources,    \* what is added: whether the file is there, and good (small, HTML)
    Ids,        \* artifacts, each id taken once (the time and six random bytes)
    TTL,
    MaxTime,    \* bound: ticks
    MaxDeaths   \* bound: processes that die

VARIABLES
    now,
    html,       \* per id: "none", "part", "whole"
    json,       \* per id: the same
    expires,    \* per id
    taken,      \* ids that were taken
    adder,      \* importArtifacts or `qilla artifact add`: where it is, its id, sources to go
    ids,        \* ids a run puts on record
    remover,    \* page, command or purge: where it is, and its id
    page,       \* what the page listed, the document it asks for, and what it is served
    removed,    \* history: ids that someone began to remove
    deaths

vars == <<now, html, json, expires, taken, adder, ids, remover, page, removed, deaths>>
store == <<html, json, expires, taken>>

Init ==
    /\ now = 0
    /\ html = [i \in Ids |-> "none"] /\ json = [i \in Ids |-> "none"]
    /\ expires = [i \in Ids |-> 0]
    /\ taken = {} /\ ids = {} /\ removed = {} /\ deaths = 0
    /\ adder = [pc |-> "idle", id |-> "", todo |-> {}]
    /\ remover = [pc |-> "idle", id |-> ""]
    /\ page = [listed |-> {}, pc |-> "idle", id |-> "", got |-> ""]

-----------------------------------------------------------------------------
(* Add.                                                                     *)

\* importArtifacts: a run's result names files; `qilla artifact add`: one.
Import(todo) ==
    /\ adder.pc = "idle" /\ todo # {}
    /\ adder' = [pc |-> "next", id |-> "", todo |-> todo]
    /\ UNCHANGED <<now, store, ids, remover, page, removed, deaths>>

\* A file that is not there, or that Add refuses, is passed over.
Refuse(s) ==
    /\ adder.pc = "next" /\ s \in adder.todo /\ ~s.good
    /\ adder' = [adder EXCEPT !.todo = @ \ {s}]
    /\ UNCHANGED <<now, store, ids, remover, page, removed, deaths>>

\* Mutant: the sidecar first.
Order_Sidecar == <<"json", "html">>

\* The document, and then its sidecar.
Order == <<"html", "json">>

\* The text of a file that was removed since it was created goes nowhere.
Puts(file, text) == [file EXCEPT ![adder.id] = IF text = "whole" /\ @ = "none" THEN @ ELSE text]

Put(step, text) ==
    IF Order[step] = "html" THEN html' = Puts(html, text) /\ UNCHANGED json
    ELSE json' = Puts(json, text) /\ UNCHANGED html

Add(s, i) ==
    /\ adder.pc = "next" /\ s \in adder.todo /\ s.good /\ i \notin taken
    /\ taken' = taken \cup {i}
    /\ expires' = [expires EXCEPT ![i] = now + TTL]
    /\ adder' = [pc |-> "write1", id |-> i, todo |-> adder.todo \ {s}]
    /\ UNCHANGED <<now, html, json, ids, remover, page, removed, deaths>>

\* os.WriteFile: the file is there before it has its text; or an error.
WriteFirst ==
    /\ \/ adder.pc = "write1" /\ Put(1, "part") /\ adder' = [adder EXCEPT !.pc = "text1"]
       \/ adder.pc = "text1" /\ Put(1, "whole") /\ adder' = [adder EXCEPT !.pc = "write2"]
       \/ /\ adder.pc \in {"write1", "text1"}
          /\ adder' = [adder EXCEPT !.pc = "next"] /\ UNCHANGED <<html, json>>
    /\ UNCHANGED <<now, expires, taken, ids, remover, page, removed, deaths>>

WriteSecond ==
    /\ \/ adder.pc = "write2" /\ Put(2, "part") /\ adder' = [adder EXCEPT !.pc = "text2"] /\ UNCHANGED ids
       \/ /\ adder.pc = "text2" /\ Put(2, "whole")
          /\ adder' = [adder EXCEPT !.pc = "next"] /\ ids' = ids \cup {adder.id}
       \/ /\ adder.pc \in {"write2", "text2"}
          /\ adder' = [adder EXCEPT !.pc = "next"] /\ UNCHANGED <<html, json, ids>>
    /\ UNCHANGED <<now, expires, taken, remover, page, removed, deaths>>

Added ==
    /\ adder.pc = "next" /\ adder.todo = {}
    /\ adder' = [pc |-> "idle", id |-> "", todo |-> {}]
    /\ UNCHANGED <<now, store, ids, remover, page, removed, deaths>>

-----------------------------------------------------------------------------
(* Remove.                                                                   *)

Live(i) == json[i] = "whole" /\ expires[i] > now
Expired(i) == json[i] = "whole" /\ expires[i] <= now

\* Remove, of the page or of `qilla artifact rm`, of any id; Purge, of one whose
\* sidecar says that its time is over.
Begin(i, by) ==
    /\ remover.pc = "idle"
    /\ IF by = "purge" THEN Expired(i) ELSE i \in taken
    /\ remover' = [pc |-> "json", id |-> i]
    /\ removed' = removed \cup {i}
    /\ UNCHANGED <<now, store, adder, ids, page, deaths>>

\* The sidecar, whether it was there or not.
RemoveSidecar ==
    /\ remover.pc = "json"
    /\ json' = [json EXCEPT ![remover.id] = "none"]
    /\ remover' = [remover EXCEPT !.pc = "html"]
    /\ UNCHANGED <<now, html, expires, taken, adder, ids, page, removed, deaths>>

RemoveDocument ==
    /\ remover.pc = "html"
    /\ html' = [html EXCEPT ![remover.id] = "none"]
    /\ remover' = [pc |-> "idle", id |-> ""]
    /\ UNCHANGED <<now, json, expires, taken, adder, ids, page, removed, deaths>>

-----------------------------------------------------------------------------
(* The page.                                                                 *)

\* List: sidecars that can be read and have not expired.
List ==
    /\ page.pc = "idle"
    /\ page' = [page EXCEPT !.listed = {i \in Ids : Live(i)}]
    /\ UNCHANGED <<now, store, adder, ids, remover, removed, deaths>>

\* artifactServe: Path, of an id of the list or of a run's record.
Path(i) ==
    /\ page.pc = "idle" /\ i \in page.listed \cup ids
    /\ page' = [page EXCEPT !.id = i, !.pc = IF Live(i) THEN "open" ELSE "served",
                            !.got = IF Live(i) THEN "" ELSE "gone"]
    /\ UNCHANGED <<now, store, adder, ids, remover, removed, deaths>>

\* ServeFile.
Serve ==
    /\ page.pc = "open"
    /\ page' = [page EXCEPT !.pc = "served", !.got = IF html[page.id] = "none" THEN "gone" ELSE html[page.id]]
    /\ UNCHANGED <<now, store, adder, ids, remover, removed, deaths>>

Close ==
    /\ page.pc = "served"
    /\ page' = [page EXCEPT !.pc = "idle", !.id = "", !.got = ""]
    /\ UNCHANGED <<now, store, adder, ids, remover, removed, deaths>>

-----------------------------------------------------------------------------

Tick ==
    /\ now < MaxTime
    /\ now' = now + 1
    /\ UNCHANGED <<store, adder, ids, remover, page, removed, deaths>>

Dies ==
    /\ deaths < MaxDeaths /\ deaths' = deaths + 1
    /\ \/ adder' = [pc |-> "idle", id |-> "", todo |-> {}] /\ adder.pc # "idle" /\ UNCHANGED remover
       \/ remover' = [pc |-> "idle", id |-> ""] /\ remover.pc # "idle" /\ UNCHANGED adder
    /\ UNCHANGED <<now, store, ids, page, removed>>

Next ==
    \/ \E todo \in SUBSET Sources : Import(todo)
    \/ \E s \in Sources : Refuse(s) \/ \E i \in Ids : Add(s, i)
    \/ WriteFirst \/ WriteSecond \/ Added
    \/ \E i \in Ids, by \in {"hand", "purge"} : Begin(i, by)
    \/ RemoveSidecar \/ RemoveDocument
    \/ List \/ Serve \/ Close \/ \E i \in Ids : Path(i)
    \/ Tick \/ Dies

Spec == Init /\ [][Next]_vars

-----------------------------------------------------------------------------
(* Properties.                                                              *)

TypeOK ==
    /\ now \in 0..MaxTime /\ taken \subseteq Ids /\ ids \subseteq taken
    /\ \A i \in Ids : {html[i], json[i]} \subseteq {"none", "part", "whole"}
    /\ remover.id \in Ids \cup {""} /\ adder.id \in Ids \cup {""} /\ page.listed \subseteq taken
    /\ deaths \in 0..MaxDeaths

\* What the page lists, or a run has on record, it serves whole, whoever adds, removes,
\* purges or dies meanwhile; it is not there only if it has expired since, or somebody
\* began to remove it.
ListedIsServed ==
    page.pc = "served" =>
        page.got = "whole" \/ (page.got = "gone" /\ (page.id \in removed \/ expires[page.id] <= now))
=============================================================================
