--------------------------------- MODULE Gather ---------------------------------
(***************************************************************************)
(* The gather step written in Starlark (internal/star, Worker.gatherStar): a  *)
(* script that calls built-in functions one after the other, within five      *)
(* minutes.  What it may do to the world is what the bundle's routine.toml     *)
(* declares, and a dry run does none of it and lists it instead.  At the      *)
(* deadline a goroutine cancels the script, which notices between two calls;   *)
(* http and run give up by themselves, ask and write do not.                  *)
(*                                                                         *)
(* A path is the sequence of its names.  A database, a tool or a host is a     *)
(* name; what is read, and what an answer says, is left to the script, which   *)
(* is free to make any of Calls next.                                        *)
(***************************************************************************)
EXTENDS Naturals, Sequences, SequencesExt

CONSTANTS
    Manifests,  \* routine.toml: readable or not, its capabilities, and whether fetch() may
                \* open a window ([fetch] headed)
    Calls,      \* the calls a script may make
    Hosts,      \* hosts a server may redirect to
    Tools,      \* programs the rungs of fetch() start
    Old,        \* the text every file has before
    MaxHops,    \* redirects followed
    MaxCalls    \* bound: calls of a script

VARIABLES
    manifest,   \* the bundle's, what Load makes of it
    dry,        \* --dry, or QILLA_DRY_RUN=1
    pc,         \* "idle", "script", the call it waits for, "ended"
    call,       \* the call it is at
    hops,       \* redirects its request went through
    late,       \* the deadline has passed
    cancelled,  \* thread.Cancel
    vault,      \* per path that a call writes, its text
    tmp,        \* temporary files in the vault
    sent,       \* requests of http()
    spawned,    \* programs started
    dirtied,    \* a database was written
    bookmarks,  \* a karakeep bookmark was created
    actions,    \* what a dry run suppressed
    result,     \* of the gather
    script      \* history: calls that did not raise

vars == <<manifest, dry, pc, call, hops, late, cancelled, vault, tmp, sent, spawned,
          dirtied, bookmarks, actions, result, script>>

Paths == {c.path : c \in {d \in Calls : d.is = "write"}}
NoCall == [is |-> "none"]
NoResult == [ok |-> FALSE, actions |-> <<>>]

Init ==
    /\ manifest \in Manifests
    /\ dry \in BOOLEAN
    /\ pc = "idle" /\ call = NoCall /\ hops = 0
    /\ late = FALSE /\ cancelled = FALSE
    /\ vault = [p \in Paths |-> Old] /\ tmp = {}
    /\ sent = {} /\ spawned = {} /\ dirtied = FALSE /\ bookmarks = FALSE
    /\ actions = <<>> /\ result = NoResult /\ script = <<>>

world == <<vault, tmp, sent, spawned, dirtied, bookmarks>>
given == <<manifest, dry, late, cancelled>>

-----------------------------------------------------------------------------
(* The capabilities.                                                         *)

\* MethodList.
MethodList == IF manifest.methods = {} THEN {"GET"} ELSE manifest.methods

HostAllowed(host) == host \in manifest.hosts
MethodAllowed(method) == method \in MethodList

\* A prefix is a directory or one file.
WriteAllowed(path) ==
    \E p \in manifest.paths : path = p.at \/ (p.dir /\ IsPrefix(p.at, path))

\* Without a list, every program may be run; fetch() looks its tools up likewise.
ExecAllowed(program) == manifest.exec = {} \/ program \in manifest.exec

\* A helper that is not declared is an unknown name, and the script does not start.
Predeclared(c) ==
    /\ c.is \in {"http", "secret"} => "http" \in manifest.declares
    /\ c.is = "write" => "write" \in manifest.declares

-----------------------------------------------------------------------------
(* RunActions.                                                               *)

\* There is no try: an error in a call is the end.  Its actions are not kept.
Raise ==
    /\ pc' = "ended" /\ call' = NoCall /\ hops' = 0 /\ result' = NoResult
    /\ UNCHANGED <<actions, script>>

\* Back in the script, with what the call returned.
Returns ==
    /\ pc' = "script" /\ call' = NoCall /\ hops' = 0
    /\ UNCHANGED <<actions, result, script>>

\* The call waits for something outside.
Waits(where) ==
    /\ pc' = where /\ script' = Append(script, call')
    /\ UNCHANGED <<hops, actions, result>>

\* The call is over at once.
Answered(c) ==
    /\ pc' = "script" /\ script' = Append(script, c)
    /\ UNCHANGED <<call, hops, actions, result>>

AddAction(c) ==
    /\ actions' = Append(actions, c)
    /\ pc' = "script" /\ script' = Append(script, c)
    /\ UNCHANGED <<call, hops, result>>

\* The next call, in a script that has not been cancelled.
Makes(is, c) ==
    /\ pc = "script" /\ ~cancelled
    /\ c.is = is /\ Predeclared(c) /\ Len(script) < MaxCalls
    /\ UNCHANGED given

\* Load: there may be no routine.toml, and then nothing is declared.
Readable == manifest.readable

\* A manifest that cannot be read fails the gather before the script runs.
GatherStar ==
    /\ pc = "idle"
    /\ pc' = IF Readable THEN "script" ELSE "ended"
    /\ UNCHANGED <<given, call, hops, world, actions, result, script>>

\* gather(ctx) returned; what is not a dict of plain values is an error.
End ==
    /\ pc = "script" /\ ~cancelled
    /\ pc' = "ended"
    /\ result' \in {NoResult, [ok |-> TRUE, actions |-> actions]}
    /\ UNCHANGED <<given, call, hops, world, actions, script>>

\* The context is done; the goroutine that sees it cancels the thread, and the
\* script notices when it is back from its call.
Deadline ==
    /\ pc \notin {"idle", "ended"} /\ ~late
    /\ late' = TRUE
    /\ UNCHANGED <<manifest, dry, pc, call, hops, cancelled, world, actions, result, script>>

Cancel ==
    /\ pc # "ended" /\ late /\ ~cancelled
    /\ cancelled' = TRUE
    /\ UNCHANGED <<manifest, dry, pc, call, hops, late, world, actions, result, script>>

Cancelled ==
    /\ pc = "script" /\ cancelled
    /\ Raise
    /\ UNCHANGED <<given, world>>

Dies ==
    /\ pc \notin {"idle", "ended"}
    /\ Raise
    /\ UNCHANGED <<given, world>>

-----------------------------------------------------------------------------
(* http.                                                                     *)

\* A request goes out unless the deadline has passed.
Sends(host, method, hop) ==
    sent' = IF late THEN sent ELSE sent \cup {[host |-> host, method |-> method, hop |-> hop]}

Http(c) ==
    /\ Makes("http", c)
    /\ \/ ~(HostAllowed(c.host) /\ MethodAllowed(c.method)) /\ Raise /\ UNCHANGED sent
       \/ /\ HostAllowed(c.host) /\ MethodAllowed(c.method)
          /\ IF dry /\ c.method # "GET" THEN AddAction(c) /\ UNCHANGED sent
             ELSE call' = c /\ Waits("http") /\ Sends(c.host, c.method, 0)
    /\ UNCHANGED <<vault, tmp, spawned, dirtied, bookmarks>>

\* Mutant: only the first hop is looked at.
Follows_FirstHop(host) == (hops = 0 => HostAllowed(host)) /\ hops < MaxHops

\* CheckRedirect.
Follows(host) == HostAllowed(host) /\ hops < MaxHops

\* The server redirects: 307 keeps the method, 303 makes it a GET.
Redirect(host, method) ==
    /\ pc = "http" /\ ~late
    /\ method \in {call.method, "GET"}
    /\ IF Follows(host)
       THEN /\ hops' = hops + 1
            /\ Sends(host, method, hops + 1)
            /\ call' = [call EXCEPT !.host = host, !.method = method]
            /\ UNCHANGED <<pc, actions, result, script>>
       ELSE Returns /\ UNCHANGED sent
    /\ UNCHANGED <<given, vault, tmp, spawned, dirtied, bookmarks>>

\* An answer, or httpFailure: status 0 and a reason.
HttpReturns ==
    /\ pc = "http"
    /\ Returns
    /\ UNCHANGED <<given, world>>

\* A secret that is not there is an error.
Secret(c) ==
    /\ Makes("secret", c)
    /\ Raise \/ Answered(c)
    /\ UNCHANGED world

-----------------------------------------------------------------------------
(* write.                                                                    *)

\* Mutant: the text is compared before the dry run is asked about.
Compare_First(c) ==
    IF vault[c.path] = c.text THEN Answered(c)
    ELSE IF dry THEN AddAction(c)
    ELSE call' = c /\ Waits("create")

Compare(c) ==
    IF dry THEN AddAction(c)
    ELSE IF vault[c.path] = c.text THEN Answered(c)
    ELSE call' = c /\ Waits("create")

Write(c) ==
    /\ Makes("write", c)
    /\ IF ".." \in Range(c.path) \/ ~WriteAllowed(c.path) THEN Raise ELSE Compare(c)
    /\ UNCHANGED world

\* CreateTemp in the directory of the file, the text in it; or an error.
CreateTemp ==
    /\ pc = "create"
    /\ \/ pc' = "rename" /\ tmp' = tmp \cup {call} /\ UNCHANGED <<call, hops, actions, result, script>>
       \/ Raise /\ UNCHANGED tmp
    /\ UNCHANGED <<given, vault, sent, spawned, dirtied, bookmarks>>

Rename ==
    /\ pc = "rename"
    /\ tmp' = tmp \ {call}
    /\ \/ vault' = [vault EXCEPT ![call.path] = call.text] /\ Returns
       \/ Raise /\ UNCHANGED vault
    /\ UNCHANGED <<given, sent, spawned, dirtied, bookmarks>>

-----------------------------------------------------------------------------
(* run, fetch and ask.                                                       *)

\* A program is started unless the deadline has passed.
Starts(program) == spawned' = IF late THEN spawned ELSE spawned \cup {program}

RunCommand(c) ==
    /\ Makes("run", c)
    /\ IF ~ExecAllowed(c.program) THEN Raise /\ UNCHANGED spawned
       ELSE call' = c /\ Waits("run") /\ Starts(c.program)
    /\ UNCHANGED <<vault, tmp, sent, dirtied, bookmarks>>

\* It exits, or is killed at its time or the gather's, and lets go of its output.
CommandReturns ==
    /\ pc = "run"
    /\ Returns
    /\ UNCHANGED <<given, world>>

Fetch(c) ==
    /\ Makes("fetch", c)
    /\ call' = c /\ Waits("fetch")
    /\ UNCHANGED world

\* A rung whose tool may be run; the one that asks karakeep to fetch the page
\* creates a bookmark, not in a dry run.
Rung ==
    /\ pc = "fetch" /\ ~late
    /\ \/ \E t \in Tools : ExecAllowed(t) /\ spawned' = spawned \cup {t} /\ UNCHANGED bookmarks
       \/ ~dry /\ bookmarks' = TRUE /\ UNCHANGED spawned
    /\ UNCHANGED <<given, pc, call, hops, vault, tmp, sent, dirtied, actions, result, script>>

\* The headed rung, once its browser was looked up, asks systemd for the display that
\* its environment does not name: neither `exec` nor the deadline is asked.
PrepareDisplay ==
    /\ pc = "fetch" /\ manifest.headed /\ ExecAllowed("agent-browser")
    /\ spawned' = spawned \cup {"systemctl"}
    /\ UNCHANGED <<given, pc, call, hops, vault, tmp, sent, dirtied, bookmarks, actions, result, script>>

\* A page, or a kind that says why not; a bad address is an error.
FetchReturns ==
    /\ pc = "fetch"
    /\ Returns \/ Raise
    /\ UNCHANGED <<given, world>>

\* The decision of a model, on a context of its own (Decisions).
Ask(c) ==
    /\ Makes("ask", c)
    /\ call' = c /\ Waits("ask")
    /\ UNCHANGED world

AskReturns ==
    /\ pc = "ask"
    /\ Returns \/ Raise
    /\ UNCHANGED <<given, world>>

-----------------------------------------------------------------------------
(* sqlite and mem.                                                           *)

\* One statement that begins like a query.
ReadOnlySQL(sql) == Len(sql) = 1 /\ Head(sql).begins \in {"SELECT", "WITH", "PRAGMA table_info"}

\* mode=ro: a statement that writes fails.
Takes(sql) == ~\E i \in DOMAIN sql : sql[i].writes

\* QueryContext: a database that is not there, a statement that fails, more than
\* 10000 rows and the deadline are errors.
SQLiteQuery(c) ==
    /\ Makes("query", c)
    /\ \/ Raise /\ UNCHANGED dirtied
       \/ /\ ReadOnlySQL(c.sql) /\ Takes(c.sql) /\ ~late
          /\ dirtied' = (dirtied \/ \E i \in DOMAIN c.sql : c.sql[i].writes)
          /\ Answered(c)
    /\ UNCHANGED <<vault, tmp, sent, spawned, bookmarks>>

\* mem.search and mem.state, and what reads a file: the world stays.
Look(c) ==
    /\ Makes("look", c)
    /\ Raise \/ Answered(c)
    /\ UNCHANGED world

-----------------------------------------------------------------------------

Next ==
    \/ GatherStar \/ End \/ Deadline \/ Cancel \/ Cancelled \/ Dies
    \/ \E c \in Calls :
         Http(c) \/ Secret(c) \/ Write(c) \/ RunCommand(c) \/ Fetch(c) \/ Ask(c)
           \/ SQLiteQuery(c) \/ Look(c)
    \/ \E host \in Hosts, method \in {"GET", "POST"} : Redirect(host, method)
    \/ HttpReturns \/ CreateTemp \/ Rename \/ CommandReturns
    \/ Rung \/ PrepareDisplay \/ FetchReturns \/ AskReturns

Spec == Init /\ [][Next]_vars

-----------------------------------------------------------------------------
(* Properties.                                                              *)

TypeOK ==
    /\ pc \in {"idle", "script", "http", "create", "rename", "run", "fetch", "ask", "ended"}
    /\ call \in Calls \cup {NoCall} \/ pc = "http"
    /\ hops \in 0..MaxHops /\ Len(script) <= MaxCalls
    /\ \A i \in DOMAIN actions : actions[i] \in Calls
    /\ cancelled => late

\* star.go: "DECLARE OR STAY PURE".  Wherever a server redirects to, whatever fetch()
\* starts and whatever a WITH goes on to say, requests go to declared hosts, by a
\* declared method or, after a redirect, by GET; files change below declared
\* prefixes; with a list of programs only those are started, but for the query of the
\* display by a browser that is on the list and may open a window; no database is
\* written.
EffectsAreDeclared ==
    /\ \A q \in sent :
         /\ "http" \in manifest.declares /\ q.host \in manifest.hosts
         /\ q.method \in MethodList \/ (q.hop > 0 /\ q.method = "GET")
    /\ \A p \in Paths : vault[p] # Old =>
         /\ "write" \in manifest.declares
         /\ \E d \in manifest.paths : Len(p) >= Len(d.at) /\ SubSeq(p, 1, Len(d.at)) = d.at
    /\ manifest.exec # {} =>
         spawned \subseteq manifest.exec \cup
           {p \in {"systemctl"} : manifest.headed /\ "agent-browser" \in manifest.exec}
    /\ ~dirtied

\* What a dry run has to keep from the world.
Mutates(c) == c.is = "write" \/ (c.is = "http" /\ c.method # "GET")

\* A list of those calls: each of them, in their order, and no other.
Lists(list, calls) ==
    \E at \in [DOMAIN list -> DOMAIN calls] :
        /\ \A i, j \in DOMAIN list : i < j => at[i] < at[j]
        /\ {at[i] : i \in DOMAIN list} = {k \in DOMAIN calls : Mutates(calls[k])}
        /\ \A i \in DOMAIN list : list[i] = calls[at[i]]

\* gather.go: "--dry suppresses a gather.star's declared write and non-GET http calls
\* and reports them".  After any number of calls a dry run has changed no file, sent
\* nothing but GETs and made no bookmark; its digest lists the calls it suppressed,
\* each of them, in their order, whether or not they would have changed anything;
\* the digest of another run lists none.
DryRunIsListed ==
    /\ dry => /\ \A p \in Paths : vault[p] = Old
              /\ tmp = {} /\ ~bookmarks
              /\ \A q \in sent : q.method = "GET"
    /\ result.ok => IF dry THEN Lists(result.actions, script) ELSE result.actions = <<>>
=============================================================================
