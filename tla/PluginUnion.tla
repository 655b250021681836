------------------------------ MODULE PluginUnion ------------------------------
(***************************************************************************)
(* qilla's plugin of Claude Code (internal/plugin): one directory into which   *)
(* `qilla plugin` writes the skills and agents that qilla ships, and every      *)
(* command, before its own work, folds in those of the user's directories, as  *)
(* symbolic links, with their hooks; Claude Code's own copy, which cannot hold  *)
(* links, is made anew behind it.  Commands overlap, and no step is locked:     *)
(* what is listed may be gone, and what is missing may be there, a step later.  *)
(*                                                                         *)
(* An entry is the name of a skill or an agent.                               *)
(***************************************************************************)
EXTENDS Naturals, Sequences

CONSTANTS
    Procs,      \* commands
    Dirs,       \* the user's plugin directories
    Names,      \* entries
    Orders,     \* values of [plugins].dirs
    MaxChanges  \* bound: changes by the user, and upgrades

VARIABLES
    dirs,       \* [plugins].dirs
    user,       \* per directory: its entries, and whose text each is: "none", "theirs", "ours"
    hooked,     \* directories with a hooks.json that can be read
    shipped,    \* entries the binary brings
    entry,      \* per name, in the plugin directory: "none", "real" or the directory it links to
    hooks,      \* hooks.json: the directories merged behind qilla's own
    cache,      \* per name, in the copy: "none", or whose text
    proc,
    changes,
    alone       \* history: the command that began last, unless another was under way then,
                \* or something changed since

vars == <<dirs, user, hooked, shipped, entry, hooks, cache, proc, changes, alone>>
plugin == <<entry, hooks, cache>>
given == <<dirs, user, hooked, shipped, changes>>

Idle == [pc |-> "idle", by |-> "", dirs |-> <<>>, todo |-> {}, want |-> {}, at |-> ""]

Init ==
    /\ dirs \in Orders
    /\ user \in [Dirs -> [Names -> {"none", "theirs"}]]
    /\ hooked = {} /\ shipped = {}
    /\ entry = [n \in Names |-> "none"] /\ hooks = <<>> /\ cache = [n \in Names |-> "none"]
    /\ proc = [p \in Procs |-> Idle]
    /\ changes = 0 /\ alone = {}

Has(d, n) == user[d][n] # "none"

\* What an entry of the plugin directory comes to, links followed.
Text(n) == IF entry[n] = "none" THEN "none" ELSE IF entry[n] = "real" THEN "ours" ELSE user[entry[n]][n]

Goes(p, pc) == proc' = [proc EXCEPT ![p] = [Idle EXCEPT !.pc = pc, !.by = proc[p].by, !.dirs = proc[p].dirs]]

-----------------------------------------------------------------------------

UnderWay(p) == proc[p].pc \notin {"idle", "written", "done"} /\ ~(proc[p].pc = "failed" /\ proc[p].by = "materialize")

\* `qilla plugin` materializes first; any other command folds in.
Start(p, pc) ==
    /\ ~UnderWay(p)
    /\ proc' = [proc EXCEPT ![p] = [Idle EXCEPT !.pc = pc, !.by = pc, !.dirs = dirs,
                                                !.todo = IF pc = "materialize" THEN shipped ELSE {}]]
    /\ alone' = IF \A r \in Procs : ~UnderWay(r) THEN {p} ELSE {}
    /\ UNCHANGED <<given, plugin>>

\* Materialize, copyFS: a file is written wherever its path leads, into the user's
\* directory too; a link that leads nowhere is an error.
Materialize(p, n) ==
    /\ proc[p].pc = "materialize" /\ n \in proc[p].todo
    /\ IF entry[n] \in Dirs /\ ~Has(entry[n], n) THEN Goes(p, "failed") /\ UNCHANGED <<entry, user>>
       ELSE /\ proc' = [proc EXCEPT ![p].todo = @ \ {n}]
            /\ IF entry[n] \in Dirs
               THEN user' = [user EXCEPT ![entry[n]][n] = "ours"] /\ UNCHANGED entry
               ELSE entry' = [entry EXCEPT ![n] = "real"] /\ UNCHANGED user
    /\ UNCHANGED <<dirs, hooked, shipped, changes, hooks, cache, alone>>

Materialized(p) ==
    /\ proc[p].pc = "materialize" /\ proc[p].todo = {}
    /\ Goes(p, "scan")
    /\ UNCHANGED <<given, plugin, alone>>

-----------------------------------------------------------------------------
(* linkTree.                                                                 *)

\* Those of a sequence that are of a set, in their order.
Those(ds, S) ==
    LET those[i \in 0..Len(ds)] ==
          IF i = 0 THEN <<>>
          ELSE IF ds[i] \in S THEN Append(those[i - 1], ds[i]) ELSE those[i - 1]
    IN  those[Len(ds)]

\* The first directory that has it.
First(ds, n) ==
    LET having == Those(ds, {d \in Dirs : Has(d, n)})
    IN  IF having = <<>> THEN "none" ELSE Head(having)

\* A real entry always wins, and then the directory that comes first.
Scan(p) ==
    /\ proc[p].pc = "scan"
    /\ proc' = [proc EXCEPT ![p].pc = "list",
                            ![p].want = {<<n, First(proc[p].dirs, n)>> :
                                           n \in {m \in Names : entry[m] # "real" /\ First(proc[p].dirs, m) # "none"}}]
    /\ UNCHANGED <<given, plugin, alone>>

List(p) ==
    /\ proc[p].pc = "list"
    /\ proc' = [proc EXCEPT ![p].pc = "drop", ![p].todo = {n \in Names : entry[n] # "none"}]
    /\ UNCHANGED <<given, plugin, alone>>

\* Mutant: a link that is wanted is taken to be right.
Correct_Named(p, n) == \E w \in proc[p].want : w[1] = n

\* Already correct, and it leads somewhere.
Correct(p, n) == <<n, entry[n]>> \in proc[p].want /\ Has(entry[n], n)

\* A link that is correct is wanted no more; one that is not is to be removed.
Judge(p, n) ==
    /\ proc[p].pc = "drop" /\ proc[p].at = "" /\ n \in proc[p].todo
    /\ LET left == proc[p].todo \ {n}
           want == {w \in proc[p].want : w[1] # n}
       IN  proc' = [proc EXCEPT ![p] =
                      IF entry[n] \notin Dirs THEN [@ EXCEPT !.todo = left]
                      ELSE IF Correct(p, n) THEN [@ EXCEPT !.todo = left, !.want = want]
                      ELSE [@ EXCEPT !.at = n]]
    /\ UNCHANGED <<given, plugin, alone>>

\* Whatever is there now; if nothing is, that is an error.
RemoveLink(p) ==
    /\ proc[p].pc = "drop" /\ proc[p].at # ""
    /\ IF entry[proc[p].at] = "none" THEN Goes(p, "failed") /\ UNCHANGED entry
       ELSE /\ entry' = [entry EXCEPT ![proc[p].at] = "none"]
            /\ proc' = [proc EXCEPT ![p].todo = @ \ {proc[p].at}, ![p].at = ""]
    /\ UNCHANGED <<given, hooks, cache, alone>>

Dropped(p) ==
    /\ proc[p].pc = "drop" /\ proc[p].todo = {}
    /\ proc' = [proc EXCEPT ![p].pc = "link"]
    /\ UNCHANGED <<given, plugin, alone>>

\* Symlink: an error if something is there.
Link(p, w) ==
    /\ proc[p].pc = "link" /\ w \in proc[p].want
    /\ IF entry[w[1]] # "none" THEN Goes(p, "failed") /\ UNCHANGED entry
       ELSE entry' = [entry EXCEPT ![w[1]] = w[2]] /\ proc' = [proc EXCEPT ![p].want = @ \ {w}]
    /\ UNCHANGED <<given, hooks, cache, alone>>

\* mergeHooks: qilla's own, and those of every directory, in their order.
MergeHooks(p) ==
    /\ proc[p].pc = "link" /\ proc[p].want = {}
    /\ hooks' = Those(proc[p].dirs, hooked)
    /\ Goes(p, "refresh")
    /\ UNCHANGED <<given, entry, cache, alone>>

-----------------------------------------------------------------------------
(* RefreshCache: Ensure does it after a union that failed too, `qilla plugin`   *)
(* only if it is to install.                                                  *)

Register(p) ==
    /\ proc[p].pc = "refresh" /\ proc[p].by = "materialize"
    /\ proc' = [proc EXCEPT ![p] = [Idle EXCEPT !.pc = "written"]]
    /\ UNCHANGED <<given, plugin, alone>>

\* copyDeref, per name: the text, links followed; a broken link leaves what the copy
\* has, a name that is gone is removed.
Refresh(p) ==
    /\ proc[p].pc = "refresh" \/ (proc[p].pc = "failed" /\ proc[p].by = "scan")
    /\ cache' = [n \in Names |-> IF entry[n] # "none" /\ Text(n) = "none" THEN cache[n] ELSE Text(n)]
    /\ proc' = [proc EXCEPT ![p] = [Idle EXCEPT !.pc = IF proc[p].pc = "failed" THEN "idle" ELSE "done"]]
    /\ UNCHANGED <<given, entry, hooks, alone>>

Dies(p) ==
    /\ UnderWay(p)
    /\ proc' = [proc EXCEPT ![p] = Idle]
    /\ UNCHANGED <<given, plugin, alone>>

-----------------------------------------------------------------------------
(* The user, and an upgrade.                                                 *)

Changed == changes < MaxChanges /\ changes' = changes + 1 /\ alone' = {}

Edit(d, n) ==
    /\ Changed
    /\ user' = [user EXCEPT ![d][n] = IF @ = "theirs" THEN "none" ELSE "theirs"]
    /\ UNCHANGED <<dirs, hooked, shipped, plugin, proc>>

Hook(d) ==
    /\ Changed
    /\ hooked' = IF d \in hooked THEN hooked \ {d} ELSE hooked \cup {d}
    /\ UNCHANGED <<dirs, user, shipped, plugin, proc>>

Configure(o) ==
    /\ Changed /\ o # dirs
    /\ dirs' = o
    /\ UNCHANGED <<user, hooked, shipped, plugin, proc>>

Upgrade(n) ==
    /\ Changed /\ n \notin shipped
    /\ shipped' = shipped \cup {n}
    /\ UNCHANGED <<dirs, user, hooked, plugin, proc>>

Next ==
    \/ \E p \in Procs :
         \/ \E pc \in {"materialize", "scan"} : Start(p, pc)
         \/ \E n \in Names : Materialize(p, n) \/ Judge(p, n)
         \/ Materialized(p) \/ Scan(p) \/ List(p) \/ RemoveLink(p) \/ Dropped(p)
         \/ \E w \in proc[p].want : Link(p, w)
         \/ MergeHooks(p) \/ Register(p) \/ Refresh(p) \/ Dies(p)
    \/ \E d \in Dirs : Hook(d) \/ \E n \in Names : Edit(d, n)
    \/ \E o \in Orders : Configure(o)
    \/ \E n \in Names : Upgrade(n)

Spec == Init /\ [][Next]_vars

-----------------------------------------------------------------------------
(* Properties.                                                              *)

TypeOK ==
    /\ entry \in [Names -> Dirs \cup {"none", "real"}]
    /\ \A n \in Names : cache[n] \in {"none", "theirs", "ours"}
    /\ changes \in 0..MaxChanges /\ alone \subseteq Procs
    /\ \A p \in Procs : proc[p].todo \subseteq Names

\* union.go: "the result only ever describes the current config".  Whatever commands that
\* died, failed or got into each other's way have left there, the next one that has the
\* directory to itself does not fail, unless what qilla ships meets a link that leads nowhere,
\* and leaves every entry either qilla's own or a link to the first directory that has it,
\* the hooks of the directories in their order, and, unless it was `qilla plugin` without
\* install, in Claude Code's copy the same.
UnionIsCurrent ==
    \A p \in alone :
      /\ proc[p].pc = "failed" => \E n \in shipped : entry[n] \in Dirs
      /\ proc[p].pc \in {"written", "done"} =>
        /\ \A n \in Names : entry[n] # "real" =>
              entry[n] = IF \E i \in DOMAIN dirs : Has(dirs[i], n)
                         THEN dirs[CHOOSE i \in DOMAIN dirs :
                                     Has(dirs[i], n) /\ \A j \in 1..(i - 1) : ~Has(dirs[j], n)]
                         ELSE "none"
        /\ \A i, j \in DOMAIN hooks : i < j => \E k, l \in DOMAIN dirs : k < l /\ dirs[k] = hooks[i] /\ dirs[l] = hooks[j]
        /\ \A d \in Dirs : (\E i \in DOMAIN hooks : hooks[i] = d) <=> d \in hooked /\ \E i \in DOMAIN dirs : dirs[i] = d
        /\ proc[p].pc = "done" => \A n \in Names : cache[n] = Text(n)
=============================================================================
