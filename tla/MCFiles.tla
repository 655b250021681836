------------------------------ MODULE MCFiles ------------------------------
(* Values for TLC.  The components move apart, so that their state spaces add  *)
(* up.                                                                        *)
EXTENDS Files

\* Three texts, two of them the same; two families, two droppers.
TwoFamilies == <<"notes", "plans">>
Texts == [a |-> "same", b |-> "same", c |-> "other"]

\* Two accounts with a message each; one of two applies is gated.
Accounts == [m1 |-> "home", m2 |-> "work"]
Batches == [s |-> {"m1", "m2"}, t |-> {"m2"}]

\* One reminder due at once, which two lines may say, one later.
OnceAndLater == [r1 |-> 0, r2 |-> 1]
TwoSaySo == [k |-> "r1", l |-> "r1", m |-> "r2"]

\* A note before and one behind the todo file in the walk.
ThreeNotes == <<"archive", "todo", "person">>

\* Beside the sweep: a `done` with a copied line or an unreadable note; or a summary, a
\* `remind add` and one writer.
DoneOrRewrites ==
    \/ /\ command["summary"].pc = "off" /\ command["remind"].pc = "off"
       /\ unread = {} \/ copies = 0
    \/ /\ command["done"].pc = "off" /\ copies = 0
       /\ writer["w"].pc = "off" /\ writer["v"].id <= 1

\* Those that are alike begin in the order of their names (symmetry).
InOrder ==
    /\ writer["w"].pc # "off" => writer["v"].pc # "off"
    /\ adder["b"].pc # "off" => adder["a"].pc # "off"
    /\ dropper["e"].pc # "off" => dropper["d"].pc # "off"
    /\ line["l"] # "none" => line["k"] # "none"

\* A line is copied among tasks that got the same id; a fault of the mail account is looked
\* at beside one stager, two stagers without it.
OneBesideAFault ==
    /\ copies = 0 \/ \A w \in Writers : writer[w].id <= 1
    /\ gmailFaults = 0 \/ \E s \in Stagers : stager[s].pc = "off"

\* A document that is good and one that is not.
Charts == {[name |-> "chart", good |-> TRUE], [name |-> "words", good |-> FALSE]}

\* One entry that either directory may have.
TwoOrders == {<<"notes", "work">>, <<"work">>}

-----------------------------------------------------------------------------
Table(kind, output, schedule) == [kind |-> kind, output |-> output, schedule |-> schedule]
RoutineToml(is, requires, files, signals, caps) ==
    [is |-> is, requires |-> requires, optional |-> {"map"}, files |-> files, signals |-> signals,
     caps |-> caps]
Hand(path, required) == [path |-> path, required |-> required]
Signal(name, expect, settings) == [name |-> name, expect |-> expect, settings |-> settings]
Cap(is, of, odd) == [is |-> is, of |-> of, odd |-> odd]
NoToml == RoutineToml("none", {}, {}, {}, {})
Host(engine, qmdRefresh, t, settings) ==
    [engine |-> engine, qmdRefresh |-> qmdRefresh,
     template |-> [table |-> t, settings |-> settings]]
Engine == Host(TRUE, FALSE, Table("script", FALSE, 2), {})

\* A bundle without a manifest, with a broken one, with one that asks for a command and
\* a file, for signals, and one that may write outside the vault.
FiveManifests ==
    {NoToml, RoutineToml("broken", {}, {}, {}, {}),
     RoutineToml("read", {"jq"}, {Hand("feeds", TRUE)}, {}, {Cap("exec", {}, {})}),
     RoutineToml("read", {}, {Hand("feeds", FALSE)},
                 {Signal("mail", "", {"account"}), Signal("feed", "json-nonempty", {})},
                 {Cap("http", {"home"}, {})}),
     RoutineToml("read", {}, {}, {Signal("up", "ok", {})}, {Cap("write", {"notes"}, {"notes"})})}

\* Two schedules and "manual"; a fresh routine, for its files.
FourTables == {Table("resumed", TRUE, 1), Table("script", FALSE, 2), Table("resumed", FALSE, 0),
               Table("fresh", FALSE, 1)}

\* The engine, whose routine is in the template, and agent hosts, whose own is not.
Unlisted == Table("none", FALSE, 0)
ThreeHosts == {Engine, Host(FALSE, TRUE, Unlisted, {}), Host(FALSE, FALSE, Unlisted, {})}

\* The timer, with a change by hand, or a forced init (and a change when that is over), or a
\* unit that cannot be removed; or the files: a fresh routine, its author and another command.
TimerOrFiles ==
    \/ which # "bundle"
    \/ /\ table.kind # "fresh" /\ proc["command"] = B!Idle
       /\ proc["init"].force => bundleEdits = 0 \/ proc["init"].pc = "done"
       /\ proc["init"].stuck = {} \/ bundleEdits = 0
       /\ bundle["gather.star"] # "author" /\ bundle["gather.sh"] # "author"
    \/ /\ table.kind \in {"fresh", "none"} /\ host = Engine /\ manifest = NoToml
       /\ have = {} /\ outcome = "error" /\ bundle["feeds"] = "none"
=============================================================================
