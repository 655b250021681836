------------------------------ MODULE MCRoutine ------------------------------
(* Values for TLC.  The components move apart, so that their state spaces add  *)
(* up.                                                                        *)
EXTENDS Routine

CONSTANTS brief, triage

\* Reconcile: a two-hour day that begins inside the window of one routine; the other
\* has no window.
OpensAtMidnight == [r \in Routines |-> [from |-> 0, to |-> IF r = brief THEN 1 ELSE 2]]

\* Three of its days, so that the state space stays small: two rounds at a time after the
\* window, and nothing else goes wrong; rounds one at a time over both routines, a
\* statement of which may fail; and rounds one at a time over the first routine,
\* with a press of a button, a run put off by the budget, the routine's own timer, an
\* error or a dead supervisor.
Troubles == used.timers + used.page + used.holds + used.errors + used.crashes
BriefAlone ==
    /\ \A id \in JobIds : jobs[id] = NoRow \/ jobs[id].routine = brief
    /\ \A c \in Reconcilers : /\ rec[c].todo # {triage}
                              /\ rec[c].r = triage => rec[c].todo = Routines
OneAtATime == rec["page"].pc = "idle" /\ racing = {}

TwoRounds ==
    /\ BriefAlone /\ Troubles = 0 /\ nextId < MaxJobs + 1
    /\ \/ rec["page"].pc = "idle"
       \/ \A c \in Reconcilers : rec[c].pc # "idle" => rec[c].hour = LastHour
TwoRoutines == OneAtATime /\ day = 0 /\ Troubles = used.errors
OneTrouble == OneAtATime /\ raced = {} /\ BriefAlone /\ Troubles <= 1
OneOfThree == TwoRounds \/ TwoRoutines \/ OneTrouble

\* Log: a line is taken out, somebody dies or midnight comes, one of the three.
EditOrDeath == edits + lost + today <= 1

\* A script, a routine that may be skipped and commits the vault, and a resumed
\* one.
RoutineKinds == {[kind |-> "script", commit |-> FALSE],
                 [kind |-> "fresh", commit |-> TRUE],
                 [kind |-> "resumed", commit |-> FALSE]}

\* The learning routine, whose agent has a cap and answers asks too, and one with a
\* cap of its own, both below the common one.
Agents == [r \in {"learn", "brief", "ask"} |-> IF r = "brief" THEN "coder" ELSE "chief"]
Caps == [global |-> 2, brief |-> 1, chief |-> 1]

\* A note of each kind, one without a key.
NoteKinds == [k \in {"", "fact", "rule"} |->
                IF k = "fact" THEN "said" ELSE IF k = "rule" THEN "heuristic" ELSE "note"]
=============================================================================
