------------------------------ MODULE MCTimers ------------------------------
(* What a timer starts again and again until it is done, for TLC: the run of *)
(* a judge routine (with one run by hand), and the tick of the reminders     *)
(* (with a tick and a reset by hand).  They share no state, so that a        *)
(* behaviour moves one of them only (`which`).                               *)
EXTENDS JudgeRun

VARIABLES which, now, line, sent, tick, reset, remindFaults, last, excused, overlapped

judgeVars == vars
remindVars == <<now, line, sent, tick, reset, remindFaults, last, excused, overlapped>>

MCWorkers == {"serve", "hand"}

R == INSTANCE Remind WITH
    faults <- remindFaults,
    Reminders <- {"r1"},
    Lines <- {"l1", "l2"},
    KeyOf <- [l \in {"l1", "l2"} |-> "r1"],
    Due <- [r1 |-> 0],
    Retention <- 1,
    Ticks <- {"timer", "hand"},
    Resets <- {"reset"},
    Once <- {"hand"},
    MaxTime <- 2,
    MaxFaults <- 1

TimersInit ==
    /\ which \in {"judge", "reminders"}
    /\ Init /\ R!Init

TimersNext ==
    \/ which = "judge" /\ Next /\ UNCHANGED <<which, remindVars>>
    \/ which = "reminders" /\ R!Next /\ UNCHANGED <<which, judgeVars>>

\* The routine's timer starts the supervisor's run again and again, a run does
\* not stop half way, and an enqueue that began goes on; nobody has to run
\* anything by hand.  The reminders' timer starts its tick again and again, and
\* that tick goes on.  Nothing is assumed of the clock, the user, failures,
\* deaths, or the tick and the reset by hand.
TimersSpec ==
    /\ TimersInit /\ [][TimersNext]_<<which, judgeVars, remindVars>>
    /\ WF_judgeVars(which = "judge" /\ Gather("serve"))
    /\ \A w \in Workers : WF_judgeVars(which = "judge" /\ Step(w))
    /\ \A i \in Items : WF_judgeVars(which = "judge" /\ ParkItem(i))
    /\ WF_remindVars(which = "reminders" /\ R!Scan("timer", {}))
    /\ WF_remindVars(which = "reminders" /\ R!Step("timer"))

\* Reminders: what is due is notified in the end (see Remind).
DueIsNotified == R!DueIsNotified
=============================================================================
