---------------------------- MODULE MCReconcile ----------------------------
(* Reconcile for TLC: one or two routines, a window in the middle of a     *)
(* three-hour day.                                                         *)
EXTENDS Reconcile, TLC

CONSTANTS brief, triage

MidDay == [r \in Routines |-> [from |-> 1, to |-> 2]]
\* The second routine has no window.
OneOpen == [r \in Routines |-> IF r = brief THEN [from |-> 0, to |-> 1]
                               ELSE [from |-> 0, to |-> 2]]

\* For liveness a day goes by without the routine's own timer, which would
\* enqueue what reconcile has to, and without a budget that puts a run off.
\* MCRoutine has both.
UndisturbedNext ==
    \/ \E c \in Reconcilers : Round(c) \/ Fails(c)
    \/ Work
    \/ Crash
    \/ \E id \in JobIds : Drop(id) \/ Retry(id)
    \/ Tick

UndisturbedSpec == Init /\ [][UndisturbedNext]_vars /\ Fairness
=============================================================================
