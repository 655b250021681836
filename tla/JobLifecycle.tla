---------------------------- MODULE JobLifecycle ----------------------------
(***************************************************************************)
(* What the job table and its one drain promise about a job, whatever the  *)
(* schedule, the budget and the clock: the statuses it goes through, and   *)
(* that at most one job at a time is in the drain's hand and only that job *)
(* moves by itself.  JobQueue implements this.                             *)
(***************************************************************************)
EXTENDS Naturals

CONSTANT Jobs   \* the ids a job can have, positive; 0 stands for no job

VARIABLES
    status,   \* per id: "none" before it is enqueued
    inHand,   \* the job the drain has taken and not settled, or 0
    started   \* the job in hand has been marked running

vars == <<status, inHand, started>>

Init ==
    /\ status = [id \in Jobs |-> "none"]
    /\ inHand = 0
    /\ started = FALSE

Enqueue(id) ==
    /\ status[id] = "none"
    /\ status' = [status EXCEPT ![id] = "queued"]
    /\ UNCHANGED <<inHand, started>>

\* Only jobs that wait expire, all that are overdue at once.
Expire(late) ==
    /\ inHand = 0
    /\ \A id \in late : status[id] = "queued"
    /\ status' = [id \in Jobs |-> IF id \in late THEN "expired" ELSE status[id]]
    /\ UNCHANGED <<inHand, started>>

\* The drain takes a waiting job, with empty hands only.
Take(id) ==
    /\ inHand = 0
    /\ status[id] = "queued"
    /\ inHand' = id
    /\ UNCHANGED <<status, started>>

Start ==
    /\ inHand # 0
    /\ ~started
    /\ status' = [status EXCEPT ![inHand] = "running"]
    /\ started' = TRUE
    /\ UNCHANGED inHand

\* A job that has been started is settled, or goes back to wait.
Settle(outcome) ==
    /\ started
    /\ status' = [status EXCEPT ![inHand] = outcome]
    /\ inHand' = 0
    /\ started' = FALSE

\* The drain is cut short: its job keeps whatever status it has.
LetGo ==
    /\ inHand # 0
    /\ inHand' = 0
    /\ started' = FALSE
    /\ UNCHANGED status

\* The owner re-opens or parks any job that exists, the one in hand included.
Override(id, choice) ==
    /\ status[id] # "none"
    /\ status' = [status EXCEPT ![id] = choice]
    /\ UNCHANGED <<inHand, started>>

Next ==
    \/ \E id \in Jobs : Enqueue(id) \/ Take(id)
    \/ \E late \in SUBSET Jobs : Expire(late)
    \/ Start
    \/ \E outcome \in {"done", "failed", "queued"} : Settle(outcome)
    \/ LetGo
    \/ \E id \in Jobs, choice \in {"queued", "suspended"} : Override(id, choice)

Spec == Init /\ [][Next]_vars
=============================================================================
