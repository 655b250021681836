---------------------------- MODULE MCSupervisor ----------------------------
(* Small instances of Supervisor for TLC.                                  *)
EXTENDS Supervisor

CONSTANTS brief, ask

\* For liveness the loop runs with the routine's timers alone: no page that
\* asks, no death of the process, no job that is put back.  MCServe has these.
TimersNext ==
    \/ \E j \in CliJobs : CliInsert(j) \/ CliPoke(j) \/ CliPokeFails(j)
    \/ TimerPokes
    \/ ReconcileStep
    \/ Start \/ Exit \/ Stop
    \/ AcceptorStep
    \/ SelectStep
    \/ \E j \in Jobs : DrainTakes(j)
    \/ DrainSettles
    \/ DrainEnds
    \/ DrainFails
    \/ IdleElapses \/ TickElapses

TimersSpec == Init /\ [][TimersNext]_vars /\ Fairness
=============================================================================
