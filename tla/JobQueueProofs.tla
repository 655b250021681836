--------------------------- MODULE JobQueueProofs ---------------------------
(* TLAPS proofs about JobQueue, for every value of its constants.           *)
EXTENDS JobQueue, TLAPS

\* Whatever the attempt, the next one is at least a tick away.
LEMMA BackoffIsPositive ==
    ASSUME NEW n \in Nat \ {0}
    PROVE  BackoffAfter(n) \in Nat \ {0}
<1>1. Len(Backoff) \in 1..Len(Backoff)
  BY BackoffAssumption
<1>2. (IF n < Len(Backoff) THEN n ELSE Len(Backoff)) \in 1..Len(Backoff)
  BY <1>1
<1>. QED  BY <1>2, BackoffAssumption DEF BackoffAfter

-----------------------------------------------------------------------------
(* The rows and the drain's hand on them.                                   *)

\* The rows inserted are the ids below nextId; the others are blank.  What the
\* drain has taken is a row, and it took it at a real time.
RowInv ==
    /\ \A id \in JobIds : state[id] # "none" <=> id < nextId
    /\ \A id \in JobIds : state[id] # "none" => job[id] \in Request
    /\ \A id \in JobIds : state[id] = "none" =>
          attempts[id] = 0 /\ lastPick[id] = 0 /\ retries[id] = 0
    /\ drain.pc \in {"mark", "gate", "run", "failing"} =>
          drain.id \in JobIds /\ state[drain.id] # "none"
    /\ drain.pc = "failing" => drain.to \in {"queued", "failed"}
    /\ drain.pc \in {"select", "mark"} => drain.t \in 1..now
    /\ \A id \in JobIds : lastPick[id] <= now
    /\ drain.pc \in {"gate", "run", "failing"} => lastPick[drain.id] > 0

LEMMA InitTypeOK == Init => TypeOK
BY BoundsAssumption DEF Init, TypeOK, JobIds, JobStates, Idle, DrainPCs

LEMMA EnqueueTypeOK ==
    ASSUME TypeOK, NEW e \in Enqueuers, EnqueueStep(e)
    PROVE  TypeOK'
<1> USE DEF TypeOK, columns, history
<1>1. ASSUME NEW r \in Routines, NEW text \in BOOLEAN, NEW prio \in Priorities,
             NEW life \in Lifetimes, EnqueueLookup(e, r, text, prio, life)
      PROVE  TypeOK'
  BY <1>1, LifetimesAssumption DEF EnqueueLookup, Request
<1>2. ASSUME NEW r \in Routines, EnqueueDeduped(e, r)
      PROVE  TypeOK'
  BY <1>2 DEF EnqueueDeduped, Waiting
<1>3. CASE EnqueueInsert(e)
  <2>1. enq[e] \in Request /\ enq[e].due \in Nat
    BY <1>3 DEF EnqueueInsert, Request
  <2>2. job' \in [JobIds -> Request \cup {NoRequest}] /\ due' \in [JobIds -> Nat]
    BY <1>3, <2>1 DEF EnqueueInsert
  <2>3. state' \in [JobIds -> JobStates \cup {"none"}]
    BY <1>3 DEF EnqueueInsert, JobStates
  <2>4. nextId' \in 1..(MaxJobs + 1) /\ owed' \subseteq JobIds
    BY <1>3, BoundsAssumption DEF EnqueueInsert, JobIds
  <2>5. enq' \in [Enqueuers -> Request \cup {NoRequest}]
    BY <1>3 DEF EnqueueInsert
  <2>. QED  BY <1>3, <2>2, <2>3, <2>4, <2>5 DEF EnqueueInsert
<1>. QED  BY <1>1, <1>2, <1>3 DEF EnqueueStep

\* Requeue writes the row in hand and goes back to the loop.
LEMMA RequeueTypeOK ==
    ASSUME TypeOK, NEW w \in Waits, drain.pc \in {"gate", "run"},
           RequeueUntil(now + w)
    PROVE  TypeOK'
<1>1. now + w \in Nat
  BY WaitsAssumption DEF TypeOK
<1>2. drain' = [pc |-> "loop", id |-> 0, t |-> 0, tried |-> 0, to |-> "none", due |-> 0]
  BY DEF RequeueUntil, BackToLoop, Idle
<1>3. state' \in [JobIds -> JobStates \cup {"none"}]
  BY DEF TypeOK, RequeueUntil, JobStates
<1>4. due' \in [JobIds -> Nat]
  BY <1>1 DEF TypeOK, RequeueUntil
<1>. QED
  BY <1>2, <1>3, <1>4 DEF TypeOK, RequeueUntil, history, DrainPCs

LEMMA DrainTypeOK ==
    ASSUME TypeOK, RowInv, DrainStep
    PROVE  TypeOK'
<1> USE DEF TypeOK, columns, history
<1>1. CASE StartDrain
  BY <1>1 DEF StartDrain, Idle, DrainPCs
<1>2. CASE ExpireOverdue
  BY <1>2 DEF ExpireOverdue, JobStates, DrainPCs
<1>3. CASE SelectJob
  BY <1>3 DEF SelectJob, Best, Eligible, DrainPCs
<1>4. CASE SelectNothing
  BY <1>4 DEF SelectNothing, Idle, DrainPCs
<1>5. CASE MarkRunning
  <2>1. drain' = [pc |-> "gate", id |-> drain.id, t |-> 0, tried |-> 0, to |-> "none", due |-> 0]
    BY <1>5 DEF MarkRunning, Idle
  <2>2. lastPick' \in [JobIds -> Nat] /\ state' \in [JobIds -> JobStates \cup {"none"}]
    BY <1>5 DEF MarkRunning, JobStates
  <2>. QED  BY <1>5, <2>1, <2>2 DEF MarkRunning, DrainPCs
<1>6. ASSUME NEW w \in Waits, GateBlocks(w) \/ RunDeferred(w)
      PROVE  TypeOK'
  BY <1>6, RequeueTypeOK DEF GateBlocks, RunDeferred
<1>7. CASE GatePasses
  BY <1>7 DEF GatePasses, DrainPCs
<1>8. CASE RunSucceeds
  <2>1. drain' = [pc |-> "loop", id |-> 0, t |-> 0, tried |-> 0, to |-> "none", due |-> 0]
    BY <1>8 DEF RunSucceeds, BackToLoop, Idle
  <2>. QED  BY <1>8, <2>1 DEF RunSucceeds, JobStates, DrainPCs
<1>9. ASSUME NEW terminal \in BOOLEAN, RunFails(terminal)
      PROVE  TypeOK'
  <2>1. drain.id \in JobIds
    BY <1>9 DEF RunFails, RowInv
  <2>2. attempts[drain.id] + 1 \in Nat \ {0} /\ due[drain.id] \in Nat
    BY <2>1
  <2>3. now + BackoffAfter(attempts[drain.id] + 1) \in Nat
    BY <2>2, BackoffIsPositive
  <2>. QED  BY <1>9, <2>2, <2>3 DEF RunFails, DrainPCs
<1>10. CASE RecordFailure
  <2>1. drain' = [pc |-> "loop", id |-> 0, t |-> 0, tried |-> 0, to |-> "none", due |-> 0]
    BY <1>10 DEF RecordFailure, BackToLoop, Idle
  <2>2. drain.to \in {"queued", "failed"}
    BY <1>10 DEF RecordFailure, RowInv
  <2>3. state' \in [JobIds -> JobStates \cup {"none"}]
    BY <1>10, <2>2 DEF RecordFailure, JobStates
  <2>4. attempts' \in [JobIds -> Nat] /\ due' \in [JobIds -> Nat]
    BY <1>10 DEF RecordFailure
  <2>. QED  BY <1>10, <2>1, <2>3, <2>4 DEF RecordFailure, DrainPCs
<1>11. CASE AbortDrain
  BY <1>11 DEF AbortDrain, Idle, DrainPCs
<1>. QED
  BY <1>1, <1>2, <1>3, <1>4, <1>5, <1>6, <1>7, <1>8, <1>9, <1>10, <1>11 DEF DrainStep

LEMMA PageTypeOK ==
    ASSUME TypeOK, PageStep \/ Tick
    PROVE  TypeOK'
<1> USE DEF TypeOK, columns, history
<1>1. ASSUME NEW id \in JobIds, RetryFromPage(id)
      PROVE  TypeOK'
  BY <1>1 DEF RetryFromPage, JobStates
<1>2. ASSUME NEW id \in JobIds, DropFromPage(id)
      PROVE  TypeOK'
  BY <1>2 DEF DropFromPage, JobStates
<1>3. CASE Tick
  BY <1>3 DEF Tick
<1>. QED  BY <1>1, <1>2, <1>3 DEF PageStep

-----------------------------------------------------------------------------

LEMMA InitRowInv == Init => RowInv
BY BoundsAssumption DEF Init, RowInv, JobIds, Idle

LEMMA EnqueueRowInv ==
    ASSUME TypeOK, RowInv, NEW e \in Enqueuers, EnqueueStep(e)
    PROVE  RowInv'
<1>1. ASSUME NEW r \in Routines, NEW text \in BOOLEAN, NEW prio \in Priorities,
             NEW life \in Lifetimes, EnqueueLookup(e, r, text, prio, life)
      PROVE  RowInv'
  BY <1>1 DEF EnqueueLookup, RowInv, columns, history
<1>2. ASSUME NEW r \in Routines, EnqueueDeduped(e, r)
      PROVE  RowInv'
  BY <1>2 DEF EnqueueDeduped, RowInv, columns
<1>3. CASE EnqueueInsert(e)
  <2>1. /\ nextId \in JobIds /\ nextId' = nextId + 1 /\ nextId \in Nat
        /\ state' = [state EXCEPT ![nextId] = "queued"]
        /\ job' = [job EXCEPT ![nextId] = enq[e]]
        /\ enq[e] \in Request
        /\ UNCHANGED <<attempts, now, drain, lastPick, retries>>
    BY <1>3 DEF EnqueueInsert, TypeOK, JobIds
  <2>2. state[nextId] = "none"
    BY <2>1 DEF RowInv
  <2>3. \A id \in JobIds : state'[id] # "none" <=> id < nextId'
    BY <2>1 DEF RowInv, TypeOK, JobIds
  <2>4. \A id \in JobIds : state'[id] # "none" => job'[id] \in Request
    BY <2>1 DEF RowInv, TypeOK
  <2>5. \A id \in JobIds : state'[id] = "none" => state[id] = "none"
    BY <2>1 DEF TypeOK
  <2>6. \A id \in JobIds : state[id] # "none" => state'[id] # "none"
    BY <2>1 DEF TypeOK
  <2>7. drain.pc \in {"mark", "gate", "run", "failing"} =>
           drain.id \in JobIds /\ state'[drain.id] # "none"
    BY <2>6 DEF RowInv
  <2>8. \A id \in JobIds : state'[id] = "none" =>
           attempts'[id] = 0 /\ lastPick'[id] = 0 /\ retries'[id] = 0
    BY <2>1, <2>5 DEF RowInv
  <2>9. /\ drain.pc = "failing" => drain.to \in {"queued", "failed"}
        /\ drain.pc \in {"select", "mark"} => drain.t \in 1..now
        /\ \A id \in JobIds : lastPick[id] <= now
        /\ drain.pc \in {"gate", "run", "failing"} => lastPick[drain.id] > 0
    BY DEF RowInv
  <2>10. drain' = drain /\ now' = now /\ lastPick' = lastPick
    BY <2>1
  <2>. QED  BY <2>3, <2>4, <2>7, <2>8, <2>9, <2>10 DEF RowInv
<1>. QED  BY <1>1, <1>2, <1>3 DEF EnqueueStep

\* The settling steps leave the drain empty-handed and the row a row.
LEMMA RequeueRowInv ==
    ASSUME TypeOK, RowInv, NEW w \in Waits, drain.pc \in {"gate", "run"},
           RequeueUntil(now + w)
    PROVE  RowInv'
BY DEF TypeOK, RowInv, RequeueUntil, BackToLoop, Idle, history

LEMMA DrainRowInv ==
    ASSUME TypeOK, RowInv, DrainStep
    PROVE  RowInv'
<1> USE DEF TypeOK, RowInv, columns, history
<1>1. CASE StartDrain
  BY <1>1 DEF StartDrain, Idle
<1>2. CASE ExpireOverdue
  BY <1>2 DEF ExpireOverdue, Overdue
<1>3. CASE SelectJob
  BY <1>3 DEF SelectJob, Best, Eligible
<1>4. CASE SelectNothing
  BY <1>4 DEF SelectNothing, Idle
<1>5. CASE MarkRunning
  BY <1>5 DEF MarkRunning, Idle
<1>6. ASSUME NEW w \in Waits, GateBlocks(w) \/ RunDeferred(w)
      PROVE  RowInv'
  BY <1>6, RequeueRowInv DEF GateBlocks, RunDeferred
<1>7. CASE GatePasses
  BY <1>7 DEF GatePasses
<1>8. CASE RunSucceeds
  BY <1>8 DEF RunSucceeds, BackToLoop, Idle
<1>9. ASSUME NEW terminal \in BOOLEAN, RunFails(terminal)
      PROVE  RowInv'
  BY <1>9 DEF RunFails
<1>10. CASE RecordFailure
  BY <1>10 DEF RecordFailure, BackToLoop, Idle
<1>11. CASE AbortDrain
  BY <1>11 DEF AbortDrain, Idle
<1>. QED
  BY <1>1, <1>2, <1>3, <1>4, <1>5, <1>6, <1>7, <1>8, <1>9, <1>10, <1>11 DEF DrainStep

LEMMA PageRowInv ==
    ASSUME TypeOK, RowInv, PageStep \/ Tick
    PROVE  RowInv'
<1> USE DEF TypeOK, RowInv, columns, history
<1>1. ASSUME NEW id \in JobIds, RetryFromPage(id)
      PROVE  RowInv'
  BY <1>1 DEF RetryFromPage
<1>2. ASSUME NEW id \in JobIds, DropFromPage(id)
      PROVE  RowInv'
  BY <1>2 DEF DropFromPage
<1>3. CASE Tick
  BY <1>3 DEF Tick
<1>. QED  BY <1>1, <1>2, <1>3 DEF PageStep

\* Every reachable state is well-typed and its rows are well-formed: the base
\* of all that follows.
THEOREM TypeCorrect == Spec => [](TypeOK /\ RowInv)
<1>1. TypeOK /\ RowInv /\ UNCHANGED vars => (TypeOK /\ RowInv)'
  BY DEF TypeOK, RowInv, vars, columns, history
<1>2. TypeOK /\ RowInv /\ [Next]_vars => (TypeOK /\ RowInv)'
  BY <1>1, EnqueueTypeOK, DrainTypeOK, PageTypeOK,
     EnqueueRowInv, DrainRowInv, PageRowInv DEF Next
<1>. QED  BY <1>2, InitTypeOK, InitRowInv, PTL DEF Spec

(* The safety properties, on top of TypeOK and RowInv.                     *)

-----------------------------------------------------------------------------
(* A running row is in the drain's hand, or was when a drain was cut short. *)

\* No step leaves a "running" row behind: every way out of the drain's hand
\* rewrites the state, except the cut that RunningIsHeld counts as an orphan.
THEOREM RunningIsHeldHolds == Spec => []RunningIsHeld
<1> USE DEF RunningIsHeld, Held, InHand
<1>1. Init => RunningIsHeld
  BY DEF Init
<1>2. TypeOK /\ RowInv /\ RunningIsHeld /\ [Next]_vars => RunningIsHeld'
  <2> SUFFICES ASSUME TypeOK, RowInv, RunningIsHeld, [Next]_vars
               PROVE  RunningIsHeld'
    OBVIOUS
  <2> USE DEF TypeOK, columns, history
  <2>1. ASSUME NEW e \in Enqueuers, EnqueueStep(e)
        PROVE  RunningIsHeld'
    BY <2>1 DEF EnqueueStep, EnqueueLookup, EnqueueDeduped, EnqueueInsert
  <2>2. CASE StartDrain \/ SelectNothing
    BY <2>2 DEF StartDrain, SelectNothing, Idle
  <2>3. CASE ExpireOverdue
    BY <2>3 DEF ExpireOverdue
  <2>4. CASE SelectJob
    BY <2>4 DEF SelectJob
  <2>5. CASE MarkRunning
    BY <2>5 DEF MarkRunning, Idle
  <2>6. ASSUME NEW w \in Waits, GateBlocks(w) \/ RunDeferred(w)
        PROVE  RunningIsHeld'
    BY <2>6 DEF GateBlocks, RunDeferred, RequeueUntil
  <2>7. CASE GatePasses
    BY <2>7 DEF GatePasses
  <2>8. CASE RunSucceeds
    BY <2>8 DEF RunSucceeds
  <2>9. ASSUME NEW terminal \in BOOLEAN, RunFails(terminal)
        PROVE  RunningIsHeld'
    BY <2>9 DEF RunFails
  <2>10. CASE RecordFailure
    BY <2>10 DEF RecordFailure, RowInv
  <2>11. CASE AbortDrain
    BY <2>11 DEF AbortDrain
  <2>12. CASE PageStep
    BY <2>12 DEF PageStep, RetryFromPage, DropFromPage
  <2>13. CASE Tick \/ UNCHANGED vars
    BY <2>13 DEF Tick, vars
  <2>. QED
    BY <2>1, <2>2, <2>3, <2>4, <2>5, <2>6, <2>7, <2>8, <2>9, <2>10, <2>11, <2>12,
       <2>13 DEF Next, DrainStep
<1>. QED  BY <1>1, <1>2, TypeCorrect, PTL DEF Spec
-----------------------------------------------------------------------------
(* Attempts and due times.                                                  *)

\* What the drain carries about the job in its hand is still right when it
\* uses it: the job had an attempt left when it was taken, and the verdict that
\* RecordFailure is about to write counts one attempt more.
HandInv ==
    /\ InHand => attempts[drain.id] < Allowance(drain.id)
    /\ drain.pc = "failing" => drain.tried = attempts[drain.id] + 1
    /\ drain.pc = "failing" /\ drain.to = "queued" =>
          /\ drain.tried < MaxAttempts[job[drain.id].routine]
          /\ drain.due > lastPick[drain.id]

AttemptsInv == HandInv /\ AttemptsWithinAllowance /\ RequeuedJobWaits

\* A row's routine allows a whole number of attempts.
LEMMA RowAllowance ==
    ASSUME TypeOK, RowInv, NEW id \in JobIds, state[id] # "none"
    PROVE  MaxAttempts[job[id].routine] \in Nat \ {0}
BY AttemptsAssumption DEF RowInv, Request

LEMMA InitAttemptsInv == Init => AttemptsInv
BY DEF Init, AttemptsInv, HandInv, AttemptsWithinAllowance, RequeuedJobWaits, InHand, Idle

LEMMA EnqueueAttemptsInv ==
    ASSUME TypeOK, RowInv, AttemptsInv, NEW e \in Enqueuers, EnqueueStep(e)
    PROVE  AttemptsInv'
<1> USE DEF TypeOK, columns, history, AttemptsInv, HandInv,
            AttemptsWithinAllowance, RequeuedJobWaits, InHand, Allowance
<1>1. ASSUME NEW r \in Routines, NEW text \in BOOLEAN, NEW prio \in Priorities,
             NEW life \in Lifetimes, EnqueueLookup(e, r, text, prio, life)
      PROVE  AttemptsInv'
  BY <1>1 DEF EnqueueLookup
<1>2. ASSUME NEW r \in Routines, EnqueueDeduped(e, r)
      PROVE  AttemptsInv'
  BY <1>2 DEF EnqueueDeduped
<1>3. CASE EnqueueInsert(e)
  <2>1. /\ nextId \in JobIds
        /\ state' = [state EXCEPT ![nextId] = "queued"]
        /\ job' = [job EXCEPT ![nextId] = enq[e]]
        /\ due' = [due EXCEPT ![nextId] = enq[e].due]
        /\ UNCHANGED <<attempts, drain, lastPick, retries>>
    BY <1>3 DEF EnqueueInsert
  <2>2. state[nextId] = "none" /\ attempts[nextId] = 0 /\ lastPick[nextId] = 0
    BY <2>1 DEF RowInv, JobIds
  <2>3. enq[e].routine \in Routines /\ MaxAttempts[enq[e].routine] \in Nat \ {0}
    BY <1>3, AttemptsAssumption DEF EnqueueInsert, Request
  <2>4. InHand => drain.id \in JobIds /\ drain.id # nextId
    BY <2>2 DEF RowInv
  <2>5. HandInv'
    BY <2>1, <2>4
  <2>6. AttemptsWithinAllowance'
    <3> SUFFICES ASSUME NEW id \in JobIds
                 PROVE  /\ state'[id] # "none" => attempts'[id] <= Allowance(id)'
                        /\ state'[id] \in {"queued", "running"} =>
                             attempts'[id] < Allowance(id)'
      OBVIOUS
    <3>1. CASE id = nextId
      <4>1. job'[id].routine = enq[e].routine /\ attempts'[id] = 0
        BY <2>1, <2>2, <3>1
      <4>. QED  BY <2>1, <2>3, <3>1, <4>1
    <3>2. CASE id # nextId
      BY <2>1, <3>2
    <3>. QED  BY <3>1, <3>2
  <2>7. RequeuedJobWaits'
    BY <2>1, <2>2
  <2>. QED  BY <2>5, <2>6, <2>7
<1>. QED  BY <1>1, <1>2, <1>3 DEF EnqueueStep

LEMMA DrainAttemptsInv ==
    ASSUME TypeOK, RowInv, AttemptsInv, DrainStep
    PROVE  AttemptsInv'
<1> USE DEF TypeOK, columns, history, AttemptsInv, HandInv,
            AttemptsWithinAllowance, RequeuedJobWaits, InHand, Allowance
<1>1. CASE StartDrain \/ SelectNothing
  BY <1>1 DEF StartDrain, SelectNothing, Idle
<1>2. CASE ExpireOverdue
  BY <1>2 DEF ExpireOverdue, Overdue
<1>3. CASE SelectJob
  BY <1>3 DEF SelectJob, Best, Eligible
<1>4. CASE MarkRunning
  <2>1. drain.id \in JobIds /\ state[drain.id] # "none"
    BY <1>4 DEF MarkRunning, RowInv
  <2>. QED  BY <1>4, <2>1 DEF MarkRunning, Idle
<1>5. ASSUME NEW w \in Waits, GateBlocks(w) \/ RunDeferred(w)
      PROVE  AttemptsInv'
  <2>1. drain.id \in JobIds /\ state[drain.id] # "none" /\ InHand
    BY <1>5 DEF GateBlocks, RunDeferred, RowInv
  <2>2. now + w \in Nat /\ now + w > lastPick[drain.id]
    BY <2>1, WaitsAssumption DEF RowInv
  <2>3. /\ state' = [state EXCEPT ![drain.id] = "queued"]
        /\ due' = [due EXCEPT ![drain.id] = now + w]
        /\ drain'.pc = "loop"
        /\ UNCHANGED <<job, attempts, lastPick, retries>>
    BY <1>5 DEF GateBlocks, RunDeferred, RequeueUntil, BackToLoop, Idle
  <2>. QED  BY <2>1, <2>2, <2>3
<1>6. CASE GatePasses
  BY <1>6 DEF GatePasses
<1>7. CASE RunSucceeds
  <2>1. drain.id \in JobIds /\ state[drain.id] # "none"
    BY <1>7 DEF RunSucceeds, RowInv
  <2>. QED  BY <1>7, <2>1 DEF RunSucceeds, BackToLoop, Idle
<1>8. ASSUME NEW terminal \in BOOLEAN, RunFails(terminal)
      PROVE  AttemptsInv'
  <2>1. drain.id \in JobIds /\ lastPick[drain.id] <= now
    BY <1>8 DEF RunFails, RowInv
  <2>2. now + BackoffAfter(attempts[drain.id] + 1) > lastPick[drain.id]
    BY <2>1, BackoffIsPositive
  <2>3. MaxAttempts[job[drain.id].routine] \in Nat \ {0}
    BY <1>8, RowAllowance DEF RunFails, RowInv
  <2>. QED  BY <1>8, <2>1, <2>2, <2>3 DEF RunFails, TriesAgain
<1>9. CASE RecordFailure
  <2>1. drain.id \in JobIds /\ drain.to \in {"queued", "failed"} /\ state[drain.id] # "none"
    BY <1>9 DEF RecordFailure, RowInv
  <2>2. MaxAttempts[job[drain.id].routine] \in Nat \ {0}
    BY <2>1, RowAllowance
  <2>. QED  BY <1>9, <2>1, <2>2 DEF RecordFailure, BackToLoop, Idle
<1>10. CASE AbortDrain
  BY <1>10 DEF AbortDrain, Idle
<1>. QED
  BY <1>1, <1>2, <1>3, <1>4, <1>5, <1>6, <1>7, <1>8, <1>9, <1>10 DEF DrainStep

LEMMA PageAttemptsInv ==
    ASSUME TypeOK, RowInv, AttemptsInv, PageStep \/ Tick
    PROVE  AttemptsInv'
<1> USE DEF TypeOK, columns, history, AttemptsInv, HandInv,
            AttemptsWithinAllowance, RequeuedJobWaits, InHand, Allowance
<1>1. ASSUME NEW id \in JobIds, RetryFromPage(id)
      PROVE  AttemptsInv'
  <2>1. MaxAttempts[job[id].routine] \in Nat \ {0}
    BY <1>1, RowAllowance DEF RetryFromPage
  <2>. QED  BY <1>1, <2>1 DEF RetryFromPage, RowInv
<1>2. ASSUME NEW id \in JobIds, DropFromPage(id)
      PROVE  AttemptsInv'
  BY <1>2 DEF DropFromPage
<1>3. CASE Tick
  BY <1>3 DEF Tick
<1>. QED  BY <1>1, <1>2, <1>3 DEF PageStep

\* No job runs more often than its routine allows, and one that failed or was
\* turned away comes due again only later than it was taken.
THEOREM AttemptsAndWaits == Spec => [](AttemptsWithinAllowance /\ RequeuedJobWaits)
<1>1. AttemptsInv /\ UNCHANGED vars => AttemptsInv'
  BY DEF AttemptsInv, HandInv, AttemptsWithinAllowance, RequeuedJobWaits, InHand, Allowance,
         vars, columns, history
<1>2. TypeOK /\ RowInv /\ AttemptsInv /\ [Next]_vars => AttemptsInv'
  BY <1>1, EnqueueAttemptsInv, DrainAttemptsInv, PageAttemptsInv DEF Next
<1>3. AttemptsInv => AttemptsWithinAllowance /\ RequeuedJobWaits
  BY DEF AttemptsInv
<1>. QED  BY <1>2, <1>3, InitAttemptsInv, TypeCorrect, PTL DEF Spec

-----------------------------------------------------------------------------
(* An answered Enqueue is served.                                           *)

\* The run in progress may not be credited to an Enqueue that came after it
\* started: such an Enqueue finds the row "running" and inserts a new one.
ServiceInv ==
    /\ EnqueueIsServed
    /\ drain.pc \in {"run", "failing"} => drain.id \notin owed \/ retries[drain.id] > 0
    /\ drain.pc \in {"gate", "run", "failing"} =>
          state[drain.id] \in {"running", "suspended"} \/ retries[drain.id] > 0

\* A job that answered an Enqueue is not "done" or "failed" before a run of it
\* that started after the answer.
THEOREM EnqueueIsServedHolds == Spec => []EnqueueIsServed
<1> USE DEF ServiceInv, EnqueueIsServed
<1>1. Init => ServiceInv
  BY DEF Init, Idle
<1>2. TypeOK /\ RowInv /\ ServiceInv /\ [Next]_vars => ServiceInv'
  <2> SUFFICES ASSUME TypeOK, RowInv, ServiceInv, [Next]_vars
               PROVE  ServiceInv'
    OBVIOUS
  <2> USE DEF TypeOK, columns, history
  <2>1. ASSUME NEW e \in Enqueuers, NEW r \in Routines, NEW text \in BOOLEAN,
               NEW prio \in Priorities, NEW life \in Lifetimes,
               EnqueueLookup(e, r, text, prio, life)
        PROVE  ServiceInv'
    BY <2>1 DEF EnqueueLookup
  <2>2. ASSUME NEW e \in Enqueuers, NEW r \in Routines, EnqueueDeduped(e, r)
        PROVE  ServiceInv'
    BY <2>2 DEF EnqueueDeduped, Waiting
  <2>3. ASSUME NEW e \in Enqueuers, EnqueueInsert(e)
        PROVE  ServiceInv'
    <3>1. /\ nextId \in JobIds
          /\ state' = [state EXCEPT ![nextId] = "queued"]
          /\ owed' = owed \cup {nextId}
          /\ UNCHANGED <<drain, retries>>
      BY <2>3 DEF EnqueueInsert
    <3>2. state[nextId] = "none"
      BY <3>1 DEF RowInv, JobIds
    <3>3. drain.pc \in {"gate", "run", "failing"} =>
             drain.id \in JobIds /\ drain.id # nextId
      BY <3>2 DEF RowInv
    <3>. QED  BY <3>1, <3>3
  <2>4. CASE StartDrain \/ SelectNothing
    BY <2>4 DEF StartDrain, SelectNothing, Idle
  <2>5. CASE ExpireOverdue
    BY <2>5 DEF ExpireOverdue
  <2>6. CASE SelectJob
    BY <2>6 DEF SelectJob
  <2>7. CASE MarkRunning
    <3>1. drain.id \in JobIds
      BY <2>7 DEF MarkRunning, RowInv
    <3>. QED  BY <2>7, <3>1 DEF MarkRunning, Idle
  <2>8. ASSUME NEW w \in Waits, GateBlocks(w) \/ RunDeferred(w)
        PROVE  ServiceInv'
    BY <2>8 DEF GateBlocks, RunDeferred, RequeueUntil, BackToLoop, Idle
  <2>9. CASE GatePasses
    BY <2>9 DEF GatePasses
  <2>10. CASE RunSucceeds
    BY <2>10 DEF RunSucceeds, BackToLoop, Idle
  <2>11. ASSUME NEW terminal \in BOOLEAN, RunFails(terminal)
         PROVE  ServiceInv'
    BY <2>11 DEF RunFails
  <2>12. CASE RecordFailure
    BY <2>12 DEF RecordFailure, BackToLoop, Idle
  <2>13. CASE AbortDrain
    BY <2>13 DEF AbortDrain, Idle
  <2>14. ASSUME NEW id \in JobIds, RetryFromPage(id)
         PROVE  ServiceInv'
    BY <2>14 DEF RetryFromPage
  <2>15. ASSUME NEW id \in JobIds, DropFromPage(id)
         PROVE  ServiceInv'
    BY <2>15 DEF DropFromPage
  <2>16. CASE Tick \/ UNCHANGED vars
    BY <2>16 DEF Tick, vars
  <2>. QED
    BY <2>1, <2>2, <2>3, <2>4, <2>5, <2>6, <2>7, <2>8, <2>9, <2>10, <2>11, <2>12,
       <2>13, <2>14, <2>15, <2>16 DEF Next, EnqueueStep, DrainStep, PageStep
<1>. QED  BY <1>1, <1>2, TypeCorrect, PTL DEF Spec

-----------------------------------------------------------------------------
(* Deduplication.                                                           *)

\* Only an INSERT makes a job fresh; everything else that queues a row leaves
\* the mark of an earlier pick or of the page on it.
LEMMA FreshComesFromInsert ==
    ASSUME TypeOK, RowInv, [Next]_vars,
           \A e \in Enqueuers : ~EnqueueInsert(e)
    PROVE  /\ UNCHANGED <<job, insertedBy>>
           /\ \A id \in JobIds : Fresh(id)' => Fresh(id)
<1> USE DEF TypeOK, columns, history, Fresh
<1>1. ASSUME NEW e \in Enqueuers, EnqueueStep(e)
      PROVE  UNCHANGED <<job, insertedBy, state, lastPick, retries>>
  BY <1>1 DEF EnqueueStep, EnqueueLookup, EnqueueDeduped
<1>2. CASE StartDrain \/ SelectNothing \/ SelectJob \/ GatePasses \/ AbortDrain
           \/ (\E terminal \in BOOLEAN : RunFails(terminal)) \/ Tick \/ UNCHANGED vars
  BY <1>2 DEF StartDrain, SelectNothing, SelectJob, GatePasses, AbortDrain, RunFails,
              Tick, vars
<1>3. CASE ExpireOverdue
  BY <1>3 DEF ExpireOverdue
<1>4. CASE MarkRunning
  BY <1>4 DEF MarkRunning, RowInv
<1>5. ASSUME NEW w \in Waits, GateBlocks(w) \/ RunDeferred(w)
      PROVE  /\ UNCHANGED <<job, insertedBy>>
             /\ \A id \in JobIds : Fresh(id)' => Fresh(id)
  BY <1>5 DEF GateBlocks, RunDeferred, RequeueUntil, RowInv
<1>6. CASE RunSucceeds
  BY <1>6 DEF RunSucceeds
<1>7. CASE RecordFailure
  BY <1>7 DEF RecordFailure, RowInv
<1>8. CASE PageStep
  BY <1>8 DEF PageStep, RetryFromPage, DropFromPage
<1>. QED
  BY <1>1, <1>2, <1>3, <1>4, <1>5, <1>6, <1>7, <1>8 DEF Next, DrainStep

\* An enqueuer about to insert a routine job has no fresh job of that routine.
AboutToInsertInv ==
    \A e \in Enqueuers, id \in JobIds :
        /\ enq[e] # NoRequest /\ ~enq[e].text
        /\ Fresh(id) /\ insertedBy[id] = e
        => job[id].routine # enq[e].routine

DedupeInv == OneFreshJobPerEnqueuer /\ AboutToInsertInv

LEMMA DedupeStep ==
    ASSUME TypeOK, RowInv, DedupeInv, [Next]_vars
    PROVE  DedupeInv'
<1> USE DEF DedupeInv, OneFreshJobPerEnqueuer, AboutToInsertInv
<1>1. ASSUME NEW e \in Enqueuers, EnqueueInsert(e)
      PROVE  DedupeInv'
  <2>0. PICK n \in JobIds : n = nextId
    BY <1>1 DEF EnqueueInsert
  <2>1. /\ state' = [state EXCEPT ![n] = "queued"]
        /\ job' = [job EXCEPT ![n] = enq[e]]
        /\ enq' = [enq EXCEPT ![e] = NoRequest]
        /\ insertedBy' = [insertedBy EXCEPT ![n] = e]
        /\ enq[e] # NoRequest
        /\ UNCHANGED <<lastPick, retries>>
    BY <1>1, <2>0 DEF EnqueueInsert
  <2>2. \A id \in JobIds \ {n} :
           /\ Fresh(id)' <=> Fresh(id)
           /\ job'[id] = job[id] /\ insertedBy'[id] = insertedBy[id]
    BY <2>1 DEF Fresh, TypeOK
  <2>3. job'[n] = enq[e] /\ insertedBy'[n] = e
    BY <2>1 DEF TypeOK
  <2>4. Fresh(n)' => ~enq[e].text
    BY <2>3 DEF Fresh
  <2>5. ASSUME NEW i \in JobIds \ {n}, Fresh(i), insertedBy[i] = e,
               Fresh(n)'
        PROVE  job[i].routine # enq[e].routine
    BY <2>1, <2>4, <2>5
  <2>6. OneFreshJobPerEnqueuer'
    <3> SUFFICES ASSUME NEW i \in JobIds, NEW j \in JobIds, Fresh(i)', Fresh(j)',
                        job'[i].routine = job'[j].routine,
                        insertedBy'[i] = insertedBy'[j], i # j
                 PROVE  FALSE
      OBVIOUS
    <3>1. CASE i # n /\ j # n
      BY <2>2, <3>1
    <3>2. CASE i = n
      BY <2>2, <2>3, <2>5, <3>2
    <3>3. CASE j = n
      BY <2>2, <2>3, <2>5, <3>3
    <3>. QED  BY <3>1, <3>2, <3>3
  <2>7. AboutToInsertInv'
    <3> SUFFICES ASSUME NEW f \in Enqueuers, NEW id \in JobIds,
                        enq'[f] # NoRequest, ~enq'[f].text,
                        Fresh(id)', insertedBy'[id] = f
                 PROVE  job'[id].routine # enq'[f].routine
      OBVIOUS
    <3>1. f # e /\ enq'[f] = enq[f]
      BY <2>1 DEF TypeOK
    <3>2. id # n
      BY <2>3, <3>1
    <3>. QED  BY <2>2, <3>1, <3>2
  <2>. QED  BY <2>6, <2>7
<1>2. ASSUME \A e \in Enqueuers : ~EnqueueInsert(e)
      PROVE  DedupeInv'
  <2>1. /\ UNCHANGED <<job, insertedBy>>
        /\ \A id \in JobIds : Fresh(id)' => Fresh(id)
    BY <1>2, FreshComesFromInsert
  <2>2. OneFreshJobPerEnqueuer'
    BY <2>1
  <2>3. ASSUME NEW e \in Enqueuers, NEW r \in Routines, NEW text \in BOOLEAN,
               NEW prio \in Priorities, NEW life \in Lifetimes,
               EnqueueLookup(e, r, text, prio, life)
        PROVE  AboutToInsertInv'
    <3>1. /\ enq' = [enq EXCEPT ![e] = enq'[e]]
          /\ enq'[e].routine = r /\ enq'[e].text = text
      BY <2>3 DEF EnqueueLookup, TypeOK
    <3>2. ~text => \A id \in JobIds : Fresh(id) => job[id].routine # r
      BY <2>3 DEF EnqueueLookup, Waiting, Fresh
    <3>. QED  BY <2>1, <3>1, <3>2 DEF TypeOK
  <2>4. CASE enq' = enq
    BY <2>1, <2>4
  <2>5. \/ enq' = enq
        \/ \E e \in Enqueuers, r \in Routines, text \in BOOLEAN, prio \in Priorities,
              life \in Lifetimes : EnqueueLookup(e, r, text, prio, life)
    BY <1>2 DEF Next, EnqueueStep, EnqueueDeduped, DrainStep, PageStep, StartDrain,
       ExpireOverdue, SelectJob, SelectNothing, MarkRunning, GateBlocks, GatePasses,
       RunDeferred, RequeueUntil, RunSucceeds, RunFails, RecordFailure, AbortDrain,
       RetryFromPage, DropFromPage, Tick, vars
  <2>. QED  BY <2>2, <2>3, <2>4, <2>5
<1>. QED  BY <1>1, <1>2

\* However enqueuers overlap, a routine has at most one fresh job per enqueuer.
THEOREM DedupeHolds == Spec => []OneFreshJobPerEnqueuer
<1>1. Init => DedupeInv
  BY DEF Init, DedupeInv, OneFreshJobPerEnqueuer, AboutToInsertInv, Fresh
<1>2. DedupeInv => OneFreshJobPerEnqueuer
  BY DEF DedupeInv
<1>. QED  BY <1>1, <1>2, DedupeStep, TypeCorrect, PTL DEF Spec

\* When no two Enqueue calls overlap, Enqueue keeps its promise as written.
THEOREM SerialDedupe ==
    ASSUME \A e, f \in Enqueuers : e = f
    PROVE  Spec => []NoFreshDuplicate
<1> DEFINE RowsHaveInserter ==
      \A id \in JobIds : state[id] # "none" => insertedBy[id] \in Enqueuers
<1>1. Init => RowsHaveInserter
  BY DEF Init
<1>2. TypeOK /\ RowInv /\ RowsHaveInserter /\ [Next]_vars => RowsHaveInserter'
  <2> SUFFICES ASSUME TypeOK, RowInv, RowsHaveInserter, [Next]_vars
               PROVE  RowsHaveInserter'
    OBVIOUS
  <2>1. ASSUME NEW e \in Enqueuers, EnqueueInsert(e)
        PROVE  RowsHaveInserter'
    BY <2>1 DEF EnqueueInsert, TypeOK
  <2>2. ASSUME \A e \in Enqueuers : ~EnqueueInsert(e)
        PROVE  RowsHaveInserter'
    <3>1. \A id \in JobIds : state'[id] # "none" => state[id] # "none"
      <4> USE DEF TypeOK, RowInv, columns
      <4>1. ASSUME NEW e \in Enqueuers, EnqueueStep(e)
            PROVE  state' = state
        BY <2>2, <4>1 DEF EnqueueStep, EnqueueLookup, EnqueueDeduped
      <4>2. CASE DrainStep
        <5>1. CASE ExpireOverdue
          BY <5>1 DEF ExpireOverdue, Overdue
        <5>2. CASE \/ MarkRunning \/ RunSucceeds \/ RecordFailure
                   \/ \E w \in Waits : GateBlocks(w) \/ RunDeferred(w)
          BY <5>2 DEF MarkRunning, RunSucceeds, RecordFailure, GateBlocks, RunDeferred,
             RequeueUntil
        <5>3. CASE \/ StartDrain \/ SelectJob \/ SelectNothing \/ GatePasses \/ AbortDrain
                   \/ \E terminal \in BOOLEAN : RunFails(terminal)
          BY <5>3 DEF StartDrain, SelectJob, SelectNothing, GatePasses, AbortDrain, RunFails
        <5>. QED  BY <4>2, <5>1, <5>2, <5>3 DEF DrainStep
      <4>3. CASE PageStep
        BY <4>3 DEF PageStep, RetryFromPage, DropFromPage
      <4>4. CASE Tick \/ UNCHANGED vars
        BY <4>4 DEF Tick, vars
      <4>. QED  BY <4>1, <4>2, <4>3, <4>4 DEF Next
    <3>2. insertedBy' = insertedBy
      BY <2>2, FreshComesFromInsert
    <3>. QED  BY <3>1, <3>2
  <2>. QED  BY <2>1, <2>2
<1>3. RowsHaveInserter /\ OneFreshJobPerEnqueuer => NoFreshDuplicate
  BY DEF OneFreshJobPerEnqueuer, NoFreshDuplicate, Fresh
<1>. QED  BY <1>1, <1>2, <1>3, TypeCorrect, DedupeHolds, PTL DEF Spec

-----------------------------------------------------------------------------

\* A settled job is re-opened by the page's retry and by nothing else.
THEOREM SettledStaysSettledHolds == Spec => SettledStaysSettled
<1> DEFINE Settled(id) == state[id] \in {"done", "failed", "suspended", "expired"}
           Kept(id) == Settled(id) /\ ~Held(id) =>
                         \/ state'[id] \in {state[id], "suspended"}
                         \/ state'[id] = "queued" /\ retries'[id] = retries[id] + 1
<1>1. TypeOK /\ RowInv /\ [Next]_vars => \A id \in JobIds : Kept(id)
  <2> SUFFICES ASSUME TypeOK, RowInv, [Next]_vars, NEW id \in JobIds
               PROVE  Kept(id)
    OBVIOUS
  <2> USE DEF TypeOK, columns, history, Held, InHand
  <2>1. ASSUME NEW e \in Enqueuers, EnqueueStep(e)
        PROVE  Kept(id)
    BY <2>1 DEF EnqueueStep, EnqueueLookup, EnqueueDeduped, EnqueueInsert, RowInv
  <2>2. CASE ExpireOverdue
    BY <2>2 DEF ExpireOverdue, Overdue
  <2>3. CASE \/ StartDrain \/ SelectNothing \/ SelectJob \/ GatePasses \/ AbortDrain
             \/ (\E terminal \in BOOLEAN : RunFails(terminal)) \/ Tick \/ UNCHANGED vars
    BY <2>3 DEF StartDrain, SelectNothing, SelectJob, GatePasses, AbortDrain, RunFails,
                Tick, vars
  <2>4. CASE \/ MarkRunning \/ RunSucceeds \/ RecordFailure
             \/ \E w \in Waits : GateBlocks(w) \/ RunDeferred(w)
    BY <2>4 DEF MarkRunning, RunSucceeds, RecordFailure, GateBlocks, RunDeferred,
                RequeueUntil
  <2>5. CASE PageStep
    BY <2>5 DEF PageStep, RetryFromPage, DropFromPage
  <2>. QED
    BY <2>1, <2>2, <2>3, <2>4, <2>5 DEF Next, DrainStep
<1>2. TypeOK /\ RowInv /\ [Next]_vars =>
        [\A id \in JobIds :
           state[id] \in {"done", "failed", "suspended", "expired"} /\ ~Held(id)
              => \/ state'[id] \in {state[id], "suspended"}
                 \/ state'[id] = "queued" /\ retries'[id] = retries[id] + 1]_vars
  BY <1>1
<1>. QED  BY <1>2, TypeCorrect, PTL DEF Spec, SettledStaysSettled

-----------------------------------------------------------------------------
(* Refinement.                                                              *)

\* Every statement the store and the drain issue is a step of the lifecycle, or
\* changes nothing the lifecycle tells apart.
LEMMA StepRefines ==
    ASSUME TypeOK, RowInv, [Next]_vars
    PROVE  [Lifecycle!Next]_Lifecycle!vars
<1> USE DEF TypeOK, RowInv, columns, history, InHand, Lifecycle!vars
<1>1. ASSUME NEW e \in Enqueuers, EnqueueInsert(e)
      PROVE  Lifecycle!Next
  <2>1. nextId \in JobIds /\ state[nextId] = "none"
    BY <1>1 DEF EnqueueInsert, JobIds
  <2>2. Lifecycle!Enqueue(nextId)
    BY <1>1, <2>1 DEF EnqueueInsert, Lifecycle!Enqueue
  <2>. QED  BY <2>1, <2>2 DEF Lifecycle!Next
<1>2. ASSUME NEW e \in Enqueuers, EnqueueStep(e), ~EnqueueInsert(e)
      PROVE  UNCHANGED Lifecycle!vars
  BY <1>2 DEF EnqueueStep, EnqueueLookup, EnqueueDeduped
<1>3. CASE \/ StartDrain \/ SelectNothing \/ GatePasses
           \/ (\E terminal \in BOOLEAN : RunFails(terminal)) \/ Tick \/ UNCHANGED vars
  <2>1. CASE StartDrain \/ SelectNothing
    BY <2>1 DEF StartDrain, SelectNothing, Idle
  <2>2. CASE GatePasses \/ \E terminal \in BOOLEAN : RunFails(terminal)
    <3>1. /\ drain.pc \in {"gate", "run"} /\ drain'.pc \in {"run", "failing"}
          /\ drain'.id = drain.id /\ state' = state
      BY <2>2 DEF GatePasses, RunFails
    <3>. QED  BY <3>1
  <2>3. CASE Tick \/ UNCHANGED vars
    BY <2>3 DEF Tick, vars
  <2>. QED  BY <1>3, <2>1, <2>2, <2>3
<1>4. CASE ExpireOverdue
  <2> DEFINE late == {id \in JobIds : Overdue(id, now)}
  <2>1. Lifecycle!Expire(late)
    BY <1>4 DEF ExpireOverdue, Overdue, Lifecycle!Expire
  <2>. QED  BY <2>1 DEF Lifecycle!Next
<1>5. CASE SelectJob
  <2>1. PICK id \in Best(drain.t) : drain' = [drain EXCEPT !.pc = "mark", !.id = id]
    BY <1>5 DEF SelectJob
  <2>2. id \in JobIds /\ state[id] = "queued"
    BY DEF Best, Eligible
  <2>3. drain.pc = "select" /\ drain'.pc = "mark" /\ drain'.id = id /\ state' = state
    BY <1>5, <2>1 DEF SelectJob
  <2>4. Lifecycle!Take(id)
    BY <2>2, <2>3 DEF Lifecycle!Take
  <2>. QED  BY <2>2, <2>4 DEF Lifecycle!Next
<1>6. CASE MarkRunning
  BY <1>6 DEF MarkRunning, Idle, JobIds, Lifecycle!Start, Lifecycle!Next
<1>7. ASSUME NEW w \in Waits, GateBlocks(w) \/ RunDeferred(w)
      PROVE  Lifecycle!Next
  <2>1. Lifecycle!Settle("queued")
    BY <1>7 DEF GateBlocks, RunDeferred, RequeueUntil, BackToLoop, Idle, Lifecycle!Settle
  <2>. QED  BY <2>1 DEF Lifecycle!Next
<1>8. CASE RunSucceeds
  <2>1. Lifecycle!Settle("done")
    BY <1>8 DEF RunSucceeds, BackToLoop, Idle, Lifecycle!Settle
  <2>. QED  BY <2>1 DEF Lifecycle!Next
<1>9. CASE RecordFailure
  <2>1. Lifecycle!Settle(drain.to)
    BY <1>9 DEF RecordFailure, BackToLoop, Idle, Lifecycle!Settle
  <2>2. drain.to \in {"done", "failed", "queued"}
    BY <1>9 DEF RecordFailure
  <2>. QED  BY <2>1, <2>2 DEF Lifecycle!Next
<1>10. CASE AbortDrain
  <2>1. CASE InHand
    BY <1>10, <2>1 DEF AbortDrain, Idle, JobIds, Lifecycle!LetGo, Lifecycle!Next
  <2>2. CASE ~InHand
    BY <1>10, <2>2 DEF AbortDrain, Idle
  <2>. QED  BY <2>1, <2>2
<1>11. ASSUME NEW id \in JobIds, RetryFromPage(id) \/ DropFromPage(id)
       PROVE  Lifecycle!Next
  <2>1. \E choice \in {"queued", "suspended"} : Lifecycle!Override(id, choice)
    BY <1>11 DEF RetryFromPage, DropFromPage, Lifecycle!Override
  <2>. QED  BY <2>1 DEF Lifecycle!Next
<1>. QED
  BY <1>1, <1>2, <1>3, <1>4, <1>5, <1>6, <1>7, <1>8, <1>9, <1>10, <1>11
     DEF Next, DrainStep, PageStep

\* The job table and its drain implement the job lifecycle.
THEOREM Refinement == Spec => ImplementsLifecycle
<1>1. Init => Lifecycle!Init
  BY DEF Init, Idle, InHand, Lifecycle!Init
<1>2. TypeOK /\ RowInv /\ [Next]_vars => [Lifecycle!Next]_Lifecycle!vars
  BY StepRefines
<1>. QED  BY <1>1, <1>2, TypeCorrect, PTL DEF Spec, ImplementsLifecycle, Lifecycle!Spec
=============================================================================
