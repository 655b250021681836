----------------------------- MODULE MCJobQueue -----------------------------
(* Small instances of JobQueue for TLC. *)
EXTENDS JobQueue

CONSTANT r1

OneRoutine == {r1}
MCBackoff == <<1, 2>>
MCMaxAttempts == [r \in Routines |-> 2]
TwoEnqueuers == {"timer", "page"}

\* One of the enqueuers does everything.
Serial == \E e \in Enqueuers :
    /\ \A o \in Enqueuers \ {e} : enq[o] = NoRequest
    /\ \A id \in JobIds : insertedBy[id] \in {e, "nobody"}

\* One job for long, with two presses of the page's buttons and an expiry time; or
\* two jobs for a short while with one press or crash and no expiry time, which is
\* shorter still when both enqueuers are at it.
LongOrCrowded ==
    \/ nextId <= 2 /\ \A e \in Enqueuers : nextId = 1 \/ enq[e] = NoRequest
    \/ /\ now <= 2 /\ (Serial \/ now = 1)
       /\ pageOps + aborts <= 1
       /\ \A id \in JobIds : job[id] # NoRequest => job[id].notAfter = 0
       /\ \A e \in Enqueuers : enq[e] # NoRequest => enq[e].notAfter = 0
=============================================================================
