---------------------------- MODULE AtomicQueue ----------------------------
(***************************************************************************)
(* What the judge queues would be with a lock around every rewrite of a    *)
(* family: a set of candidates, into which an add puts its own at once, and*)
(* from which a drop takes the ids it was given at once.  They have no     *)
(* lock; a drop that meets another command in a family spoils it, and a    *)
(* spoilt queue has any of the candidates that were put there.  Two adds   *)
(* may put one text twice.  Candidates implements this.                    *)
(***************************************************************************)
CONSTANTS Families, Ids

VARIABLES
    queue,    \* per family: the candidates that wait
    put,      \* per family: the candidates that were ever put there
    spoilt    \* families in which two commands met

vars == <<queue, put, spoilt>>

Init ==
    /\ queue = [f \in Families |-> {}]
    /\ put = [f \in Families |-> {}]
    /\ spoilt = {}

\* An id is put once, in one family.
Record(f, id) ==
    /\ \A g \in Families : id \notin put[g]
    /\ put' = [put EXCEPT ![f] = @ \cup {id}]

Put(f, id) ==
    /\ Record(f, id)
    /\ queue' = [queue EXCEPT ![f] = @ \cup {id}]
    /\ UNCHANGED spoilt

\* The line goes to a file that a drop has replaced.
PutIsLost(f, id) ==
    /\ f \in spoilt
    /\ Record(f, id)
    /\ UNCHANGED <<queue, spoilt>>

Take(f, ids) ==
    /\ queue' = [queue EXCEPT ![f] = @ \ ids]
    /\ UNCHANGED <<put, spoilt>>

Spoil(f, ids) ==
    /\ ids \subseteq put[f]
    /\ queue' = [queue EXCEPT ![f] = ids]
    /\ spoilt' = spoilt \cup {f}
    /\ UNCHANGED put

Next ==
    \E f \in Families :
        \/ \E ids \in SUBSET Ids : Take(f, ids) \/ Spoil(f, ids)
        \/ \E id \in Ids : Put(f, id) \/ PutIsLost(f, id)

Spec == Init /\ [][Next]_vars
=============================================================================
