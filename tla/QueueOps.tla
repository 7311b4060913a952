------------------------------ MODULE QueueOps ------------------------------
(***************************************************************************)
(* Queues of threads as sequences: the view of an rq_t that module Queue   *)
(* specifies and Rq.tla implements, with the operators the scheduler and   *)
(* the mutex models share.                                                 *)
(***************************************************************************)
EXTENDS Integers, Sequences

Members(q) == {q[i] : i \in DOMAIN q}                    \* rq_contains

Unique(q) == \A i, j \in DOMAIN q : q[i] = q[j] => i = j

\* rq_remove: drop the first occurrence of t, if there is one.
Without(q, t) ==
    IF t \notin Members(q) THEN q
    ELSE LET k == CHOOSE i \in DOMAIN q : q[i] = t /\ \A j \in 1..(i-1) : q[j] # t
         IN  SubSeq(q, 1, k - 1) \o SubSeq(q, k + 1, Len(q))
=============================================================================
