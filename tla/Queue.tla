------------------------------- MODULE Queue -------------------------------
(***************************************************************************)
(* What lib/rq.c promises: every rq_t is a finite sequence of nodes, and   *)
(* the rq_* operations are the textbook operations on it.  Rq.tla, the     *)
(* pointer-level model, is shown to implement this specification; the     *)
(* scheduler and the mutex models keep their queues as sequences on the    *)
(* strength of that refinement.                                            *)
(*                                                                         *)
(* The one obligation of the caller is explicit in the guards of the push  *)
(* actions: a node that is pushed is not on any list.  rq.c does not check *)
(* it (rq_push_back_node links the node unconditionally).                  *)
(***************************************************************************)
EXTENDS SequencesExt, Integers

CONSTANTS Queues,   \* the rq_t objects
          Nodes,    \* the rq_node_t objects, shared by all queues
          Data,     \* the values of node->data
          NULL

VARIABLES seq,      \* seq[q]: the nodes of q, head first
          data,     \* data[n]: node->data (kept when the node is unlinked)
          ret       \* what the last operation returned

qvars == <<seq, data, ret>>

Free(n) == \A q \in Queues : ~ Contains(seq[q], n)

QInit == /\ seq  = [q \in Queues |-> <<>>]
         /\ data = [n \in Nodes |-> NULL]
         /\ ret  = NULL

QPushFront(q, n, d) ==
    /\ Free(n)
    /\ seq'  = [seq EXCEPT ![q] = <<n>> \o @]
    /\ data' = [data EXCEPT ![n] = d]
    /\ ret'  = NULL

QPushBack(q, n, d) ==
    /\ Free(n)
    /\ seq'  = [seq EXCEPT ![q] = Append(@, n)]
    /\ data' = [data EXCEPT ![n] = d]
    /\ ret'  = NULL

QPopFront(q) ==
    /\ seq' = [seq EXCEPT ![q] = IF @ = <<>> THEN @ ELSE Tail(@)]
    /\ ret' = IF seq[q] = <<>> THEN NULL ELSE data[Head(seq[q])]
    /\ UNCHANGED data

QPopBack(q) ==
    /\ seq' = [seq EXCEPT ![q] = IF @ = <<>> THEN @ ELSE Front(@)]
    /\ ret' = IF seq[q] = <<>> THEN NULL ELSE data[Last(seq[q])]
    /\ UNCHANGED data

\* The first node that carries d, in list order.
Holding(q, d) == {i \in DOMAIN seq[q] : data[seq[q][i]] = d}

QFind(q, d) ==
    /\ ret' = IF Holding(q, d) = {} THEN NULL ELSE seq[q][Min(Holding(q, d))]
    /\ UNCHANGED <<seq, data>>

QRemove(q, d) ==
    /\ ret' = (Holding(q, d) # {})
    /\ seq' = IF Holding(q, d) = {} THEN seq
              ELSE [seq EXCEPT ![q] = RemoveAt(@, Min(Holding(q, d)))]
    /\ UNCHANGED data

QRotate(q) ==
    /\ seq' = [seq EXCEPT ![q] = IF @ = <<>> THEN @ ELSE Append(Tail(@), Head(@))]
    /\ ret' = NULL
    /\ UNCHANGED data

QClear(q) ==
    /\ seq' = [seq EXCEPT ![q] = <<>>]
    /\ ret' = NULL
    /\ UNCHANGED data

QNext == \E q \in Queues :
            \/ \E n \in Nodes, d \in Data : QPushFront(q, n, d) \/ QPushBack(q, n, d)
            \/ QPopFront(q) \/ QPopBack(q) \/ QRotate(q) \/ QClear(q)
            \/ \E d \in Data : QFind(q, d) \/ QRemove(q, d)

QSpec == QInit /\ [][QNext]_qvars
=============================================================================
