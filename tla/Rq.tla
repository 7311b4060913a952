-------------------------------- MODULE Rq --------------------------------
(***************************************************************************)
(* kernel/src/lib/rq.c: intrusive doubly linked lists, pointer by pointer. *)
(* Several lists share one pool of nodes, as the per-CPU run queue and the *)
(* zombie queue share tcb_t.rq_node.  Each operation is a function from    *)
(* the list it is given to the list it leaves behind, so that rq_rotate    *)
(* and rq_remove are compositions, as they are in C.                       *)
(***************************************************************************)
EXTENDS QueueOps, FiniteSets

CONSTANTS Queues, Nodes, Data, NULL

ASSUME NullIsNoNode == NULL \notin Nodes /\ NULL \notin Data
ASSUME NodesFinite  == IsFiniteSet(Nodes)

VARIABLES head, tail, len,   \* rq_t, per queue
          next, prev,        \* rq_node_t links
          data,              \* rq_node_t.data
          ret                \* result of the last call

vars == <<head, tail, len, next, prev, data, ret>>

NodeOrNull == Nodes \cup {NULL}

-----------------------------------------------------------------------------
(* A list: the fields of one rq_t together with the links of all nodes.    *)

List(q) == [head |-> head[q], tail |-> tail[q], len |-> len[q],
            next |-> next, prev |-> prev]

Store(q, l) == /\ head' = [head EXCEPT ![q] = l.head]
               /\ tail' = [tail EXCEPT ![q] = l.tail]
               /\ len'  = [len EXCEPT ![q] = l.len]
               /\ next' = l.next
               /\ prev' = l.prev

\* p->field = v, where a NULL p means the statement is not executed.
Assign(f, p, v) == [m \in Nodes |-> IF m = p THEN v ELSE f[m]]

rq_push_front_node(l, n) ==
    [head |-> n,
     tail |-> IF l.head = NULL THEN n ELSE l.tail,
     len  |-> l.len + 1,
     next |-> Assign(l.next, n, l.head),
     prev |-> Assign(Assign(l.prev, n, NULL), l.head, n)]

rq_push_back_node(l, n) ==
    [head |-> IF l.tail = NULL THEN n ELSE l.head,
     tail |-> n,
     len  |-> l.len + 1,
     next |-> Assign(Assign(l.next, n, NULL), l.tail, n),
     prev |-> Assign(l.prev, n, l.tail)]

\* A slip in rq_pop_front_node: the popped node keeps its next pointer.
PopFrontKeepsLink(l) ==
    LET second == l.next[l.head]
    IN  IF l.head = NULL THEN l
        ELSE [head |-> second,
              tail |-> IF second = NULL THEN NULL ELSE l.tail,
              len  |-> l.len - 1,
              next |-> l.next,
              prev |-> Assign(Assign(l.prev, second, NULL), l.head, NULL)]

rq_pop_front_node(l) ==
    LET second == l.next[l.head]
    IN  IF l.head = NULL THEN l
        ELSE [head |-> second,
              tail |-> IF second = NULL THEN NULL ELSE l.tail,
              len  |-> l.len - 1,
              next |-> Assign(l.next, l.head, NULL),
              prev |-> Assign(Assign(l.prev, second, NULL), l.head, NULL)]

\* A slip in rq_pop_back_node: the list that becomes empty keeps its head.
PopBackKeepsHead(l) ==
    LET before == l.prev[l.tail]
    IN  IF l.tail = NULL THEN l
        ELSE [head |-> l.head,
              tail |-> before,
              len  |-> l.len - 1,
              next |-> Assign(Assign(l.next, before, NULL), l.tail, NULL),
              prev |-> Assign(l.prev, l.tail, NULL)]

rq_pop_back_node(l) ==
    LET before == l.prev[l.tail]
    IN  IF l.tail = NULL THEN l
        ELSE [head |-> IF before = NULL THEN NULL ELSE l.head,
              tail |-> before,
              len  |-> l.len - 1,
              next |-> Assign(Assign(l.next, before, NULL), l.tail, NULL),
              prev |-> Assign(l.prev, l.tail, NULL)]

\* A slip in rq_remove_node: the neighbour's back link is not repaired.
RemoveForgetsPrev(l, n) ==
    [head |-> IF l.prev[n] = NULL THEN l.next[n] ELSE l.head,
     tail |-> IF l.next[n] = NULL THEN l.prev[n] ELSE l.tail,
     len  |-> l.len - 1,
     next |-> Assign(Assign(l.next, l.prev[n], l.next[n]), n, NULL),
     prev |-> Assign(l.prev, n, NULL)]

rq_remove_node(l, n) ==
    [head |-> IF l.prev[n] = NULL THEN l.next[n] ELSE l.head,
     tail |-> IF l.next[n] = NULL THEN l.prev[n] ELSE l.tail,
     len  |-> l.len - 1,
     next |-> Assign(Assign(l.next, l.prev[n], l.next[n]), n, NULL),
     prev |-> Assign(Assign(l.prev, l.next[n], l.prev[n]), n, NULL)]

-----------------------------------------------------------------------------
(* Walks.  A walk from p along f visits the nodes of s and ends at NULL.    *)

Visits(f, p, s) ==
    /\ p = IF s = <<>> THEN NULL ELSE s[1]
    /\ \A i \in 1..Len(s) : f[s[i]] = IF i = Len(s) THEN NULL ELSE s[i + 1]

\* The node sequences a walk that visits no node twice can have.
Routes == UNION {[1..k -> Nodes] : k \in 0..Cardinality(Nodes)}

\* The walk from p along f.  One that runs into a cycle never ends and has no
\* route; SoundLists shows that there is none.
Walk(f, p) == IF \E s \in Routes : Visits(f, p, s)
              THEN CHOOSE s \in Routes : Visits(f, p, s)
              ELSE <<>>

Forward(q)  == Walk(next, head[q])
Backward(q) == Walk(prev, tail[q])

\* rq_find: the first node from the head whose data is d, NULL if none.
rq_find(q, d) ==
    LET s    == Forward(q)
        hits == {i \in DOMAIN s : data[s[i]] = d}
    IN  IF hits = {} THEN NULL
        ELSE s[CHOOSE i \in hits : \A j \in hits : i <= j]

Linked == UNION {Members(Forward(q)) : q \in Queues}

-----------------------------------------------------------------------------
(* The operations.                                                         *)

rq_init == /\ head = [q \in Queues |-> NULL]
           /\ tail = [q \in Queues |-> NULL]
           /\ len  = [q \in Queues |-> 0]

Init == /\ rq_init
        /\ next = [n \in Nodes |-> NULL]
        /\ prev = [n \in Nodes |-> NULL]
        /\ data = [n \in Nodes |-> NULL]
        /\ ret  = NULL

\* rq_push_front and rq_push_back initialise the node first (rq_node_init).
rq_node_init(n, d) == data' = [data EXCEPT ![n] = d]

rq_push_front(q, n, d) == /\ n \notin Linked
                          /\ rq_node_init(n, d)
                          /\ Store(q, rq_push_front_node(List(q), n))
                          /\ ret' = NULL

rq_push_back(q, n, d) == /\ n \notin Linked
                         /\ rq_node_init(n, d)
                         /\ Store(q, rq_push_back_node(List(q), n))
                         /\ ret' = NULL

rq_pop_front(q) == /\ Store(q, rq_pop_front_node(List(q)))
                   /\ ret' = IF head[q] = NULL THEN NULL ELSE data[head[q]]
                   /\ UNCHANGED data

rq_pop_back(q) == /\ Store(q, rq_pop_back_node(List(q)))
                  /\ ret' = IF tail[q] = NULL THEN NULL ELSE data[tail[q]]
                  /\ UNCHANGED data

Find(q, d) == /\ ret' = rq_find(q, d)
              /\ UNCHANGED <<head, tail, len, next, prev, data>>

rq_remove(q, d) ==
    LET n == rq_find(q, d)
    IN  /\ Store(q, IF n = NULL THEN List(q) ELSE rq_remove_node(List(q), n))
        /\ ret' = (n # NULL)
        /\ UNCHANGED data

rq_rotate(q) == /\ Store(q, IF len[q] < 2 THEN List(q)
                            ELSE rq_push_back_node(rq_pop_front_node(List(q)), head[q]))
                /\ ret' = NULL
                /\ UNCHANGED data

rq_clear(q) ==
    LET cleared == Members(Forward(q))
        drop(f) == [n \in Nodes |-> IF n \in cleared THEN NULL ELSE f[n]]
    IN  /\ Store(q, [head |-> NULL, tail |-> NULL, len |-> 0,
                     next |-> drop(next), prev |-> drop(prev)])
        /\ ret' = NULL
        /\ UNCHANGED data

Next == \E q \in Queues :
           \/ \E n \in Nodes, d \in Data : rq_push_front(q, n, d) \/ rq_push_back(q, n, d)
           \/ rq_pop_front(q)
           \/ rq_pop_back(q)
           \/ rq_rotate(q)
           \/ rq_clear(q)
           \/ \E d \in Data : Find(q, d) \/ rq_remove(q, d)

Spec == Init /\ [][Next]_vars

-----------------------------------------------------------------------------

\* The head-to-tail and the tail-to-head walk of every list visit the same
\* nodes in opposite order, len counts them, and no node is reached from two
\* lists.  (rq.c keeps five pointers and a counter in step in every branch:
\* lists of length 0, 1 and 2, the first, a middle and the last node.)
SoundLists ==
    /\ \A q \in Queues :
          LET s == Forward(q)
          IN  /\ len[q] = Len(s)
              /\ Backward(q) = [i \in DOMAIN s |-> s[Len(s) + 1 - i]]
              /\ Unique(s)
    /\ \A p, q \in Queues : p # q => Members(Forward(p)) \cap Members(Forward(q)) = {}

\* A node that is on no list has both links NULL, so a stale link of an
\* unlinked node never leads into a list (rq_pop_*, rq_remove_node and
\* rq_clear reset both links).
UnlinkedIsBare == \A n \in Nodes \ Linked : next[n] = NULL /\ prev[n] = NULL

\* The pointer-level lists implement the sequences of module Queue, returned
\* values included (rq.c as a whole).
Abs == INSTANCE Queue WITH seq <- [q \in Queues |-> Forward(q)]
ImplementsQueue == Abs!QSpec
=============================================================================
