------------------------------ MODULE RqProofs ------------------------------
(***************************************************************************)
(* Proofs about Rq.tla for any number of lists and nodes: the pointers of  *)
(* lib/rq.c always form sound, disjoint lists, and the rq_* operations     *)
(* implement the sequence operations of module Queue.                      *)
(*                                                                         *)
(* The argument: Rep(l, s) says that the pointers of the list l represent  *)
(* the sequence s.  A represented sequence is what a walk yields           *)
(* (WalkIsUnique), so Rep is enough to know Forward and Backward.  Each    *)
(* rq_*_node operator takes a representation of s to one of the sequence   *)
(* that the abstract operation yields, and touches no other list's nodes   *)
(* (the lemmas of the second part); StoreKeeps lifts this to all lists.    *)
(***************************************************************************)
EXTENDS Rq, ProofFacts

-----------------------------------------------------------------------------
(* Walks.                                                                  *)

\* Of two walks from the same node along the same links, each visits at
\* least what the other does.
LEMMA WalkPrefix ==
    ASSUME NEW f, NEW p, NEW s \in Seq(Nodes), NEW t \in Seq(Nodes),
           Visits(f, p, s), Visits(f, p, t)
    PROVE  Len(s) <= Len(t) /\ \A i \in 1..Len(s) : s[i] = t[i]
  <1> DEFINE S == {i \in Nat : i \in 1..Len(s) => i \in 1..Len(t) /\ s[i] = t[i]}
  <1>0. Len(s) \in Nat /\ Len(t) \in Nat
        /\ (\A i \in 1..Len(s) : s[i] \in Nodes) /\ (\A i \in 1..Len(t) : t[i] \in Nodes)
        /\ (s = <<>> <=> Len(s) = 0) /\ (t = <<>> <=> Len(t) = 0)
    OBVIOUS
  <1>1. 0 \in S
    BY <1>0
  <1>2. ASSUME NEW i \in Nat, i \in S PROVE i + 1 \in S
    <2> SUFFICES ASSUME i + 1 \in 1..Len(s)
                 PROVE  i + 1 \in 1..Len(t) /\ s[i + 1] = t[i + 1]
      BY <1>2
    <2>1. CASE i = 0
      <3>1. p = s[1] /\ p # NULL
        BY <1>0, <2>1, NullIsNoNode DEF Visits
      <3> QED BY <1>0, <2>1, <3>1 DEF Visits
    <2>2. CASE i # 0
      <3>1. i \in 1..Len(s) /\ i # Len(s)
        BY <1>0, <2>2
      <3>2. i \in 1..Len(t) /\ s[i] = t[i]
        BY <1>2, <3>1
      <3>3. f[s[i]] = s[i + 1] /\ s[i + 1] # NULL
        BY <1>0, <3>1, NullIsNoNode DEF Visits
      <3>4. f[t[i]] = IF i = Len(t) THEN NULL ELSE t[i + 1]
        BY <3>2 DEF Visits
      <3> QED BY <1>0, <3>2, <3>3, <3>4
    <2> QED BY <2>1, <2>2
  <1>3. Nat \subseteq S
    <2> HIDE DEF S
    <2> QED BY <1>1, <1>2, Induct
  <1>4. \A i \in 1..Len(s) : i \in 1..Len(t) /\ s[i] = t[i]
    BY <1>0, <1>3
  <1> QED BY <1>0, <1>4

\* Duplicate-free sequences of nodes are no longer than there are nodes.
LEMMA UniqueIsRoute ==
    ASSUME NEW s \in Seq(Nodes), Unique(s)
    PROVE  s \in Routes
  <1>1. Len(s) \in Nat /\ s \in [1..Len(s) -> Nodes]
    OBVIOUS
  <1>2. s \in Injection(1..Len(s), Nodes)
    BY <1>1 DEF Unique, Injection, IsInjective
  <1>3. Cardinality(1..Len(s)) = Len(s) /\ IsFiniteSet(1..Len(s))
    BY <1>1, FS_Interval
  <1>4. Cardinality(1..Len(s)) <= Cardinality(Nodes)
    BY <1>2, NodesFinite, FS_Injection
  <1>5. Cardinality(Nodes) \in Nat
    BY NodesFinite, FS_CardinalityType
  <1>6. Len(s) \in 0..Cardinality(Nodes)
    BY <1>1, <1>3, <1>4, <1>5
  <1> QED BY <1>1, <1>6 DEF Routes

\* A walk that visits no node twice is the only one.
LEMMA WalkIsUnique ==
    ASSUME NEW f, NEW p, NEW s \in Seq(Nodes), Unique(s), Visits(f, p, s)
    PROVE  Walk(f, p) = s
  <1>1. s \in Routes
    BY UniqueIsRoute
  <1>2. ASSUME NEW t \in Routes, Visits(f, p, t) PROVE t = s
    <2>0. Cardinality(Nodes) \in Nat
      BY NodesFinite, FS_CardinalityType
    <2>1. t \in Seq(Nodes)
      BY <2>0 DEF Routes
    <2>2. Len(s) <= Len(t) /\ Len(t) <= Len(s) /\ \A i \in 1..Len(s) : s[i] = t[i]
      BY <1>2, <2>1, WalkPrefix
    <2> QED BY <2>1, <2>2
  <1>3. \E t \in Routes : Visits(f, p, t)
    BY <1>1
  <1> QED BY <1>2, <1>3 DEF Walk

-----------------------------------------------------------------------------
(* Representations.                                                        *)

LinkTypes(l) == l.next \in [Nodes -> NodeOrNull] /\ l.prev \in [Nodes -> NodeOrNull]

\* The pointers of the list l represent the sequence s of k nodes.
Chain(l, s, k) ==
    /\ s \in [1..k -> Nodes]
    /\ \A i, j \in 1..k : s[i] = s[j] => i = j
    /\ LinkTypes(l)
    /\ l.head = IF k = 0 THEN NULL ELSE s[1]
    /\ l.tail = IF k = 0 THEN NULL ELSE s[k]
    /\ l.len = k
    /\ \A i \in 1..k : l.next[s[i]] = IF i = k THEN NULL ELSE s[i + 1]
    /\ \A i \in 1..k : l.prev[s[i]] = IF i = 1 THEN NULL ELSE s[i - 1]

Rep(l, s) == \E k \in Nat : Chain(l, s, k)

\* Going from l to m, the links of the nodes outside S are not touched.
Frame(l, m, S) == \A x \in Nodes \ S : m.next[x] = l.next[x] /\ m.prev[x] = l.prev[x]

\* The links of the nodes of S are NULL.
Bare(l, S) == \A x \in S : l.next[x] = NULL /\ l.prev[x] = NULL

\* A represented sequence is a duplicate-free sequence of nodes.
LEMMA ChainSeq ==
    ASSUME NEW l, NEW s, NEW k \in Nat, Chain(l, s, k)
    PROVE  /\ s \in Seq(Nodes) /\ Len(s) = k /\ DOMAIN s = 1..k /\ Unique(s)
           /\ (s = <<>> <=> k = 0)
           /\ Members(s) = {s[i] : i \in 1..k} /\ Members(s) \subseteq Nodes
           /\ \A i \in 1..k : s[i] \in Members(s) /\ s[i] \in Nodes /\ s[i] # NULL
  <1>1. s \in [1..k -> Nodes]
    BY DEF Chain
  <1>2. s \in Seq(Nodes) /\ Len(s) = k /\ DOMAIN s = 1..k
    BY <1>1
  <1>3. s = <<>> <=> k = 0
    BY <1>2
  <1>4. Unique(s)
    BY <1>1 DEF Chain, Unique
  <1> QED BY <1>1, <1>2, <1>3, <1>4, NullIsNoNode DEF Members

\* The forward and the backward walk of a list yield what it represents.
LEMMA RepWalks ==
    ASSUME NEW l, NEW s, Rep(l, s)
    PROVE  /\ Walk(l.next, l.head) = s
           /\ Walk(l.prev, l.tail) = [i \in DOMAIN s |-> s[Len(s) + 1 - i]]
  <1>0. PICK k \in Nat : Chain(l, s, k)
    BY DEF Rep
  <1>1. /\ s \in Seq(Nodes) /\ Len(s) = k /\ DOMAIN s = 1..k /\ Unique(s)
        /\ (s = <<>> <=> k = 0) /\ \A i \in 1..k : s[i] \in Nodes
    BY <1>0, ChainSeq
  <1>2. Walk(l.next, l.head) = s
    <2>1. Visits(l.next, l.head, s)
      BY <1>0, <1>1 DEF Chain, Visits
    <2> QED BY <1>1, <2>1, WalkIsUnique
  <1> DEFINE r == [i \in 1..k |-> s[k + 1 - i]]
  <1>3. \A i \in 1..k : k + 1 - i \in 1..k
    OBVIOUS
  <1>4. r \in Seq(Nodes) /\ Len(r) = k /\ DOMAIN r = 1..k /\ (r = <<>> <=> k = 0)
    <2>1. r \in [1..k -> Nodes]
      BY <1>1, <1>3
    <2> HIDE DEF r
    <2> QED BY <2>1
  <1>5. \A i \in 1..k : r[i] = s[k + 1 - i]
    OBVIOUS
  <1> HIDE DEF r
  <1>6. Unique(r)
    <2> SUFFICES ASSUME NEW i \in 1..k, NEW j \in 1..k, r[i] = r[j] PROVE i = j
      BY <1>4 DEF Unique
    <2>1. k + 1 - i = k + 1 - j
      BY <1>1, <1>3, <1>5 DEF Unique
    <2> QED BY <2>1
  <1>7. Visits(l.prev, l.tail, r)
    <2>1. l.tail = IF r = <<>> THEN NULL ELSE r[1]
      <3>1. k # 0 => 1 \in 1..k /\ k + 1 - 1 = k
        OBVIOUS
      <3> QED BY <1>0, <1>4, <1>5, <3>1 DEF Chain
    <2>2. ASSUME NEW i \in 1..k
          PROVE  l.prev[r[i]] = IF i = k THEN NULL ELSE r[i + 1]
      <3>1. PICK j \in 1..k : j = k + 1 - i
        BY <1>3
      <3>2. r[i] = s[j] /\ (i = k <=> j = 1)
        BY <1>5, <3>1
      <3>3. l.prev[s[j]] = IF j = 1 THEN NULL ELSE s[j - 1]
        BY <1>0 DEF Chain
      <3>4. ASSUME i # k PROVE r[i + 1] = s[j - 1]
        <4>1. i + 1 \in 1..k /\ k + 1 - (i + 1) = j - 1
          BY <3>1, <3>4
        <4> QED BY <1>5, <4>1
      <3> QED BY <3>2, <3>3, <3>4
    <2> QED BY <1>4, <2>1, <2>2 DEF Visits
  <1>8. Walk(l.prev, l.tail) = r
    BY <1>4, <1>6, <1>7, WalkIsUnique
  <1> QED BY <1>1, <1>2, <1>8 DEF r

\* The links of represented nodes do not depend on what happens elsewhere.
LEMMA RepFrame ==
    ASSUME NEW l, NEW m, NEW s, NEW S, Rep(l, s), LinkTypes(m), Frame(l, m, S),
           Members(s) \cap S = {},
           m.head = l.head, m.tail = l.tail, m.len = l.len
    PROVE  Rep(m, s)
  <1>0. PICK k \in Nat : Chain(l, s, k)
    BY DEF Rep
  <1>1. \A i \in 1..k : s[i] \in Nodes \ S
    BY <1>0, ChainSeq
  <1>2. \A i \in 1..k : m.next[s[i]] = l.next[s[i]] /\ m.prev[s[i]] = l.prev[s[i]]
    BY <1>1 DEF Frame
  <1>3. Chain(m, s, k)
    BY <1>0, <1>2 DEF Chain
  <1> QED BY <1>3 DEF Rep

\* rq_push_back_node appends the node.
LEMMA PushBackRep ==
    ASSUME NEW l, NEW s, Rep(l, s), NEW n \in Nodes, n \notin Members(s)
    PROVE  /\ Rep(rq_push_back_node(l, n), Append(s, n))
           /\ Frame(l, rq_push_back_node(l, n), Members(s) \cup {n})
  <1>0. PICK k \in Nat : Chain(l, s, k)
    BY DEF Rep
  <1> DEFINE m == rq_push_back_node(l, n)
             t == Append(s, n)
  <1>1. /\ s \in Seq(Nodes) /\ Len(s) = k
        /\ \A i \in 1..k : s[i] \in Members(s) /\ s[i] \in Nodes /\ s[i] # NULL /\ s[i] # n
    BY <1>0, ChainSeq
  <1>2. /\ t \in [1..(k + 1) -> Nodes] /\ t[k + 1] = n /\ \A i \in 1..k : t[i] = s[i]
    <2>1. /\ t \in Seq(Nodes) /\ Len(t) = Len(s) + 1 /\ t[Len(s) + 1] = n
          /\ \A i \in 1..Len(s) : t[i] = s[i]
      BY <1>1
    <2> HIDE DEF t
    <2> QED BY <1>1, <2>1
  <1>3. /\ m.head = (IF l.tail = NULL THEN n ELSE l.head) /\ m.tail = n /\ m.len = l.len + 1
        /\ m.next = [x \in Nodes |-> IF x = l.tail THEN n ELSE IF x = n THEN NULL ELSE l.next[x]]
        /\ m.prev = [x \in Nodes |-> IF x = n THEN l.tail ELSE l.prev[x]]
    BY DEF rq_push_back_node, Assign
  <1> HIDE DEF m, t
  <1>4. l.tail = (IF k = 0 THEN NULL ELSE s[k]) /\ l.head = (IF k = 0 THEN NULL ELSE s[1])
    BY <1>0 DEF Chain
  <1>5. l.tail \in NodeOrNull /\ (l.tail = NULL <=> k = 0) /\ l.tail # n
    BY <1>1, <1>4, NullIsNoNode DEF NodeOrNull
  <1>6. LinkTypes(m)
    BY <1>0, <1>3, <1>5 DEF LinkTypes, NodeOrNull, Chain
  <1>7. m.head = t[1] /\ m.tail = t[k + 1] /\ m.len = k + 1
    BY <1>0, <1>2, <1>3, <1>4, <1>5 DEF Chain
  <1>8. \A i, j \in 1..(k + 1) : t[i] = t[j] => i = j
    <2> SUFFICES ASSUME NEW i \in 1..(k + 1), NEW j \in 1..(k + 1), t[i] = t[j] PROVE i = j
      OBVIOUS
    <2>1. CASE i \in 1..k /\ j \in 1..k
      BY <1>0, <1>2, <2>1 DEF Chain
    <2>2. CASE i = k + 1 \/ j = k + 1
      BY <1>1, <1>2, <2>2
    <2> QED BY <2>1, <2>2
  <1>9. ASSUME NEW i \in 1..(k + 1)
        PROVE  /\ m.next[t[i]] = IF i = k + 1 THEN NULL ELSE t[i + 1]
               /\ m.prev[t[i]] = IF i = 1 THEN NULL ELSE t[i - 1]
    <2>1. CASE i = k + 1
      <3>1. m.next[n] = NULL /\ m.prev[n] = l.tail
        BY <1>3, <1>5
      <3>2. k # 0 => k \in 1..k /\ (k + 1) - 1 = k
        OBVIOUS
      <3> QED BY <1>2, <1>4, <2>1, <3>1, <3>2
    <2>2. CASE i \in 1..k
      <3>1. t[i] = s[i] /\ s[i] # n /\ s[i] \in Nodes
        BY <1>1, <1>2, <2>2
      <3>2. s[i] = l.tail <=> i = k
        BY <1>0, <1>4, <2>2 DEF Chain
      <3>3. m.next[s[i]] = IF i = k THEN n ELSE l.next[s[i]]
        BY <1>3, <3>1, <3>2
      <3>4. m.prev[s[i]] = l.prev[s[i]]
        BY <1>3, <3>1
      <3>5. i # k + 1 /\ (i # k => i + 1 \in 1..k) /\ (i # 1 => i - 1 \in 1..k)
        BY <2>2
      <3>6. /\ l.next[s[i]] = IF i = k THEN NULL ELSE s[i + 1]
            /\ l.prev[s[i]] = IF i = 1 THEN NULL ELSE s[i - 1]
        BY <1>0, <2>2 DEF Chain
      <3> QED BY <1>2, <3>1, <3>3, <3>4, <3>5, <3>6
    <2> QED BY <2>1, <2>2
  <1>10. Frame(l, m, Members(s) \cup {n})
    <2> SUFFICES ASSUME NEW x \in Nodes \ (Members(s) \cup {n})
                 PROVE  m.next[x] = l.next[x] /\ m.prev[x] = l.prev[x]
      BY DEF Frame
    <2>1. x # l.tail /\ x # n
      BY <1>1, <1>4, NullIsNoNode
    <2> QED BY <1>3, <2>1
  <1>11. Chain(m, t, k + 1)
    BY <1>2, <1>6, <1>7, <1>8, <1>9 DEF Chain
  <1> QED BY <1>10, <1>11 DEF Rep, m, t

\* t is s, of length k, without its position p.
Closed(s, k, p, t) ==
    /\ t \in [1..(k - 1) -> Nodes]
    /\ \A i \in 1..(k - 1) : i < p => t[i] = s[i]
    /\ \A i \in 1..(k - 1) : i >= p => t[i] = s[i + 1]

\* rq_remove_node closes the gap around the node and leaves it bare.
LEMMA RemoveChain ==
    ASSUME NEW l, NEW s, NEW k \in Nat, Chain(l, s, k),
           NEW p \in 1..k, NEW t, Closed(s, k, p, t)
    PROVE  /\ Chain(rq_remove_node(l, s[p]), t, k - 1)
           /\ Frame(l, rq_remove_node(l, s[p]), Members(s))
           /\ Bare(rq_remove_node(l, s[p]), {s[p]})
           /\ \A x : x \in Members(t) <=> x \in Members(s) /\ x # s[p]
  <1>n. PICK n : n = s[p]
    OBVIOUS
  <1> USE <1>n
  <1> DEFINE m   == rq_remove_node(l, n)
             bef == l.prev[n]
             aft == l.next[n]
  <1>0. /\ t \in [1..(k - 1) -> Nodes]
        /\ \A i \in 1..(k - 1) : i < p => t[i] = s[i]
        /\ \A i \in 1..(k - 1) : i >= p => t[i] = s[i + 1]
    BY DEF Closed
  <1> USE <1>0
  <1>1. /\ n \in Nodes /\ Members(s) = {s[i] : i \in 1..k}
        /\ \A i \in 1..k : s[i] \in Members(s) /\ s[i] \in Nodes /\ s[i] # NULL
    BY ChainSeq
  <1>2. bef = (IF p = 1 THEN NULL ELSE s[p - 1]) /\ aft = (IF p = k THEN NULL ELSE s[p + 1])
    BY DEF Chain
  <1>3. /\ m.head = (IF bef = NULL THEN aft ELSE l.head)
        /\ m.tail = (IF aft = NULL THEN bef ELSE l.tail)
        /\ m.len = l.len - 1
        /\ m.next = [x \in Nodes |-> IF x = n THEN NULL ELSE IF x = bef THEN aft ELSE l.next[x]]
        /\ m.prev = [x \in Nodes |-> IF x = n THEN NULL ELSE IF x = aft THEN bef ELSE l.prev[x]]
    BY DEF rq_remove_node, Assign
  <1> HIDE DEF m, bef, aft
  <1>4. \A i, j \in 1..k : s[i] = s[j] => i = j
    BY DEF Chain
  <1>5. (p # 1 => p - 1 \in 1..k) /\ (p # k => p + 1 \in 1..k)
    OBVIOUS
  <1>6. (bef = NULL <=> p = 1) /\ (aft = NULL <=> p = k) /\ bef \in NodeOrNull /\ aft \in NodeOrNull
        /\ (bef # NULL => bef \in Members(s)) /\ (aft # NULL => aft \in Members(s))
    BY <1>1, <1>2, <1>5 DEF NodeOrNull
  <1>7. LinkTypes(m)
    BY <1>3, <1>6 DEF LinkTypes, NodeOrNull, Chain
  <1>8. \A i, j \in 1..(k - 1) : t[i] = t[j] => i = j
    <2> SUFFICES ASSUME NEW i \in 1..(k - 1), NEW j \in 1..(k - 1), t[i] = t[j] PROVE i = j
      OBVIOUS
    <2> DEFINE f(a) == IF a < p THEN a ELSE a + 1
    <2>1. t[i] = s[f(i)] /\ t[j] = s[f(j)] /\ f(i) \in 1..k /\ f(j) \in 1..k
      OBVIOUS
    <2>2. f(i) = f(j)
      BY <1>4, <2>1
    <2> QED BY <2>2
  <1>9. m.head = (IF k - 1 = 0 THEN NULL ELSE t[1]) /\ m.len = k - 1
    <2>1. l.head = s[1] /\ l.len = k
      BY DEF Chain
    <2>2. CASE p = 1
      BY <1>2, <1>3, <1>6, <2>1, <2>2
    <2>3. CASE p # 1
      BY <1>3, <1>6, <2>1, <2>3
    <2> QED BY <2>2, <2>3
  <1>10. m.tail = IF k - 1 = 0 THEN NULL ELSE t[k - 1]
    <2>1. l.tail = s[k]
      BY DEF Chain
    <2>2. CASE p = k
      BY <1>2, <1>3, <1>6, <2>1, <2>2
    <2>3. CASE p # k
      <3>1. k - 1 \in 1..(k - 1) /\ k - 1 >= p /\ (k - 1) + 1 = k
        BY <2>3
      <3> QED BY <1>3, <1>6, <2>1, <2>3, <3>1
    <2> QED BY <2>2, <2>3
  <1>11. ASSUME NEW i \in 1..(k - 1)
         PROVE  /\ m.next[t[i]] = IF i = k - 1 THEN NULL ELSE t[i + 1]
                /\ m.prev[t[i]] = IF i = 1 THEN NULL ELSE t[i - 1]
    <2>1. CASE i < p
      <3>1. t[i] = s[i] /\ i \in 1..k /\ i # k /\ s[i] # n
        BY <1>4, <2>1
      <3>2. s[i] = bef <=> i = p - 1
        BY <1>1, <1>2, <1>4, <1>5, <2>1, <3>1
      <3>3. s[i] # aft
        BY <1>1, <1>2, <1>4, <1>5, <2>1, <3>1
      <3>4. m.next[s[i]] = IF i = p - 1 THEN aft ELSE l.next[s[i]]
        BY <1>1, <1>3, <3>1, <3>2
      <3>5. m.prev[s[i]] = l.prev[s[i]]
        BY <1>1, <1>3, <3>1, <3>3
      <3>6. l.next[s[i]] = s[i + 1] /\ l.prev[s[i]] = IF i = 1 THEN NULL ELSE s[i - 1]
        BY <3>1 DEF Chain
      <3>7. i # 1 => t[i - 1] = s[i - 1]
        BY <2>1
      <3>8. CASE i = p - 1
        <4>1. i = k - 1 <=> p = k
          BY <3>8
        <4>2. p # k => p \in 1..(k - 1) /\ t[p] = s[p + 1]
          OBVIOUS
        <4> QED BY <1>2, <3>1, <3>4, <3>5, <3>6, <3>7, <3>8, <4>1, <4>2
      <3>9. CASE i # p - 1
        <4>1. i + 1 \in 1..(k - 1) /\ i + 1 < p /\ i # k - 1
          BY <2>1, <3>9
        <4> QED BY <3>1, <3>4, <3>5, <3>6, <3>7, <3>9, <4>1
      <3> QED BY <3>8, <3>9
    <2>2. CASE i >= p
      <3>1. t[i] = s[i + 1] /\ i + 1 \in 1..k /\ i + 1 # 1
        BY <2>2
      <3>2. s[i + 1] # n /\ s[i + 1] \in Nodes
        BY <1>1, <1>4, <2>2, <3>1
      <3>3. s[i + 1] # bef
        BY <1>1, <1>2, <1>4, <1>5, <2>2, <3>1
      <3>4. s[i + 1] = aft <=> i = p
        <4>1. p # k
          BY <2>2
        <4> QED BY <1>2, <1>4, <1>5, <3>1, <4>1
      <3>5. m.next[s[i + 1]] = l.next[s[i + 1]]
        BY <1>3, <3>2, <3>3
      <3>6. m.prev[s[i + 1]] = IF i = p THEN bef ELSE l.prev[s[i + 1]]
        BY <1>3, <3>2, <3>4
      <3>7. PICK j \in 1..k : j = i + 1
        BY <3>1
      <3>8. /\ l.next[s[j]] = IF j = k THEN NULL ELSE s[j + 1]
            /\ l.prev[s[j]] = IF j = 1 THEN NULL ELSE s[j - 1]
        BY DEF Chain
      <3>9. (j = k <=> i = k - 1) /\ j # 1 /\ j - 1 = i
        BY <3>7
      <3>10. i # k - 1 => t[i + 1] = s[j + 1]
        BY <2>2, <3>7
      <3>11. CASE i = p
        <4>1. bef = IF i = 1 THEN NULL ELSE t[i - 1]
          BY <1>2, <3>11
        <4> QED BY <3>1, <3>5, <3>6, <3>7, <3>8, <3>9, <3>10, <3>11, <4>1
      <3>12. CASE i # p
        <4>1. i # 1 /\ i - 1 \in 1..(k - 1) /\ i - 1 >= p /\ (i - 1) + 1 = i
          BY <2>2, <3>12
        <4>2. t[i - 1] = s[i]
          BY <4>1
        <4> QED BY <3>1, <3>5, <3>6, <3>7, <3>8, <3>9, <3>10, <3>12, <4>1, <4>2
      <3> QED BY <3>11, <3>12
    <2> QED BY <2>1, <2>2
  <1>12. Chain(m, t, k - 1)
    BY <1>7, <1>8, <1>9, <1>10, <1>11 DEF Chain
  <1>13. Frame(l, m, Members(s))
    <2> SUFFICES ASSUME NEW x \in Nodes \ Members(s)
                 PROVE  m.next[x] = l.next[x] /\ m.prev[x] = l.prev[x]
      BY DEF Frame
    <2>1. x # n /\ x # bef /\ x # aft
      BY <1>1, <1>6, NullIsNoNode
    <2> QED BY <1>3, <2>1
  <1>14. Bare(m, {n})
    BY <1>1, <1>3 DEF Bare
  <1>15. Members(t) = Members(s) \ {n}
    <2>1. Members(t) = {t[i] : i \in 1..(k - 1)}
      BY DEF Members
    <2>2. ASSUME NEW i \in 1..(k - 1) PROVE t[i] \in Members(s) \ {n}
      BY <1>1, <1>4
    <2>3. ASSUME NEW i \in 1..k, s[i] # n PROVE \E j \in 1..(k - 1) : t[j] = s[i]
      <3>1. CASE i < p
        BY <3>1
      <3>2. CASE i > p
        <4>1. i - 1 \in 1..(k - 1) /\ i - 1 >= p /\ (i - 1) + 1 = i
          BY <3>2
        <4> QED BY <4>1
      <3> QED BY <2>3, <3>1, <3>2
    <2>4. Members(t) \subseteq Members(s) \ {n}
      BY <2>1, <2>2
    <2>5. ASSUME NEW x \in Members(s) \ {n} PROVE x \in Members(t)
      <3>1. PICK i \in 1..k : x = s[i]
        BY <1>1
      <3> QED BY <2>1, <2>3, <3>1
    <2> QED BY <2>4, <2>5
  <1> QED BY <1>12, <1>13, <1>14, <1>15 DEF m

\* What removing the node at position p does.
LEMMA RemoveRep ==
    ASSUME NEW l, NEW s, Rep(l, s), NEW p \in DOMAIN s
    PROVE  /\ Rep(rq_remove_node(l, s[p]), Cut(s, p))
           /\ Frame(l, rq_remove_node(l, s[p]), Members(s))
           /\ Bare(rq_remove_node(l, s[p]), {s[p]})
           /\ Members(Cut(s, p)) = Members(s) \ {s[p]}
  <1>0. PICK k \in Nat : Chain(l, s, k)
    BY DEF Rep
  <1>1. s \in Seq(Nodes) /\ Len(s) = k /\ p \in 1..k
    BY <1>0, ChainSeq
  <1>2. PICK t : t = Cut(s, p)
    OBVIOUS
  <1>3. /\ t \in Seq(Nodes) /\ DOMAIN t = 1..(k - 1)
        /\ (\A i \in 1..(k - 1) : i < p => t[i] = s[i])
        /\ (\A i \in 1..(k - 1) : i >= p => t[i] = s[i + 1])
    BY <1>1, <1>2, CutPosition
  <1>4. Closed(s, k, p, t)
    BY <1>3 DEF Closed
  <1>5. /\ Chain(rq_remove_node(l, s[p]), t, k - 1)
        /\ Frame(l, rq_remove_node(l, s[p]), Members(s))
        /\ Bare(rq_remove_node(l, s[p]), {s[p]})
        /\ Members(t) = Members(s) \ {s[p]}
    <2>1. p \in 1..k
      BY <1>1
    <2>2. Chain(l, s, k)
      BY <1>0
    <2>3. \A x : x \in Members(t) <=> x \in Members(s) /\ x # s[p]
      BY <2>2, <1>4, <2>1, RemoveChain
    <2>4. Frame(l, rq_remove_node(l, s[p]), Members(s))
      BY <2>2, <1>4, <2>1, RemoveChain
    <2>5. Chain(rq_remove_node(l, s[p]), t, k - 1)
      BY <2>2, <1>4, <2>1, RemoveChain
    <2>6. Bare(rq_remove_node(l, s[p]), {s[p]})
      BY <2>2, <1>4, <2>1, RemoveChain
    <2> QED BY <2>3, <2>4, <2>5, <2>6
  <1>6. k - 1 \in Nat
    BY <1>1
  <1> QED BY <1>2, <1>5, <1>6 DEF Rep

\* rq_pop_front_node removes the first node.
LEMMA PopFrontRep ==
    ASSUME NEW l, NEW s, Rep(l, s), s # <<>>
    PROVE  /\ l.head = s[1] /\ s[1] \in Nodes /\ Head(s) = s[1]
           /\ Rep(rq_pop_front_node(l), Tail(s))
           /\ Frame(l, rq_pop_front_node(l), Members(s))
           /\ Bare(rq_pop_front_node(l), {s[1]})
           /\ Members(Tail(s)) = Members(s) \ {s[1]}
  <1>0. PICK k \in Nat : Chain(l, s, k)
    BY DEF Rep
  <1>1. /\ s \in Seq(Nodes) /\ Len(s) = k /\ k # 0 /\ 1 \in DOMAIN s /\ DOMAIN s = 1..k
        /\ s[1] \in Nodes /\ s[1] # NULL
    BY <1>0, ChainSeq
  <1>2. l.head = s[1] /\ Head(s) = s[1]
    BY <1>0, <1>1 DEF Chain
  <1>3. rq_pop_front_node(l) = rq_remove_node(l, s[1])
    <2>1. l.prev[s[1]] = NULL /\ l.prev \in [Nodes -> NodeOrNull] /\ l.next \in [Nodes -> NodeOrNull]
      BY <1>0, <1>1 DEF Chain, LinkTypes
    <2>2. Assign(l.next, NULL, l.next[s[1]]) = l.next
      BY <2>1, NullIsNoNode DEF Assign
    <2> QED BY <1>1, <1>2, <2>1, <2>2 DEF rq_pop_front_node, rq_remove_node
  <1>4. Cut(s, 1) = Tail(s)
    <2>1. SubSeq(s, 1, 1 - 1) = <<>> /\ SubSeq(s, 1 + 1, Len(s)) = Tail(s)
      BY <1>1
    <2>2. Tail(s) \in Seq(Nodes)
      BY <1>1
    <2> QED BY <2>1, <2>2 DEF Cut
  <1>5. /\ Rep(rq_remove_node(l, s[1]), Cut(s, 1))
        /\ Frame(l, rq_remove_node(l, s[1]), Members(s))
        /\ Bare(rq_remove_node(l, s[1]), {s[1]})
        /\ Members(Cut(s, 1)) = Members(s) \ {s[1]}
    BY <1>1, RemoveRep
  <1> QED BY <1>1, <1>2, <1>3, <1>4, <1>5

\* rq_pop_back_node removes the last node.
LEMMA PopBackRep ==
    ASSUME NEW l, NEW s, Rep(l, s), s # <<>>
    PROVE  /\ l.tail = s[Len(s)] /\ s[Len(s)] \in Nodes
           /\ Rep(rq_pop_back_node(l), SubSeq(s, 1, Len(s) - 1))
           /\ Frame(l, rq_pop_back_node(l), Members(s))
           /\ Bare(rq_pop_back_node(l), {s[Len(s)]})
           /\ Members(SubSeq(s, 1, Len(s) - 1)) = Members(s) \ {s[Len(s)]}
  <1>0. PICK k \in Nat : Chain(l, s, k)
    BY DEF Rep
  <1>1. /\ s \in Seq(Nodes) /\ Len(s) = k /\ k # 0 /\ k \in DOMAIN s /\ DOMAIN s = 1..k
        /\ s[k] \in Nodes /\ s[k] # NULL
    BY <1>0, ChainSeq
  <1>2. l.tail = s[k]
    BY <1>0, <1>1 DEF Chain
  <1>3. rq_pop_back_node(l) = rq_remove_node(l, s[k])
    <2>1. l.next[s[k]] = NULL /\ l.prev \in [Nodes -> NodeOrNull] /\ l.next \in [Nodes -> NodeOrNull]
      BY <1>0, <1>1 DEF Chain, LinkTypes
    <2>2. Assign(l.prev, NULL, l.prev[s[k]]) = l.prev
      BY <2>1, NullIsNoNode DEF Assign
    <2> QED BY <1>1, <1>2, <2>1, <2>2 DEF rq_pop_back_node, rq_remove_node
  <1>4. Cut(s, k) = SubSeq(s, 1, k - 1)
    <2>1. SubSeq(s, k + 1, Len(s)) = <<>>
      BY <1>1
    <2>2. PICK w : w = SubSeq(s, 1, k - 1)
      OBVIOUS
    <2>3. w \in Seq(Nodes)
      BY <1>1, <2>2
    <2>4. w \o <<>> = w
      BY <2>3, ConcatEmptySeq
    <2> QED BY <2>1, <2>2, <2>4 DEF Cut
  <1>5. /\ Rep(rq_remove_node(l, s[k]), Cut(s, k))
        /\ Frame(l, rq_remove_node(l, s[k]), Members(s))
        /\ Bare(rq_remove_node(l, s[k]), {s[k]})
        /\ Members(Cut(s, k)) = Members(s) \ {s[k]}
    BY <1>1, RemoveRep
  <1> QED BY <1>1, <1>2, <1>3, <1>4, <1>5

\* rq_push_front_node prepends the node.
LEMMA PushFrontRep ==
    ASSUME NEW l, NEW s, Rep(l, s), NEW n \in Nodes, n \notin Members(s)
    PROVE  /\ Rep(rq_push_front_node(l, n), <<n>> \o s)
           /\ Frame(l, rq_push_front_node(l, n), Members(s) \cup {n})
           /\ Members(<<n>> \o s) = Members(s) \cup {n}
  <1>0. PICK k \in Nat : Chain(l, s, k)
    BY DEF Rep
  <1> DEFINE m == rq_push_front_node(l, n)
             t == <<n>> \o s
  <1>1. /\ s \in Seq(Nodes) /\ Len(s) = k /\ Members(s) = {s[i] : i \in 1..k}
        /\ \A i \in 1..k : s[i] \in Members(s) /\ s[i] \in Nodes /\ s[i] # NULL /\ s[i] # n
    BY <1>0, ChainSeq
  <1>2. /\ t \in [1..(k + 1) -> Nodes] /\ t[1] = n /\ \A i \in 1..k : t[i + 1] = s[i]
    <2>0. <<n>> \in Seq(Nodes) /\ Len(<<n>>) = 1 /\ <<n>>[1] = n
      OBVIOUS
    <2>b. PICK u : u = <<n>>
      OBVIOUS
    <2>1. u \in Seq(Nodes) /\ Len(u) = 1 /\ u[1] = n
      BY <2>0, <2>b
    <2>2. /\ u \o s \in Seq(Nodes) /\ Len(u \o s) = Len(u) + Len(s)
          /\ \A i \in 1..(Len(u) + Len(s)) :
                (u \o s)[i] = IF i <= Len(u) THEN u[i] ELSE s[i - Len(u)]
      <3>1. s \in Seq(Nodes) /\ u \in Seq(Nodes)
        BY <1>1, <2>1
      <3> QED BY <3>1, ConcatProperties
    <2>a. t = u \o s
      BY <2>b
    <2> HIDE DEF t
    <2>3. \A i \in 1..k : i + 1 \in 1..(1 + k) /\ ~ (i + 1 <= 1) /\ (i + 1) - 1 = i
      OBVIOUS
    <2>4. /\ t \in Seq(Nodes) /\ Len(t) = Len(u) + Len(s)
          /\ \A i \in 1..(Len(u) + Len(s)) :
                t[i] = IF i <= Len(u) THEN u[i] ELSE s[i - Len(u)]
      BY <2>2, <2>a
    <2>5. Len(u) = 1 /\ Len(s) = k /\ u[1] = n
      BY <1>1, <2>1
    <2> QED BY <2>3, <2>4, <2>5
  <1>3. /\ m.tail = (IF l.head = NULL THEN n ELSE l.tail) /\ m.head = n /\ m.len = l.len + 1
        /\ m.prev = [x \in Nodes |-> IF x = l.head THEN n ELSE IF x = n THEN NULL ELSE l.prev[x]]
        /\ m.next = [x \in Nodes |-> IF x = n THEN l.head ELSE l.next[x]]
    BY DEF rq_push_front_node, Assign
  <1> HIDE DEF m, t
  <1>4. l.tail = (IF k = 0 THEN NULL ELSE s[k]) /\ l.head = (IF k = 0 THEN NULL ELSE s[1])
    BY <1>0 DEF Chain
  <1>5. l.head \in NodeOrNull /\ (l.head = NULL <=> k = 0) /\ l.head # n
    BY <1>1, <1>4, NullIsNoNode DEF NodeOrNull
  <1>6. LinkTypes(m)
    BY <1>0, <1>3, <1>5 DEF LinkTypes, NodeOrNull, Chain
  <1>7. m.head = t[1] /\ m.tail = t[k + 1] /\ m.len = k + 1
    <2>1. k # 0 => t[k + 1] = s[k]
      BY <1>2
    <2> QED BY <1>0, <1>2, <1>3, <1>4, <1>5, <2>1 DEF Chain
  <1>8. ASSUME NEW i \in 1..(k + 1), i # 1
        PROVE  \E a \in 1..k : i = a + 1 /\ t[i] = s[a]
    <2>1. i - 1 \in 1..k /\ i = (i - 1) + 1
      BY <1>8
    <2> QED BY <1>2, <2>1
  <1>9. \A i, j \in 1..(k + 1) : t[i] = t[j] => i = j
    <2> SUFFICES ASSUME NEW i \in 1..(k + 1), NEW j \in 1..(k + 1), t[i] = t[j] PROVE i = j
      OBVIOUS
    <2>1. \A a, b \in 1..k : s[a] = s[b] => a = b
      BY <1>0 DEF Chain
    <2>2. CASE i = 1 \/ j = 1
      BY <1>1, <1>2, <1>8, <2>2
    <2>3. CASE i # 1 /\ j # 1
      BY <1>8, <2>1, <2>3
    <2> QED BY <2>2, <2>3
  <1>10. ASSUME NEW i \in 1..(k + 1)
         PROVE  /\ m.next[t[i]] = IF i = k + 1 THEN NULL ELSE t[i + 1]
                /\ m.prev[t[i]] = IF i = 1 THEN NULL ELSE t[i - 1]
    <2>1. CASE i = 1
      <3>1. m.next[n] = l.head /\ m.prev[n] = NULL
        BY <1>3, <1>5
      <3>2. l.head = IF i = k + 1 THEN NULL ELSE t[i + 1]
        BY <1>2, <1>4, <2>1
      <3> QED BY <1>2, <2>1, <3>1, <3>2
    <2>2. CASE i # 1
      <3>1. PICK a \in 1..k : i = a + 1 /\ t[i] = s[a]
        BY <1>8, <2>2
      <3>2. s[a] = l.head <=> a = 1
        BY <1>0, <1>4, <3>1 DEF Chain
      <3>3. m.prev[s[a]] = IF a = 1 THEN n ELSE l.prev[s[a]]
        BY <1>1, <1>3, <3>2
      <3>4. m.next[s[a]] = l.next[s[a]]
        BY <1>1, <1>3
      <3>5. /\ l.next[s[a]] = IF a = k THEN NULL ELSE s[a + 1]
            /\ l.prev[s[a]] = IF a = 1 THEN NULL ELSE s[a - 1]
        BY <1>0 DEF Chain
      <3>6. a # k => t[i + 1] = s[a + 1]
        <4>1. a # k => a + 1 \in 1..k
          OBVIOUS
        <4> QED BY <1>2, <3>1, <4>1
      <3>7. a # 1 => t[i - 1] = s[a - 1]
        <4>1. a # 1 => a - 1 \in 1..k /\ (a - 1) + 1 = i - 1
          BY <3>1
        <4> QED BY <1>2, <4>1
      <3>8. i - 1 = a /\ (a = 1 => t[i - 1] = n) /\ (a = k <=> i = k + 1)
        BY <1>2, <3>1
      <3> QED BY <2>2, <3>1, <3>3, <3>4, <3>5, <3>6, <3>7, <3>8
    <2> QED BY <2>1, <2>2
  <1>11. Frame(l, m, Members(s) \cup {n})
    <2> SUFFICES ASSUME NEW x \in Nodes \ (Members(s) \cup {n})
                 PROVE  m.next[x] = l.next[x] /\ m.prev[x] = l.prev[x]
      BY DEF Frame
    <2>1. x # l.head /\ x # n
      BY <1>1, <1>4, NullIsNoNode
    <2> QED BY <1>3, <2>1
  <1>12. Chain(m, t, k + 1)
    BY <1>2, <1>6, <1>7, <1>9, <1>10 DEF Chain
  <1>13. Members(t) = Members(s) \cup {n}
    <2>1. Members(t) = {t[i] : i \in 1..(k + 1)}
      BY <1>2 DEF Members
    <2>2. Members(t) \subseteq Members(s) \cup {n}
      <3> SUFFICES ASSUME NEW i \in 1..(k + 1) PROVE t[i] \in Members(s) \cup {n}
        BY <2>1
      <3> QED BY <1>1, <1>2, <1>8
    <2>3. n \in Members(t) /\ \A i \in 1..k : s[i] \in Members(t)
      BY <1>2, <2>1
    <2>4. Members(s) \subseteq Members(t)
      BY <1>1, <2>3
    <2> QED BY <2>2, <2>3, <2>4
  <1> QED BY <1>11, <1>12, <1>13 DEF Rep, m, t

-----------------------------------------------------------------------------
(* All lists together.                                                     *)

AbsSeq == [q \in Queues |-> Forward(q)]

\* The inductive invariant: every list's pointers represent the sequence its
\* walk yields, no node is on two lists, and the other nodes are bare.
RqInv ==
    /\ head \in [Queues -> NodeOrNull] /\ tail \in [Queues -> NodeOrNull]
    /\ len \in [Queues -> Nat]
    /\ next \in [Nodes -> NodeOrNull] /\ prev \in [Nodes -> NodeOrNull]
    /\ \A q \in Queues : Rep(List(q), Forward(q))
    /\ \A p, q \in Queues : p # q => Members(Forward(p)) \cap Members(Forward(q)) = {}
    /\ UnlinkedIsBare

\* Storing a list that represents t, with nodes of q or of no list, changes
\* what q represents and nothing else.
LEMMA StoreKeeps ==
    ASSUME RqInv, NEW q \in Queues, NEW l, NEW t, Store(q, l), Rep(l, t),
           Frame(List(q), l, Members(Forward(q)) \cup Members(t)),
           Bare(l, Members(Forward(q)) \ Members(t)),
           \A p \in Queues : p # q => Members(Forward(p)) \cap Members(t) = {}
    PROVE  RqInv' /\ AbsSeq' = [AbsSeq EXCEPT ![q] = t]
  <1> DEFINE L(p) == [head |-> head'[p], tail |-> tail'[p], len |-> len'[p],
                      next |-> next', prev |-> prev']
             S == Members(Forward(q)) \cup Members(t)
  <1>1. /\ next' = l.next /\ prev' = l.prev
        /\ head'[q] = l.head /\ tail'[q] = l.tail /\ len'[q] = l.len
        /\ \A p \in Queues : p # q => head'[p] = head[p] /\ tail'[p] = tail[p] /\ len'[p] = len[p]
    BY DEF RqInv, Store
  <1>2. LinkTypes(l) /\ l.head \in NodeOrNull /\ l.tail \in NodeOrNull /\ l.len \in Nat
    <2>1. PICK k \in Nat : Chain(l, t, k)
      BY DEF Rep
    <2>2. k # 0 => t[1] \in Nodes /\ t[k] \in Nodes
      BY <2>1 DEF Chain
    <2> QED BY <2>1, <2>2 DEF Chain, NodeOrNull
  <1>3. /\ head' \in [Queues -> NodeOrNull] /\ tail' \in [Queues -> NodeOrNull]
        /\ len' \in [Queues -> Nat]
        /\ next' \in [Nodes -> NodeOrNull] /\ prev' \in [Nodes -> NodeOrNull]
    BY <1>1, <1>2 DEF RqInv, Store, LinkTypes
  <1>4. Rep(L(q), t)
    <2>1. PICK k \in Nat : Chain(l, t, k)
      BY DEF Rep
    <2>2. Chain(L(q), t, k)
      BY <1>1, <2>1 DEF Chain, LinkTypes
    <2> QED BY <2>2 DEF Rep
  <1>5. ASSUME NEW p \in Queues, p # q PROVE Rep(L(p), Forward(p))
    <2>1. Rep(List(p), Forward(p))
      BY DEF RqInv
    <2>2. LinkTypes(L(p))
      BY <1>3 DEF LinkTypes
    <2>3. L(p).head = List(p).head /\ L(p).tail = List(p).tail /\ L(p).len = List(p).len
      BY <1>1, <1>5 DEF List
    <2>4. Frame(List(p), L(p), S)
      BY <1>1 DEF Frame, List
    <2>5. Members(Forward(p)) \cap S = {}
      BY <1>5 DEF RqInv
    <2> HIDE DEF L, S
    <2> QED BY <2>1, <2>2, <2>3, <2>4, <2>5, RepFrame
  <1>6. Forward(q)' = t
    <2>1. Walk(L(q).next, L(q).head) = t
      BY <1>4, RepWalks
    <2> QED BY <2>1 DEF Forward
  <1>7. ASSUME NEW p \in Queues, p # q PROVE Forward(p)' = Forward(p)
    <2>1. Walk(L(p).next, L(p).head) = Forward(p)
      BY <1>5, <1>7, RepWalks
    <2>2. Forward(p)' = Walk(next', head'[p])
      BY DEF Forward
    <2> QED BY <2>1, <2>2
  <1>8. ASSUME NEW p \in Queues PROVE Rep(List(p), Forward(p))'
    <2>1. List(p)' = L(p)
      BY DEF List
    <2> HIDE DEF L
    <2>2. CASE p = q
      BY <1>4, <1>6, <2>1, <2>2
    <2>3. CASE p # q
      BY <1>5, <1>7, <2>1, <2>3
    <2> QED BY <2>2, <2>3
  <1>9. ASSUME NEW p \in Queues, NEW r \in Queues, p # r
        PROVE  Members(Forward(p)') \cap Members(Forward(r)') = {}
    <2>1. Members(Forward(p)) \cap Members(Forward(r)) = {}
      BY <1>9 DEF RqInv
    <2> QED BY <1>6, <1>7, <1>9, <2>1
  <1>10. UnlinkedIsBare'
    <2> SUFFICES ASSUME NEW n \in Nodes, n \notin Linked' PROVE next'[n] = NULL /\ prev'[n] = NULL
      BY DEF UnlinkedIsBare
    <2>1. \A p \in Queues : n \notin Members(Forward(p)')
      BY DEF Linked
    <2>2. n \notin Members(t) /\ \A p \in Queues : p # q => n \notin Members(Forward(p))
      BY <1>6, <1>7, <2>1
    <2>3. CASE n \in Members(Forward(q))
      BY <1>1, <2>2, <2>3 DEF Bare
    <2>4. CASE n \notin Members(Forward(q))
      <3>1. n \notin Linked
        BY <2>2, <2>4 DEF Linked
      <3>2. next[n] = NULL /\ prev[n] = NULL
        BY <3>1 DEF RqInv, UnlinkedIsBare
      <3>3. l.next[n] = next[n] /\ l.prev[n] = prev[n]
        BY <2>2, <2>4 DEF Frame, List
      <3> QED BY <1>1, <3>2, <3>3
    <2> QED BY <2>3, <2>4
  <1>11. AbsSeq' = [AbsSeq EXCEPT ![q] = t]
    <2>1. AbsSeq' = [p \in Queues |-> Forward(p)']
      BY DEF AbsSeq
    <2> QED BY <1>6, <1>7, <2>1 DEF AbsSeq
  <1> QED BY <1>3, <1>8, <1>9, <1>10, <1>11 DEF RqInv

\* What the invariant says of one list and of a node that is on none.
LEMMA InvFacts ==
    ASSUME RqInv, NEW q \in Queues
    PROVE  /\ Rep(List(q), Forward(q)) /\ Forward(q) \in Seq(Nodes)
           /\ AbsSeq[q] = Forward(q)
           /\ Members(Forward(q)) \subseteq Nodes
           /\ \A p \in Queues : p # q => Members(Forward(p)) \cap Members(Forward(q)) = {}
           /\ \A n \in Nodes : n \notin Linked =>
                 n \notin Members(Forward(q)) /\ \A p \in Queues : n \notin Members(Forward(p))
  <1>1. Rep(List(q), Forward(q))
    BY DEF RqInv
  <1>2. Forward(q) \in Seq(Nodes) /\ Members(Forward(q)) \subseteq Nodes
    BY <1>1, ChainSeq DEF Rep
  <1> QED BY <1>1, <1>2 DEF RqInv, AbsSeq, Linked

\* A node that is on no list is free in the abstract specification.
LEMMA UnlinkedIsFree ==
    ASSUME RqInv, NEW n \in Nodes, n \notin Linked
    PROVE  Abs!Free(n)
  <1> SUFFICES ASSUME NEW p \in Queues PROVE ~ Abs!Contains(Forward(p), n)
    BY DEF Abs!Free
  <1>1. Forward(p) \in Seq(Nodes) /\ n \notin Members(Forward(p))
    BY InvFacts
  <1> QED BY <1>1 DEF Members, Abs!Contains

\* rq_push_front.
LEMMA PushFrontStep ==
    ASSUME RqInv, NEW q \in Queues, NEW n \in Nodes, NEW d, rq_push_front(q, n, d)
    PROVE  RqInv' /\ Abs!QPushFront(q, n, d)
  <1> DEFINE s == Forward(q)
             l == rq_push_front_node(List(q), n)
  <1>1. Rep(List(q), s) /\ n \notin Members(s)
        /\ \A p \in Queues : p # q => Members(Forward(p)) \cap (Members(s) \cup {n}) = {}
    BY InvFacts DEF rq_push_front
  <1>2. PICK t : t = <<n>> \o s
    OBVIOUS
  <1>3. Store(q, l)
    BY DEF rq_push_front
  <1>4. Rep(l, t) /\ Frame(List(q), l, Members(s) \cup {n}) /\ Members(t) = Members(s) \cup {n}
    <2> HIDE DEF s
    <2> QED BY <1>1, <1>2, PushFrontRep
  <1> HIDE DEF l
  <1>5. Members(s) \cup Members(t) = Members(s) \cup {n} /\ Members(s) \ Members(t) = {}
    BY <1>4
  <1>6. Bare(l, Members(s) \ Members(t)) /\ Frame(List(q), l, Members(s) \cup Members(t))
    BY <1>4, <1>5 DEF Bare
  <1>7. RqInv' /\ AbsSeq' = [AbsSeq EXCEPT ![q] = t]
    BY <1>1, <1>3, <1>4, <1>6, StoreKeeps
  <1>8. AbsSeq[q] = s
    BY InvFacts
  <1> QED BY <1>2, <1>7, <1>8, UnlinkedIsFree DEF Abs!QPushFront, AbsSeq, rq_push_front, rq_node_init

\* rq_push_back.
LEMMA PushBackStep ==
    ASSUME RqInv, NEW q \in Queues, NEW n \in Nodes, NEW d, rq_push_back(q, n, d)
    PROVE  RqInv' /\ Abs!QPushBack(q, n, d)
  <1> DEFINE s == Forward(q)
             l == rq_push_back_node(List(q), n)
  <1>1. Rep(List(q), s) /\ n \notin Members(s) /\ s \in Seq(Nodes)
        /\ \A p \in Queues : p # q => Members(Forward(p)) \cap (Members(s) \cup {n}) = {}
    BY InvFacts DEF rq_push_back
  <1>2. PICK t : t = Append(s, n)
    OBVIOUS
  <1>3. Store(q, l)
    BY DEF rq_push_back
  <1>4. Rep(l, t) /\ Frame(List(q), l, Members(s) \cup {n}) /\ Members(t) = Members(s) \cup {n}
    <2> HIDE DEF s
    <2> QED BY <1>1, <1>2, PushBackRep, MembersAppend
  <1> HIDE DEF l
  <1>5. Members(s) \cup Members(t) = Members(s) \cup {n} /\ Members(s) \ Members(t) = {}
    BY <1>4
  <1>6. Bare(l, Members(s) \ Members(t)) /\ Frame(List(q), l, Members(s) \cup Members(t))
    BY <1>4, <1>5 DEF Bare
  <1>7. RqInv' /\ AbsSeq' = [AbsSeq EXCEPT ![q] = t]
    BY <1>1, <1>3, <1>4, <1>6, StoreKeeps
  <1>8. AbsSeq[q] = s
    BY InvFacts
  <1> QED BY <1>2, <1>7, <1>8, UnlinkedIsFree DEF Abs!QPushBack, AbsSeq, rq_push_back, rq_node_init

\* An operation that removes one node, or that stores the list it was given.
LEMMA ShrinkStep ==
    ASSUME RqInv, NEW q \in Queues, NEW l, Store(q, l), NEW t, Rep(l, t), NEW n \in Nodes,
           n \in Members(Forward(q)),
           Frame(List(q), l, Members(Forward(q))), Bare(l, {n}),
           Members(t) = Members(Forward(q)) \ {n}
    PROVE  RqInv' /\ AbsSeq' = [AbsSeq EXCEPT ![q] = t]
  <1> DEFINE s == Forward(q)
  <1>1. Members(s) \cup Members(t) = Members(s) /\ Members(s) \ Members(t) = {n}
    OBVIOUS
  <1>2. Bare(l, Members(s) \ Members(t)) /\ Frame(List(q), l, Members(s) \cup Members(t))
    BY <1>1
  <1>3. \A p \in Queues : p # q => Members(Forward(p)) \cap Members(t) = {}
    BY InvFacts
  <1> QED BY <1>2, <1>3, StoreKeeps

\* Nothing is stored but what was there.
LEMMA SameStep ==
    ASSUME RqInv, NEW q \in Queues, Store(q, List(q))
    PROVE  RqInv' /\ AbsSeq' = AbsSeq
  <1>1. head' = head /\ tail' = tail /\ len' = len /\ next' = next /\ prev' = prev
    BY DEF RqInv, Store, List
  <1> QED BY <1>1 DEF RqInv, AbsSeq, List, Forward, UnlinkedIsBare, Linked

\* rq_pop_front.
LEMMA PopFrontStep ==
    ASSUME RqInv, NEW q \in Queues, rq_pop_front(q)
    PROVE  RqInv' /\ Abs!QPopFront(q)
  <1> DEFINE s == Forward(q)
             l == rq_pop_front_node(List(q))
  <1>0. Rep(List(q), s) /\ AbsSeq[q] = s /\ AbsSeq = [p \in Queues |-> Forward(p)]
    BY InvFacts DEF AbsSeq
  <1>1. CASE s = <<>>
    <2>1. List(q).head = NULL
      BY <1>0, <1>1, ChainSeq DEF Rep, Chain
    <2>2. Store(q, List(q)) /\ head[q] = NULL
      BY <2>1 DEF rq_pop_front, rq_pop_front_node, List
    <2>3. RqInv' /\ AbsSeq' = AbsSeq
      BY <2>2, SameStep
    <2> QED BY <1>0, <1>1, <2>2, <2>3 DEF Abs!QPopFront, AbsSeq, rq_pop_front
  <1>2. CASE s # <<>>
    <2>1. /\ List(q).head = s[1] /\ s[1] \in Nodes /\ Head(s) = s[1]
          /\ Rep(l, Tail(s)) /\ Frame(List(q), l, Members(s)) /\ Bare(l, {s[1]})
          /\ Members(Tail(s)) = Members(s) \ {s[1]}
      <3> HIDE DEF s
      <3> QED BY <1>0, <1>2, PopFrontRep
    <2>2. s[1] \in Members(s)
      BY <1>0, <1>2, ChainSeq DEF Rep
    <2>3. Store(q, l)
      BY DEF rq_pop_front
    <2>4. RqInv' /\ AbsSeq' = [AbsSeq EXCEPT ![q] = Tail(s)]
      <3> HIDE DEF l
      <3> QED BY <2>1, <2>2, <2>3, ShrinkStep
    <2>5. head[q] = s[1] /\ head[q] # NULL
      BY <2>1, NullIsNoNode DEF List
    <2> QED BY <1>0, <1>2, <2>1, <2>4, <2>5 DEF Abs!QPopFront, AbsSeq, rq_pop_front
  <1> QED BY <1>1, <1>2

\* rq_pop_back.
LEMMA PopBackStep ==
    ASSUME RqInv, NEW q \in Queues, rq_pop_back(q)
    PROVE  RqInv' /\ Abs!QPopBack(q)
  <1> DEFINE s == Forward(q)
             l == rq_pop_back_node(List(q))
             t == SubSeq(s, 1, Len(s) - 1)
  <1>0. Rep(List(q), s) /\ AbsSeq[q] = s /\ AbsSeq = [p \in Queues |-> Forward(p)]
    BY InvFacts DEF AbsSeq
  <1>1. CASE s = <<>>
    <2>1. List(q).tail = NULL
      BY <1>0, <1>1, ChainSeq DEF Rep, Chain
    <2>2. Store(q, List(q)) /\ tail[q] = NULL
      BY <2>1 DEF rq_pop_back, rq_pop_back_node, List
    <2>3. RqInv' /\ AbsSeq' = AbsSeq
      BY <2>2, SameStep
    <2> QED BY <1>0, <1>1, <2>2, <2>3 DEF Abs!QPopBack, AbsSeq, rq_pop_back
  <1>2. CASE s # <<>>
    <2>1. /\ List(q).tail = s[Len(s)] /\ s[Len(s)] \in Nodes
          /\ Rep(l, t) /\ Frame(List(q), l, Members(s)) /\ Bare(l, {s[Len(s)]})
          /\ Members(t) = Members(s) \ {s[Len(s)]}
      <3> HIDE DEF s
      <3> QED BY <1>0, <1>2, PopBackRep
    <2>2. s[Len(s)] \in Members(s)
      <3>1. PICK k \in Nat : Chain(List(q), s, k)
        BY <1>0 DEF Rep
      <3>2. Len(s) = k /\ k # 0 /\ \A i \in 1..k : s[i] \in Members(s)
        BY <1>2, <3>1, ChainSeq
      <3> QED BY <3>2
    <2>3. Store(q, l)
      BY DEF rq_pop_back
    <2>4. RqInv' /\ AbsSeq' = [AbsSeq EXCEPT ![q] = t]
      <3> HIDE DEF l, t
      <3> QED BY <2>1, <2>2, <2>3, ShrinkStep
    <2>5. tail[q] = s[Len(s)] /\ tail[q] # NULL
      BY <2>1, NullIsNoNode DEF List
    <2> QED BY <1>0, <1>2, <2>1, <2>4, <2>5
            DEF Abs!QPopBack, Abs!Front, Abs!Last, AbsSeq, rq_pop_back
  <1> QED BY <1>1, <1>2

\* rq_find returns the first node that carries d, NULL if there is none.
LEMMA FindIsFirst ==
    ASSUME RqInv, NEW q \in Queues, NEW d
    PROVE  /\ Abs!Holding(q, d) \subseteq DOMAIN Forward(q)
           /\ rq_find(q, d) = IF Abs!Holding(q, d) = {} THEN NULL
                              ELSE Forward(q)[Abs!Min(Abs!Holding(q, d))]
           /\ Abs!Holding(q, d) # {} => /\ Abs!Min(Abs!Holding(q, d)) \in Abs!Holding(q, d)
                                        /\ rq_find(q, d) \in Nodes
  <1> DEFINE s == Forward(q)
             H == {i \in DOMAIN s : data[s[i]] = d}
  <1>1. Abs!Holding(q, d) = H
    BY DEF Abs!Holding
  <1>2. rq_find(q, d) = IF H = {} THEN NULL ELSE s[CHOOSE i \in H : \A j \in H : i <= j]
    BY DEF rq_find
  <1>3. Abs!Min(H) = CHOOSE i \in H : \A j \in H : i <= j
    BY DEF Abs!Min
  <1>4. s \in Seq(Nodes)
    BY InvFacts
  <1>5. ASSUME H # {} PROVE Abs!Min(H) \in H
    <2>1. H \subseteq Nat
      BY <1>4
    <2> HIDE DEF H
    <2>2. \E i \in H : \A j \in H : i <= j
      BY <1>5, <2>1, LeastNumber
    <2> QED BY <1>3, <2>2
  <1>6. \A i \in H : s[i] \in Nodes
    BY <1>4
  <1>7. H \subseteq DOMAIN s
    OBVIOUS
  <1> HIDE DEF H, s
  <1> QED BY <1>1, <1>2, <1>3, <1>5, <1>6, <1>7 DEF s

\* rq_find changes nothing.
LEMMA FindStep ==
    ASSUME RqInv, NEW q \in Queues, NEW d, Find(q, d)
    PROVE  RqInv' /\ Abs!QFind(q, d)
  <1>1. RqInv'
    BY DEF Find, RqInv, List, Forward, UnlinkedIsBare, Linked
  <1>2. AbsSeq' = AbsSeq
    BY DEF Find, AbsSeq, Forward
  <1>3. rq_find(q, d) = IF Abs!Holding(q, d) = {} THEN NULL
                        ELSE Forward(q)[Abs!Min(Abs!Holding(q, d))]
    BY FindIsFirst
  <1> QED BY <1>1, <1>2, <1>3 DEF Find, Abs!QFind, AbsSeq

\* rq_remove.
LEMMA RemoveStep ==
    ASSUME RqInv, NEW q \in Queues, NEW d, rq_remove(q, d)
    PROVE  RqInv' /\ Abs!QRemove(q, d)
  <1> DEFINE s == Forward(q)
             n == rq_find(q, d)
             p == Abs!Min(Abs!Holding(q, d))
             l == rq_remove_node(List(q), n)
  <1>0. Rep(List(q), s) /\ AbsSeq[q] = s /\ AbsSeq = [r \in Queues |-> Forward(r)]
    BY InvFacts DEF AbsSeq
  <1>1. CASE Abs!Holding(q, d) = {}
    <2>1. n = NULL
      BY <1>1, FindIsFirst
    <2>2. Store(q, List(q)) /\ ret' = FALSE
      BY <2>1 DEF rq_remove
    <2>3. RqInv' /\ AbsSeq' = AbsSeq
      BY <2>2, SameStep
    <2> QED BY <1>0, <1>1, <2>2, <2>3 DEF Abs!QRemove, AbsSeq, rq_remove
  <1>2. CASE Abs!Holding(q, d) # {}
    <2>1. n \in Nodes /\ n = s[p] /\ p \in DOMAIN s
      BY <1>2, FindIsFirst
    <2>2. Store(q, l) /\ ret' = TRUE
      BY <2>1, NullIsNoNode DEF rq_remove
    <2> HIDE DEF n, p, s
    <2>3. /\ Rep(l, Cut(s, p)) /\ Frame(List(q), l, Members(s)) /\ Bare(l, {s[p]})
          /\ Members(Cut(s, p)) = Members(s) \ {s[p]}
      BY <1>0, <2>1, RemoveRep
    <2>4. n \in Members(s)
      BY <2>1 DEF Members
    <2> HIDE DEF l
    <2>5. RqInv' /\ AbsSeq' = [AbsSeq EXCEPT ![q] = Cut(s, p)]
      BY <2>1, <2>2, <2>3, <2>4, ShrinkStep DEF s
    <2>6. Cut(s, p) = Abs!RemoveAt(s, p)
      BY DEF Cut, Abs!RemoveAt
    <2> QED BY <1>0, <1>2, <2>2, <2>5, <2>6 DEF Abs!QRemove, AbsSeq, rq_remove, p, s
  <1> QED BY <1>1, <1>2

\* rq_rotate, which pops the front and pushes it to the back.
LEMMA RotateStep ==
    ASSUME RqInv, NEW q \in Queues, rq_rotate(q)
    PROVE  RqInv' /\ Abs!QRotate(q)
  <1> DEFINE s == Forward(q)
             m == rq_pop_front_node(List(q))
             l == rq_push_back_node(m, s[1])
             t == Append(Tail(s), s[1])
  <1>0. Rep(List(q), s) /\ s \in Seq(Nodes) /\ AbsSeq[q] = s /\ AbsSeq = [p \in Queues |-> Forward(p)]
    BY InvFacts DEF AbsSeq
  <1>1. len[q] = Len(s)
    BY <1>0, ChainSeq DEF Rep, Chain, List
  <1>2. CASE len[q] < 2
    <2>1. Store(q, List(q))
      BY <1>2 DEF rq_rotate
    <2>2. RqInv' /\ AbsSeq' = AbsSeq
      BY <2>1, SameStep
    <2>3. s # <<>> => Append(Tail(s), Head(s)) = s
      <3> HIDE DEF s
      <3> QED BY <1>0, <1>1, <1>2
    <2> QED BY <1>0, <2>2, <2>3 DEF Abs!QRotate, AbsSeq, rq_rotate
  <1>3. CASE ~ (len[q] < 2)
    <2>0. s # <<>>
      <3> HIDE DEF s
      <3> QED BY <1>0, <1>1, <1>3
    <2>1. /\ List(q).head = s[1] /\ s[1] \in Nodes /\ Head(s) = s[1]
          /\ Rep(m, Tail(s)) /\ Frame(List(q), m, Members(s)) /\ Bare(m, {s[1]})
          /\ Members(Tail(s)) = Members(s) \ {s[1]}
      <3> HIDE DEF s
      <3> QED BY <1>0, <2>0, PopFrontRep
    <2>2. Tail(s) \in Seq(Nodes) /\ s[1] \in Members(s)
      <3> HIDE DEF s
      <3> QED BY <1>0, <2>0 DEF Members
    <2>3. /\ Rep(l, t) /\ Frame(m, l, Members(Tail(s)) \cup {s[1]})
          /\ Members(t) = Members(Tail(s)) \cup {s[1]}
      <3> HIDE DEF m, s
      <3>1. s[1] \notin Members(Tail(s))
        BY <2>1
      <3>2. Rep(l, t) /\ Frame(m, l, Members(Tail(s)) \cup {s[1]})
        BY <2>1, <3>1, PushBackRep
      <3>3. Members(t) = Members(Tail(s)) \cup {s[1]}
        <4>1. PICK r : r = Tail(s)
          OBVIOUS
        <4>2. PICK h : h = s[1]
          OBVIOUS
        <4>3. r \in Seq(Nodes) /\ h \in Nodes
          BY <2>1, <2>2, <4>1, <4>2
        <4>4. Members(Append(r, h)) = Members(r) \cup {h}
          BY <4>3, MembersAppend
        <4> QED BY <4>1, <4>2, <4>4
      <3> QED BY <3>2, <3>3
    <2>4. Store(q, l)
      <3>1. head[q] = s[1]
        BY <2>1 DEF List
      <3> QED BY <1>3, <3>1 DEF rq_rotate
    <2>5. Members(t) = Members(s) /\ Members(Tail(s)) \cup {s[1]} = Members(s)
      BY <2>1, <2>2, <2>3
    <2>6. Frame(List(q), l, Members(s))
      <3> HIDE DEF l, m, s, t
      <3> QED BY <2>1, <2>3, <2>5 DEF Frame
    <2>7. RqInv' /\ AbsSeq' = [AbsSeq EXCEPT ![q] = t]
      <3> HIDE DEF l, t
      <3>1. Members(s) \cup Members(t) = Members(s) /\ Members(s) \ Members(t) = {}
        BY <2>5
      <3>2. Frame(List(q), l, Members(s) \cup Members(t)) /\ Bare(l, Members(s) \ Members(t))
        BY <2>6, <3>1 DEF Bare
      <3>3. \A p \in Queues : p # q => Members(Forward(p)) \cap Members(t) = {}
        BY <2>5, InvFacts
      <3> QED BY <2>3, <2>4, <3>2, <3>3, StoreKeeps
    <2> QED BY <1>0, <2>0, <2>1, <2>7 DEF Abs!QRotate, AbsSeq, rq_rotate
  <1> QED BY <1>2, <1>3

\* rq_clear.
LEMMA ClearStep ==
    ASSUME RqInv, NEW q \in Queues, rq_clear(q)
    PROVE  RqInv' /\ Abs!QClear(q)
  <1> DEFINE s == Forward(q)
             drop(f) == [n \in Nodes |-> IF n \in Members(s) THEN NULL ELSE f[n]]
             l == [head |-> NULL, tail |-> NULL, len |-> 0,
                   next |-> drop(next), prev |-> drop(prev)]
  <1>0. AbsSeq[q] = s /\ AbsSeq = [p \in Queues |-> Forward(p)] /\ Members(s) \subseteq Nodes
        /\ next \in [Nodes -> NodeOrNull] /\ prev \in [Nodes -> NodeOrNull]
    BY InvFacts DEF AbsSeq, RqInv
  <1>1. Store(q, l)
    BY DEF rq_clear
  <1>2. Rep(l, <<>>)
    <2>1. LinkTypes(l)
      BY <1>0 DEF LinkTypes, NodeOrNull
    <2>2. 1..0 = {} /\ <<>> \in [1..0 -> Nodes]
      OBVIOUS
    <2>3. l.head = NULL /\ l.tail = NULL /\ l.len = 0
      OBVIOUS
    <2> HIDE DEF l
    <2>4. Chain(l, <<>>, 0)
      BY <2>1, <2>2, <2>3 DEF Chain
    <2> QED BY <2>4 DEF Rep
  <1>3. Frame(List(q), l, Members(s)) /\ Bare(l, Members(s))
    BY <1>0 DEF Frame, Bare, List
  <1>4. Members(<<>>) = {}
    BY DEF Members
  <1>5. Members(s) \cup Members(<<>>) = Members(s) /\ Members(s) \ Members(<<>>) = Members(s)
    BY <1>4
  <1>6. RqInv' /\ AbsSeq' = [AbsSeq EXCEPT ![q] = <<>>]
    <2> HIDE DEF l
    <2>1. /\ Frame(List(q), l, Members(s) \cup Members(<<>>))
          /\ Bare(l, Members(s) \ Members(<<>>))
      BY <1>3, <1>5
    <2>2. \A p \in Queues : p # q => Members(Forward(p)) \cap Members(<<>>) = {}
      BY <1>4
    <2> QED BY <1>1, <1>2, <2>1, <2>2, StoreKeeps
  <1> QED BY <1>0, <1>6 DEF Abs!QClear, AbsSeq, rq_clear

\* Empty lists represent empty sequences.
LEMMA InitInv ==
    ASSUME Init PROVE RqInv /\ Abs!QInit
  <1>1. ASSUME NEW q \in Queues PROVE Rep(List(q), <<>>)
    <2>1. LinkTypes(List(q))
      BY DEF LinkTypes, NodeOrNull, List, Init
    <2>2. 1..0 = {} /\ <<>> \in [1..0 -> Nodes]
      OBVIOUS
    <2>3. List(q).head = NULL /\ List(q).tail = NULL /\ List(q).len = 0
      BY DEF List, Init, rq_init
    <2>4. Chain(List(q), <<>>, 0)
      BY <2>1, <2>2, <2>3 DEF Chain
    <2> QED BY <2>4 DEF Rep
  <1>2. ASSUME NEW q \in Queues PROVE Forward(q) = <<>>
    <2>1. Walk(List(q).next, List(q).head) = <<>>
      BY <1>1, RepWalks
    <2> QED BY <2>1 DEF Forward, List
  <1>3. Members(<<>>) = {}
    BY DEF Members
  <1>4. UnlinkedIsBare
    BY DEF UnlinkedIsBare, Init
  <1>5. RqInv
    <2>1. \A q \in Queues : Rep(List(q), Forward(q))
      BY <1>1, <1>2
    <2>2. \A p, q \in Queues : p # q => Members(Forward(p)) \cap Members(Forward(q)) = {}
      BY <1>2, <1>3
    <2> QED BY <1>4, <2>1, <2>2 DEF RqInv, Init, rq_init, NodeOrNull
  <1>6. Abs!QInit
    BY <1>2 DEF Abs!QInit, Init
  <1> QED BY <1>5, <1>6

\* Every call keeps the invariant and is a call of module Queue.
LEMMA StepInv ==
    ASSUME RqInv, [Next]_vars PROVE RqInv' /\ [Abs!QNext]_(Abs!qvars)
  <1>1. CASE UNCHANGED vars
    <2>1. RqInv'
      BY <1>1 DEF vars, RqInv, List, Forward, UnlinkedIsBare, Linked
    <2>2. UNCHANGED Abs!qvars
      BY <1>1 DEF vars, Abs!qvars, Forward
    <2> QED BY <2>1, <2>2
  <1>2. CASE Next
    <2>1. PICK q \in Queues :
             \/ \E n \in Nodes, d \in Data : rq_push_front(q, n, d) \/ rq_push_back(q, n, d)
             \/ rq_pop_front(q)
             \/ rq_pop_back(q)
             \/ rq_rotate(q)
             \/ rq_clear(q)
             \/ \E d \in Data : Find(q, d) \/ rq_remove(q, d)
      BY <1>2 DEF Next
    <2>2. RqInv' /\ Abs!QNext
      BY <2>1, PushFrontStep, PushBackStep, PopFrontStep, PopBackStep, RotateStep, ClearStep,
         FindStep, RemoveStep DEF Abs!QNext
    <2> QED BY <2>2
  <1> QED BY <1>1, <1>2

\* The invariant holds in every reachable state.
LEMMA SpecInv == Spec => []RqInv
  <1>1. Init => RqInv
    BY InitInv
  <1>2. RqInv /\ [Next]_vars => RqInv'
    BY StepInv
  <1> QED BY <1>1, <1>2, PTL DEF Spec

\* For any number of lists and nodes, whatever sequence of rq_* calls is made
\* on nodes that are on no list when they are pushed: both walks of every
\* list visit the same nodes in opposite order, len counts them, and no node
\* is on two lists (rq.c).
THEOREM RqSoundLists == Spec => []SoundLists
  <1>1. RqInv => SoundLists
    <2> SUFFICES ASSUME RqInv PROVE SoundLists
      OBVIOUS
    <2>1. ASSUME NEW q \in Queues
          PROVE  /\ len[q] = Len(Forward(q))
                 /\ Backward(q) = [i \in DOMAIN Forward(q) |-> Forward(q)[Len(Forward(q)) + 1 - i]]
                 /\ Unique(Forward(q))
      <3>1. Rep(List(q), Forward(q))
        BY InvFacts
      <3>2. Walk(List(q).prev, List(q).tail)
               = [i \in DOMAIN Forward(q) |-> Forward(q)[Len(Forward(q)) + 1 - i]]
        BY <3>1, RepWalks
      <3>3. PICK k \in Nat : Chain(List(q), Forward(q), k)
        BY <3>1 DEF Rep
      <3>4. Len(Forward(q)) = k /\ Unique(Forward(q)) /\ len[q] = k
        BY <3>3, ChainSeq DEF Chain, List
      <3> QED BY <3>2, <3>4 DEF Backward, List
    <2>2. \A p, q \in Queues : p # q => Members(Forward(p)) \cap Members(Forward(q)) = {}
      BY DEF RqInv
    <2> QED BY <2>1, <2>2 DEF SoundLists
  <1> QED BY <1>1, SpecInv, PTL

\* For any number of lists and nodes, a node that is on no list has both
\* links NULL (the resets in rq_pop_*, rq_remove_node and rq_clear).
THEOREM RqUnlinkedIsBare == Spec => []UnlinkedIsBare
  <1>1. RqInv => UnlinkedIsBare
    BY DEF RqInv
  <1> QED BY <1>1, SpecInv, PTL

\* For any number of lists and nodes, the pointer manipulation of rq.c
\* implements the sequences of module Queue, returned values included.
THEOREM RqImplementsQueue == Spec => ImplementsQueue
  <1>1. Init => Abs!QInit
    BY InitInv
  <1>2. RqInv /\ [Next]_vars => [Abs!QNext]_(Abs!qvars)
    BY StepInv
  <1> QED BY <1>1, <1>2, SpecInv, PTL DEF Spec, ImplementsQueue, Abs!QSpec
=============================================================================
