------------------------------ MODULE ProofFacts ------------------------------
(***************************************************************************)
(* The facts that the proofs of the components share: least numbers,       *)
(* induction without an operator parameter, powers of two, and what the    *)
(* queue operators do to the members of a queue and to its freedom from    *)
(* duplicates.                                                             *)
(***************************************************************************)
EXTENDS QueueOps, FiniteSetTheorems, SequenceTheorems, WellFoundedInduction, TLAPS

Less == {p \in Nat \X Nat : p[1] < p[2]}

\* The order of the natural numbers is well founded.
LEMMA LessWellFounded == IsWellFoundedOn(Less, Nat)
  <1>1. IsWellFoundedOn({p \in Nat \X Nat : p[1] < p[2]}, Nat)
    BY NatLessThanWellFounded, Zenon DEF OpToRel
  <1> QED BY <1>1 DEF Less

\* Every set of natural numbers that is not empty has a least element.
LEMMA LeastNumber ==
    ASSUME NEW T, T \subseteq Nat, T # {}
    PROVE  \E x \in T : \A y \in T : x <= y
  <1>1. PICK x \in T : \A y \in T : <<y, x>> \notin Less
    BY LessWellFounded, WFMin
  <1>2. \A y \in T : ~ (y < x)
    BY <1>1 DEF Less
  <1> QED BY <1>1, <1>2

\* A set that contains 0 and the successor of each of its numbers contains
\* every natural number.
LEMMA Induct ==
    ASSUME NEW S, 0 \in S, \A n \in Nat : n \in S => n + 1 \in S
    PROVE  Nat \subseteq S
  <1> SUFFICES ASSUME Nat \ S # {} PROVE FALSE
    OBVIOUS
  <1>1. PICK x \in Nat \ S : \A y \in Nat \ S : x <= y
    BY LeastNumber
  <1>2. x # 0
    OBVIOUS
  <1>3. x - 1 \in Nat /\ x - 1 \notin S
    BY <1>1, <1>2
  <1> QED BY <1>1, <1>3

-----------------------------------------------------------------------------
(* Powers of two, by counting the subsets of 1..k.                         *)

\* A power of two is a positive number, and the next one is twice as large.
LEMMA PowerStep ==
    ASSUME NEW k \in Nat
    PROVE  2^k \in Nat \ {0} /\ 2^(k + 1) = 2 * 2^k /\ 2^0 = 1
  <1> DEFINE A == SUBSET (1..k)
             B == {s \cup {k + 1} : s \in A}
             f == [s \in A |-> s \cup {k + 1}]
  <1>1. IsFiniteSet(1..k) /\ Cardinality(1..k) = k
        /\ IsFiniteSet(1..(k + 1)) /\ Cardinality(1..(k + 1)) = k + 1
    <2>1. IsFiniteSet(1..k) /\ Cardinality(1..k) = IF 1 > k THEN 0 ELSE k - 1 + 1
      BY FS_Interval
    <2>2. k + 1 \in Int
      OBVIOUS
    <2>3. IsFiniteSet(1..(k + 1)) /\ Cardinality(1..(k + 1)) = IF 1 > k + 1 THEN 0 ELSE (k + 1) - 1 + 1
      BY <2>2, FS_Interval
    <2> QED BY <2>1, <2>3
  <1>2. IsFiniteSet(A) /\ Cardinality(A) = 2^k
    BY <1>1, FS_SUBSET, Zenon
  <1>3. Cardinality(SUBSET (1..(k + 1))) = 2^(k + 1)
    BY <1>1, FS_SUBSET, Zenon
  <1>4. \A s \in A : k + 1 \notin s
    OBVIOUS
  <1>5. f \in Bijection(A, B)
    <2>1. \A s, t \in A : f[s] = f[t] => s = t
      BY <1>4
    <2>2. f \in [A -> B] /\ DOMAIN f = A
      OBVIOUS
    <2>3. \A t \in B : \E s \in A : f[s] = t
      OBVIOUS
    <2> HIDE DEF A, B, f
    <2> QED BY <2>1, <2>2, <2>3 DEF Bijection, Injection, Surjection, IsInjective
  <1>6. IsFiniteSet(B) /\ Cardinality(B) = 2^k
    BY <1>2, <1>5, FS_Bijection DEF ExistsBijection
  <1>7. SUBSET (1..(k + 1)) = A \cup B
    <2>1. ASSUME NEW s \in SUBSET (1..(k + 1)) PROVE s \in A \cup B
      <3>1. CASE k + 1 \notin s
        BY <3>1
      <3>2. CASE k + 1 \in s
        <4>1. s \ {k + 1} \in A /\ s = (s \ {k + 1}) \cup {k + 1}
          BY <3>2
        <4> QED BY <4>1
      <3> QED BY <3>1, <3>2
    <2>2. 1..k \subseteq 1..(k + 1) /\ k + 1 \in 1..(k + 1)
      OBVIOUS
    <2>3. A \subseteq SUBSET (1..(k + 1))
      BY <2>2
    <2>4. \A s \in A : s \cup {k + 1} \in SUBSET (1..(k + 1))
      BY <2>2
    <2>5. B \subseteq SUBSET (1..(k + 1))
      BY <2>4
    <2> HIDE DEF A, B
    <2> QED BY <2>1, <2>3, <2>5
  <1>8. A \cap B = {}
    BY <1>4
  <1>9. PICK x : x = 2^k
    OBVIOUS
  <1>10. x \in Nat
    BY <1>2, <1>9, FS_CardinalityType
  <1>11. Cardinality(A \cup B) = x + x
    <2>1. Cardinality(A \cup B) = Cardinality(A) + Cardinality(B) - Cardinality(A \cap B)
      BY <1>2, <1>6, FS_Union, Zenon
    <2>2. Cardinality(A \cap B) = 0
      BY <1>8, FS_EmptySet, Zenon
    <2> HIDE DEF A, B
    <2> QED BY <2>1, <2>2, <1>2, <1>6, <1>9, <1>10
  <1>12. x # 0
    <2>1. {} \in A
      OBVIOUS
    <2> QED BY <2>1, <1>2, <1>9, FS_EmptySet
  <1>13. 2^0 = 1
    OBVIOUS
  <1>14. 2^(k + 1) = x + x
    BY <1>3, <1>7, <1>11, Zenon
  <1>15. x + x = 2 * x /\ x \in Nat \ {0}
    BY <1>10, <1>12
  <1> QED BY <1>9, <1>13, <1>14, <1>15, Zenon

\* The larger of two powers of two is a multiple of the smaller.
LEMMA PowerDivides ==
    ASSUME NEW k \in Nat, NEW o \in Nat, k <= o
    PROVE  \E d \in Nat \ {0} : 2^o = d * 2^k
  <1> DEFINE S == {n \in Nat : \E d \in Nat \ {0} : 2^(k + n) = d * 2^k}
  <1>0. 2^k \in Nat \ {0}
    BY PowerStep
  <1>1. 0 \in S
    <2>1. k + 0 = k /\ 2^k = 1 * 2^k
      BY <1>0
    <2> QED BY <2>1
  <1>2. ASSUME NEW n \in Nat, n \in S PROVE n + 1 \in S
    <2>1. PICK d \in Nat \ {0} : 2^(k + n) = d * 2^k
      BY <1>2
    <2>2. k + n \in Nat /\ (k + n) + 1 = k + (n + 1)
      OBVIOUS
    <2>3. 2^(k + (n + 1)) = 2 * 2^(k + n)
      BY <2>2, PowerStep
    <2>4. 2 * (d * 2^k) = (2 * d) * 2^k /\ 2 * d \in Nat \ {0}
      BY <1>0
    <2>5. 2^(k + (n + 1)) = (2 * d) * 2^k
      BY <2>1, <2>3, <2>4, Zenon
    <2>6. n + 1 \in Nat
      OBVIOUS
    <2> QED BY <2>4, <2>5, <2>6, Zenon
  <1>3. o - k \in S
    <2> HIDE DEF S
    <2> QED BY <1>1, <1>2, Induct
  <1> QED BY <1>3

-----------------------------------------------------------------------------
(* Multiples.                                                              *)

\* What % and \div give for a multiple of n.
LEMMA Multiple ==
    ASSUME NEW n \in Nat \ {0}
    PROVE  /\ \A a \in Nat : a * n \in Nat /\ (a * n) % n = 0 /\ (a * n) \div n = a
           /\ \A p \in Nat : p % n = 0 => p \div n \in Nat /\ p = (p \div n) * n
  <1>1. ASSUME NEW a \in Nat
        PROVE  a * n \in Nat /\ (a * n) % n = 0 /\ (a * n) \div n = a
    OBVIOUS
  <1>2. ASSUME NEW p \in Nat, p % n = 0
        PROVE  p \div n \in Nat /\ p = (p \div n) * n
    BY <1>2
  <1> QED BY <1>1, <1>2

\* Multiples of n are ordered as their factors are.
LEMMA MultipleOrder ==
    ASSUME NEW n \in Nat \ {0}, NEW a \in Nat, NEW b \in Nat
    PROVE  /\ a * n < b * n => a < b
           /\ a <= b => a * n <= b * n
           /\ (a + b) * n = a * n + b * n
  OBVIOUS

-----------------------------------------------------------------------------
(* Queues.                                                                 *)

\* Every member of a queue of S is in S, and only the empty queue has none.
LEMMA MembersBasics ==
    ASSUME NEW S, NEW q \in Seq(S)
    PROVE  /\ Members(q) \subseteq S
           /\ (Members(q) = {}) <=> (q = <<>>)
           /\ Members(<<>>) = {} /\ Unique(<<>>)
  <1>1. Members(q) \subseteq S
    BY DEF Members
  <1>2. ASSUME q # <<>> PROVE Members(q) # {}
    <2>1. 1 \in DOMAIN q
      BY <1>2
    <2> QED BY <2>1 DEF Members
  <1>3. Members(<<>>) = {} /\ Unique(<<>>)
    BY DEF Members, Unique
  <1> QED BY <1>1, <1>2, <1>3

\* rq_push_back adds one member.
LEMMA MembersAppend ==
    ASSUME NEW S, NEW q \in Seq(S), NEW x \in S
    PROVE  /\ Append(q, x) \in Seq(S)
           /\ Members(Append(q, x)) = Members(q) \cup {x}
           /\ Unique(q) /\ x \notin Members(q) => Unique(Append(q, x))
  <1> DEFINE r == Append(q, x)
  <1>1. r \in Seq(S) /\ DOMAIN r = 1..(Len(q) + 1) /\ DOMAIN q = 1..Len(q)
        /\ Len(q) \in Nat /\ r[Len(q) + 1] = x /\ \A i \in 1..Len(q) : r[i] = q[i]
    OBVIOUS
  <1> HIDE DEF r
  <1>2. Members(r) = Members(q) \cup {x}
    BY <1>1 DEF Members
  <1>3. ASSUME Unique(q), x \notin Members(q) PROVE Unique(r)
    <2> SUFFICES ASSUME NEW i \in DOMAIN r, NEW j \in DOMAIN r, r[i] = r[j]
                 PROVE  i = j
      BY DEF Unique
    <2>1. ASSUME NEW k \in 1..Len(q) PROVE q[k] # x
      BY <1>1, <1>3 DEF Members
    <2>2. CASE i = Len(q) + 1 \/ j = Len(q) + 1
      BY <1>1, <2>1, <2>2
    <2>3. CASE i \in 1..Len(q) /\ j \in 1..Len(q)
      BY <1>1, <1>3, <2>3 DEF Unique
    <2> QED BY <1>1, <2>2, <2>3
  <1> QED BY <1>1, <1>2, <1>3 DEF r

\* rq_pop_front removes exactly the head of a duplicate-free queue.
LEMMA MembersTail ==
    ASSUME NEW S, NEW q \in Seq(S), q # <<>>, Unique(q)
    PROVE  /\ Tail(q) \in Seq(S) /\ Unique(Tail(q))
           /\ Head(q) \in Members(q)
           /\ Members(Tail(q)) = Members(q) \ {Head(q)}
           /\ SubSeq(q, 2, Len(q)) = Tail(q)
           /\ q[1] = Head(q) /\ Len(Tail(q)) = Len(q) - 1
  <1> DEFINE r == Tail(q)
  <1>1. /\ r \in Seq(S) /\ DOMAIN r = 1..(Len(q) - 1) /\ DOMAIN q = 1..Len(q)
        /\ Len(q) \in Nat \ {0} /\ Head(q) = q[1] /\ \A i \in 1..(Len(q) - 1) : r[i] = q[i + 1]
        /\ Len(r) = Len(q) - 1
    OBVIOUS
  <1>2. SubSeq(q, 2, Len(q)) = r
    OBVIOUS
  <1> HIDE DEF r
  <1>3. Unique(r)
    <2> SUFFICES ASSUME NEW i \in DOMAIN r, NEW j \in DOMAIN r, r[i] = r[j]
                 PROVE  i = j
      BY DEF Unique
    <2>1. i + 1 \in DOMAIN q /\ j + 1 \in DOMAIN q /\ q[i + 1] = q[j + 1]
      BY <1>1
    <2>2. i + 1 = j + 1
      BY <2>1 DEF Unique
    <2> QED BY <1>1, <2>2
  <1>4. Head(q) \in Members(q)
    BY <1>1 DEF Members
  <1>5. ASSUME NEW u \in Members(r) PROVE u \in Members(q) \ {Head(q)}
    <2>1. PICK i \in DOMAIN r : r[i] = u
      BY DEF Members
    <2>2. i + 1 \in DOMAIN q /\ q[i + 1] = u /\ i + 1 # 1 /\ 1 \in DOMAIN q
      BY <1>1, <2>1
    <2>3. u \in Members(q)
      BY <2>2 DEF Members
    <2>4. q[i + 1] # q[1]
      BY <2>2 DEF Unique
    <2> QED BY <1>1, <2>2, <2>3, <2>4
  <1>6. ASSUME NEW u \in Members(q), u # Head(q) PROVE u \in Members(r)
    <2>1. PICK i \in DOMAIN q : q[i] = u
      BY DEF Members
    <2>2. i - 1 \in DOMAIN r /\ r[i - 1] = u
      BY <1>1, <1>6, <2>1
    <2> QED BY <2>2 DEF Members
  <1> QED BY <1>1, <1>2, <1>3, <1>4, <1>5, <1>6 DEF r

\* A sequence without its position k.
Cut(q, k) == SubSeq(q, 1, k - 1) \o SubSeq(q, k + 1, Len(q))

\* Dropping position k of a sequence closes the gap.
LEMMA CutPosition ==
    ASSUME NEW S, NEW q \in Seq(S), NEW k \in 1..Len(q)
    PROVE  /\ Cut(q, k) \in Seq(S) /\ DOMAIN Cut(q, k) = 1..(Len(q) - 1)
           /\ (\A i \in 1..(Len(q) - 1) : i < k => Cut(q, k)[i] = q[i])
           /\ (\A i \in 1..(Len(q) - 1) : i >= k => Cut(q, k)[i] = q[i + 1])
  <1> DEFINE n == Len(q)
  <1>0. n \in Nat /\ k \in 1..n /\ DOMAIN q = 1..n
    OBVIOUS
  <1> DEFINE a == SubSeq(q, 1, k - 1)
             b == SubSeq(q, k + 1, n)
  <1>1. a \in Seq(S) /\ Len(a) = k - 1 /\ \A i \in 1..(k - 1) : a[i] = q[i]
    BY <1>0
  <1>2. b \in Seq(S) /\ Len(b) = n - k /\ \A i \in 1..(n - k) : b[i] = q[k + i]
    <2>1. k + 1 \in Int /\ n \in Int /\ \A i \in (k + 1)..n : q[i] \in S
      BY <1>0
    <2>2. /\ b \in Seq(S)
          /\ Len(b) = IF k + 1 <= n THEN n - (k + 1) + 1 ELSE 0
          /\ \A i \in 1..(n - (k + 1) + 1) : b[i] = q[(k + 1) + i - 1]
      BY <2>1, SubSeqProperties
    <2> HIDE DEF b, n
    <2>3. \A i \in 1..(n - k) : (k + 1) + i - 1 = k + i
      BY <1>0
    <2>4. n - (k + 1) + 1 = n - k
      BY <1>0
    <2> QED BY <1>0, <2>2, <2>3, <2>4
  <1> HIDE DEF a, b, n
  <1> DEFINE ab == a \o b
  <1>3. /\ ab \in Seq(S) /\ Len(ab) = Len(a) + Len(b)
        /\ \A i \in 1..(Len(a) + Len(b)) :
              ab[i] = IF i <= Len(a) THEN a[i] ELSE b[i - Len(a)]
    BY <1>1, <1>2, ConcatProperties
  <1>4. DOMAIN ab = 1..Len(ab)
    BY <1>3, LenProperties
  <1> HIDE DEF ab
  <1>5. Len(a) + Len(b) = n - 1
    BY <1>0, <1>1, <1>2
  <1>a. \A i \in 1..(n - 1) : ab[i] = IF i <= k - 1 THEN a[i] ELSE b[i - (k - 1)]
    BY <1>1, <1>3, <1>5
  <1>6. ASSUME NEW i \in 1..(n - 1), i < k PROVE ab[i] = q[i]
    <2>1. i \in 1..(k - 1) /\ i <= k - 1
      BY <1>0, <1>6
    <2> QED BY <1>1, <1>a, <2>1
  <1>7. ASSUME NEW i \in 1..(n - 1), i >= k PROVE ab[i] = q[i + 1]
    <2>1. ~(i <= k - 1)
      BY <1>0, <1>7
    <2>2. i - (k - 1) \in 1..(n - k) /\ k + (i - (k - 1)) = i + 1
      BY <1>0, <1>7
    <2> QED BY <1>2, <1>a, <2>1, <2>2
  <1>8. Cut(q, k) = ab
    BY DEF Cut, a, b, ab, n
  <1> QED BY <1>3, <1>4, <1>5, <1>6, <1>7, <1>8 DEF n

\* rq_remove removes exactly its argument from a duplicate-free queue.
LEMMA MembersWithout ==
    ASSUME NEW S, NEW q \in Seq(S), Unique(q), NEW x
    PROVE  /\ Without(q, x) \in Seq(S) /\ Unique(Without(q, x))
           /\ Members(Without(q, x)) = Members(q) \ {x}
  <1>1. CASE x \notin Members(q)
    BY <1>1 DEF Without
  <1>2. CASE x \in Members(q)
    <2> DEFINE n == Len(q)
               k == CHOOSE i \in DOMAIN q : q[i] = x /\ \A j \in 1..(i-1) : q[j] # x
               r == SubSeq(q, 1, k - 1) \o SubSeq(q, k + 1, n)
    <2>0. n \in Nat /\ DOMAIN q = 1..n
      OBVIOUS
    <2>1. \E i \in DOMAIN q : q[i] = x /\ \A j \in 1..(i-1) : q[j] # x
      <3>1. PICK i \in DOMAIN q : q[i] = x
        BY <1>2 DEF Members
      <3>2. \A j \in 1..(i-1) : q[j] # x
        BY <2>0, <3>1 DEF Unique
      <3> QED BY <3>1, <3>2
    <2>2. k \in 1..n /\ q[k] = x
      BY <2>0, <2>1
    <2> HIDE DEF k
    <2>3. r \in Seq(S) /\ DOMAIN r = 1..(n - 1)
          /\ (\A i \in 1..(n - 1) : i < k => r[i] = q[i])
          /\ (\A i \in 1..(n - 1) : i >= k => r[i] = q[i + 1])
      <3>1. r = Cut(q, k)
        BY DEF Cut
      <3> HIDE DEF r
      <3> QED BY <2>2, <3>1, CutPosition
    <2>4. Without(q, x) = r
      BY <1>2 DEF Without, k
    <2> HIDE DEF r, n
    <2>5. Unique(r)
      <3> SUFFICES ASSUME NEW i \in 1..(n-1), NEW j \in 1..(n-1), r[i] = r[j]
                   PROVE  i = j
        BY <2>3 DEF Unique
      <3> DEFINE f(m) == IF m < k THEN m ELSE m + 1
      <3>1. r[i] = q[f(i)] /\ r[j] = q[f(j)] /\ f(i) \in DOMAIN q /\ f(j) \in DOMAIN q
        BY <2>0, <2>2, <2>3
      <3>2. f(i) = f(j)
        BY <3>1 DEF Unique
      <3> QED BY <2>0, <2>2, <3>2
    <2>6. ASSUME NEW u \in Members(r) PROVE u \in Members(q) \ {x}
      <3>1. PICK i \in 1..(n - 1) : r[i] = u
        BY <2>3 DEF Members
      <3>2. PICK j \in 1..n : q[j] = u /\ j # k
        BY <2>0, <2>2, <2>3, <3>1
      <3>3. q[j] # q[k]
        BY <2>0, <2>2, <3>2 DEF Unique
      <3> QED BY <2>0, <2>2, <3>2, <3>3 DEF Members
    <2>7. ASSUME NEW u \in Members(q), u # x PROVE u \in Members(r)
      <3>1. PICK j \in 1..n : q[j] = u
        BY <2>0 DEF Members
      <3>2. PICK i \in 1..(n - 1) : r[i] = u
        <4>1. CASE j < k
          BY <2>0, <2>2, <2>3, <2>7, <3>1, <4>1
        <4>2. CASE j > k
          <5>1. j - 1 \in 1..(n - 1) /\ j - 1 >= k /\ (j - 1) + 1 = j
            BY <2>0, <2>2, <4>2
          <5> QED BY <2>3, <3>1, <5>1
        <4> QED BY <2>0, <2>2, <2>7, <3>1, <4>1, <4>2
      <3> QED BY <2>3, <3>2 DEF Members
    <2> QED BY <2>3, <2>4, <2>5, <2>6, <2>7
  <1> QED BY <1>1, <1>2

\* rq_push_front and free_list_push add one member, too.
LEMMA MembersPush ==
    ASSUME NEW S, NEW q \in Seq(S), NEW x \in S, Unique(q), x \notin Members(q)
    PROVE  /\ <<x>> \o q \in Seq(S) /\ Unique(<<x>> \o q)
           /\ Members(<<x>> \o q) = Members(q) \cup {x}
  <1> DEFINE r == <<x>> \o q
  <1>1. /\ r \in Seq(S) /\ Len(q) \in Nat /\ Len(r) = Len(q) + 1
        /\ DOMAIN q = 1..Len(q) /\ DOMAIN r = 1..(Len(q) + 1)
    OBVIOUS
  <1>2. r[1] = x /\ \A i \in 1..Len(q) : r[i + 1] = q[i]
    OBVIOUS
  <1>3. \A j \in DOMAIN r : j = 1 \/ (j - 1 \in 1..Len(q) /\ r[j] = q[j - 1])
    BY <1>1, <1>2
  <1> HIDE DEF r
  <1>4. Members(r) = Members(q) \cup {x}
    <2>1. \A y \in Members(r) : y \in Members(q) \cup {x}
      BY <1>1, <1>2, <1>3 DEF Members
    <2>2. x \in Members(r)
      BY <1>1, <1>2 DEF Members
    <2>3. ASSUME NEW i \in 1..Len(q) PROVE q[i] \in Members(r)
      <3>1. i + 1 \in DOMAIN r /\ r[i + 1] = q[i]
        BY <1>1, <1>2
      <3> QED BY <3>1 DEF Members
    <2>4. \A y \in Members(q) : y \in Members(r)
      BY <1>1, <2>3 DEF Members
    <2> QED BY <2>1, <2>2, <2>4
  <1>5. Unique(r)
    <2> SUFFICES ASSUME NEW i \in DOMAIN r, NEW j \in DOMAIN r, r[i] = r[j] PROVE i = j
      BY DEF Unique
    <2>1. \A k \in 1..Len(q) : q[k] # x
      BY <1>1 DEF Members
    <2>2. CASE i = 1
      BY <1>1, <1>2, <1>3, <2>1, <2>2
    <2>3. CASE i # 1
      <3>1. i - 1 \in 1..Len(q) /\ r[i] = q[i - 1]
        BY <1>3, <2>3
      <3>2. j # 1
        BY <1>2, <2>1, <3>1
      <3>3. j - 1 \in 1..Len(q) /\ r[j] = q[j - 1]
        BY <1>3, <3>2
      <3>4. i - 1 = j - 1
        BY <1>1, <3>1, <3>3 DEF Unique
      <3> QED BY <3>4, <1>1
    <2> QED BY <2>2, <2>3
  <1> QED BY <1>1, <1>4, <1>5 DEF r
=============================================================================
