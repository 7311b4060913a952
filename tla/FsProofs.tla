------------------------------ MODULE FsProofs ------------------------------
(***************************************************************************)
(* Proofs about Fs.tla for any threads, paths and archives.                *)
(***************************************************************************)
EXTENDS Fs, ProofFacts

\* A sequence, whatever it holds.
List(q) == q \in Seq(Members(q))

NodeFields  == {"vfs", "parent", "name", "type", "inode", "refcount", "mounted", "kids",
                "size", "data"}
MountFields == {"root", "covered", "next_inode", "node_count", "byte_count"}

\* The tables of nodes and of file systems.
Form(s) ==
    /\ DOMAIN s = {"node", "vfs", "types", "root"} /\ List(s.node) /\ List(s.vfs)
    /\ \A v \in DOMAIN s.node : DOMAIN s.node[v] = NodeFields /\ s.node[v].refcount \in Int
    /\ \A f \in DOMAIN s.vfs : DOMAIN s.vfs[f] = MountFields
    /\ s.root \in DOMAIN s.node /\ "tmpfs" \in s.types

\* The children of d.
KidsOk(s, d) == LET kids == s.node[d].kids IN
    /\ kids \in Seq(DOMAIN s.node)
    /\ \A i, j \in DOMAIN kids : s.node[kids[i]].name = s.node[kids[j]].name => i = j
    /\ \A i \in DOMAIN kids : s.node[kids[i]].parent = d
    /\ kids # <<>> => IsDir(s, d)

\* The parent of v, and the file system it is covered by, whose root is newer.
NodeOk(s, v) ==
    /\ LET u == s.node[v].parent IN
       IF u = Null THEN \E f \in DOMAIN s.vfs : s.vfs[f].root = v
       ELSE /\ u \in DOMAIN s.node /\ u < v /\ v \in Members(s.node[u].kids)
            /\ s.node[u].vfs = s.node[v].vfs
    /\ s.node[v].vfs \in DOMAIN s.vfs
    /\ s.node[v].mounted # Null => /\ s.node[v].mounted \in DOMAIN s.vfs
                                   /\ s.vfs[s.node[v].mounted].root > v

Tree(s) ==
    /\ \A v \in DOMAIN s.node : KidsOk(s, v) /\ NodeOk(s, v)
    /\ \A f \in DOMAIN s.vfs : s.vfs[f].root \in DOMAIN s.node
    /\ \A f \in DOMAIN s.vfs : s.vfs[f].covered \in DOMAIN s.node \cup {Null}

Shape(s) == Form(s) /\ Tree(s)

-----------------------------------------------------------------------------
(* Sequences.                                                              *)

\* The positions of a sequence.
LEMMA ListBasics ==
    ASSUME NEW q, List(q)
    PROVE  Len(q) \in Nat /\ DOMAIN q = 1..Len(q) /\ \A i \in DOMAIN q : q[i] \in Members(q)
  BY DEF List, Members

\* A sequence by its positions.
LEMMA ListIntro ==
    ASSUME NEW n \in Nat, NEW q, q = [i \in 1..n |-> q[i]]
    PROVE  List(q) /\ Len(q) = n
  <1>1. DOMAIN q = 1..n
    OBVIOUS
  <1>2. \A i \in 1..n : q[i] \in Members(q)
    BY <1>1 DEF Members
  <1>3. q \in Seq(Members(q))
    BY <1>2
  <1> QED BY <1>1, <1>3 DEF List

\* A sequence over a set.
LEMMA ListOf ==
    ASSUME NEW S, NEW q \in Seq(S)
    PROVE  List(q) /\ DOMAIN q = 1..Len(q) /\ Len(q) \in Nat
  <1>1. PICK n \in Nat : n = Len(q) /\ DOMAIN q = 1..n
    OBVIOUS
  <1>2. \A i \in 1..n : q[i] \in Members(q)
    BY <1>1 DEF Members
  <1>3. q \in [1..n -> S]
    BY <1>1
  <1>4. q \in [1..n -> Members(q)]
    BY <1>2, <1>3
  <1>5. q \in Seq(Members(q))
    BY <1>4
  <1> QED BY <1>1, <1>5 DEF List

\* Writing one entry.
LEMMA ListExcept ==
    ASSUME NEW q, List(q), NEW v \in DOMAIN q, NEW x, NEW r, r = [q EXCEPT ![v] = x]
    PROVE  /\ List(r) /\ DOMAIN r = DOMAIN q /\ Len(r) = Len(q) /\ r[v] = x
           /\ \A u \in DOMAIN q \ {v} : r[u] = q[u]
  <1>1. PICK n \in Nat : n = Len(q) /\ DOMAIN q = 1..n
    BY ListBasics
  <1>2. r = [i \in 1..n |-> IF i = v THEN x ELSE q[i]]
    BY <1>1
  <1>3. r = [i \in 1..n |-> r[i]] /\ DOMAIN r = 1..n
    BY <1>2
  <1>4. List(r) /\ Len(r) = n
    BY <1>3, ListIntro
  <1> QED BY <1>1, <1>2, <1>4

\* A new entry at the end.
LEMMA ListAppend ==
    ASSUME NEW q, List(q), NEW x, NEW r, r = Append(q, x)
    PROVE  /\ List(r) /\ Len(q) \in Nat /\ Len(r) = Len(q) + 1 /\ r[Len(q) + 1] = x
           /\ DOMAIN r = DOMAIN q \cup {Len(q) + 1} /\ Len(q) + 1 \notin DOMAIN q
           /\ \A u \in DOMAIN q : r[u] = q[u]
  <1>1. PICK n \in Nat : n = Len(q) /\ DOMAIN q = 1..n
    BY ListBasics
  <1>2. PICK S : S = Members(q) \cup {x}
    OBVIOUS
  <1>3. q \in Seq(S) /\ x \in S
    BY <1>1, <1>2, ListBasics DEF List
  <1>4. r \in Seq(S) /\ Len(r) = n + 1 /\ r[n + 1] = x /\ \A u \in 1..n : r[u] = q[u]
    BY <1>1, <1>3
  <1>5. DOMAIN r = 1..(n + 1)
    BY <1>4
  <1>6. List(r)
    BY <1>4, ListOf
  <1>7. 1..(n + 1) = (1..n) \cup {n + 1} /\ n + 1 \notin 1..n
    OBVIOUS
  <1> QED BY <1>1, <1>4, <1>5, <1>6, <1>7

\* A new entry at the front.
LEMMA ListPush ==
    ASSUME NEW S, NEW q \in Seq(S), NEW x \in S, NEW r, r = <<x>> \o q
    PROVE  /\ r \in Seq(S) /\ Len(r) = Len(q) + 1 /\ r # <<>>
           /\ DOMAIN r = 1..(Len(q) + 1) /\ r[1] = x
           /\ \A i \in 1..(Len(q) + 1) : i # 1 => i - 1 \in DOMAIN q /\ r[i] = q[i - 1]
           /\ \A i \in DOMAIN q : i + 1 \in DOMAIN r /\ r[i + 1] = q[i]
  <1>1. PICK n \in Nat : n = Len(q) /\ DOMAIN q = 1..n
    OBVIOUS
  <1>2. /\ r \in Seq(S) /\ Len(r) = n + 1 /\ r[1] = x
        /\ \A i \in 1..(n + 1) : i # 1 => r[i] = q[i - 1]
    BY <1>1
  <1>3. DOMAIN r = 1..(n + 1)
    BY <1>2
  <1>4. \A i \in 1..(n + 1) : i # 1 => i - 1 \in 1..n
    OBVIOUS
  <1>5. \A i \in 1..n : i + 1 \in 1..(n + 1) /\ i + 1 # 1 /\ (i + 1) - 1 = i
    OBVIOUS
  <1>6. \A i \in 1..n : r[i + 1] = q[i]
    BY <1>2, <1>5
  <1>7. r # <<>>
    BY <1>2
  <1> QED BY <1>1, <1>2, <1>3, <1>4, <1>5, <1>6, <1>7

-----------------------------------------------------------------------------
(* Calls that leave the tree alone.                                        *)

\* Two nodes have the same place in the tree.
SamePlace(n, k) ==
    /\ n.vfs = k.vfs /\ n.parent = k.parent /\ n.name = k.name /\ n.inode = k.inode
    /\ n.type = k.type /\ n.kids = k.kids /\ n.mounted = k.mounted

\* So do the file systems of two tables.
SameMounts(q, r) ==
    /\ List(r) /\ DOMAIN r = DOMAIN q
    /\ \A f \in DOMAIN q : /\ DOMAIN r[f] = MountFields
                           /\ r[f].root = q[f].root /\ r[f].covered = q[f].covered

\* t has the nodes and mounts of s.
Kin(s, t) ==
    /\ DOMAIN t = DOMAIN s /\ t.types = s.types /\ t.root = s.root
    /\ List(t.node) /\ DOMAIN t.node = DOMAIN s.node
    /\ \A v \in DOMAIN s.node : /\ DOMAIN t.node[v] = NodeFields /\ t.node[v].refcount \in Int
                                /\ SamePlace(s.node[v], t.node[v])
    /\ SameMounts(s.vfs, t.vfs)

\* Then it is a tree as well.
LEMMA KinShape ==
    ASSUME NEW s, NEW t, Shape(s), Kin(s, t)
    PROVE  Shape(t)
  <1>1. Form(t)
    BY DEF Shape, Form, Kin, SameMounts
  <1>2. DOMAIN t.node = DOMAIN s.node /\ DOMAIN t.vfs = DOMAIN s.vfs
    BY DEF Kin, SameMounts
  <1>3. \A v \in DOMAIN s.node :
          /\ t.node[v].vfs = s.node[v].vfs /\ t.node[v].parent = s.node[v].parent
          /\ t.node[v].name = s.node[v].name /\ t.node[v].type = s.node[v].type
          /\ t.node[v].kids = s.node[v].kids /\ t.node[v].mounted = s.node[v].mounted
    BY DEF Kin, SamePlace
  <1>4. \A f \in DOMAIN s.vfs : /\ t.vfs[f].root = s.vfs[f].root
                                /\ t.vfs[f].covered = s.vfs[f].covered
    BY DEF Kin, SameMounts
  <1>5. ASSUME NEW v \in DOMAIN s.node
        PROVE  KidsOk(t, v)
    <2>1. KidsOk(s, v)
      BY DEF Shape, Tree
    <2>2. PICK kids : kids = s.node[v].kids
      OBVIOUS
    <2>3. /\ kids \in Seq(DOMAIN s.node)
          /\ \A i, j \in DOMAIN kids : s.node[kids[i]].name = s.node[kids[j]].name => i = j
          /\ \A i \in DOMAIN kids : s.node[kids[i]].parent = v
          /\ kids # <<>> => IsDir(s, v)
      BY <2>1, <2>2 DEF KidsOk
    <2>4. \A i \in DOMAIN kids : kids[i] \in DOMAIN s.node
      BY <2>3
    <2>5. /\ \A i, j \in DOMAIN kids : t.node[kids[i]].name = t.node[kids[j]].name => i = j
          /\ \A i \in DOMAIN kids : t.node[kids[i]].parent = v
      BY <1>3, <2>3, <2>4
    <2>6. kids # <<>> => IsDir(t, v)
      BY <1>3, <2>3 DEF IsDir
    <2> QED BY <1>2, <1>3, <2>2, <2>3, <2>5, <2>6 DEF KidsOk
  <1>6. ASSUME NEW v \in DOMAIN s.node
        PROVE  NodeOk(t, v)
    <2>1. NodeOk(s, v)
      BY DEF Shape, Tree
    <2>2. PICK u : u = s.node[v].parent
      OBVIOUS
    <2>3. CASE u = Null
      BY <1>2, <1>3, <1>4, <2>1, <2>2, <2>3 DEF NodeOk
    <2>4. CASE u # Null
      <3>1. /\ u \in DOMAIN s.node /\ u < v /\ v \in Members(s.node[u].kids)
            /\ s.node[u].vfs = s.node[v].vfs
        BY <2>1, <2>2, <2>4 DEF NodeOk
      <3>2. /\ u \in DOMAIN t.node /\ u < v /\ v \in Members(t.node[u].kids)
            /\ t.node[u].vfs = t.node[v].vfs
        BY <1>2, <1>3, <3>1
      <3> QED BY <1>2, <1>3, <1>4, <2>1, <2>2, <2>4, <3>2 DEF NodeOk
    <2> QED BY <2>3, <2>4
  <1> QED BY <1>1, <1>2, <1>4, <1>5, <1>6 DEF Shape, Tree

\* A new state of one node and of the counters of one file system.
LEMMA OneNode ==
    ASSUME NEW s, Form(s), NEW v \in DOMAIN s.node, NEW n, NEW t,
           DOMAIN n = NodeFields, n.refcount \in Int, SamePlace(s.node[v], n),
           DOMAIN t = DOMAIN s, t.types = s.types, t.root = s.root,
           t.node = [s.node EXCEPT ![v] = n],
           SameMounts(s.vfs, t.vfs)
    PROVE  Kin(s, t) /\ t.node[v] = n /\ \A u \in DOMAIN s.node \ {v} : t.node[u] = s.node[u]
  <1>1. PICK q, r : q = s.node /\ r = t.node
    OBVIOUS
  <1>2. List(q) /\ v \in DOMAIN q /\ r = [q EXCEPT ![v] = n]
    BY <1>1 DEF Form
  <1>3. List(r) /\ DOMAIN r = DOMAIN q /\ r[v] = n /\ \A u \in DOMAIN q \ {v} : r[u] = q[u]
    BY <1>2, ListExcept
  <1>4. \A u \in DOMAIN q : SamePlace(q[u], r[u])
    <2>1. \A u \in DOMAIN q \ {v} : SamePlace(q[u], r[u])
      BY <1>3 DEF SamePlace
    <2> QED BY <1>1, <1>3, <2>1
  <1>5. \A u \in DOMAIN q : DOMAIN r[u] = NodeFields /\ r[u].refcount \in Int
    BY <1>1, <1>3 DEF Form
  <1> QED BY <1>1, <1>3, <1>4, <1>5 DEF Kin

\* The bytes of the files of s are those of t.
SameBytes(s, t) ==
    \A u \in DOMAIN s.node : t.node[u].size = s.node[u].size /\ t.node[u].data = s.node[u].data

\* Nodes keep their file system and number.
SameFs(s, t) == \A u \in DOMAIN s.node : /\ t.node[u].vfs = s.node[u].vfs
                                         /\ t.node[u].inode = s.node[u].inode

\* The reference count of v changes by d, and nothing else.
Moved(s, t, v, d) ==
    /\ Kin(s, t) /\ SameBytes(s, t) /\ t.node[v].refcount = s.node[v].refcount + d
    /\ \A u \in DOMAIN s.node \ {v} : t.node[u].refcount = s.node[u].refcount
    /\ t.vfs = s.vfs

\* vnode_hold and vnode_release.
LEMMA HoldMoves ==
    ASSUME NEW s, Shape(s), NEW v \in DOMAIN s.node
    PROVE  Moved(s, vnode_hold(s, v), v, 1) /\ Moved(s, vnode_release(s, v), v, -1)
  <1>1. Form(s)
    BY DEF Shape
  <1>2. PICK n, k : n = [s.node[v] EXCEPT !.refcount = @ + 1] /\ k = [s.node[v] EXCEPT !.refcount = @ - 1]
    OBVIOUS
  <1>3. DOMAIN s.node[v] = NodeFields /\ s.node[v].refcount \in Int
    BY <1>1 DEF Form
  <1>4. /\ DOMAIN n = NodeFields /\ n.refcount = s.node[v].refcount + 1 /\ SamePlace(s.node[v], n)
        /\ DOMAIN k = NodeFields /\ k.refcount = s.node[v].refcount - 1 /\ SamePlace(s.node[v], k)
        /\ n.size = s.node[v].size /\ n.data = s.node[v].data
        /\ k.size = s.node[v].size /\ k.data = s.node[v].data
    BY <1>2, <1>3 DEF SamePlace, NodeFields
  <1>5. PICK t, w : t = vnode_hold(s, v) /\ w = vnode_release(s, v)
    OBVIOUS
  <1>6. /\ DOMAIN t = DOMAIN s /\ t.types = s.types /\ t.root = s.root /\ t.vfs = s.vfs
        /\ t.node = [s.node EXCEPT ![v] = n]
    BY <1>1, <1>2, <1>5 DEF vnode_hold, Form
  <1>7. /\ DOMAIN w = DOMAIN s /\ w.types = s.types /\ w.root = s.root /\ w.vfs = s.vfs
        /\ w.node = [s.node EXCEPT ![v] = k]
    BY <1>1, <1>2, <1>5 DEF vnode_release, Form
  <1>8. n.refcount \in Int /\ k.refcount \in Int
    BY <1>3, <1>4
  <1>9. SameMounts(s.vfs, t.vfs) /\ SameMounts(s.vfs, w.vfs)
    BY <1>1, <1>6, <1>7 DEF Form, SameMounts
  <1>10. Kin(s, t) /\ t.node[v] = n /\ \A u \in DOMAIN s.node \ {v} : t.node[u] = s.node[u]
    BY <1>1, <1>4, <1>6, <1>8, <1>9, OneNode
  <1>11. Kin(s, w) /\ w.node[v] = k /\ \A u \in DOMAIN s.node \ {v} : w.node[u] = s.node[u]
    BY <1>1, <1>4, <1>7, <1>8, <1>9, OneNode
  <1>12. Moved(s, t, v, 1)
    <2>1. SameBytes(s, t)
      BY <1>4, <1>10 DEF SameBytes
    <2> QED BY <1>4, <1>6, <1>10, <2>1 DEF Moved
  <1>13. Moved(s, w, v, -1)
    <2>1. w.node[v].refcount = s.node[v].refcount + (-1)
      BY <1>3, <1>4, <1>11
    <2>2. SameBytes(s, w)
      BY <1>4, <1>11 DEF SameBytes
    <2> QED BY <1>7, <1>11, <2>1, <2>2 DEF Moved
  <1> QED BY <1>5, <1>12, <1>13

\* The nodes of t have the places and the references of those of s.
Filed(s, t) ==
    Kin(s, t) /\ \A u \in DOMAIN s.node : t.node[u].refcount = s.node[u].refcount

\* Nor do their bytes change, nor the counters.
Still(s, t) == Filed(s, t) /\ SameBytes(s, t) /\ t.vfs = s.vfs

\* A reference that is taken and given back.
LEMMA MovedBack ==
    ASSUME NEW s, NEW t, NEW w, NEW v \in DOMAIN s.node, Form(s), Moved(s, t, v, 1), Moved(t, w, v, -1)
    PROVE  Still(s, w)
  <1>1. PICK N : N = DOMAIN s.node
    OBVIOUS
  <1>2. DOMAIN t.node = N /\ DOMAIN w.node = N
    BY <1>1 DEF Moved, Kin
  <1>3. \A u \in N : SamePlace(s.node[u], w.node[u])
    BY <1>1, <1>2 DEF Moved, Kin, SamePlace
  <1>4. SameMounts(s.vfs, w.vfs)
    BY DEF Moved, Kin, SameMounts
  <1>5. Kin(s, w)
    BY <1>1, <1>2, <1>3, <1>4 DEF Moved, Kin
  <1>6. SameBytes(s, w)
    BY <1>1, <1>2 DEF Moved, SameBytes
  <1>7. \A u \in N : w.node[u].refcount = s.node[u].refcount
    <2>1. PICK a, b, c : a = s.node[v].refcount /\ b = t.node[v].refcount /\ c = w.node[v].refcount
      OBVIOUS
    <2>2. a \in Int /\ b = a + 1 /\ c = b + (-1)
      BY <2>1 DEF Form, Moved
    <2>3. a = c
      BY <2>2
    <2>4. \A u \in N : u # v => t.node[u].refcount = s.node[u].refcount /\ w.node[u].refcount = t.node[u].refcount
      BY <1>1, <1>2 DEF Moved
    <2> QED BY <2>1, <2>3, <2>4
  <1>8. w.vfs = s.vfs
    BY DEF Moved
  <1> QED BY <1>1, <1>5, <1>6, <1>7, <1>8 DEF Still, Filed

\* Nothing happens.
LEMMA StillSelf ==
    ASSUME NEW s, Form(s)
    PROVE  Still(s, s)
  BY DEF Form, Still, Filed, SameBytes, Kin, SamePlace, SameMounts

\* File system f is charged b bytes in all.
Billed(q, r, f, b) ==
    /\ r[f].byte_count = b
    /\ r[f].next_inode = q[f].next_inode /\ r[f].node_count = q[f].node_count
    /\ DOMAIN r = DOMAIN q /\ \A g \in DOMAIN q \ {f} : r[g] = q[g]

\* A new byte_count.
LEMMA BytesKept ==
    ASSUME NEW s, Shape(s), NEW f \in DOMAIN s.vfs, NEW x, NEW t,
           t = [s.vfs EXCEPT ![f].byte_count = x]
    PROVE  SameMounts(s.vfs, t) /\ Billed(s.vfs, t, f, x)
  <1>1. List(s.vfs) /\ \A g \in DOMAIN s.vfs : DOMAIN s.vfs[g] = MountFields
    BY DEF Shape, Form
  <1>2. PICK n : n = [s.vfs[f] EXCEPT !.byte_count = x]
    OBVIOUS
  <1>3. /\ DOMAIN n = MountFields /\ n.root = s.vfs[f].root /\ n.byte_count = x
        /\ n.covered = s.vfs[f].covered
        /\ n.next_inode = s.vfs[f].next_inode /\ n.node_count = s.vfs[f].node_count
    BY <1>1, <1>2 DEF MountFields
  <1>4. t = [s.vfs EXCEPT ![f] = n]
    BY <1>1, <1>2
  <1>5. PICK q : q = s.vfs
    OBVIOUS
  <1>6. List(t) /\ DOMAIN t = DOMAIN q /\ t[f] = n /\ \A g \in DOMAIN q \ {f} : t[g] = q[g]
    BY <1>1, <1>4, <1>5, ListExcept
  <1> QED BY <1>1, <1>3, <1>5, <1>6 DEF SameMounts, Billed

\* Only node v changes, to n.
Edited(s, t, v, n) == t.node[v] = n /\ \A u \in DOMAIN s.node \ {v} : t.node[u] = s.node[u]

\* O_TRUNC.
LEMMA TruncFiled ==
    ASSUME NEW s, Shape(s), NEW v \in DOMAIN s.node, NEW bytes, NEW t, t = TruncNode(s, v, bytes)
    PROVE  /\ Filed(s, t) /\ Edited(s, t, v, [s.node[v] EXCEPT !.size = 0])
           /\ Billed(s.vfs, t.vfs, s.node[v].vfs, bytes - s.node[v].size)
  <1>1. Form(s) /\ s.node[v].vfs \in DOMAIN s.vfs
    BY DEF Shape, Tree, NodeOk
  <1>2. PICK f, x, n : /\ f = s.node[v].vfs /\ x = bytes - s.node[v].size
                       /\ n = [s.node[v] EXCEPT !.size = 0]
    OBVIOUS
  <1>3. DOMAIN s.node[v] = NodeFields /\ s.node[v].refcount \in Int
    BY <1>1 DEF Form
  <1>4. DOMAIN n = NodeFields /\ n.refcount = s.node[v].refcount /\ SamePlace(s.node[v], n)
    BY <1>2, <1>3 DEF SamePlace, NodeFields
  <1>5. /\ DOMAIN t = DOMAIN s /\ t.types = s.types /\ t.root = s.root
        /\ t.vfs = [s.vfs EXCEPT ![f].byte_count = x]
        /\ t.node = [s.node EXCEPT ![v] = n]
    BY <1>1, <1>2 DEF TruncNode, Form
  <1>6. SameMounts(s.vfs, t.vfs) /\ Billed(s.vfs, t.vfs, f, x)
    <2>1. PICK q : q = t.vfs
      OBVIOUS
    <2>2. f \in DOMAIN s.vfs /\ q = [s.vfs EXCEPT ![f].byte_count = x]
      BY <1>1, <1>2, <1>5, <2>1
    <2>3. SameMounts(s.vfs, q) /\ Billed(s.vfs, q, f, x)
      BY <2>2, BytesKept
    <2> QED BY <2>1, <2>3
  <1>7. n.refcount \in Int
    BY <1>3, <1>4
  <1>8. Kin(s, t) /\ t.node[v] = n /\ \A u \in DOMAIN s.node \ {v} : t.node[u] = s.node[u]
    BY <1>1, <1>4, <1>5, <1>6, <1>7, OneNode
  <1>9. Edited(s, t, v, n)
    BY <1>8 DEF Edited
  <1> QED BY <1>2, <1>4, <1>6, <1>8, <1>9 DEF Filed

\* A write.
Wrote(n, off, size, byte) ==
    [tmpfs_resize_node(n, off + size) EXCEPT !.data = [i \in DOMAIN @ |->
        IF i > off /\ i <= off + size THEN byte ELSE @[i]]]

LEMMA WriteFiled ==
    ASSUME NEW s, Shape(s), NEW v \in DOMAIN s.node, NEW off, NEW size, NEW byte, NEW bytes,
           NEW t, t = WriteNode(s, v, off, size, byte, bytes)
    PROVE  /\ Filed(s, t) /\ Edited(s, t, v, Wrote(s.node[v], off, size, byte))
           /\ Billed(s.vfs, t.vfs, s.node[v].vfs, bytes + (off + size - s.node[v].size))
  <1>1. Form(s) /\ s.node[v].vfs \in DOMAIN s.vfs
    BY DEF Shape, Tree, NodeOk
  <1>2. PICK f, x, r : /\ f = s.node[v].vfs /\ x = bytes + (off + size - s.node[v].size)
                       /\ r = tmpfs_resize_node(s.node[v], off + size)
    OBVIOUS
  <1>3. PICK n : n = [r EXCEPT !.data = [i \in DOMAIN @ |->
                         IF i > off /\ i <= off + size THEN byte ELSE @[i]]]
    OBVIOUS
  <1>4. DOMAIN s.node[v] = NodeFields /\ s.node[v].refcount \in Int
    BY <1>1 DEF Form
  <1>5. DOMAIN r = NodeFields /\ r.refcount = s.node[v].refcount /\ SamePlace(s.node[v], r)
    <2>1. PICK d, e : r = [s.node[v] EXCEPT !.size = d, !.data = e]
      BY <1>2 DEF tmpfs_resize_node
    <2> QED BY <1>4, <2>1 DEF SamePlace, NodeFields
  <1>6. DOMAIN n = NodeFields /\ n.refcount = s.node[v].refcount /\ SamePlace(s.node[v], n)
    <2>1. PICK e : n = [r EXCEPT !.data = e]
      BY <1>3
    <2> QED BY <1>5, <2>1 DEF SamePlace, NodeFields
  <1>7. t = [s EXCEPT !.node[v] = n, !.vfs[f].byte_count = x]
    BY <1>2, <1>3 DEF WriteNode
  <1>8. /\ DOMAIN t = DOMAIN s /\ t.types = s.types /\ t.root = s.root
        /\ t.vfs = [s.vfs EXCEPT ![f].byte_count = x]
        /\ t.node = [s.node EXCEPT ![v] = n]
    BY <1>1, <1>7 DEF Form
  <1>9. SameMounts(s.vfs, t.vfs) /\ Billed(s.vfs, t.vfs, f, x)
    <2>1. PICK q : q = t.vfs
      OBVIOUS
    <2>2. f \in DOMAIN s.vfs /\ q = [s.vfs EXCEPT ![f].byte_count = x]
      BY <1>1, <1>2, <1>8, <2>1
    <2>3. SameMounts(s.vfs, q) /\ Billed(s.vfs, q, f, x)
      BY <2>2, BytesKept
    <2> QED BY <2>1, <2>3
  <1>10. n.refcount \in Int
    BY <1>4, <1>6
  <1>11. Kin(s, t) /\ t.node[v] = n /\ \A u \in DOMAIN s.node \ {v} : t.node[u] = s.node[u]
    BY <1>1, <1>6, <1>8, <1>9, <1>10, OneNode
  <1>12. n = Wrote(s.node[v], off, size, byte)
    BY <1>2, <1>3 DEF Wrote
  <1>13. Edited(s, t, v, n)
    BY <1>11 DEF Edited
  <1> QED BY <1>2, <1>6, <1>9, <1>11, <1>12, <1>13 DEF Filed

-----------------------------------------------------------------------------
(* The bytes of a file.                                                    *)

\* The doubling loop, by its turns.
Grows(size, g) == [c \in Nat |-> IF c >= size THEN c ELSE g[2 * c]]

\* It ends with a capacity that is enough.
LEMMA DoubledOk ==
    ASSUME NEW cap \in Nat, NEW size \in Nat
    PROVE  Doubled(cap, size) \in Nat /\ Doubled(cap, size) >= size
  <1> DEFINE To(n, g) == \A c \in Nat \ {0} : c + n >= size =>
                            g[c] = IF c >= size THEN c ELSE g[2 * c]
             S == {n \in Nat : \E g : To(n, g)}
  <1>1. 0 \in S
    <2>1. PICK g : g = [c \in Nat |-> c]
      OBVIOUS
    <2>2. To(0, g)
      BY <2>1
    <2> QED BY <2>2
  <1>2. ASSUME NEW n \in Nat, n \in S PROVE n + 1 \in S
    <2>1. PICK g : To(n, g)
      BY <1>2
    <2>2. PICK h : h = [c \in Nat |-> IF c + n >= size THEN g[c] ELSE g[2 * c]]
      OBVIOUS
    <2>3. ASSUME NEW c \in Nat \ {0}, c + (n + 1) >= size
          PROVE  h[c] = IF c >= size THEN c ELSE h[2 * c]
      <3>1. PICK d \in Nat \ {0} : d = 2 * c /\ d >= c + 1
        OBVIOUS
      <3>2. d + n >= size /\ h[d] = g[d]
        BY <2>2, <2>3, <3>1
      <3>3. CASE c + n >= size
        <4>1. h[c] = g[c] /\ g[c] = IF c >= size THEN c ELSE g[d]
          BY <2>1, <2>2, <3>1, <3>3
        <4> QED BY <3>1, <3>2, <4>1
      <3>4. CASE ~(c + n >= size)
        <4>1. h[c] = g[d] /\ ~(c >= size)
          BY <2>2, <3>1, <3>4
        <4> QED BY <3>1, <3>2, <4>1
      <3> QED BY <3>3, <3>4
    <2>4. To(n + 1, h)
      BY <2>3
    <2>5. n + 1 \in Nat
      OBVIOUS
    <2> HIDE DEF To
    <2> QED BY <2>4, <2>5
  <1>3. PICK g : To(size, g)
    <2>1. size \in S
      <3> HIDE DEF S
      <3> QED BY <1>1, <1>2, Induct
    <2> QED BY <2>1
  <1>4. PICK h : h = [c \in Nat |-> IF c = 0 THEN 0 ELSE g[c]]
    OBVIOUS
  <1>5. h = Grows(size, h)
    <2>1. ASSUME NEW c \in Nat PROVE h[c] = IF c >= size THEN c ELSE h[2 * c]
      <3>1. CASE c = 0
        BY <1>4, <3>1
      <3>2. CASE c # 0
        <4>1. PICK d \in Nat \ {0} : d = 2 * c
          BY <3>2
        <4>2. g[c] = IF c >= size THEN c ELSE g[d]
          BY <1>3, <3>2, <4>1
        <4> QED BY <1>4, <3>2, <4>1, <4>2
      <3> QED BY <3>1, <3>2
    <2>2. h = [c \in Nat |-> h[c]]
      BY <1>4
    <2> QED BY <2>1, <2>2 DEF Grows
  <1>6. PICK a : a = CHOOSE x : x = Grows(size, x)
    OBVIOUS
  <1>7. a = Grows(size, a)
    BY <1>5, <1>6
  <1>8. \A c \in Nat : a[c] = IF c >= size THEN c ELSE a[2 * c]
    BY <1>7 DEF Grows
  <1> DEFINE T == {n \in Nat : \A c \in Nat \ {0} : c + n >= size => a[c] \in Nat /\ a[c] >= size}
  <1>9. 0 \in T
    BY <1>8
  <1>10. ASSUME NEW n \in Nat, n \in T PROVE n + 1 \in T
    <2>1. ASSUME NEW c \in Nat \ {0}, c + (n + 1) >= size PROVE a[c] \in Nat /\ a[c] >= size
      <3>1. PICK d \in Nat \ {0} : d = 2 * c /\ d + n >= size
        BY <2>1
      <3>2. a[d] \in Nat /\ a[d] >= size
        BY <1>10, <3>1
      <3>3. a[c] = IF c >= size THEN c ELSE a[d]
        BY <1>8, <3>1
      <3> QED BY <3>2, <3>3
    <2> QED BY <2>1
  <1>11. size \in T
    <2> HIDE DEF T
    <2> QED BY <1>9, <1>10, Induct
  <1>12. PICK c \in Nat \ {0} : c = IF cap = 0 THEN FirstCapacity ELSE cap
    BY CapacityAssumption
  <1>13. a[c] \in Nat /\ a[c] >= size
    BY <1>11
  <1>14. Doubled(cap, size) = a[c]
    BY <1>6, <1>12 DEF Doubled, Grows
  <1> QED BY <1>13, <1>14

\* The buffer holds the file.
FileOk(n) == n.size \in Nat /\ List(n.data) /\ n.size <= Len(n.data)

\* tmpfs_resize_node keeps what stays in the file and clears what comes in.
Cleared(n, d, size) == \A i \in 1..size : d[i] = IF i <= n.size THEN n.data[i] ELSE 0

LEMMA ResizeFile ==
    ASSUME NEW n, DOMAIN n = NodeFields, FileOk(n), NEW size \in Nat,
           NEW r, r = tmpfs_resize_node(n, size)
    PROVE  /\ DOMAIN r = NodeFields /\ r.size = size /\ FileOk(r)
           /\ Cleared(n, r.data, size)
  <1>1. PICK q : q = n.data
    OBVIOUS
  <1>2. PICK c : c = Len(q)
    OBVIOUS
  <1>3. c \in Nat /\ n.size \in Nat /\ n.size <= c
    BY <1>1, <1>2, ListBasics DEF FileOk
  <1>4. PICK cap : cap = IF size <= c THEN c ELSE Doubled(c, size)
    OBVIOUS
  <1>5. cap \in Nat /\ size <= cap
    BY <1>3, <1>4, DoubledOk
  <1>6. PICK d : d = [i \in 1..cap |-> IF i <= c /\ ~(i > n.size /\ i <= size) THEN q[i] ELSE 0]
    OBVIOUS
  <1>7. r = [n EXCEPT !.size = size, !.data = d]
    BY <1>1, <1>2, <1>4, <1>6 DEF tmpfs_resize_node, Capacity
  <1>8. DOMAIN r = NodeFields /\ r.size = size /\ r.data = d
    BY <1>7 DEF NodeFields
  <1>9. List(d) /\ Len(d) = cap
    <2>1. d = [i \in 1..cap |-> d[i]]
      BY <1>6
    <2> QED BY <1>5, <2>1, ListIntro
  <1>10. FileOk(r)
    BY <1>5, <1>8, <1>9 DEF FileOk
  <1>11. Cleared(n, d, size)
    BY <1>1, <1>3, <1>5, <1>6 DEF Cleared
  <1> QED BY <1>1, <1>8, <1>10, <1>11

\* So a write leaves the bytes that it promises.
Filled(n, d, off, size, byte) ==
    \A i \in 1..(off + size) :
        d[i] = IF i > off THEN byte ELSE IF i <= n.size THEN n.data[i] ELSE 0

LEMMA WroteFile ==
    ASSUME NEW n, DOMAIN n = NodeFields, FileOk(n), NEW off \in Nat, NEW size \in Nat, NEW byte,
           NEW w, w = Wrote(n, off, size, byte)
    PROVE  w.size = off + size /\ FileOk(w) /\ Filled(n, w.data, off, size, byte)
  <1>1. PICK z \in Nat : z = off + size
    OBVIOUS
  <1>2. PICK r : r = tmpfs_resize_node(n, z)
    OBVIOUS
  <1>3. DOMAIN r = NodeFields /\ r.size = z /\ FileOk(r)
    BY <1>2, ResizeFile
  <1>4. Cleared(n, r.data, z)
    BY <1>2, ResizeFile
  <1>5. PICK q : q = r.data
    OBVIOUS
  <1>6. PICK c \in Nat : c = Len(q) /\ DOMAIN q = 1..c /\ z <= c
    BY <1>3, <1>5, ListBasics DEF FileOk
  <1>7. PICK d : d = [i \in 1..c |-> IF i > off /\ i <= z THEN byte ELSE q[i]]
    OBVIOUS
  <1>8. w = [r EXCEPT !.data = d]
    BY <1>1, <1>2, <1>5, <1>6, <1>7 DEF Wrote
  <1>9. w.size = z /\ w.data = d
    BY <1>3, <1>8 DEF NodeFields
  <1>10. List(d) /\ Len(d) = c
    <2>1. d = [i \in 1..c |-> d[i]]
      BY <1>7
    <2> QED BY <2>1, ListIntro
  <1>11. FileOk(w)
    BY <1>6, <1>9, <1>10 DEF FileOk
  <1>12. Filled(n, d, off, size, byte)
    BY <1>1, <1>4, <1>5, <1>6, <1>7 DEF Cleared, Filled
  <1> QED BY <1>1, <1>9, <1>11, <1>12

-----------------------------------------------------------------------------
(* A new child.                                                            *)

\* An empty file, or a directory.
Blank(n) == n.size = 0 /\ n.data = <<>>

\* t is s with a new last node m, of this name and type, in directory d.
Sprouted(s, t, d, m, name, type) ==
    /\ DOMAIN t = DOMAIN s /\ t.types = s.types /\ t.root = s.root
    /\ m = Len(s.node) + 1 /\ Len(t.node) = m
    /\ List(t.node) /\ DOMAIN t.node = DOMAIN s.node \cup {m}
    /\ m \in Nat /\ m \notin DOMAIN s.node /\ \A u \in DOMAIN s.node : u \in Nat /\ 0 < u /\ u < m
    /\ SameMounts(s.vfs, t.vfs)
    /\ \A u \in DOMAIN s.node \ {d} : t.node[u] = s.node[u]
    /\ t.node[d] = [s.node[d] EXCEPT !.kids = <<m>> \o @]
    /\ DOMAIN t.node[m] = NodeFields
    /\ t.node[m].vfs = s.node[d].vfs /\ t.node[m].parent = d /\ t.node[m].name = name
    /\ t.node[m].type = type /\ t.node[m].refcount = 1 /\ t.node[m].mounted = Null
    /\ t.node[m].kids = <<>> /\ Blank(t.node[m])

\* The new node m is counted in file system f.
Tallied(s, t, f, m, inode, count) ==
    /\ SameFs(s, t) /\ t.node[m].vfs = f /\ t.node[m].inode = inode
    /\ t.vfs[f].next_inode = inode + 1 /\ t.vfs[f].node_count = count + 1
    /\ t.vfs[f].byte_count = s.vfs[f].byte_count
    /\ DOMAIN t.vfs = DOMAIN s.vfs /\ \A g \in DOMAIN s.vfs \ {f} : t.vfs[g] = s.vfs[g]

\* The name is not taken in directory d.
Free(s, d, name) ==
    IsDir(s, d) /\ \A i \in DOMAIN s.node[d].kids : s.node[s.node[d].kids[i]].name # name

\* tmpfs_alloc_node and tmpfs_link_child do that.
LEMMA CreateSprouts ==
    ASSUME NEW s, Shape(s), NEW d \in DOMAIN s.node, NEW name, NEW type, NEW inode, NEW count,
           NEW t, t = CreateChild(s, d, name, type, inode, count)
    PROVE  /\ Sprouted(s, t, d, Len(s.node) + 1, name, type)
           /\ Tallied(s, t, s.node[d].vfs, Len(s.node) + 1, inode, count)
  <1>1. Form(s) /\ s.node[d].vfs \in DOMAIN s.vfs
    BY DEF Shape, Tree, NodeOk
  <1>2. PICK f, n : f = s.node[d].vfs /\ n = NewNode(f, d, name, type, inode)
    OBVIOUS
  <1>3. PICK w : w = tmpfs_alloc_node(s, f, d, name, type, inode, count)
    OBVIOUS
  <1>4. PICK q : q = s.node
    OBVIOUS
  <1>5. d \in DOMAIN q /\ DOMAIN q[d] = NodeFields
    BY <1>1, <1>4 DEF Form
  <1>50. List(q)
    BY <1>1, <1>4 DEF Form
  <1>6. PICK m : m = Len(q) + 1
    OBVIOUS
  <1>7. PICK r : r = Append(q, n)
    OBVIOUS
  <1>8. /\ List(r) /\ Len(q) \in Nat /\ Len(r) = Len(q) + 1 /\ r[Len(q) + 1] = n
        /\ DOMAIN r = DOMAIN q \cup {Len(q) + 1} /\ Len(q) + 1 \notin DOMAIN q
    BY <1>50, <1>7, ListAppend
  <1>80. \A u \in DOMAIN q : r[u] = q[u]
    BY <1>50, <1>7, ListAppend
  <1>9. PICK k : k = [q[d] EXCEPT !.kids = <<m>> \o @]
    OBVIOUS
  <1>10. /\ DOMAIN w = DOMAIN s /\ w.types = s.types /\ w.root = s.root /\ w.node = r
         /\ w.vfs = [s.vfs EXCEPT ![f].next_inode = inode + 1, ![f].node_count = count + 1]
    BY <1>1, <1>2, <1>3, <1>4, <1>7 DEF tmpfs_alloc_node, Form
  <1>11. t = [w EXCEPT !.node[d].kids = <<m>> \o @]
    BY <1>2, <1>3, <1>4, <1>6 DEF CreateChild, tmpfs_link_child
  <1>12. r[d] = q[d] /\ d \in DOMAIN r /\ m # d
    BY <1>5, <1>6, <1>8, <1>80
  <1>13. /\ DOMAIN t = DOMAIN s /\ t.types = s.types /\ t.root = s.root /\ t.vfs = w.vfs
         /\ t.node = [r EXCEPT ![d] = k]
    BY <1>1, <1>9, <1>10, <1>11, <1>12 DEF Form
  <1>14. PICK z : z = t.node
    OBVIOUS
  <1>15. /\ List(z) /\ DOMAIN z = DOMAIN r /\ Len(z) = Len(r) /\ z[d] = k
         /\ \A u \in DOMAIN r \ {d} : z[u] = r[u]
    <2>1. List(r) /\ d \in DOMAIN r /\ z = [r EXCEPT ![d] = k]
      BY <1>8, <1>12, <1>13, <1>14
    <2>2. List(z) /\ DOMAIN z = DOMAIN r /\ z[d] = k
      BY <2>1, ListExcept
    <2>4. Len(z) = Len(r)
      BY <2>1, ListExcept
    <2>3. \A u \in DOMAIN r \ {d} : z[u] = r[u]
      BY <2>1, ListExcept
    <2> QED BY <2>2, <2>3, <2>4
  <1>16. z[m] = n /\ \A u \in DOMAIN q \ {d} : z[u] = q[u]
    BY <1>6, <1>8, <1>80, <1>12, <1>15
  <1>17. /\ DOMAIN n = NodeFields /\ n.vfs = f /\ n.parent = d /\ n.name = name /\ n.inode = inode
         /\ n.type = type /\ n.refcount = 1 /\ n.mounted = Null /\ n.kids = <<>> /\ Blank(n)
    BY <1>2 DEF NewNode, NodeFields, Blank
  <1>18. /\ SameMounts(s.vfs, t.vfs)
         /\ t.vfs[f].next_inode = inode + 1 /\ t.vfs[f].node_count = count + 1
         /\ t.vfs[f].byte_count = s.vfs[f].byte_count
         /\ DOMAIN t.vfs = DOMAIN s.vfs /\ \A g \in DOMAIN s.vfs \ {f} : t.vfs[g] = s.vfs[g]
    <2>1. PICK x, y : x = s.vfs /\ y = t.vfs
      OBVIOUS
    <2>2. List(x) /\ f \in DOMAIN x /\ \A g \in DOMAIN x : DOMAIN x[g] = MountFields
      BY <1>1, <1>2, <2>1 DEF Form
    <2>3. PICK e : e = [x[f] EXCEPT !.next_inode = inode + 1, !.node_count = count + 1]
      OBVIOUS
    <2>4. /\ DOMAIN e = MountFields /\ e.root = x[f].root /\ e.byte_count = x[f].byte_count
          /\ e.covered = x[f].covered
          /\ e.next_inode = inode + 1 /\ e.node_count = count + 1
      BY <2>2, <2>3 DEF MountFields
    <2>5. y = [x EXCEPT ![f] = e]
      BY <1>10, <1>13, <2>1, <2>2, <2>3
    <2>6. List(y) /\ DOMAIN y = DOMAIN x /\ y[f] = e /\ \A g \in DOMAIN x \ {f} : y[g] = x[g]
      BY <2>2, <2>5, ListExcept
    <2> QED BY <2>1, <2>2, <2>4, <2>6 DEF SameMounts
  <1>19. m \in Nat /\ \A u \in DOMAIN q : u \in Nat /\ 0 < u /\ u < m
    <2>1. DOMAIN q = 1..Len(q)
      BY <1>50, ListBasics
    <2> QED BY <1>6, <1>8, <2>1
  <1>20. k.vfs = q[d].vfs /\ k.inode = q[d].inode
    BY <1>5, <1>9 DEF NodeFields
  <1>21. SameFs(s, t)
    BY <1>4, <1>14, <1>15, <1>16, <1>20 DEF SameFs
  <1>22. Tallied(s, t, f, m, inode, count)
    BY <1>14, <1>16, <1>17, <1>18, <1>21 DEF Tallied
  <1>23. Sprouted(s, t, d, m, name, type)
    BY <1>2, <1>4, <1>6, <1>8, <1>9, <1>13, <1>14, <1>15, <1>16, <1>17, <1>18, <1>19 DEF Sprouted
  <1> QED BY <1>2, <1>4, <1>6, <1>22, <1>23

\* The new child keeps the tree.
LEMMA SproutShape ==
    ASSUME NEW s, Shape(s), NEW d \in DOMAIN s.node, NEW m, NEW name, NEW type, NEW t,
           Free(s, d, name), Sprouted(s, t, d, m, name, type)
    PROVE  /\ Shape(t) /\ SameBytes(s, t)
           /\ \A u \in DOMAIN s.node : t.node[u].refcount = s.node[u].refcount
           /\ \A u \in DOMAIN s.node : t.node[u].type = s.node[u].type /\ t.node[u].name = s.node[u].name
           /\ t.node[d].kids = <<m>> \o s.node[d].kids
  <1>1. Form(s) /\ Tree(s)
    BY DEF Shape
  <1>2. PICK K, L : K = s.node[d].kids /\ L = <<m>> \o K
    OBVIOUS
  <1>3. PICK N, M : N = DOMAIN s.node /\ M = DOMAIN t.node
    OBVIOUS
  <1>4. M = N \cup {m} /\ m \notin N /\ m \in M /\ d \in N /\ m # d /\ N \subseteq M
    BY <1>3 DEF Sprouted
  <1>5. DOMAIN s.node[d] = NodeFields /\ \A u \in N : DOMAIN s.node[u] = NodeFields /\ s.node[u].refcount \in Int
    BY <1>1, <1>3 DEF Form
  <1>6. t.node[d] = [s.node[d] EXCEPT !.kids = L]
    BY <1>2, <1>5 DEF Sprouted, NodeFields
  <1>7. /\ DOMAIN t.node[d] = NodeFields /\ t.node[d].kids = L /\ t.node[d].vfs = s.node[d].vfs
        /\ t.node[d].parent = s.node[d].parent /\ t.node[d].name = s.node[d].name
        /\ t.node[d].type = s.node[d].type /\ t.node[d].mounted = s.node[d].mounted
        /\ t.node[d].refcount = s.node[d].refcount
        /\ t.node[d].size = s.node[d].size /\ t.node[d].data = s.node[d].data
    BY <1>5, <1>6 DEF NodeFields
  <1>8. \A u \in N : u # d => t.node[u] = s.node[u]
    BY <1>3 DEF Sprouted
  <1>9. \A u \in N : /\ DOMAIN t.node[u] = NodeFields /\ t.node[u].vfs = s.node[u].vfs
                     /\ t.node[u].parent = s.node[u].parent /\ t.node[u].name = s.node[u].name
                     /\ t.node[u].type = s.node[u].type /\ t.node[u].mounted = s.node[u].mounted
                     /\ t.node[u].refcount = s.node[u].refcount
    BY <1>5, <1>7, <1>8
  <1>10. /\ DOMAIN t.node[m] = NodeFields
         /\ t.node[m].vfs = s.node[d].vfs /\ t.node[m].parent = d /\ t.node[m].name = name
         /\ t.node[m].refcount = 1 /\ t.node[m].mounted = Null /\ t.node[m].kids = <<>>
    BY DEF Sprouted
  <1>11. DOMAIN t.vfs = DOMAIN s.vfs /\ \A f \in DOMAIN s.vfs : DOMAIN t.vfs[f] = MountFields /\ t.vfs[f].root = s.vfs[f].root
    BY DEF Sprouted, SameMounts
  <1>12. Form(t)
    <2>1. \A v \in M : DOMAIN t.node[v] = NodeFields /\ t.node[v].refcount \in Int
      BY <1>4, <1>5, <1>9, <1>10
    <2> QED BY <1>1, <1>3, <1>4, <1>11, <2>1 DEF Form, Sprouted, SameMounts
  <1>13. KidsOk(s, d)
    BY <1>1 DEF Tree
  <1>14. K \in Seq(N) /\ DOMAIN K = 1..Len(K) /\ Len(K) \in Nat /\ \A i \in DOMAIN K : K[i] \in N
    BY <1>2, <1>3, <1>13 DEF KidsOk
  <1>15. K \in Seq(M) /\ m \in M
    BY <1>4, <1>14
  <1>16. L \in Seq(M) /\ L # <<>> /\ DOMAIN L = 1..(Len(K) + 1) /\ L[1] = m
    BY <1>2, <1>15, ListPush
  <1>17. \A i \in 1..(Len(K) + 1) : i # 1 => i - 1 \in DOMAIN K /\ L[i] = K[i - 1]
    BY <1>2, <1>15, ListPush
  <1>18. \A i \in DOMAIN K : i + 1 \in DOMAIN L /\ L[i + 1] = K[i]
    BY <1>2, <1>15, ListPush
  <1>19. KidsOk(t, d)
    <2>1. ASSUME NEW i \in DOMAIN L, NEW j \in DOMAIN L, t.node[L[i]].name = t.node[L[j]].name
          PROVE  i = j
      <3>1. \A k \in DOMAIN K : t.node[K[k]].name = s.node[K[k]].name /\ s.node[K[k]].name # name
        BY <1>2, <1>9, <1>14 DEF Free
      <3>2. CASE i = 1 /\ j = 1
        BY <3>2
      <3>6. t.node[L[1]].name = name
        BY <1>10, <1>16
      <3>7. \A k \in DOMAIN L : k # 1 => t.node[L[k]].name # name
        BY <1>16, <1>17, <3>1
      <3>3. CASE i = 1 /\ j # 1
        BY <2>1, <3>3, <3>6, <3>7
      <3>4. CASE i # 1 /\ j = 1
        BY <2>1, <3>4, <3>6, <3>7
      <3>5. CASE i # 1 /\ j # 1
        <4>1. i - 1 \in DOMAIN K /\ j - 1 \in DOMAIN K /\ L[i] = K[i - 1] /\ L[j] = K[j - 1]
          BY <1>16, <1>17, <3>5
        <4>2. s.node[K[i - 1]].name = s.node[K[j - 1]].name
          BY <2>1, <3>1, <4>1
        <4>3. i - 1 = j - 1
          BY <1>2, <1>13, <4>1, <4>2 DEF KidsOk
        <4> QED BY <1>14, <1>16, <4>3
      <3> QED BY <3>2, <3>3, <3>4, <3>5
    <2>2. ASSUME NEW i \in DOMAIN L
          PROVE  t.node[L[i]].parent = d
      <3>1. \A k \in DOMAIN K : t.node[K[k]].parent = d
        BY <1>2, <1>9, <1>13, <1>14 DEF KidsOk
      <3> QED BY <1>10, <1>16, <1>17, <3>1
    <2>3. IsDir(t, d)
      BY <1>7 DEF Free, IsDir
    <2> QED BY <1>3, <1>7, <1>16, <2>1, <2>2, <2>3 DEF KidsOk
  <1>20. ASSUME NEW v \in N, v # d PROVE KidsOk(t, v)
    <2>1. KidsOk(s, v)
      BY <1>1, <1>3 DEF Tree
    <2>2. PICK kids : kids = s.node[v].kids
      OBVIOUS
    <2>3. /\ kids \in Seq(N) /\ (kids # <<>> => IsDir(s, v))
          /\ \A i, j \in DOMAIN kids : s.node[kids[i]].name = s.node[kids[j]].name => i = j
          /\ \A i \in DOMAIN kids : s.node[kids[i]].parent = v
      BY <1>3, <2>1, <2>2 DEF KidsOk
    <2>4. \A i \in DOMAIN kids : kids[i] \in N
      BY <2>3
    <2>5. kids \in Seq(M) /\ t.node[v].kids = kids
      BY <1>4, <1>8, <1>20, <2>2, <2>3
    <2>6. /\ \A i, j \in DOMAIN kids : t.node[kids[i]].name = t.node[kids[j]].name => i = j
          /\ \A i \in DOMAIN kids : t.node[kids[i]].parent = v
      BY <1>9, <2>3, <2>4
    <2>7. kids # <<>> => IsDir(t, v)
      BY <1>9, <1>20, <2>3 DEF IsDir
    <2> QED BY <1>3, <2>5, <2>6, <2>7 DEF KidsOk
  <1>21. KidsOk(t, m)
    BY <1>10 DEF KidsOk
  <1>22. ASSUME NEW v \in N PROVE NodeOk(t, v)
    <2>1. NodeOk(s, v)
      BY <1>1, <1>3 DEF Tree
    <2>2. PICK u : u = s.node[v].parent
      OBVIOUS
    <2>3. CASE u = Null
      BY <1>9, <1>11, <2>1, <2>2, <2>3 DEF NodeOk
    <2>4. CASE u # Null
      <3>1. u \in N /\ u < v /\ v \in Members(s.node[u].kids) /\ s.node[u].vfs = s.node[v].vfs
        BY <1>3, <2>1, <2>2, <2>4 DEF NodeOk
      <3>2. v \in Members(t.node[u].kids)
        <4>1. CASE u = d
          <5>1. PICK i \in DOMAIN K : v = K[i]
            BY <1>2, <3>1, <4>1 DEF Members
          <5>2. i + 1 \in DOMAIN L /\ v = L[i + 1]
            BY <1>18, <5>1
          <5> QED BY <1>7, <4>1, <5>2 DEF Members
        <4>2. CASE u # d
          BY <1>8, <3>1, <4>2
        <4> QED BY <4>1, <4>2
      <3>3. u \in M /\ u < v /\ t.node[u].vfs = t.node[v].vfs /\ t.node[v].parent = u
        BY <1>4, <1>9, <2>2, <3>1
      <3>4. t.node[v].vfs = s.node[v].vfs /\ t.node[v].mounted = s.node[v].mounted
        BY <1>9
      <3> QED BY <1>3, <1>11, <2>1, <2>4, <3>2, <3>3, <3>4 DEF NodeOk
    <2> QED BY <2>3, <2>4
  <1>23. NodeOk(t, m)
    <2>1. d # Null /\ d < m /\ d \in M
      BY <1>3, <1>4 DEF Sprouted, Null
    <2>2. m \in Members(t.node[d].kids)
      BY <1>7, <1>14, <1>16 DEF Members
    <2>3. s.node[d].vfs \in DOMAIN s.vfs
      BY <1>1 DEF Tree, NodeOk
    <2> QED BY <1>3, <1>7, <1>10, <1>11, <2>1, <2>2, <2>3 DEF NodeOk
  <1>24. \A f \in DOMAIN t.vfs : t.vfs[f].root \in M /\ t.vfs[f].covered \in M \cup {Null}
    BY <1>1, <1>3, <1>4, <1>11 DEF Tree, Sprouted, SameMounts
  <1>25. \A v \in M : KidsOk(t, v) /\ NodeOk(t, v)
    BY <1>4, <1>19, <1>20, <1>21, <1>22, <1>23
  <1>26. SameBytes(s, t)
    BY <1>3, <1>7, <1>8 DEF SameBytes
  <1>27. Shape(t)
    BY <1>3, <1>12, <1>24, <1>25 DEF Shape, Tree
  <1> QED BY <1>2, <1>3, <1>7, <1>9, <1>26, <1>27

-----------------------------------------------------------------------------
(* A new file system.                                                      *)

\* The counters of a new file system: its root is node 1.
Opened(a) == a.next_inode = 2 /\ a.node_count = 1 /\ a.byte_count = 0

\* t is s with a new last file system f, whose root is the new last node m,
\* mounted on v.
Mounted(s, t, v, f, m) ==
    /\ DOMAIN t = DOMAIN s /\ t.types = s.types /\ t.root = s.root
    /\ m = Len(s.node) + 1 /\ List(t.node) /\ DOMAIN t.node = DOMAIN s.node \cup {m}
    /\ f = Len(s.vfs) + 1 /\ List(t.vfs) /\ DOMAIN t.vfs = DOMAIN s.vfs \cup {f}
    /\ m \in Nat /\ m \notin DOMAIN s.node /\ \A u \in DOMAIN s.node : u \in Nat /\ 0 < u /\ u < m
    /\ f \in Nat /\ f \notin DOMAIN s.vfs
    /\ \A g \in DOMAIN s.vfs : t.vfs[g] = s.vfs[g]
    /\ DOMAIN t.vfs[f] = MountFields /\ t.vfs[f].root = m /\ Opened(t.vfs[f])
    /\ t.vfs[f].covered = v
    /\ \A u \in DOMAIN s.node \ {v} : t.node[u] = s.node[u]
    /\ t.node[v] = [s.node[v] EXCEPT !.mounted = f]
    /\ t.node[m] = NewNode(f, Null, "", DIR, 1)

\* r is q with x at the end.
Longer(q, r, x) ==
    /\ List(r) /\ Len(q) \in Nat /\ Len(r) = Len(q) + 1 /\ r[Len(q) + 1] = x
    /\ DOMAIN r = DOMAIN q \cup {Len(q) + 1} /\ Len(q) + 1 \notin DOMAIN q
    /\ \A u \in DOMAIN q : r[u] = q[u] /\ u \in Nat /\ 0 < u /\ u < Len(q) + 1

LEMMA ListLonger ==
    ASSUME NEW q, List(q), NEW x
    PROVE  Longer(q, Append(q, x), x)
  <1>1. PICK r : r = Append(q, x)
    OBVIOUS
  <1>2. /\ List(r) /\ Len(q) \in Nat /\ Len(r) = Len(q) + 1 /\ r[Len(q) + 1] = x
        /\ DOMAIN r = DOMAIN q \cup {Len(q) + 1} /\ Len(q) + 1 \notin DOMAIN q
    BY <1>1, ListAppend
  <1>3. \A u \in DOMAIN q : r[u] = q[u]
    BY <1>1, ListAppend
  <1>4. DOMAIN q = 1..Len(q)
    BY ListBasics
  <1>5. Longer(q, r, x)
    BY <1>2, <1>3, <1>4 DEF Longer
  <1> QED BY <1>1, <1>5

\* r is q with x at v.
Poked(q, r, v, x) ==
    /\ List(r) /\ DOMAIN r = DOMAIN q /\ Len(r) = Len(q) /\ r[v] = x
    /\ \A u \in DOMAIN q \ {v} : r[u] = q[u]

LEMMA ListPoked ==
    ASSUME NEW q, List(q), NEW v \in DOMAIN q, NEW x
    PROVE  Poked(q, [q EXCEPT ![v] = x], v, x)
  <1>1. PICK r : r = [q EXCEPT ![v] = x]
    OBVIOUS
  <1>2. List(r) /\ DOMAIN r = DOMAIN q /\ r[v] = x
    BY <1>1, ListExcept
  <1>3. \A u \in DOMAIN q \ {v} : r[u] = q[u]
    BY <1>1, ListExcept
  <1>4. Len(r) = Len(q)
    BY <1>1, ListExcept
  <1>5. Poked(q, r, v, x)
    BY <1>2, <1>3, <1>4 DEF Poked
  <1> QED BY <1>1, <1>5

\* The new node of tmpfs_alloc_node, and the counters of its file system.
LEMMA AllocNode ==
    ASSUME NEW s, DOMAIN s = {"node", "vfs", "types", "root"}, List(s.vfs),
           NEW f \in DOMAIN s.vfs, DOMAIN s.vfs[f] = MountFields, NEW parent, NEW name, NEW type,
           NEW inode, NEW count, NEW t, t = tmpfs_alloc_node(s, f, parent, name, type, inode, count)
    PROVE  /\ DOMAIN t = DOMAIN s /\ t.types = s.types /\ t.root = s.root
           /\ t.node = Append(s.node, NewNode(f, parent, name, type, inode))
           /\ \E a : /\ Poked(s.vfs, t.vfs, f, a) /\ DOMAIN a = MountFields /\ a.root = s.vfs[f].root
                    /\ a.covered = s.vfs[f].covered
                    /\ a.next_inode = inode + 1 /\ a.node_count = count + 1
                    /\ a.byte_count = s.vfs[f].byte_count
  <1>1. PICK i, c : i = inode + 1 /\ c = count + 1
    OBVIOUS
  <1>2. PICK a : a = [s.vfs[f] EXCEPT !.next_inode = i, !.node_count = c]
    OBVIOUS
  <1>3. /\ DOMAIN a = MountFields /\ a.root = s.vfs[f].root /\ a.covered = s.vfs[f].covered
        /\ a.next_inode = i /\ a.node_count = c /\ a.byte_count = s.vfs[f].byte_count
    BY <1>2 DEF MountFields
  <1>4. /\ DOMAIN t = DOMAIN s /\ t.types = s.types /\ t.root = s.root
        /\ t.node = Append(s.node, NewNode(f, parent, name, type, inode))
        /\ t.vfs = [s.vfs EXCEPT ![f].next_inode = i, ![f].node_count = c]
    BY <1>1 DEF tmpfs_alloc_node
  <1>5. t.vfs = [s.vfs EXCEPT ![f] = a]
    BY <1>2, <1>4
  <1>6. PICK q : q = s.vfs
    OBVIOUS
  <1>7. List(q) /\ f \in DOMAIN q
    BY <1>6
  <1>8. Poked(q, [q EXCEPT ![f] = a], f, a)
    BY <1>7, ListPoked
  <1> QED BY <1>1, <1>3, <1>4, <1>5, <1>6, <1>8

\* tmpfs_mount on its own: the new root node and the new file system.
MountAdded(s, t, f, m) ==
    /\ DOMAIN t = DOMAIN s /\ t.types = s.types /\ t.root = s.root
    /\ t.node = Append(s.node, NewNode(f, Null, "", DIR, 1))
    /\ \E a : /\ Longer(s.vfs, t.vfs, a) /\ DOMAIN a = MountFields /\ a.root = m /\ Opened(a)
              /\ a.covered = Null

LEMMA MountAdds ==
    ASSUME NEW s, DOMAIN s = {"node", "vfs", "types", "root"}, List(s.vfs), NEW t, t = tmpfs_mount(s),
           NEW f, f = Len(s.vfs) + 1, NEW m, m = Len(s.node) + 1
    PROVE  MountAdded(s, t, f, m)
  <1>1. PICK e : e = [root |-> m, covered |-> Null, next_inode |-> 1, node_count |-> 0, byte_count |-> 0]
    OBVIOUS
  <1>2. PICK w : w = [s EXCEPT !.vfs = Append(@, e)]
    OBVIOUS
  <1>3. t = tmpfs_alloc_node(w, f, Null, "", DIR, 1, 0)
    BY <1>1, <1>2 DEF tmpfs_mount
  <1>4. DOMAIN s = {"node", "vfs", "types", "root"} /\ List(s.vfs)
    OBVIOUS
  <1>5. /\ DOMAIN w = DOMAIN s /\ w.types = s.types /\ w.root = s.root /\ w.node = s.node
        /\ w.vfs = Append(s.vfs, e)
    BY <1>2, <1>4
  <1>6. PICK q : q = s.vfs
    OBVIOUS
  <1>7. List(q)
    BY <1>4, <1>6
  <1>8. Longer(q, Append(q, e), e)
    BY <1>7, ListLonger
  <1>9. PICK r : r = w.vfs
    OBVIOUS
  <1>10. Longer(q, r, e)
    BY <1>5, <1>6, <1>8, <1>9
  <1>11. f = Len(q) + 1
    BY <1>6
  <1>12. List(r) /\ f \in DOMAIN r /\ r[f] = e
    BY <1>10, <1>11 DEF Longer
  <1>13. DOMAIN e = MountFields /\ e.root = m /\ e.byte_count = 0 /\ e.covered = Null
    BY <1>1 DEF MountFields
  <1>14. DOMAIN w = {"node", "vfs", "types", "root"} /\ List(w.vfs) /\ f \in DOMAIN w.vfs
         /\ DOMAIN w.vfs[f] = MountFields /\ w.vfs[f].root = m /\ w.vfs[f].byte_count = 0
         /\ w.vfs[f].covered = Null
    BY <1>4, <1>5, <1>9, <1>12, <1>13
  <1>15. PICK o \in Nat, z \in Nat : o = 1 /\ z = 0
    OBVIOUS
  <1>150. PICK n : n = ""
    OBVIOUS
  <1>16. t = tmpfs_alloc_node(w, f, Null, n, DIR, o, z)
    BY <1>3, <1>15, <1>150
  <1>17. /\ DOMAIN t = DOMAIN w /\ t.types = w.types /\ t.root = w.root
         /\ t.node = Append(w.node, NewNode(f, Null, n, DIR, o))
         /\ \E a : /\ Poked(w.vfs, t.vfs, f, a) /\ DOMAIN a = MountFields /\ a.root = w.vfs[f].root
                  /\ a.covered = w.vfs[f].covered
                  /\ a.next_inode = o + 1 /\ a.node_count = z + 1
                  /\ a.byte_count = w.vfs[f].byte_count
    BY <1>14, <1>16, AllocNode
  <1>180. PICK a : /\ Poked(w.vfs, t.vfs, f, a) /\ DOMAIN a = MountFields /\ a.root = w.vfs[f].root
                   /\ a.covered = w.vfs[f].covered
                   /\ a.next_inode = o + 1 /\ a.node_count = z + 1 /\ a.byte_count = w.vfs[f].byte_count
    BY <1>17
  <1>181. Opened(a)
    <2>3. o + 1 = 2 /\ z + 1 = 1
      BY <1>15
    <2>1. a.next_inode = 2 /\ a.node_count = 1
      BY <1>180, <2>3
    <2>2. a.byte_count = 0
      BY <1>14, <1>180
    <2> QED BY <2>1, <2>2 DEF Opened
  <1>18. Poked(r, t.vfs, f, a) /\ DOMAIN a = MountFields /\ a.root = m /\ Opened(a) /\ a.covered = Null
    BY <1>9, <1>14, <1>180, <1>181
  <1>19. Longer(q, t.vfs, a)
    BY <1>10, <1>11, <1>18 DEF Longer, Poked
  <1> QED BY <1>5, <1>6, <1>15, <1>150, <1>17, <1>18, <1>19 DEF MountAdded

\* vfs_mount does what Mounted says.
LEMMA MountMounts ==
    ASSUME NEW s, Form(s), NEW v \in DOMAIN s.node, v # Null, NEW t, t = vfs_mount(s, v)
    PROVE  Mounted(s, t, v, Len(s.vfs) + 1, Len(s.node) + 1)
  <1>1. PICK w : w = tmpfs_mount(s)
    OBVIOUS
  <1>2. PICK f, m : f = Len(s.vfs) + 1 /\ m = Len(s.node) + 1
    OBVIOUS
  <1>3. PICK n : n = NewNode(f, Null, "", DIR, 1)
    OBVIOUS
  <1>4. /\ DOMAIN w = DOMAIN s /\ w.types = s.types /\ w.root = s.root
        /\ w.node = Append(s.node, NewNode(f, Null, "", DIR, 1))
        /\ \E a : Longer(s.vfs, w.vfs, a) /\ DOMAIN a = MountFields /\ a.root = m /\ Opened(a)
    <2>1. MountAdded(s, w, f, m)
      BY <1>1, <1>2, MountAdds DEF Form
    <2> QED BY <2>1 DEF MountAdded
  <1>5. PICK a : Longer(s.vfs, w.vfs, a) /\ DOMAIN a = MountFields /\ a.root = m /\ Opened(a)
    BY <1>4
  <1>6. PICK q, r, x, y : q = s.node /\ r = w.node /\ x = s.vfs /\ y = w.vfs
    OBVIOUS
  <1>7. List(q) /\ v \in DOMAIN q /\ DOMAIN q[v] = NodeFields
    BY <1>6 DEF Form
  <1>8. Longer(q, Append(q, n), n)
    BY <1>7, ListLonger
  <1>9. Longer(q, r, n) /\ Longer(x, y, a)
    BY <1>3, <1>4, <1>5, <1>6, <1>8
  <1>10. v \in DOMAIN r /\ r[v] = q[v] /\ List(r) /\ v # m /\ m \in DOMAIN r /\ r[m] = n
    BY <1>2, <1>6, <1>7, <1>9 DEF Longer
  <1>11. Len(y) = f /\ f \in DOMAIN y /\ y[f] = a /\ List(y)
    BY <1>2, <1>6, <1>9 DEF Longer
  <1>12. PICK b, k : b = [a EXCEPT !.covered = v] /\ k = [q[v] EXCEPT !.mounted = f]
    OBVIOUS
  <1>13. DOMAIN b = MountFields /\ b.root = m /\ Opened(b) /\ b.covered = v
    BY <1>5, <1>12 DEF MountFields, Opened
  <1>14. t = [w EXCEPT !.vfs[f].covered = v, !.node[v].mounted = f]
    BY <1>1, <1>6, <1>11 DEF vfs_mount
  <1>15. /\ DOMAIN t = DOMAIN s /\ t.types = s.types /\ t.root = s.root
         /\ t.node = [r EXCEPT ![v] = k] /\ t.vfs = [y EXCEPT ![f] = b]
    <2>1. DOMAIN w = {"node", "vfs", "types", "root"}
      BY <1>4 DEF Form
    <2>2. t.vfs = [w.vfs EXCEPT ![f].covered = v] /\ t.node = [w.node EXCEPT ![v].mounted = f]
      BY <1>14, <2>1
    <2>3. t.vfs = [y EXCEPT ![f] = b]
      BY <1>6, <1>11, <1>12, <2>2
    <2>4. t.node = [r EXCEPT ![v] = k]
      BY <1>6, <1>10, <1>12, <2>2
    <2>5. DOMAIN t = DOMAIN s /\ t.types = s.types /\ t.root = s.root
      BY <1>4, <1>14, <2>1
    <2> QED BY <2>3, <2>4, <2>5
  <1>16. PICK g, z : g = t.node /\ z = t.vfs
    OBVIOUS
  <1>17. Poked(r, g, v, k)
    <2>1. Poked(r, [r EXCEPT ![v] = k], v, k)
      BY <1>10, ListPoked
    <2> QED BY <1>15, <1>16, <2>1
  <1>18. Poked(y, z, f, b)
    <2>1. Poked(y, [y EXCEPT ![f] = b], f, b)
      BY <1>11, ListPoked
    <2> QED BY <1>15, <1>16, <2>1
  <1>19. /\ List(g) /\ DOMAIN g = DOMAIN q \cup {m} /\ g[v] = k /\ g[m] = n
         /\ m \in Nat /\ m \notin DOMAIN q /\ (\A u \in DOMAIN q : u \in Nat /\ 0 < u /\ u < m)
    BY <1>2, <1>6, <1>9, <1>10, <1>17 DEF Longer, Poked
  <1>20. \A u \in DOMAIN q \ {v} : g[u] = q[u]
    BY <1>9, <1>17 DEF Longer, Poked
  <1>21. /\ List(z) /\ DOMAIN z = DOMAIN x \cup {f} /\ f \in Nat /\ f \notin DOMAIN x /\ z[f] = b
    BY <1>2, <1>6, <1>9, <1>18 DEF Longer, Poked
  <1>22. \A h \in DOMAIN x : z[h] = x[h]
    BY <1>9, <1>18, <1>21 DEF Longer, Poked
  <1>23. /\ List(t.node) /\ DOMAIN t.node = DOMAIN s.node \cup {m}
         /\ List(t.vfs) /\ DOMAIN t.vfs = DOMAIN s.vfs \cup {f}
         /\ f \in Nat /\ f \notin DOMAIN s.vfs
         /\ DOMAIN t.vfs[f] = MountFields /\ t.vfs[f].root = m /\ Opened(t.vfs[f])
         /\ t.vfs[f].covered = v
         /\ t.node[v] = [s.node[v] EXCEPT !.mounted = f]
         /\ t.node[m] = NewNode(f, Null, "", DIR, 1)
    BY <1>3, <1>6, <1>12, <1>13, <1>16, <1>19, <1>21
  <1>24. m \in Nat /\ m \notin DOMAIN s.node /\ \A u \in DOMAIN s.node : u \in Nat /\ 0 < u /\ u < m
    BY <1>6, <1>19
  <1>25. \A u \in DOMAIN s.node \ {v} : t.node[u] = s.node[u]
    BY <1>6, <1>16, <1>20
  <1>26. \A h \in DOMAIN s.vfs : t.vfs[h] = s.vfs[h]
    BY <1>6, <1>16, <1>22
  <1>27. Mounted(s, t, v, f, m)
    BY <1>2, <1>15, <1>23, <1>24, <1>25, <1>26 DEF Mounted
  <1> QED BY <1>2, <1>27

\* The new file system keeps the tree.
LEMMA MountShape ==
    ASSUME NEW s, Shape(s), NEW v \in DOMAIN s.node, NEW f, NEW m, NEW t, Mounted(s, t, v, f, m)
    PROVE  /\ Shape(t) /\ SameBytes(s, t) /\ t.node[m].refcount = 1
           /\ \A u \in DOMAIN s.node : /\ t.node[u].refcount = s.node[u].refcount
                                       /\ t.node[u].type = s.node[u].type
                                       /\ t.node[u].kids = s.node[u].kids
                                       /\ t.node[u].name = s.node[u].name
  <1>1. Form(s) /\ Tree(s)
    BY DEF Shape
  <1>2. PICK N, M, H, G : N = DOMAIN s.node /\ M = DOMAIN t.node /\ H = DOMAIN s.vfs /\ G = DOMAIN t.vfs
    OBVIOUS
  <1>3. M = N \cup {m} /\ m \notin N /\ G = H \cup {f} /\ f \notin H /\ v \in N
    BY <1>2 DEF Mounted
  <1>4. \A u \in N : DOMAIN s.node[u] = NodeFields /\ s.node[u].refcount \in Int
    BY <1>1, <1>2 DEF Form
  <1>5. t.node[v] = [s.node[v] EXCEPT !.mounted = f]
    BY DEF Mounted
  <1>6. /\ DOMAIN t.node[v] = NodeFields /\ t.node[v].kids = s.node[v].kids /\ t.node[v].vfs = s.node[v].vfs
        /\ t.node[v].parent = s.node[v].parent /\ t.node[v].name = s.node[v].name
        /\ t.node[v].type = s.node[v].type /\ t.node[v].mounted = f
        /\ t.node[v].refcount = s.node[v].refcount
        /\ t.node[v].size = s.node[v].size /\ t.node[v].data = s.node[v].data
    BY <1>3, <1>4, <1>5 DEF NodeFields
  <1>7. \A u \in N : u # v => t.node[u] = s.node[u]
    BY <1>2 DEF Mounted
  <1>8. \A u \in N : /\ DOMAIN t.node[u] = NodeFields /\ t.node[u].vfs = s.node[u].vfs
                     /\ t.node[u].parent = s.node[u].parent /\ t.node[u].name = s.node[u].name
                     /\ t.node[u].type = s.node[u].type /\ t.node[u].kids = s.node[u].kids
                     /\ t.node[u].refcount = s.node[u].refcount
    BY <1>4, <1>6, <1>7
  <1>9. /\ DOMAIN t.node[m] = NodeFields /\ t.node[m].vfs = f /\ t.node[m].parent = Null
        /\ t.node[m].refcount = 1 /\ t.node[m].mounted = Null /\ t.node[m].kids = <<>>
    <2>1. PICK n : n = NewNode(f, Null, "", DIR, 1)
      OBVIOUS
    <2>2. /\ DOMAIN n = NodeFields /\ n.vfs = f /\ n.parent = Null
          /\ n.refcount = 1 /\ n.mounted = Null /\ n.kids = <<>>
      BY <2>1 DEF NewNode, NodeFields
    <2>3. t.node[m] = n
      BY <2>1 DEF Mounted
    <2> QED BY <2>2, <2>3
  <1>10. /\ \A g \in H : t.vfs[g] = s.vfs[g] /\ DOMAIN s.vfs[g] = MountFields
         /\ DOMAIN t.vfs[f] = MountFields /\ t.vfs[f].root = m /\ t.vfs[f].covered = v
    BY <1>1, <1>2 DEF Mounted, Form
  <1>11. Form(t)
    <2>1. \A u \in M : DOMAIN t.node[u] = NodeFields /\ t.node[u].refcount \in Int
      BY <1>3, <1>4, <1>8, <1>9
    <2>2. \A g \in G : DOMAIN t.vfs[g] = MountFields
      BY <1>3, <1>10
    <2> QED BY <1>1, <1>2, <1>3, <2>1, <2>2 DEF Form, Mounted
  <1>12. ASSUME NEW u \in N PROVE KidsOk(t, u)
    <2>1. KidsOk(s, u)
      BY <1>1, <1>2 DEF Tree
    <2>2. PICK kids : kids = s.node[u].kids
      OBVIOUS
    <2>3. /\ kids \in Seq(N) /\ (kids # <<>> => IsDir(s, u))
          /\ \A i, j \in DOMAIN kids : s.node[kids[i]].name = s.node[kids[j]].name => i = j
          /\ \A i \in DOMAIN kids : s.node[kids[i]].parent = u
      BY <1>2, <2>1, <2>2 DEF KidsOk
    <2>4. \A i \in DOMAIN kids : kids[i] \in N
      BY <2>3
    <2>5. kids \in Seq(M) /\ t.node[u].kids = kids
      BY <1>3, <1>8, <2>2, <2>3
    <2>6. /\ \A i, j \in DOMAIN kids : t.node[kids[i]].name = t.node[kids[j]].name => i = j
          /\ \A i \in DOMAIN kids : t.node[kids[i]].parent = u
      BY <1>8, <2>3, <2>4
    <2>7. kids # <<>> => IsDir(t, u)
      BY <1>8, <2>3 DEF IsDir
    <2> QED BY <1>2, <2>5, <2>6, <2>7 DEF KidsOk
  <1>13. KidsOk(t, m)
    BY <1>9 DEF KidsOk
  <1>14. ASSUME NEW u \in N PROVE NodeOk(t, u)
    <2>1. NodeOk(s, u)
      BY <1>1, <1>2 DEF Tree
    <2>2. /\ t.node[u].vfs \in G
          /\ t.node[u].mounted # Null => t.node[u].mounted \in G /\ t.vfs[t.node[u].mounted].root > u
      <3>1. s.node[u].vfs \in H
        BY <1>2, <2>1 DEF NodeOk
      <3>2. CASE u = v
        <4>1. m > v
          BY <1>2, <1>3 DEF Mounted
        <4> QED BY <1>3, <1>6, <1>10, <3>1, <3>2, <4>1
      <3>3. CASE u # v
        BY <1>2, <1>3, <1>7, <1>10, <2>1, <3>3 DEF NodeOk
      <3> QED BY <3>2, <3>3
    <2>3. PICK w : w = s.node[u].parent
      OBVIOUS
    <2>4. CASE w = Null
      <3>1. PICK g \in H : s.vfs[g].root = u
        BY <1>2, <2>1, <2>3, <2>4 DEF NodeOk
      <3>2. g \in G /\ t.vfs[g].root = u /\ t.node[u].parent = Null
        BY <1>3, <1>8, <1>10, <2>3, <2>4, <3>1
      <3> QED BY <1>2, <2>2, <3>2 DEF NodeOk
    <2>5. CASE w # Null
      <3>1. w \in N /\ w < u /\ u \in Members(s.node[w].kids) /\ s.node[w].vfs = s.node[u].vfs
        BY <1>2, <2>1, <2>3, <2>5 DEF NodeOk
      <3>2. /\ w \in M /\ w < u /\ u \in Members(t.node[w].kids) /\ t.node[w].vfs = t.node[u].vfs
            /\ t.node[u].parent = w
        BY <1>3, <1>8, <2>3, <3>1
      <3> QED BY <1>2, <2>2, <2>5, <3>2 DEF NodeOk
    <2> QED BY <2>4, <2>5
  <1>15. NodeOk(t, m)
    BY <1>2, <1>3, <1>9, <1>10 DEF NodeOk
  <1>16. \A g \in G : t.vfs[g].root \in M /\ t.vfs[g].covered \in M \cup {Null}
    BY <1>1, <1>2, <1>3, <1>10 DEF Tree
  <1>17. \A u \in M : KidsOk(t, u) /\ NodeOk(t, u)
    BY <1>3, <1>12, <1>13, <1>14, <1>15
  <1>18. SameBytes(s, t)
    BY <1>2, <1>6, <1>7 DEF SameBytes
  <1>19. Shape(t)
    BY <1>2, <1>11, <1>16, <1>17 DEF Shape, Tree
  <1> QED BY <1>2, <1>8, <1>9, <1>18, <1>19

-----------------------------------------------------------------------------
(* The walk of a path.                                                     *)

\* What vfs_follow_mounts computes, by one turn of its loop.
Follow(s, top) ==
    [u \in DOMAIN s.node |-> IF s.node[u].mounted = Null THEN u
                             ELSE top[s.vfs[s.node[u].mounted].root]]

\* g follows the chain nxt up to where it stops.
Climbs(n, stop, nxt, g) ==
    g \in [1..n -> 1..n] /\ \A u \in 1..n : g[u] = IF u \in stop THEN u ELSE g[nxt[u]]

\* Such a function exists when the chain goes up.
LEMMA ChainEnds ==
    ASSUME NEW n \in Nat, NEW stop, NEW nxt,
           \A u \in 1..n : u \notin stop => nxt[u] \in 1..n /\ nxt[u] > u
    PROVE  \E g : Climbs(n, stop, nxt, g)
  <1> DEFINE Up(k, g) == /\ g \in [1..n -> 1..n]
                         /\ \A u \in 1..n : u + k > n => g[u] = IF u \in stop THEN u ELSE g[nxt[u]]
             S == {k \in Nat : \E g : Up(k, g)}
  <1>1. 0 \in S
    <2>1. PICK g : g = [u \in 1..n |-> u]
      OBVIOUS
    <2>2. Up(0, g)
      BY <2>1
    <2> QED BY <2>2
  <1>2. ASSUME NEW k \in Nat, k \in S PROVE k + 1 \in S
    <2>1. PICK g : Up(k, g)
      BY <1>2
    <2>2. CASE k >= n
      <3>1. \A u \in 1..n : u + k > n
        BY <2>2
      <3>2. Up(k + 1, g)
        BY <2>1, <3>1
      <3>3. k + 1 \in Nat
        OBVIOUS
      <3> HIDE DEF Up
      <3> QED BY <3>2, <3>3
    <2>3. CASE k < n
      <3>1. PICK w \in 1..n : w = n - k
        BY <2>3
      <3>2. PICK x : x = IF w \in stop THEN w ELSE g[nxt[w]]
        OBVIOUS
      <3>3. x \in 1..n
        BY <2>1, <3>1, <3>2
      <3>4. PICK h : h = [g EXCEPT ![w] = x]
        OBVIOUS
      <3>5. h \in [1..n -> 1..n] /\ h[w] = x /\ \A u \in 1..n : u # w => h[u] = g[u]
        BY <2>1, <3>1, <3>3, <3>4
      <3>6. ASSUME NEW u \in 1..n, u + (k + 1) > n
            PROVE  h[u] = IF u \in stop THEN u ELSE h[nxt[u]]
        <4>1. u >= w
          BY <3>1, <3>6
        <4>2. u \notin stop => nxt[u] \in 1..n /\ nxt[u] # w
          BY <3>1, <4>1
        <4>3. u \notin stop => h[nxt[u]] = g[nxt[u]]
          BY <3>5, <4>2
        <4>4. CASE u = w
          BY <3>2, <3>5, <4>3, <4>4
        <4>5. CASE u # w
          <5>1. u + k > n
            BY <3>1, <4>1, <4>5
          <5> QED BY <2>1, <3>5, <4>3, <4>5, <5>1
        <4> QED BY <4>4, <4>5
      <3>7. Up(k + 1, h)
        BY <3>5, <3>6
      <3>8. k + 1 \in Nat
        OBVIOUS
      <3> HIDE DEF Up
      <3> QED BY <3>7, <3>8
    <2>4. k >= n \/ k < n
      OBVIOUS
    <2> HIDE DEF S
    <2> QED BY <2>2, <2>3, <2>4
  <1>3. n \in S
    <2> HIDE DEF S
    <2> QED BY <1>1, <1>2, Induct
  <1>4. PICK g : Up(n, g)
    BY <1>3
  <1>5. \A u \in 1..n : u + n > n
    OBVIOUS
  <1>6. Climbs(n, stop, nxt, g)
    BY <1>4, <1>5 DEF Climbs
  <1> QED BY <1>6

\* The top of the mounts on a vnode is a vnode.
LEMMA TopsNode ==
    ASSUME NEW s, Shape(s)
    PROVE  \A v \in DOMAIN s.node : Tops(s)[v] \in DOMAIN s.node
  <1>1. PICK q : q = s.node
    OBVIOUS
  <1>2. List(q)
    BY <1>1 DEF Shape, Form
  <1>3. PICK n \in Nat : DOMAIN q = 1..n
    BY <1>2, ListBasics
  <1>4. PICK stop, nxt : /\ stop = {u \in 1..n : q[u].mounted = Null}
                         /\ nxt = [u \in 1..n |-> s.vfs[q[u].mounted].root]
    OBVIOUS
  <1>5. \A u \in 1..n : u \notin stop => nxt[u] \in 1..n /\ nxt[u] > u
    BY <1>1, <1>3, <1>4 DEF Shape, Tree, NodeOk
  <1>6. PICK g : Climbs(n, stop, nxt, g)
    BY <1>5, ChainEnds
  <1>7. g = Follow(s, g)
    <2>1. \A u \in 1..n : g[u] = IF s.node[u].mounted = Null THEN u ELSE g[s.vfs[s.node[u].mounted].root]
      BY <1>1, <1>4, <1>6 DEF Climbs
    <2>2. g = [u \in 1..n |-> g[u]]
      BY <1>6 DEF Climbs
    <2>3. g = [u \in 1..n |-> IF s.node[u].mounted = Null THEN u ELSE g[s.vfs[s.node[u].mounted].root]]
      BY <2>1, <2>2
    <2> QED BY <1>1, <1>3, <2>3 DEF Follow
  <1>8. Tops(s) = CHOOSE f : f = Follow(s, f)
    BY DEF Tops, Follow
  <1>9. PICK f : f = Tops(s)
    OBVIOUS
  <1>10. f = Follow(s, f)
    BY <1>7, <1>8, <1>9
  <1>11. \A u \in 1..n : f[u] = IF u \in stop THEN u ELSE f[nxt[u]]
    BY <1>1, <1>3, <1>4, <1>10 DEF Follow
  <1> DEFINE S == {k \in Nat : \A u \in 1..n : u + k > n => f[u] \in 1..n}
  <1>12. 0 \in S
    OBVIOUS
  <1>13. ASSUME NEW k \in Nat, k \in S PROVE k + 1 \in S
    <2>1. ASSUME NEW u \in 1..n, u + (k + 1) > n PROVE f[u] \in 1..n
      <3>1. CASE u \in stop
        BY <1>11, <3>1
      <3>2. CASE u \notin stop
        <4>1. PICK w \in 1..n : w = nxt[u] /\ w > u
          BY <1>5, <3>2
        <4>2. w + k > n
          BY <2>1, <4>1
        <4> QED BY <1>11, <1>13, <3>2, <4>1, <4>2
      <3> QED BY <3>1, <3>2
    <2> QED BY <2>1
  <1>14. n \in S
    <2> HIDE DEF S
    <2> QED BY <1>12, <1>13, Induct
  <1>15. \A u \in 1..n : f[u] \in 1..n
    BY <1>14
  <1> QED BY <1>1, <1>3, <1>9, <1>15

\* A vnode or none.
Spot(s) == DOMAIN s.node \cup {Null}

\* No vnode is 0.
LEMMA NodesPositive ==
    ASSUME NEW s, Form(s)
    PROVE  Null \notin DOMAIN s.node /\ \A v \in DOMAIN s.node : v \in Nat /\ v > 0
  <1>1. PICK q : q = s.node
    OBVIOUS
  <1>2. List(q)
    BY <1>1 DEF Form
  <1>3. DOMAIN q = 1..Len(q) /\ Len(q) \in Nat
    BY <1>2, ListBasics
  <1> QED BY <1>1, <1>3 DEF Null

\* tmpfs_find_child finds a child of that name, if there is one.
LEMMA FindChild ==
    ASSUME NEW s, Shape(s), NEW d \in DOMAIN s.node, NEW name
    PROVE  /\ tmpfs_find_child(s, d, name) \in Spot(s)
           /\ tmpfs_find_child(s, d, name) = Null =>
                  \A i \in DOMAIN s.node[d].kids : s.node[s.node[d].kids[i]].name # name
  <1>1. PICK kids : kids = s.node[d].kids
    OBVIOUS
  <1>2. kids \in Seq(DOMAIN s.node)
    BY <1>1 DEF Shape, Tree, KidsOk
  <1>3. DOMAIN kids \subseteq Nat /\ \A i \in DOMAIN kids : kids[i] \in DOMAIN s.node
    BY <1>2
  <1>4. PICK hits : hits = {i \in DOMAIN kids : s.node[kids[i]].name = name}
    OBVIOUS
  <1>5. CASE hits = {}
    BY <1>1, <1>4, <1>5 DEF tmpfs_find_child, Spot
  <1>6. CASE hits # {}
    <2>1. hits \subseteq Nat
      BY <1>3, <1>4
    <2>2. \E x \in hits : \A y \in hits : x <= y
      BY <1>6, <2>1, LeastNumber
    <2>3. PICK k : k = CHOOSE i \in hits : \A j \in hits : i <= j
      OBVIOUS
    <2>4. k \in hits
      BY <2>2, <2>3
    <2>5. tmpfs_find_child(s, d, name) = kids[k]
      BY <1>1, <1>4, <1>6, <2>3 DEF tmpfs_find_child
    <2>6. kids[k] \in DOMAIN s.node
      BY <1>3, <1>4, <2>4
    <2>7. kids[k] # Null
      BY <2>6, NodesPositive DEF Shape
    <2> QED BY <2>5, <2>6, <2>7 DEF Spot
  <1> QED BY <1>5, <1>6

\* A step of the walk goes from a vnode to a vnode, or fails.
LEMMA WalkStepSpot ==
    ASSUME NEW s, Shape(s), NEW v \in Spot(s), NEW name
    PROVE  WalkStep(s, v, name) \in Spot(s)
  <1>1. ASSUME NEW u \in Spot(s) PROVE vfs_follow_mounts(s, u) \in Spot(s)
    BY TopsNode DEF vfs_follow_mounts, Spot
  <1>2. v # Null => tmpfs_lookup(s, v, name) \in Spot(s)
    BY FindChild DEF tmpfs_lookup, Spot
  <1> QED BY <1>1, <1>2 DEF WalkStep, Spot

\* The loop of vfs_lookup, by its turns.
Hops(s, start, path, at) ==
    [i \in 0..Len(path) |-> IF i = 0 THEN start ELSE WalkStep(s, at[i - 1], path[i])]

\* Every step of it is at a vnode, or has failed.
LEMMA StepsSpot ==
    ASSUME NEW s, Shape(s), NEW start \in Spot(s), NEW path, Len(path) \in Nat
    PROVE  \A i \in 0..Len(path) : Steps(s, start, path)[i] \in Spot(s)
  <1>1. PICK n \in Nat : n = Len(path)
    OBVIOUS
  <1> DEFINE To(m, f) == f = [i \in 0..m |-> IF i = 0 THEN start ELSE WalkStep(s, f[i - 1], path[i])]
             S == {m \in Nat : \E f : To(m, f)}
  <1>3. 0 \in S
    <2>1. PICK f : f = [i \in 0..0 |-> start]
      OBVIOUS
    <2>2. To(0, f)
      BY <2>1
    <2> QED BY <2>2
  <1>4. ASSUME NEW m \in Nat, m \in S PROVE m + 1 \in S
    <2>1. PICK f : To(m, f)
      BY <1>4
    <2>2. /\ DOMAIN f = 0..m /\ f[0] = start
          /\ \A i \in 1..m : f[i] = WalkStep(s, f[i - 1], path[i])
      BY <2>1
    <2>3. PICK y : y = WalkStep(s, f[m], path[m + 1])
      OBVIOUS
    <2>4. PICK g : g = [i \in 0..(m + 1) |-> IF i = m + 1 THEN y ELSE f[i]]
      OBVIOUS
    <2>5. /\ g[0] = start /\ g[m + 1] = y /\ \A i \in 0..m : g[i] = f[i]
      BY <2>2, <2>4
    <2>6. ASSUME NEW i \in 0..(m + 1)
          PROVE  (IF i = m + 1 THEN y ELSE f[i]) = (IF i = 0 THEN start ELSE WalkStep(s, g[i - 1], path[i]))
      <3>1. CASE i = 0
        BY <2>2, <3>1
      <3>2. CASE i \in 1..m
        <4>1. i - 1 \in 0..m /\ i # 0 /\ i # m + 1
          BY <3>2
        <4> QED BY <2>2, <2>5, <3>2, <4>1
      <3>3. CASE i = m + 1
        <4>1. i - 1 = m /\ m \in 0..m /\ i # 0
          BY <3>3
        <4> QED BY <2>3, <2>5, <3>3, <4>1
      <3> QED BY <3>1, <3>2, <3>3
    <2>7. g = [i \in 0..(m + 1) |-> IF i = 0 THEN start ELSE WalkStep(s, g[i - 1], path[i])]
      BY <2>4, <2>6
    <2>8. To(m + 1, g)
      BY <2>7
    <2>9. m + 1 \in Nat
      OBVIOUS
    <2> HIDE DEF To
    <2> QED BY <2>8, <2>9
  <1>5. PICK f : To(n, f)
    <2>1. n \in S
      <3> HIDE DEF S
      <3> QED BY <1>3, <1>4, Induct
    <2> QED BY <2>1
  <1>6. f = Hops(s, start, path, f)
    BY <1>1, <1>5 DEF Hops
  <1>7. Steps(s, start, path) = CHOOSE t : t = Hops(s, start, path, t)
    BY DEF Steps, Hops
  <1>8. PICK a : a = Steps(s, start, path)
    OBVIOUS
  <1>9. a = Hops(s, start, path, a)
    BY <1>6, <1>7, <1>8
  <1>10. a[0] = start /\ \A i \in 1..n : a[i] = WalkStep(s, a[i - 1], path[i])
    BY <1>1, <1>9 DEF Hops
  <1> DEFINE T == {m \in Nat : m <= n => a[m] \in Spot(s)}
  <1>11. 0 \in T
    BY <1>10
  <1>12. ASSUME NEW m \in Nat, m \in T PROVE m + 1 \in T
    <2>1. ASSUME m + 1 <= n PROVE a[m + 1] \in Spot(s)
      <3>1. m + 1 \in 1..n /\ (m + 1) - 1 = m /\ m <= n
        BY <2>1
      <3>2. a[m] \in Spot(s)
        BY <1>12, <3>1
      <3>3. WalkStep(s, a[m], path[m + 1]) \in Spot(s)
        BY <3>2, WalkStepSpot
      <3> QED BY <1>10, <3>1, <3>3
    <2> QED BY <2>1
  <1>13. Nat \subseteq T
    <2> HIDE DEF T
    <2> QED BY <1>11, <1>12, Induct
  <1> QED BY <1>1, <1>8, <1>13

\* What a call that looks a vnode up returns: it, held, or an error.
Got(s, r) ==
    \/ r.rc = -1 /\ r.v = Null /\ Still(s, r.s)
    \/ r.rc = 0 /\ r.v \in DOMAIN s.node /\ r.s = vnode_hold(s, r.v)

LEMMA HeldGot ==
    ASSUME NEW s, Form(s), NEW v \in Spot(s)
    PROVE  Got(s, Held(s, v))
  <1>1. PICK r : r = Held(s, v)
    OBVIOUS
  <1>2. CASE v = Null
    <2>1. r.rc = -1 /\ r.v = Null /\ r.s = s
      BY <1>1, <1>2 DEF Held, Rc
    <2>2. Still(s, s)
      BY StillSelf
    <2> QED BY <1>1, <2>1, <2>2 DEF Got
  <1>3. CASE v # Null
    <2>1. r.rc = 0 /\ r.v = v /\ r.s = vnode_hold(s, v)
      BY <1>1, <1>3 DEF Held, Rc
    <2>2. v \in DOMAIN s.node
      BY <1>3 DEF Spot
    <2> QED BY <1>1, <2>1, <2>2 DEF Got
  <1> QED BY <1>2, <1>3

\* vfs_lookup.
LEMMA LookupGot ==
    ASSUME NEW s, Shape(s), NEW start \in Spot(s), NEW path \in Seq(STRING), NEW parent \in BOOLEAN
    PROVE  Got(s, vfs_lookup(s, start, path, parent))
  <1>1. PICK cur : cur = vfs_follow_mounts(s, start) /\ cur \in Spot(s)
    BY TopsNode DEF vfs_follow_mounts, Spot
  <1>2. PICK v : v = IF cur = Null \/ path = <<>> THEN cur ELSE Walk(s, cur, path, parent)
    OBVIOUS
  <1>3. v \in Spot(s)
    <2>1. CASE cur = Null \/ path = <<>>
      BY <1>1, <1>2, <2>1
    <2>2. CASE ~(cur = Null \/ path = <<>>)
      <3>1. Len(path) \in Nat /\ Len(path) \in 0..Len(path) /\ Len(path) - 1 \in 0..Len(path)
        BY <2>2
      <3>2. \A i \in 0..Len(path) : Steps(s, cur, path)[i] \in Spot(s)
        BY <1>1, <3>1, StepsSpot
      <3>3. Walk(s, cur, path, parent) \in Spot(s)
        BY <3>1, <3>2 DEF Walk, Spot
      <3> QED BY <1>2, <2>2, <3>3
    <2> QED BY <2>1, <2>2
  <1>4. vfs_lookup(s, start, path, parent) = Held(s, v)
    BY <1>1, <1>2 DEF vfs_lookup
  <1>5. Got(s, Held(s, v))
    BY <1>3, HeldGot DEF Shape
  <1> QED BY <1>4, <1>5

\* A reference that was taken and is given back.
LEMMA GiveBack ==
    ASSUME NEW s, Shape(s), NEW v \in DOMAIN s.node
    PROVE  Still(s, vnode_release(vnode_hold(s, v), v))
  <1>1. PICK t, w : t = vnode_hold(s, v) /\ w = vnode_release(t, v)
    OBVIOUS
  <1>2. Moved(s, t, v, 1)
    BY <1>1, HoldMoves
  <1>3. Shape(t) /\ v \in DOMAIN t.node
    BY <1>2, KinShape DEF Moved, Kin
  <1>4. Moved(t, w, v, -1)
    BY <1>1, <1>3, HoldMoves
  <1>5. Still(s, w)
    BY <1>2, <1>4, MovedBack DEF Shape
  <1> QED BY <1>1, <1>5

\* vfs_open.
LEMMA OpenGot ==
    ASSUME NEW s, Shape(s), NEW ref \in Spot(s), NEW path, path = None \/ path \in Seq(STRING), NEW flags
    PROVE  Got(s, vfs_open(s, ref, path, flags))
  <1>1. PICK at : at = IF path = None THEN Held(s, ref) ELSE vfs_lookup(s, s.root, path, FALSE)
    OBVIOUS
  <1>2. s.root \in Spot(s) /\ FALSE \in BOOLEAN
    BY DEF Shape, Form, Spot
  <1>3. Got(s, at)
    BY <1>1, <1>2, HeldGot, LookupGot DEF Shape
  <1>4. PICK r : r = vfs_open(s, ref, path, flags)
    OBVIOUS
  <1>5. r = IF at.rc # 0 \/ tmpfs_open_ok(s, at.v, flags) THEN at
            ELSE Rc(-1, vnode_release(at.s, at.v), Null)
    BY <1>1, <1>4 DEF vfs_open
  <1>6. CASE at.rc # 0 \/ tmpfs_open_ok(s, at.v, flags)
    BY <1>3, <1>4, <1>5, <1>6
  <1>7. CASE ~(at.rc # 0 \/ tmpfs_open_ok(s, at.v, flags))
    <2>1. at.v \in DOMAIN s.node /\ at.s = vnode_hold(s, at.v)
      BY <1>3, <1>7 DEF Got
    <2>2. Still(s, vnode_release(at.s, at.v))
      BY <2>1, GiveBack
    <2>3. r.rc = -1 /\ r.v = Null /\ r.s = vnode_release(at.s, at.v)
      BY <1>5, <1>7 DEF Rc
    <2> QED BY <1>4, <2>2, <2>3 DEF Got
  <1> QED BY <1>6, <1>7

\* A name that tmpfs_create accepts is free.
LEMMA CreateFree ==
    ASSUME NEW s, Shape(s), NEW d \in DOMAIN s.node, NEW name, NEW type,
           tmpfs_create_ok(s, d, name, type)
    PROVE  Free(s, d, name)
  <1>1. IsDir(s, d) /\ tmpfs_find_child(s, d, name) = Null
    BY DEF tmpfs_create_ok
  <1>2. \A i \in DOMAIN s.node[d].kids : s.node[s.node[d].kids[i]].name # name
    BY <1>1, FindChild
  <1> QED BY <1>1, <1>2 DEF Free

\* t is s with the new last node m in directory d, which gave a reference back.
Born(s, t, d, m, name, type) ==
    /\ Shape(t) /\ SameBytes(s, t) /\ SameMounts(s.vfs, t.vfs)
    /\ DOMAIN t.node = DOMAIN s.node \cup {m} /\ m \notin DOMAIN s.node
    /\ t.node[m].refcount = 1 /\ t.node[m].type = type /\ t.node[m].name = name
    /\ Blank(t.node[m]) /\ m = Len(s.node) + 1
    /\ t.node[d].refcount = s.node[d].refcount - 1
    /\ \A u \in DOMAIN s.node \ {d} : t.node[u].refcount = s.node[u].refcount
    /\ \A u \in DOMAIN s.node : t.node[u].type = s.node[u].type /\ t.node[u].name = s.node[u].name
    /\ \A u \in DOMAIN s.node \ {d} : t.node[u].kids = s.node[u].kids
    /\ t.node[d].kids = <<m>> \o s.node[d].kids

\* The second half of vfs_create.
LEMMA EndBorn ==
    ASSUME NEW s, Shape(s), NEW d \in DOMAIN s.node, NEW name, NEW type, NEW inode, NEW count,
           Free(s, d, name), NEW r, r = CreateEnd(s, d, name, type, inode, count)
    PROVE  /\ r.rc = 0 /\ r.v = Len(s.node) + 1 /\ Born(s, r.s, d, r.v, name, type)
           /\ Tallied(s, r.s, s.node[d].vfs, r.v, inode, count)
  <1>1. PICK t, w, m : /\ t = CreateChild(s, d, name, type, inode, count)
                       /\ w = vnode_release(t, d) /\ m = Len(s.node) + 1
    OBVIOUS
  <1>2. r.rc = 0 /\ r.s = w /\ r.v = m
    BY <1>1 DEF CreateEnd, Rc
  <1>3. Sprouted(s, t, d, m, name, type) /\ Tallied(s, t, s.node[d].vfs, m, inode, count)
    BY <1>1, CreateSprouts
  <1>4. /\ Shape(t) /\ SameBytes(s, t)
        /\ \A u \in DOMAIN s.node : t.node[u].refcount = s.node[u].refcount
        /\ \A u \in DOMAIN s.node : t.node[u].type = s.node[u].type /\ t.node[u].name = s.node[u].name
        /\ t.node[d].kids = <<m>> \o s.node[d].kids
    BY <1>3, SproutShape
  <1>5. /\ DOMAIN t.node = DOMAIN s.node \cup {m} /\ m \notin DOMAIN s.node /\ SameMounts(s.vfs, t.vfs)
        /\ t.node[m].refcount = 1 /\ t.node[m].type = type /\ t.node[m].name = name
        /\ Blank(t.node[m]) /\ \A u \in DOMAIN s.node \ {d} : t.node[u] = s.node[u]
    BY <1>3 DEF Sprouted
  <1>6. d \in DOMAIN t.node
    BY <1>5
  <1>7. Moved(t, w, d, -1)
    BY <1>1, <1>4, <1>6, HoldMoves
  <1>8. Kin(t, w) /\ SameBytes(t, w) /\ w.vfs = t.vfs
    BY <1>7 DEF Moved
  <1>9. Shape(w)
    BY <1>4, <1>8, KinShape
  <1>10. DOMAIN w.node = DOMAIN t.node /\ \A u \in DOMAIN t.node :
           /\ w.node[u].type = t.node[u].type /\ w.node[u].name = t.node[u].name
           /\ w.node[u].kids = t.node[u].kids
    BY <1>8 DEF Kin, SamePlace
  <1>11. SameBytes(s, w)
    BY <1>4, <1>5, <1>8 DEF SameBytes
  <1>12. w.node[m].refcount = 1 /\ \A u \in DOMAIN s.node \ {d} : w.node[u].refcount = s.node[u].refcount
    <2>1. \A u \in DOMAIN t.node : u # d => w.node[u].refcount = t.node[u].refcount
      BY <1>7 DEF Moved
    <2> QED BY <1>4, <1>5, <2>1
  <1>13. w.node[d].refcount = s.node[d].refcount - 1
    <2>1. w.node[d].refcount = t.node[d].refcount + (-1) /\ t.node[d].refcount = s.node[d].refcount
      BY <1>4, <1>7 DEF Moved
    <2>2. s.node[d].refcount \in Int
      BY DEF Shape, Form
    <2> QED BY <2>1, <2>2
  <1>14. \A u \in DOMAIN s.node : w.node[u].type = s.node[u].type /\ w.node[u].name = s.node[u].name
    BY <1>4, <1>5, <1>10
  <1>15. \A u \in DOMAIN s.node \ {d} : w.node[u].kids = s.node[u].kids
    BY <1>5, <1>10
  <1>16. /\ w.node[d].kids = <<m>> \o s.node[d].kids /\ DOMAIN w.node = DOMAIN s.node \cup {m}
         /\ w.node[m].type = type /\ w.node[m].name = name /\ SameMounts(s.vfs, w.vfs)
    BY <1>4, <1>5, <1>6, <1>8, <1>10
  <1>18. Blank(w.node[m])
    BY <1>5, <1>8 DEF Blank, SameBytes
  <1>17. Born(s, w, d, m, name, type)
    BY <1>1, <1>18, <1>5, <1>9, <1>11, <1>12, <1>13, <1>14, <1>15, <1>16 DEF Born
  <1>19. \A u \in DOMAIN t.node : w.node[u].vfs = t.node[u].vfs /\ w.node[u].inode = t.node[u].inode
    BY <1>8 DEF Kin, SamePlace
  <1>20. SameFs(s, w)
    BY <1>3, <1>5, <1>19 DEF Tallied, SameFs
  <1>21. Tallied(s, w, s.node[d].vfs, m, inode, count)
    BY <1>3, <1>5, <1>8, <1>19, <1>20 DEF Tallied
  <1> QED BY <1>1, <1>2, <1>17, <1>21

-----------------------------------------------------------------------------
(* The counters.                                                           *)

\* The nodes of file system f, and one cell for every byte of the files V.
Mine(s, f)   == {v \in DOMAIN s.node : s.node[v].vfs = f}
Column(v, k) == {v} \X (1..k)
Cells(s, V)  == UNION {Column(v, s.node[v].size) : v \in V}

LEMMA ColumnCount ==
    ASSUME NEW v, NEW k \in Nat
    PROVE  IsFiniteSet(Column(v, k)) /\ Cardinality(Column(v, k)) = k
  <1>1. IsFiniteSet({v}) /\ Cardinality({v}) = 1
    BY FS_Singleton
  <1>2. IsFiniteSet(1..k) /\ Cardinality(1..k) = k
    BY FS_Interval
  <1>3. IsFiniteSet({v} \X (1..k)) /\ Cardinality({v} \X (1..k)) = Cardinality({v}) * Cardinality(1..k)
    BY <1>1, <1>2, FS_Product
  <1> QED BY <1>1, <1>2, <1>3 DEF Column

\* The sizes of the files V are numbers.
Measured(s, V) == IsFiniteSet(V) /\ \A v \in V : s.node[v].size \in Nat

LEMMA CellsFinite ==
    ASSUME NEW s, NEW V, Measured(s, V)
    PROVE  IsFiniteSet(Cells(s, V)) /\ Cardinality(Cells(s, V)) \in Nat
  <1>1. PICK T, g : T = {Column(v, s.node[v].size) : v \in V} /\ g = [v \in V |-> Column(v, s.node[v].size)]
    OBVIOUS
  <1>2. g \in Surjection(V, T)
    BY <1>1 DEF Surjection
  <1>3. IsFiniteSet(T)
    BY <1>2, FS_Surjection DEF Measured
  <1>4. \A C \in T : IsFiniteSet(C)
    BY <1>1, ColumnCount DEF Measured
  <1>5. IsFiniteSet(UNION T)
    BY <1>3, <1>4, FS_UNION
  <1>6. IsFiniteSet(Cells(s, V))
    BY <1>1, <1>5 DEF Cells
  <1> QED BY <1>6, FS_CardinalityType

\* The bytes of one file and those of the others.
LEMMA CellsSplit ==
    ASSUME NEW s, NEW V, Measured(s, V), NEW v \in V
    PROVE  /\ Measured(s, V \ {v})
           /\ Cardinality(Cells(s, V)) = s.node[v].size + Cardinality(Cells(s, V \ {v}))
  <1>1. PICK W, A, B : W = V \ {v} /\ A = Column(v, s.node[v].size) /\ B = Cells(s, W)
    OBVIOUS
  <1>2. Measured(s, W)
    BY <1>1, FS_RemoveElement DEF Measured
  <1>3. Cells(s, V) = A \cup B
    BY <1>1 DEF Cells
  <1>4. A \cap B = {}
    BY <1>1 DEF Cells, Column
  <1>5. IsFiniteSet(A) /\ Cardinality(A) = s.node[v].size /\ s.node[v].size \in Nat
    BY <1>1, ColumnCount DEF Measured
  <1>6. IsFiniteSet(B) /\ Cardinality(B) \in Nat
    BY <1>1, <1>2, CellsFinite
  <1>7. Cardinality(A \cup B) = Cardinality(A) + Cardinality(B) - Cardinality(A \cap B)
    BY <1>5, <1>6, FS_Union
  <1>8. Cardinality(A \cap B) = 0
    BY <1>4, FS_EmptySet
  <1> QED BY <1>1, <1>2, <1>3, <1>5, <1>6, <1>7, <1>8

LEMMA CellsSame ==
    ASSUME NEW s, NEW t, NEW V, \A v \in V : t.node[v].size = s.node[v].size
    PROVE  Cells(t, V) = Cells(s, V) /\ (Measured(s, V) => Measured(t, V))
  BY DEF Cells, Measured

\* The sum of CountersExact, one file after the other in any order, is the
\* number of cells.
Sums(s, M, g) ==
    [S \in SUBSET M |-> IF S = {} THEN 0
                        ELSE LET v == CHOOSE x \in S : TRUE IN s.node[v].size + g[S \ {v}]]

LEMMA SumCells ==
    ASSUME NEW s, NEW M, Measured(s, M), NEW h, h = CHOOSE g : g = Sums(s, M, g)
    PROVE  h[M] = Cardinality(Cells(s, M))
  <1>1. \A S \in SUBSET M : Measured(s, S)
    BY FS_Subset DEF Measured
  <1>2. PICK g : g = [S \in SUBSET M |-> Cardinality(Cells(s, S))]
    OBVIOUS
  <1>3. Cardinality(Cells(s, {})) = 0
    <2>1. Cells(s, {}) = {}
      BY DEF Cells
    <2> QED BY <2>1, FS_EmptySet
  <1>4. ASSUME NEW S \in SUBSET M, S # {}, NEW v, v = CHOOSE x \in S : TRUE
        PROVE  v \in S /\ S \ {v} \in SUBSET M /\ Cardinality(Cells(s, S)) = s.node[v].size + g[S \ {v}]
    <2>1. v \in S
      BY <1>4
    <2>2. Cardinality(Cells(s, S)) = s.node[v].size + Cardinality(Cells(s, S \ {v}))
      BY <1>1, <2>1, CellsSplit
    <2>3. S \ {v} \in SUBSET M
      OBVIOUS
    <2> QED BY <1>2, <2>1, <2>2, <2>3
  <1>5. \A S \in SUBSET M : Cardinality(Cells(s, S)) =
            IF S = {} THEN 0 ELSE LET v == CHOOSE x \in S : TRUE IN s.node[v].size + g[S \ {v}]
    BY <1>3, <1>4
  <1>6. g = Sums(s, M, g)
    BY <1>2, <1>5 DEF Sums
  <1>7. h = Sums(s, M, h)
    BY <1>6
  <1> DEFINE T == {n \in Nat : \A S \in SUBSET M : Cardinality(S) = n => h[S] = Cardinality(Cells(s, S))}
  <1>8. 0 \in T
    <2>1. ASSUME NEW S \in SUBSET M, Cardinality(S) = 0 PROVE h[S] = Cardinality(Cells(s, S))
      <3>1. S = {}
        BY <1>1, <2>1, FS_EmptySet DEF Measured
      <3>2. h[{}] = 0
        BY <1>7, <2>1, <3>1 DEF Sums
      <3> QED BY <1>3, <3>1, <3>2
    <2> QED BY <2>1
  <1>9. ASSUME NEW n \in Nat, n \in T PROVE n + 1 \in T
    <2>1. ASSUME NEW S \in SUBSET M, Cardinality(S) = n + 1 PROVE h[S] = Cardinality(Cells(s, S))
      <3>1. S # {} /\ IsFiniteSet(S)
        BY <1>1, <2>1, FS_EmptySet DEF Measured
      <3>2. PICK v : v = CHOOSE x \in S : TRUE
        OBVIOUS
      <3>3. v \in S /\ S \ {v} \in SUBSET M
        BY <1>4, <3>1, <3>2
      <3>4. h[S] = s.node[v].size + h[S \ {v}]
        BY <1>7, <3>1, <3>2 DEF Sums
      <3>5. Cardinality(S \ {v}) = n
        BY <2>1, <3>1, <3>3, FS_RemoveElement
      <3>6. h[S \ {v}] = Cardinality(Cells(s, S \ {v}))
        BY <1>9, <3>3, <3>5
      <3>7. Cardinality(Cells(s, S)) = s.node[v].size + Cardinality(Cells(s, S \ {v}))
        BY <1>1, <3>3, CellsSplit
      <3> QED BY <3>4, <3>6, <3>7
    <2> QED BY <2>1
  <1>10. Nat \subseteq T
    <2> HIDE DEF T
    <2> QED BY <1>8, <1>9, Induct
  <1>11. Cardinality(M) \in Nat
    BY FS_CardinalityType DEF Measured
  <1>12. PICK n : n = Cardinality(M)
    OBVIOUS
  <1>13. n \in T
    BY <1>10, <1>11, <1>12
  <1> QED BY <1>12, <1>13

\* The buffers hold the files.
Sized(s) == \A v \in DOMAIN s.node : FileOk(s.node[v])

\* The counters of file system f are right, and the next inode number is new.
FsCounted(s, f) == LET a == s.vfs[f] IN
    /\ a.node_count = Cardinality(Mine(s, f)) /\ a.byte_count = Cardinality(Cells(s, Mine(s, f)))
    /\ a.next_inode \in Nat
    /\ \A u \in Mine(s, f) : s.node[u].inode \in Nat /\ s.node[u].inode < a.next_inode
    /\ \A u, v \in Mine(s, f) : s.node[u].inode = s.node[v].inode => u = v

Counted(s) == \A f \in DOMAIN s.vfs : FsCounted(s, f)

LEMMA MineMeasured ==
    ASSUME NEW s, List(s.node), Sized(s), NEW f
    PROVE  Measured(s, Mine(s, f)) /\ IsFiniteSet(Mine(s, f))
  <1>1. PICK q : q = s.node
    OBVIOUS
  <1>2. DOMAIN q = 1..Len(q) /\ Len(q) \in Nat
    BY <1>1, ListBasics
  <1>3. IsFiniteSet(DOMAIN q)
    BY <1>2, FS_Interval
  <1>4. Mine(s, f) \in SUBSET DOMAIN q
    BY <1>1 DEF Mine
  <1>5. IsFiniteSet(Mine(s, f))
    BY <1>3, <1>4, FS_Subset
  <1>6. \A v \in Mine(s, f) : s.node[v].size \in Nat
    BY DEF Sized, FileOk, Mine
  <1> QED BY <1>5, <1>6 DEF Measured

\* Another file system, or none, is concerned.
SameSizes(s, t, f) == \A u \in Mine(s, f) : t.node[u].size = s.node[u].size

LEMMA CountedSame ==
    ASSUME NEW s, NEW t, NEW f, FsCounted(s, f), SameFs(s, t), SameSizes(s, t, f),
           Mine(t, f) = Mine(s, f), t.vfs[f] = s.vfs[f]
    PROVE  FsCounted(t, f)
  <1>1. PICK V : V = Mine(s, f) /\ V = Mine(t, f)
    OBVIOUS
  <1>2. \A u \in V : t.node[u].inode = s.node[u].inode /\ t.node[u].size = s.node[u].size
    BY <1>1 DEF Mine, SameFs, SameSizes
  <1>3. Cells(t, V) = Cells(s, V)
    BY <1>2, CellsSame
  <1> QED BY <1>1, <1>2, <1>3 DEF FsCounted

\* A create: m is the new node, in file system f.
LEMMA CountedMore ==
    ASSUME NEW s, List(s.node), Sized(s), NEW f, NEW t, NEW m, NEW inode, NEW count,
           FsCounted(s, f), Tallied(s, t, f, m, inode, count), SameBytes(s, t),
           inode = s.vfs[f].next_inode, count = s.vfs[f].node_count,
           DOMAIN t.node = DOMAIN s.node \cup {m}, m \notin DOMAIN s.node, t.node[m].size = 0
    PROVE  FsCounted(t, f)
  <1>1. PICK V, W : V = Mine(s, f) /\ W = Mine(t, f)
    OBVIOUS
  <1>2. W = V \cup {m} /\ m \notin V /\ V = W \ {m}
    BY <1>1 DEF Mine, Tallied, SameFs
  <1>3. Measured(s, V) /\ IsFiniteSet(V)
    BY <1>1, MineMeasured
  <1>4. \A u \in V : t.node[u].inode = s.node[u].inode /\ t.node[u].size = s.node[u].size
    BY <1>1 DEF Mine, SameFs, SameBytes, Tallied
  <1>5. Cells(t, V) = Cells(s, V) /\ Measured(t, V)
    BY <1>3, <1>4, CellsSame
  <1>6. IsFiniteSet(W) /\ Cardinality(W) = Cardinality(V) + 1
    BY <1>2, <1>3, FS_AddElement
  <1>7. Measured(t, W)
    BY <1>2, <1>5, <1>6 DEF Measured
  <1>8. Cardinality(Cells(t, W)) = Cardinality(Cells(t, V))
    <2>1. Cardinality(Cells(t, W)) = t.node[m].size + Cardinality(Cells(t, W \ {m}))
      BY <1>2, <1>7, CellsSplit
    <2>2. Cardinality(Cells(t, V)) \in Nat
      BY <1>5, CellsFinite
    <2>3. PICK x, y : x = Cardinality(Cells(t, V)) /\ y = Cardinality(Cells(t, W))
      OBVIOUS
    <2>4. x \in Nat /\ y = 0 + x
      BY <1>2, <2>1, <2>2, <2>3
    <2> QED BY <2>3, <2>4
  <1>9. PICK i : i \in Nat /\ i = inode /\ s.vfs[f].next_inode = i /\ t.vfs[f].next_inode = i + 1
                 /\ t.node[m].inode = i
    BY DEF FsCounted, Tallied
  <1>10. \A u \in V : s.node[u].inode \in Nat /\ s.node[u].inode < i
    BY <1>1, <1>9 DEF FsCounted
  <1>11. \A u \in W : t.node[u].inode \in Nat /\ t.node[u].inode < i + 1
    BY <1>2, <1>4, <1>9, <1>10
  <1>12. ASSUME NEW u \in W, NEW v \in W, t.node[u].inode = t.node[v].inode PROVE u = v
    <2>1. CASE u \in V /\ v \in V
      BY <1>1, <1>4, <1>12, <2>1 DEF FsCounted
    <2>2. CASE u = m /\ v \in V
      BY <1>4, <1>9, <1>10, <1>12, <2>2
    <2>3. CASE u \in V /\ v = m
      BY <1>4, <1>9, <1>10, <1>12, <2>3
    <2> QED BY <1>2, <1>12, <2>1, <2>2, <2>3
  <1>13. t.vfs[f].node_count = Cardinality(W) /\ t.vfs[f].byte_count = Cardinality(Cells(t, W))
    BY <1>1, <1>5, <1>6, <1>8 DEF FsCounted, Tallied
  <1> QED BY <1>1, <1>9, <1>11, <1>12, <1>13 DEF FsCounted

LEMMA KinSameFs ==
    ASSUME NEW s, NEW t, Kin(s, t)
    PROVE  SameFs(s, t) /\ \A f : Mine(t, f) = Mine(s, f)
  BY DEF Kin, SamePlace, SameFs, Mine

LEMMA CountedEdited ==
    ASSUME NEW s, List(s.node), Sized(s), NEW t, Kin(s, t), NEW w \in DOMAIN s.node, NEW n,
           Edited(s, t, w, n), n.size \in Nat, NEW f, f = s.node[w].vfs, FsCounted(s, f),
           Billed(s.vfs, t.vfs, f, s.vfs[f].byte_count + (n.size - s.node[w].size))
    PROVE  FsCounted(t, f)
  <1>1. PICK V : V = Mine(s, f) /\ V = Mine(t, f)
    BY KinSameFs
  <1>2. w \in V /\ Measured(s, V)
    BY <1>1, MineMeasured DEF Mine
  <1>3. \A u \in V : t.node[u].inode = s.node[u].inode
    BY <1>1, KinSameFs DEF SameFs, Mine
  <1>4. t.node[w].size = n.size /\ \A u \in V \ {w} : t.node[u].size = s.node[u].size
    BY <1>1 DEF Edited, Mine
  <1>5. PICK R : R = V \ {w}
    OBVIOUS
  <1>6. Cells(t, R) = Cells(s, R)
    BY <1>4, <1>5, CellsSame
  <1>7. Cardinality(Cells(s, V)) = s.node[w].size + Cardinality(Cells(s, R)) /\ Measured(s, R)
    BY <1>2, <1>5, CellsSplit
  <1>8. Measured(t, V)
    BY <1>2, <1>4 DEF Measured
  <1>9. Cardinality(Cells(t, V)) = n.size + Cardinality(Cells(t, R))
    BY <1>2, <1>4, <1>5, <1>8, CellsSplit
  <1>10. PICK a, b, c : /\ a = s.node[w].size /\ b = n.size /\ c = Cardinality(Cells(s, R))
                        /\ a \in Nat /\ b \in Nat /\ c \in Nat
    BY <1>2, <1>7, CellsFinite DEF Measured
  <1>11. s.vfs[f].byte_count = a + c
    BY <1>1, <1>7, <1>10 DEF FsCounted
  <1>12. t.vfs[f].byte_count = (a + c) + (b - a)
    BY <1>10, <1>11 DEF Billed
  <1>13. t.vfs[f].byte_count = Cardinality(Cells(t, V))
    BY <1>6, <1>9, <1>10, <1>12
  <1> QED BY <1>1, <1>3, <1>13 DEF FsCounted, Billed

\* A new file system.
LEMMA CountedNew ==
    ASSUME NEW t, NEW f, NEW m, Mine(t, f) = {m}, t.node[m].size = 0, t.node[m].inode = 1, Opened(t.vfs[f])
    PROVE  FsCounted(t, f)
  <1>1. IsFiniteSet({m}) /\ Cardinality({m}) = 1
    BY FS_Singleton
  <1>2. Column(m, 0) = {}
    BY DEF Column
  <1>3. Cells(t, {m}) = {}
    BY <1>2 DEF Cells
  <1>4. Cardinality({}) = 0
    BY FS_EmptySet
  <1> QED BY <1>1, <1>3, <1>4 DEF FsCounted, Opened

\* Nothing is created or written.
LEMMA CountedStill ==
    ASSUME NEW s, NEW t, Kin(s, t), SameBytes(s, t), t.vfs = s.vfs, Counted(s)
    PROVE  Counted(t)
  <1>1. SameFs(s, t) /\ \A f : Mine(t, f) = Mine(s, f)
    BY KinSameFs
  <1>2. \A f : SameSizes(s, t, f)
    BY DEF SameBytes, SameSizes, Mine
  <1>3. ASSUME NEW f \in DOMAIN t.vfs PROVE FsCounted(t, f)
    <2>1. FsCounted(s, f) /\ t.vfs[f] = s.vfs[f] /\ Mine(t, f) = Mine(s, f)
      BY <1>1 DEF Counted
    <2> QED BY <1>1, <1>2, <2>1, CountedSame
  <1> QED BY <1>3 DEF Counted

\* vfs_create, when the counters it read are still right.
LEMMA CountedBorn ==
    ASSUME NEW s, Shape(s), Sized(s), Counted(s), NEW d \in DOMAIN s.node, NEW f, f = s.node[d].vfs,
           NEW m, NEW name, NEW type, NEW inode, NEW count, NEW t,
           Born(s, t, d, m, name, type), Tallied(s, t, f, m, inode, count),
           inode = s.vfs[f].next_inode, count = s.vfs[f].node_count
    PROVE  Counted(t)
  <1>1. f \in DOMAIN s.vfs /\ List(s.node)
    BY DEF Shape, Form, Tree, NodeOk
  <1>2. /\ DOMAIN t.node = DOMAIN s.node \cup {m} /\ m \notin DOMAIN s.node /\ SameBytes(s, t)
        /\ t.node[m].size = 0
    BY DEF Born, Blank
  <1>3. FsCounted(s, f)
    BY <1>1 DEF Counted
  <1>4. FsCounted(t, f)
    BY <1>1, <1>2, <1>3, CountedMore
  <1>5. ASSUME NEW g \in DOMAIN t.vfs, g # f PROVE FsCounted(t, g)
    <2>1. SameFs(s, t) /\ t.node[m].vfs = f /\ g \in DOMAIN s.vfs /\ t.vfs[g] = s.vfs[g]
      BY <1>5 DEF Tallied
    <2>2. Mine(t, g) = Mine(s, g)
      BY <1>2, <1>5, <2>1 DEF Mine, SameFs
    <2>3. SameSizes(s, t, g)
      BY <1>2 DEF SameBytes, SameSizes, Mine
    <2>4. FsCounted(s, g)
      BY <2>1 DEF Counted
    <2> QED BY <2>1, <2>2, <2>3, <2>4, CountedSame
  <1> QED BY <1>4, <1>5 DEF Counted

\* A write or a truncation of w, likewise.
LEMMA CountedWritten ==
    ASSUME NEW s, Shape(s), Sized(s), Counted(s), NEW t, Kin(s, t), NEW w \in DOMAIN s.node, NEW n,
           Edited(s, t, w, n), n.size \in Nat, NEW f, f = s.node[w].vfs,
           Billed(s.vfs, t.vfs, f, s.vfs[f].byte_count + (n.size - s.node[w].size))
    PROVE  Counted(t)
  <1>1. f \in DOMAIN s.vfs /\ List(s.node)
    BY DEF Shape, Form, Tree, NodeOk
  <1>2. FsCounted(s, f)
    BY <1>1 DEF Counted
  <1>3. FsCounted(t, f)
    BY <1>1, <1>2, CountedEdited
  <1>4. SameFs(s, t) /\ \A g : Mine(t, g) = Mine(s, g)
    BY KinSameFs
  <1>5. ASSUME NEW g \in DOMAIN t.vfs, g # f PROVE FsCounted(t, g)
    <2>1. g \in DOMAIN s.vfs /\ t.vfs[g] = s.vfs[g]
      BY <1>5 DEF Billed
    <2>2. SameSizes(s, t, g)
      BY <1>5 DEF SameSizes, Mine, Edited
    <2>3. FsCounted(s, g) /\ Mine(t, g) = Mine(s, g)
      BY <1>4, <2>1 DEF Counted
    <2> QED BY <1>4, <2>1, <2>2, <2>3, CountedSame
  <1> QED BY <1>3, <1>5 DEF Counted

\* vfs_mount.
LEMMA CountedMounted ==
    ASSUME NEW s, Shape(s), Counted(s), NEW v \in DOMAIN s.node, NEW f, NEW m, NEW t, Mounted(s, t, v, f, m)
    PROVE  Counted(t)
  <1>1. t.node[m] = NewNode(f, Null, "", DIR, 1) /\ Opened(t.vfs[f]) /\ m \notin DOMAIN s.node
        /\ DOMAIN t.node = DOMAIN s.node \cup {m} /\ f \notin DOMAIN s.vfs
    BY DEF Mounted
  <1>2. t.node[m].vfs = f /\ t.node[m].size = 0 /\ t.node[m].inode = 1
    <2>1. PICK k, i : i = 1 /\ k = NewNode(f, Null, "", DIR, i)
      OBVIOUS
    <2>2. k.vfs = f /\ k.size = 0 /\ k.inode = i
      BY <2>1 DEF NewNode
    <2> QED BY <1>1, <2>1, <2>2
  <1>3. \A u \in DOMAIN s.node : /\ t.node[u].vfs = s.node[u].vfs /\ t.node[u].inode = s.node[u].inode
                                 /\ t.node[u].size = s.node[u].size
    <2>1. DOMAIN s.node[v] = NodeFields
      BY DEF Shape, Form
    <2>2. PICK k : k = [s.node[v] EXCEPT !.mounted = f]
      OBVIOUS
    <2>3. k.vfs = s.node[v].vfs /\ k.inode = s.node[v].inode /\ k.size = s.node[v].size
      BY <2>1, <2>2 DEF NodeFields
    <2>4. t.node[v] = k /\ \A u \in DOMAIN s.node \ {v} : t.node[u] = s.node[u]
      BY <2>2 DEF Mounted
    <2> QED BY <2>3, <2>4
  <1>4. \A u \in DOMAIN s.node : s.node[u].vfs \in DOMAIN s.vfs
    BY DEF Shape, Tree, NodeOk
  <1>5. Mine(t, f) = {m}
    BY <1>1, <1>2, <1>3, <1>4 DEF Mine
  <1>6. FsCounted(t, f)
    BY <1>1, <1>2, <1>5, CountedNew
  <1>7. ASSUME NEW g \in DOMAIN t.vfs, g # f PROVE FsCounted(t, g)
    <2>1. g \in DOMAIN s.vfs /\ t.vfs[g] = s.vfs[g]
      BY <1>7 DEF Mounted
    <2>2. Mine(t, g) = Mine(s, g)
      BY <1>1, <1>2, <1>3, <1>7 DEF Mine
    <2>3. SameSizes(s, t, g) /\ SameFs(s, t)
      BY <1>3 DEF SameSizes, SameFs, Mine
    <2>4. FsCounted(s, g)
      BY <2>1 DEF Counted
    <2> QED BY <2>1, <2>2, <2>3, <2>4, CountedSame
  <1> QED BY <1>6, <1>7 DEF Counted

-----------------------------------------------------------------------------
(* The boot archive.                                                       *)

\* The file systems whose root v is, each of which holds a reference.
Roots(s, v) == {f \in DOMAIN s.vfs : s.vfs[f].root = v}

\* The file systems mounted on v, each of which holds one as well.
Covers(s, v) == {f \in DOMAIN s.vfs : s.vfs[f].covered = v}

Ties(s, v) == Cardinality(Roots(s, v)) + Cardinality(Covers(s, v))

One(u, v) == IF u = v THEN 1 ELSE 0

\* The files and the counters are in order, and the root is no file.
Laid(s) == Sized(s) /\ Counted(s) /\ 1 \in DOMAIN s.node /\ s.node[1].size = 0

\* The bytes of s are kept; what is new is empty.
Larger(s, t) ==
    /\ DOMAIN s.node \subseteq DOMAIN t.node /\ SameBytes(s, t)
    /\ \A u \in DOMAIN t.node \ DOMAIN s.node : Blank(t.node[u])

LEMMA LaidKept ==
    ASSUME NEW s, NEW t, Larger(s, t)
    PROVE  (Sized(s) => Sized(t)) /\ (Laid(s) /\ Counted(t) => Laid(t))
  <1>1. ASSUME NEW u \in DOMAIN s.node, FileOk(s.node[u]) PROVE FileOk(t.node[u])
    BY <1>1 DEF Larger, SameBytes, FileOk
  <1>2. ASSUME NEW u \in DOMAIN t.node \ DOMAIN s.node PROVE FileOk(t.node[u])
    <2>1. t.node[u].size = 0 /\ t.node[u].data = <<>>
      BY <1>2 DEF Larger, Blank
    <2>2. List(<<>>) /\ Len(<<>>) = 0
      BY DEF List
    <2> QED BY <2>1, <2>2 DEF FileOk
  <1>3. Sized(s) => Sized(t)
    BY <1>1, <1>2 DEF Sized
  <1> QED BY <1>3 DEF Laid, Larger, SameBytes

LEMMA SameLarger ==
    ASSUME NEW s, NEW t, SameBytes(s, t), DOMAIN t.node = DOMAIN s.node
    PROVE  Larger(s, t)
  BY DEF Larger

\* A tree where nothing is held but the roots, and h.
Calm(s, h) ==
    /\ Shape(s) /\ Laid(s)
    /\ \A v \in DOMAIN s.node : s.node[v].refcount = Ties(s, v) + One(v, h)

\* A call is over, with nothing held; or it returns a vnode that it holds.
Ended(r)   == r.rc \in {0, -1} /\ Calm(r.s, Null)
Pending(r) == \/ r.rc = 0 /\ r.v \in DOMAIN r.s.node /\ Calm(r.s, r.v)
              \/ r.rc = -1 /\ Calm(r.s, Null)

\* The roots and the mount points stay.
LEMMA TiesSame ==
    ASSUME NEW s, NEW t, SameMounts(s.vfs, t.vfs)
    PROVE  \A v : Ties(t, v) = Ties(s, v)
  <1>1. \A v : Roots(t, v) = Roots(s, v)
    BY DEF SameMounts, Roots
  <1>2. \A v : Covers(t, v) = Covers(s, v)
    BY DEF SameMounts, Covers
  <1> QED BY <1>1, <1>2 DEF Ties

\* There are few enough file systems to count, none of them tied to a new node.
LEMMA TiesCount ==
    ASSUME NEW s, Shape(s)
    PROVE  /\ \A v : /\ IsFiniteSet(Roots(s, v)) /\ IsFiniteSet(Covers(s, v))
                    /\ Ties(s, v) \in Nat
           /\ \A v : v \notin DOMAIN s.node /\ v # Null =>
                    Roots(s, v) = {} /\ Covers(s, v) = {} /\ Ties(s, v) = 0
  <1>1. PICK q : q = s.vfs
    OBVIOUS
  <1>2. List(q)
    BY <1>1 DEF Shape, Form
  <1>3. IsFiniteSet(DOMAIN q)
    <2>1. DOMAIN q = 1..Len(q) /\ Len(q) \in Nat
      BY <1>2, ListBasics
    <2> QED BY <2>1, FS_Interval
  <1>4. ASSUME NEW v
        PROVE  IsFiniteSet(Roots(s, v)) /\ IsFiniteSet(Covers(s, v)) /\ Ties(s, v) \in Nat
    <2>1. Roots(s, v) \subseteq DOMAIN q /\ Covers(s, v) \subseteq DOMAIN q
      BY <1>1 DEF Roots, Covers
    <2>2. IsFiniteSet(Roots(s, v)) /\ IsFiniteSet(Covers(s, v))
      BY <1>3, <2>1, FS_Subset
    <2>3. Cardinality(Roots(s, v)) \in Nat /\ Cardinality(Covers(s, v)) \in Nat
      BY <2>2, FS_CardinalityType
    <2> QED BY <2>2, <2>3 DEF Ties
  <1>5. ASSUME NEW v, v \notin DOMAIN s.node, v # Null
        PROVE  Roots(s, v) = {} /\ Covers(s, v) = {} /\ Ties(s, v) = 0
    <2>1. Roots(s, v) = {} /\ Covers(s, v) = {}
      BY <1>5 DEF Roots, Covers, Shape, Tree
    <2>2. Cardinality(Roots(s, v)) = 0 /\ Cardinality(Covers(s, v)) = 0
      BY <2>1, FS_EmptySet
    <2> QED BY <2>1, <2>2 DEF Ties
  <1> QED BY <1>4, <1>5

\* No reference changes.
LEMMA CalmFiled ==
    ASSUME NEW s, NEW t, NEW h, Calm(s, h), Filed(s, t), Laid(t)
    PROVE  Calm(t, h)
  <1>1. Shape(t)
    BY KinShape DEF Calm, Filed
  <1>2. \A v : Ties(t, v) = Ties(s, v)
    BY TiesSame DEF Filed, Kin
  <1>3. DOMAIN t.node = DOMAIN s.node
    BY DEF Filed, Kin
  <1>4. \A v \in DOMAIN s.node : t.node[v].refcount = Ties(t, v) + One(v, h)
    BY <1>2 DEF Calm, Filed
  <1> QED BY <1>1, <1>3, <1>4 DEF Calm

\* A reference is taken.
LEMMA CalmHeld ==
    ASSUME NEW s, Calm(s, Null), NEW v \in DOMAIN s.node
    PROVE  Calm(vnode_hold(s, v), v)
  <1>1. PICK t : t = vnode_hold(s, v)
    OBVIOUS
  <1>2. Moved(s, t, v, 1)
    BY <1>1, HoldMoves DEF Calm
  <1>3. Shape(t)
    BY <1>2, KinShape DEF Moved, Calm
  <1>4. \A u : Ties(t, u) = Ties(s, u) /\ Ties(s, u) \in Nat
    BY <1>2, TiesSame, TiesCount DEF Moved, Kin, Calm
  <1>5. DOMAIN t.node = DOMAIN s.node /\ Null \notin DOMAIN s.node
    BY <1>2, NodesPositive DEF Moved, Kin, Calm, Shape
  <1>6. ASSUME NEW u \in DOMAIN s.node
        PROVE  t.node[u].refcount = Ties(t, u) + One(u, v)
    <2>1. PICK c : c = Ties(t, u) /\ c \in Nat /\ c = Ties(s, u)
      BY <1>4
    <2>2. s.node[u].refcount = c + 0
      BY <1>5, <2>1 DEF Calm, One
    <2>3. t.node[u].refcount = s.node[u].refcount + One(u, v)
      BY <1>2, <2>1, <2>2 DEF Moved, One
    <2> QED BY <2>1, <2>2, <2>3 DEF One
  <1>70. Counted(t)
    BY <1>2, CountedStill DEF Moved, Calm, Laid
  <1>7. Laid(t)
    BY <1>2, <1>5, <1>70, SameLarger, LaidKept DEF Moved, Calm
  <1>8. Calm(t, v)
    BY <1>3, <1>5, <1>6, <1>7 DEF Calm
  <1> QED BY <1>1, <1>8

\* It is given back.
LEMMA CalmDropped ==
    ASSUME NEW s, NEW v \in DOMAIN s.node, Calm(s, v)
    PROVE  Calm(vnode_release(s, v), Null)
  <1>1. PICK t : t = vnode_release(s, v)
    OBVIOUS
  <1>2. Moved(s, t, v, -1)
    BY <1>1, HoldMoves DEF Calm
  <1>3. Shape(t)
    BY <1>2, KinShape DEF Moved, Calm
  <1>4. \A u : Ties(t, u) = Ties(s, u) /\ Ties(s, u) \in Nat
    BY <1>2, TiesSame, TiesCount DEF Moved, Kin, Calm
  <1>5. DOMAIN t.node = DOMAIN s.node /\ Null \notin DOMAIN s.node
    BY <1>2, NodesPositive DEF Moved, Kin, Calm, Shape
  <1>6. ASSUME NEW u \in DOMAIN s.node
        PROVE  t.node[u].refcount = Ties(t, u) + One(u, Null)
    <2>1. PICK c : c = Ties(t, u) /\ c \in Nat /\ c = Ties(s, u)
      BY <1>4
    <2>2. s.node[u].refcount = c + One(u, v)
      BY <2>1 DEF Calm
    <2>3. t.node[u].refcount = IF u = v THEN s.node[u].refcount + (-1) ELSE s.node[u].refcount
      BY <1>2 DEF Moved
    <2>4. t.node[u].refcount = c
      BY <2>1, <2>2, <2>3 DEF One
    <2>5. u # Null
      BY <1>5
    <2> QED BY <2>1, <2>4, <2>5 DEF One
  <1>70. Counted(t)
    BY <1>2, CountedStill DEF Moved, Calm, Laid
  <1>7. Laid(t)
    BY <1>2, <1>5, <1>70, SameLarger, LaidKept DEF Moved, Calm
  <1>8. Calm(t, Null)
    BY <1>3, <1>5, <1>6, <1>7 DEF Calm
  <1> QED BY <1>1, <1>8

\* A call that looks up a vnode.
LEMMA GotPending ==
    ASSUME NEW s, Calm(s, Null), NEW r, Got(s, r)
    PROVE  Pending(r)
  <1>1. CASE r.rc = -1 /\ r.v = Null /\ Still(s, r.s)
    <2>1. PICK t : t = r.s
      OBVIOUS
    <2>2. Filed(s, t) /\ SameBytes(s, t) /\ DOMAIN t.node = DOMAIN s.node /\ t.vfs = s.vfs
      BY <1>1, <2>1 DEF Still, Filed, Kin
    <2>20. Counted(t)
      BY <2>2, CountedStill DEF Filed, Calm, Laid
    <2>3. Laid(t)
      BY <2>2, <2>20, SameLarger, LaidKept DEF Calm
    <2>4. Calm(t, Null)
      BY <2>2, <2>3, CalmFiled
    <2> QED BY <1>1, <2>1, <2>4 DEF Pending
  <1>2. CASE r.rc = 0 /\ r.v \in DOMAIN s.node /\ r.s = vnode_hold(s, r.v)
    <2>1. PICK v : v = r.v
      OBVIOUS
    <2>2. Calm(vnode_hold(s, v), v)
      BY <1>2, <2>1, CalmHeld
    <2>3. Moved(s, vnode_hold(s, v), v, 1)
      BY <1>2, <2>1, HoldMoves DEF Calm
    <2>4. v \in DOMAIN r.s.node
      BY <1>2, <2>1, <2>3 DEF Moved, Kin
    <2> QED BY <1>2, <2>1, <2>2, <2>4 DEF Pending
  <1> QED BY <1>1, <1>2 DEF Got

\* The caller drops the vnode.
LEMMA DroppedEnded ==
    ASSUME NEW r, Pending(r)
    PROVE  Ended(Dropped(r))
  <1>1. CASE r.rc = 0
    <2>1. PICK s, v : s = r.s /\ v = r.v
      OBVIOUS
    <2>2. v \in DOMAIN s.node /\ Calm(s, v)
      BY <1>1, <2>1 DEF Pending
    <2>3. Calm(vnode_release(s, v), Null)
      BY <2>2, CalmDropped
    <2>4. Dropped(r).rc = 0 /\ Dropped(r).s = vnode_release(s, v)
      BY <1>1, <2>1 DEF Dropped, Rc
    <2> QED BY <2>3, <2>4 DEF Ended
  <1>2. CASE r.rc # 0
    BY <1>2 DEF Pending, Ended, Dropped
  <1> QED BY <1>1, <1>2

\* vfs_create by a caller that is alone.
LEMMA CreatePending ==
    ASSUME NEW s, Calm(s, Null), NEW path \in Seq(STRING), NEW type, NEW room, NEW r,
           r = vfs_create(s, path, type, room)
    PROVE  Pending(r) /\ (r.rc = 0 => r.v # 1)
  <1>1. PICK at : at = vfs_lookup(s, s.root, path, TRUE)
    OBVIOUS
  <1>2. Got(s, at)
    <2>1. s.root \in Spot(s) /\ TRUE \in BOOLEAN
      BY DEF Calm, Shape, Form, Spot
    <2> QED BY <1>1, <2>1, LookupGot DEF Calm
  <1>3. PICK name, inode, count : /\ name = Leaf(path)
                                  /\ inode = s.vfs[s.node[at.v].vfs].next_inode
                                  /\ count = s.vfs[s.node[at.v].vfs].node_count
    OBVIOUS
  <1>30. PICK ok : ok = (Allocations(s) < room /\ tmpfs_create_ok(s, at.v, name, type))
    OBVIOUS
  <1>4. r = IF at.rc # 0 THEN at
            ELSE IF ok THEN CreateEnd(at.s, at.v, name, type, inode, count)
            ELSE Rc(-1, vnode_release(at.s, at.v), Null)
    BY <1>1, <1>3, <1>30 DEF vfs_create
  <1>5. CASE at.rc # 0
    <2>1. Pending(at)
      BY <1>2, GotPending
    <2> QED BY <1>4, <1>5, <2>1
  <1>50. CASE at.rc = 0 /\ ~ok
    <2>1. PICK v : v = at.v
      OBVIOUS
    <2>2. v \in DOMAIN s.node /\ at.s = vnode_hold(s, v)
      BY <1>2, <1>50, <2>1 DEF Got
    <2>3. Calm(at.s, v)
      BY <2>2, CalmHeld
    <2>4. v \in DOMAIN at.s.node
      <3>1. Moved(s, vnode_hold(s, v), v, 1)
        BY <2>2, HoldMoves DEF Calm
      <3> QED BY <2>2, <3>1 DEF Moved, Kin
    <2>5. PICK h : h = at.s
      OBVIOUS
    <2>6. Calm(vnode_release(h, v), Null)
      BY <2>3, <2>4, <2>5, CalmDropped
    <2>7. r.rc = -1 /\ r.s = vnode_release(h, v)
      BY <1>4, <1>50, <2>1, <2>5 DEF Rc
    <2> QED BY <2>6, <2>7 DEF Pending
  <1>6. CASE at.rc = 0 /\ ok
    <2>1. PICK d, t, m : d = at.v /\ t = at.s /\ m = Len(t.node) + 1
      OBVIOUS
    <2>2. d \in DOMAIN s.node /\ t = vnode_hold(s, d) /\ Free(s, d, name)
      <3>1. d \in DOMAIN s.node /\ t = vnode_hold(s, d)
        BY <1>2, <1>6, <2>1 DEF Got
      <3>2. tmpfs_create_ok(s, d, name, type)
        BY <1>6, <1>30, <2>1
      <3>3. Free(s, d, name)
        BY <3>1, <3>2, CreateFree DEF Calm
      <3> QED BY <3>1, <3>3
    <2>3. Moved(s, t, d, 1) /\ Calm(t, d)
      BY <2>2, HoldMoves, CalmHeld DEF Calm
    <2>4. Shape(t) /\ d \in DOMAIN t.node /\ DOMAIN t.node = DOMAIN s.node
      BY <2>2, <2>3 DEF Calm, Moved, Kin
    <2>5. Free(t, d, name)
      <3>1. \A u \in DOMAIN s.node : /\ t.node[u].kids = s.node[u].kids /\ t.node[u].name = s.node[u].name
                                     /\ t.node[u].type = s.node[u].type
        BY <2>3 DEF Moved, Kin, SamePlace
      <3>2. \A i \in DOMAIN s.node[d].kids : s.node[d].kids[i] \in DOMAIN s.node
        <4>1. s.node[d].kids \in Seq(DOMAIN s.node)
          BY <2>2 DEF Calm, Shape, Tree, KidsOk
        <4> QED BY <4>1
      <3> QED BY <2>2, <3>1, <3>2 DEF Free, IsDir
    <2>6. r = CreateEnd(t, d, name, type, inode, count)
      BY <1>4, <1>6, <2>1
    <2>7. /\ r.rc = 0 /\ r.v = m /\ Born(t, r.s, d, r.v, name, type)
          /\ Tallied(t, r.s, t.node[d].vfs, r.v, inode, count)
      BY <2>1, <2>4, <2>5, <2>6, EndBorn
    <2>8. PICK w : w = r.s
      OBVIOUS
    <2>9. Born(t, w, d, m, name, type)
      BY <2>7, <2>8
    <2>10. Shape(w) /\ DOMAIN w.node = DOMAIN t.node \cup {m} /\ m \notin DOMAIN t.node
      BY <2>9 DEF Born
    <2>11. \A u : Ties(w, u) = Ties(t, u)
      BY <2>9, TiesSame DEF Born
    <2>12. \A u : /\ Ties(t, u) \in Nat
                  /\ u \notin DOMAIN t.node /\ u # Null => Ties(t, u) = 0
      BY <2>4, TiesCount
    <2>13. ASSUME NEW u \in DOMAIN w.node
           PROVE  w.node[u].refcount = Ties(w, u) + One(u, m)
      <3>1. PICK c : c = Ties(w, u) /\ c \in Nat /\ c = Ties(t, u)
        BY <2>11, <2>12
      <3>2. CASE u = m
        <4>1. c = 0 /\ w.node[m].refcount = 1
          <5>1. m # Null
            BY <2>10, NodesPositive DEF Shape
          <5> QED BY <2>9, <2>10, <2>12, <3>1, <3>2, <5>1 DEF Born
        <4> QED BY <3>1, <3>2, <4>1 DEF One
      <3>3. CASE u # m
        <4>1. u \in DOMAIN t.node
          BY <2>10, <3>3
        <4>2. t.node[u].refcount = c + One(u, d)
          BY <2>3, <3>1, <4>1 DEF Calm
        <4>3. w.node[u].refcount = IF u = d THEN t.node[u].refcount - 1 ELSE t.node[u].refcount
          BY <2>9, <4>1 DEF Born
        <4>4. w.node[u].refcount = c
          BY <3>1, <4>2, <4>3 DEF One
        <4> QED BY <3>1, <3>3, <4>4 DEF One
      <3> QED BY <3>2, <3>3
    <2>14. Laid(w)
      <3>1. Larger(t, w)
        BY <2>9 DEF Born, Larger
      <3>2. PICK f : f = t.node[d].vfs
        OBVIOUS
      <3>3. f = s.node[d].vfs /\ t.vfs = s.vfs
        BY <2>2, <2>3, <3>2 DEF Moved, Kin, SamePlace
      <3>4. inode = t.vfs[f].next_inode /\ count = t.vfs[f].node_count
        BY <1>3, <2>1, <3>3
      <3>5. Tallied(t, w, f, m, inode, count)
        BY <2>7, <2>8, <3>2
      <3>6. Counted(w)
        BY <2>3, <2>4, <2>9, <3>2, <3>4, <3>5, CountedBorn DEF Calm, Laid
      <3> QED BY <2>3, <3>1, <3>6, LaidKept DEF Calm
    <2>15. Calm(w, m) /\ m \in DOMAIN w.node
      BY <2>10, <2>13, <2>14 DEF Calm
    <2>16. m # 1
      BY <2>3, <2>10 DEF Calm, Laid
    <2> QED BY <2>7, <2>8, <2>15, <2>16 DEF Pending
  <1> QED BY <1>5, <1>50, <1>6

\* initrd_ensure_dir.
LEMMA EnsureEnded ==
    ASSUME NEW s, Calm(s, Null), NEW path \in Seq(STRING), NEW room
    PROVE  Ended(initrd_ensure_dir(s, path, room))
  <1>1. PICK found, r : /\ found = vfs_lookup(s, s.root, path, FALSE)
                        /\ r = IF found.rc = 0 THEN found ELSE vfs_create(s, path, DIR, room)
    OBVIOUS
  <1>2. s.root \in Spot(s) /\ FALSE \in BOOLEAN
    BY DEF Calm, Shape, Form, Spot
  <1>3. Got(s, found)
    BY <1>1, <1>2, LookupGot DEF Calm
  <1>4. Pending(found)
    BY <1>3, GotPending
  <1>5. Pending(vfs_create(s, path, DIR, room))
    BY CreatePending
  <1>6. Ended(Dropped(r))
    <2>1. Pending(r)
      BY <1>1, <1>4, <1>5
    <2> QED BY <2>1, DroppedEnded
  <1>7. CASE path = <<>>
    <2>1. PICK e : e = initrd_ensure_dir(s, path, room)
      OBVIOUS
    <2>2. e.rc = 0 /\ e.s = s
      BY <1>7, <2>1 DEF initrd_ensure_dir, Rc
    <2> QED BY <2>1, <2>2 DEF Ended
  <1>8. CASE path # <<>>
    <2>1. initrd_ensure_dir(s, path, room) = Dropped(r)
      BY <1>1, <1>8 DEF initrd_ensure_dir
    <2> QED BY <1>6, <2>1
  <1> QED BY <1>7, <1>8

\* The loop of initrd_ensure_parent_dirs, by its turns.
EnsureTurn(r, path, i, room) ==
    IF r.rc # 0 THEN r ELSE initrd_ensure_dir(r.s, SubSeq(path, 1, i), room)
Ensures(s, path, room, at) ==
    [i \in 0..Len(path) |-> IF i = 0 THEN Rc(0, s, Null) ELSE EnsureTurn(at[i - 1], path, i, room)]

\* Every turn leaves nothing held.
LEMMA EnsureTurnsEnded ==
    ASSUME NEW s, Calm(s, Null), NEW path \in Seq(STRING), NEW room
    PROVE  \A i \in 0..Len(path) : Ended(EnsureTurns(s, path, room)[i])
  <1>1. PICK n \in Nat : n = Len(path)
    OBVIOUS
  <1>2. PICK z : z = Rc(0, s, Null)
    OBVIOUS
  <1> DEFINE To(m, f) == f = [i \in 0..m |-> IF i = 0 THEN z ELSE EnsureTurn(f[i - 1], path, i, room)]
             S == {m \in Nat : \E f : To(m, f)}
  <1>3. 0 \in S
    <2>1. PICK f : f = [i \in 0..0 |-> z]
      OBVIOUS
    <2>2. To(0, f)
      BY <2>1
    <2> QED BY <2>2
  <1>4. ASSUME NEW m \in Nat, m \in S PROVE m + 1 \in S
    <2>1. PICK f : To(m, f)
      BY <1>4
    <2>2. /\ DOMAIN f = 0..m /\ f[0] = z
          /\ \A i \in 1..m : f[i] = EnsureTurn(f[i - 1], path, i, room)
      BY <2>1
    <2>3. PICK y : y = EnsureTurn(f[m], path, m + 1, room)
      OBVIOUS
    <2>4. PICK g : g = [i \in 0..(m + 1) |-> IF i = m + 1 THEN y ELSE f[i]]
      OBVIOUS
    <2>5. /\ g[0] = z /\ g[m + 1] = y /\ \A i \in 0..m : g[i] = f[i]
      BY <2>2, <2>4
    <2>6. ASSUME NEW i \in 0..(m + 1)
          PROVE  (IF i = m + 1 THEN y ELSE f[i])
                   = (IF i = 0 THEN z ELSE EnsureTurn(g[i - 1], path, i, room))
      <3>1. CASE i = 0
        BY <2>2, <3>1
      <3>2. CASE i \in 1..m
        <4>1. i - 1 \in 0..m /\ i # 0 /\ i # m + 1
          BY <3>2
        <4> QED BY <2>2, <2>5, <3>2, <4>1
      <3>3. CASE i = m + 1
        <4>1. i - 1 = m /\ m \in 0..m /\ i # 0
          BY <3>3
        <4> QED BY <2>3, <2>5, <3>3, <4>1
      <3> QED BY <3>1, <3>2, <3>3
    <2>7. g = [i \in 0..(m + 1) |-> IF i = 0 THEN z ELSE EnsureTurn(g[i - 1], path, i, room)]
      BY <2>4, <2>6
    <2>8. To(m + 1, g)
      BY <2>7
    <2>9. m + 1 \in Nat
      OBVIOUS
    <2> HIDE DEF To
    <2> QED BY <2>8, <2>9
  <1>5. PICK f : To(n, f)
    <2>1. n \in S
      <3> HIDE DEF S
      <3> QED BY <1>3, <1>4, Induct
    <2> QED BY <2>1
  <1>6. f = Ensures(s, path, room, f)
    BY <1>1, <1>2, <1>5 DEF Ensures
  <1>7. EnsureTurns(s, path, room) = CHOOSE t : t = Ensures(s, path, room, t)
    BY DEF EnsureTurns, Ensures, EnsureTurn
  <1>8. PICK a : a = EnsureTurns(s, path, room)
    OBVIOUS
  <1>9. a = Ensures(s, path, room, a)
    BY <1>6, <1>7, <1>8
  <1>10. a[0] = z /\ \A i \in 1..n : a[i] = EnsureTurn(a[i - 1], path, i, room)
    BY <1>1, <1>2, <1>9 DEF Ensures
  <1> DEFINE T == {m \in Nat : m <= n => Ended(a[m])}
  <1>11. 0 \in T
    <2>1. z.rc = 0 /\ z.s = s
      BY <1>2 DEF Rc
    <2>2. Ended(z)
      BY <2>1 DEF Ended
    <2> QED BY <1>10, <2>2
  <1>12. ASSUME NEW m \in Nat, m \in T PROVE m + 1 \in T
    <2>1. ASSUME m + 1 <= n PROVE Ended(a[m + 1])
      <3>1. m + 1 \in 1..n /\ (m + 1) - 1 = m /\ m <= n
        BY <2>1
      <3>2. PICK r : r = a[m] /\ Ended(r)
        BY <1>12, <3>1
      <3>3. SubSeq(path, 1, m + 1) \in Seq(STRING)
        BY <1>1, <3>1
      <3>4. Ended(initrd_ensure_dir(r.s, SubSeq(path, 1, m + 1), room))
        BY <3>2, <3>3, EnsureEnded DEF Ended
      <3>5. Ended(EnsureTurn(r, path, m + 1, room))
        BY <3>2, <3>4 DEF EnsureTurn
      <3> QED BY <1>10, <3>1, <3>2, <3>5
    <2> QED BY <2>1
  <1>13. Nat \subseteq T
    <2> HIDE DEF T
    <2> QED BY <1>11, <1>12, Induct
  <1> QED BY <1>1, <1>8, <1>13

\* initrd_normalize_path: what is left is a path.
LEMMA NormalPath ==
    ASSUME NEW name \in Seq(STRING)
    PROVE  initrd_normalize_path(name) \in Seq(STRING)
  <1>1. PICK n \in Nat : n = Len(name)
    OBVIOUS
  <1> DEFINE Dots(i) == (\A j \in 1..i : name[j] = ".") /\ (i < n => name[i + 1] # ".")
  <1>2. \E i \in 0..n : Dots(i)
    <2>1. PICK T : T = {i \in 0..n : i < n => name[i + 1] # "."}
      OBVIOUS
    <2>2. T \subseteq Nat /\ n \in T
      BY <2>1
    <2>3. PICK k \in T : \A y \in T : k <= y
      BY <2>2, LeastNumber
    <2>4. k \in 0..n /\ (k < n => name[k + 1] # ".")
      BY <2>1, <2>3
    <2>5. ASSUME NEW j \in 1..k PROVE name[j] = "."
      <3>1. j - 1 \in 0..n /\ j - 1 < n /\ (j - 1) + 1 = j /\ ~(k <= j - 1)
        BY <2>4
      <3>2. j - 1 \notin T
        BY <2>3, <3>1
      <3> QED BY <2>1, <3>1, <3>2
    <2> QED BY <2>4, <2>5
  <1>3. PICK k : k = CHOOSE i \in 0..n : Dots(i)
    OBVIOUS
  <1>4. k \in 0..n
    <2> HIDE DEF Dots
    <2> QED BY <1>2, <1>3
  <1>5. initrd_normalize_path(name) = SubSeq(name, k + 1, n)
    BY <1>1, <1>3 DEF initrd_normalize_path
  <1>6. SubSeq(name, k + 1, n) \in Seq(STRING)
    BY <1>1, <1>4
  <1> QED BY <1>5, <1>6

\* initrd_ensure_parent_dirs, initrd_unpack_dir and initrd_unpack_file.
LEMMA ParentsEnded ==
    ASSUME NEW s, Calm(s, Null), NEW path \in Seq(STRING), path # <<>>, NEW room
    PROVE  Ended(initrd_ensure_parent_dirs(s, path, room))
  <1>1. Len(path) - 1 \in 0..Len(path)
    OBVIOUS
  <1> QED BY <1>1, EnsureTurnsEnded DEF initrd_ensure_parent_dirs

LEMMA UnpackDirEnded ==
    ASSUME NEW s, Calm(s, Null), NEW path \in Seq(STRING), path # <<>>, NEW room
    PROVE  Ended(initrd_unpack_dir(s, path, room))
  <1>1. PICK up : up = initrd_ensure_parent_dirs(s, path, room)
    OBVIOUS
  <1>2. Ended(up)
    BY <1>1, ParentsEnded
  <1>3. Ended(initrd_ensure_dir(up.s, path, room))
    BY <1>2, EnsureEnded DEF Ended
  <1> QED BY <1>1, <1>2, <1>3 DEF initrd_unpack_dir

LEMMA UnpackFileEnded ==
    ASSUME NEW s, Calm(s, Null), NEW path \in Seq(STRING), path # <<>>, NEW size \in Nat,
           NEW room
    PROVE  Ended(initrd_unpack_file(s, path, size, room))
  <1>1. PICK up, made : /\ up = initrd_ensure_parent_dirs(s, path, room)
                        /\ made = vfs_create(up.s, path, REG, room)
    OBVIOUS
  <1>2. Ended(up)
    BY <1>1, ParentsEnded
  <1>3. Pending(made) /\ (made.rc = 0 => made.v # 1)
    BY <1>1, <1>2, CreatePending DEF Ended
  <1>4. PICK put, fill :
          /\ put = vfs_write(made.s, made.v, 0, size, 1, room)
          /\ fill = IF made.rc # 0 \/ size = 0 THEN Dropped(made)
                    ELSE Rc(put.rc, vnode_release(put.s, put.v), Null)
    OBVIOUS
  <1>5. Ended(fill)
    <2>1. CASE made.rc # 0 \/ size = 0
      BY <1>3, <1>4, <2>1, DroppedEnded
    <2>2. CASE ~(made.rc # 0 \/ size = 0)
      <3>1. PICK m, v : m = made.s /\ v = made.v
        OBVIOUS
      <3>2. v \in DOMAIN m.node /\ Calm(m, v) /\ v # 1
        BY <1>3, <2>2, <3>1 DEF Pending
      <3>4. PICK o, b, c : o = 0 /\ b = 1 /\ c = m.vfs[m.node[v].vfs].byte_count
        OBVIOUS
      <3>3. PICK w : w = WriteNode(m, v, o, size, b, c)
        OBVIOUS
      <3>5. w = WriteNode(m, v, o, size, b, c)
        BY <3>3
      <3>6. /\ Filed(m, w) /\ Edited(m, w, v, Wrote(m.node[v], o, size, b))
            /\ Billed(m.vfs, w.vfs, m.node[v].vfs, c + (o + size - m.node[v].size))
        BY <3>2, <3>5, WriteFiled DEF Calm
      <3>9. Laid(w)
        <4>1. DOMAIN m.node[v] = NodeFields /\ FileOk(m.node[v])
          BY <3>2 DEF Calm, Shape, Form, Laid, Sized
        <4>2. PICK n : n = w.node[v]
          OBVIOUS
        <4>3. n = Wrote(m.node[v], o, size, b) /\ o \in Nat
          BY <3>4, <3>6, <4>2 DEF Edited
        <4>4. FileOk(n) /\ n.size = o + size
          BY <4>1, <4>3, WroteFile
        <4>5. DOMAIN w.node = DOMAIN m.node /\ \A u \in DOMAIN m.node \ {v} : w.node[u] = m.node[u]
          BY <3>6 DEF Filed, Kin, Edited
        <4>6. PICK f : f = m.node[v].vfs
          OBVIOUS
        <4>7. Kin(m, w) /\ Edited(m, w, v, n) /\ n.size \in Nat
          BY <3>6, <4>3, <4>4 DEF Filed, FileOk
        <4>9. c + (o + size - m.node[v].size) = m.vfs[f].byte_count + (n.size - m.node[v].size)
          <5>1. c = m.vfs[f].byte_count
            BY <3>4, <4>6
          <5>2. PICK x, y : x \in Nat /\ x = m.node[v].size /\ y = n.size /\ y = o + size
            BY <4>1, <4>4 DEF FileOk
          <5>3. o + size - x = y - x
            BY <4>3, <5>2
          <5> QED BY <5>1, <5>2, <5>3, Zenon
        <4>10. Billed(m.vfs, w.vfs, f, m.vfs[f].byte_count + (n.size - m.node[v].size))
          BY <3>6, <4>6, <4>9
        <4>8. Counted(w)
          BY <3>2, <4>6, <4>7, <4>10, CountedWritten DEF Calm, Laid
        <4> QED BY <3>2, <4>2, <4>4, <4>5, <4>8 DEF Laid, Sized, Calm
      <3>7. Calm(w, v) /\ v \in DOMAIN w.node
        BY <3>2, <3>6, <3>9, CalmFiled DEF Filed, Kin
      <3>8. put.v = v /\ put.rc \in {0, -1} /\ put.s \in {w, m}
        BY <1>4, <3>1, <3>3, <3>4 DEF Rc, vfs_write
      <3>10. Calm(vnode_release(w, v), Null) /\ Calm(vnode_release(m, v), Null)
        BY <3>2, <3>7, CalmDropped
      <3>11. fill.rc = put.rc /\ fill.s = vnode_release(put.s, v)
        BY <1>4, <2>2, <3>8 DEF Rc
      <3> QED BY <3>8, <3>10, <3>11 DEF Ended
    <2> QED BY <2>1, <2>2
  <1>7. initrd_unpack_file(s, path, size, room) = IF up.rc # 0 THEN up ELSE fill
    BY <1>1, <1>4 DEF initrd_unpack_file
  <1> QED BY <1>2, <1>5, <1>7

\* One entry of the archive.
LEMMA UnpackEntryEnded ==
    ASSUME NEW s, Calm(s, Null), NEW e, e.name \in Seq(STRING), e.size \in Nat, NEW room
    PROVE  Ended(UnpackEntry(s, e, room))
  <1>1. PICK path : path = initrd_normalize_path(e.name)
    OBVIOUS
  <1>2. path \in Seq(STRING)
    BY <1>1, NormalPath
  <1>3. Ended(Rc(0, s, Null)) /\ Ended(Rc(-1, s, Null))
    <2>1. PICK a, b : a = Rc(0, s, Null) /\ b = Rc(-1, s, Null)
      OBVIOUS
    <2>2. a.rc = 0 /\ a.s = s /\ b.rc = -1 /\ b.s = s
      BY <2>1 DEF Rc
    <2> QED BY <2>1, <2>2 DEF Ended
  <1>4. path # <<>> => /\ Ended(initrd_unpack_dir(s, path, room))
                       /\ Ended(initrd_unpack_file(s, path, e.size, room))
    BY <1>2, UnpackDirEnded, UnpackFileEnded
  <1> QED BY <1>1, <1>3, <1>4 DEF UnpackEntry

\* The loop of initrd_unpack, by its turns.
UnpackTurn(r, e, room) == IF r.rc # 0 THEN r ELSE UnpackEntry(r.s, e, room)
Unpacks(s, a, room, at) ==
    [i \in 0..Len(a) |-> IF i = 0 THEN Rc(0, s, Null) ELSE UnpackTurn(at[i - 1], a[i], room)]

Entries == [name : Seq(STRING), kind : STRING, size : Nat]

\* Unpacking leaves a tree where nothing is held, whether it succeeds or not.
LEMMA UnpackEnded ==
    ASSUME NEW s, Calm(s, Null), NEW arc \in Seq(Entries), NEW room
    PROVE  Ended(initrd_unpack(s, arc, room))
  <1>1. PICK n \in Nat : n = Len(arc)
    OBVIOUS
  <1>2. PICK z : z = Rc(0, s, Null)
    OBVIOUS
  <1> DEFINE To(m, f) == f = [i \in 0..m |-> IF i = 0 THEN z ELSE UnpackTurn(f[i - 1], arc[i], room)]
             S == {m \in Nat : \E f : To(m, f)}
  <1>3. 0 \in S
    <2>1. PICK f : f = [i \in 0..0 |-> z]
      OBVIOUS
    <2>2. To(0, f)
      BY <2>1
    <2> QED BY <2>2
  <1>4. ASSUME NEW m \in Nat, m \in S PROVE m + 1 \in S
    <2>1. PICK f : To(m, f)
      BY <1>4
    <2>2. /\ DOMAIN f = 0..m /\ f[0] = z
          /\ \A i \in 1..m : f[i] = UnpackTurn(f[i - 1], arc[i], room)
      BY <2>1
    <2>3. PICK y : y = UnpackTurn(f[m], arc[m + 1], room)
      OBVIOUS
    <2>4. PICK g : g = [i \in 0..(m + 1) |-> IF i = m + 1 THEN y ELSE f[i]]
      OBVIOUS
    <2>5. /\ g[0] = z /\ g[m + 1] = y /\ \A i \in 0..m : g[i] = f[i]
      BY <2>2, <2>4
    <2>6. ASSUME NEW i \in 0..(m + 1)
          PROVE  (IF i = m + 1 THEN y ELSE f[i]) = (IF i = 0 THEN z ELSE UnpackTurn(g[i - 1], arc[i], room))
      <3>1. CASE i = 0
        BY <2>2, <3>1
      <3>2. CASE i \in 1..m
        <4>1. i - 1 \in 0..m /\ i # 0 /\ i # m + 1
          BY <3>2
        <4> QED BY <2>2, <2>5, <3>2, <4>1
      <3>3. CASE i = m + 1
        <4>1. i - 1 = m /\ m \in 0..m /\ i # 0
          BY <3>3
        <4> QED BY <2>3, <2>5, <3>3, <4>1
      <3> QED BY <3>1, <3>2, <3>3
    <2>7. g = [i \in 0..(m + 1) |-> IF i = 0 THEN z ELSE UnpackTurn(g[i - 1], arc[i], room)]
      BY <2>4, <2>6
    <2>8. To(m + 1, g)
      BY <2>7
    <2>9. m + 1 \in Nat
      OBVIOUS
    <2> HIDE DEF To
    <2> QED BY <2>8, <2>9
  <1>5. PICK f : To(n, f)
    <2>1. n \in S
      <3> HIDE DEF S
      <3> QED BY <1>3, <1>4, Induct
    <2> QED BY <2>1
  <1>6. f = Unpacks(s, arc, room, f)
    BY <1>1, <1>2, <1>5 DEF Unpacks
  <1>7. UnpackTurns(s, arc, room) = CHOOSE t : t = Unpacks(s, arc, room, t)
    BY DEF UnpackTurns, Unpacks, UnpackTurn
  <1>8. PICK a : a = UnpackTurns(s, arc, room)
    OBVIOUS
  <1>9. a = Unpacks(s, arc, room, a)
    BY <1>6, <1>7, <1>8
  <1>10. a[0] = z /\ \A i \in 1..n : a[i] = UnpackTurn(a[i - 1], arc[i], room)
    BY <1>1, <1>2, <1>9 DEF Unpacks
  <1> DEFINE T == {m \in Nat : m <= n => Ended(a[m])}
  <1>11. 0 \in T
    <2>1. z.rc = 0 /\ z.s = s
      BY <1>2 DEF Rc
    <2>2. Ended(z)
      BY <2>1 DEF Ended
    <2> QED BY <1>10, <2>2
  <1>12. ASSUME NEW m \in Nat, m \in T PROVE m + 1 \in T
    <2>1. ASSUME m + 1 <= n PROVE Ended(a[m + 1])
      <3>1. m + 1 \in 1..n /\ (m + 1) - 1 = m /\ m <= n
        BY <2>1
      <3>2. PICK r : r = a[m] /\ Ended(r)
        BY <1>12, <3>1
      <3>3. PICK e : e = arc[m + 1] /\ e.name \in Seq(STRING) /\ e.size \in Nat
        <4>1. arc[m + 1] \in Entries
          BY <1>1, <3>1
        <4>2. \A e \in Entries : e.name \in Seq(STRING) /\ e.size \in Nat
          BY DEF Entries
        <4> QED BY <4>1, <4>2
      <3>4. Ended(UnpackEntry(r.s, e, room))
        BY <3>2, <3>3, UnpackEntryEnded DEF Ended
      <3>5. Ended(UnpackTurn(r, e, room))
        BY <3>2, <3>4 DEF UnpackTurn
      <3> QED BY <1>10, <3>1, <3>2, <3>3, <3>5
    <2> QED BY <2>1
  <1>13. Nat \subseteq T
    <2> HIDE DEF T
    <2> QED BY <1>11, <1>12, Induct
  <1>14. Ended(a[n])
    BY <1>13
  <1> QED BY <1>1, <1>8, <1>14 DEF initrd_unpack

-----------------------------------------------------------------------------
(* The invariant: who holds a reference.                                   *)

\* The threads that have v open, those in a call that holds it, and the failed
\* mounts that left it held.
Openers(H, O, v) == {p \in Procs : H[p] = v /\ O[p].at # "trunc"}
Callers(O, v)    == {p \in Procs : O[p].at \in {"trunc", "parent", "create", "mount"} /\ O[p].v = v}
Pinned(P, v)     == {i \in DOMAIN P : P[i] = v}

Users(H, O, v) == Cardinality(Openers(H, O, v)) + Cardinality(Callers(O, v))

Mark(p, S) == IF p \in S THEN 1 ELSE 0

\* What thread p has of them.
Use(H, O, p, v) == Mark(p, Openers(H, O, v)) + Mark(p, Callers(O, v))

\* The call that thread p is in.
OpOk(s, H, O, p) ==
    /\ O[p].at \in {"idle", "write", "store", "trunc", "parent", "create", "mount"}
    /\ O[p].at # "idle" => O[p].v \in DOMAIN s.node
    /\ O[p].at \in {"trunc", "parent", "create"} => H[p] = Null
    /\ O[p].at = "create" => Free(s, O[p].v, O[p].name)

\* At most one thread creates a child of a directory at a time.
Lone(O, p) == \A q \in Procs : O[p].at = "create" /\ O[q].at = "create" /\ O[p].v = O[q].v => p = q

RefsOk(s, H, O, P) ==
    \A v \in DOMAIN s.node :
        s.node[v].refcount =
            Users(H, O, v) + Ties(s, v) + Cardinality(Pinned(P, v))

Sound(s, H, O, P) ==
    /\ Shape(s)
    /\ H \in [Procs -> Spot(s)] /\ DOMAIN O = Procs /\ P \in Seq(DOMAIN s.node)
    /\ \A p \in Procs : OpOk(s, H, O, p) /\ Lone(O, p)
    /\ RefsOk(s, H, O, P)

\* Two sets that differ in one element at most.
LEMMA CardinalityMove ==
    ASSUME NEW S, NEW T, NEW p, IsFiniteSet(S), S \ {p} = T \ {p}
    PROVE  /\ Cardinality(S) \in Nat /\ Cardinality(T) \in Nat
           /\ Cardinality(T) = Cardinality(S) - Mark(p, S) + Mark(p, T)
  <1>1. PICK R : R = S \ {p}
    OBVIOUS
  <1>2. IsFiniteSet(R) /\ p \notin R /\ Cardinality(R) \in Nat
    BY <1>1, FS_Subset, FS_CardinalityType
  <1>3. Cardinality(R \cup {p}) = Cardinality(R) + 1
    BY <1>2, FS_AddElement
  <1>4. ASSUME NEW U, U \ {p} = R
        PROVE  Cardinality(U) = Cardinality(R) + Mark(p, U)
    <2>1. CASE p \in U
      <3>1. U = R \cup {p}
        BY <1>4, <2>1
      <3> QED BY <1>3, <2>1, <3>1 DEF Mark
    <2>2. CASE p \notin U
      <3>1. U = R
        BY <1>4, <2>2
      <3> QED BY <1>2, <2>2, <3>1 DEF Mark
    <2> QED BY <2>1, <2>2
  <1>5. Cardinality(S) = Cardinality(R) + Mark(p, S) /\ Cardinality(T) = Cardinality(R) + Mark(p, T)
    BY <1>1, <1>4
  <1> QED BY <1>2, <1>5 DEF Mark

\* Thread p moves, the others do not.
Only(p, H, O, G, Q) == \A q \in Procs \ {p} : G[q] = H[q] /\ Q[q] = O[q]

LEMMA UsersMove ==
    ASSUME NEW H, NEW O, NEW G, NEW Q, NEW p \in Procs, NEW v,
           Only(p, H, O, G, Q)
    PROVE  /\ Users(H, O, v) \in Nat /\ Users(G, Q, v) \in Nat
           /\ Users(G, Q, v) = Users(H, O, v) - Use(H, O, p, v) + Use(G, Q, p, v)
  <1>1. IsFiniteSet(Procs)
    BY FsAssumption
  <1>2. PICK A, B, C, D : /\ A = Openers(H, O, v) /\ B = Openers(G, Q, v)
                          /\ C = Callers(O, v) /\ D = Callers(Q, v)
    OBVIOUS
  <1>3. IsFiniteSet(A) /\ IsFiniteSet(C)
    <2>1. A \subseteq Procs /\ C \subseteq Procs
      BY <1>2 DEF Openers, Callers
    <2> QED BY <1>1, <2>1, FS_Subset
  <1>4. A \ {p} = B \ {p}
    BY <1>2 DEF Openers, Only
  <1>5. C \ {p} = D \ {p}
    BY <1>2 DEF Callers, Only
  <1>6. /\ Cardinality(A) \in Nat /\ Cardinality(B) \in Nat
        /\ Cardinality(B) = Cardinality(A) - Mark(p, A) + Mark(p, B)
    BY <1>3, <1>4, CardinalityMove
  <1>7. /\ Cardinality(C) \in Nat /\ Cardinality(D) \in Nat
        /\ Cardinality(D) = Cardinality(C) - Mark(p, C) + Mark(p, D)
    BY <1>3, <1>5, CardinalityMove
  <1>8. Users(H, O, v) = Cardinality(A) + Cardinality(C) /\ Users(G, Q, v) = Cardinality(B) + Cardinality(D)
    BY <1>2 DEF Users
  <1>9. Use(H, O, p, v) = Mark(p, A) + Mark(p, C) /\ Use(G, Q, p, v) = Mark(p, B) + Mark(p, D)
    BY <1>2 DEF Use
  <1>10. PICK i, j, k, l : /\ i = Mark(p, A) /\ j = Mark(p, B) /\ k = Mark(p, C) /\ l = Mark(p, D)
                           /\ i \in Int /\ j \in Int /\ k \in Int /\ l \in Int
    BY DEF Mark
  <1>11. PICK a, b, c, d : /\ a = Cardinality(A) /\ b = Cardinality(B) /\ c = Cardinality(C) /\ d = Cardinality(D)
    OBVIOUS
  <1>12. a \in Nat /\ b \in Nat /\ b = a - i + j
    BY <1>6, <1>10, <1>11
  <1>13. c \in Nat /\ d \in Nat /\ d = c - k + l
    BY <1>7, <1>10, <1>11
  <1>14. b + d = (a + c) - (i + k) + (j + l) /\ a + c \in Nat /\ b + d \in Nat
    BY <1>10, <1>12, <1>13
  <1>15. Users(H, O, v) = a + c /\ Users(G, Q, v) = b + d
    BY <1>8, <1>11
  <1>16. Use(H, O, p, v) = i + k /\ Use(G, Q, p, v) = j + l
    BY <1>9, <1>10
  <1> QED BY <1>14, <1>15, <1>16

\* The leaks of a vnode can be counted.
LEMMA PinnedCount ==
    ASSUME NEW S, NEW P \in Seq(S), NEW v
    PROVE  Cardinality(Pinned(P, v)) \in Nat /\ (v \notin S => Cardinality(Pinned(P, v)) = 0)
  <1>1. IsFiniteSet(DOMAIN P)
    <2>1. DOMAIN P = 1..Len(P) /\ Len(P) \in Nat
      OBVIOUS
    <2> QED BY <2>1, FS_Interval
  <1>2. Pinned(P, v) \subseteq DOMAIN P
    BY DEF Pinned
  <1>3. Cardinality(Pinned(P, v)) \in Nat
    BY <1>1, <1>2, FS_Subset, FS_CardinalityType
  <1>4. ASSUME v \notin S PROVE Cardinality(Pinned(P, v)) = 0
    <2>1. Pinned(P, v) = {}
      BY <1>4 DEF Pinned
    <2> QED BY <2>1, FS_EmptySet
  <1> QED BY <1>3, <1>4

\* A step of thread p that leaves the tree alone: it is enough to look at p.
LEMMA Settle ==
    ASSUME NEW s, NEW H, NEW O, NEW P, Sound(s, H, O, P), NEW t, NEW G, NEW Q, NEW p \in Procs,
           Kin(s, t), G \in [Procs -> Spot(s)], DOMAIN Q = Procs,
           Only(p, H, O, G, Q),
           OpOk(s, G, Q, p), Lone(Q, p),
           \A v \in DOMAIN s.node :
              t.node[v].refcount = s.node[v].refcount - Use(H, O, p, v) + Use(G, Q, p, v)
    PROVE  Sound(t, G, Q, P)
  <1>1. Shape(t)
    BY KinShape DEF Sound
  <1>2. DOMAIN t.node = DOMAIN s.node /\ Spot(t) = Spot(s)
    BY DEF Kin, Spot
  <1>3. \A d \in DOMAIN s.node : \A name : Free(s, d, name) => Free(t, d, name)
    <2>1. ASSUME NEW d \in DOMAIN s.node, NEW name, Free(s, d, name) PROVE Free(t, d, name)
      <3>1. \A u \in DOMAIN s.node : /\ t.node[u].kids = s.node[u].kids /\ t.node[u].name = s.node[u].name
                                     /\ t.node[u].type = s.node[u].type
        BY DEF Kin, SamePlace
      <3>2. \A i \in DOMAIN s.node[d].kids : s.node[d].kids[i] \in DOMAIN s.node
        <4>1. s.node[d].kids \in Seq(DOMAIN s.node)
          BY DEF Sound, Shape, Tree, KidsOk
        <4> QED BY <4>1
      <3> QED BY <2>1, <3>1, <3>2 DEF Free, IsDir
    <2> QED BY <2>1
  <1>4. ASSUME NEW q \in Procs PROVE OpOk(t, G, Q, q)
    <2>1. OpOk(s, G, Q, q)
      <3>1. CASE q = p
        BY <3>1
      <3>2. CASE q # p
        <4>1. OpOk(s, H, O, q) /\ G[q] = H[q] /\ Q[q] = O[q]
          BY <3>2 DEF Sound, Only
        <4> QED BY <4>1 DEF OpOk
      <3> QED BY <3>1, <3>2
    <2> QED BY <1>2, <1>3, <2>1 DEF OpOk
  <1>5. ASSUME NEW q \in Procs PROVE Lone(Q, q)
    <2>1. CASE q = p
      BY <2>1
    <2>2. CASE q # p
      <3>1. Lone(O, q) /\ Q[q] = O[q]
        BY <2>2 DEF Sound, Only
      <3>2. \A x \in Procs : x # p => Q[x] = O[x]
        BY DEF Only
      <3>3. ASSUME NEW x \in Procs, Q[q].at = "create", Q[x].at = "create", Q[q].v = Q[x].v
            PROVE  q = x
        <4>1. CASE x = p
          BY <3>3, <4>1 DEF Lone
        <4>2. CASE x # p
          BY <3>1, <3>2, <3>3, <4>2 DEF Lone
        <4> QED BY <4>1, <4>2
      <3> QED BY <3>3 DEF Lone
    <2> QED BY <2>1, <2>2
  <1>6. RefsOk(t, G, Q, P)
    <2>1. ASSUME NEW v \in DOMAIN s.node
          PROVE  t.node[v].refcount = Users(G, Q, v) + Ties(t, v) + Cardinality(Pinned(P, v))
      <3>1. PICK a, b, c, e, i, j :
              /\ a = Users(H, O, v) /\ b = Users(G, Q, v) /\ c = Ties(s, v)
              /\ e = Cardinality(Pinned(P, v)) /\ i = Use(H, O, p, v) /\ j = Use(G, Q, p, v)
        OBVIOUS
      <3>2. a \in Nat /\ b \in Nat /\ b = a - i + j
        <4>1. /\ Users(H, O, v) \in Nat /\ Users(G, Q, v) \in Nat
              /\ Users(G, Q, v) = Users(H, O, v) - Use(H, O, p, v) + Use(G, Q, p, v)
          BY UsersMove
        <4> QED BY <3>1, <4>1
      <3>3. i \in Int /\ j \in Int
        BY <3>1 DEF Use, Mark
      <3>4. c \in Nat
        BY <3>1, TiesCount DEF Sound
      <3>5. e \in Nat
        BY <3>1, PinnedCount DEF Sound
      <3>6. s.node[v].refcount = a + c + e
        BY <3>1 DEF Sound, RefsOk
      <3>7. Ties(t, v) = Ties(s, v)
        BY TiesSame DEF Kin
      <3>8. t.node[v].refcount = s.node[v].refcount - i + j
        BY <3>1
      <3>9. t.node[v].refcount = b + c + e
        BY <3>2, <3>3, <3>4, <3>5, <3>6, <3>8
      <3> QED BY <3>1, <3>7, <3>9
    <2> QED BY <1>2, <2>1 DEF RefsOk
  <1> QED BY <1>1, <1>2, <1>4, <1>5, <1>6 DEF Sound

\* Nobody uses what is not there yet.
LEMMA NoUsers ==
    ASSUME NEW s, NEW H, NEW O, NEW P, Sound(s, H, O, P), NEW m, m \notin DOMAIN s.node, m # Null
    PROVE  Users(H, O, m) = 0
  <1>1. Openers(H, O, m) = {}
    <2>1. \A q \in Procs : H[q] # m
      BY DEF Sound, Spot
    <2> QED BY <2>1 DEF Openers
  <1>2. Callers(O, m) = {}
    <2>1. \A q \in Procs : O[q].at \in {"trunc", "parent", "create", "mount"} => O[q].v # m
      BY DEF Sound, OpOk
    <2> QED BY <2>1 DEF Callers
  <1>3. Cardinality(Openers(H, O, m)) = 0 /\ Cardinality(Callers(O, m)) = 0
    BY <1>1, <1>2, FS_EmptySet
  <1> QED BY <1>3 DEF Users

\* Free names stay free in the directories that do not change.
LEMMA FreeKept ==
    ASSUME NEW s, Shape(s), NEW t, NEW d \in DOMAIN s.node, NEW name, Free(s, d, name),
           t.node[d].kids = s.node[d].kids, t.node[d].type = s.node[d].type,
           \A u \in DOMAIN s.node : t.node[u].name = s.node[u].name
    PROVE  Free(t, d, name)
  <1>1. s.node[d].kids \in Seq(DOMAIN s.node)
    BY DEF Shape, Tree, KidsOk
  <1>2. \A i \in DOMAIN s.node[d].kids : s.node[d].kids[i] \in DOMAIN s.node
    BY <1>1
  <1> QED BY <1>2 DEF Free, IsDir

\* The end of a create.
LEMMA BornSound ==
    ASSUME NEW s, NEW H, NEW O, NEW P, Sound(s, H, O, P), NEW p \in Procs, O[p].at = "create",
           NEW t, NEW m, NEW type, Born(s, t, O[p].v, m, O[p].name, type),
           NEW G, G = [H EXCEPT ![p] = m], NEW Q, Q = [O EXCEPT ![p] = Idle]
    PROVE  Sound(t, G, Q, P)
  <1>1. PICK d : d = O[p].v
    OBVIOUS
  <1>2. d \in DOMAIN s.node /\ H[p] = Null /\ Shape(s) /\ Shape(t)
    BY <1>1 DEF Sound, OpOk, Born
  <1>3. /\ DOMAIN t.node = DOMAIN s.node \cup {m} /\ m \notin DOMAIN s.node /\ SameMounts(s.vfs, t.vfs)
        /\ t.node[m].refcount = 1 /\ t.node[d].refcount = s.node[d].refcount - 1
    BY <1>1 DEF Born
  <1>4. /\ \A u \in DOMAIN s.node \ {d} : t.node[u].refcount = s.node[u].refcount
        /\ \A u \in DOMAIN s.node : t.node[u].type = s.node[u].type /\ t.node[u].name = s.node[u].name
        /\ \A u \in DOMAIN s.node \ {d} : t.node[u].kids = s.node[u].kids
    BY <1>1 DEF Born
  <1>5. m # Null /\ Null \notin DOMAIN s.node
    BY <1>2, <1>3, NodesPositive DEF Shape
  <1>6. H \in [Procs -> Spot(s)] /\ DOMAIN O = Procs /\ P \in Seq(DOMAIN s.node)
    BY DEF Sound
  <1>7. G \in [Procs -> Spot(t)] /\ DOMAIN Q = Procs /\ P \in Seq(DOMAIN t.node)
    <2>1. Spot(s) \subseteq Spot(t) /\ m \in Spot(t) /\ DOMAIN s.node \subseteq DOMAIN t.node
      BY <1>3 DEF Spot
    <2>2. P \in Seq(DOMAIN t.node)
      BY <1>6, <2>1
    <2> QED BY <1>6, <2>1, <2>2
  <1>8. Only(p, H, O, G, Q) /\ G[p] = m /\ Q[p] = Idle
    BY <1>6 DEF Only
  <1>9. Q[p].at = "idle"
    BY <1>8 DEF Idle
  <1>10. ASSUME NEW q \in Procs PROVE OpOk(t, G, Q, q) /\ Lone(Q, q)
    <2>1. CASE q = p
      BY <1>9, <2>1 DEF OpOk, Lone
    <2>2. CASE q # p
      <3>1. G[q] = H[q] /\ Q[q] = O[q] /\ OpOk(s, H, O, q) /\ Lone(O, q)
        BY <1>8, <2>2 DEF Only, Sound
      <3>2. O[q].at = "create" => O[q].v # d
        BY <1>1, <2>2, <3>1 DEF Lone
      <3>3. ASSUME O[q].at = "create" PROVE Free(t, O[q].v, O[q].name)
        <4>1. PICK e, name : e = O[q].v /\ name = O[q].name
          OBVIOUS
        <4>2. e \in DOMAIN s.node /\ e # d /\ Free(s, e, name)
          BY <3>1, <3>2, <3>3, <4>1 DEF OpOk
        <4>3. t.node[e].kids = s.node[e].kids /\ t.node[e].type = s.node[e].type
          BY <1>4, <4>2
        <4>4. \A u \in DOMAIN s.node : t.node[u].name = s.node[u].name
          BY <1>4
        <4>5. Free(t, e, name)
          BY <1>2, <4>2, <4>3, <4>4, FreeKept
        <4> QED BY <4>1, <4>5
      <3>4. OpOk(t, G, Q, q)
        BY <1>3, <3>1, <3>3 DEF OpOk
      <3>5. Lone(Q, q)
        <4>1. \A x \in Procs : x # p => Q[x] = O[x]
          BY <1>8 DEF Only
        <4> QED BY <1>9, <3>1, <4>1 DEF Lone
      <3> QED BY <3>4, <3>5
    <2> QED BY <2>1, <2>2
  <1>11. ASSUME NEW v \in DOMAIN t.node
         PROVE  t.node[v].refcount = Users(G, Q, v) + Ties(t, v) + Cardinality(Pinned(P, v))
    <2>1. PICK a, b, c, e, i, j :
            /\ a = Users(H, O, v) /\ b = Users(G, Q, v) /\ c = Ties(s, v)
            /\ e = Cardinality(Pinned(P, v)) /\ i = Use(H, O, p, v) /\ j = Use(G, Q, p, v)
      OBVIOUS
    <2>2. a \in Nat /\ b \in Nat /\ b = a - i + j
      <3>1. /\ Users(H, O, v) \in Nat /\ Users(G, Q, v) \in Nat
            /\ Users(G, Q, v) = Users(H, O, v) - Use(H, O, p, v) + Use(G, Q, p, v)
        BY <1>8, UsersMove
      <3> QED BY <2>1, <3>1
    <2>3. Ties(t, v) = Ties(s, v)
      BY <1>3, TiesSame
    <2>4. c \in Nat /\ (v = m => c = 0)
      BY <1>2, <1>3, <1>5, <2>1, TiesCount
    <2>5. e \in Nat /\ (v = m => e = 0)
      BY <1>3, <1>6, <2>1, PinnedCount
    <2>6. v # Null
      BY <1>3, <1>5
    <2>7. i = One(v, d)
      <3>1. p \notin Openers(H, O, v)
        BY <1>2, <2>6 DEF Openers
      <3>2. p \in Callers(O, v) <=> v = d
        BY <1>1 DEF Callers
      <3> QED BY <2>1, <3>1, <3>2 DEF Use, Mark, One
    <2>8. j = One(v, m)
      <3>1. p \in Openers(G, Q, v) <=> v = m
        BY <1>8, <1>9 DEF Openers
      <3>2. p \notin Callers(Q, v)
        BY <1>9 DEF Callers
      <3> QED BY <2>1, <3>1, <3>2 DEF Use, Mark, One
    <2>9. t.node[v].refcount = b + c + e
      <3>1. CASE v = m
        <4>1. a = 0
          BY <1>3, <1>5, <2>1, <3>1, NoUsers
        <4>2. v # d
          BY <1>2, <1>3, <3>1
        <4> QED BY <1>3, <2>2, <2>4, <2>5, <2>7, <2>8, <3>1, <4>1, <4>2 DEF One
      <3>2. CASE v # m
        <4>1. v \in DOMAIN s.node
          BY <1>3, <3>2
        <4>2. s.node[v].refcount = a + c + e
          BY <2>1, <4>1 DEF Sound, RefsOk
        <4>3. t.node[v].refcount = IF v = d THEN s.node[v].refcount - 1 ELSE s.node[v].refcount
          BY <1>3, <1>4, <4>1
        <4> QED BY <2>2, <2>4, <2>5, <2>7, <2>8, <3>2, <4>2, <4>3 DEF One
      <3> QED BY <3>1, <3>2
    <2> QED BY <2>1, <2>3, <2>9
  <1> QED BY <1>2, <1>7, <1>10, <1>11 DEF Sound, RefsOk

\* A call of vfs_mount is over: thread p no longer holds the mount point.
Leaves(H, O, Q, p, v) ==
    O[p].at = "mount" /\ O[p].v = v /\ Q[p].at = "idle" /\ Only(p, H, O, H, Q)

LEMMA MountLeaves ==
    ASSUME NEW s, NEW H, NEW O, NEW P, Sound(s, H, O, P), NEW p \in Procs, O[p].at = "mount",
           NEW v, v = O[p].v, NEW Q, Q = [O EXCEPT ![p] = Idle]
    PROVE  /\ v \in DOMAIN s.node /\ DOMAIN Q = Procs /\ Leaves(H, O, Q, p, v)
           /\ \A q \in Procs : OpOk(s, H, Q, q) /\ Lone(Q, q)
  <1>2. v \in DOMAIN s.node /\ DOMAIN O = Procs
    BY DEF Sound, OpOk
  <1>3. DOMAIN Q = Procs /\ Only(p, H, O, H, Q) /\ Q[p].at = "idle"
    BY <1>2 DEF Only, Idle
  <1>4. ASSUME NEW q \in Procs PROVE OpOk(s, H, Q, q) /\ Lone(Q, q)
    <2>1. CASE q = p
      BY <1>3, <2>1 DEF OpOk, Lone
    <2>2. CASE q # p
      <3>1. Q[q] = O[q] /\ OpOk(s, H, O, q) /\ Lone(O, q)
        BY <1>3, <2>2 DEF Only, Sound
      <3>2. OpOk(s, H, Q, q)
        BY <3>1 DEF OpOk
      <3>3. \A x \in Procs : x # p => Q[x] = O[x]
        BY <1>3 DEF Only
      <3>4. Lone(Q, q)
        BY <1>3, <3>1, <3>3 DEF Lone
      <3> QED BY <3>2, <3>4
    <2> QED BY <2>1, <2>2
  <1> QED BY <1>2, <1>3, <1>4 DEF Leaves

LEMMA MountUsers ==
    ASSUME NEW H, NEW O, NEW Q, NEW p \in Procs, NEW v, NEW u,
           Leaves(H, O, Q, p, v)
    PROVE  /\ Users(H, O, u) \in Nat /\ Users(H, Q, u) \in Nat
           /\ Users(H, O, u) = Users(H, Q, u) + One(u, v)
  <1>1. PICK i : i = Mark(p, Openers(H, O, u))
    OBVIOUS
  <1>2. p \in Openers(H, O, u) <=> p \in Openers(H, Q, u)
    BY DEF Leaves, Openers
  <1>3. (p \in Callers(O, u) <=> u = v) /\ p \notin Callers(Q, u)
    BY DEF Leaves, Callers
  <1>4. Use(H, O, p, u) = i + One(u, v) /\ Use(H, Q, p, u) = i + 0
    BY <1>1, <1>2, <1>3 DEF Use, Mark, One
  <1>5. i \in Int /\ One(u, v) \in Int
    BY <1>1 DEF Mark, One
  <1>6. /\ Users(H, O, u) \in Nat /\ Users(H, Q, u) \in Nat
        /\ Users(H, Q, u) = Users(H, O, u) - Use(H, O, p, u) + Use(H, Q, p, u)
    BY UsersMove DEF Leaves
  <1> QED BY <1>4, <1>5, <1>6

\* It failed: the mount point stays held, by nobody.
LEMMA LeakSound ==
    ASSUME NEW s, NEW H, NEW O, NEW P, Sound(s, H, O, P), NEW p \in Procs, O[p].at = "mount",
           NEW Q, Q = [O EXCEPT ![p] = Idle], NEW R, R = Append(P, O[p].v)
    PROVE  Sound(s, H, Q, R)
  <1>1. PICK v : v = O[p].v
    OBVIOUS
  <1>2. /\ v \in DOMAIN s.node /\ DOMAIN Q = Procs /\ Leaves(H, O, Q, p, v)
        /\ \A q \in Procs : OpOk(s, H, Q, q) /\ Lone(Q, q)
    BY <1>1, MountLeaves
  <1>3. Shape(s) /\ H \in [Procs -> Spot(s)] /\ P \in Seq(DOMAIN s.node)
    BY DEF Sound
  <1>4. PICK n \in Nat : n = Len(P)
    BY <1>3
  <1>5. /\ R \in Seq(DOMAIN s.node) /\ DOMAIN P = 1..n /\ DOMAIN R = 1..(n + 1) /\ R[n + 1] = v
        /\ \A i \in 1..n : R[i] = P[i]
    <2>1. PICK D : D = DOMAIN s.node
      OBVIOUS
    <2>2. P \in Seq(D) /\ v \in D /\ R = Append(P, v)
      BY <1>1, <1>2, <1>3, <2>1
    <2>3. /\ R \in Seq(D) /\ DOMAIN P = 1..n /\ DOMAIN R = 1..(n + 1) /\ R[n + 1] = v
          /\ \A i \in 1..n : R[i] = P[i]
      BY <1>4, <2>2
    <2> QED BY <2>1, <2>3
  <1>6. ASSUME NEW u \in DOMAIN s.node
        PROVE  /\ Cardinality(Pinned(R, u)) = Cardinality(Pinned(P, u)) + One(u, v)
               /\ Cardinality(Pinned(P, u)) \in Nat
    <2>1. PICK A, B : A = Pinned(P, u) /\ B = Pinned(R, u)
      OBVIOUS
    <2>2. IsFiniteSet(A)
      <3>1. A \subseteq 1..n
        BY <1>5, <2>1 DEF Pinned
      <3>2. IsFiniteSet(1..n)
        BY FS_Interval
      <3> QED BY <3>1, <3>2, FS_Subset
    <2>3. n + 1 \notin A /\ (n + 1 \in B <=> u = v)
      BY <1>5, <2>1 DEF Pinned
    <2>4. A \ {n + 1} = B \ {n + 1}
      <3>1. \A i : i \in 1..(n + 1) /\ i # n + 1 <=> i \in 1..n
        OBVIOUS
      <3> QED BY <1>5, <2>1, <3>1 DEF Pinned
    <2>5. PICK k : k = n + 1
      OBVIOUS
    <2>6. A \ {k} = B \ {k}
      BY <2>4, <2>5
    <2>7. /\ Cardinality(A) \in Nat /\ Cardinality(B) \in Nat
          /\ Cardinality(B) = Cardinality(A) - Mark(k, A) + Mark(k, B)
      BY <2>2, <2>6, CardinalityMove
    <2>8. Mark(k, A) = 0 /\ Mark(k, B) = One(u, v)
      BY <2>3, <2>5 DEF Mark, One
    <2>9. One(u, v) \in Int
      BY DEF One
    <2> QED BY <2>1, <2>7, <2>8, <2>9
  <1>7. ASSUME NEW u \in DOMAIN s.node
        PROVE  s.node[u].refcount = Users(H, Q, u) + Ties(s, u) + Cardinality(Pinned(R, u))
    <2>1. PICK a, b, c, e, g, i : /\ a = Users(H, O, u) /\ b = Users(H, Q, u) /\ c = Ties(s, u)
                                  /\ e = Cardinality(Pinned(P, u)) /\ g = Cardinality(Pinned(R, u))
                                  /\ i = One(u, v)
      OBVIOUS
    <2>2. a \in Nat /\ b \in Nat /\ a = b + i
      <3>1. /\ Users(H, O, u) \in Nat /\ Users(H, Q, u) \in Nat
            /\ Users(H, O, u) = Users(H, Q, u) + One(u, v)
        BY <1>1, <1>2, MountUsers
      <3> QED BY <2>1, <3>1
    <2>3. c \in Nat /\ i \in Int
      BY <1>3, <2>1, TiesCount DEF One
    <2>4. e \in Nat /\ g = e + i
      BY <1>6, <2>1
    <2>5. s.node[u].refcount = a + c + e
      BY <2>1 DEF Sound, RefsOk
    <2>6. s.node[u].refcount = b + c + g
      BY <2>2, <2>3, <2>4, <2>5
    <2> QED BY <2>1, <2>6
  <1> QED BY <1>2, <1>3, <1>5, <1>7 DEF Sound, RefsOk

\* The ties of the nodes after a mount on v.
LEMMA MountTies ==
    ASSUME NEW s, Shape(s), NEW v \in DOMAIN s.node, NEW f, NEW m, NEW t, Mounted(s, t, v, f, m)
    PROVE  /\ Ties(t, m) = 1
           /\ \A u \in DOMAIN s.node : Ties(t, u) = Ties(s, u) + One(u, v)
  <1>1. /\ m \notin DOMAIN s.node /\ DOMAIN t.vfs = DOMAIN s.vfs \cup {f} /\ f \notin DOMAIN s.vfs
        /\ t.vfs[f].root = m /\ t.vfs[f].covered = v /\ \A g \in DOMAIN s.vfs : t.vfs[g] = s.vfs[g]
    BY DEF Mounted
  <1>2. m # Null /\ m # v
    <2>1. m = Len(s.node) + 1 /\ List(s.node)
      BY DEF Mounted, Shape, Form
    <2>2. PICK q : q = s.node
      OBVIOUS
    <2>3. Len(q) \in Nat
      BY <2>1, <2>2, ListBasics
    <2> QED BY <1>1, <2>1, <2>2, <2>3 DEF Null
  <1>3. Ties(t, m) = 1
    <2>1. Roots(t, m) = {f}
      BY <1>1 DEF Roots, Shape, Tree
    <2>2. Covers(t, m) = {}
      BY <1>1, <1>2 DEF Covers, Shape, Tree
    <2>3. Cardinality({f}) = 1 /\ Cardinality({}) = 0
      BY FS_Singleton, FS_EmptySet
    <2> QED BY <2>1, <2>2, <2>3 DEF Ties
  <1>4. ASSUME NEW u \in DOMAIN s.node PROVE Ties(t, u) = Ties(s, u) + One(u, v)
    <2>1. PICK A, B : A = Covers(s, u) /\ B = Covers(t, u)
      OBVIOUS
    <2>2. Roots(t, u) = Roots(s, u)
      BY <1>1 DEF Roots
    <2>3. IsFiniteSet(A) /\ IsFiniteSet(Roots(s, u))
      BY <2>1, TiesCount
    <2>4. A \ {f} = B \ {f} /\ f \notin A /\ (f \in B <=> u = v)
      BY <1>1, <2>1 DEF Covers
    <2>5. /\ Cardinality(A) \in Nat /\ Cardinality(B) \in Nat
          /\ Cardinality(B) = Cardinality(A) - Mark(f, A) + Mark(f, B)
      BY <2>3, <2>4, CardinalityMove
    <2>6. Mark(f, A) = 0 /\ Mark(f, B) = One(u, v) /\ One(u, v) \in Int
      BY <2>4 DEF Mark, One
    <2>7. Cardinality(B) = Cardinality(A) + One(u, v)
      BY <2>5, <2>6
    <2>8. Cardinality(Roots(s, u)) \in Nat
      BY <2>3, FS_CardinalityType
    <2> QED BY <2>1, <2>2, <2>5, <2>6, <2>7, <2>8 DEF Ties
  <1> QED BY <1>3, <1>4

\* It succeeded: the new file system holds the mount point instead.
LEMMA MountSound ==
    ASSUME NEW s, NEW H, NEW O, NEW P, Sound(s, H, O, P), NEW p \in Procs, O[p].at = "mount",
           NEW t, t = vfs_mount(s, O[p].v), NEW Q, Q = [O EXCEPT ![p] = Idle]
    PROVE  Sound(t, H, Q, P)
  <1>1. PICK f, m, v : f = Len(s.vfs) + 1 /\ m = Len(s.node) + 1 /\ v = O[p].v
    OBVIOUS
  <1>2. Shape(s) /\ Form(s) /\ H \in [Procs -> Spot(s)] /\ P \in Seq(DOMAIN s.node)
    BY DEF Sound, Shape
  <1>20. /\ v \in DOMAIN s.node /\ DOMAIN Q = Procs /\ Leaves(H, O, Q, p, v)
         /\ \A q \in Procs : OpOk(s, H, Q, q) /\ Lone(Q, q)
    BY <1>1, MountLeaves
  <1>21. v # Null
    BY <1>2, <1>20, NodesPositive
  <1>3. Mounted(s, t, v, f, m)
    BY <1>1, <1>2, <1>20, <1>21, MountMounts
  <1>4. /\ Shape(t) /\ t.node[m].refcount = 1
        /\ \A u \in DOMAIN s.node : /\ t.node[u].refcount = s.node[u].refcount
                                    /\ t.node[u].type = s.node[u].type
                                    /\ t.node[u].kids = s.node[u].kids
                                    /\ t.node[u].name = s.node[u].name
    BY <1>2, <1>3, <1>20, MountShape
  <1>5. DOMAIN t.node = DOMAIN s.node \cup {m} /\ m \notin DOMAIN s.node
    BY <1>3 DEF Mounted
  <1>6. m # Null /\ Null \notin DOMAIN s.node
    BY <1>2, <1>4, <1>5, NodesPositive DEF Shape
  <1>7. H \in [Procs -> Spot(t)] /\ P \in Seq(DOMAIN t.node)
    <2>1. Spot(s) \subseteq Spot(t) /\ DOMAIN s.node \subseteq DOMAIN t.node
      BY <1>5 DEF Spot
    <2>2. P \in Seq(DOMAIN t.node)
      BY <1>2, <2>1
    <2>3. H \in [Procs -> Spot(t)]
      BY <1>2, <2>1
    <2> QED BY <2>2, <2>3
  <1>8. ASSUME NEW q \in Procs PROVE OpOk(t, H, Q, q)
    <2>1. OpOk(s, H, Q, q)
      BY <1>20
    <2>2. ASSUME Q[q].at = "create" PROVE Free(t, Q[q].v, Q[q].name)
      <3>1. PICK e, name : e = Q[q].v /\ name = Q[q].name
        OBVIOUS
      <3>2. e \in DOMAIN s.node /\ Free(s, e, name)
        BY <2>1, <2>2, <3>1 DEF OpOk
      <3>3. Free(t, e, name)
        BY <1>2, <1>4, <3>2, FreeKept
      <3> QED BY <3>1, <3>3
    <2> QED BY <1>5, <2>1, <2>2 DEF OpOk
  <1>9. ASSUME NEW u \in DOMAIN t.node
        PROVE  t.node[u].refcount = Users(H, Q, u) + Ties(t, u) + Cardinality(Pinned(P, u))
    <2>1. CASE u = m
      <3>1. Users(H, O, u) = 0
        BY <1>5, <1>6, <2>1, NoUsers
      <3>2. Cardinality(Pinned(P, u)) = 0
        BY <1>2, <1>5, <2>1, PinnedCount
      <3>3. Ties(t, u) = 1
        BY <1>2, <1>3, <1>20, <2>1, MountTies
      <3>4. Users(H, Q, u) = 0
        <4>1. u # v
          BY <1>5, <1>20, <2>1
        <4>2. PICK a, b, i : a = Users(H, O, u) /\ b = Users(H, Q, u) /\ i = One(u, v)
          OBVIOUS
        <4>3. b \in Nat /\ a = b + i
          <5>1. Users(H, Q, u) \in Nat /\ Users(H, O, u) = Users(H, Q, u) + One(u, v)
            BY <1>1, <1>20, MountUsers
          <5> QED BY <4>2, <5>1
        <4>4. a = 0 /\ i = 0
          BY <3>1, <4>1, <4>2 DEF One
        <4> QED BY <4>2, <4>3, <4>4
      <3> QED BY <1>4, <2>1, <3>2, <3>3, <3>4
    <2>2. CASE u # m
      <3>1. u \in DOMAIN s.node
        BY <1>5, <2>2
      <3>2. PICK a, b, c, e, g, i :
              /\ a = Users(H, O, u) /\ b = Users(H, Q, u) /\ c = Ties(s, u)
              /\ e = Cardinality(Pinned(P, u)) /\ g = Ties(t, u) /\ i = One(u, v)
        OBVIOUS
      <3>3. a \in Nat /\ b \in Nat /\ a = b + i
        <4>1. /\ Users(H, O, u) \in Nat /\ Users(H, Q, u) \in Nat
              /\ Users(H, O, u) = Users(H, Q, u) + One(u, v)
          BY <1>1, <1>20, MountUsers
        <4> QED BY <3>2, <4>1
      <3>4. c \in Nat /\ i \in Int /\ e \in Nat
        BY <1>2, <3>2, TiesCount, PinnedCount DEF One
      <3>5. g = c + i
        BY <1>2, <1>3, <1>20, <3>1, <3>2, MountTies
      <3>6. s.node[u].refcount = a + c + e /\ t.node[u].refcount = s.node[u].refcount
        BY <1>4, <3>1, <3>2 DEF Sound, RefsOk
      <3>7. t.node[u].refcount = b + g + e
        BY <3>3, <3>4, <3>5, <3>6
      <3> QED BY <3>2, <3>7
    <2> QED BY <2>1, <2>2
  <1> QED BY <1>4, <1>7, <1>8, <1>9, <1>20 DEF Sound, RefsOk

\* Before there are threads.
Quiet(H, O, P) == H = [p \in Procs |-> Null] /\ O = [p \in Procs |-> Idle] /\ P = <<>>

\* Then the invariant says that nothing but the roots is held.
LEMMA QuietSound ==
    ASSUME NEW s, NEW H, NEW O, NEW P, Quiet(H, O, P)
    PROVE  Sound(s, H, O, P) /\ Laid(s) <=> Calm(s, Null)
  <1>1. \A p \in Procs : H[p] = Null /\ O[p] = Idle /\ O[p].at = "idle"
    BY DEF Quiet, Idle
  <1>2. H \in [Procs -> Spot(s)] /\ DOMAIN O = Procs /\ P \in Seq(DOMAIN s.node)
    BY DEF Quiet, Spot
  <1>3. \A p \in Procs : OpOk(s, H, O, p) /\ Lone(O, p)
    BY <1>1 DEF OpOk, Lone
  <1>4. ASSUME Shape(s), NEW v \in DOMAIN s.node
        PROVE  Users(H, O, v) + Ties(s, v) + Cardinality(Pinned(P, v))
                 = Ties(s, v) + One(v, Null)
    <2>1. v # Null
      BY <1>4, NodesPositive DEF Shape
    <2>2. Openers(H, O, v) = {} /\ Callers(O, v) = {}
      BY <1>1, <2>1 DEF Openers, Callers
    <2>3. Pinned(P, v) = {}
      BY DEF Pinned, Quiet
    <2>4. Users(H, O, v) = 0 /\ Cardinality(Pinned(P, v)) = 0
      BY <2>2, <2>3, FS_EmptySet DEF Users
    <2>5. Ties(s, v) \in Nat
      BY <1>4, TiesCount
    <2> QED BY <2>1, <2>4, <2>5 DEF One
  <1>5. Shape(s) => (RefsOk(s, H, O, P) <=>
          \A v \in DOMAIN s.node : s.node[v].refcount = Ties(s, v) + One(v, Null))
    BY <1>4 DEF RefsOk
  <1> QED BY <1>2, <1>3, <1>5 DEF Sound, Calm

\* The root file system, alone.
LEMMA InitCalm ==
    ASSUME NEW s, s = vfs_mount(vfs_register(vfs_init, "tmpfs").s, Null)
    PROVE  Calm(s, Null) /\ DOMAIN s.node = {1}
  <1>1. PICK b : b = vfs_register(vfs_init, "tmpfs").s
    OBVIOUS
  <1>2. /\ DOMAIN b = {"node", "vfs", "types", "root"} /\ b.node = <<>> /\ b.vfs = <<>>
        /\ b.types = {"tmpfs"} /\ b.root = Null
    BY <1>1 DEF vfs_register, vfs_init, Rc
  <1>3. PICK t : t = tmpfs_mount(b)
    OBVIOUS
  <1>4. PICK w : w = [t EXCEPT !.root = Len(t.node)]
    OBVIOUS
  <1>5. vfs_mount(b, Null) = w
    BY <1>3, <1>4 DEF vfs_mount
  <1>6. PICK n : n = NewNode(1, Null, "", DIR, 1)
    OBVIOUS
  <1>7. /\ DOMAIN t = DOMAIN b /\ t.types = b.types /\ t.node = Append(b.node, n)
        /\ \E a : /\ Longer(b.vfs, t.vfs, a) /\ DOMAIN a = MountFields /\ a.root = 1 /\ Opened(a)
                  /\ a.covered = Null
    <2>1. List(b.vfs)
      BY <1>2 DEF List
    <2>2. PICK o : o = 1 /\ o = Len(b.vfs) + 1 /\ o = Len(b.node) + 1
      BY <1>2
    <2>3. MountAdded(b, t, o, o)
      BY <1>2, <1>3, <2>1, <2>2, MountAdds
    <2> QED BY <1>6, <2>2, <2>3 DEF MountAdded
  <1>8. PICK a : /\ Longer(b.vfs, t.vfs, a) /\ DOMAIN a = MountFields /\ a.root = 1 /\ Opened(a)
                 /\ a.covered = Null
    BY <1>7
  <1>9. t.node = <<n>> /\ List(t.vfs) /\ DOMAIN t.vfs = {1} /\ t.vfs[1] = a
    BY <1>2, <1>7, <1>8 DEF Longer
  <1>10. /\ DOMAIN w = {"node", "vfs", "types", "root"} /\ w.node = <<n>> /\ w.vfs = t.vfs
         /\ w.types = {"tmpfs"} /\ w.root = 1
    BY <1>2, <1>4, <1>7, <1>9
  <1>11. List(w.node) /\ DOMAIN w.node = {1} /\ w.node[1] = n
    BY <1>10 DEF List, Members
  <1>12. /\ DOMAIN n = NodeFields /\ n.refcount = 1 /\ n.kids = <<>> /\ n.parent = Null
         /\ n.vfs = 1 /\ n.mounted = Null /\ n.size = 0 /\ n.data = <<>> /\ n.inode = 1
    BY <1>6 DEF NewNode, NodeFields
  <1>13. Form(w)
    BY <1>8, <1>9, <1>10, <1>11, <1>12 DEF Form
  <1>14. KidsOk(w, 1) /\ NodeOk(w, 1)
    <2>1. KidsOk(w, 1)
      BY <1>11, <1>12 DEF KidsOk
    <2>2. NodeOk(w, 1)
      BY <1>8, <1>9, <1>10, <1>11, <1>12 DEF NodeOk
    <2> QED BY <2>1, <2>2
  <1>15. Shape(w)
    BY <1>8, <1>9, <1>10, <1>11, <1>13, <1>14 DEF Shape, Tree
  <1>16. Ties(w, 1) = 1
    <2>1. Roots(w, 1) = {1} /\ Cardinality({1}) = 1
      BY <1>8, <1>9, <1>10, FS_Singleton DEF Roots
    <2>2. Covers(w, 1) = {} /\ Cardinality({}) = 0
      BY <1>8, <1>9, <1>10, FS_EmptySet DEF Covers, Null
    <2> QED BY <2>1, <2>2 DEF Ties
  <1>17. Calm(w, Null)
    <2>1. One(1, Null) = 0
      BY DEF One, Null
    <2>2. w.node[1].refcount = Ties(w, 1) + One(1, Null)
      <3>1. Ties(w, 1) = 1 /\ w.node[1].refcount = 1
        BY <1>11, <1>12, <1>16
      <3> QED BY <2>1, <3>1
    <2>3. Laid(w)
      <3>1. List(<<>>) /\ Len(<<>>) = 0
        BY DEF List
      <3>2. FileOk(n)
        BY <1>12, <3>1 DEF FileOk
      <3>3. PICK o : o = 1
        OBVIOUS
      <3>4. Mine(w, o) = {o}
        BY <1>11, <1>12, <3>3 DEF Mine
      <3>5. w.node[o].size = 0 /\ w.node[o].inode = 1 /\ Opened(w.vfs[o])
        BY <1>8, <1>9, <1>10, <1>11, <1>12, <3>3
      <3>6. FsCounted(w, o)
        BY <3>4, <3>5, CountedNew
      <3>7. Counted(w)
        BY <1>9, <1>10, <3>3, <3>6 DEF Counted
      <3> QED BY <1>11, <1>12, <3>2, <3>7 DEF Laid, Sized
    <2> QED BY <1>11, <1>15, <2>2, <2>3 DEF Calm
  <1> QED BY <1>1, <1>5, <1>11, <1>17

-----------------------------------------------------------------------------
(* The steps.                                                              *)

FsInv ==
    /\ Sound(st, fd, op, leaked) /\ archive \in Seq(Entries)
    /\ phase = "boot" => Quiet(fd, op, leaked) /\ Laid(st) /\ DOMAIN st.node = {1}

\* The threads start where nothing is held but the root.
LEMMA FsInit == Init => FsInv
  <1> SUFFICES ASSUME Init PROVE FsInv
    OBVIOUS
  <1>1. Quiet(fd, op, leaked)
    BY DEF Init, Quiet
  <1>2. Calm(st, Null) /\ DOMAIN st.node = {1}
    BY InitCalm DEF Init
  <1>3. Sound(st, fd, op, leaked) /\ Laid(st)
    BY <1>1, <1>2, QuietSound
  <1>4. archive \in Seq(Entries)
    BY FsAssumption DEF Init, Entries
  <1> QED BY <1>1, <1>2, <1>3, <1>4 DEF FsInv

LEMMA BootStep ==
    ASSUME FsInv, Boot
    PROVE  FsInv' /\ Laid(st')
  <1>1. PICK room, r : r = initrd_unpack(st, archive, room) /\ st' = r.s
    BY DEF Boot
  <1>2. Quiet(fd, op, leaked) /\ Laid(st) /\ Sound(st, fd, op, leaked) /\ UNCHANGED <<archive, fd, op, leaked>>
    BY DEF FsInv, Boot
  <1>3. Calm(st, Null)
    BY <1>2, QuietSound
  <1>4. PICK s, a : s = st /\ a = archive
    OBVIOUS
  <1>5. Ended(initrd_unpack(s, a, room))
    BY <1>3, <1>4, UnpackEnded DEF FsInv
  <1>6. Calm(st', Null)
    BY <1>1, <1>4, <1>5 DEF Ended
  <1>7. PICK t, H, O, P : t = st' /\ H = fd /\ O = op /\ P = leaked
    OBVIOUS
  <1>8. Sound(t, H, O, P)
    BY <1>2, <1>6, <1>7, QuietSound
  <1>9. Sound(st', fd', op', leaked') /\ phase' # "boot"
    BY <1>2, <1>7, <1>8 DEF Boot
  <1> QED BY <1>2, <1>6, <1>9 DEF FsInv, Calm

\* The thread p that has looked v up has it open, or is in a call on it.
Takes(H, O, p, v, G, Q) ==
    \/ H[p] = Null /\ G = [H EXCEPT ![p] = v] /\ Q = O
    \/ /\ G = H
       /\ \E o : /\ Q = [O EXCEPT ![p] = o] /\ o.v = v
                 /\ \/ H[p] = Null /\ o.at \in {"trunc", "parent"}
                    \/ o.at = "mount"

LEMMA TakeSound ==
    ASSUME NEW s, NEW H, NEW O, NEW P, NEW p \in Procs, Sound(s, H, O, P), O[p] = Idle,
           NEW v \in DOMAIN s.node, NEW t, t = vnode_hold(s, v), NEW G, NEW Q,
           Takes(H, O, p, v, G, Q)
    PROVE  Sound(t, G, Q, P)
  <1>1. Moved(s, t, v, 1)
    BY HoldMoves DEF Sound
  <1>2. Kin(s, t)
    BY <1>1 DEF Moved
  <1>3. /\ H \in [Procs -> Spot(s)] /\ DOMAIN O = Procs /\ v \in Spot(s)
        /\ v # Null /\ Null \notin DOMAIN s.node
    BY NodesPositive DEF Sound, Spot, Shape
  <1>4. G \in [Procs -> Spot(s)] /\ DOMAIN Q = Procs /\ Only(p, H, O, G, Q)
    <2>1. CASE G = [H EXCEPT ![p] = v] /\ Q = O
      BY <1>3, <2>1 DEF Only
    <2>2. CASE G = H /\ \E o : Q = [O EXCEPT ![p] = o]
      BY <1>3, <2>2 DEF Only
    <2> QED BY <2>1, <2>2 DEF Takes
  <1>5. O[p].at = "idle"
    BY DEF Idle
  <1>6. /\ OpOk(s, G, Q, p) /\ Lone(Q, p)
        /\ \A u \in DOMAIN s.node : Use(G, Q, p, u) = Use(H, O, p, u) + One(u, v)
    <2>1. CASE H[p] = Null /\ G = [H EXCEPT ![p] = v] /\ Q = O
      <3>1. G[p] = v /\ Q[p].at = "idle"
        BY <1>3, <1>5, <2>1
      <3>2. OpOk(s, G, Q, p) /\ Lone(Q, p)
        BY <3>1 DEF OpOk, Lone
      <3>3. \A u \in DOMAIN s.node : /\ (p \in Openers(G, Q, u) <=> u = v) /\ p \notin Callers(Q, u)
                                     /\ p \notin Openers(H, O, u) /\ p \notin Callers(O, u)
        BY <1>3, <1>5, <2>1, <3>1 DEF Openers, Callers
      <3> QED BY <3>2, <3>3 DEF Use, Mark, One
    <2>2. ASSUME NEW o, G = H, Q = [O EXCEPT ![p] = o], o.v = v,
                 (H[p] = Null /\ o.at \in {"trunc", "parent"}) \/ o.at = "mount"
          PROVE  /\ OpOk(s, G, Q, p) /\ Lone(Q, p)
                 /\ \A u \in DOMAIN s.node : Use(G, Q, p, u) = Use(H, O, p, u) + One(u, v)
      <3>1. Q[p] = o /\ G[p] = H[p]
        BY <1>3, <2>2
      <3>2. OpOk(s, G, Q, p)
        BY <2>2, <3>1 DEF OpOk
      <3>3. Lone(Q, p)
        BY <2>2, <3>1 DEF Lone
      <3>4. \A u \in DOMAIN s.node : /\ p \in Openers(G, Q, u) <=> p \in Openers(H, O, u)
                                     /\ p \in Callers(Q, u) <=> u = v
                                     /\ p \notin Callers(O, u)
        BY <1>3, <1>5, <2>2, <3>1 DEF Openers, Callers
      <3> QED BY <3>2, <3>3, <3>4 DEF Use, Mark, One
    <2> QED BY <2>1, <2>2 DEF Takes
  <1>7. ASSUME NEW u \in DOMAIN s.node
        PROVE  t.node[u].refcount = s.node[u].refcount - Use(H, O, p, u) + Use(G, Q, p, u)
    <2>1. s.node[u].refcount \in Int /\ Use(H, O, p, u) \in Int
      BY DEF Sound, Shape, Form, Use, Mark
    <2>2. t.node[u].refcount = IF u = v THEN s.node[u].refcount + 1 ELSE s.node[u].refcount
      BY <1>1 DEF Moved
    <2>3. Use(G, Q, p, u) = Use(H, O, p, u) + One(u, v)
      BY <1>6
    <2> QED BY <2>1, <2>2, <2>3 DEF One
  <1> QED BY <1>2, <1>4, <1>6, <1>7, Settle

\* What the threads' look-ups return.
LEMMA LookupFinds ==
    ASSUME FsInv, NEW path \in Paths, NEW parent \in BOOLEAN, NEW r,
           r = vfs_lookup(st, st.root, path, parent), r.rc = 0
    PROVE  r.v \in DOMAIN st.node /\ r.s = vnode_hold(st, r.v)
  <1>1. PICK s : s = st
    OBVIOUS
  <1>2. Shape(s) /\ s.root \in Spot(s) /\ path \in Seq(STRING)
    BY <1>1, FsAssumption DEF FsInv, Sound, Shape, Form, Spot
  <1>3. Got(s, r)
    BY <1>1, <1>2, LookupGot
  <1> QED BY <1>1, <1>3 DEF Got

\* A thread in a call is not booting.
LEMMA NotBoot ==
    ASSUME FsInv, NEW p \in Procs, op[p].at # "idle"
    PROVE  phase # "boot"
  <1>1. SUFFICES ASSUME phase = "boot" PROVE FALSE
    OBVIOUS
  <1>2. op = [q \in Procs |-> Idle]
    BY <1>1 DEF FsInv, Quiet
  <1> QED BY <1>2 DEF Idle

LEMMA OpenStep ==
    ASSUME FsInv, NEW p \in Procs, Open(p)
    PROVE  FsInv'
  <1>1. PICK s, H, O, P, t, G, Q : /\ s = st /\ H = fd /\ O = op /\ P = leaked
                                   /\ t = st' /\ G = fd' /\ Q = op'
    OBVIOUS
  <1>2. Sound(s, H, O, P) /\ H[p] = Null /\ O[p] = Idle
    BY <1>1 DEF FsInv, Open, Begin
  <1>3. PICK path, flags : path \in Paths \cup {None} /\
          \E ref \in IF path = None THEN {fd[q] : q \in Procs} \ {Null} ELSE {Null} :
          \E r \in {vfs_open(st, ref, path, flags)} :
             /\ r.rc = 0 /\ st' = r.s
             /\ \/ /\ Enter(p, [at |-> "trunc", v |-> r.v, bytes |-> ByteCount(r.v)])
                   /\ UNCHANGED fd
                \/ fd' = [fd EXCEPT ![p] = r.v] /\ UNCHANGED <<op, raced>>
    BY DEF Open
  <1>4. PICK ref, r :
          /\ ref \in (IF path = None THEN {fd[q] : q \in Procs} \ {Null} ELSE {Null})
          /\ r = vfs_open(s, ref, path, flags) /\ r.rc = 0 /\ t = r.s
          /\ \/ /\ Enter(p, [at |-> "trunc", v |-> r.v, bytes |-> ByteCount(r.v)])
                /\ UNCHANGED fd
             \/ fd' = [fd EXCEPT ![p] = r.v] /\ UNCHANGED <<op, raced>>
    BY <1>1, <1>3
  <1>5. path = None \/ path \in Seq(STRING)
    BY <1>3, FsAssumption
  <1>6. ref \in Spot(s)
    BY <1>1, <1>2, <1>4 DEF Sound, Spot
  <1>7. Got(s, r)
    BY <1>2, <1>4, <1>5, <1>6, OpenGot DEF Sound
  <1>8. PICK v : v = r.v
    OBVIOUS
  <1>9. v \in DOMAIN s.node /\ t = vnode_hold(s, v)
    BY <1>4, <1>7, <1>8 DEF Got
  <1>10. \/ G = [H EXCEPT ![p] = v] /\ Q = O
         \/ /\ G = H
            /\ \E o : Q = [O EXCEPT ![p] = o] /\ o.v = v /\ o.at = "trunc"
    <2>1. CASE /\ Enter(p, [at |-> "trunc", v |-> r.v, bytes |-> ByteCount(r.v)])
               /\ UNCHANGED fd
      <3>1. PICK o : o = [at |-> "trunc", v |-> v, bytes |-> ByteCount(v)]
        OBVIOUS
      <3>2. Q = [O EXCEPT ![p] = o] /\ G = H
        BY <1>1, <1>8, <2>1, <3>1 DEF Enter
      <3>3. o.v = v /\ o.at = "trunc"
        BY <3>1
      <3> QED BY <3>2, <3>3
    <2>2. CASE fd' = [fd EXCEPT ![p] = r.v] /\ UNCHANGED <<op, raced>>
      BY <1>1, <1>8, <2>2
    <2> QED BY <1>4, <2>1, <2>2
  <1>11. Sound(t, G, Q, P)
    <2>1. Takes(H, O, p, v, G, Q)
      BY <1>2, <1>10 DEF Takes
    <2> QED BY <1>2, <1>9, <2>1, TakeSound
  <1>12. phase = "run" /\ UNCHANGED <<archive, phase, leaked>>
    BY DEF Open, Begin
  <1> QED BY <1>1, <1>11, <1>12 DEF FsInv

\* A step that only changes what no reference depends on.
LEMMA StillSound ==
    ASSUME NEW s, NEW H, NEW O, NEW P, Sound(s, H, O, P), NEW t, Filed(s, t), NEW p \in Procs
    PROVE  Sound(t, H, O, P)
  <1>1. Kin(s, t) /\ H \in [Procs -> Spot(s)] /\ DOMAIN O = Procs /\ OpOk(s, H, O, p) /\ Lone(O, p)
    BY DEF Filed, Sound
  <1>2. Only(p, H, O, H, O)
    BY DEF Only
  <1>3. ASSUME NEW v \in DOMAIN s.node
        PROVE  t.node[v].refcount = s.node[v].refcount - Use(H, O, p, v) + Use(H, O, p, v)
    <2>1. t.node[v].refcount = s.node[v].refcount /\ s.node[v].refcount \in Int
      BY DEF Filed, Sound, Shape, Form
    <2>2. Use(H, O, p, v) \in Int
      BY DEF Use, Mark
    <2> QED BY <2>1, <2>2
  <1> QED BY <1>1, <1>2, <1>3, Settle

LEMMA OpenFailsStep ==
    ASSUME FsInv, NEW p \in Procs, OpenFails(p)
    PROVE  FsInv'
  <1>1. PICK s, H, O, P, t : s = st /\ H = fd /\ O = op /\ P = leaked /\ t = st'
    OBVIOUS
  <1>2. Sound(s, H, O, P)
    BY <1>1 DEF FsInv
  <1>3. PICK path, flags : /\ path \in Paths
                           /\ \E r \in {vfs_open(st, Null, path, flags)} : r.rc # 0 /\ st' = r.s
    BY DEF OpenFails
  <1>4. PICK r : r = vfs_open(s, Null, path, flags) /\ r.rc # 0 /\ t = r.s
    BY <1>1, <1>3
  <1>5. path \in Seq(STRING) /\ Null \in Spot(s)
    BY <1>3, FsAssumption DEF Spot
  <1>6. Got(s, r)
    BY <1>2, <1>4, <1>5, OpenGot DEF Sound
  <1>7. Filed(s, t)
    BY <1>4, <1>6 DEF Got, Still
  <1>8. Sound(t, H, O, P)
    BY <1>2, <1>7, StillSound
  <1>9. phase = "run" /\ UNCHANGED <<archive, phase, fd, op, leaked>>
    BY DEF OpenFails, Begin
  <1> QED BY <1>1, <1>8, <1>9 DEF FsInv

LEMMA TruncateStep ==
    ASSUME FsInv, NEW p \in Procs, Truncate(p)
    PROVE  FsInv'
  <1>1. PICK s, H, O, P, t, G, Q : /\ s = st /\ H = fd /\ O = op /\ P = leaked
                                   /\ t = st' /\ G = fd' /\ Q = op'
    OBVIOUS
  <1>2. Sound(s, H, O, P) /\ O[p].at = "trunc"
    BY <1>1 DEF FsInv, Truncate
  <1>3. PICK v : v = O[p].v
    OBVIOUS
  <1>4. /\ v \in DOMAIN s.node /\ H[p] = Null /\ H \in [Procs -> Spot(s)] /\ DOMAIN O = Procs
        /\ Shape(s) /\ v \in Spot(s)
    BY <1>2, <1>3 DEF Sound, OpOk, Spot
  <1>5. PICK bytes : t = TruncNode(s, v, bytes)
    BY <1>1, <1>3 DEF Truncate
  <1>6. Filed(s, t)
    BY <1>4, <1>5, TruncFiled
  <1>7. G = [H EXCEPT ![p] = v] /\ Q = [O EXCEPT ![p] = Idle]
    BY <1>1, <1>3 DEF Truncate
  <1>8. /\ G \in [Procs -> Spot(s)] /\ DOMAIN Q = Procs /\ Only(p, H, O, G, Q)
        /\ G[p] = v /\ Q[p].at = "idle"
    BY <1>4, <1>7 DEF Only, Idle
  <1>9. OpOk(s, G, Q, p) /\ Lone(Q, p)
    BY <1>8 DEF OpOk, Lone
  <1>10. ASSUME NEW u \in DOMAIN s.node
         PROVE  t.node[u].refcount = s.node[u].refcount - Use(H, O, p, u) + Use(G, Q, p, u)
    <2>1. t.node[u].refcount = s.node[u].refcount /\ s.node[u].refcount \in Int
      BY <1>4, <1>6 DEF Filed, Shape, Form
    <2>2. p \notin Openers(H, O, u) /\ (p \in Callers(O, u) <=> u = v)
      BY <1>2, <1>3 DEF Openers, Callers
    <2>3. (p \in Openers(G, Q, u) <=> u = v) /\ p \notin Callers(Q, u)
      BY <1>8 DEF Openers, Callers
    <2>4. Use(H, O, p, u) = One(u, v) /\ Use(G, Q, p, u) = One(u, v) /\ One(u, v) \in Int
      BY <2>2, <2>3 DEF Use, Mark, One
    <2> QED BY <2>1, <2>4
  <1>11. Sound(t, G, Q, P)
    BY <1>2, <1>6, <1>8, <1>9, <1>10, Settle DEF Filed
  <1>12. phase # "boot" /\ UNCHANGED <<archive, phase, leaked>>
    BY <1>1, <1>2, NotBoot DEF Truncate
  <1> QED BY <1>1, <1>11, <1>12 DEF FsInv

LEMMA CloseStep ==
    ASSUME FsInv, NEW p \in Procs, Close(p)
    PROVE  FsInv'
  <1>1. PICK s, H, O, P, t, G, Q : /\ s = st /\ H = fd /\ O = op /\ P = leaked
                                   /\ t = st' /\ G = fd' /\ Q = op'
    OBVIOUS
  <1>2. Sound(s, H, O, P) /\ O[p].at = "idle" /\ Q = O
    BY <1>1 DEF FsInv, Close, Idle
  <1>3. PICK v : v = H[p]
    OBVIOUS
  <1>4. /\ v \in DOMAIN s.node /\ H \in [Procs -> Spot(s)] /\ DOMAIN O = Procs
        /\ Shape(s) /\ Null \in Spot(s) /\ Null \notin DOMAIN s.node
    BY <1>1, <1>2, <1>3, NodesPositive DEF Sound, Spot, Close, Shape
  <1>5. t = vnode_release(s, v)
    BY <1>1, <1>3 DEF Close, vfs_close
  <1>6. Moved(s, t, v, -1)
    BY <1>4, <1>5, HoldMoves
  <1>7. G = [H EXCEPT ![p] = Null]
    BY <1>1 DEF Close
  <1>8. /\ G \in [Procs -> Spot(s)] /\ DOMAIN Q = Procs /\ Only(p, H, O, G, Q) /\ G[p] = Null
    BY <1>2, <1>4, <1>7 DEF Only
  <1>9. OpOk(s, G, Q, p) /\ Lone(Q, p)
    BY <1>2, <1>8 DEF OpOk, Lone
  <1>10. ASSUME NEW u \in DOMAIN s.node
         PROVE  t.node[u].refcount = s.node[u].refcount - Use(H, O, p, u) + Use(G, Q, p, u)
    <2>1. s.node[u].refcount \in Int
      BY <1>4 DEF Shape, Form
    <2>2. (p \in Openers(H, O, u) <=> u = v) /\ p \notin Callers(O, u)
      BY <1>2, <1>3 DEF Openers, Callers
    <2>3. p \notin Openers(G, Q, u) /\ p \notin Callers(Q, u)
      BY <1>2, <1>4, <1>8 DEF Openers, Callers
    <2>4. Use(H, O, p, u) = One(u, v) /\ Use(G, Q, p, u) = 0
      BY <2>2, <2>3 DEF Use, Mark, One
    <2>5. t.node[u].refcount = IF u = v THEN s.node[u].refcount + (-1) ELSE s.node[u].refcount
      BY <1>6 DEF Moved
    <2> QED BY <2>1, <2>4, <2>5 DEF One
  <1>11. Sound(t, G, Q, P)
    BY <1>2, <1>6, <1>8, <1>9, <1>10, Settle DEF Moved
  <1>12. phase = "run" /\ UNCHANGED <<archive, phase, leaked>>
    BY DEF Close
  <1> QED BY <1>1, <1>11, <1>12 DEF FsInv

\* A step of a write: process p goes on without a reference of its own.
Keeps(s, H, O, p, Q) ==
    /\ DOMAIN Q = Procs
    /\ Only(p, H, O, H, Q)
    /\ Q[p].at \in {"idle", "write", "store"}
    /\ Q[p].at # "idle" => Q[p].v \in DOMAIN s.node

LEMMA KeptSound ==
    ASSUME NEW s, NEW H, NEW O, NEW P, Sound(s, H, O, P), NEW p \in Procs,
           O[p].at \in {"idle", "write", "store"}, NEW t, Filed(s, t), NEW Q,
           Keeps(s, H, O, p, Q)
    PROVE  Sound(t, H, Q, P)
  <1>1. H \in [Procs -> Spot(s)] /\ DOMAIN O = Procs /\ Shape(s)
    BY DEF Sound
  <1>2. DOMAIN Q = Procs /\ Only(p, H, O, H, Q)
    BY DEF Keeps
  <1>3. OpOk(s, H, Q, p) /\ Lone(Q, p)
    BY DEF Keeps, OpOk, Lone
  <1>4. ASSUME NEW u \in DOMAIN s.node
        PROVE  t.node[u].refcount = s.node[u].refcount - Use(H, O, p, u) + Use(H, Q, p, u)
    <2>1. t.node[u].refcount = s.node[u].refcount /\ s.node[u].refcount \in Int
      BY <1>1 DEF Filed, Shape, Form
    <2>2. Use(H, Q, p, u) = Use(H, O, p, u)
      <3>1. p \in Openers(H, O, u) <=> p \in Openers(H, Q, u)
        BY <1>2 DEF Keeps, Openers
      <3>2. p \notin Callers(O, u) /\ p \notin Callers(Q, u)
        BY <1>2 DEF Keeps, Callers
      <3> QED BY <3>1, <3>2 DEF Use, Mark
    <2>3. Use(H, O, p, u) \in Int
      BY DEF Use, Mark
    <2> QED BY <2>1, <2>2, <2>3
  <1>5. Kin(s, t)
    BY DEF Filed
  <1> QED BY <1>1, <1>2, <1>3, <1>4, <1>5, Settle

LEMMA WriteSound ==
    ASSUME NEW s, NEW H, NEW O, NEW P, Sound(s, H, O, P), NEW p \in Procs,
           O[p].at \in {"idle", "write", "store"}, NEW t, Filed(s, t), NEW Q, NEW o,
           Q = [O EXCEPT ![p] = o], o.at \in {"idle", "write", "store"},
           o.at # "idle" => o.v \in DOMAIN s.node
    PROVE  Sound(t, H, Q, P)
  <1>1. H \in [Procs -> Spot(s)] /\ DOMAIN O = Procs
    BY DEF Sound
  <1>2. DOMAIN Q = Procs /\ Only(p, H, O, H, Q) /\ Q[p] = o
    BY <1>1 DEF Only
  <1>3. Keeps(s, H, O, p, Q)
    BY <1>2 DEF Keeps
  <1> QED BY <1>3, KeptSound

LEMMA WriteStep ==
    ASSUME FsInv, NEW p \in Procs, WriteAt(p) \/ WriteLock(p) \/ WriteStore(p)
    PROVE  FsInv'
  <1>1. PICK s, H, O, P, t, Q : s = st /\ H = fd /\ O = op /\ P = leaked /\ t = st' /\ Q = op'
    OBVIOUS
  <1>2. Sound(s, H, O, P) /\ Shape(s)
    BY <1>1 DEF FsInv, Sound
  <1>3. Filed(s, s)
    BY <1>2, StillSelf DEF Shape, Still
  <1>4. CASE WriteAt(p)
    <2>1. O[p].at = "idle" /\ t = s /\ H[p] \in DOMAIN s.node
      BY <1>1, <1>2, <1>4 DEF WriteAt, Begin, Idle, Sound, Spot
    <2>2. PICK o : o.at = "write" /\ o.v = H[p] /\ Q = [O EXCEPT ![p] = o]
      <3>1. PICK i, n : op' = [op EXCEPT ![p] = [at |-> "write", v |-> fd[p], off |-> i, len |-> n]]
        BY <1>4 DEF WriteAt
      <3>2. PICK o : o = [at |-> "write", v |-> fd[p], off |-> i, len |-> n]
        OBVIOUS
      <3>3. o.at = "write" /\ o.v = H[p] /\ Q = [O EXCEPT ![p] = o]
        BY <1>1, <3>1, <3>2
      <3> QED BY <3>3
    <2>3. Sound(t, H, Q, P)
      BY <1>2, <1>3, <2>1, <2>2, WriteSound
    <2>4. phase = "run" /\ UNCHANGED <<archive, phase, fd, leaked>>
      BY <1>4 DEF WriteAt, Begin
    <2> QED BY <1>1, <2>3, <2>4 DEF FsInv
  <1>5. CASE WriteLock(p)
    <2>1. O[p].at = "write" /\ t = s /\ O[p].v \in DOMAIN s.node
      BY <1>1, <1>2, <1>5 DEF WriteLock, Sound, OpOk
    <2>2. PICK o : o.at \in {"idle", "store"} /\ (o.at # "idle" => o.v = O[p].v) /\ Q = [O EXCEPT ![p] = o]
      <3>1. PICK a, c : /\ a = Idle
                        /\ c = [at |-> "store", v |-> op[p].v, off |-> op[p].off, len |-> op[p].len,
                                bytes |-> ByteCount(op[p].v)]
        OBVIOUS
      <3>2. op' = [op EXCEPT ![p] = a] \/ op' = [op EXCEPT ![p] = c]
        BY <1>5, <3>1 DEF WriteLock, Enter
      <3>3. a.at = "idle" /\ c.at = "store" /\ c.v = O[p].v
        BY <1>1, <3>1 DEF Idle
      <3> QED BY <1>1, <3>2, <3>3
    <2>3. Sound(t, H, Q, P)
      BY <1>2, <1>3, <2>1, <2>2, WriteSound
    <2>4. phase # "boot" /\ UNCHANGED <<archive, phase, fd, leaked>>
      BY <1>1, <1>5, <2>1, NotBoot DEF WriteLock
    <2> QED BY <1>1, <2>3, <2>4 DEF FsInv
  <1>6. CASE WriteStore(p)
    <2>1. O[p].at = "store" /\ O[p].v \in DOMAIN s.node /\ Q = [O EXCEPT ![p] = Idle] /\ Idle.at = "idle"
      BY <1>1, <1>2, <1>6 DEF WriteStore, Sound, OpOk, Idle
    <2>2. PICK v, o, n, b, c : v = O[p].v /\ t = WriteNode(s, v, o, n, b, c)
      BY <1>1, <1>6 DEF WriteStore
    <2>3. Filed(s, t)
      BY <1>2, <2>1, <2>2, WriteFiled
    <2>4. PICK i : i = Idle
      OBVIOUS
    <2>5. Q = [O EXCEPT ![p] = i] /\ i.at = "idle"
      BY <2>1, <2>4
    <2>6. Sound(t, H, Q, P)
      BY <1>2, <2>1, <2>3, <2>5, WriteSound
    <2>7. phase # "boot" /\ UNCHANGED <<archive, phase, fd, leaked>>
      BY <1>1, <1>6, <2>1, NotBoot DEF WriteStore
    <2> QED BY <1>1, <2>6, <2>7 DEF FsInv
  <1> QED BY <1>4, <1>5, <1>6

LEMMA CreateLookupStep ==
    ASSUME FsInv, NEW p \in Procs, CreateLookup(p)
    PROVE  FsInv'
  <1>1. PICK s, H, O, P, t, Q : s = st /\ H = fd /\ O = op /\ P = leaked /\ t = st' /\ Q = op'
    OBVIOUS
  <1>2. Sound(s, H, O, P) /\ H[p] = Null /\ O[p] = Idle
    BY <1>1 DEF FsInv, CreateLookup, Begin
  <1>3. PICK path, type, r :
          /\ path \in Paths /\ r = vfs_lookup(st, st.root, path, TRUE) /\ r.rc = 0 /\ st' = r.s
          /\ op' = [op EXCEPT ![p] = [at |-> "parent", v |-> r.v, name |-> Leaf(path), type |-> type]]
    BY DEF CreateLookup
  <1>4. r.v \in DOMAIN st.node /\ r.s = vnode_hold(st, r.v)
    BY <1>3, LookupFinds
  <1>5. PICK v, o : v = r.v /\ o = [at |-> "parent", v |-> r.v, name |-> Leaf(path), type |-> type]
    OBVIOUS
  <1>6. v \in DOMAIN s.node /\ t = vnode_hold(s, v) /\ Q = [O EXCEPT ![p] = o]
    BY <1>1, <1>3, <1>4, <1>5
  <1>7. o.at = "parent" /\ o.v = v
    BY <1>5
  <1>8. Takes(H, O, p, v, H, Q)
    BY <1>2, <1>6, <1>7 DEF Takes
  <1>9. Sound(t, H, Q, P)
    BY <1>2, <1>6, <1>8, TakeSound
  <1>10. phase = "run" /\ UNCHANGED <<archive, phase, fd, leaked>>
    BY DEF CreateLookup, Begin
  <1> QED BY <1>1, <1>9, <1>10 DEF FsInv

LEMMA CreateLockStep ==
    ASSUME FsInv, NEW p \in Procs, CreateLock(p)
    PROVE  FsInv'
  <1>1. PICK s, H, O, P, Q : s = st /\ H = fd /\ O = op /\ P = leaked /\ Q = op'
    OBVIOUS
  <1>2. Sound(s, H, O, P) /\ O[p].at = "parent" /\ Shape(s)
    BY <1>1 DEF FsInv, CreateLock, Sound
  <1>3. PICK v, name, type : v = O[p].v /\ name = O[p].name /\ type = O[p].type
    OBVIOUS
  <1>4. v \in DOMAIN s.node /\ H[p] = Null /\ H \in [Procs -> Spot(s)] /\ DOMAIN O = Procs
    BY <1>2, <1>3 DEF Sound, OpOk
  <1>5. tmpfs_create_ok(s, v, name, type) /\ \A q \in Procs : ~(O[q].at = "create" /\ O[q].v = v)
    BY <1>1, <1>3 DEF CreateLock, DirLocked
  <1>6. Free(s, v, name)
    BY <1>2, <1>4, <1>5, CreateFree
  <1>7. PICK o : o.at = "create" /\ o.v = v /\ o.name = name /\ Q = [O EXCEPT ![p] = o]
    <2>1. PICK o : o = [at |-> "create", v |-> v, name |-> name, type |-> type,
                        inode |-> st.vfs[st.node[v].vfs].next_inode,
                        count |-> st.vfs[st.node[v].vfs].node_count]
      OBVIOUS
    <2>2. Enter(p, o)
      BY <1>1, <1>3, <2>1 DEF CreateLock
    <2>3. op' = [op EXCEPT ![p] = o]
      BY <2>2 DEF Enter
    <2>4. o.at = "create" /\ o.v = v /\ o.name = name
      BY <2>1
    <2> QED BY <1>1, <2>3, <2>4
  <1>8. DOMAIN Q = Procs /\ Only(p, H, O, H, Q) /\ Q[p] = o /\ \A q \in Procs : q # p => Q[q] = O[q]
    BY <1>4, <1>7 DEF Only
  <1>9. OpOk(s, H, Q, p) /\ Lone(Q, p)
    BY <1>4, <1>5, <1>6, <1>7, <1>8 DEF OpOk, Lone
  <1>10. ASSUME NEW u \in DOMAIN s.node
         PROVE  s.node[u].refcount = s.node[u].refcount - Use(H, O, p, u) + Use(H, Q, p, u)
    <2>1. s.node[u].refcount \in Int
      BY <1>2 DEF Shape, Form
    <2>2. p \in Openers(H, Q, u) <=> p \in Openers(H, O, u)
      BY <1>2, <1>7, <1>8 DEF Openers
    <2>3. p \in Callers(Q, u) <=> p \in Callers(O, u)
      BY <1>2, <1>3, <1>7, <1>8 DEF Callers
    <2>4. Use(H, Q, p, u) = Use(H, O, p, u) /\ Use(H, O, p, u) \in Int
      BY <2>2, <2>3 DEF Use, Mark
    <2> QED BY <2>1, <2>4
  <1>11. Kin(s, s)
    BY <1>2, StillSelf DEF Shape, Still, Filed
  <1>12. Sound(s, H, Q, P)
    BY <1>2, <1>4, <1>8, <1>9, <1>10, <1>11, Settle
  <1>13. phase # "boot" /\ UNCHANGED <<st, archive, phase, fd, leaked>>
    BY <1>1, <1>2, NotBoot DEF CreateLock
  <1> QED BY <1>1, <1>12, <1>13 DEF FsInv

LEMMA CreateFailsStep ==
    ASSUME FsInv, NEW p \in Procs, CreateFails(p)
    PROVE  FsInv'
  <1>1. PICK s, H, O, P, t, Q : s = st /\ H = fd /\ O = op /\ P = leaked /\ t = st' /\ Q = op'
    OBVIOUS
  <1>2. Sound(s, H, O, P) /\ O[p].at = "parent" /\ Shape(s)
    BY <1>1 DEF FsInv, CreateFails, Sound
  <1>3. PICK v : v = O[p].v
    OBVIOUS
  <1>4. v \in DOMAIN s.node /\ H \in [Procs -> Spot(s)] /\ DOMAIN O = Procs
    BY <1>2, <1>3 DEF Sound, OpOk
  <1>5. t = vnode_release(s, v) /\ Q = [O EXCEPT ![p] = Idle]
    BY <1>1, <1>3 DEF CreateFails
  <1>6. Moved(s, t, v, -1)
    BY <1>2, <1>4, <1>5, HoldMoves
  <1>7. DOMAIN Q = Procs /\ Only(p, H, O, H, Q) /\ Q[p].at = "idle"
    BY <1>4, <1>5 DEF Only, Idle
  <1>8. OpOk(s, H, Q, p) /\ Lone(Q, p)
    BY <1>7 DEF OpOk, Lone
  <1>9. ASSUME NEW u \in DOMAIN s.node
        PROVE  t.node[u].refcount = s.node[u].refcount - Use(H, O, p, u) + Use(H, Q, p, u)
    <2>1. s.node[u].refcount \in Int
      BY <1>2 DEF Shape, Form
    <2>2. p \in Openers(H, Q, u) <=> p \in Openers(H, O, u)
      BY <1>2, <1>7 DEF Openers
    <2>3. (p \in Callers(O, u) <=> u = v) /\ p \notin Callers(Q, u)
      BY <1>2, <1>3, <1>7 DEF Callers
    <2>4. Use(H, O, p, u) = Use(H, Q, p, u) + One(u, v) /\ Use(H, Q, p, u) \in Int
      BY <2>2, <2>3 DEF Use, Mark, One
    <2>5. t.node[u].refcount = IF u = v THEN s.node[u].refcount + (-1) ELSE s.node[u].refcount
      BY <1>6 DEF Moved
    <2> QED BY <2>1, <2>4, <2>5 DEF One
  <1>10. Sound(t, H, Q, P)
    BY <1>2, <1>4, <1>6, <1>7, <1>8, <1>9, Settle DEF Moved
  <1>11. phase # "boot" /\ UNCHANGED <<archive, phase, fd, leaked>>
    BY <1>1, <1>2, NotBoot DEF CreateFails
  <1> QED BY <1>1, <1>10, <1>11 DEF FsInv

LEMMA CreateDoneStep ==
    ASSUME FsInv, NEW p \in Procs, CreateDone(p)
    PROVE  FsInv'
  <1>1. PICK s, H, O, P, t, G, Q : /\ s = st /\ H = fd /\ O = op /\ P = leaked
                                   /\ t = st' /\ G = fd' /\ Q = op'
    OBVIOUS
  <1>2. Sound(s, H, O, P) /\ O[p].at = "create"
    BY <1>1 DEF FsInv, CreateDone
  <1>3. PICK o, r : /\ o = O[p] /\ r = CreateEnd(s, o.v, o.name, o.type, o.inode, o.count)
                    /\ t = r.s /\ G = [H EXCEPT ![p] = r.v]
    BY <1>1 DEF CreateDone
  <1>4. PICK d, name, type, inode, count :
          /\ d = o.v /\ name = o.name /\ type = o.type /\ inode = o.inode /\ count = o.count
    OBVIOUS
  <1>5. Shape(s) /\ d \in DOMAIN s.node /\ Free(s, d, name)
    BY <1>2, <1>3, <1>4 DEF Sound, OpOk
  <1>6. Born(s, r.s, d, r.v, name, type)
    BY <1>3, <1>4, <1>5, EndBorn
  <1>7. PICK m : m = r.v
    OBVIOUS
  <1>8. Born(s, t, O[p].v, m, O[p].name, type) /\ G = [H EXCEPT ![p] = m] /\ Q = [O EXCEPT ![p] = Idle]
    BY <1>1, <1>3, <1>4, <1>6, <1>7 DEF CreateDone
  <1>9. Sound(t, G, Q, P)
    BY <1>2, <1>8, BornSound
  <1>10. phase # "boot" /\ UNCHANGED <<archive, phase, leaked>>
    BY <1>1, <1>2, NotBoot DEF CreateDone
  <1> QED BY <1>1, <1>9, <1>10 DEF FsInv

LEMMA MountLookupStep ==
    ASSUME FsInv, NEW p \in Procs, MountLookup(p)
    PROVE  FsInv'
  <1>1. PICK s, H, O, P, t, Q : s = st /\ H = fd /\ O = op /\ P = leaked /\ t = st' /\ Q = op'
    OBVIOUS
  <1>2. Sound(s, H, O, P) /\ O[p] = Idle
    BY <1>1 DEF FsInv, MountLookup, Begin
  <1>3. PICK path, r :
          /\ path \in Paths /\ r = vfs_lookup(st, st.root, path, FALSE) /\ r.rc = 0 /\ st' = r.s
          /\ op' = [op EXCEPT ![p] = [at |-> "mount", v |-> r.v]]
    BY DEF MountLookup
  <1>4. r.v \in DOMAIN st.node /\ r.s = vnode_hold(st, r.v)
    BY <1>3, LookupFinds
  <1>5. PICK v, o : v = r.v /\ o = [at |-> "mount", v |-> r.v]
    OBVIOUS
  <1>6. v \in DOMAIN s.node /\ t = vnode_hold(s, v) /\ Q = [O EXCEPT ![p] = o]
    BY <1>1, <1>3, <1>4, <1>5
  <1>7. o.at = "mount" /\ o.v = v
    BY <1>5
  <1>8. Takes(H, O, p, v, H, Q)
    BY <1>6, <1>7 DEF Takes
  <1>9. Sound(t, H, Q, P)
    BY <1>2, <1>6, <1>8, TakeSound
  <1>10. phase = "run" /\ UNCHANGED <<archive, phase, fd, leaked>>
    BY DEF MountLookup, Begin
  <1> QED BY <1>1, <1>9, <1>10 DEF FsInv

LEMMA MountEndStep ==
    ASSUME FsInv, NEW p \in Procs, MountDone(p) \/ MountFails(p)
    PROVE  FsInv'
  <1>1. PICK s, H, O, P, t, Q, R : /\ s = st /\ H = fd /\ O = op /\ P = leaked
                                   /\ t = st' /\ Q = op' /\ R = leaked'
    OBVIOUS
  <1>2. Sound(s, H, O, P) /\ O[p].at = "mount" /\ Q = [O EXCEPT ![p] = Idle]
    BY <1>1 DEF FsInv, MountDone, MountFails
  <1>3. Sound(t, H, Q, R)
    <2>1. CASE MountDone(p)
      <3>1. t = vfs_mount(s, O[p].v) /\ R = P
        BY <1>1, <2>1 DEF MountDone
      <3> QED BY <1>2, <3>1, MountSound
    <2>2. CASE MountFails(p)
      <3>1. t = s /\ R = Append(P, O[p].v)
        BY <1>1, <2>2 DEF MountFails
      <3> QED BY <1>2, <3>1, LeakSound
    <2> QED BY <2>1, <2>2
  <1>4. phase # "boot" /\ UNCHANGED <<archive, phase, fd>>
    BY <1>1, <1>2, NotBoot DEF MountDone, MountFails
  <1> QED BY <1>1, <1>3, <1>4 DEF FsInv

\* The invariant holds in every reachable state.
THEOREM FsInvariant == Spec => []FsInv
  <1>1. Init => FsInv
    BY FsInit
  <1>2. FsInv /\ [Next]_vars => FsInv'
    <2> SUFFICES ASSUME FsInv, [Next]_vars PROVE FsInv'
      OBVIOUS
    <2>1. CASE Boot
      BY <2>1, BootStep
    <2>2. ASSUME NEW p \in Procs, Step(p) PROVE FsInv'
      <3>1. CASE Open(p) \/ OpenFails(p)
        BY <3>1, OpenStep, OpenFailsStep
      <3>2. CASE Truncate(p) \/ Close(p)
        BY <3>2, TruncateStep, CloseStep
      <3>3. CASE WriteAt(p) \/ WriteLock(p) \/ WriteStore(p)
        BY <3>3, WriteStep
      <3>4. CASE CreateLookup(p) \/ CreateLock(p) \/ CreateFails(p) \/ CreateDone(p)
        BY <3>4, CreateLookupStep, CreateLockStep, CreateFailsStep, CreateDoneStep
      <3>5. CASE MountLookup(p) \/ MountDone(p) \/ MountFails(p)
        BY <3>5, MountLookupStep, MountEndStep
      <3>6. CASE Scan(p)
        <4>1. UNCHANGED <<st, archive, phase, fd, op, leaked>>
          BY <3>6 DEF Scan
        <4> QED BY <4>1 DEF FsInv
      <3> QED BY <2>2, <3>1, <3>2, <3>3, <3>4, <3>5, <3>6 DEF Step
    <2>3. CASE UNCHANGED vars
      BY <2>3 DEF vars, FsInv
    <2> QED BY <2>1, <2>2, <2>3 DEF Next
  <1> QED BY <1>1, <1>2, PTL DEF Spec

\* The references of every vnode are those of its users and of the file systems
\* tied to it, on every path through vfs.c but the vfs_mount that fails after its
\* look-up, whose hold on the mount point is never given back.
THEOREM FsRefsExact == Spec => []RefsExact
  <1>1. FsInv => RefsExact
    <2> SUFFICES ASSUME FsInv, NEW v \in DOMAIN st.node
                 PROVE  st.node[v].refcount =
                          Cardinality({p \in Procs : fd[p] = v /\ op[p].at # "trunc"})
                          + Cardinality({p \in Procs :
                                /\ op[p].at \in {"trunc", "parent", "create", "mount"}
                                /\ op[p].v = v})
                          + Cardinality({f \in DOMAIN st.vfs : st.vfs[f].root = v})
                          + Cardinality({f \in DOMAIN st.vfs : st.vfs[f].covered = v})
                          + Cardinality({i \in DOMAIN leaked : leaked[i] = v})
      BY DEF RefsExact
    <2>1. st.node[v].refcount = Users(fd, op, v) + Ties(st, v) + Cardinality(Pinned(leaked, v))
      BY DEF FsInv, Sound, RefsOk
    <2>2. PICK a, b, c, d, e : /\ a = Cardinality(Openers(fd, op, v)) /\ b = Cardinality(Callers(op, v))
                               /\ c = Cardinality(Roots(st, v)) /\ d = Cardinality(Covers(st, v))
                               /\ e = Cardinality(Pinned(leaked, v))
      OBVIOUS
    <2>3. a \in Nat /\ b \in Nat /\ c \in Nat /\ d \in Nat /\ e \in Nat
      <3>1. Openers(fd, op, v) \subseteq Procs /\ Callers(op, v) \subseteq Procs
        BY DEF Openers, Callers
      <3>2. IsFiniteSet(Openers(fd, op, v)) /\ IsFiniteSet(Callers(op, v))
        BY <3>1, FsAssumption, FS_Subset
      <3>3. a \in Nat /\ b \in Nat
        BY <2>2, <3>2, FS_CardinalityType
      <3>4. Shape(st) /\ leaked \in Seq(DOMAIN st.node)
        BY DEF FsInv, Sound
      <3>5. IsFiniteSet(Roots(st, v)) /\ IsFiniteSet(Covers(st, v))
        BY <3>4, TiesCount
      <3>6. c \in Nat /\ d \in Nat
        BY <2>2, <3>5, FS_CardinalityType
      <3>7. e \in Nat
        BY <2>2, <3>4, PinnedCount
      <3> QED BY <3>3, <3>6, <3>7
    <2>4. st.node[v].refcount = a + b + c + d + e
      <3>1. st.node[v].refcount = (a + b) + (c + d) + e
        BY <2>1, <2>2 DEF Users, Ties
      <3> QED BY <2>3, <3>1
    <2> QED BY <2>2, <2>4 DEF Openers, Callers, Roots, Covers, Pinned
  <1> QED BY <1>1, FsInvariant, PTL

\* The directories form a tree, and no two children of one have the same name.
THEOREM FsTreeSound == Spec => []TreeSound
  <1>1. FsInv => TreeSound
    <2> SUFFICES ASSUME FsInv PROVE TreeSound
      OBVIOUS
    <2>1. \A v \in DOMAIN st.node : KidsOk(st, v) /\ NodeOk(st, v)
      BY DEF FsInv, Sound, Shape, Tree
    <2> QED BY <2>1 DEF TreeSound, KidsOk, NodeOk
  <1> QED BY <1>1, FsInvariant, PTL

-----------------------------------------------------------------------------
(* Reading and listing.                                                    *)

\* r is q, perhaps with a new child in front.
Shifted(q, r) == r = q \/ \E m : r = <<m>> \o q

\* t has what s has, the same bytes in the files, and perhaps new nodes.
Grown(s, t) ==
    /\ Larger(s, t)
    /\ \A u \in DOMAIN s.node : /\ t.node[u].type = s.node[u].type
                                /\ Shifted(s.node[u].kids, t.node[u].kids)

ScanFields == {"got", "mark", "done", "dirty"}

\* x is a child that getdents has not come to after n entries.
Ahead(kids, x, n) == \E i \in DOMAIN kids : kids[i] = x /\ i + 1 >= n

\* Every child of d that was there when listing c began has been reported or
\* lies ahead.
ListScan(s, d, c) ==
    /\ List(c.got)
    /\ \A x \in Members(c.mark) : x \in Members(c.got) \/ Ahead(s.node[d].kids, x, Len(c.got))
    /\ c.done => Members(c.mark) \subseteq Members(c.got)

\* r is the beginning of q.
Begins(r, q) == List(r) /\ \A i \in 1..Len(r) : r[i] = q[i]

\* What has been read so far of a file that did not change is its beginning.
ReadScan(n, c) ==
    /\ c.mark = Contents(n)
    /\ Begins(c.got, n.data) /\ Len(c.got) <= n.size
    /\ c.done => Len(c.got) = n.size

ScanOk(s, v, c) ==
    /\ DOMAIN c = ScanFields
    /\ c # NoScan => /\ v \in DOMAIN s.node
                     /\ IsDir(s, v) => ListScan(s, v, c)
                     /\ ~IsDir(s, v) => (c.dirty = TRUE \/ ReadScan(s.node[v], c))

\* The contents of a file by their positions.
LEMMA ContentsAre ==
    ASSUME NEW n, FileOk(n)
    PROVE  /\ Contents(n) = [i \in 1..n.size |-> n.data[i]]
           /\ List(Contents(n)) /\ Len(Contents(n)) = n.size
  <1>1. PICK q, k : q = n.data /\ k = n.size
    OBVIOUS
  <1>2. q \in Seq(Members(q)) /\ k \in Nat /\ k <= Len(q)
    BY <1>1 DEF FileOk, List
  <1>3. SubSeq(q, 1, k) = [i \in 1..k |-> q[i]]
    BY <1>2
  <1>4. PICK c : c = SubSeq(q, 1, k)
    OBVIOUS
  <1>5. c = [i \in 1..k |-> c[i]]
    BY <1>3, <1>4
  <1>6. List(c) /\ Len(c) = k
    BY <1>2, <1>5, ListIntro
  <1> QED BY <1>1, <1>3, <1>4, <1>6 DEF Contents

\* A scan goes on where others opened, closed, created or mounted.
LEMMA ScanKept ==
    ASSUME NEW s, Shape(s), NEW t, Grown(s, t), NEW v, NEW c, ScanOk(s, v, c)
    PROVE  ScanOk(t, v, c)
  <1>1. CASE c = NoScan
    BY <1>1 DEF ScanOk
  <1>2. CASE c # NoScan
    <2>1. /\ v \in DOMAIN s.node /\ v \in DOMAIN t.node /\ DOMAIN c = ScanFields
          /\ t.node[v].type = s.node[v].type
          /\ t.node[v].size = s.node[v].size /\ t.node[v].data = s.node[v].data
      BY <1>2 DEF ScanOk, Grown, Larger, SameBytes
    <2>2. CASE IsDir(s, v)
      <3>1. IsDir(t, v) /\ ListScan(s, v, c)
        BY <1>2, <2>1, <2>2 DEF ScanOk, IsDir
      <3>2. PICK q, r : q = s.node[v].kids /\ r = t.node[v].kids
        OBVIOUS
      <3>3. Shifted(q, r) /\ q \in Seq(DOMAIN s.node)
        BY <2>1, <3>2 DEF Grown, Shape, Tree, KidsOk
      <3>4. PICK n : n = Len(c.got) /\ n \in Nat
        BY <3>1, ListBasics DEF ListScan
      <3>5. ASSUME NEW x, Ahead(q, x, n) PROVE Ahead(r, x, n)
        <4>1. CASE r = q
          BY <3>5, <4>1
        <4>2. ASSUME NEW m, r = <<m>> \o q PROVE Ahead(r, x, n)
          <5>1. PICK i \in DOMAIN q : q[i] = x /\ i + 1 >= n
            BY <3>5 DEF Ahead
          <5>2. PICK S : S = DOMAIN s.node \cup {m}
            OBVIOUS
          <5>3. q \in Seq(S) /\ m \in S
            BY <3>3, <5>2
          <5>4. \A j \in DOMAIN q : j + 1 \in DOMAIN r /\ r[j + 1] = q[j]
            BY <4>2, <5>3, ListPush
          <5>5. DOMAIN q = 1..Len(q) /\ Len(q) \in Nat
            BY <5>3
          <5>6. i + 1 \in DOMAIN r /\ r[i + 1] = x
            BY <5>1, <5>4
          <5>7. (i + 1) + 1 >= n
            BY <3>4, <5>1, <5>5
          <5> QED BY <5>6, <5>7 DEF Ahead
        <4> QED BY <3>3, <4>1, <4>2 DEF Shifted
      <3>6. ListScan(t, v, c)
        BY <3>1, <3>2, <3>4, <3>5 DEF ListScan
      <3> QED BY <2>1, <3>1, <3>6 DEF ScanOk
    <2>3. CASE ~IsDir(s, v)
      <3>1. ~IsDir(t, v) /\ (c.dirty = TRUE \/ ReadScan(s.node[v], c))
        BY <1>2, <2>1, <2>3 DEF ScanOk, IsDir
      <3>2. Contents(t.node[v]) = Contents(s.node[v])
        BY <2>1 DEF Contents
      <3>3. ReadScan(s.node[v], c) => ReadScan(t.node[v], c)
        BY <2>1, <3>2 DEF ReadScan
      <3> QED BY <2>1, <3>1, <3>3 DEF ScanOk
    <2> QED BY <2>2, <2>3
  <1> QED BY <1>1, <1>2

\* The file w changes, and every scan of it is told.
LEMMA ScanTold ==
    ASSUME NEW s, NEW t, Kin(s, t), NEW w \in DOMAIN s.node, NEW n, Edited(s, t, w, n),
           NEW v, NEW c, ScanOk(s, v, c), NEW e,
           e = IF v = w /\ c # NoScan THEN [c EXCEPT !.dirty = TRUE] ELSE c
    PROVE  ScanOk(t, v, e)
  <1>1. CASE c = NoScan
    BY <1>1 DEF ScanOk
  <1>2. CASE c # NoScan
    <2>1. /\ v \in DOMAIN s.node /\ DOMAIN c = ScanFields
          /\ v \in DOMAIN t.node /\ t.node[v].type = s.node[v].type /\ t.node[v].kids = s.node[v].kids
      BY <1>2 DEF ScanOk, Kin, SamePlace
    <2>2. /\ DOMAIN e = ScanFields /\ e.got = c.got /\ e.mark = c.mark /\ e.done = c.done
          /\ (v = w => e.dirty = TRUE) /\ (v # w => e = c)
      BY <1>2, <2>1 DEF ScanFields
    <2>3. IsDir(s, v) => ListScan(t, v, e)
      BY <1>2, <2>1, <2>2 DEF ScanOk, ListScan
    <2>4. ~IsDir(s, v) => (e.dirty = TRUE \/ ReadScan(t.node[v], e))
      <3>1. v # w => t.node[v] = s.node[v]
        BY <2>1 DEF Edited
      <3> QED BY <1>2, <2>2, <3>1 DEF ScanOk
    <2>5. IsDir(t, v) <=> IsDir(s, v)
      BY <2>1 DEF IsDir
    <2> QED BY <2>1, <2>2, <2>3, <2>4, <2>5 DEF ScanOk
  <1> QED BY <1>1, <1>2

\* The entries that getdents counts.
Entry(s, d, i) ==
    IF i = 0 THEN d
    ELSE IF i = 1 THEN (IF s.node[d].parent = Null THEN d ELSE s.node[d].parent)
    ELSE tmpfs_child_at(s, d, i - 2)

Full(s, d, off, n) == \A i \in off..(off + n - 1) : Entry(s, d, i) # Null

\* A call of getdents returns some of the next entries, and none only at the end.
LEMMA DentsAre ==
    ASSUME NEW s, NEW d, NEW off \in Nat, NEW cap \in Nat \ {0}
    PROVE  \E n \in Nat : /\ tmpfs_getdents(s, d, off, cap) = [i \in 1..n |-> Entry(s, d, off + i - 1)]
                          /\ n = 0 => Entry(s, d, off) = Null
  <1> DEFINE Good(k) == Full(s, d, off, k) /\ (k < cap => ~Full(s, d, off, k + 1))
  <1>1. \E k \in 0..cap : Good(k)
    <2>1. PICK T : T = {k \in 0..cap : k < cap => ~Full(s, d, off, k + 1)}
      OBVIOUS
    <2>2. T \subseteq Nat /\ cap \in T
      BY <2>1
    <2>3. PICK k \in T : \A y \in T : k <= y
      BY <2>2, LeastNumber
    <2>4. k \in 0..cap /\ (k < cap => ~Full(s, d, off, k + 1))
      BY <2>1, <2>3
    <2>5. Full(s, d, off, k)
      <3>1. CASE k = 0
        BY <3>1 DEF Full
      <3>2. CASE k # 0
        <4>1. k - 1 \in 0..cap /\ k - 1 < cap /\ (k - 1) + 1 = k /\ ~(k <= k - 1)
          BY <2>4, <3>2
        <4>2. k - 1 \notin T
          BY <2>3, <4>1
        <4> QED BY <2>1, <4>1, <4>2
      <3> QED BY <3>1, <3>2
    <2> QED BY <2>4, <2>5
  <1>2. PICK n : n = CHOOSE k \in 0..cap : Good(k)
    OBVIOUS
  <1>3. n \in 0..cap /\ Good(n)
    <2> HIDE DEF Good
    <2> QED BY <1>1, <1>2
  <1>4. tmpfs_getdents(s, d, off, cap) = [i \in 1..n |-> Entry(s, d, off + i - 1)]
    BY <1>2 DEF tmpfs_getdents, Entry, Full
  <1>5. n = 0 => Entry(s, d, off) = Null
    <2>1. ASSUME n = 0 PROVE Entry(s, d, off) = Null
      <3>1. ~Full(s, d, off, 1)
        BY <1>3, <2>1
      <3>2. PICK i \in off..(off + 1 - 1) : Entry(s, d, i) = Null
        BY <3>1 DEF Full
      <3>3. i = off
        BY <3>2
      <3> QED BY <3>2, <3>3
    <2> QED BY <2>1
  <1> QED BY <1>3, <1>4, <1>5

\* A sequence is the function of its positions.
LEMMA ListForm ==
    ASSUME NEW q, List(q)
    PROVE  Len(q) \in Nat /\ DOMAIN q = 1..Len(q) /\ q = [i \in 1..Len(q) |-> q[i]]
  <1>1. Len(q) \in Nat /\ DOMAIN q = 1..Len(q)
    BY ListBasics
  <1>2. PICK S : S = Members(q)
    OBVIOUS
  <1>3. q \in Seq(S)
    BY <1>2 DEF List
  <1>4. q = [i \in 1..Len(q) |-> q[i]]
    BY <1>3
  <1> QED BY <1>1, <1>4

\* r is q and then k.
Joined(q, k, r) ==
    /\ List(r) /\ Len(r) = Len(q) + Len(k)
    /\ \A i \in 1..Len(q) : r[i] = q[i]
    /\ \A i \in 1..Len(k) : r[Len(q) + i] = k[i]

LEMMA ListConcat ==
    ASSUME NEW q, List(q), NEW k, List(k), NEW r, r = q \o k
    PROVE  Joined(q, k, r) /\ Members(r) = Members(q) \cup Members(k)
  <1>1. PICK S : S = Members(q) \cup Members(k)
    OBVIOUS
  <1>2. q \in Seq(S) /\ k \in Seq(S)
    <2>1. q \in Seq(Members(q)) /\ k \in Seq(Members(k))
      BY DEF List
    <2> QED BY <1>1, <2>1
  <1>3. PICK m \in Nat, n \in Nat : m = Len(q) /\ n = Len(k) /\ DOMAIN q = 1..m /\ DOMAIN k = 1..n
    BY ListBasics
  <1>4. r \in Seq(S) /\ Len(r) = m + n
    BY <1>2, <1>3
  <1>5. \A i \in 1..(m + n) : r[i] = IF i <= m THEN q[i] ELSE k[i - m]
    BY <1>2, <1>3
  <1>10. List(r)
    BY <1>4, ListOf
  <1>6. DOMAIN r = 1..(m + n) /\ r = [i \in 1..(m + n) |-> r[i]]
    BY <1>4, <1>10, ListForm
  <1>7. Joined(q, k, r)
    <2>1. ASSUME NEW i \in 1..m PROVE r[i] = q[i]
      <3>1. i \in 1..(m + n) /\ i <= m
        OBVIOUS
      <3> QED BY <1>5, <3>1
    <2>2. ASSUME NEW i \in 1..n PROVE r[m + i] = k[i]
      <3>1. m + i \in 1..(m + n) /\ ~(m + i <= m) /\ (m + i) - m = i
        OBVIOUS
      <3> QED BY <1>5, <3>1
    <2> QED BY <1>3, <1>4, <1>10, <2>1, <2>2 DEF Joined
  <1>8. Members(r) \subseteq S
    BY <1>4, MembersBasics
  <1>9. ASSUME NEW x \in S PROVE x \in Members(r)
    <2>1. CASE x \in Members(q)
      <3>1. PICK i \in 1..m : q[i] = x
        BY <1>3, <2>1 DEF Members
      <3>2. i \in 1..(m + n) /\ i <= m
        BY <3>1
      <3>4. r[i] = x
        BY <1>5, <3>1, <3>2
      <3> QED BY <1>6, <3>2, <3>4 DEF Members
    <2>2. CASE x \in Members(k)
      <3>1. PICK i \in 1..n : k[i] = x
        BY <1>3, <2>2 DEF Members
      <3>2. m + i \in 1..(m + n) /\ ~(m + i <= m) /\ (m + i) - m = i
        BY <3>1
      <3>3. r[m + i] = x
        BY <1>5, <3>1, <3>2
      <3> QED BY <1>6, <3>2, <3>3 DEF Members
    <2> QED BY <1>1, <2>1, <2>2
  <1> QED BY <1>1, <1>3, <1>4, <1>7, <1>8, <1>9, <1>10

\* What was there has been reported or lies ahead.
Covered(kids, mark, got) ==
    \A x \in Members(mark) : x \in Members(got) \/ Ahead(kids, x, Len(got))

\* What a listing has reported after one more call.
LEMMA ListMore ==
    ASSUME NEW s, Shape(s), NEW d \in DOMAIN s.node, NEW got, List(got), NEW mark,
           Covered(s.node[d].kids, mark, got),
           NEW more, more = tmpfs_getdents(s, d, Len(got), Chunk), NEW all, all = got \o more
    PROVE  /\ List(all)
           /\ Covered(s.node[d].kids, mark, all)
           /\ more = <<>> => Members(mark) \subseteq Members(all)
  <1>1. PICK off, cap : off = Len(got) /\ cap = Chunk
    OBVIOUS
  <1>2. off \in Nat /\ cap \in Nat \ {0}
    BY <1>1, ListBasics, FsAssumption
  <1>3. PICK n \in Nat : /\ tmpfs_getdents(s, d, off, cap) = [i \in 1..n |-> Entry(s, d, off + i - 1)]
                         /\ n = 0 => Entry(s, d, off) = Null
    BY <1>2, DentsAre
  <1>4. more = [i \in 1..n |-> Entry(s, d, off + i - 1)]
    BY <1>1, <1>3
  <1>5. List(more) /\ Len(more) = n
    <2>1. more = [i \in 1..n |-> more[i]]
      BY <1>4
    <2> QED BY <2>1, ListIntro
  <1>6. List(all) /\ Len(all) = off + n /\ Members(all) = Members(got) \cup Members(more)
    <2>1. Joined(got, more, all) /\ Members(all) = Members(got) \cup Members(more)
      BY <1>5, ListConcat
    <2> QED BY <1>1, <1>5, <2>1 DEF Joined
  <1>7. PICK kids : kids = s.node[d].kids
    OBVIOUS
  <1>8. PICK k \in Nat : k = Len(kids) /\ DOMAIN kids = 1..k
    <2>1. kids \in Seq(DOMAIN s.node)
      BY <1>7 DEF Shape, Tree, KidsOk
    <2> QED BY <2>1
  <1>9. \A i \in 1..k : Entry(s, d, i + 1) = kids[i]
    <2>1. ASSUME NEW i \in 1..k PROVE Entry(s, d, i + 1) = kids[i]
      <3>1. i + 1 # 0 /\ i + 1 # 1 /\ (i + 1) - 2 < k /\ ((i + 1) - 2) + 1 = i
        OBVIOUS
      <3> QED BY <1>7, <1>8, <3>1 DEF Entry, tmpfs_child_at
    <2> QED BY <2>1
  <1>10. ASSUME NEW x \in Members(mark) PROVE x \in Members(all) \/ Ahead(kids, x, off + n)
    <2>1. CASE x \in Members(got)
      BY <1>6, <2>1
    <2>2. CASE Ahead(kids, x, off)
      <3>1. PICK i \in 1..k : kids[i] = x /\ i + 1 >= off
        BY <1>8, <2>2 DEF Ahead
      <3>2. CASE i + 1 >= off + n
        BY <1>8, <3>1, <3>2 DEF Ahead
      <3>3. CASE i + 1 < off + n
        <4>1. PICK j \in 1..n : j = i + 2 - off /\ off + j - 1 = i + 1
          BY <1>2, <3>1, <3>3
        <4>2. more[j] = x
          BY <1>4, <1>9, <3>1, <4>1
        <4>3. x \in Members(more)
          BY <1>4, <4>2 DEF Members
        <4> QED BY <1>6, <4>3
      <3> QED BY <1>2, <3>2, <3>3
    <2> QED BY <1>1, <1>7, <2>1, <2>2 DEF Covered
  <1>11. ASSUME more = <<>> PROVE Members(mark) \subseteq Members(all)
    <2>1. n = 0
      BY <1>5, <1>11
    <2>2. Entry(s, d, off) = Null /\ Null \notin DOMAIN s.node
      BY <1>3, <2>1, NodesPositive DEF Shape
    <2>3. off # 0 /\ off # 1
      <3>1. s.node[d].parent = Null \/ s.node[d].parent \in DOMAIN s.node
        BY DEF Shape, Tree, NodeOk
      <3> QED BY <2>2, <3>1 DEF Entry
    <2>4. \A i \in 1..k : ~(i + 1 >= off)
      <3>1. tmpfs_child_at(s, d, off - 2) = Null
        BY <2>2, <2>3 DEF Entry
      <3>2. ~(off - 2 < k)
        <4>1. ASSUME off - 2 < k PROVE FALSE
          <5>1. off - 1 \in 1..k /\ (off - 2) + 1 = off - 1
            BY <1>2, <2>3, <4>1
          <5>2. kids[off - 1] = Null
            BY <1>7, <1>8, <3>1, <4>1, <5>1 DEF tmpfs_child_at
          <5>3. kids \in Seq(DOMAIN s.node)
            BY <1>7 DEF Shape, Tree, KidsOk
          <5>4. kids[off - 1] \in DOMAIN s.node
            BY <1>8, <5>1, <5>3
          <5> QED BY <2>2, <5>2, <5>4
        <4> QED BY <4>1
      <3> QED BY <1>2, <3>2
    <2>5. \A x : ~Ahead(kids, x, off + n)
      BY <1>2, <1>8, <2>1, <2>4 DEF Ahead
    <2> QED BY <1>10, <2>5
  <1> QED BY <1>6, <1>7, <1>10, <1>11 DEF Covered

\* r is the part of q with n entries after the first a.
Part(q, a, n, r) == List(r) /\ Len(r) = n /\ \A i \in 1..n : r[i] = q[a + i]

LEMMA PartIs ==
    ASSUME NEW q, List(q), NEW a \in Nat, NEW n \in Nat, a + n <= Len(q)
    PROVE  Part(q, a, n, SubSeq(q, a + 1, a + n))
  <1>1. PICK r, S : r = SubSeq(q, a + 1, a + n) /\ S = Members(q)
    OBVIOUS
  <1>2. q \in Seq(S)
    BY <1>1 DEF List
  <1>3. r = [i \in 1..((a + n) - (a + 1) + 1) |-> q[i + (a + 1) - 1]]
    BY <1>1, <1>2
  <1>4. (a + n) - (a + 1) + 1 = n /\ \A i \in 1..n : i + (a + 1) - 1 = a + i
    OBVIOUS
  <1>5. r = [i \in 1..n |-> q[a + i]]
    BY <1>3, <1>4
  <1>6. r = [i \in 1..n |-> r[i]]
    BY <1>5
  <1>7. List(r) /\ Len(r) = n
    BY <1>6, ListIntro
  <1>8. Part(q, a, n, r)
    BY <1>5, <1>7 DEF Part
  <1> QED BY <1>1, <1>8

\* What has been read of a file after one more call.
LEMMA ReadMore ==
    ASSUME NEW n, FileOk(n), NEW got, Begins(got, n.data), Len(got) <= n.size, NEW more,
           more = SubSeq(n.data, Len(got) + 1, Len(got) + ReadCount(n, Len(got), Chunk)),
           NEW all, all = got \o more
    PROVE  Begins(all, n.data) /\ Len(all) <= n.size /\ (more = <<>> => Len(all) = n.size)
  <1>1. PICK q, off, cnt, z : /\ q = n.data /\ off = Len(got) /\ z = n.size
                              /\ cnt = ReadCount(n, Len(got), Chunk)
    OBVIOUS
  <1>2. List(q) /\ z \in Nat /\ z <= Len(q) /\ List(got)
    BY <1>1 DEF FileOk, Begins
  <1>3. off \in Nat /\ off <= z /\ Len(q) \in Nat
    BY <1>1, <1>2, ListBasics
  <1>4. Chunk \in Nat \ {0}
    BY FsAssumption
  <1>5. cnt \in Nat /\ off + cnt <= z /\ (cnt = 0 => off = z)
    <2>1. PICK h \in Nat \ {0} : h = Chunk
      BY <1>4
    <2>2. cnt = IF off >= z THEN 0 ELSE IF h < z - off THEN h ELSE z - off
      BY <1>1, <2>1 DEF ReadCount
    <2>3. CASE off >= z
      <3>1. cnt = 0
        BY <2>2, <2>3
      <3> QED BY <1>2, <1>3, <2>3, <3>1
    <2>4. CASE ~(off >= z)
      <3>1. cnt = h \/ cnt = z - off
        BY <2>2, <2>4
      <3>2. cnt = h => h < z - off \/ h = z - off
        BY <2>2, <2>4
      <3> QED BY <1>2, <1>3, <2>1, <2>4, <3>1, <3>2
    <2> QED BY <2>3, <2>4
  <1>6. Part(q, off, cnt, more)
    <2>1. Part(q, off, cnt, SubSeq(q, off + 1, off + cnt))
      BY <1>2, <1>3, <1>5, PartIs
    <2>2. more = SubSeq(q, off + 1, off + cnt)
      BY <1>1
    <2> QED BY <2>1, <2>2
  <1>7. Joined(got, more, all)
    <2>1. List(more)
      BY <1>6 DEF Part
    <2> QED BY <1>2, <2>1, ListConcat
  <1>8. List(all) /\ Len(all) = off + cnt
    BY <1>1, <1>6, <1>7 DEF Joined, Part
  <1>9. ASSUME NEW i \in 1..(off + cnt) PROVE all[i] = q[i]
    <2>1. CASE i <= off
      <3>1. i \in 1..off
        BY <1>3, <2>1
      <3>2. all[i] = got[i]
        BY <1>1, <1>7, <3>1 DEF Joined
      <3>3. got[i] = q[i]
        BY <1>1, <3>1 DEF Begins
      <3> QED BY <3>2, <3>3
    <2>2. CASE ~(i <= off)
      <3>1. PICK j \in 1..cnt : off + j = i
        <4>1. i - off \in 1..cnt /\ off + (i - off) = i
          BY <1>3, <1>5, <2>2
        <4> QED BY <4>1
      <3>2. all[off + j] = more[j]
        BY <1>1, <1>6, <1>7 DEF Joined, Part
      <3>3. more[j] = q[off + j]
        BY <1>6 DEF Part
      <3> QED BY <3>1, <3>2, <3>3
    <2> QED BY <2>1, <2>2
  <1>10. Begins(all, q)
    BY <1>8, <1>9 DEF Begins
  <1>11. more = <<>> => cnt = 0
    <2>1. more = <<>> => Len(more) = 0
      OBVIOUS
    <2> QED BY <1>6, <2>1 DEF Part
  <1>12. more = <<>> => Len(all) = z
    <2>1. cnt = 0 => off + cnt = z
      BY <1>3, <1>5
    <2> QED BY <1>8, <1>11, <2>1
  <1> QED BY <1>1, <1>5, <1>8, <1>10, <1>12

\* A file that has been read to its end.
LEMMA ReadAll ==
    ASSUME NEW n, FileOk(n), NEW got, Begins(got, n.data), Len(got) = n.size
    PROVE  got = Contents(n)
  <1>1. PICK z \in Nat : z = n.size
    BY DEF FileOk
  <1>2. List(got) /\ \A i \in 1..z : got[i] = n.data[i]
    BY <1>1 DEF Begins
  <1>3. got = [i \in 1..z |-> got[i]]
    BY <1>1, <1>2, ListForm
  <1>4. Contents(n) = [i \in 1..z |-> n.data[i]]
    BY <1>1, ContentsAre
  <1>5. [i \in 1..z |-> got[i]] = [i \in 1..z |-> n.data[i]]
    BY <1>2
  <1> QED BY <1>3, <1>4, <1>5

\* One turn of a loop that reads or lists v.
More(s, v, c) == IF IsDir(s, v) THEN vfs_getdents(s, v, Len(c.got), Chunk)
                 ELSE vfs_read(s, v, Len(c.got), Chunk)
Turn(s, v, c) ==
    [got |-> c.got \o More(s, v, c),
     mark |-> IF c = NoScan THEN (IF IsDir(s, v) THEN s.node[v].kids ELSE Contents(s.node[v]))
              ELSE c.mark,
     done |-> More(s, v, c) = <<>>, dirty |-> c.dirty]

LEMMA TurnOk ==
    ASSUME NEW s, Shape(s), Sized(s), NEW v \in DOMAIN s.node, NEW c, ScanOk(s, v, c)
    PROVE  ScanOk(s, v, Turn(s, v, c))
  <1>1. PICK e, more, m : /\ e = Turn(s, v, c) /\ more = More(s, v, c)
                          /\ m = IF c = NoScan THEN (IF IsDir(s, v) THEN s.node[v].kids ELSE Contents(s.node[v]))
                                 ELSE c.mark
    OBVIOUS
  <1>2. /\ DOMAIN e = ScanFields /\ e.got = c.got \o more /\ e.mark = m
        /\ e.done = (more = <<>>) /\ e.dirty = c.dirty
    BY <1>1 DEF Turn, ScanFields
  <1>3. CASE IsDir(s, v)
    <2>1. PICK got : got = c.got
      OBVIOUS
    <2>2. List(got) /\ Covered(s.node[v].kids, m, got)
      <3>1. CASE c = NoScan
        <4>1. got = <<>> /\ m = s.node[v].kids
          BY <1>1, <1>3, <2>1, <3>1 DEF NoScan
        <4>2. List(<<>>) /\ Len(<<>>) = 0
          BY DEF List
        <4>3. PICK kids : kids = s.node[v].kids
          OBVIOUS
        <4>4. kids \in Seq(DOMAIN s.node)
          BY <4>3 DEF Shape, Tree, KidsOk
        <4>5. \A i \in DOMAIN kids : i + 1 >= 0
          BY <4>4
        <4>6. \A x \in Members(kids) : Ahead(kids, x, 0)
          BY <4>5 DEF Members, Ahead
        <4> QED BY <4>1, <4>2, <4>3, <4>6 DEF Covered
      <3>2. CASE c # NoScan
        BY <1>1, <1>3, <2>1, <3>2 DEF ScanOk, ListScan, Covered
      <3> QED BY <3>1, <3>2
    <2>3. more = tmpfs_getdents(s, v, Len(got), Chunk)
      BY <1>1, <1>3, <2>1 DEF More, vfs_getdents
    <2>4. PICK all : all = got \o more
      OBVIOUS
    <2>5. List(all) /\ (more = <<>> => Members(m) \subseteq Members(all))
      BY <2>2, <2>3, <2>4, ListMore
    <2>6. Covered(s.node[v].kids, m, all)
      BY <2>2, <2>3, <2>4, ListMore
    <2>7. ListScan(s, v, e)
      BY <1>2, <2>1, <2>4, <2>5, <2>6 DEF ListScan, Covered
    <2> QED BY <1>1, <1>2, <1>3, <2>7 DEF ScanOk
  <1>4. CASE ~IsDir(s, v)
    <2>1. CASE c.dirty = TRUE
      BY <1>1, <1>2, <1>4, <2>1 DEF ScanOk
    <2>2. CASE c.dirty # TRUE
      <3>1. PICK n, got : n = s.node[v] /\ got = c.got
        OBVIOUS
      <3>2. FileOk(n)
        BY <3>1 DEF Sized
      <3>3. Begins(got, n.data) /\ Len(got) <= n.size /\ m = Contents(n)
        <4>1. CASE c = NoScan
          <5>1. got = <<>> /\ m = Contents(n)
            BY <1>1, <1>4, <3>1, <4>1 DEF NoScan
          <5>2. List(<<>>) /\ Len(<<>>) = 0
            BY DEF List
          <5> QED BY <3>2, <5>1, <5>2 DEF Begins, FileOk
        <4>2. CASE c # NoScan
          BY <1>1, <1>4, <2>2, <3>1, <4>2 DEF ScanOk, ReadScan
        <4> QED BY <4>1, <4>2
      <3>4. more = SubSeq(n.data, Len(got) + 1, Len(got) + ReadCount(n, Len(got), Chunk))
        BY <1>1, <1>4, <3>1 DEF More, vfs_read, tmpfs_read
      <3>5. PICK all : all = got \o more
        OBVIOUS
      <3>6. Begins(all, n.data) /\ Len(all) <= n.size /\ (more = <<>> => Len(all) = n.size)
        BY <3>2, <3>3, <3>4, <3>5, ReadMore
      <3>7. ReadScan(n, e)
        BY <1>2, <3>1, <3>3, <3>5, <3>6 DEF ReadScan
      <3> QED BY <1>1, <1>2, <1>4, <3>1, <3>7 DEF ScanOk
    <2> QED BY <2>1, <2>2
  <1> QED BY <1>3, <1>4

-----------------------------------------------------------------------------
(* What the calls leave of the files.                                      *)

\* A step that keeps every node in its place, and its bytes.
LEMMA KinGrown ==
    ASSUME NEW s, NEW t, Kin(s, t), SameBytes(s, t)
    PROVE  Grown(s, t)
  <1>1. DOMAIN t.node = DOMAIN s.node
    BY DEF Kin
  <1>2. Larger(s, t)
    BY <1>1, SameLarger
  <1>3. \A u \in DOMAIN s.node : t.node[u].type = s.node[u].type /\ t.node[u].kids = s.node[u].kids
    BY DEF Kin, SamePlace
  <1> QED BY <1>2, <1>3 DEF Grown, Shifted

LEMMA SelfGrown ==
    ASSUME NEW s
    PROVE  Grown(s, s)
  BY DEF Grown, Shifted, Larger, SameBytes

LEMMA HoldGrown ==
    ASSUME NEW s, Shape(s), NEW v \in DOMAIN s.node
    PROVE  Grown(s, vnode_hold(s, v)) /\ Grown(s, vnode_release(s, v))
  BY HoldMoves, KinGrown DEF Moved

LEMMA GotGrown ==
    ASSUME NEW s, Shape(s), NEW r, Got(s, r), NEW t, t = r.s
    PROVE  Grown(s, t)
  <1>1. CASE Still(s, t)
    BY <1>1, KinGrown DEF Still, Filed
  <1>2. CASE r.v \in DOMAIN s.node /\ t = vnode_hold(s, r.v)
    BY <1>2, HoldGrown
  <1> QED BY <1>1, <1>2 DEF Got

LEMMA BornGrown ==
    ASSUME NEW s, NEW t, NEW d, NEW m, NEW name, NEW type, Born(s, t, d, m, name, type)
    PROVE  Grown(s, t)
  <1>1. Larger(s, t)
    BY DEF Born, Larger
  <1>2. ASSUME NEW u \in DOMAIN s.node
        PROVE  t.node[u].type = s.node[u].type /\ Shifted(s.node[u].kids, t.node[u].kids)
    BY DEF Born, Shifted
  <1> QED BY <1>1, <1>2 DEF Grown

LEMMA MountGrown ==
    ASSUME NEW s, Shape(s), NEW v \in DOMAIN s.node, NEW t, t = vfs_mount(s, v)
    PROVE  Grown(s, t)
  <1>1. PICK f, m : f = Len(s.vfs) + 1 /\ m = Len(s.node) + 1
    OBVIOUS
  <1>2. Mounted(s, t, v, f, m)
    <2>1. v # Null
      BY NodesPositive DEF Shape
    <2> QED BY <1>1, <2>1, MountMounts DEF Shape
  <1>3. SameBytes(s, t) /\ \A u \in DOMAIN s.node : /\ t.node[u].type = s.node[u].type
                                                    /\ t.node[u].kids = s.node[u].kids
    BY <1>2, MountShape
  <1>4. Blank(t.node[m]) /\ DOMAIN t.node = DOMAIN s.node \cup {m}
    <2>1. PICK n : n = NewNode(f, Null, "", DIR, 1)
      OBVIOUS
    <2>2. n.size = 0 /\ n.data = <<>>
      BY <2>1 DEF NewNode
    <2>3. t.node[m] = n /\ DOMAIN t.node = DOMAIN s.node \cup {m}
      BY <1>2, <2>1 DEF Mounted
    <2> QED BY <2>2, <2>3 DEF Blank
  <1>5. Larger(s, t)
    BY <1>3, <1>4 DEF Larger
  <1> QED BY <1>3, <1>5 DEF Grown, Shifted

\* The calls that write no byte.
LEMMA OpenGrows ==
    ASSUME FsInv, NEW p \in Procs, Open(p) \/ OpenFails(p)
    PROVE  Grown(st, st')
  <1>1. PICK s, t : s = st /\ t = st'
    OBVIOUS
  <1>2. Shape(s) /\ \A q \in Procs : fd[q] \in Spot(s)
    BY <1>1 DEF FsInv, Sound
  <1>3. PICK path, flags, ref : /\ path \in Paths \cup {None} /\ ref \in {fd[q] : q \in Procs} \cup {Null}
                                /\ t = vfs_open(s, ref, path, flags).s
    <2>1. CASE Open(p)
      <3>1. PICK path, flags : path \in Paths \cup {None} /\
              \E ref \in IF path = None THEN {fd[q] : q \in Procs} \ {Null} ELSE {Null} :
              \E r \in {vfs_open(st, ref, path, flags)} : st' = r.s
        BY <2>1 DEF Open
      <3> QED BY <1>1, <3>1
    <2>2. CASE OpenFails(p)
      BY <1>1, <2>2 DEF OpenFails
    <2> QED BY <2>1, <2>2
  <1>4. path = None \/ path \in Seq(STRING)
    BY <1>3, FsAssumption
  <1>5. ref \in Spot(s)
    BY <1>2, <1>3 DEF Spot
  <1>6. Got(s, vfs_open(s, ref, path, flags))
    BY <1>2, <1>4, <1>5, OpenGot
  <1>7. Grown(s, t)
    BY <1>2, <1>3, <1>6, GotGrown
  <1> QED BY <1>1, <1>7

LEMMA CloseGrows ==
    ASSUME FsInv, NEW p \in Procs, Close(p)
    PROVE  Grown(st, st')
  <1>1. PICK s, v : s = st /\ v = fd[p]
    OBVIOUS
  <1>2. Shape(s) /\ v \in DOMAIN s.node /\ st' = vnode_release(s, v)
    BY <1>1 DEF FsInv, Sound, Spot, Close, vfs_close
  <1> QED BY <1>1, <1>2, HoldGrown

LEMMA CreateGrows ==
    ASSUME FsInv, NEW p \in Procs, CreateFails(p) \/ CreateDone(p)
    PROVE  Grown(st, st')
  <1>1. PICK s, t : s = st /\ t = st'
    OBVIOUS
  <1>2. Shape(s)
    BY <1>1 DEF FsInv, Sound
  <1>3. CASE CreateFails(p)
    <2>1. PICK v : v = op[p].v
      OBVIOUS
    <2>2. v \in DOMAIN s.node /\ t = vnode_release(s, v)
      BY <1>1, <1>3, <2>1 DEF FsInv, Sound, OpOk, CreateFails
    <2> QED BY <1>1, <1>2, <2>2, HoldGrown
  <1>4. CASE CreateDone(p)
    <2>1. PICK o, r : /\ o = op[p] /\ r = CreateEnd(s, o.v, o.name, o.type, o.inode, o.count) /\ t = r.s
      BY <1>1, <1>4 DEF CreateDone
    <2>2. PICK d, name, type, inode, count :
            /\ d = o.v /\ name = o.name /\ type = o.type /\ inode = o.inode /\ count = o.count
      OBVIOUS
    <2>3. d \in DOMAIN s.node /\ Free(s, d, name)
      BY <1>1, <1>4, <2>1, <2>2 DEF FsInv, Sound, OpOk, CreateDone
    <2>4. Born(s, r.s, d, r.v, name, type)
      BY <1>2, <2>1, <2>2, <2>3, EndBorn
    <2>5. PICK m : m = r.v
      OBVIOUS
    <2>6. Born(s, t, d, m, name, type)
      BY <2>1, <2>4, <2>5
    <2> QED BY <1>1, <2>6, BornGrown
  <1> QED BY <1>3, <1>4

LEMMA LookupGrows ==
    ASSUME FsInv, NEW p \in Procs, CreateLookup(p) \/ MountLookup(p)
    PROVE  Grown(st, st')
  <1>1. PICK s : s = st
    OBVIOUS
  <1>2. PICK path, parent, r :
          /\ path \in Paths /\ parent \in BOOLEAN
          /\ r = vfs_lookup(st, st.root, path, parent) /\ r.rc = 0 /\ st' = r.s
    <2>1. CASE CreateLookup(p)
      <3>1. PICK path, r :
              path \in Paths /\ r = vfs_lookup(st, st.root, path, TRUE) /\ r.rc = 0 /\ st' = r.s
        BY <2>1 DEF CreateLookup
      <3> QED BY <3>1
    <2>2. CASE MountLookup(p)
      <3>1. PICK path, r :
              path \in Paths /\ r = vfs_lookup(st, st.root, path, FALSE) /\ r.rc = 0 /\ st' = r.s
        BY <2>2 DEF MountLookup
      <3> QED BY <3>1
    <2> QED BY <2>1, <2>2
  <1>3. r.v \in DOMAIN st.node /\ r.s = vnode_hold(st, r.v)
    BY <1>2, LookupFinds
  <1>4. PICK v : v = r.v
    OBVIOUS
  <1>5. Shape(s) /\ v \in DOMAIN s.node /\ st' = vnode_hold(s, v)
    BY <1>1, <1>2, <1>3, <1>4 DEF FsInv, Sound
  <1> QED BY <1>1, <1>5, HoldGrown

LEMMA MountGrows ==
    ASSUME FsInv, NEW p \in Procs, MountDone(p)
    PROVE  Grown(st, st')
  <1>1. PICK s, t, v : s = st /\ t = st' /\ v = op[p].v
    OBVIOUS
  <1>2. Shape(s) /\ v \in DOMAIN s.node /\ t = vfs_mount(s, v)
    BY <1>1 DEF FsInv, Sound, OpOk, MountDone
  <1> QED BY <1>1, <1>2, MountGrown

\* Only O_TRUNC and a write change a byte.
LEMMA StepGrows ==
    ASSUME FsInv, NEW p \in Procs, Step(p), ~Truncate(p), ~WriteStore(p)
    PROVE  Grown(st, st')
  <1>1. CASE WriteAt(p) \/ WriteLock(p) \/ CreateLock(p) \/ MountFails(p) \/ Scan(p)
    <2>1. st' = st
      BY <1>1 DEF WriteAt, WriteLock, CreateLock, MountFails, Scan
    <2> QED BY <2>1, SelfGrown
  <1>2. CASE CreateLookup(p) \/ MountLookup(p) \/ MountDone(p)
    BY <1>2, LookupGrows, MountGrows
  <1>3. CASE CreateFails(p) \/ CreateDone(p)
    BY <1>3, CreateGrows
  <1>4. CASE Open(p) \/ OpenFails(p)
    BY <1>4, OpenGrows
  <1>5. CASE Close(p)
    BY <1>5, CloseGrows
  <1> QED BY <1>1, <1>2, <1>3, <1>4, <1>5 DEF Step

-----------------------------------------------------------------------------
(* The invariant of the files and of the loops that read them.             *)

\* A thread in a call is in no loop, and what it writes fits.
CallOk(c, o) ==
    /\ o.at # "idle" => c = NoScan
    /\ o.at \in {"write", "store"} => o.off \in 0..MaxSize /\ o.len \in 0..(MaxSize - o.off)

Filing(s, H, O, C) ==
    /\ Sized(s) /\ DOMAIN C = Procs
    /\ \A p \in Procs : ScanOk(s, H[p], C[p]) /\ CallOk(C[p], O[p])

FileInv ==
    /\ Filing(st, fd, op, scan)
    /\ phase = "boot" => scan = [p \in Procs |-> NoScan]

\* Only thread p does something.
Alone(p, H, O, C, G, Q, E) ==
    DOMAIN E = Procs /\ \A q \in Procs \ {p} : G[q] = H[q] /\ Q[q] = O[q] /\ E[q] = C[q]

LEMMA NoScanOk ==
    ASSUME NEW s, NEW v
    PROVE  ScanOk(s, v, NoScan)
  BY DEF ScanOk, NoScan, ScanFields

\* A thread in no loop makes a call that writes no byte.
LEMMA GrownFiling ==
    ASSUME NEW s, NEW H, NEW O, NEW C, Filing(s, H, O, C), Shape(s), NEW t, Grown(s, t),
           NEW p \in Procs, NEW G, NEW Q, NEW E, Alone(p, H, O, C, G, Q, E),
           E[p] = NoScan, CallOk(NoScan, Q[p])
    PROVE  Filing(t, G, Q, E)
  <1>1. Sized(t)
    BY LaidKept DEF Filing, Grown
  <1>2. ASSUME NEW q \in Procs PROVE ScanOk(t, G[q], E[q]) /\ CallOk(E[q], Q[q])
    <2>1. CASE q = p
      BY <2>1, NoScanOk
    <2>2. CASE q # p
      <3>1. G[q] = H[q] /\ Q[q] = O[q] /\ E[q] = C[q]
        BY <2>2 DEF Alone
      <3>2. PICK v, c : v = H[q] /\ c = C[q]
        OBVIOUS
      <3>3. ScanOk(s, v, c) /\ CallOk(c, O[q])
        BY <3>2 DEF Filing
      <3>4. ScanOk(t, v, c)
        BY <3>3, ScanKept
      <3> QED BY <3>1, <3>2, <3>3, <3>4
    <2> QED BY <2>1, <2>2
  <1> QED BY <1>1, <1>2 DEF Filing, Alone

\* A thread changes the file w, and the loops that read w are told.
Told(H, C, w) == [q \in Procs |-> IF H[q] = w /\ C[q] # NoScan
                                  THEN [C[q] EXCEPT !.dirty = TRUE] ELSE C[q]]

LEMMA EditedFiling ==
    ASSUME NEW s, NEW H, NEW O, NEW C, Filing(s, H, O, C), NEW t, Kin(s, t),
           NEW w \in DOMAIN s.node, NEW n, Edited(s, t, w, n), FileOk(n),
           NEW p \in Procs, O[p].at # "idle", NEW G, NEW Q,
           Only(p, H, O, G, Q), Q[p] = Idle
    PROVE  Filing(t, G, Q, Told(H, C, w))
  <1>1. Sized(t)
    BY DEF Filing, Sized, Kin, Edited
  <1>2. PICK E : E = Told(H, C, w)
    OBVIOUS
  <1>4. DOMAIN E = Procs
    BY <1>2, Zenon DEF Told
  <1>3. ASSUME NEW q \in Procs PROVE ScanOk(t, G[q], E[q]) /\ CallOk(E[q], Q[q])
    <2>1. PICK v, c, e : v = H[q] /\ c = C[q] /\ e = E[q]
      OBVIOUS
    <2>2. e = IF v = w /\ c # NoScan THEN [c EXCEPT !.dirty = TRUE] ELSE c
      BY <1>2, <2>1 DEF Told
    <2>3. ScanOk(s, v, c) /\ CallOk(c, O[q])
      BY <2>1 DEF Filing
    <2>4. CASE q = p
      <3>1. e = NoScan /\ Q[q].at = "idle"
        BY <2>2, <2>3, <2>4 DEF CallOk, Idle
      <3> QED BY <2>1, <3>1, NoScanOk DEF CallOk
    <2>5. CASE q # p
      <3>1. G[q] = v /\ Q[q] = O[q]
        BY <2>1, <2>5 DEF Only
      <3>2. ScanOk(t, v, e)
        BY <2>2, <2>3, ScanTold
      <3>3. CallOk(e, O[q])
        BY <2>2, <2>3 DEF CallOk
      <3> QED BY <2>1, <3>1, <3>2, <3>3
    <2> QED BY <2>4, <2>5
  <1> QED BY <1>1, <1>2, <1>3, <1>4 DEF Filing

-----------------------------------------------------------------------------
(* The steps keep it.                                                      *)

\* What a call that begins, goes on or ends without writing does to the threads.
LEMMA AloneStep ==
    ASSUME FsInv, FileInv, NEW p \in Procs, Step(p), ~Truncate(p), ~WriteStore(p), ~Scan(p)
    PROVE  /\ Alone(p, fd, op, scan, fd', op', scan')
           /\ scan'[p] = NoScan /\ CallOk(NoScan, op'[p])
  <1>1. /\ fd \in [Procs -> Spot(st)] /\ DOMAIN op = Procs /\ DOMAIN scan = Procs
        /\ CallOk(scan[p], op[p])
    BY DEF FsInv, FileInv, Sound, Filing
  <1>2. Idle.at = "idle"
    BY DEF Idle
  <1>3. CASE Open(p)
    <2>1. scan' = scan /\ scan[p] = NoScan /\ op[p] = Idle
      BY <1>3 DEF Open, Begin
    <2>2. \/ \E v : UNCHANGED fd /\ op' = [op EXCEPT ![p] = [at |-> "trunc", v |-> v, bytes |-> ByteCount(v)]]
          \/ \E v : UNCHANGED op /\ fd' = [fd EXCEPT ![p] = v]
      BY <1>3 DEF Open, Enter
    <2>3. CASE \E v : UNCHANGED op /\ fd' = [fd EXCEPT ![p] = v]
      BY <1>1, <1>2, <2>1, <2>3 DEF Alone, CallOk
    <2>4. ASSUME NEW v, UNCHANGED fd, op' = [op EXCEPT ![p] = [at |-> "trunc", v |-> v, bytes |-> ByteCount(v)]]
          PROVE  Alone(p, fd, op, scan, fd', op', scan') /\ CallOk(NoScan, op'[p])
      <3>1. PICK o : o = [at |-> "trunc", v |-> v, bytes |-> ByteCount(v)]
        OBVIOUS
      <3>2. o.at = "trunc" /\ op' = [op EXCEPT ![p] = o]
        BY <2>4, <3>1
      <3> QED BY <1>1, <2>1, <2>4, <3>2 DEF Alone, CallOk
    <2> QED BY <2>1, <2>2, <2>3, <2>4
  <1>4. CASE OpenFails(p)
    <2>1. UNCHANGED <<fd, op, scan>> /\ scan[p] = NoScan /\ op[p] = Idle
      BY <1>4 DEF OpenFails, Begin
    <2> QED BY <1>1, <1>2, <2>1 DEF Alone, CallOk
  <1>40. CASE CreateLookup(p) \/ MountLookup(p)
    <2>1. UNCHANGED <<fd, scan>> /\ scan[p] = NoScan
      BY <1>40 DEF CreateLookup, MountLookup, Begin
    <2>2. PICK o : (o.at = "parent" \/ o.at = "mount") /\ op' = [op EXCEPT ![p] = o]
      <3>1. CASE CreateLookup(p)
        <4>1. PICK v, name, type :
                op' = [op EXCEPT ![p] = [at |-> "parent", v |-> v, name |-> name, type |-> type]]
          BY <3>1 DEF CreateLookup
        <4>2. PICK o : o = [at |-> "parent", v |-> v, name |-> name, type |-> type]
          OBVIOUS
        <4>3. (o.at = "parent" \/ o.at = "mount") /\ op' = [op EXCEPT ![p] = o]
          BY <4>1, <4>2
        <4> QED BY <4>3, Zenon
      <3>2. CASE MountLookup(p)
        <4>1. PICK v : op' = [op EXCEPT ![p] = [at |-> "mount", v |-> v]]
          BY <3>2 DEF MountLookup
        <4>2. PICK o : o = [at |-> "mount", v |-> v]
          OBVIOUS
        <4>3. (o.at = "parent" \/ o.at = "mount") /\ op' = [op EXCEPT ![p] = o]
          BY <4>1, <4>2
        <4> QED BY <4>3, Zenon
      <3> QED BY <1>40, <3>1, <3>2
    <2> QED BY <1>1, <2>1, <2>2 DEF Alone, CallOk
  <1>41. CASE CreateFails(p) \/ MountDone(p) \/ MountFails(p)
    <2>1. UNCHANGED <<fd, scan>> /\ op[p].at # "idle" /\ op' = [op EXCEPT ![p] = Idle]
      BY <1>41 DEF CreateFails, MountDone, MountFails
    <2> QED BY <1>1, <1>2, <2>1 DEF Alone, CallOk
  <1>5. CASE Close(p)
    <2>1. /\ UNCHANGED op /\ op[p] = Idle /\ fd' = [fd EXCEPT ![p] = Null]
          /\ scan' = [scan EXCEPT ![p] = NoScan]
      BY <1>5 DEF Close
    <2> QED BY <1>1, <1>2, <2>1 DEF Alone, CallOk
  <1>6. CASE WriteAt(p)
    <2>1. UNCHANGED <<fd, scan>> /\ scan[p] = NoScan /\ fd[p] \in DOMAIN st.node
      BY <1>1, <1>6 DEF WriteAt, Begin, Spot
    <2>2. PICK i, n : /\ i \in (0..MaxSize) \cup {st.node[fd[p]].size} /\ n \in 0..(MaxSize - i)
                      /\ op' = [op EXCEPT ![p] = [at |-> "write", v |-> fd[p], off |-> i, len |-> n]]
      BY <1>6 DEF WriteAt
    <2>3. st.node[fd[p]].size \in Nat /\ MaxSize \in Nat
      BY <2>1, FsAssumption DEF FileInv, Filing, Sized, FileOk
    <2>4. i \in 0..MaxSize
      BY <2>2, <2>3
    <2>5. PICK o : o = [at |-> "write", v |-> fd[p], off |-> i, len |-> n]
      OBVIOUS
    <2>6. o.at = "write" /\ o.off = i /\ o.len = n /\ op' = [op EXCEPT ![p] = o]
      BY <2>2, <2>5
    <2>7. CallOk(NoScan, o)
      BY <2>2, <2>4, <2>6 DEF CallOk
    <2> QED BY <1>1, <2>1, <2>6, <2>7 DEF Alone
  <1>7. CASE WriteLock(p)
    <2>1. UNCHANGED <<fd, scan>> /\ op[p].at = "write"
      BY <1>7 DEF WriteLock
    <2>2. scan[p] = NoScan /\ op[p].off \in 0..MaxSize /\ op[p].len \in 0..(MaxSize - op[p].off)
      BY <1>1, <2>1 DEF CallOk
    <2>3. PICK c : c = [at |-> "store", v |-> op[p].v, off |-> op[p].off, len |-> op[p].len,
                        bytes |-> ByteCount(op[p].v)]
      OBVIOUS
    <2>4. op' = [op EXCEPT ![p] = Idle] \/ op' = [op EXCEPT ![p] = c]
      BY <1>7, <2>3 DEF WriteLock, Enter
    <2>5. c.at = "store" /\ c.off = op[p].off /\ c.len = op[p].len
      BY <2>3
    <2>6. CallOk(NoScan, c) /\ CallOk(NoScan, Idle)
      BY <1>2, <2>2, <2>5 DEF CallOk
    <2> QED BY <1>1, <2>1, <2>2, <2>4, <2>6 DEF Alone
  <1>8. CASE CreateLock(p)
    <2>1. UNCHANGED <<fd, scan>> /\ scan[p] = NoScan
      BY <1>1, <1>8 DEF CreateLock, CallOk
    <2>2. PICK o : o.at = "create" /\ op' = [op EXCEPT ![p] = o]
      <3>1. PICK v, f, name, type :
              Enter(p, [at |-> "create", v |-> v, name |-> name, type |-> type,
                        inode |-> f.next_inode, count |-> f.node_count])
        BY <1>8 DEF CreateLock
      <3>2. PICK o : o = [at |-> "create", v |-> v, name |-> name, type |-> type,
                          inode |-> f.next_inode, count |-> f.node_count]
        OBVIOUS
      <3>3. o.at = "create" /\ Enter(p, o)
        BY <3>1, <3>2
      <3> QED BY <3>3 DEF Enter
    <2> QED BY <1>1, <2>1, <2>2 DEF Alone, CallOk
  <1>9. CASE CreateDone(p)
    <2>1. /\ UNCHANGED scan /\ op[p].at = "create" /\ op' = [op EXCEPT ![p] = Idle]
          /\ \E v : fd' = [fd EXCEPT ![p] = v]
      BY <1>9 DEF CreateDone
    <2> QED BY <1>1, <1>2, <2>1 DEF Alone, CallOk
  <1> QED BY <1>3, <1>4, <1>40, <1>41, <1>5, <1>6, <1>7, <1>8, <1>9 DEF Step

\* The bytes of st' where a thread truncates a file or writes to it.
LEMMA TruncateEdits ==
    ASSUME FsInv, FileInv, NEW p \in Procs, Truncate(p)
    PROVE  \E w, n :
              /\ w \in DOMAIN st.node /\ Kin(st, st') /\ Edited(st, st', w, n) /\ w = op[p].v
              /\ FileOk(n) /\ Contents(n) = <<>>
  <1>1. PICK s, t, w, n : s = st /\ t = st' /\ w = op[p].v /\ n = [s.node[w] EXCEPT !.size = 0]
    OBVIOUS
  <1>2. Shape(s) /\ w \in DOMAIN s.node /\ op[p].at = "trunc"
    BY <1>1 DEF FsInv, Sound, OpOk, Truncate
  <1>3. PICK b : t = TruncNode(s, w, b)
    BY <1>1 DEF Truncate
  <1>4. Kin(s, t) /\ Edited(s, t, w, n)
    BY <1>1, <1>2, <1>3, TruncFiled DEF Filed
  <1>5. DOMAIN s.node[w] = NodeFields /\ FileOk(s.node[w])
    BY <1>1, <1>2 DEF Shape, Form, FileInv, Filing, Sized
  <1>6. n.size = 0 /\ n.data = s.node[w].data
    BY <1>1, <1>5 DEF NodeFields
  <1>7. FileOk(n)
    BY <1>5, <1>6, ListBasics DEF FileOk
  <1>8. Contents(n) = <<>>
    <2>1. List(Contents(n)) /\ Len(Contents(n)) = 0
      BY <1>6, <1>7, ContentsAre
    <2>2. PICK c : c = Contents(n)
      OBVIOUS
    <2>3. c \in Seq(Members(c)) /\ Len(c) = 0
      BY <2>1, <2>2 DEF List
    <2> QED BY <2>2, <2>3
  <1> QED BY <1>1, <1>2, <1>4, <1>7, <1>8

LEMMA WriteEdits ==
    ASSUME FsInv, FileInv, NEW p \in Procs, WriteStore(p)
    PROVE  \E w, n :
              /\ w \in DOMAIN st.node /\ Kin(st, st') /\ Edited(st, st', w, n) /\ w = op[p].v /\ FileOk(n)
              /\ op[p].off \in 0..MaxSize /\ op[p].len \in 0..(MaxSize - op[p].off)
              /\ Contents(n) = F!Written(Contents(st.node[w]), op[p].off, op[p].len, 1)
  <1>1. PICK s, t, w, off, len : s = st /\ t = st' /\ w = op[p].v /\ off = op[p].off /\ len = op[p].len
    OBVIOUS
  <1>2. Shape(s) /\ w \in DOMAIN s.node /\ op[p].at = "store"
    BY <1>1 DEF FsInv, Sound, OpOk, WriteStore
  <1>3. PICK b : t = WriteNode(s, w, off, len, 1, b)
    BY <1>1 DEF WriteStore
  <1>4. PICK k, n : k = s.node[w] /\ n = Wrote(k, off, len, 1)
    OBVIOUS
  <1>5. Kin(s, t) /\ Edited(s, t, w, n)
    BY <1>2, <1>3, <1>4, WriteFiled DEF Filed
  <1>6. DOMAIN k = NodeFields /\ FileOk(k)
    BY <1>1, <1>2, <1>4 DEF Shape, Form, FileInv, Filing, Sized
  <1>7. off \in 0..MaxSize /\ len \in 0..(MaxSize - off)
    BY <1>1, <1>2 DEF FileInv, Filing, CallOk
  <1>8. off \in Nat /\ len \in Nat
    BY <1>7, FsAssumption
  <1>9. PICK byte : byte = 1
    OBVIOUS
  <1>10. n = Wrote(k, off, len, byte)
    BY <1>4, <1>9
  <1>11. n.size = off + len /\ FileOk(n)
    BY <1>6, <1>8, <1>10, WroteFile
  <1>12. Filled(k, n.data, off, len, byte)
    BY <1>6, <1>8, <1>10, WroteFile
  <1>13. PICK z \in Nat : z = off + len
    BY <1>8
  <1>14. Contents(n) = [i \in 1..z |-> n.data[i]]
    BY <1>11, <1>13, ContentsAre
  <1>15. PICK c, m : /\ m \in Nat /\ c = Contents(k) /\ m = k.size /\ Len(c) = m
                             /\ c = [i \in 1..m |-> k.data[i]]
    BY <1>6, ContentsAre DEF FileOk
  <1>16. \A i \in 1..z : n.data[i] = IF i > off THEN byte ELSE IF i <= Len(c) THEN c[i] ELSE 0
    BY <1>12, <1>13, <1>15 DEF Filled
  <1>17. F!Written(c, off, len, 1) = [i \in 1..z |-> IF i > off THEN byte ELSE IF i <= Len(c) THEN c[i] ELSE 0]
    BY <1>9, <1>13 DEF F!Written
  <1>18. Contents(n) = F!Written(c, off, len, 1)
    BY <1>14, <1>16, <1>17
  <1> QED BY <1>1, <1>2, <1>4, <1>5, <1>7, <1>11, <1>15, <1>18

\* Every step keeps the files and the loops that read them in order.
LEMMA FileStep ==
    ASSUME FsInv, FileInv, [Next]_vars
    PROVE  FileInv'
  <1>1. PICK s, H, O, C, t, G, Q, E : /\ s = st /\ H = fd /\ O = op /\ C = scan
                                      /\ t = st' /\ G = fd' /\ Q = op' /\ E = scan'
    OBVIOUS
  <1>2. Filing(s, H, O, C) /\ Shape(s) /\ DOMAIN O = Procs /\ H \in [Procs -> Spot(s)] /\ DOMAIN C = Procs
    BY <1>1 DEF FileInv, FsInv, Sound, Filing
  <1>3. CASE Boot
    <2>1. H = G /\ O = Q /\ C = E /\ phase = "boot" /\ phase' # "boot"
      BY <1>1, <1>3 DEF Boot
    <2>2. E = [p \in Procs |-> NoScan]
      BY <1>1, <2>1 DEF FileInv
    <2>3. Sized(t)
      BY <1>1, <1>3, BootStep DEF Laid
    <2>4. ASSUME NEW p \in Procs PROVE ScanOk(t, G[p], E[p]) /\ CallOk(E[p], Q[p])
      <3>1. E[p] = NoScan /\ CallOk(C[p], O[p])
        BY <1>2, <2>2 DEF Filing
      <3> QED BY <2>1, <3>1, NoScanOk
    <2>5. Filing(t, G, Q, E)
      BY <1>2, <2>1, <2>3, <2>4 DEF Filing
    <2> QED BY <1>1, <2>1, <2>5 DEF FileInv
  <1>4. ASSUME NEW p \in Procs, Step(p) PROVE FileInv'
    <2>1. phase' # "boot"
      <3>1. CASE op[p].at # "idle"
        <4>1. phase # "boot"
          BY <3>1, NotBoot
        <4> QED BY <1>4, <4>1 DEF Step, Open, OpenFails, Truncate, Close, WriteAt, WriteLock, WriteStore,
                                  CreateLookup, CreateLock, CreateFails, CreateDone,
                                  MountLookup, MountDone, MountFails, Scan
      <3>2. CASE op[p].at = "idle"
        BY <1>4, <3>2 DEF Step, Begin, Open, OpenFails, Truncate, Close, WriteAt, WriteLock, WriteStore,
                          CreateLookup, CreateLock, CreateFails, CreateDone,
                          MountLookup, MountDone, MountFails, Scan
      <3> QED BY <3>1, <3>2
    <2>2. CASE Truncate(p)
      <3>1. PICK w, n : /\ w \in DOMAIN s.node /\ Kin(s, t) /\ Edited(s, t, w, n) /\ w = O[p].v
                        /\ FileOk(n)
        BY <1>1, <2>2, TruncateEdits
      <3>2. /\ O[p].at # "idle" /\ Q = [O EXCEPT ![p] = Idle] /\ G = [H EXCEPT ![p] = w]
            /\ E = Told(H, C, w)
        BY <1>1, <2>2, <3>1 DEF Truncate, Dirtied, Told
      <3>3. Only(p, H, O, G, Q) /\ Q[p] = Idle
        BY <1>2, <3>2 DEF Only
      <3>4. Filing(t, G, Q, Told(H, C, w))
        BY <1>2, <3>1, <3>2, <3>3, EditedFiling
      <3> QED BY <1>1, <2>1, <3>2, <3>4 DEF FileInv
    <2>3. CASE WriteStore(p)
      <3>1. PICK w, n : /\ w \in DOMAIN s.node /\ Kin(s, t) /\ Edited(s, t, w, n) /\ w = O[p].v
                        /\ FileOk(n)
        BY <1>1, <2>3, WriteEdits
      <3>2. /\ O[p].at # "idle" /\ Q = [O EXCEPT ![p] = Idle] /\ G = H
            /\ E = Told(H, C, w)
        BY <1>1, <2>3, <3>1 DEF WriteStore, Dirtied, Told
      <3>3. Only(p, H, O, G, Q) /\ Q[p] = Idle
        BY <1>2, <3>2 DEF Only
      <3>4. Filing(t, G, Q, Told(H, C, w))
        BY <1>2, <3>1, <3>2, <3>3, EditedFiling
      <3> QED BY <1>1, <2>1, <3>2, <3>4 DEF FileInv
    <2>4. CASE Scan(p)
      <3>1. /\ t = s /\ G = H /\ Q = O /\ O[p] = Idle /\ H[p] # Null
            /\ E = [C EXCEPT ![p] = Turn(s, H[p], C[p])]
        BY <1>1, <2>4 DEF Scan, Turn, More
      <3>2. PICK v, c, e : v = H[p] /\ c = C[p] /\ e = Turn(s, v, c)
        OBVIOUS
      <3>3. v \in DOMAIN s.node /\ ScanOk(s, v, c) /\ Sized(s)
        BY <1>2, <3>1, <3>2 DEF Spot, Filing
      <3>4. ScanOk(s, v, e)
        BY <1>2, <3>2, <3>3, TurnOk
      <3>5. DOMAIN E = Procs /\ E[p] = e /\ \A q \in Procs \ {p} : E[q] = C[q]
        BY <1>2, <3>1, <3>2
      <3>6. CallOk(e, Q[p])
        BY <3>1 DEF CallOk, Idle
      <3>7. Filing(t, G, Q, E)
        BY <1>2, <3>1, <3>2, <3>4, <3>5, <3>6 DEF Filing
      <3> QED BY <1>1, <2>1, <3>7 DEF FileInv
    <2>5. CASE ~Truncate(p) /\ ~WriteStore(p) /\ ~Scan(p)
      <3>1. Alone(p, H, O, C, G, Q, E) /\ E[p] = NoScan /\ CallOk(NoScan, Q[p])
        BY <1>1, <1>4, <2>5, AloneStep
      <3>2. Grown(s, t)
        BY <1>1, <1>4, <2>5, StepGrows
      <3>3. Filing(t, G, Q, E)
        BY <1>2, <3>1, <3>2, GrownFiling
      <3> QED BY <1>1, <2>1, <3>3 DEF FileInv
    <2> QED BY <2>2, <2>3, <2>4, <2>5
  <1>5. CASE UNCHANGED vars
    BY <1>5 DEF vars, FileInv
  <1> QED BY <1>3, <1>4, <1>5 DEF Next

\* So they are in order in every reachable state.
THEOREM FileInvariant == Spec => [](FsInv /\ FileInv)
  <1>1. Init => FileInv
    <2> SUFFICES ASSUME Init PROVE FileInv
      OBVIOUS
    <2>1. Sized(st)
      BY InitCalm DEF Init, Calm, Laid
    <2>2. \A p \in Procs : scan[p] = NoScan /\ op[p].at = "idle"
      BY DEF Init, Idle
    <2>3. \A p \in Procs : ScanOk(st, fd[p], scan[p]) /\ CallOk(scan[p], op[p])
      BY <2>2, NoScanOk DEF CallOk
    <2> QED BY <2>1, <2>3 DEF Init, FileInv, Filing
  <1>2. FsInv /\ FileInv /\ [Next]_vars => FileInv'
    BY FileStep
  <1> QED BY <1>1, <1>2, FsInvariant, PTL DEF Spec

\* A listing or a chunked read that has reached its end is complete, whatever
\* the other threads create, write and mount meanwhile.
THEOREM FsScanComplete == Spec => []ScanComplete
  <1>1. FsInv /\ FileInv => ScanComplete
    <2> SUFFICES ASSUME FsInv, FileInv, NEW p \in Procs, scan[p].done
                 PROVE  IF IsDir(st, fd[p]) THEN Members(scan[p].mark) \subseteq Members(scan[p].got)
                        ELSE ~scan[p].dirty => scan[p].got = scan[p].mark
      BY DEF ScanComplete
    <2>1. PICK c, v : c = scan[p] /\ v = fd[p]
      OBVIOUS
    <2>2. c # NoScan
      BY <2>1 DEF NoScan
    <2>3. /\ v \in DOMAIN st.node /\ (IsDir(st, v) => ListScan(st, v, c))
          /\ (~IsDir(st, v) => (c.dirty = TRUE \/ ReadScan(st.node[v], c)))
      BY <2>1, <2>2 DEF FileInv, Filing, ScanOk
    <2>4. CASE IsDir(st, v)
      BY <2>1, <2>3, <2>4 DEF ListScan
    <2>5. CASE ~IsDir(st, v) /\ ~c.dirty
      <3>1. PICK n, got : n = st.node[v] /\ got = c.got
        OBVIOUS
      <3>2. ReadScan(n, c) /\ FileOk(n)
        BY <2>3, <2>5, <3>1 DEF FileInv, Filing, Sized
      <3>3. Begins(got, n.data) /\ Len(got) = n.size /\ c.mark = Contents(n)
        BY <2>1, <3>1, <3>2 DEF ReadScan
      <3>4. got = Contents(n)
        BY <3>2, <3>3, ReadAll
      <3> QED BY <2>1, <2>5, <3>1, <3>3, <3>4
    <2> QED BY <2>1, <2>4, <2>5
  <1> QED BY <1>1, FileInvariant, PTL

-----------------------------------------------------------------------------
(* The buffers implement plain byte sequences.                             *)

Bytes(s) == [v \in DOMAIN s.node |-> Contents(s.node[v])]

\* The old files are as they were, and there may be new ones.
Prefixed(s, t) ==
    /\ DOMAIN s.node \subseteq DOMAIN t.node
    /\ \A u \in DOMAIN s.node : Contents(t.node[u]) = Contents(s.node[u])

LEMMA PrefixAppears ==
    ASSUME NEW s, List(s.node), NEW t, List(t.node), Prefixed(s, t),
           NEW a, a = Bytes(s), NEW b, b = Bytes(t)
    PROVE  b = a \/ (Len(b) > Len(a) /\ SubSeq(b, 1, Len(a)) = a)
  <1>1. PICK q, r : q = s.node /\ r = t.node
    OBVIOUS
  <1>2. PICK m, n : m \in Nat /\ n \in Nat /\ DOMAIN q = 1..m /\ DOMAIN r = 1..n
    BY <1>1, ListBasics
  <1>3. a = [v \in 1..m |-> a[v]] /\ b = [v \in 1..n |-> b[v]]
    BY <1>1, <1>2 DEF Bytes
  <1>4. List(a) /\ Len(a) = m /\ List(b) /\ Len(b) = n
    BY <1>2, <1>3, ListIntro
  <1>5. \A v \in 1..m : v \in 1..n /\ b[v] = a[v]
    BY <1>1, <1>2 DEF Prefixed, Bytes
  <1>6. m <= n
    <2>1. CASE m = 0
      BY <1>2, <2>1
    <2>2. CASE m # 0
      <3>1. m \in 1..m
        BY <1>2, <2>2
      <3> QED BY <1>2, <1>5, <3>1
    <2> QED BY <2>1, <2>2
  <1>7. CASE m = n
    <2>1. [v \in 1..m |-> a[v]] = [v \in 1..n |-> b[v]]
      BY <1>5, <1>7
    <2> QED BY <1>3, <2>1
  <1>8. CASE m # n
    <2>1. m < n
      BY <1>2, <1>6, <1>8
    <2>2. b \in Seq(Members(b))
      BY <1>4 DEF List
    <2>3. PICK S : S = Members(b)
      OBVIOUS
    <2>4. b \in Seq(S)
      BY <2>2, <2>3
    <2>5. SubSeq(b, 1, m) = [v \in 1..m |-> b[v]]
      BY <1>2, <1>4, <1>6, <2>4
    <2>6. [v \in 1..m |-> b[v]] = [v \in 1..m |-> a[v]]
      BY <1>5
    <2> QED BY <1>2, <1>3, <1>4, <2>1, <2>5, <2>6
  <1> QED BY <1>7, <1>8

LEMMA GrownPrefixed ==
    ASSUME NEW s, NEW t, Grown(s, t)
    PROVE  Prefixed(s, t)
  BY DEF Grown, Larger, SameBytes, Prefixed, Contents

\* One file changes.
LEMMA EditedBytes ==
    ASSUME NEW s, NEW t, Kin(s, t), NEW w \in DOMAIN s.node, NEW n, Edited(s, t, w, n)
    PROVE  Bytes(t) = [Bytes(s) EXCEPT ![w] = Contents(n)]
  <1>1. DOMAIN t.node = DOMAIN s.node
    BY DEF Kin
  <1>2. \A u \in DOMAIN s.node : Contents(t.node[u]) = IF u = w THEN Contents(n) ELSE Contents(s.node[u])
    BY DEF Edited
  <1> QED BY <1>1, <1>2 DEF Bytes

\* A file without bytes.
LEMMA EmptyContents ==
    ASSUME NEW n, FileOk(n), n.size = 0
    PROVE  Contents(n) = <<>>
  <1>1. PICK c : c = Contents(n)
    OBVIOUS
  <1>2. List(c) /\ Len(c) = 0
    BY <1>1, ContentsAre
  <1>3. PICK S : S = Members(c)
    OBVIOUS
  <1>4. c \in Seq(S) /\ Len(c) = 0
    BY <1>2, <1>3 DEF List
  <1> QED BY <1>1, <1>4

LEMMA RefineStep ==
    ASSUME FsInv, FsInv', FileInv, [Next]_vars
    PROVE  [F!FilesNext]_content
  <1>1. PICK s, t : s = st /\ t = st'
    OBVIOUS
  <1>2. PICK a, b : a = Bytes(s) /\ b = Bytes(t)
    OBVIOUS
  <1>3. content = a /\ content' = b
    BY <1>1, <1>2 DEF content, Bytes
  <1>4. List(s.node) /\ List(t.node)
    BY <1>1 DEF FsInv, Sound, Shape, Form
  <1>5. ASSUME Prefixed(s, t) PROVE [F!FilesNext]_content
    <2>1. b = a \/ (Len(b) > Len(a) /\ SubSeq(b, 1, Len(a)) = a)
      BY <1>2, <1>4, <1>5, PrefixAppears
    <2> QED BY <1>3, <2>1 DEF F!FilesNext, F!Appear
  <1>6. CASE Boot
    <2>1. DOMAIN s.node = {1} /\ Laid(s)
      BY <1>1, <1>6 DEF FsInv, Boot
    <2>2. Laid(t)
      BY <1>1, <1>6, BootStep
    <2>3. Contents(s.node[1]) = <<>> /\ Contents(t.node[1]) = <<>>
      BY <2>1, <2>2, EmptyContents DEF Laid, Sized
    <2>4. Prefixed(s, t)
      BY <2>1, <2>2, <2>3 DEF Prefixed, Laid
    <2> QED BY <1>5, <2>4
  <1>7. ASSUME NEW p \in Procs, Step(p) PROVE [F!FilesNext]_content
    <2>1. CASE Truncate(p)
      <3>1. PICK w, n : /\ w \in DOMAIN s.node /\ Kin(s, t) /\ Edited(s, t, w, n) /\ Contents(n) = <<>>
        BY <1>1, <2>1, TruncateEdits
      <3>2. b = [a EXCEPT ![w] = <<>>] /\ w \in DOMAIN a
        BY <1>2, <3>1, EditedBytes DEF Bytes
      <3> QED BY <1>3, <3>2 DEF F!FilesNext, F!Truncate
    <2>2. CASE WriteStore(p)
      <3>1. PICK w, n, o, l :
              /\ w \in DOMAIN s.node /\ Kin(s, t) /\ Edited(s, t, w, n)
              /\ o \in 0..MaxSize /\ l \in 0..(MaxSize - o)
              /\ Contents(n) = F!Written(Contents(s.node[w]), o, l, 1)
        BY <1>1, <2>2, WriteEdits
      <3>2. b = [a EXCEPT ![w] = Contents(n)]
        BY <1>2, <3>1, EditedBytes
      <3>3. w \in DOMAIN a /\ a[w] = Contents(s.node[w])
        BY <1>2, <3>1 DEF Bytes
      <3>4. b = [a EXCEPT ![w] = F!Written(@, o, l, 1)]
        BY <3>1, <3>2, <3>3
      <3>5. F!Write(w, o, l, 1)
        BY <1>3, <3>4 DEF F!Write
      <3> QED BY <1>3, <3>1, <3>3, <3>5 DEF F!FilesNext
    <2>3. CASE ~Truncate(p) /\ ~WriteStore(p)
      <3>1. Prefixed(s, t)
        BY <1>1, <1>7, <2>3, StepGrows, GrownPrefixed
      <3> QED BY <1>5, <3>1
    <2> QED BY <2>1, <2>2, <2>3
  <1>8. CASE UNCHANGED vars
    BY <1>8 DEF vars, content
  <1> QED BY <1>6, <1>7, <1>8 DEF Next

\* Every behaviour of the file system, seen through the bytes its files hold,
\* is one of plain byte sequences: nothing that a file once held comes back.
THEOREM FsImplementsFiles == Spec => ImplementsFiles
  <1>1. Init => F!FilesInit
    <2> SUFFICES ASSUME Init PROVE F!FilesInit
      OBVIOUS
    <2>1. DOMAIN st.node = {1} /\ Laid(st)
      BY InitCalm DEF Init, Calm
    <2>2. Contents(st.node[1]) = <<>>
      BY <2>1, EmptyContents DEF Laid, Sized
    <2>3. content = [v \in {1} |-> <<>>]
      BY <2>1, <2>2 DEF content
    <2> QED BY <2>3 DEF F!FilesInit
  <1>2. FsInv /\ FsInv' /\ FileInv /\ [Next]_vars => [F!FilesNext]_content
    BY RefineStep
  <1> QED BY <1>1, <1>2, FileInvariant, PTL DEF Spec, ImplementsFiles, F!FilesSpec

-----------------------------------------------------------------------------
(* The invariant of the counters.                                          *)

\* A call between reading and writing a counter: what it has read is still
\* right, and it is alone in its file system.
Busy == {"store", "trunc", "create"}

Fresh(s, o) == LET a == s.vfs[s.node[o.v].vfs] IN
    /\ o.at \in {"store", "trunc"} => o.bytes = a.byte_count
    /\ o.at = "create" => o.inode = a.next_inode /\ o.count = a.node_count

Apart(s, O) ==
    \A p, q \in Procs :
        O[p].at \in Busy /\ O[q].at \in Busy /\ s.node[O[p].v].vfs = s.node[O[q].v].vfs => p = q

Tally(s, O) == Counted(s) /\ (\A p \in Procs : Fresh(s, O[p])) /\ Apart(s, O)

\* As long as no two threads were inside the counters of a file system.
CountInv == ~raced => Tally(st, op)

\* A step of thread p leaves the counters that the others have read alone, and
\* the call that p goes on with is in no file system of theirs.
Aside(s, t, O, p) ==
    \A q \in Procs \ {p} : O[q].at \in Busy =>
        /\ t.node[O[q].v].vfs = s.node[O[q].v].vfs
        /\ t.vfs[s.node[O[q].v].vfs] = s.vfs[s.node[O[q].v].vfs]

Clear(s, O, p, o) ==
    o.at \in Busy => \A q \in Procs \ {p} : O[q].at \in Busy => s.node[O[q].v].vfs # s.node[o.v].vfs

Switched(O, Q, p, o) == Q[p] = o /\ \A q \in Procs \ {p} : Q[q] = O[q]

LEMMA SwitchedOps ==
    ASSUME NEW O, DOMAIN O = Procs, NEW p \in Procs
    PROVE  Switched(O, O, p, O[p]) /\ \A o : Switched(O, [O EXCEPT ![p] = o], p, o)
  BY DEF Switched

LEMMA TallyStep ==
    ASSUME NEW s, NEW t, NEW O, NEW Q, NEW p \in Procs, NEW o, Tally(s, O), Counted(t), Aside(s, t, O, p),
           Switched(O, Q, p, o),
           Fresh(t, o), Clear(s, O, p, o), o.at \in Busy => t.node[o.v].vfs = s.node[o.v].vfs
    PROVE  Tally(t, Q)
  <1>0. Q[p] = o /\ \A q \in Procs \ {p} : Q[q] = O[q]
    BY DEF Switched
  <1>1. ASSUME NEW q \in Procs PROVE Fresh(t, Q[q])
    <2>1. CASE q = p
      BY <1>0, <2>1
    <2>2. CASE q # p /\ O[q].at \notin Busy
      BY <1>0, <2>2 DEF Fresh, Busy
    <2>3. CASE q # p /\ O[q].at \in Busy
      <3>1. PICK c, f : c = O[q] /\ f = s.node[c.v].vfs
        OBVIOUS
      <3>2. Q[q] = c /\ t.node[c.v].vfs = f /\ t.vfs[f] = s.vfs[f]
        BY <1>0, <2>3, <3>1 DEF Aside
      <3>3. Fresh(s, c)
        BY <3>1 DEF Tally
      <3>4. Fresh(t, c)
        BY <3>1, <3>2, <3>3 DEF Fresh
      <3> QED BY <3>2, <3>4
    <2> QED BY <2>1, <2>2, <2>3
  <1>2. ASSUME NEW q \in Procs, NEW r \in Procs, Q[q].at \in Busy, Q[r].at \in Busy,
               t.node[Q[q].v].vfs = t.node[Q[r].v].vfs
        PROVE  q = r
    <2>1. CASE q = p /\ r # p
      BY <1>0, <1>2, <2>1 DEF Clear, Aside
    <2>2. CASE q # p /\ r = p
      BY <1>0, <1>2, <2>2 DEF Clear, Aside
    <2>3. CASE q # p /\ r # p
      BY <1>0, <1>2, <2>3 DEF Aside, Tally, Apart
    <2> QED BY <2>1, <2>2, <2>3
  <1>3. Apart(t, Q)
    BY <1>2 DEF Apart
  <1> QED BY <1>1, <1>3 DEF Tally

\* Nothing is created or written, and p goes on with call o.
Quietly(s, t) == Kin(s, t) /\ SameBytes(s, t) /\ t.vfs = s.vfs

LEMMA QuietTally ==
    ASSUME NEW s, NEW t, NEW H, NEW O, NEW P, Sound(s, H, O, P), NEW Q, NEW p \in Procs, NEW o,
           Quietly(s, t), Switched(O, Q, p, o), Tally(s, O),
           o.at \in Busy => o.v \in DOMAIN s.node, Fresh(s, o), Clear(s, O, p, o)
    PROVE  Tally(t, Q)
  <1>1. Counted(t)
    BY CountedStill DEF Quietly, Tally
  <1>2. \A u \in DOMAIN s.node : t.node[u].vfs = s.node[u].vfs
    BY DEF Quietly, Kin, SamePlace
  <1>3. t.vfs = s.vfs
    BY DEF Quietly
  <1>4. Aside(s, t, O, p)
    <2>1. \A q \in Procs : O[q].at \in Busy => O[q].v \in DOMAIN s.node
      BY DEF Sound, OpOk, Busy
    <2> QED BY <1>2, <1>3, <2>1 DEF Aside
  <1>5. o.at \in Busy => t.node[o.v].vfs = s.node[o.v].vfs
    BY <1>2
  <1>6. Fresh(t, o)
    BY <1>3, <1>5 DEF Fresh, Busy
  <1> QED BY <1>1, <1>4, <1>5, <1>6, TallyStep

\* p leaves the counters of file system f, the only ones that it changes.
LEMMA LeaveTally ==
    ASSUME NEW s, NEW t, NEW H, NEW O, NEW P, Sound(s, H, O, P), NEW Q, NEW p \in Procs, NEW f,
           Tally(s, O), Counted(t), O[p].at \in Busy, f = s.node[O[p].v].vfs,
           SameFs(s, t), \A g \in DOMAIN s.vfs \ {f} : t.vfs[g] = s.vfs[g],
           Switched(O, Q, p, Idle)
    PROVE  Tally(t, Q)
  <1>1. Idle.at = "idle"
    BY DEF Idle
  <1>2. ASSUME NEW q \in Procs \ {p}, O[q].at \in Busy
        PROVE  /\ t.node[O[q].v].vfs = s.node[O[q].v].vfs
               /\ t.vfs[s.node[O[q].v].vfs] = s.vfs[s.node[O[q].v].vfs]
    <2>1. PICK v : v = O[q].v
      OBVIOUS
    <2>2. v \in DOMAIN s.node
      BY <1>2, <2>1 DEF Sound, OpOk, Busy
    <2>3. s.node[v].vfs \in DOMAIN s.vfs /\ t.node[v].vfs = s.node[v].vfs
      BY <2>2 DEF Sound, Shape, Tree, NodeOk, SameFs
    <2>4. s.node[v].vfs # f
      BY <1>2, <2>1 DEF Tally, Apart
    <2> QED BY <2>1, <2>3, <2>4
  <1>3. Aside(s, t, O, p)
    BY <1>2 DEF Aside
  <1>4. PICK o : o = Idle
    OBVIOUS
  <1>5. Switched(O, Q, p, o) /\ Fresh(t, o) /\ Clear(s, O, p, o) /\ o.at \notin Busy
    BY <1>1, <1>4 DEF Fresh, Clear, Busy
  <1> QED BY <1>3, <1>5, TallyStep

\* Another thread is in a counter where p wants to be: raced' says so.
LEMMA EnterClear ==
    ASSUME NEW p \in Procs, NEW o, Enter(p, o), ~raced'
    PROVE  ~raced /\ op' = [op EXCEPT ![p] = o] /\ Clear(st, op, p, o)
  <1>1. ~raced /\ ~InCounter(st.node[o.v].vfs) /\ op' = [op EXCEPT ![p] = o]
    BY DEF Enter
  <1>2. \A q \in Procs : op[q].at \in Busy => st.node[op[q].v].vfs # st.node[o.v].vfs
    BY <1>1 DEF InCounter, Busy
  <1> QED BY <1>1, <1>2 DEF Clear

\* Calls that change no counter.
LEMMA IdleOk ==
    ASSUME NEW s, NEW O, NEW p, NEW o, o.at \notin Busy
    PROVE  Fresh(s, o) /\ Clear(s, O, p, o)
  BY DEF Fresh, Clear, Busy

LEMMA StillQuietly ==
    ASSUME NEW s, Shape(s)
    PROVE  /\ Quietly(s, s)
           /\ \A t : Still(s, t) => Quietly(s, t)
           /\ \A v \in DOMAIN s.node : Quietly(s, vnode_hold(s, v)) /\ Quietly(s, vnode_release(s, v))
  <1>1. Quietly(s, s)
    BY StillSelf DEF Still, Filed, Quietly, Shape
  <1>2. \A t : Still(s, t) => Quietly(s, t)
    BY DEF Still, Filed, Quietly
  <1>3. ASSUME NEW v \in DOMAIN s.node
        PROVE  Quietly(s, vnode_hold(s, v)) /\ Quietly(s, vnode_release(s, v))
    BY HoldMoves DEF Moved, Quietly
  <1> QED BY <1>1, <1>2, <1>3

\* The call of p ends or goes on outside the counters.
LEMMA PlainTally ==
    ASSUME NEW s, NEW t, NEW H, NEW O, NEW P, Sound(s, H, O, P), NEW p \in Procs, NEW Q, NEW o,
           Quietly(s, t), Switched(O, Q, p, o), o.at \notin Busy, Tally(s, O)
    PROVE  Tally(t, Q)
  <1>1. Fresh(s, o) /\ Clear(s, O, p, o)
    BY IdleOk
  <1> QED BY <1>1, QuietTally

-----------------------------------------------------------------------------
(* The steps keep it.                                                      *)

LEMMA OpenCounts ==
    ASSUME FsInv, CountInv, NEW p \in Procs, Open(p), ~raced'
    PROVE  Tally(st', op')
  <1>1. PICK s, H, O, P, t, Q : s = st /\ H = fd /\ O = op /\ P = leaked /\ t = st' /\ Q = op'
    OBVIOUS
  <1>2. Sound(s, H, O, P) /\ O[p] = Idle
    BY <1>1 DEF FsInv, Open, Begin
  <1>3. PICK path, flags : path \in Paths \cup {None} /\
          \E ref \in IF path = None THEN {fd[q] : q \in Procs} \ {Null} ELSE {Null} :
          \E r \in {vfs_open(st, ref, path, flags)} :
             /\ r.rc = 0 /\ st' = r.s
             /\ \/ /\ Enter(p, [at |-> "trunc", v |-> r.v, bytes |-> ByteCount(r.v)])
                   /\ UNCHANGED fd
                \/ fd' = [fd EXCEPT ![p] = r.v] /\ UNCHANGED <<op, raced>>
    BY DEF Open
  <1>4. PICK ref, r :
          /\ ref \in (IF path = None THEN {fd[q] : q \in Procs} \ {Null} ELSE {Null})
          /\ r = vfs_open(s, ref, path, flags) /\ r.rc = 0 /\ t = r.s
          /\ \/ Enter(p, [at |-> "trunc", v |-> r.v, bytes |-> ByteCount(r.v)])
             \/ UNCHANGED <<op, raced>>
    BY <1>1, <1>3
  <1>5. path = None \/ path \in Seq(STRING)
    BY <1>3, FsAssumption
  <1>6. ref \in Spot(s) /\ Shape(s) /\ DOMAIN O = Procs
    BY <1>1, <1>2, <1>4 DEF Sound, Spot
  <1>7. Got(s, r)
    BY <1>2, <1>4, <1>5, <1>6, OpenGot DEF Sound
  <1>8. PICK v : v = r.v
    OBVIOUS
  <1>9. v \in DOMAIN s.node /\ t = vnode_hold(s, v)
    BY <1>4, <1>7, <1>8 DEF Got
  <1>10. Quietly(s, t)
    BY <1>6, <1>9, StillQuietly
  <1>11. CASE Enter(p, [at |-> "trunc", v |-> r.v, bytes |-> ByteCount(r.v)])
    <2>1. PICK o : o = [at |-> "trunc", v |-> v, bytes |-> ByteCount(v)]
      OBVIOUS
    <2>2. Enter(p, o)
      BY <1>8, <1>11, <2>1
    <2>3. ~raced /\ Q = [O EXCEPT ![p] = o] /\ Clear(s, O, p, o)
      BY <1>1, <2>2, EnterClear
    <2>4. o.at = "trunc" /\ o.v = v /\ o.bytes = s.vfs[s.node[v].vfs].byte_count
      BY <1>1, <2>1 DEF ByteCount
    <2>5. Fresh(s, o)
      BY <2>4 DEF Fresh
    <2>6. Switched(O, Q, p, o) /\ Tally(s, O)
      BY <1>1, <1>6, <2>3, SwitchedOps DEF CountInv
    <2>7. Tally(t, Q)
      BY <1>2, <1>9, <1>10, <2>3, <2>4, <2>5, <2>6, QuietTally
    <2> QED BY <1>1, <2>7
  <1>12. CASE UNCHANGED <<op, raced>>
    <2>1. PICK o : o = Idle
      OBVIOUS
    <2>2. Switched(O, Q, p, o) /\ Tally(s, O)
      BY <1>1, <1>2, <1>6, <1>12, <2>1, SwitchedOps DEF CountInv
    <2>3. o.at \notin Busy
      BY <2>1 DEF Idle, Busy
    <2>4. Tally(t, Q)
      BY <1>2, <1>10, <2>2, <2>3, PlainTally
    <2> QED BY <1>1, <2>4
  <1> QED BY <1>4, <1>11, <1>12

LEMMA OpenFailsCounts ==
    ASSUME FsInv, CountInv, NEW p \in Procs, OpenFails(p), ~raced'
    PROVE  Tally(st', op')
  <1>1. PICK s, H, O, P, t : s = st /\ H = fd /\ O = op /\ P = leaked /\ t = st'
    OBVIOUS
  <1>2. Sound(s, H, O, P) /\ Shape(s) /\ DOMAIN O = Procs /\ O[p] = Idle /\ op' = O /\ ~raced
    BY <1>1 DEF FsInv, Sound, OpenFails, Begin
  <1>3. PICK path, flags : /\ path \in Paths
                           /\ \E r \in {vfs_open(st, Null, path, flags)} : r.rc # 0 /\ st' = r.s
    BY DEF OpenFails
  <1>4. PICK r : r = vfs_open(s, Null, path, flags) /\ r.rc # 0 /\ t = r.s
    BY <1>1, <1>3
  <1>5. path \in Seq(STRING) /\ Null \in Spot(s)
    BY <1>3, FsAssumption DEF Spot
  <1>6. Got(s, r)
    BY <1>2, <1>4, <1>5, OpenGot
  <1>7. Still(s, t)
    BY <1>4, <1>6 DEF Got
  <1>8. Quietly(s, t)
    BY <1>2, <1>7, StillQuietly
  <1>9. PICK o : o = Idle
    OBVIOUS
  <1>10. Switched(O, O, p, o) /\ Tally(s, O) /\ o.at \notin Busy
    BY <1>1, <1>2, <1>9, SwitchedOps DEF CountInv, Idle, Busy
  <1>11. Tally(t, O)
    BY <1>2, <1>8, <1>10, PlainTally
  <1> QED BY <1>1, <1>2, <1>11

LEMMA CloseCounts ==
    ASSUME FsInv, CountInv, NEW p \in Procs, Close(p) \/ Scan(p), ~raced'
    PROVE  Tally(st', op')
  <1>1. PICK s, H, O, P, t, v : s = st /\ H = fd /\ O = op /\ P = leaked /\ t = st' /\ v = fd[p]
    OBVIOUS
  <1>2. /\ Sound(s, H, O, P) /\ Shape(s) /\ DOMAIN O = Procs /\ O[p] = Idle /\ op' = O /\ ~raced
        /\ v \in DOMAIN s.node /\ (t = vnode_release(s, v) \/ t = s)
    <2>1. Sound(s, H, O, P) /\ Shape(s) /\ DOMAIN O = Procs /\ H[p] \in Spot(s)
      BY <1>1 DEF FsInv, Sound
    <2>2. CASE Close(p)
      <3>1. O[p] = Idle /\ op' = O /\ ~raced /\ v # Null
        BY <1>1, <2>2 DEF Close
      <3>2. t = vnode_release(s, v)
        BY <1>1, <2>2 DEF Close, vfs_close
      <3> QED BY <1>1, <2>1, <3>1, <3>2 DEF Spot
    <2>3. CASE Scan(p)
      <3>1. O[p] = Idle /\ op' = O /\ ~raced /\ v # Null /\ t = s
        BY <1>1, <2>3 DEF Scan
      <3> QED BY <1>1, <2>1, <3>1 DEF Spot
    <2> QED BY <2>2, <2>3
  <1>3. Quietly(s, t)
    BY <1>2, StillQuietly
  <1>4. PICK o : o = Idle
    OBVIOUS
  <1>5. Switched(O, O, p, o) /\ Tally(s, O) /\ o.at \notin Busy
    BY <1>1, <1>2, <1>4, SwitchedOps DEF CountInv, Idle, Busy
  <1>6. Tally(t, O)
    BY <1>2, <1>3, <1>5, PlainTally
  <1> QED BY <1>1, <1>2, <1>6

LEMMA WriteCounts ==
    ASSUME FsInv, CountInv, NEW p \in Procs, WriteAt(p) \/ WriteLock(p), ~raced'
    PROVE  Tally(st', op')
  <1>1. PICK s, H, O, P, Q : s = st /\ H = fd /\ O = op /\ P = leaked /\ Q = op'
    OBVIOUS
  <1>2. Sound(s, H, O, P) /\ Shape(s) /\ DOMAIN O = Procs /\ st' = s
    BY <1>1 DEF FsInv, Sound, WriteAt, WriteLock
  <1>3. Quietly(s, s)
    BY <1>2, StillQuietly
  <1>4. ASSUME NEW o, Q = [O EXCEPT ![p] = o], o.at \notin Busy, ~raced PROVE Tally(st', op')
    <2>1. Switched(O, Q, p, o) /\ Tally(s, O)
      BY <1>1, <1>2, <1>4, SwitchedOps DEF CountInv
    <2>2. Tally(s, Q)
      BY <1>2, <1>3, <1>4, <2>1, PlainTally
    <2> QED BY <1>1, <1>2, <2>2
  <1>5. CASE WriteAt(p)
    <2>1. PICK i, n : op' = [op EXCEPT ![p] = [at |-> "write", v |-> fd[p], off |-> i, len |-> n]]
      BY <1>5 DEF WriteAt
    <2>2. PICK o : o = [at |-> "write", v |-> fd[p], off |-> i, len |-> n]
      OBVIOUS
    <2>3. o.at = "write" /\ Q = [O EXCEPT ![p] = o]
      BY <1>1, <2>1, <2>2
    <2>4. o.at \notin Busy /\ ~raced
      BY <1>5, <2>3 DEF Busy, WriteAt
    <2> QED BY <1>4, <2>3, <2>4
  <1>6. CASE WriteLock(p)
    <2>1. PICK v : v = O[p].v
      OBVIOUS
    <2>2. v \in DOMAIN s.node
      BY <1>1, <1>2, <1>6, <2>1 DEF Sound, OpOk, WriteLock
    <2>3. PICK c : c = [at |-> "store", v |-> v, off |-> op[p].off, len |-> op[p].len, bytes |-> ByteCount(v)]
      OBVIOUS
    <2>4. Enter(p, c) \/ (op' = [op EXCEPT ![p] = Idle] /\ UNCHANGED raced)
      BY <1>1, <1>6, <2>1, <2>3 DEF WriteLock
    <2>5. CASE Enter(p, c)
      <3>1. ~raced /\ Q = [O EXCEPT ![p] = c] /\ Clear(s, O, p, c)
        BY <1>1, <2>5, EnterClear
      <3>2. c.at = "store" /\ c.v = v /\ c.bytes = s.vfs[s.node[v].vfs].byte_count
        BY <1>1, <2>3 DEF ByteCount
      <3>3. Fresh(s, c)
        BY <3>2 DEF Fresh
      <3>4. Switched(O, Q, p, c) /\ Tally(s, O)
        BY <1>1, <1>2, <3>1, SwitchedOps DEF CountInv
      <3>5. Tally(s, Q)
        BY <1>2, <1>3, <2>2, <3>1, <3>2, <3>3, <3>4, QuietTally
      <3> QED BY <1>1, <1>2, <3>5
    <2>6. CASE op' = [op EXCEPT ![p] = Idle] /\ UNCHANGED raced
      <3>1. PICK o : o = Idle
        OBVIOUS
      <3>2. Q = [O EXCEPT ![p] = o] /\ o.at \notin Busy /\ ~raced
        BY <1>1, <2>6, <3>1 DEF Idle, Busy
      <3> QED BY <1>4, <3>2
    <2> QED BY <2>4, <2>5, <2>6
  <1> QED BY <1>5, <1>6

LEMMA LookupCounts ==
    ASSUME FsInv, CountInv, NEW p \in Procs, CreateLookup(p) \/ MountLookup(p), ~raced'
    PROVE  Tally(st', op')
  <1>1. PICK s, H, O, P, t, Q : s = st /\ H = fd /\ O = op /\ P = leaked /\ t = st' /\ Q = op'
    OBVIOUS
  <1>2. Sound(s, H, O, P) /\ Shape(s) /\ DOMAIN O = Procs /\ Tally(s, O)
    BY <1>1 DEF FsInv, Sound, CreateLookup, MountLookup, CountInv
  <1>3. PICK path, parent, r, o :
          /\ path \in Paths /\ parent \in BOOLEAN
          /\ r = vfs_lookup(st, st.root, path, parent) /\ r.rc = 0 /\ t = r.s
          /\ Q = [O EXCEPT ![p] = o] /\ o.at \in {"parent", "mount"}
    <2>1. CASE CreateLookup(p)
      <3>1. PICK path, type, r :
              /\ path \in Paths /\ r = vfs_lookup(st, st.root, path, TRUE) /\ r.rc = 0 /\ st' = r.s
              /\ op' = [op EXCEPT ![p] = [at |-> "parent", v |-> r.v, name |-> Leaf(path), type |-> type]]
        BY <2>1 DEF CreateLookup
      <3>2. PICK o : o = [at |-> "parent", v |-> r.v, name |-> Leaf(path), type |-> type]
        OBVIOUS
      <3>3. o.at = "parent" /\ Q = [O EXCEPT ![p] = o]
        BY <1>1, <3>1, <3>2
      <3> QED BY <1>1, <3>1, <3>3
    <2>2. CASE MountLookup(p)
      <3>1. PICK path, r :
              /\ path \in Paths /\ r = vfs_lookup(st, st.root, path, FALSE) /\ r.rc = 0 /\ st' = r.s
              /\ op' = [op EXCEPT ![p] = [at |-> "mount", v |-> r.v]]
        BY <2>2 DEF MountLookup
      <3>2. PICK o : o = [at |-> "mount", v |-> r.v]
        OBVIOUS
      <3>3. o.at = "mount" /\ Q = [O EXCEPT ![p] = o]
        BY <1>1, <3>1, <3>2
      <3> QED BY <1>1, <3>1, <3>3
    <2> QED BY <2>1, <2>2
  <1>4. r.v \in DOMAIN st.node /\ r.s = vnode_hold(st, r.v)
    BY <1>3, LookupFinds
  <1>5. PICK v : v = r.v
    OBVIOUS
  <1>6. v \in DOMAIN s.node /\ t = vnode_hold(s, v)
    BY <1>1, <1>3, <1>4, <1>5
  <1>7. Quietly(s, t)
    BY <1>2, <1>6, StillQuietly
  <1>8. Switched(O, Q, p, o) /\ o.at \notin Busy
    BY <1>2, <1>3, SwitchedOps DEF Busy
  <1>9. Tally(t, Q)
    BY <1>2, <1>7, <1>8, PlainTally
  <1> QED BY <1>1, <1>9

LEMMA EndCounts ==
    ASSUME FsInv, CountInv, NEW p \in Procs, CreateFails(p) \/ MountFails(p), ~raced'
    PROVE  Tally(st', op')
  <1>1. PICK s, H, O, P, t, Q, v : /\ s = st /\ H = fd /\ O = op /\ P = leaked
                                   /\ t = st' /\ Q = op' /\ v = op[p].v
    OBVIOUS
  <1>2. Sound(s, H, O, P) /\ Shape(s) /\ DOMAIN O = Procs /\ Tally(s, O)
    BY <1>1 DEF FsInv, Sound, CreateFails, MountFails, CountInv
  <1>3. v \in DOMAIN s.node /\ (t = s \/ t = vnode_release(s, v))
    BY <1>1, <1>2 DEF Sound, OpOk, CreateFails, MountFails
  <1>4. Quietly(s, t)
    BY <1>2, <1>3, StillQuietly
  <1>5. PICK o : o = Idle
    OBVIOUS
  <1>6. Q = [O EXCEPT ![p] = o]
    BY <1>1, <1>5 DEF CreateFails, MountFails
  <1>7. Switched(O, Q, p, o) /\ o.at \notin Busy
    BY <1>2, <1>5, <1>6, SwitchedOps DEF Idle, Busy
  <1>8. Tally(t, Q)
    BY <1>2, <1>4, <1>7, PlainTally
  <1> QED BY <1>1, <1>8

LEMMA CreateLockCounts ==
    ASSUME FsInv, CountInv, NEW p \in Procs, CreateLock(p), ~raced'
    PROVE  Tally(st', op')
  <1>1. PICK s, H, O, P, Q : s = st /\ H = fd /\ O = op /\ P = leaked /\ Q = op'
    OBVIOUS
  <1>2. Sound(s, H, O, P) /\ Shape(s) /\ DOMAIN O = Procs /\ O[p].at = "parent" /\ st' = s
    BY <1>1 DEF FsInv, Sound, CreateLock
  <1>3. PICK v, name, type, a : /\ v = O[p].v /\ name = O[p].name /\ type = O[p].type
                                /\ a = s.vfs[s.node[v].vfs]
    OBVIOUS
  <1>4. v \in DOMAIN s.node
    BY <1>2, <1>3 DEF Sound, OpOk
  <1>5. PICK o : o = [at |-> "create", v |-> v, name |-> name, type |-> type,
                      inode |-> a.next_inode, count |-> a.node_count]
    OBVIOUS
  <1>6. Enter(p, o)
    BY <1>1, <1>3, <1>5 DEF CreateLock
  <1>7. o.at = "create" /\ o.v = v /\ o.inode = a.next_inode /\ o.count = a.node_count
    BY <1>5
  <1>8. ~raced /\ Q = [O EXCEPT ![p] = o] /\ Clear(s, O, p, o)
    BY <1>1, <1>6, EnterClear
  <1>9. Quietly(s, s)
    BY <1>2, StillQuietly
  <1>10. Fresh(s, o)
    BY <1>3, <1>7 DEF Fresh
  <1>11. Switched(O, Q, p, o) /\ Tally(s, O)
    BY <1>1, <1>2, <1>8, SwitchedOps DEF CountInv
  <1>12. Tally(s, Q)
    BY <1>2, <1>4, <1>7, <1>8, <1>9, <1>10, <1>11, QuietTally
  <1> QED BY <1>1, <1>2, <1>12

LEMMA TruncateCounts ==
    ASSUME FsInv, FileInv, CountInv, NEW p \in Procs, Truncate(p), ~raced'
    PROVE  Tally(st', op')
  <1>1. PICK s, H, O, P, t, Q : s = st /\ H = fd /\ O = op /\ P = leaked /\ t = st' /\ Q = op'
    OBVIOUS
  <1>2. Sound(s, H, O, P) /\ Shape(s) /\ DOMAIN O = Procs /\ Sized(s) /\ O[p].at = "trunc" /\ Tally(s, O)
    BY <1>1 DEF FsInv, Sound, FileInv, Filing, Truncate, CountInv
  <1>3. PICK v, f, b, n : v = O[p].v /\ f = s.node[v].vfs /\ b = O[p].bytes /\ n = [s.node[v] EXCEPT !.size = 0]
    OBVIOUS
  <1>4. v \in DOMAIN s.node
    BY <1>2, <1>3 DEF Sound, OpOk
  <1>5. t = TruncNode(s, v, b)
    BY <1>1, <1>3 DEF Truncate
  <1>6. Kin(s, t) /\ Edited(s, t, v, n) /\ Billed(s.vfs, t.vfs, f, b - s.node[v].size)
    BY <1>2, <1>3, <1>4, <1>5, TruncFiled DEF Filed
  <1>7. n.size = 0 /\ s.node[v].size \in Nat
    BY <1>2, <1>3, <1>4 DEF Shape, Form, NodeFields, Sized, FileOk
  <1>8. b = s.vfs[f].byte_count
    <2>1. PICK o : o = O[p]
      OBVIOUS
    <2>2. Fresh(s, o)
      BY <1>2, <2>1 DEF Tally
    <2> QED BY <1>2, <1>3, <2>1, <2>2 DEF Fresh
  <1>9. b \in Int
    <2>1. f \in DOMAIN s.vfs /\ List(s.node)
      BY <1>2, <1>3, <1>4 DEF Shape, Form, Tree, NodeOk
    <2>2. FsCounted(s, f)
      BY <1>2, <2>1 DEF Tally, Counted
    <2>3. Cardinality(Cells(s, Mine(s, f))) \in Nat
      BY <1>2, <2>1, MineMeasured, CellsFinite
    <2> QED BY <1>8, <2>2, <2>3 DEF FsCounted
  <1>10. b - s.node[v].size = s.vfs[f].byte_count + (n.size - s.node[v].size)
    <2>1. PICK x : x = s.node[v].size /\ x \in Nat
      BY <1>7
    <2>2. b - x = b + (0 - x)
      BY <1>9, <2>1
    <2> QED BY <1>7, <1>8, <2>1, <2>2
  <1>11. Billed(s.vfs, t.vfs, f, s.vfs[f].byte_count + (n.size - s.node[v].size))
    BY <1>6, <1>10
  <1>17. Counted(s) /\ n.size \in Nat
    BY <1>2, <1>7 DEF Tally
  <1>12. Counted(t)
    BY <1>2, <1>3, <1>4, <1>6, <1>11, <1>17, CountedWritten
  <1>13. SameFs(s, t) /\ \A g \in DOMAIN s.vfs \ {f} : t.vfs[g] = s.vfs[g]
    BY <1>6, KinSameFs DEF Billed
  <1>14. Switched(O, Q, p, Idle)
    BY <1>1, <1>2, SwitchedOps DEF Truncate
  <1>15. O[p].at \in Busy
    BY <1>2 DEF Busy
  <1>16. Tally(t, Q)
    BY <1>2, <1>3, <1>12, <1>13, <1>14, <1>15, LeaveTally
  <1> QED BY <1>1, <1>16

LEMMA WriteStoreCounts ==
    ASSUME FsInv, FileInv, CountInv, NEW p \in Procs, WriteStore(p), ~raced'
    PROVE  Tally(st', op')
  <1>1. PICK s, H, O, P, t, Q : s = st /\ H = fd /\ O = op /\ P = leaked /\ t = st' /\ Q = op'
    OBVIOUS
  <1>2. Sound(s, H, O, P) /\ Shape(s) /\ DOMAIN O = Procs /\ Sized(s) /\ O[p].at = "store" /\ Tally(s, O)
    BY <1>1 DEF FsInv, Sound, FileInv, Filing, WriteStore, CountInv
  <1>3. PICK v, f, b, off, len, byte : /\ v = O[p].v /\ f = s.node[v].vfs /\ b = O[p].bytes
                                       /\ off = O[p].off /\ len = O[p].len /\ byte = 1
    OBVIOUS
  <1>4. v \in DOMAIN s.node
    BY <1>2, <1>3 DEF Sound, OpOk
  <1>5. t = WriteNode(s, v, off, len, byte, b)
    BY <1>1, <1>3 DEF WriteStore
  <1>6. PICK n : n = Wrote(s.node[v], off, len, byte)
    OBVIOUS
  <1>7. Kin(s, t) /\ Edited(s, t, v, n) /\ Billed(s.vfs, t.vfs, f, b + (off + len - s.node[v].size))
    BY <1>2, <1>3, <1>4, <1>5, <1>6, WriteFiled DEF Filed
  <1>8. off \in Nat /\ len \in Nat
    <2>1. off \in 0..MaxSize /\ len \in 0..(MaxSize - off)
      BY <1>1, <1>2, <1>3 DEF FileInv, Filing, CallOk
    <2> QED BY <2>1, FsAssumption
  <1>9. DOMAIN s.node[v] = NodeFields /\ FileOk(s.node[v])
    BY <1>2, <1>4 DEF Shape, Form, Sized
  <1>10. n.size = off + len
    BY <1>6, <1>8, <1>9, WroteFile
  <1>11. b = s.vfs[f].byte_count
    <2>1. PICK o : o = O[p]
      OBVIOUS
    <2>2. Fresh(s, o)
      BY <1>2, <2>1 DEF Tally
    <2> QED BY <1>2, <1>3, <2>1, <2>2 DEF Fresh
  <1>12. b + (off + len - s.node[v].size) = s.vfs[f].byte_count + (n.size - s.node[v].size)
    <2>1. PICK x, y : x \in Nat /\ x = s.node[v].size /\ y = n.size /\ y = off + len
      BY <1>9, <1>10 DEF FileOk
    <2>2. off + len - x = y - x
      BY <1>8, <2>1
    <2> QED BY <1>11, <2>1, <2>2, Zenon
  <1>13. Billed(s.vfs, t.vfs, f, s.vfs[f].byte_count + (n.size - s.node[v].size)) /\ n.size \in Nat
    BY <1>7, <1>8, <1>10, <1>12
  <1>14. Counted(t)
    BY <1>2, <1>3, <1>4, <1>7, <1>13, CountedWritten DEF Tally
  <1>15. SameFs(s, t) /\ \A g \in DOMAIN s.vfs \ {f} : t.vfs[g] = s.vfs[g]
    BY <1>7, KinSameFs DEF Billed
  <1>16. Switched(O, Q, p, Idle) /\ O[p].at \in Busy
    BY <1>1, <1>2, SwitchedOps DEF WriteStore, Busy
  <1>17. Tally(t, Q)
    BY <1>2, <1>3, <1>14, <1>15, <1>16, LeaveTally
  <1> QED BY <1>1, <1>17

LEMMA CreateDoneCounts ==
    ASSUME FsInv, FileInv, CountInv, NEW p \in Procs, CreateDone(p), ~raced'
    PROVE  Tally(st', op')
  <1>1. PICK s, H, O, P, t, Q : s = st /\ H = fd /\ O = op /\ P = leaked /\ t = st' /\ Q = op'
    OBVIOUS
  <1>2. Sound(s, H, O, P) /\ Shape(s) /\ DOMAIN O = Procs /\ Sized(s) /\ O[p].at = "create" /\ Tally(s, O)
    BY <1>1 DEF FsInv, Sound, FileInv, Filing, CreateDone, CountInv
  <1>3. PICK o, r : o = O[p] /\ r = CreateEnd(s, o.v, o.name, o.type, o.inode, o.count) /\ t = r.s
    BY <1>1 DEF CreateDone
  <1>4. PICK d, f, m, name, type, inode, count :
          /\ d = o.v /\ f = s.node[d].vfs /\ m = r.v
          /\ name = o.name /\ type = o.type /\ inode = o.inode /\ count = o.count
    OBVIOUS
  <1>5. d \in DOMAIN s.node /\ Free(s, d, name)
    BY <1>2, <1>3, <1>4 DEF Sound, OpOk
  <1>6. Born(s, r.s, d, r.v, name, type) /\ Tallied(s, r.s, s.node[d].vfs, r.v, inode, count)
    BY <1>2, <1>3, <1>4, <1>5, EndBorn
  <1>7. Born(s, t, d, m, name, type) /\ Tallied(s, t, f, m, inode, count)
    BY <1>3, <1>4, <1>6
  <1>8. inode = s.vfs[f].next_inode /\ count = s.vfs[f].node_count
    <2>1. Fresh(s, o)
      BY <1>2, <1>3 DEF Tally
    <2> QED BY <1>2, <1>3, <1>4, <2>1 DEF Fresh
  <1>9. Counted(t)
    BY <1>2, <1>4, <1>5, <1>7, <1>8, CountedBorn DEF Tally
  <1>10. SameFs(s, t) /\ \A g \in DOMAIN s.vfs \ {f} : t.vfs[g] = s.vfs[g]
    BY <1>7 DEF Tallied
  <1>11. Switched(O, Q, p, Idle) /\ O[p].at \in Busy /\ f = s.node[O[p].v].vfs
    BY <1>1, <1>2, <1>3, <1>4, SwitchedOps DEF CreateDone, Busy
  <1>12. Tally(t, Q)
    BY <1>2, <1>9, <1>10, <1>11, LeaveTally
  <1> QED BY <1>1, <1>12

LEMMA MountCounts ==
    ASSUME FsInv, CountInv, NEW p \in Procs, MountDone(p), ~raced'
    PROVE  Tally(st', op')
  <1>1. PICK s, H, O, P, t, Q, v : /\ s = st /\ H = fd /\ O = op /\ P = leaked
                                   /\ t = st' /\ Q = op' /\ v = op[p].v
    OBVIOUS
  <1>2. Sound(s, H, O, P) /\ Shape(s) /\ DOMAIN O = Procs /\ Tally(s, O)
    BY <1>1 DEF FsInv, Sound, MountDone, CountInv
  <1>3. PICK o : o = Idle
    OBVIOUS
  <1>4. v \in DOMAIN s.node /\ t = vfs_mount(s, v) /\ Q = [O EXCEPT ![p] = o]
    BY <1>1, <1>2, <1>3 DEF Sound, OpOk, MountDone
  <1>5. v # Null
    BY <1>2, <1>4, NodesPositive DEF Shape
  <1>6. PICK f, m : f = Len(s.vfs) + 1 /\ m = Len(s.node) + 1
    OBVIOUS
  <1>7. Mounted(s, t, v, f, m)
    BY <1>2, <1>4, <1>5, <1>6, MountMounts DEF Shape
  <1>8. Counted(t)
    BY <1>2, <1>4, <1>7, CountedMounted DEF Tally
  <1>9. ASSUME NEW u \in DOMAIN s.node
        PROVE  t.node[u].vfs = s.node[u].vfs /\ s.node[u].vfs \in DOMAIN s.vfs
    <2>1. DOMAIN s.node[v] = NodeFields /\ s.node[u].vfs \in DOMAIN s.vfs
      BY <1>2, <1>4, <1>9 DEF Shape, Form, Tree, NodeOk
    <2>2. PICK k : k = [s.node[v] EXCEPT !.mounted = f]
      OBVIOUS
    <2>3. k.vfs = s.node[v].vfs
      BY <2>1, <2>2 DEF NodeFields
    <2> QED BY <1>7, <1>9, <2>1, <2>2, <2>3 DEF Mounted
  <1>10. \A q \in Procs : O[q].at \in Busy => O[q].v \in DOMAIN s.node
    BY <1>2 DEF Sound, OpOk, Busy
  <1>11. \A g \in DOMAIN s.vfs : t.vfs[g] = s.vfs[g]
    BY <1>7 DEF Mounted
  <1>12. Aside(s, t, O, p)
    BY <1>9, <1>10, <1>11 DEF Aside
  <1>13. Switched(O, Q, p, o) /\ o.at \notin Busy
    BY <1>2, <1>3, <1>4, SwitchedOps DEF Idle, Busy
  <1>14. Fresh(t, o) /\ Clear(s, O, p, o)
    BY <1>13, IdleOk
  <1>15. Tally(t, Q)
    BY <1>2, <1>8, <1>12, <1>13, <1>14, TallyStep
  <1> QED BY <1>1, <1>15

\* Every step keeps the counters right until two threads meet in them.
LEMMA CountStep ==
    ASSUME FsInv, FileInv, CountInv, [Next]_vars
    PROVE  CountInv'
  <1>1. CASE Boot
    <2>1. Laid(st') /\ op = [q \in Procs |-> Idle] /\ op' = op
      BY <1>1, BootStep DEF Boot, FsInv, Quiet
    <2>2. \A q \in Procs : op'[q].at \notin Busy
      BY <2>1 DEF Idle, Busy
    <2>3. \A q \in Procs : Fresh(st', op'[q])
      BY <2>2, IdleOk
    <2> QED BY <2>1, <2>2, <2>3 DEF CountInv, Tally, Laid, Apart
  <1>2. ASSUME NEW p \in Procs, Step(p), ~raced' PROVE Tally(st', op')
    BY <1>2, OpenCounts, OpenFailsCounts, CloseCounts, WriteCounts, LookupCounts, EndCounts,
       CreateLockCounts, TruncateCounts, WriteStoreCounts, CreateDoneCounts, MountCounts DEF Step
  <1>3. CASE UNCHANGED vars
    BY <1>3 DEF vars, CountInv
  <1> QED BY <1>1, <1>2, <1>3 DEF Next, CountInv

\* So they are right in every reachable state without such a meeting.
THEOREM CountInvariant == Spec => []CountInv
  <1>1. Init => CountInv
    <2> SUFFICES ASSUME Init PROVE Tally(st, op)
      BY DEF CountInv
    <2>1. Counted(st)
      BY InitCalm DEF Init, Calm, Laid
    <2>2. \A q \in Procs : op[q].at \notin Busy
      BY DEF Init, Idle, Busy
    <2>3. \A q \in Procs : Fresh(st, op[q])
      BY <2>2, IdleOk
    <2> QED BY <2>1, <2>2, <2>3 DEF Tally, Apart
  <1>2. FsInv /\ FileInv /\ CountInv /\ [Next]_vars => CountInv'
    BY CountStep
  <1> QED BY <1>1, <1>2, FileInvariant, PTL DEF Spec

\* What statfs reports is right and the inode numbers of a file system differ,
\* as long as no two threads were inside its counters at once: a truncation, a
\* write, a create and a mount each leave node_count, byte_count and next_inode
\* in step with the nodes.
THEOREM FsCountersExact == Spec => []CountersExact
  <1>1. FsInv /\ FileInv /\ CountInv => CountersExact
    <2> SUFFICES ASSUME FsInv, FileInv, CountInv, ~raced, NEW f \in DOMAIN st.vfs
                 PROVE  LET mine == {v \in DOMAIN st.node : st.node[v].vfs = f}
                            sum[S \in SUBSET mine] ==
                                IF S = {} THEN 0
                                ELSE LET v == CHOOSE x \in S : TRUE IN st.node[v].size + sum[S \ {v}]
                        IN  /\ st.vfs[f].node_count = Cardinality(mine)
                            /\ st.vfs[f].byte_count = sum[mine]
                            /\ \A u, v \in mine : st.node[u].inode = st.node[v].inode => u = v
      BY DEF CountersExact
    <2>1. PICK s, M : s = st /\ M = Mine(s, f)
      OBVIOUS
    <2>2. FsCounted(s, f) /\ List(s.node) /\ Sized(s)
      BY <2>1 DEF CountInv, Tally, Counted, FsInv, Sound, Shape, Form, FileInv, Filing
    <2>3. Measured(s, M)
      BY <2>1, <2>2, MineMeasured
    <2>4. PICK h : h = CHOOSE g : g = Sums(s, M, g)
      OBVIOUS
    <2>5. h[M] = Cardinality(Cells(s, M))
      BY <2>3, <2>4, SumCells
    <2>6. M = {v \in DOMAIN st.node : st.node[v].vfs = f}
      BY <2>1 DEF Mine
    <2>7. /\ st.vfs[f].node_count = Cardinality(M) /\ st.vfs[f].byte_count = h[M]
          /\ \A u, v \in M : st.node[u].inode = st.node[v].inode => u = v
      BY <2>1, <2>2, <2>5 DEF FsCounted
    <2>8. h = CHOOSE g : g = [S \in SUBSET M |-> IF S = {} THEN 0
                                ELSE LET v == CHOOSE x \in S : TRUE IN st.node[v].size + g[S \ {v}]]
      BY <2>1, <2>4 DEF Sums
    <2> QED BY <2>6, <2>7, <2>8
  <1> QED BY <1>1, FileInvariant, CountInvariant, PTL
=============================================================================
