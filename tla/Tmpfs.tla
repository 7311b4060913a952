------------------------------- MODULE Tmpfs -------------------------------
(***************************************************************************)
(* kernel/src/fs/tmpfs.c: nodes in memory.                                 *)
(*                                                                         *)
(* The file system state is a value: s.node is the table of all            *)
(* tmpfs_node_t (with the vnode_t embedded in each), s.vfs the table of    *)
(* mounted tmpfs_vfs_t.  Nodes and file systems are never freed, so an     *)
(* object is its index in the table.  The operations map states to states; *)
(* module Fs says which of them are interrupted by other threads.          *)
(*                                                                         *)
(* File data keeps size and capacity apart: the bytes between them are     *)
(* whatever earlier writes left there.                                     *)
(***************************************************************************)
EXTENDS Integers, Sequences

CONSTANT FirstCapacity      \* 64: the capacity a node starts with

ASSUME CapacityAssumption == FirstCapacity \in Nat \ {0}

Null == 0
REG  == "reg"
DIR  == "dir"

IsDir(s, v) == s.node[v].type = DIR

-----------------------------------------------------------------------------
(* Directories.  kids is the sibling list, newest child first.             *)

tmpfs_find_child(s, d, name) ==
    LET kids == s.node[d].kids
        hits == {i \in DOMAIN kids : s.node[kids[i]].name = name}
    IN  IF hits = {} THEN Null ELSE kids[CHOOSE i \in hits : \A j \in hits : i <= j]

\* Variant: the two entries "." and ".." are not discounted.
ChildAtShifted(s, d, index) ==
    IF index + 2 <= Len(s.node[d].kids) THEN s.node[d].kids[index + 2] ELSE Null

tmpfs_child_at(s, d, index) ==
    IF index < Len(s.node[d].kids) THEN s.node[d].kids[index + 1] ELSE Null

tmpfs_lookup(s, d, name) ==
    IF IsDir(s, d) THEN tmpfs_find_child(s, d, name) ELSE Null

NewNode(f, parent, name, type, inode) ==
    [vfs |-> f, parent |-> parent, name |-> name, type |-> type, inode |-> inode,
     refcount |-> 1, mounted |-> Null, kids |-> <<>>, size |-> 0, data |-> <<>>]

\* tmpfs_alloc_node, with "inode" the value of next_inode that was read and
\* "count" the value of node_count.
tmpfs_alloc_node(s, f, parent, name, type, inode, count) ==
    [s EXCEPT !.node = Append(@, NewNode(f, parent, name, type, inode)),
              !.vfs[f].next_inode = inode + 1,
              !.vfs[f].node_count = count + 1]

\* Variant: the child replaces the list instead of heading it.
LinkAlone(s, parent, child) == [s EXCEPT !.node[parent].kids = <<child>>]

tmpfs_link_child(s, parent, child) ==
    [s EXCEPT !.node[parent].kids = <<child>> \o @]

\* The second half of tmpfs_create: allocate the node and link it.
CreateChild(s, parent, name, type, inode, count) ==
    tmpfs_link_child(
        tmpfs_alloc_node(s, s.node[parent].vfs, parent, name, type, inode, count),
        parent, Len(s.node) + 1)

\* The checks of tmpfs_create, the last of them under the parent's lock.
tmpfs_create_ok(s, d, name, type) ==
    name # "" /\ type \in {REG, DIR} /\ IsDir(s, d) /\ tmpfs_find_child(s, d, name) = Null

\* tmpfs_mount; the new file system is Len(s.vfs) + 1.
tmpfs_mount(s) ==
    LET f == Len(s.vfs) + 1
        t == [s EXCEPT !.vfs = Append(@, [root |-> Len(s.node) + 1, covered |-> Null,
                              next_inode |-> 1, node_count |-> 0, byte_count |-> 0])]
    IN  tmpfs_alloc_node(t, f, Null, "", DIR, 1, 0)

\* What one getdents call at "offset" with room for "capacity" entries
\* returns: the nodes named by the entries, "." and ".." first.
tmpfs_getdents(s, d, offset, capacity) ==
    LET parent == IF s.node[d].parent = Null THEN d ELSE s.node[d].parent
        entry(i) == IF i = 0 THEN d ELSE IF i = 1 THEN parent ELSE tmpfs_child_at(s, d, i - 2)
        full(n)  == \A i \in offset..(offset + n - 1) : entry(i) # Null
        n == CHOOSE k \in 0..capacity : full(k) /\ (k < capacity => ~full(k + 1))
    IN  [i \in 1..n |-> entry(offset + i - 1)]

-----------------------------------------------------------------------------
(* File data: a sequence of capacity bytes, 0 where memset cleared them.   *)

Capacity(n) == Len(n.data)

\* The doubling loop of tmpfs_resize_node.
Doubled(cap, size) ==
    LET grow[c \in Nat] == IF c >= size THEN c ELSE grow[2 * c]
    IN  grow[IF cap = 0 THEN FirstCapacity ELSE cap]

\* Variant: bytes that come back into the file are not cleared.
ResizeKeepsBytes(n, size) ==
    LET cap == IF size <= Capacity(n) THEN Capacity(n) ELSE Doubled(Capacity(n), size)
    IN  [n EXCEPT !.size = size,
                  !.data = [i \in 1..cap |-> IF i <= Capacity(n) THEN n.data[i] ELSE 0]]

\* tmpfs_resize_node without the byte count: bytes added to the file, and
\* bytes added to the buffer, are cleared; others are kept.
tmpfs_resize_node(n, size) ==
    LET cap == IF size <= Capacity(n) THEN Capacity(n) ELSE Doubled(Capacity(n), size)
    IN  [n EXCEPT !.size = size,
                  !.data = [i \in 1..cap |->
                        IF i <= Capacity(n) /\ ~(i > n.size /\ i <= size) THEN n.data[i] ELSE 0]]

\* The locked part of tmpfs_write: "bytes" is the byte_count that was read,
\* offset and end were computed before the lock was taken.
WriteNode(s, v, offset, size, byte, bytes) ==
    LET n == s.node[v]
        f == n.vfs
        r == tmpfs_resize_node(n, offset + size)
        w == [r EXCEPT !.data = [i \in DOMAIN @ |->
                  IF i > offset /\ i <= offset + size THEN byte ELSE @[i]]]
    IN  [s EXCEPT !.node[v] = w,
                  !.vfs[f].byte_count = bytes + (offset + size - n.size)]

\* Variant: truncation does not give its bytes back.
TruncUncounted(s, v, bytes) == [s EXCEPT !.node[v].size = 0]

\* The O_TRUNC part of tmpfs_open.
TruncNode(s, v, bytes) ==
    [s EXCEPT !.node[v].size = 0,
              !.vfs[s.node[v].vfs].byte_count = bytes - s.node[v].size]

\* How much a read of "size" bytes at "offset" copies.
ReadCount(n, offset, size) ==
    IF offset >= n.size THEN 0
    ELSE IF size < n.size - offset THEN size ELSE n.size - offset

tmpfs_read(s, v, offset, size) ==
    LET n == s.node[v]
    IN  SubSeq(n.data, offset + 1, offset + ReadCount(n, offset, size))

\* tmpfs_open's verdict on the flags.  O_RDONLY is the absence of the other
\* access modes, O_INVALID the one that tmpfs_open_flags_valid refuses.
tmpfs_open_ok(s, v, flags) ==
    /\ "O_INVALID" \notin flags
    /\ "O_DIRECTORY" \in flags => IsDir(s, v)
    /\ IsDir(s, v) => "O_WRONLY" \notin flags

\* Whether it truncates the file.
Truncates(s, v, flags) == {"O_TRUNC", "O_WRONLY"} \subseteq flags /\ ~IsDir(s, v)
=============================================================================
