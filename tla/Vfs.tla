-------------------------------- MODULE Vfs --------------------------------
(***************************************************************************)
(* kernel/src/fs/vfs.c: the registry of file system types, mounts, the     *)
(* path walk, and the reference counts of vnodes.                          *)
(*                                                                         *)
(* As in Tmpfs the operations map states to states.  s.types is the        *)
(* registry, s.root is vfsroot.  A path is a sequence of components (the   *)
(* walk skips repeated slashes) and is absolute or relative to a vnode.    *)
(* The result of an operation is [rc, s, v]: 0 or -1, the state it leaves, *)
(* and the vnode it stores in *result (Null if none).                      *)
(***************************************************************************)
EXTENDS Tmpfs, FiniteSets

Rc(rc, s, v) == [rc |-> rc, s |-> s, v |-> v]

vfs_init == [node |-> <<>>, vfs |-> <<>>, types |-> {}, root |-> Null]

vfs_register(s, name) ==
    IF name \in s.types THEN Rc(-1, s, Null)
    ELSE Rc(0, [s EXCEPT !.types = @ \cup {name}], Null)

vnode_hold(s, v) == [s EXCEPT !.node[v].refcount = @ + 1]

\* vnode_release.  At 0 vfs_inactive runs, which for tmpfs leaves the node
\* where it is (tmpfs_inactive is empty and nobody attaches an advlock).
vnode_release(s, v) == [s EXCEPT !.node[v].refcount = @ - 1]

\* The root of the file system mounted last on v, on its root, and so on.
Tops(s) ==
    LET top[u \in DOMAIN s.node] ==
            IF s.node[u].mounted = Null THEN u ELSE top[s.vfs[s.node[u].mounted].root]
    IN  top
vfs_follow_mounts(s, v) == IF v = Null THEN Null ELSE Tops(s)[v]

\* One component of the loop of vfs_lookup, from vnode v: ".." is refused.
WalkStep(s, v, name) ==
    IF v = Null \/ name = ".." THEN Null
    ELSE IF name = "." THEN v
    ELSE vfs_follow_mounts(s, tmpfs_lookup(s, v, name))

\* The loop: the vnode after each component, Null once the walk has failed.
Steps(s, start, path) ==
    LET at[i \in 0..Len(path)] == IF i = 0 THEN start ELSE WalkStep(s, at[i - 1], path[i])
    IN  at

\* VFS_LOOKUP_PARENT stops before the last component, whatever it is.  A "."
\* goes round the loop without looking for the end of the path, where the next
\* round finds an empty component.
Walk(s, start, path, parent) ==
    IF parent THEN Steps(s, start, path)[Len(path) - 1]
    ELSE IF path[Len(path)] = "." THEN Null
    ELSE Steps(s, start, path)[Len(path)]

\* A walk that ended at v (Null: nowhere) is the result of the call.
Held(s, v) == IF v = Null THEN Rc(-1, s, Null) ELSE Rc(0, vnode_hold(s, v), v)

\* vfs_lookup from vfsroot (the path is absolute) or from another vnode.
vfs_lookup(s, start, path, parent) ==
    LET from(cur) == IF cur = Null \/ path = <<>> THEN cur ELSE Walk(s, cur, path, parent)
    IN  Held(s, from(vfs_follow_mounts(s, start)))

\* vfs_mount of a new tmpfs once the mount point has been looked up and is
\* held; v is Null for the root file system.
vfs_mount(s, v) ==
    LET t == tmpfs_mount(s)
    IN  IF v = Null THEN [t EXCEPT !.root = Len(t.node)]
        ELSE [t EXCEPT !.vfs[Len(t.vfs)].covered = v, !.node[v].mounted = Len(t.vfs)]

\* vfs_open up to the truncation that tmpfs_open may do: by path from the
\* root, or a second reference to "ref" when the path is None.
None == <<"none">>

vfs_open(s, ref, path, flags) ==
    LET open(at) == IF at.rc # 0 \/ tmpfs_open_ok(s, at.v, flags) THEN at
                    ELSE Rc(-1, vnode_release(at.s, at.v), Null)
    IN  open(IF path = None THEN Held(s, ref) ELSE vfs_lookup(s, s.root, path, FALSE))

vfs_close(s, v) == vnode_release(s, v)

\* What the look-up of the parent leaves in lastcomp.
Leaf(path) == IF path = <<>> THEN "" ELSE path[Len(path)]

\* Variant: the parent keeps the reference of the walk.
EndHoldsParent(s, parent, name, type, inode, count) ==
    Rc(0, CreateChild(s, parent, name, type, inode, count), Len(s.node) + 1)

\* vfs_create once tmpfs_create has found the name free: the child is made and
\* the parent released.
CreateEnd(s, parent, name, type, inode, count) ==
    Rc(0, vnode_release(CreateChild(s, parent, name, type, inode, count), parent),
       Len(s.node) + 1)

\* The allocations made for nodes and for file data.
Allocations(s) == Len(s.node) + Cardinality({v \in DOMAIN s.node : s.node[v].data # <<>>})

\* vfs_create by a caller that is alone, with memory for "room" allocations.
vfs_create(s, path, type, room) ==
    LET made(at) == LET f == s.vfs[s.node[at.v].vfs]
                    IN  IF Allocations(s) < room /\ tmpfs_create_ok(s, at.v, Leaf(path), type)
                        THEN CreateEnd(at.s, at.v, Leaf(path), type, f.next_inode, f.node_count)
                        ELSE Rc(-1, vnode_release(at.s, at.v), Null)
        in(at)   == IF at.rc # 0 THEN at ELSE made(at)
    IN  in(vfs_lookup(s, s.root, path, TRUE))

\* What vfs_read and vfs_getdents deliver: size bytes or entries at offset.
vfs_read(s, v, offset, size)     == tmpfs_read(s, v, offset, size)
vfs_getdents(s, v, offset, size) == tmpfs_getdents(s, v, offset, size)

\* vfs_write of "size" bytes "byte" at "offset" into a file without a buffer,
\* by a caller that is alone.
vfs_write(s, v, offset, size, byte, room) ==
    IF Allocations(s) < room
    THEN Rc(0, WriteNode(s, v, offset, size, byte, s.vfs[s.node[v].vfs].byte_count), v)
    ELSE Rc(-1, s, v)
=============================================================================
