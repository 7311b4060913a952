--------------------------------- MODULE Fs ---------------------------------
(***************************************************************************)
(* The file system in use: the boot CPU mounts the root and unpacks the    *)
(* archive, then threads open, create, read, write and list at the same    *)
(* time.                                                                   *)
(*                                                                         *)
(* A call is one step except where the code leaves data unprotected:       *)
(*  - tmpfs_write computes its offset (the file size, for O_APPEND) before *)
(*    it takes size_lock;                                                  *)
(*  - vfs_create looks the parent up before tmpfs_create takes its lock;   *)
(*  - vfs_mount looks the mount point up and attaches the new file system  *)
(*    to it later, under no lock at all;                                   *)
(*  - byte_count, node_count and next_inode belong to the whole file       *)
(*    system but are read and written under the lock of one node.          *)
(* The walk of a path is one step: entries are never removed, and a create *)
(* or a mount by another thread is taken to precede or to follow it.       *)
(***************************************************************************)
EXTENDS Initrd, QueueOps, FiniteSets

CONSTANTS
    Procs,      \* threads that use files, one open vnode each
    Paths,      \* the paths they use (sequences of components)
    Archives,   \* the boot archives
    MaxNodes, MaxFs, MaxSize, MaxCalls,   \* bounds: nodes, mounts, bytes of a
                                          \* file, calls begun by all threads
    Memory,     \* nodes and buffers there may be memory for while booting
    Chunk       \* bytes per read, entries per getdents

\* None stands for no path; a read asks for something; sizes have a bound.
ASSUME FsAssumption ==
    /\ IsFiniteSet(Procs) /\ Chunk \in Nat \ {0} /\ MaxSize \in Nat
    /\ Paths \subseteq Seq(STRING) \ {None}
    /\ Archives \subseteq Seq([name : Seq(STRING), kind : STRING, size : Nat])

VARIABLES
    st,         \* the vnodes and file systems
    archive,    \* the archive the boot loader passed
    phase,      \* "boot", "run", or "panic" (kmain gave up)
    fd,         \* the vnode each thread has open
    op,         \* the call each thread is in the middle of
    scan,       \* the read or listing loop each thread is in
    leaked,     \* the mount points that failed calls of vfs_mount left held
    raced,      \* two threads were inside a file-system-wide counter at once
    calls       \* calls begun

vars == <<st, archive, phase, fd, op, scan, leaked, raced, calls>>

Idle   == [at |-> "idle"]
NoScan == [got |-> <<>>, mark |-> <<>>, done |-> FALSE, dirty |-> FALSE]

Contents(n) == SubSeq(n.data, 1, n.size)

Init ==
    /\ st = vfs_mount(vfs_register(vfs_init, "tmpfs").s, Null)
    /\ archive \in Archives
    /\ phase = "boot"
    /\ fd = [p \in Procs |-> Null]
    /\ op = [p \in Procs |-> Idle]
    /\ scan = [p \in Procs |-> NoScan]
    /\ leaked = <<>>
    /\ raced = FALSE
    /\ calls = 0

\* kmain: unpack, or kpanic.
Boot ==
    /\ phase = "boot"
    /\ \E room \in Memory : \E r \in {initrd_unpack(st, archive, room)} :
          /\ st' = r.s
          /\ phase' = IF r.rc = 0 THEN "run" ELSE "panic"
    /\ UNCHANGED <<archive, fd, op, scan, leaked, raced, calls>>

-----------------------------------------------------------------------------
(* Locks and counters.                                                     *)

\* Thread p begins a call.
Begin(p) == /\ phase = "run" /\ op[p] = Idle /\ scan[p] = NoScan
            /\ calls < MaxCalls /\ calls' = calls + 1

\* Variant: tmpfs_create does not lock the parent.
NoDirLock(d) == FALSE

\* size_lock of v, and lock of directory d, by the calls that hold them over
\* a step.
SizeLocked(v) == \E q \in Procs : op[q].at \in {"store", "trunc"} /\ op[q].v = v
DirLocked(d)  == \E q \in Procs : op[q].at = "create" /\ op[q].v = d

\* Somebody is between reading and writing a counter of file system f.
InCounter(f) == \E q \in Procs : /\ op[q].at \in {"store", "trunc", "create"}
                                 /\ st.node[op[q].v].vfs = f

\* Read the counters for call o.
Enter(p, o) ==
    /\ op' = [op EXCEPT ![p] = o]
    /\ raced' = (raced \/ InCounter(st.node[o.v].vfs))

\* Every scan of v sees it change.
Dirtied(v) == [q \in Procs |-> IF fd[q] = v /\ scan[q] # NoScan
                               THEN [scan[q] EXCEPT !.dirty = TRUE] ELSE scan[q]]

ByteCount(v) == st.vfs[st.node[v].vfs].byte_count

\* Bound: the calls under way that may make a node find room for it.
Making(ats) == Cardinality({q \in Procs : op[q].at \in ats})
NodeRoom    == Len(st.node) + Making({"parent", "create", "mount"}) < MaxNodes

-----------------------------------------------------------------------------
(* The calls.                                                              *)

Open(p) ==
    /\ Begin(p) /\ fd[p] = Null
    /\ \E path \in Paths \cup {None}, flags \in {{}, {"O_DIRECTORY"}, {"O_WRONLY"},
                                                 {"O_TRUNC"}, {"O_WRONLY", "O_TRUNC"}} :
       \E ref \in IF path = None THEN {fd[q] : q \in Procs} \ {Null} ELSE {Null} :
       \E r \in {vfs_open(st, ref, path, flags)} :
          /\ r.rc = 0
          /\ st' = r.s
          /\ \/ /\ Truncates(st, r.v, flags)
                /\ ~SizeLocked(r.v)
                /\ Enter(p, [at |-> "trunc", v |-> r.v, bytes |-> ByteCount(r.v)])
                /\ UNCHANGED fd
             \/ /\ ~Truncates(st, r.v, flags)
                /\ fd' = [fd EXCEPT ![p] = r.v]
                /\ UNCHANGED <<op, raced>>
    /\ UNCHANGED <<archive, phase, scan, leaked>>

\* A vfs_open that fails gives its reference back.
OpenFails(p) ==
    /\ Begin(p) /\ fd[p] = Null
    /\ \E path \in Paths, flags \in {{}, {"O_DIRECTORY"}, {"O_WRONLY"}, {"O_INVALID"}} :
       \E r \in {vfs_open(st, Null, path, flags)} : r.rc # 0 /\ st' = r.s
    /\ UNCHANGED <<archive, phase, fd, op, scan, leaked, raced>>

Truncate(p) ==
    /\ op[p].at = "trunc"
    /\ st' = TruncNode(st, op[p].v, op[p].bytes)
    /\ scan' = Dirtied(op[p].v)
    /\ fd' = [fd EXCEPT ![p] = op[p].v]
    /\ op' = [op EXCEPT ![p] = Idle]
    /\ UNCHANGED <<archive, phase, leaked, raced, calls>>

Close(p) ==
    /\ phase = "run" /\ fd[p] # Null /\ op[p] = Idle
    /\ scan[p] # NoScan => scan[p].done
    /\ st' = vfs_close(st, fd[p])
    /\ fd' = [fd EXCEPT ![p] = Null]
    /\ scan' = [scan EXCEPT ![p] = NoScan]
    /\ UNCHANGED <<archive, phase, op, leaked, raced, calls>>

\* vfs_write, up to the lock: the offset is fixed here.
WriteAt(p) ==
    /\ Begin(p) /\ fd[p] # Null
    /\ ~IsDir(st, fd[p])
    /\ \E o \in (0..MaxSize) \cup {st.node[fd[p]].size} : \E n \in 0..(MaxSize - o) :
          op' = [op EXCEPT ![p] = [at |-> "write", v |-> fd[p], off |-> o, len |-> n]]
    /\ UNCHANGED <<st, archive, phase, fd, scan, leaked, raced>>

\* The lock is taken and byte_count is read, or krealloc fails.
WriteLock(p) ==
    /\ op[p].at = "write"
    /\ ~SizeLocked(op[p].v)
    /\ \/ Enter(p, [at |-> "store", v |-> op[p].v, off |-> op[p].off, len |-> op[p].len,
                    bytes |-> ByteCount(op[p].v)])
       \/ /\ op[p].off + op[p].len > Capacity(st.node[op[p].v])
          /\ op' = [op EXCEPT ![p] = Idle]
          /\ UNCHANGED raced
    /\ UNCHANGED <<st, archive, phase, fd, scan, leaked, calls>>

WriteStore(p) ==
    /\ op[p].at = "store"
    /\ st' = WriteNode(st, op[p].v, op[p].off, op[p].len, 1, op[p].bytes)
    /\ scan' = Dirtied(op[p].v)
    /\ op' = [op EXCEPT ![p] = Idle]
    /\ UNCHANGED <<archive, phase, fd, leaked, raced, calls>>

\* vfs_create: the parent is looked up and held.
CreateLookup(p) ==
    /\ Begin(p) /\ fd[p] = Null /\ NodeRoom
    /\ \E path \in Paths, type \in {REG, DIR} :
       \E r \in {vfs_lookup(st, st.root, path, TRUE)} :
          /\ r.rc = 0
          /\ st' = r.s
          /\ op' = [op EXCEPT ![p] = [at |-> "parent", v |-> r.v, name |-> Leaf(path),
                                      type |-> type]]
    /\ UNCHANGED <<archive, phase, fd, scan, leaked, raced>>

\* The parent is locked, the name is free and the counters are read.
CreateLock(p) ==
    /\ op[p].at = "parent"
    /\ LET o == op[p]
           f == st.vfs[st.node[o.v].vfs]
       IN  /\ ~DirLocked(o.v)
           /\ tmpfs_create_ok(st, o.v, o.name, o.type)
           /\ Enter(p, [at |-> "create", v |-> o.v, name |-> o.name, type |-> o.type,
                        inode |-> f.next_inode, count |-> f.node_count])
    /\ UNCHANGED <<st, archive, phase, fd, scan, leaked, calls>>

\* tmpfs_create refuses, perhaps because another thread was first with the
\* name, or has no memory for the node: vfs_create gives the parent back.
CreateFails(p) ==
    /\ op[p].at = "parent"
    /\ ~DirLocked(op[p].v)
    /\ st' = vnode_release(st, op[p].v)
    /\ op' = [op EXCEPT ![p] = Idle]
    /\ UNCHANGED <<archive, phase, fd, scan, leaked, raced, calls>>

CreateDone(p) ==
    /\ op[p].at = "create"
    /\ \E o \in {op[p]} :
       \E r \in {CreateEnd(st, o.v, o.name, o.type, o.inode, o.count)} :
          st' = r.s /\ fd' = [fd EXCEPT ![p] = r.v]
    /\ op' = [op EXCEPT ![p] = Idle]
    /\ UNCHANGED <<archive, phase, scan, leaked, raced, calls>>

\* vfs_mount of another tmpfs: the mount point, of any type, is looked up and
\* held.
MountLookup(p) ==
    /\ Begin(p) /\ NodeRoom
    /\ Len(st.vfs) + Len(leaked) + Making({"mount"}) < MaxFs
    /\ "tmpfs" \in st.types
    /\ \E path \in Paths :
       \E r \in {vfs_lookup(st, st.root, path, FALSE)} :
          /\ r.rc = 0
          /\ st' = r.s
          /\ op' = [op EXCEPT ![p] = [at |-> "mount", v |-> r.v]]
    /\ UNCHANGED <<archive, phase, fd, scan, leaked, raced>>

\* The new file system, private until it is attached, takes over the hold on
\* the mount point, whatever others have mounted there meanwhile.
MountDone(p) ==
    /\ op[p].at = "mount"
    /\ st' = vfs_mount(st, op[p].v)
    /\ op' = [op EXCEPT ![p] = Idle]
    /\ UNCHANGED <<archive, phase, fd, scan, leaked, raced, calls>>

\* tmpfs_mount has no memory: vfs_mount returns with the mount point held.
MountFails(p) ==
    /\ op[p].at = "mount"
    /\ leaked' = Append(leaked, op[p].v)
    /\ op' = [op EXCEPT ![p] = Idle]
    /\ UNCHANGED <<st, archive, phase, fd, scan, raced, calls>>

\* The loops of sdi_read_file and sdi_load_drivers: the next chunk at the
\* offset reached so far, until nothing comes back.
Scan(p) ==
    /\ phase = "run" /\ fd[p] # Null /\ op[p] = Idle /\ ~scan[p].done
    /\ LET v    == fd[p]
           off  == Len(scan[p].got)
           more == IF IsDir(st, v) THEN vfs_getdents(st, v, off, Chunk)
                   ELSE vfs_read(st, v, off, Chunk)
           mark == IF IsDir(st, v) THEN st.node[v].kids ELSE Contents(st.node[v])
       IN  /\ IF IsDir(st, v) THEN ~DirLocked(v) ELSE ~SizeLocked(v)
           /\ scan' = [scan EXCEPT ![p] =
                  [got |-> @.got \o more, mark |-> IF @ = NoScan THEN mark ELSE @.mark,
                   done |-> more = <<>>, dirty |-> @.dirty]]
    /\ UNCHANGED <<st, archive, phase, fd, op, leaked, raced, calls>>

Step(p) == \/ Open(p) \/ OpenFails(p) \/ Truncate(p) \/ Close(p)
           \/ WriteAt(p) \/ WriteLock(p) \/ WriteStore(p)
           \/ CreateLookup(p) \/ CreateLock(p) \/ CreateFails(p) \/ CreateDone(p)
           \/ MountLookup(p) \/ MountDone(p) \/ MountFails(p) \/ Scan(p)

Next == Boot \/ \E p \in Procs : Step(p)

Spec == Init /\ [][Next]_vars

-----------------------------------------------------------------------------
(* Properties.                                                             *)

\* vnode_hold and vnode_release balance over every path through vfs.c but
\* one: a vnode's count is the number of threads that have it open or are in
\* a call on it, plus one if it is the root of a file system, plus one for
\* each file system mounted on it, also when two threads mount at once.  The
\* exception is a vfs_mount that fails after its look-up, which never gives
\* the mount point back.
RefsExact ==
    \A v \in DOMAIN st.node :
        st.node[v].refcount =
            Cardinality({p \in Procs : fd[p] = v /\ op[p].at # "trunc"})
            + Cardinality({p \in Procs : /\ op[p].at \in {"trunc", "parent", "create", "mount"}
                                         /\ op[p].v = v})
            + Cardinality({f \in DOMAIN st.vfs : st.vfs[f].root = v})
            + Cardinality({f \in DOMAIN st.vfs : st.vfs[f].covered = v})
            + Cardinality({i \in DOMAIN leaked : leaked[i] = v})

\* The directories form a tree with one name per child: two threads that
\* have looked up the same directory and create the same name in it do not
\* both succeed, and nothing that was created is lost from its parent's list,
\* whatever is mounted over it meanwhile.
TreeSound ==
    /\ \A d \in DOMAIN st.node : LET kids == st.node[d].kids IN
          /\ \A i, j \in DOMAIN kids : st.node[kids[i]].name = st.node[kids[j]].name => i = j
          /\ \A i \in DOMAIN kids : st.node[kids[i]].parent = d
          /\ kids # <<>> => IsDir(st, d)
    /\ \A v \in DOMAIN st.node : LET u == st.node[v].parent IN
          IF u = Null THEN \E f \in DOMAIN st.vfs : st.vfs[f].root = v
          ELSE u < v /\ v \in Members(st.node[u].kids) /\ st.node[u].vfs = st.node[v].vfs

\* What statfs reports is right and inode numbers are unique within a file
\* system, as long as no two threads were inside the counters of one file
\* system at the same time (their locks do not exclude each other).
CountersExact ==
    ~raced => \A f \in DOMAIN st.vfs :
        LET mine == {v \in DOMAIN st.node : st.node[v].vfs = f}
            sum[S \in SUBSET mine] ==
                IF S = {} THEN 0
                ELSE LET v == CHOOSE x \in S : TRUE IN st.node[v].size + sum[S \ {v}]
        IN  /\ st.vfs[f].node_count = Cardinality(mine)
            /\ st.vfs[f].byte_count = sum[mine]
            /\ \A u, v \in mine : st.node[u].inode = st.node[v].inode => u = v

\* A listing that has reached its end has reported every entry that was
\* there when it began, although others were created meanwhile; a file read
\* chunk by chunk is read whole if it was not written meanwhile.
ScanComplete ==
    \A p \in Procs : scan[p].done =>
        IF IsDir(st, fd[p]) THEN Members(scan[p].mark) \subseteq Members(scan[p].got)
        ELSE ~scan[p].dirty => scan[p].got = scan[p].mark

\* After the archive is unpacked every entry is found under its name, with
\* its type and contents (for names that end in a real component).
ArchiveReadable ==
    [][phase = "boot" /\ phase' = "run" =>
        \A i \in DOMAIN archive :
            LET e    == archive[i]
                path == initrd_normalize_path(e.name)
                v    == vfs_lookup(st', st'.root, path, FALSE).v
            IN  e.kind \in {REG, DIR} /\ path # <<>> /\ path[Len(path)] \notin {".", ".."} =>
                    /\ v # Null
                    /\ e.kind = REG => /\ st'.node[v].type = REG
                                       /\ Contents(st'.node[v]) = [k \in 1..e.size |-> 1]]_vars

content == [v \in DOMAIN st.node |-> Contents(st.node[v])]

F == INSTANCE Files WITH Bytes <- {1}

\* The buffers with their capacities, stale tails and clearing implement
\* plain byte sequences.
ImplementsFiles == F!FilesSpec
=============================================================================
