# Verification of the alix kernel

alix is a small x86-64 SMP kernel written in C (`kernel/`), with one loadable
driver (`drivers/ps2`). This directory holds TLA+ models of its core, the TLC
configurations that check them on small instances, and TLAPS proofs for
instances of every size.

## The system

| component | state | operations | used by |
|---|---|---|---|
| run queue, `lib/rq.c` | head, tail, len; next/prev/data of the nodes | push, pop, remove, find, rotate, clear | scheduler, mutex |
| scheduler, `sys/sched.c` | per CPU: run queue, zombie queue, current thread, thread count, lock; per thread: status, ticks left, CPU, saved stack pointer | spawn, tick, yield, block, wake, exit, reap | timer interrupt, mutex, all threads |
| mutex, `lib/mutex.c` | guard spinlock, owner, waiters | lock, try_lock, unlock | vfs, tmpfs |
| page allocator, `mm/pmm.c`, `mm/pfndb.c` | page database, free lists, free count | alloc, free, reference | heap, page tables, vmm |
| heap, `mm/kheap.c` | slab caches, large blocks | kmalloc, kfree, krealloc | everyone |
| address spaces, `mm/vmm.c`, `mm/paging.c` | areas, page tables, copy-on-write state | map, unmap, protect, clone, fault | processes, drivers |
| vfs, tmpfs, initrd, `fs/` | vnodes with reference counts, mounts, file data | open, walk, read, write, create, getdents | drivers loader, boot |
| SDI, `sdi/` | driver registry, instances, interrupt bindings | register, probe, attach, start, stop, unregister | drivers |
| processes and pids, `sys/sched.c` | process list, next pid, threads per process | spawn_proc, release with the last thread | scheduler |
| log, timer, SMP start, `log/`, `sys/timer.c`, `cpu/` | ring and lock; calibration; CPU table | write; calibrate; start | everyone |

What is hard here: CPUs call into each other's queues (spawn, wake) while the
owner switches; the timer interrupts everything, and no lock disables
interrupts; a stack is freed by the code that may still be running on it; the
mutex hands ownership to a sleeping thread and wakes it after dropping its
guard; the page allocator decides by flags it leaves stale in merged blocks; a
clone of an address space can fail at every page; file system counters belong
to no lock; interrupts fall between the steps that bind or release their line.
`PROJECT.json` lists each of these hazards at its line together with the
properties that watch it.

## Modules

* `Queue` says what a queue promises (a sequence per `rq_t`); `Rq` models
  `rq.c` pointer by pointer and is checked to implement `Queue`. Each `rq_*`
  function is an operator from a list to a list, so `rq_rotate` and `rq_remove`
  are compositions as in C. The push actions require that the node is not
  linked: `rq.c` does not check that, so it is an obligation of callers, and
  `OnePlace` and `Enqueue` discharge it for the scheduler and the mutex. A
  walk along the links is the node sequence that starts at the head, follows
  them and ends at NULL.
* `QueueOps` holds the sequence operators that the other models use for queues.
* `Sched` models the scheduler. A section under `sched_lock` is one step; the
  interval between the unlock and `context_switch` is not, and the model keeps
  what a CPU executes (`stack`, `pend`, the saved contexts `ctx`) apart from
  what `current_thread` says. `intr` is the interrupt flag: `context_switch`
  does not save it, so a voluntarily saved context resumes with whatever flag
  the CPU has. `sched_tick` is the whole handler, reaping included.
  `TickInWindow` says whether the timer may fall into that interval.
* `FifoLock` is the lock a caller of `mutex.c` expects: exclusive, in order of
  queueing, no barging. `Mutex` models every shared access of `mutex.c` as a
  step of its own, with the scheduler seen through `thread_block_current` (for
  the idle thread it returns at once, without releasing the guard) and
  `thread_wake`. `ExternalWakes`, `Misuse` and `IdleCtx` widen the environment.
* `Pmm` models the buddy allocator over the page database: flags, order and
  reference count of every page are written exactly where the code writes
  them, so pages inside blocks carry stale values. The loops of `pmm_init`,
  `free_block` and `pmm_alloc` take a step for each iteration: `boot` is the
  page `pmm_init` has come to, `hand` the block that the running call merges or
  splits, and nothing comes between the steps of a call. The invariants hold
  after every iteration. The variable `owned` is what callers hold, and is not
  in the code; `stale` remembers freed blocks when `DoubleFrees` is on.
* `PageRuns` and `PageAlloc` say what the page allocator promises, an aligned
  run of pages that nobody else holds; `Pmm` is checked to implement it, and
  the heap below is built on it rather than on the buddy lists.
* `Kheap` models `kheap.c`: slab caches with their partial and full lists, the
  free list in a page, large blocks with their header and tag, and how `kfree`
  finds out which of them a pointer is. The loop of `slab_cache_destroy` is
  `slab_destroy` on the set of the cache's slabs, whose order makes no
  difference. `Elf` is the placement of a driver's sections (`elf.c`), one turn
  of its loop per section, with sums modulo `Word` as in the code. `Heap` composes them: callers of `kmalloc`,
  `krealloc` and `kfree`, the owner of a private cache, the drivers' aligned
  allocator of `sdi/host.c` and the driver loader, over one page allocator.
* `Tmpfs`, `Vfs` and `Initrd` model `fs/` as functions on one state of nodes
  and mounts: capacity and size of a file apart, sibling lists newest first,
  references taken and dropped where the code does it. `Fs` lets the boot CPU
  unpack an archive, with memory that may run out, and then threads use files at
  the same time: a write fixes its offset before it takes the lock, a create
  looks its parent up before it locks it, a mount attaches to what it looked up
  under no lock, and the counters of a file system are read in one step and
  written in another. `Files` says what file contents are.
* `Paging` and `Vmm` model `paging.c` and `vmm.c` as functions on one state of
  pages, tables and areas. `Vm` has one action per call, the pids and processes
  of `sched.c` that own address spaces, and the write through
  `vas_user_access_ok`. A user process is given a space of its own, or one that
  exists; with its last thread the space is destroyed, whereas a kernel process
  leaves the space it was given alive. `Memory` says what private memory is: a
  write changes the pages of its range and nothing else, a clone starts as a
  copy, and an address that becomes mapped is empty.
* `Registry` models the table of `sdi/sdi.c`, hooks that register another
  driver included, and such hooks that fail afterwards. `Sdi` composes it with the host calls, the vector table, the
  I/O APIC and drivers like `drivers/ps2`: binding a line takes three steps,
  releasing it three, and interrupts come between any two of them. `sti` is the
  CPU's interrupt flag: `kmain` sets it, a context switch may leave it clear.
  Loops over the table are sets of slots and their first element.
* `MC*` are the instances; the modules whose names end in `Proofs` hold the
  proofs, `ProofFacts` what they share about numbers and queues.

In every module an operator introduced by "Variant" or "A slip" is a plausible
bug of the operator that follows it; replacing one by the other makes the
property named in `PROJECT.json` fail.

Some variables and fields are not in the code and remember what a property has
to know. `owned`, `held`, `live`, `parts` say what callers hold. `leaked`,
`overrun`, `opened`, `mixed`, `lost`, `missed`, `stuck` and `raced` mark known losses, each
described under "Observations", so that a property can be exact about
everything else; a loss by any other way violates it.

## Runs

| run | instance | what it shows |
|---|---|---|
| `rq` | 2 lists, 3 nodes, 2 data values | `SoundLists`, `UnlinkedIsBare`, `ImplementsQueue` |
| `sched` | 2 CPUs, 3 threads, quantum 2, symmetric threads | `TypeOK`, `OnePlace`, `Coherent`, `StackInUse`, `Resumable`, `CountIsExact`, `ZombieNotResumed` |
| `sched_live` | 2 CPUs, 2 threads, fair | `NoStarvation` |
| `sched_window` | as above, tick in the window | `ZombieNotResumed` is violated |
| `mutex` | 3 threads, correct callers | `NoLostWakeup`, `NoPanic`, `ImplementsFifoLock`, `NoDeadlock` |
| `mutex_wakes` | 3 threads, one of them idle, foreign wake-ups, misuse | `MutualExclusion`, `NoLostWakeup` |
| `pmm` | 8 pages and the database's last entry, orders 0..2, 2 references, 3 memory maps | `Partition`, `FailsOnlyWhenFull`, `HeldIsUsed`, `ImplementsPageAlloc` |
| `pmm_double` | the same, blocks may be freed twice | `DoubleFreeCaught` is violated |
| `heap` | 3 pages of 8 units, 2 size classes, a private cache, 7 driver images, words modulo 64, 4 live blocks | `Disjoint`, `SlabsSound`, `Accounted`, `UsersFit` |
| `fs` | 2 threads, 5 calls, 6 nodes, 3 file systems, files of 2 bytes, 4 archives, memory for 2, 3, 4 or 9 allocations at boot | `RefsExact`, `TreeSound`, `CountersExact`, `ScanComplete`, `ImplementsFiles`, `ArchiveReadable` |
| `vm` | 2 address spaces of 3 pages, 8 page frames, 2 pids, room for 4 heap objects, 6 calls | `PageRefsExact`, `VadsSound`, `Resolvable`, `PidsSound`, `ImplementsMemory` |
| `sdi` | 1 line, 2 keyboards that want it, a bus driver, an unsupported driver, 2 slots, 4 handles | `RegistrySound`, `HandlerLive`, `LinesSound`, `IrqServed` |

Bounds. Three nodes give every position in a list (only, first, middle, last)
and two lists every way of confusing them. Three threads on two CPUs give a
running thread, one that waits behind it and one that another CPU wakes or
spawns in the window; each tcb has one lifetime, which is no loss because a
freed tcb is never reached again (`StackInUse`, `OnePlace`). Three threads on
one mutex give an owner, a first and a second waiter, hence a hand-off during
which a third queues. Eight pages with three orders give merges over two
levels, a hole, unaligned ends and a buddy that is the reserved last entry.
`MaxRef` bounds the references to a block. Eight units in a page give a class
with several objects in a slab, one whose slabs hold a single object, and
blocks of one, two and four pages, of which the three pages cannot always serve
the last two; a word of 64 makes the sums of an image wrap where the code sees
it, in the alignment and in the size of the block; `MaxLive` bounds what is in use, so a slab can become empty, full
and empty again. Five calls of two threads on nodes two deep give two writes, a
truncation and a listing of one file or directory. The archive that unpacks
leaves four nodes, so six are room for two creates or mounts at a time: both
threads look up one directory and create the same new name in it ("c", which
the archive has only as a special file), one creates under a vnode on which the
other mounts, or both mount on one vnode; `MaxSize` two with a first capacity
of one makes buffers grow. Memory for two to four allocations makes the
unpacking fail at a directory, at a file and at its data. Six calls of `vm` are
enough for a space to be created, filled, written, cloned and written on both
sides, and `Room` and eight frames for every allocation of a call to be the one
that fails; two pids wrap and run out. Two drivers on one line give a busy line and
a take-over; with `MaxHandle` a driver is loaded, unregistered and loaded
again. These bounds limit histories, so the four runs show the absence of
short counterexamples, not more.

Fairness. `Sched`: the timer of a CPU keeps firing while its interrupt flag is
set, and code that has reached `context_switch` executes it; nothing is assumed
of threads. `NoStarvation` has the premise that the flag of the CPU is set
again and again, because the code does not guarantee it (see below). `Sdi`: the
processor takes an interrupt that is again and again pending, unblocked and
enabled (strong fairness, because a context switch can clear the interrupt flag
in between); `IrqServed` has the premise that the flag keeps being set, for the
same reason as `NoStarvation`; nothing is assumed of devices or callers.
`Mutex` has no fairness: the test-and-set guard of `spinlock.h` has no queue,
and a thread that was resumed with interrupts off can spin for ever on a guard
whose holder was preempted on the same CPU. That a lock is granted is therefore
not claimed; `NoDeadlock` says what the code does ensure, that whoever waits
waits for a thread that can go on.

`sched`, `mutex` and `pmm` check for deadlock as well. `mutex_wakes` does not:
misuse ends in `kpanic`, and an idle caller spins on the guard it holds. Nor do
`heap`, `fs`, `vm` and `sdi`: their bounds, a panic, or a machine on which
nobody calls end a behaviour.

## Findings

* `sched_window`: `sched_exit` releases the lock and then switches, with
  interrupts on. A tick in between reaps the exiting thread under the CPU's
  feet and may save that continuation as the context of the thread that
  `current_thread` already names; the CPU later continues on the dead thread's
  stack, which the `kpanic` after the switch ("sched: zombie thread resumed")
  says never happens. The same window follows the unlock in
  `sched_run_next_locked`.
* `pmm_double`: `pmm_free` recognises a double free by `PAGE_FREE`, but that
  flag is only set on the head of a merged block; a second free of an upper
  half passes and makes its reference count negative.

## Observations

What modelling showed about the code, where no document says otherwise:

* A write in the middle of a file ends the file behind it: `tmpfs_write` always
  resizes to `offset + size`. `Files` states it so. Two appends that read the
  size before either has the lock overwrite each other.
* `byte_count`, `node_count` and `next_inode` of a tmpfs are updated under
  locks of different nodes; after an overlap they can stay wrong (`raced`).
* A created vnode's first reference belongs to the creator, and nodes are never
  freed: `tmpfs_inactive` does nothing.
* `vas_map_phys` keeps the reference to the page whose mapping failed
  (`leaked`).
* `vas_protect` gives the requested access to pages that are still shared
  (`opened`), and records the new flags for a whole area although it has
  changed only the pages in the range (`mixed`).
* A page fault is an exception and panics; copy-on-write pages are resolved
  only through `vas_user_access_ok`. The callers of `vmm.h` are not in the tree.
* A driver whose init hook registers another one overwrites its entry (`lost`).
* The loader forgets an instance whose start failed; its memory stays.
* An edge that comes while the line is masked is gone, and the byte stays in
  the device until the next (`missed`).
* A vector without callback is dismissed without an EOI, so an interrupt that
  was pending when its line was released blocks the lines of its priority
  class (`stuck`) until somebody acknowledges.
* `sdi_elf_prepare_sections` keeps its tables when a later step fails. It
  checks the sum of offset and size of a section but neither the rounding up to
  the section's alignment nor `total + max_align - 1`: with sections that add up
  to almost 2^64 the block is smaller than what is cleared, or a section is
  placed over an earlier one. `kmalloc` computes its block from the size in the
  same way, in a loop that does not end for the largest sizes (`overrun`).
* `vfs_mount` keeps its hold on the mount point when the mount callback fails
  (`leaked` of `Fs`).
* A driver whose init hook registers another one and then fails leaves the
  other one registered.

## Proofs

`MutexProofs`, for every set of threads:
`IInv` joins the types, who holds the guard (`GuardInv`), what may be in the
queue (`QueueInv`: no duplicates, never the owner) and who may sleep
(`SleepInv`) with `MutualExclusion` and `NoLostWakeup`, which are not inductive
alone: that a woken waiter is not queued needs the queue facts, and those need
the guard to be exclusive. From it follow `MutexMutualExclusion` and
`MutexNoLostWakeup` without any assumption on callers,
`MutexImplementsFifoLock` for callers that lock and unlock in turn, and
`MutexNoPanic` if moreover only `mutex_unlock` wakes threads. The second
assumption is needed: a foreign wake-up sends a waiter back to the loop, and
if it is made the owner there it panics over "recursive locking".
`MutexNoDeadlock` assumes both and that no caller is an idle thread. It rests on
`HolderInv`, that the guard's holder is at a statement that does not wait, so a
spinning thread waits for one that can go on; a sleeper waits for the owner,
and an owner that still sleeps waits for the thread that is about to wake it.

`SchedProofs`, for every number of CPUs, threads and every quantum:
* `SchedOnePlace`: `TypeOK /\ OnePlace` is inductive as it stands, also with
  ticks in the window. The argument is the same for yield, block, exit and
  tick: `Entered` describes the queues when `sched_run_next_locked` begins,
  `DispatchInductive` shows that it restores `OnePlace`.
* `SchedCoherent`, `SchedStackInUse`, `SchedResumable`,
  `SchedZombieNotResumed` assume `~TickInWindow`. `MachInv` strengthens
  `OnePlace` and `Coherent` by: a pending switch leaves a thread of its own
  CPU, a zombie only in `sched_exit` (`PendInv`); idle threads stay RUNNING
  (`IdleInv`); every living thread that is on no CPU has an unused context of
  its own (`CtxInv`). `ResumeMach` and `LeaveMach` treat the two ways the
  machine state changes. The assumption cannot be dropped (`sched_window`).

* `SchedTypeOK` is part of the first; `SchedCountIsExact` counts the unfinished
  threads of each CPU through every step (`ThreadsFinite`: a count of an
  infinite set means nothing).

`RqProofs`, for every finite set of nodes and any lists and data:
`Chain` says that a list's head, tail, length and both links spell a sequence
of distinct nodes, `Frame` that an operation writes no link outside the given
nodes, `Bare` that it leaves none in a node it unlinks. Each `rq_*` function has
a lemma that it turns a chain into the chain its name promises. `RqInv` joins
the types, a chain for every list, disjoint lists and `UnlinkedIsBare`: one list
alone is not enough, for an operation on one must leave the links of the others.
From it follow `RqSoundLists`, `RqUnlinkedIsBare` and, step by step,
`RqImplementsQueue`.

`SdiProofs`, for any drivers, lines, instances and capacity (`CapacityNat`;
`DriversComplete`: drivers that pass the checks have the fields the code reads;
`NotNull`: 0 is no instance and no line): `SdiInv` is inductive.
`RegistryInv` adds to `RegistrySound` that handles grow and that the slots hold
accepted drivers. `TaskInv` says, for each step of a load, a start or a stop,
what has been done so far; `LineInv` and `RunInv` tie binding, vector and mask of
a line to the fields of its instance up to what the current step has yet to do.
`HandlerLive` and `LinesSound` are not inductive alone: that no vector outlives
its instance depends on the stop in progress. `SdiRegistrySound`,
`SdiHandlerLive` and `SdiLinesSound` follow. Handles do not wrap in the model;
in the code they would after 2^32 registrations.

`PmmProofs`, for every size of memory, every memory map and any number of
orders (`PmmAssumption`: the last entry of the database is not RAM). All four
theorems assume `~DoubleFrees`, which `pmm_double` shows to be needed.
`PmmInv` is inductive:
* `Tiles(Blocks, Reached)`: the listed, held and handled blocks are aligned and
  divide the pages that `pmm_init` has reached. Merging and splitting replace
  some blocks by others that divide the same pages (`TilesReplace`,
  `TilesHalves`). This rests on aligned runs being nested or disjoint
  (`RunsNest`) and on a block and its buddy being halves of one (`BuddyHalves`).
* `HeadInv`, `FlagInv`: a listed head is marked with its order, and a mark
  anywhere else lies inside a block that nobody holds. So the flags that
  `free_block` reads may be stale, and yet `MergeableIsListed`: a buddy that is
  marked free with the block's own order is the head of a listed block.
  `Partition` alone says nothing of flags and is not inductive.
* `BootInv` for the pages not yet reached, `RefInv`, `CountInv`, and
  `Coalesced`: no two buddies are on a list.

`PmmPartition` and `PmmHeldIsUsed` follow from the tiling and the flags.
`PmmFailsOnlyWhenFull`: in a free run without a block of its size take the
smallest block (`LeastNumber`); its buddy is free as well, in a block that is
not smaller, and so is its buddy as a block, against `Coalesced`.
`PmmImplementsPageAlloc`: `Take`, `page_ref_inc` and `pmm_free` are the steps of
`PageAlloc`; all others write only to pages that nobody holds (`SpareWrites`).

`HeapProofs`, for any memory, page size, size classes, request sizes and driver
images. `KheapAssumption` asks that a slab has room for one object and that the
header of a large block fits in a page. The first holds for the size classes of
`kheap.c` and is an obligation of who calls `slab_cache_create`: the code does
not refuse larger objects. `HeapInv` is inductive:
* `ListInv`, `SlabInv`: a slab is in the list that its free list calls for, and
  its live objects are those of its page that are not free. This is what
  `SlabsSound` counts; the count alone does not tell that the object which
  `slab_alloc` takes is nobody's.
* `LiveInv`, `LargeInv`: flag and private word of a page agree with what is
  live on it. `LargeInv` says it of pages that nobody uses, too: a tag left
  behind in a freed page would make `kfree` take a later slab for a large
  block.
* `HeldInv`: blocks of pages do not meet, so that what lies in two blocks is
  apart. Within a slab `SlotFacts` keeps the objects apart.
* `PartsInv`: the ranges that a client uses fit into its block. It is kept
  because a sum that the code does not check and that wraps sets `overrun`,
  after which there is no step; `LayoutLaid` shows that an image whose sums did
  not wrap is laid out in order, `Place` being computed modulo `Word`.

There is a lemma for what each function of `kheap.c` writes and one that
`kmalloc`, `kfree`, `krealloc` and the cache functions keep `Sound`; the
actions of `Heap` are sequences of these. `OrderFacts` shows that the loop of
`kmalloc` finds an order; `TurnsExist` and `LayoutLaid` follow the loop of
`sdi_elf_prepare_sections` by induction on a set of numbers, `SdiFit` the
arithmetic of `sdi_kernel_alloc`. From `HeapInv` follow `HeapSlabsSound`,
`HeapAccounted` and `HeapUsersFit`, and, through all the room that the heap has
set aside for a pointer (`Room`, the `old_size` of `krealloc`), `HeapDisjoint`.

`FsProofs`, for any threads, paths, archives, sizes and numbers of calls
(`FsAssumption`: finitely many threads, the archives and paths are sequences of
names, a read asks for something, the largest size is a number). `FsInv` is inductive; it consists of
`Sound`:
* `Shape`: the tables of nodes and mounts (`Form`), the children of a directory
  (`KidsOk`), and for every node its parent and what covers it (`NodeOk`). That
  the file system mounted on a node has a newer root is not part of
  `TreeSound`, but only therefore does `vfs_follow_mounts` come to an end.
* `OpOk`, `Lone`: where each thread is in its call. In a create the name that
  it found free stays free (`Free`), and it alone creates in that directory;
  `TreeSound` alone does not tell that the name is still unused when the node
  is linked.
* `RefsOk`: the reference count of a node is that of its holders: threads, the
  file system whose root it is, the file systems that cover it, and the failed
  mounts in `leaked`. A mount is a look-up and a later step that turns the
  caller's hold into that of the new file system (`MountTies`) or leaves it
  behind (`LeakSound`).

and of `Quiet`: while the archive is unpacked nobody holds anything. The steps
are sorted by what they do to the nodes: `Still` (nothing), `Moved` (one
reference more or less), `Filed` (contents and counters), `Born` (a node
linked). `Settle`, `BornSound`, `LeakSound` and `MountSound` show for each kind
that `Sound` is kept, if the calling thread accounts for the reference.
`Got` says what a path walk returns, an error with nothing held or a vnode with
one more reference, and `Calm` carries the balance through each function of
`initrd.c`, failures included. The recursive functions (`Tops`, `Steps`,
`EnsureTurns`, `UnpackTurns`) are followed by induction on a set of numbers.
`FsRefsExact` and `FsTreeSound` follow.

`FileInv` is inductive relative to `FsInv`: the buffer of every node holds its
file (`Sized`), a pending write fits (`CallOk`), and `ScanOk` for the loop each
thread is in. A listing goes on by position while new children are linked in
front, so every entry it began with is reported or lies at or after its position
(`ListScan`, `ScanKept`); a file that was not written has been read up to where
the loop is (`ReadScan`). Only O_TRUNC and a write change a byte
(`StepGrows`), and they tell the loops on that file (`EditedFiling`).
`DoubledOk` shows that the doubling of the capacity ends and is enough,
`ResizeFile` and `WroteFile` which bytes are left in a reused buffer.
`FsScanComplete` follows, and `FsImplementsFiles`: `RefineStep` maps a step to
one of `Files` or to none.

`CountInv` is inductive relative to both, and speaks of histories in which no
two threads met in the counters of a file system: then the counters are right
(`Counted`, with the next inode number above those in use), what a thread in a
truncation, a write or a create has read is still the present value (`Fresh`),
and no two such threads are in one file system (`Apart`). Without `Fresh` the
step that writes the counter back would not keep it right. The sizes are summed
by counting one cell per byte (`Cells`); `SumCells` shows by induction on the
number of files that the sum of `CountersExact`, in whatever order, is that
number. `CountedMore`, `CountedWritten` and `CountedMounted` follow a create, a
write or truncation, and a mount; `Calm` carries `Counted` through the boot
archive. `FsCountersExact` follows.

`ProofFacts` has the lemmas on queues, least elements, induction on a set of
numbers, multiples and powers of two.

Only model-checked:
* `ArchiveReadable` of `Fs`. It depends on what a recursive definition computes
  (which names there are after any archive), not only on what it preserves.
* `Vm`, whose calls are folds over ranges of addresses, about which the prover
  cannot induct.
* The liveness properties `NoStarvation` and `IrqServed`, since
  the prover handles neither fairness nor ENABLED.

## Assumptions and what is left out

* A locked section is one step. So the tick that interrupts code of its own
  CPU which holds `sched_lock`, and then spins on it for ever, is not modelled;
  neither is one in the middle of a `klog` call.
* `sched_reap` takes a zombie from the queue and frees it in one step. In the
  code the zombie belongs to the reaper alone in between.
* `thread_block` is called for the caller itself or for a thread that is
  waiting to run. For one that runs on another CPU the code only changes the
  status, and its next yield or a wake-up breaks the queues; one that has
  exited would be marked BLOCKED in the zombie queue. Nothing in the tree calls it. `sched_exit` is not
  called by the idle thread (it would panic).
* `spawn_thread` may pick any CPU, since the loads are sampled one by one.
  Failing allocations return without a state change.
* `Pmm` and `Heap` operations do not overlap; the code has no lock to enforce
  it. The heap takes any run the page allocator may give.
* A path walk is one step: entries are never removed, so a walk that meets a
  create or a mount is as good as one before or after it. `vfs_create` holds
  the lock of the directory from the search for the name to the link.
* The only call of `vfs_mount` in the tree mounts the root; the mounts by
  threads are those its interface offers, by path. A mount on a vnode without a
  path, of which the caller keeps the hold, is left out. What `tmpfs_mount`
  builds is private until it is attached, so that is one step. The descriptors
  of a thread are one.
* Address spaces are each used by one thread at a time. There is one level of
  page tables below the root; what the others add is more allocations that may
  fail. Translation caches are left out, and which free page is taken makes no
  difference to a property, so the first is. `vas_clone` is one step.
* Processes have no threads in `Vm`: a process is released at any time after it
  has its address space.
* In `Sdi` calls come from one thread on the CPU that takes the interrupts. A
  handler that still runs on another CPU while its instance is detached is not
  modelled. Start, stop and detach come in the order for which the drivers are
  written. After `sdi_shutdown` old handles are not used.
* Symbol look-up and relocation of drivers, scan code decoding and the hexadecimal
  fields of archives are left out: they transform bytes and keep no state.
* Not modelled: the flags of pages that no decision of the allocator reads,
  the thread list of a process, locks taken in interrupts, and the components marked `not_modelled` in
  `PROJECT.json`, each with its reason.

## Plan

1. Proofs: `PidsSound` of `Vm`.
2. The locks of the scheduler and of the log as variables, with interrupts that
   take them on the CPU that holds them.
3. The thread lists of processes, composed with `Sched`.
4. The calibration of the timer by several CPUs.
