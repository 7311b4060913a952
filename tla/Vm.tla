--------------------------------- MODULE Vm ---------------------------------
(***************************************************************************)
(* The address spaces of kernel/src/mm/vmm.c and the processes of          *)
(* kernel/src/sys/sched.c that own them.                                   *)
(*                                                                         *)
(*   m          the memory state of modules Paging and Vmm                 *)
(*   proc_list  the processes [pid, user, vas] that are linked: user is    *)
(*              PROC_IS_USER; vas is KERNEL for kernel_vas, UNSET until    *)
(*              spawn_proc has made the space of a user process            *)
(*   next_pid   where the search for a pid starts                          *)
(*   dying      the address spaces of processes that are unlinked, before  *)
(*              sched_free_proc destroys them                              *)
(*   calls      counts the steps, for the bound                            *)
(*                                                                         *)
(* The callers of vmm.h are outside this tree: they are any sequence of    *)
(* its calls on spaces that are not dying.  One call is one step, since no *)
(* two threads use the same space and the pages' counts are atomic.        *)
(***************************************************************************)
EXTENDS Vmm

CONSTANTS
    Spaces,          \* addresses for vas_t
    Ram,             \* pages for the allocator
    Room,            \* vad_t and vas_t that the heap has room for
    Places,          \* arguments [hint, n, fixed] of the mapping calls
    Kinds,           \* their flags [w, shared]
    Ranges,          \* arguments <<lo, hi>> of the other calls
    Values,          \* what is written to a page
    SCHED_PID_MIN, SCHED_PID_MAX,
    MaxLeaked,       \* bound: references lost by vas_map_phys
    MaxCalls         \* bound: calls in a behaviour

VARIABLES m, proc_list, next_pid, dying, calls
vars == <<m, proc_list, next_pid, dying, calls>>

KERNEL == "kernel"
UNSET  == "unset"

Pages == Ram \cup Buffer \cup Reserved
Live  == {a \in Spaces : m.vas[a] # NONE}
Owned == {p.vas : p \in proc_list} \cap Spaces
Calls == Live \ dying       \* the spaces a caller may use

Init ==
    /\ m = [ram  |-> [p \in Pages |-> [ref |-> IF p \in Buffer THEN 1 ELSE 0,
                                       cow |-> FALSE, val |-> 0]],
            vas |-> [a \in Spaces |-> NONE], left |-> Room,
            leaked |-> [p \in Buffer |-> 0], opened |-> {}, mixed |-> {}, panic |-> "no"]
    /\ proc_list = {}
    /\ next_pid = SCHED_PID_MIN
    /\ dying = {}
    /\ calls = 0

-----------------------------------------------------------------------------
(* Calls of vmm.h.                                                         *)

Becomes(n) == m' = n /\ UNCHANGED <<proc_list, next_pid, dying>>

Create(a) == a \notin Live /\ Becomes(vas_create(m, a).m)

\* A space that no process owns.
Destroy(a) == a \in Calls \ Owned /\ Becomes(vas_destroy(m, a))

Clone(src, dst) == src \in Calls /\ dst \notin Live /\ Becomes(vas_clone(m, src, dst).m)

MapAnon(a) ==
    /\ a \in Calls
    /\ \E at \in Places, k \in Kinds :
           Becomes(vas_map_anon(m, a, at.hint, at.n, at.fixed, k.w, k.shared))

\* The pages of a device, or of a buffer that another part of the kernel has.
MapPhys(a) ==
    /\ a \in Calls
    /\ \E at \in Places, k \in Kinds, first \in Buffer \cup Reserved :
           /\ \A i \in 1..(at.n - 1) : first + i \in Buffer \cup Reserved
           /\ \A p \in Buffer : m.leaked[p] < MaxLeaked
           /\ Becomes(vas_map_phys(m, a, at.hint, first, at.n, at.fixed, k.w, k.shared))

Unmap(a) == a \in Calls /\ \E r \in Ranges : Becomes(vas_unmap(m, a, r[1], r[2]))

Protect(a) ==
    a \in Calls /\ \E r \in Ranges, w \in BOOLEAN : Becomes(vas_protect(m, a, r[1], r[2], w))

\* The use that vas_user_access_ok is for: check a range of pages, then write
\* to it, if only to its first pages.
Written(r, a, lo, hi, v) ==
    IF ~r.ok THEN r.m
    ELSE FoldLeft(LAMBDA g, va : [g EXCEPT !.ram[PageAt(g, a, va)].val = v], r.m, Addrs(lo, hi))

CopyOut(a) ==
    /\ a \in Calls
    /\ \E r \in Ranges, v \in Values : \E hi \in r[1]..r[2] :
           Becomes(Written(vas_user_access_ok(m, a, r[1], r[2]), a, r[1], hi, v))

-----------------------------------------------------------------------------
(* Processes.                                                              *)

Pids == SCHED_PID_MIN..SCHED_PID_MAX
InUse == {p.pid : p \in proc_list}
After(pid) == IF pid + 1 > SCHED_PID_MAX THEN SCHED_PID_MIN ELSE pid + 1

\* The pids in the order in which sched_alloc_pid tries them.
Order(first) == [i \in 1..Cardinality(Pids) |->
                    SCHED_PID_MIN + ((first - SCHED_PID_MIN + i - 1) % Cardinality(Pids))]

\* Variant: the search gives up before it has tried the last pid.
AllocGivesUp(first, used) ==
    LET tries == Front(Order(first))
        good  == SelectInSeq(tries, LAMBDA p : p \notin used)
    IN  IF good = 0 THEN [pid |-> 0, next |-> first] ELSE [pid |-> tries[good], next |-> After(tries[good])]

\* sched_alloc_pid: the pid, 0 for SCHED_INVALID_PID, and the new next_pid.
sched_alloc_pid(first, used) ==
    LET tries == Order(first)
        good  == SelectInSeq(tries, LAMBDA p : p \notin used)
    IN  IF good = 0 THEN [pid |-> 0, next |-> first] ELSE [pid |-> tries[good], next |-> After(tries[good])]

\* spawn_proc up to the unlock of proc_lock.  Any process may be given a
\* space, which is one that no process has; without one a kernel process gets
\* kernel_vas and a user process a space of its own.
SpawnLink(user, vas) ==
    /\ vas \in {KERNEL} \cup (Calls \ Owned) \cup (IF user THEN {UNSET} ELSE {})
    /\ \E r \in {sched_alloc_pid(next_pid, InUse)} :
           /\ next_pid' = r.next
           /\ proc_list' = IF r.pid = 0 THEN proc_list
                           ELSE proc_list \cup {[pid |-> r.pid, user |-> user, vas |-> vas]}
    /\ UNCHANGED <<m, dying>>

\* The rest of spawn_proc for a user process without a space.
SpawnSpace(p, a) ==
    /\ p.vas = UNSET /\ a \notin Live
    /\ \E r \in {vas_create(m, a)} :
           /\ m' = r.m
           /\ proc_list' = (proc_list \ {p}) \cup (IF r.ok THEN {[p EXCEPT !.vas = a]} ELSE {})
    /\ UNCHANGED <<next_pid, dying>>

\* sched_free_proc: the pid is free before the space of a user process is
\* destroyed; the space that a kernel process was given stays.
FreeProc(p) ==
    /\ p.vas # UNSET
    /\ proc_list' = proc_list \ {p}
    /\ dying' = IF p.user THEN dying \cup ({p.vas} \cap Spaces) ELSE dying
    /\ UNCHANGED <<m, next_pid>>

DestroySpace(a) ==
    /\ a \in dying
    /\ m' = vas_destroy(m, a)
    /\ dying' = dying \ {a}
    /\ UNCHANGED <<proc_list, next_pid>>

Next ==
    /\ m.panic = "no" /\ calls < MaxCalls /\ calls' = calls + 1
    /\ \/ \E a \in Spaces : \/ Create(a) \/ Destroy(a) \/ MapAnon(a) \/ MapPhys(a)
                            \/ Unmap(a) \/ Protect(a) \/ CopyOut(a)
       \/ \E src, dst \in Spaces : Clone(src, dst)
       \/ \E user \in BOOLEAN, vas \in {KERNEL, UNSET} \cup Spaces : SpawnLink(user, vas)
       \/ \E p \in proc_list : FreeProc(p) \/ \E a \in Spaces : SpawnSpace(p, a)
       \/ \E a \in Spaces : DestroySpace(a)

Spec == Init /\ [][Next]_vars

-----------------------------------------------------------------------------
(* Properties.                                                             *)

Vads(a) == ToSet(m.vas[a].vads)

\* Every reference to a page is one entry, one table, the buffer's owner or
\* a leak of vas_map_phys, through every failure half way: so no page is
\* freed while it is mapped or twice, and none is lost.  (uncommit_range,
\* commit_anon, vas_clone, ptable_destroy, pmm_free)
PageRefsExact ==
    LET tables(p) == {<<a, t>> \in UNION {{a} \X DOMAIN m.vas[a].tabs : a \in Live} :
                          m.vas[a].tabs[t] = p}
        roots(p)  == {a \in Live : m.vas[a].root = p}
    IN  /\ m.panic # "double-free"
        /\ \A p \in Ram \cup Buffer :
               m.ram[p].ref = Cardinality(Mappers(m, p)) + Cardinality(tables(p))
                              + Cardinality(roots(p))
                              + (IF p \in Buffer THEN 1 + m.leaked[p] ELSE 0)

\* The vads of a space are in order, apart and in the user half, and an
\* address is mapped exactly when it is in one of them, which is also what
\* vas_range_mapped finds for every range; the heap gets back every vad and
\* space.  (vad_insert, vad_remove_range, vas_overlaps, vas_find_free,
\* vas_unmap, vas_range_mapped)
VadsSound ==
    m.panic = "no" =>
    /\ \A a \in Live :
        LET vads == m.vas[a].vads
        IN  /\ \A i \in DOMAIN vads : vads[i].start < vads[i].end /\ vads[i].end <= VAS_USER_END
            /\ \A i \in 2..Len(vads) : vads[i - 1].end <= vads[i].start
            /\ DOMAIN m.vas[a].pte = UNION {Covered(d) : d \in Vads(a)}
            /\ \A lo \in VAS_USER_START..(VAS_USER_END - 1) : \A hi \in (lo + 1)..VAS_USER_END :
                  vas_range_mapped(vads, lo, hi) <=> lo..(hi - 1) \subseteq DOMAIN m.vas[a].pte
    /\ m.left + FoldSet(LAMBDA a, n : n + 1 + Len(m.vas[a].vads), 0, Live) = Room

\* An address has the access its vad says, apart from those that a partial
\* vas_protect has split: a page of a read-only vad cannot be written, and a
\* private page of a writable one can, at once or through
\* vas_handle_page_fault.  (vas_clone, vas_protect, vas_handle_page_fault)
Resolvable ==
    \A a \in Live : \A d \in Vads(a) : \A va \in Covered(d) \cap DOMAIN m.vas[a].pte :
        <<a, va>> \notin m.mixed =>
            IF d.w /\ ~d.shared THEN Writable(m, a, va) \/ m.ram[PageAt(m, a, va)].cow
            ELSE d.w = Writable(m, a, va)

Private == {<<a, va>> \in UNION {{a} \X DOMAIN m.vas[a].pte : a \in Live} :
               /\ <<a, va>> \notin m.opened
               /\ \E d \in Vads(a) : va \in Covered(d) /\ d.anon /\ ~d.shared}

Abstract == INSTANCE Memory WITH Addresses <- VAS_USER_START..VAS_USER_END,
                                 view <- [x \in Private |-> m.ram[PageAt(m, x[1], x[2])].val]

\* Private anonymous memory behaves as module Memory says, whatever pages
\* are shared, copied and reused underneath, unless vas_protect or a clone
\* has made one writable that is still shared.  (vas_clone,
\* vas_handle_page_fault, commit_anon)
ImplementsMemory == Abstract!Spec

\* Linked processes have distinct pids, their spaces are alive and owned by
\* one process, and a pid is refused only when none is free.
\* (sched_alloc_pid, spawn_proc, sched_free_proc)
PidsSound ==
    /\ \A p \in proc_list : p.pid \in Pids
    /\ \A p, q \in proc_list : p # q => p.pid # q.pid /\ (p.vas \in Spaces => p.vas # q.vas)
    /\ Owned \cup dying \subseteq Live
    /\ Owned \cap dying = {}
    /\ next_pid \in Pids
    /\ sched_alloc_pid(next_pid, InUse).pid = 0 <=> InUse = Pids
=============================================================================
