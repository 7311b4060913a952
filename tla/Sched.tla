------------------------------- MODULE Sched -------------------------------
(***************************************************************************)
(* kernel/src/sys/sched.c: the per-CPU round-robin scheduler.              *)
(*                                                                         *)
(* Each CPU has a run queue, a zombie queue, a current_thread and a        *)
(* spinlock (sched_lock).  A thread is bound to one CPU when it is spawned *)
(* and never migrates, so its status, queue node and tick count are only   *)
(* touched under the lock of that CPU: a locked section is one step here.  *)
(*                                                                         *)
(* What is NOT one step is the switch itself.  sched_run_next_locked and   *)
(* sched_exit publish current_thread = next, drop the lock and only then   *)
(* call context_switch(), so there is a window in which the CPU still runs *)
(* on the stack of the thread it is leaving.  The model therefore keeps    *)
(* what the CPU really executes (stack, and the saved contexts that        *)
(* context_switch writes to tcb->rsp) apart from what current_thread says. *)
(*                                                                         *)
(* context_switch saves the stack pointer but not rflags.  A context saved *)
(* inside the timer interrupt gets its interrupt flag back from iretq; one *)
(* saved by a voluntary call resumes with whatever flag the CPU has.       *)
(***************************************************************************)
EXTENDS QueueOps, FiniteSets

CONSTANTS
    Cpus,          \* online CPUs
    Threads,       \* tcb_t objects of spawned threads, one lifetime each
    Quantum,       \* SCHED_QUANTUM_TICKS
    TickInWindow   \* TRUE: the timer may interrupt the unlock-to-switch window

ASSUME QuantumAssumption == Quantum \in Nat \ {0}
ASSUME TickAssumption    == TickInWindow \in BOOLEAN

Idle(c) == <<"idle", c>>                  \* &idle_threads[c]
Idles   == {Idle(c) : c \in Cpus}
Tcbs    == Threads \cup Idles

ASSUME ThreadsFinite  == IsFiniteSet(Threads)
ASSUME IdleAssumption == Threads \cap Idles = {} /\ Cpus # {}

VARIABLES
    status,    \* tcb->status ("NONE" before spawn, "FREED" after kfree)
    cpu_of,    \* tcb->cpu_index, for every tcb
    ticks,     \* tcb->ticks_left
    rq,        \* cpu->rq
    zombies,   \* zombie_rq[cpu->index]
    current,   \* cpu->current_thread
    count,     \* cpu->sched_thread_count
    ctx,       \* ctx[t]: the machine context saved at t->rsp
    stack,     \* stack[c]: the tcb whose stack CPU c is running on
    pend,      \* the context_switch the code running on c is about to make
    intr       \* RFLAGS.IF of CPU c

schedvars == <<status, cpu_of, ticks, rq, zombies, current, count>>
machvars  == <<ctx, stack, pend, intr>>
vars      == <<status, cpu_of, ticks, rq, zombies, current, count,
               ctx, stack, pend, intr>>

Statuses == {"NONE", "RUNNABLE", "RUNNING", "BLOCKED", "ZOMBIE", "FREED"}

\* A pending switch: context_switch(from, to), and whether the code that
\* follows it is the kpanic of sched_exit.
NoSwitch == [kind |-> "none"]
Switch   == [kind : {"switch"}, from : Tcbs, to : Tcbs, exiting : BOOLEAN]

\* A saved context: the stack it lives on and where it continues:
\*   fresh  the frame built by sched_make_stack, entering the trampoline
\*   call   inside a voluntary sched_* call, about to return to the thread
\*   isr    inside the timer interrupt; "then" is the switch it interrupted
\*   dead   inside sched_exit, the next statement is the kpanic
\*   used   the context has been resumed: t->rsp is stale until t is saved again
Context == [on : Tcbs, at : {"fresh", "call", "isr", "dead", "used"},
            then : Switch \cup {NoSwitch}]

Fresh(t) == [on |-> t, at |-> "fresh", then |-> NoSwitch]

TypeOK ==
    /\ status  \in [Tcbs -> Statuses]
    /\ cpu_of  \in [Tcbs -> Cpus]
    /\ ticks   \in [Tcbs -> 0..Quantum]
    /\ rq      \in [Cpus -> Seq(Tcbs)]
    /\ zombies \in [Cpus -> Seq(Tcbs)]
    /\ current \in [Cpus -> Tcbs]
    /\ count   \in [Cpus -> Nat]
    /\ ctx     \in [Tcbs -> Context]
    /\ stack   \in [Cpus -> Tcbs]
    /\ pend    \in [Cpus -> Switch \cup {NoSwitch}]
    /\ intr    \in [Cpus -> BOOLEAN]

-----------------------------------------------------------------------------
(* sched_init on every CPU: the boot code becomes the idle thread.         *)
Init ==
    /\ status  = [t \in Tcbs |-> IF t \in Idles THEN "RUNNING" ELSE "NONE"]
    /\ cpu_of  = [t \in Tcbs |-> CHOOSE c \in Cpus : t \in Threads \/ t = Idle(c)]
    /\ ticks   = [t \in Tcbs |-> Quantum]
    /\ rq      = [c \in Cpus |-> <<>>]
    /\ zombies = [c \in Cpus |-> <<>>]
    /\ current = [c \in Cpus |-> Idle(c)]
    /\ count   = [c \in Cpus |-> 0]
    /\ ctx     = [t \in Tcbs |-> IF t \in Idles THEN [Fresh(t) EXCEPT !.at = "used"]
                               ELSE Fresh(t)]
    /\ stack   = [c \in Cpus |-> Idle(c)]
    /\ pend    = [c \in Cpus |-> NoSwitch]
    /\ intr    = [c \in Cpus |-> TRUE]

-----------------------------------------------------------------------------
(* Choosing the next thread.                                               *)

\* Variant: a preempted thread goes to the head of the queue.
RequeueFirst(q, t) == <<t>> \o q

\* rq_push_back of the thread that gives up the CPU (sched_tick, sched_yield).
Requeue(q, t) == Append(q, t)

\* How many entries sched_next_thread pops and drops before it finds a
\* runnable one.
Skipped(q, st) ==
    CHOOSE k \in 0..Len(q) : /\ \A i \in 1..k : st[q[i]] # "RUNNABLE"
                             /\ k < Len(q) => st[q[k + 1]] = "RUNNABLE"

sched_next_thread(c, q, st) ==
    LET k == Skipped(q, st)
    IN  IF k = Len(q) THEN Idle(c) ELSE q[k + 1]

\* sched_next_thread's effect on the two queues, and the assignments that
\* sched_run_next_locked and sched_exit make under the lock.
Dispatch(c, next, q, z, st, tk) ==
    LET k == Skipped(q, st)
    IN  /\ rq' = [rq EXCEPT ![c] = SubSeq(q, k + 2, Len(q))]
        /\ zombies' = [zombies EXCEPT ![c] =
               IF k = 0 THEN z
               ELSE z \o SelectSeq(SubSeq(q, 1, k), LAMBDA t : st[t] = "ZOMBIE")]
        /\ status' = [st EXCEPT ![next] = "RUNNING"]
        /\ ticks' = [tk EXCEPT ![next] = Quantum]
        /\ current' = [current EXCEPT ![c] = next]

\* Variant: the arguments of context_switch are swapped.
WillSwitchBack(c, from, to, exiting) ==
    /\ pend' = [pend EXCEPT ![c] =
           IF to = from THEN NoSwitch
           ELSE [kind |-> "switch", from |-> to, to |-> from, exiting |-> exiting]]
    /\ UNCHANGED <<ctx, stack, intr>>

\* After the unlock, a voluntary caller is about to call context_switch.
WillSwitch(c, from, to, exiting) ==
    /\ pend' = [pend EXCEPT ![c] =
           IF to = from THEN NoSwitch
           ELSE [kind |-> "switch", from |-> from, to |-> to, exiting |-> exiting]]
    /\ UNCHANGED <<ctx, stack, intr>>

\* Variant: the outgoing stack pointer is not stored.
ResumeWithoutSaving(c, from, to, saved, flag) ==
    LET load == ctx[to]
    IN  /\ ctx'   = [ctx EXCEPT ![to].at = "used"]
        /\ stack' = [stack EXCEPT ![c] = load.on]
        /\ pend'  = [pend EXCEPT ![c] = load.then]
        /\ intr'  = [intr EXCEPT ![c] =
                        IF load.at \in {"fresh", "isr"} THEN TRUE ELSE flag]

\* context_switch(from, to) on CPU c, with interrupt flag "flag": save the
\* present continuation in from->rsp, resume the one in to->rsp.
Resume(c, from, to, saved, flag) ==
    LET saves == [ctx EXCEPT ![from] = saved]
        load  == saves[to]
    IN  /\ ctx'   = [saves EXCEPT ![to].at = "used"]
        /\ stack' = [stack EXCEPT ![c] = load.on]
        /\ pend'  = [pend EXCEPT ![c] = load.then]
        /\ intr'  = [intr EXCEPT ![c] =
                        IF load.at \in {"fresh", "isr"} THEN TRUE ELSE flag]

-----------------------------------------------------------------------------
(* The operations.                                                         *)

InThread(c) == pend[c] = NoSwitch /\ stack[c] \notin Idles

\* Some CPU is executing kernel code that can call into the scheduler.
Caller == \E c \in Cpus : pend[c] = NoSwitch

\* spawn_thread: sched_select_cpu samples the loads one CPU at a time, so
\* any CPU may be the one that looked least loaded.
spawn_thread(t, c) ==
    /\ Caller
    /\ status[t] = "NONE"
    /\ status' = [status EXCEPT ![t] = "RUNNABLE"]
    /\ cpu_of' = [cpu_of EXCEPT ![t] = c]
    /\ ticks'  = [ticks EXCEPT ![t] = Quantum]
    /\ rq'     = [rq EXCEPT ![c] = Append(@, t)]
    /\ count'  = [count EXCEPT ![c] = @ + 1]
    /\ UNCHANGED <<zombies, current, ctx, stack, pend, intr>>

context_switch(c) ==
    /\ pend[c] # NoSwitch
    /\ LET p == pend[c]
       IN  Resume(c, p.from, p.to,
                  [on |-> stack[c], at |-> IF p.exiting THEN "dead" ELSE "call",
                   then |-> NoSwitch],
                  intr[c])
    /\ UNCHANGED schedvars

\* sched_yield, by a thread or by the boot code running as the idle thread.
sched_yield(c) ==
    LET cur  == current[c]
        back == cur # Idle(c) /\ status[cur] # "ZOMBIE"
        st   == IF back THEN [status EXCEPT ![cur] = "RUNNABLE"] ELSE status
        tk   == IF back THEN [ticks EXCEPT ![cur] = Quantum] ELSE ticks
        q    == IF back THEN Requeue(rq[c], cur) ELSE rq[c]
        next == sched_next_thread(c, q, st)
    IN  /\ pend[c] = NoSwitch
        /\ Dispatch(c, next, q, zombies[c], st, tk)
        /\ WillSwitch(c, cur, next, FALSE)
        /\ UNCHANGED <<cpu_of, count>>

\* The running thread t of CPU c blocks: thread_block_current, or
\* thread_block of the caller itself.
BlockSelf(c) ==
    LET cur  == current[c]
        st   == [status EXCEPT ![cur] = "BLOCKED"]
        q    == Without(rq[c], cur)
        next == sched_next_thread(c, q, st)
    IN  /\ InThread(c)
        /\ cur # Idle(c)
        /\ Dispatch(c, next, q, zombies[c], st, ticks)
        /\ WillSwitch(c, cur, next, FALSE)
        /\ UNCHANGED <<cpu_of, count>>

\* thread_block(t) for a thread that waits to run or is blocked.  (The code
\* sets the status of a thread that runs on another CPU, or that has exited,
\* just the same, and leaves its node where it is.  Nothing in the tree calls
\* thread_block; callers are assumed not to do that, see the README.)
thread_block(t) ==
    LET c == cpu_of[t]
    IN  /\ Caller
        /\ status[t] \in {"RUNNABLE", "BLOCKED"}
        /\ status' = [status EXCEPT ![t] = "BLOCKED"]
        /\ rq' = [rq EXCEPT ![c] = Without(@, t)]
        /\ UNCHANGED <<cpu_of, ticks, zombies, current, count, ctx, stack, pend, intr>>

\* Variant: thread_wake does not look at the status of the thread.
WakeAny(t) ==
    LET c == cpu_of[t]
    IN  /\ Caller
        /\ status[t] \in {"BLOCKED", "RUNNING", "ZOMBIE"}
        /\ status' = [status EXCEPT ![t] = "RUNNABLE"]
        /\ ticks' = [ticks EXCEPT ![t] = Quantum]
        /\ rq' = [rq EXCEPT ![c] = IF t \in Members(@) THEN @ ELSE Append(@, t)]
        /\ UNCHANGED <<cpu_of, zombies, current, count, ctx, stack, pend, intr>>

thread_wake(t) ==
    LET c == cpu_of[t]
    IN  /\ Caller
        /\ status[t] = "BLOCKED"
        /\ status' = [status EXCEPT ![t] = "RUNNABLE"]
        /\ ticks' = [ticks EXCEPT ![t] = Quantum]
        /\ rq' = [rq EXCEPT ![c] = IF t \in Members(@) THEN @ ELSE Append(@, t)]
        /\ UNCHANGED <<cpu_of, zombies, current, count, ctx, stack, pend, intr>>

\* sched_exit, up to the unlock; its context_switch is the next step.
sched_exit(c) ==
    LET cur  == current[c]
        st   == [status EXCEPT ![cur] = "ZOMBIE"]
        pick == sched_next_thread(c, rq[c], st)
        next == IF pick = cur THEN Idle(c) ELSE pick
    IN  /\ InThread(c)
        /\ cur # Idle(c)
        /\ Dispatch(c, next, rq[c], Append(zombies[c], cur), st, ticks)
        /\ WillSwitch(c, cur, next, TRUE)
        /\ UNCHANGED <<cpu_of, count>>

\* sched_free_thread for every thread of a set of zombies of CPU c: the
\* count goes down, the stack and the tcb are freed.
Reaped(zs) == [t \in Tcbs |-> IF t \in zs THEN "FREED" ELSE status[t]]

\* Variants: the decrement is forgotten, or done twice and unchecked.
CountKept(c, n)  == count
CountTwice(c, n) == [count EXCEPT ![c] = @ - 2 * n]
CountLess(c, n) == [count EXCEPT ![c] = IF @ > n THEN @ - n ELSE 0]

\* Variant: the exiting thread reaps on its way to context_switch.
ReapInWindow(c) ==
    /\ zombies[c] # <<>>
    /\ status' = Reaped({Head(zombies[c])})
    /\ zombies' = [zombies EXCEPT ![c] = Tail(@)]
    /\ count' = CountLess(c, 1)
    /\ UNCHANGED <<cpu_of, ticks, rq, current, ctx, stack, pend, intr>>

\* sched_reap, called by a thread: one turn of the loop of sched_reap_cpu.
sched_reap(c) ==
    /\ pend[c] = NoSwitch
    /\ zombies[c] # <<>>
    /\ status' = Reaped({Head(zombies[c])})
    /\ zombies' = [zombies EXCEPT ![c] = Tail(@)]
    /\ count' = CountLess(c, 1)
    /\ UNCHANGED <<cpu_of, ticks, rq, current, ctx, stack, pend, intr>>

\* The timer interrupt: reap, charge the tick, and keep or switch.  Inside
\* the handler interrupts are off, so its own switch has no window.
sched_tick(c) ==
    LET cur     == current[c]
        st0     == Reaped(Members(zombies[c]))
        running == st0[cur] = "RUNNING"
        left    == IF running /\ ticks[cur] > 0 THEN ticks[cur] - 1 ELSE ticks[cur]
        tk0     == [ticks EXCEPT ![cur] = left]
        keep    == running /\ left > 0 /\ (cur # Idle(c) \/ rq[c] = <<>>)
        back    == running /\ cur # Idle(c)
        st      == IF back THEN [st0 EXCEPT ![cur] = "RUNNABLE"] ELSE st0
        tk      == IF back THEN [tk0 EXCEPT ![cur] = Quantum] ELSE tk0
        q       == IF back THEN Requeue(rq[c], cur) ELSE rq[c]
        next    == sched_next_thread(c, q, st)
    IN  /\ intr[c]
        /\ pend[c] = NoSwitch \/ TickInWindow
        /\ count' = CountLess(c, Len(zombies[c]))
        /\ UNCHANGED cpu_of
        /\ \/ /\ keep
              /\ status' = st0
              /\ ticks' = tk0
              /\ zombies' = [zombies EXCEPT ![c] = <<>>]
              /\ UNCHANGED <<rq, current, ctx, stack, pend, intr>>
           \/ /\ ~keep
              /\ Dispatch(c, next, q, <<>>, st, tk)
              /\ IF next = cur THEN UNCHANGED machvars
                 ELSE Resume(c, cur, next,
                             [on |-> stack[c], at |-> "isr", then |-> pend[c]], FALSE)

CpuStep(c) == \/ context_switch(c)
              \/ sched_yield(c)
              \/ BlockSelf(c)
              \/ sched_exit(c)
              \/ sched_reap(c)
              \/ sched_tick(c)

Next == \/ \E c \in Cpus : CpuStep(c)
        \/ \E t \in Threads : thread_block(t) \/ thread_wake(t)
        \/ \E t \in Threads, c \in Cpus : spawn_thread(t, c)

Spec == Init /\ [][Next]_vars

\* The timer keeps firing and code that has reached context_switch runs it.
\* Nothing is assumed of the threads.
Fairness == \A c \in Cpus : WF_vars(sched_tick(c)) /\ WF_vars(context_switch(c))
FairSpec == Spec /\ Fairness

-----------------------------------------------------------------------------
(* Properties.                                                             *)

\* Exactly one place for every thread: a RUNNABLE thread is queued once on
\* the CPU it is bound to, a ZOMBIE once on that CPU's zombie queue, a
\* RUNNING thread is the current thread of its CPU; nobody else is queued.
\* (rq_node is shared by the two queues, and rq_push_back does not notice a
\* node that is already linked.)
OnePlace ==
    /\ \A c \in Cpus :
          /\ Unique(rq[c]) /\ Unique(zombies[c])
          /\ Members(rq[c]) = {t \in Threads : status[t] = "RUNNABLE" /\ cpu_of[t] = c}
          /\ Members(zombies[c]) = {t \in Threads : status[t] = "ZOMBIE" /\ cpu_of[t] = c}
    /\ \A t \in Threads : status[t] = "RUNNING" <=> current[cpu_of[t]] = t
    /\ \A c \in Cpus : current[c] \in {Idle(c)} \cup {t \in Threads : cpu_of[t] = c}

\* What a CPU executes is what current_thread says, except between the
\* unlock and context_switch, when it is on the stack of the thread it is
\* leaving.
Coherent ==
    \A c \in Cpus : IF pend[c] = NoSwitch THEN stack[c] = current[c]
                    ELSE stack[c] = pend[c].from /\ current[c] = pend[c].to

\* No CPU runs on a stack that has been given back to the heap, and no two
\* CPUs run on one stack (sched_free_thread against the switch window).
StackInUse ==
    /\ \A c \in Cpus : status[stack[c]] \notin {"NONE", "FREED"}
    /\ \A c, d \in Cpus : stack[c] = stack[d] => c = d

\* A thread that is waiting to run can be resumed, and never twice from the
\* same save: its saved context is its own and unused, or its CPU is still
\* in the window before the context_switch that saves it (a thread_wake from
\* another CPU may make it RUNNABLE again in that window).
Resumable ==
    \A t \in Threads : status[t] \in {"RUNNABLE", "BLOCKED"} =>
        \/ /\ ctx[t].on = t
           /\ ctx[t].at \in {"fresh", "call", "isr"}
           /\ ctx[t].then = NoSwitch
        \/ pend[cpu_of[t]] # NoSwitch /\ pend[cpu_of[t]].from = t

\* sched_thread_count is the number of threads bound to the CPU that have
\* not been reaped (spawn_thread and sched_free_thread, on any CPU).
CountIsExact ==
    \A c \in Cpus : count[c] =
        Cardinality({t \in Threads : cpu_of[t] = c /\ status[t] \notin {"NONE", "FREED"}})

\* No CPU ever switches to the stack of a thread that has exited: the
\* statement after sched_exit's context_switch, kpanic "zombie thread
\* resumed", says this cannot happen.
ZombieNotResumed ==
    [][\A c \in Cpus : stack'[c] # stack[c] =>
            status[stack'[c]] \notin {"ZOMBIE", "FREED"}]_vars

\* On a CPU whose interrupts keep being enabled, a queued thread does not
\* stay queued for ever (round robin through Append and pop_front, quantum
\* expiry in sched_tick, the idle thread giving way).
NoStarvation ==
    \A c \in Cpus, t \in Threads :
        []<>intr[c] => (t \in Members(rq[c]) ~> t \notin Members(rq[c]))
=============================================================================
