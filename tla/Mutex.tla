------------------------------- MODULE Mutex -------------------------------
(***************************************************************************)
(* kernel/src/lib/mutex.c on top of the scheduler interface it uses        *)
(* (thread_block_current and thread_wake of kernel/src/sys/sched.c): a     *)
(* sleeping mutex with a guard spinlock and direct hand-off to the first   *)
(* waiter.  Threads run on any number of CPUs and can be preempted between *)
(* any two steps; each step below is one access to shared state or one     *)
(* section under the scheduler lock of a CPU.                              *)
(***************************************************************************)
EXTENDS QueueOps

CONSTANTS
    Threads,
    IdleCtx,        \* the threads that are some CPU's idle thread (boot code)
    ExternalWakes,  \* TRUE: others than mutex_unlock call thread_wake too
    Misuse,         \* TRUE: callers may lock twice, or unlock what they do not own
    NULL

ASSUME MutexAssumption ==
    /\ NULL \notin Threads /\ IdleCtx \subseteq Threads
    /\ ExternalWakes \in BOOLEAN /\ Misuse \in BOOLEAN

VARIABLES
    guard,      \* mutex->guard: the thread that holds it, or NULL
    owner,      \* mutex->owner
    waiters,    \* mutex->waiters
    asleep,     \* asleep[t]: tcb->status is THREAD_BLOCKED
    next,       \* next[t]: the local of mutex_unlock
    pc          \* where thread t is

vars == <<guard, owner, waiters, asleep, next, pc>>

(* pc          at                                                          *)
(* out         outside any mutex call, not holding                         *)
(* spin        mutex_lock:    spinning on the guard                        *)
(* look        mutex_lock:    holding the guard, about to test the owner   *)
(* sleep       mutex_lock:    queued, about to call thread_block_current   *)
(* recheck     mutex_lock:    thread_block_current returned                *)
(* trying      mutex_try_lock: spinning on the guard                       *)
(* test        mutex_try_lock: holding the guard                           *)
(* in          holding the mutex, the call has returned                    *)
(* unlock      mutex_unlock:  spinning on the guard                        *)
(* pass        mutex_unlock:  holding the guard                            *)
(* wake        mutex_unlock:  about to call thread_wake(next)              *)
(* panic       in kpanic                                                   *)
Pcs == {"out", "spin", "look", "sleep", "recheck", "trying", "test",
        "in", "unlock", "pass", "wake", "panic"}

TypeOK ==
    /\ guard   \in Threads \cup {NULL}
    /\ owner   \in Threads \cup {NULL}
    /\ waiters \in Seq(Threads)
    /\ asleep  \in [Threads -> BOOLEAN]
    /\ next    \in [Threads -> Threads \cup {NULL}]
    /\ pc      \in [Threads -> Pcs]

\* mutex_init
Init ==
    /\ guard = NULL /\ owner = NULL /\ waiters = <<>>
    /\ asleep = [t \in Threads |-> FALSE]
    /\ next   = [t \in Threads |-> NULL]
    /\ pc     = [t \in Threads |-> "out"]

Go(t, from, to) == ~asleep[t] /\ pc[t] = from /\ pc' = [pc EXCEPT ![t] = to]

Waiting(t) == t \in Members(waiters)

\* Variant: a new waiter is pushed to the front.
EnqueueFirst(t) == IF Waiting(t) THEN waiters ELSE <<t>> \o waiters

Enqueue(t) == IF Waiting(t) THEN waiters ELSE Append(waiters, t)

-----------------------------------------------------------------------------

\* A thread calls one of the three operations.
Call(t) ==
    /\ \/ Go(t, "out", "spin")
       \/ Go(t, "out", "trying")
       \/ Go(t, "in", "unlock")
       \/ Misuse /\ Go(t, "in", "spin")
       \/ Misuse /\ Go(t, "out", "unlock")
    /\ UNCHANGED <<guard, owner, waiters, asleep, next>>

\* spinlock_lock(&mutex->guard): the exchange that finds the guard free.
spinlock_lock(t) ==
    /\ guard = NULL
    /\ guard' = t
    /\ \/ Go(t, "spin", "look")
       \/ Go(t, "trying", "test")
       \/ Go(t, "unlock", "pass")
    /\ UNCHANGED <<owner, waiters, asleep, next>>

\* mutex_try_lock, under the guard.
mutex_try_lock(t) ==
    /\ IF owner = NULL THEN Go(t, "test", "in") /\ owner' = t
                       ELSE Go(t, "test", "out") /\ UNCHANGED owner
    /\ guard' = NULL
    /\ UNCHANGED <<waiters, asleep, next>>

\* mutex_lock, under the guard.
mutex_lock(t) ==
    /\ UNCHANGED <<asleep, next>>
    /\ \/ /\ owner = NULL
          /\ Go(t, "look", "in")
          /\ owner' = t /\ guard' = NULL
          /\ UNCHANGED waiters
       \/ /\ owner = t
          /\ Go(t, "look", "panic")      \* recursive locking is not allowed
          /\ guard' = NULL
          /\ UNCHANGED <<owner, waiters>>
       \/ /\ owner \notin {NULL, t}
          /\ Go(t, "look", "sleep")
          /\ waiters' = Enqueue(t)
          /\ UNCHANGED <<guard, owner>>

\* Variant: the callback that releases the guard is not run.
BlockKeepsGuard(t) ==
    /\ Go(t, "sleep", "recheck")
    /\ asleep' = [asleep EXCEPT ![t] = TRUE]
    /\ UNCHANGED <<guard, owner, waiters, next>>

\* thread_block_current(mutex_release_guard, &mutex->guard): under the
\* scheduler lock the thread is marked BLOCKED and the guard is released;
\* for an idle thread the call returns at once, the guard still held.
thread_block_current(t) ==
    /\ Go(t, "sleep", "recheck")
    /\ IF t \in IdleCtx
       THEN UNCHANGED <<asleep, guard>>
       ELSE asleep' = [asleep EXCEPT ![t] = TRUE] /\ guard' = NULL
    /\ UNCHANGED <<owner, waiters, next>>

\* Variants: the test is missing, and the call returns or loops blindly.
RecheckReturns(t) ==
    /\ Go(t, "recheck", "in")
    /\ UNCHANGED <<guard, owner, waiters, asleep, next>>
RecheckLoops(t) ==
    /\ Go(t, "recheck", "spin")
    /\ UNCHANGED <<guard, owner, waiters, asleep, next>>

\* The test after thread_block_current, without the guard.
Recheck(t) ==
    /\ IF owner = t THEN Go(t, "recheck", "in") ELSE Go(t, "recheck", "spin")
    /\ UNCHANGED <<guard, owner, waiters, asleep, next>>

\* mutex_unlock, under the guard: the first waiter becomes the owner.
mutex_unlock(t) ==
    /\ UNCHANGED asleep
    /\ guard' = NULL
    /\ \/ /\ owner # t                   \* current thread does not own mutex
          /\ Go(t, "pass", "panic")
          /\ UNCHANGED <<owner, waiters, next>>
       \/ /\ owner = t /\ waiters = <<>>
          /\ Go(t, "pass", "out")
          /\ owner' = NULL /\ next' = [next EXCEPT ![t] = NULL]
          /\ UNCHANGED waiters
       \/ /\ owner = t /\ waiters # <<>>
          /\ Go(t, "pass", "wake")
          /\ owner' = Head(waiters) /\ waiters' = Tail(waiters)
          /\ next' = [next EXCEPT ![t] = Head(waiters)]

\* Variant: the wake-up does not reach the thread.
WakeLost(u) == UNCHANGED asleep

\* thread_wake(u): a no-op unless u is BLOCKED.
thread_wake(u) == asleep' = [asleep EXCEPT ![u] = FALSE]

WakeNext(t) == /\ Go(t, "wake", "out")
               /\ thread_wake(next[t])
               /\ UNCHANGED <<guard, owner, waiters, next>>

ExternalWake(u) == /\ ExternalWakes /\ asleep[u]
                   /\ thread_wake(u)
                   /\ UNCHANGED <<guard, owner, waiters, next, pc>>

Step(t) == \/ spinlock_lock(t) \/ mutex_try_lock(t) \/ mutex_lock(t)
           \/ thread_block_current(t) \/ Recheck(t) \/ mutex_unlock(t) \/ WakeNext(t)

Next == \E t \in Threads : Call(t) \/ Step(t) \/ ExternalWake(t)

Spec == Init /\ [][Next]_vars

-----------------------------------------------------------------------------

\* At most one thread is between the return of mutex_lock (or a successful
\* mutex_try_lock) and its call of mutex_unlock, and it is the owner:
\* whatever else wakes sleeping threads, and even if callers misuse the mutex.
MutualExclusion == \A t \in Threads : pc[t] = "in" => owner = t

\* A thread that sleeps is still queued, or it has been made the owner and
\* the wake-up for it is on its way; and nobody queues for a free mutex.
\* (The window between the guard's release and thread_wake, and the one
\* between queueing and BLOCKED.)
NoLostWakeup ==
    /\ \A t \in Threads : asleep[t] =>
          \/ Waiting(t)
          \/ owner = t /\ \E u \in Threads : pc[u] = "wake" /\ next[u] = t
    /\ owner = NULL => waiters = <<>>

\* kpanic is never reached by callers that lock and unlock in turn: neither
\* "recursive locking is not allowed" nor "current thread does not own mutex".
NoPanic == \A t \in Threads : pc[t] # "panic"

\* A thread in the middle of a call can take its next step: it does not sleep
\* and it does not spin on a guard that is held.  (An owner between two calls
\* is the caller's business.)
CanStep(t) == /\ ~asleep[t] /\ pc[t] \notin {"out", "panic"}
              /\ pc[t] \in {"spin", "trying", "unlock"} => guard = NULL

\* What a thread inside a call can be waiting for: the holder of the guard,
\* the owner, and the thread that is to wake the owner.
WaitsFor(t) == {u \in Threads : \/ u \in {t, guard, owner}
                                \/ pc[u] = "wake" /\ next[u] = owner}

\* Nobody waits in a circle: as long as a thread is inside a call, or sleeps
\* in one, it can step or one of the threads it waits for can, in every state
\* between the queueing, the BLOCKED mark, the release of the guard and the
\* late thread_wake.  For correct callers that nobody else wakes, none of them
\* an idle thread: an idle thread returns from thread_block_current with the
\* guard held and then spins on it itself.
NoDeadlock == \A t \in Threads :
    pc[t] \notin {"out", "panic"} => \E u \in WaitsFor(t) : CanStep(u)

\* mutex.c implements the FIFO lock; a thread is inside until its hand-off.
Inside == {t \in Threads : pc[t] \in {"in", "unlock", "pass"}}
Lock == INSTANCE FifoLock WITH holder <- owner, queue <- waiters, inside <- Inside
ImplementsFifoLock == Lock!LSpec
=============================================================================
