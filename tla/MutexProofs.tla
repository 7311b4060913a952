---------------------------- MODULE MutexProofs ----------------------------
(***************************************************************************)
(* Proofs about Mutex.tla, for every set of threads.  Mutual exclusion and *)
(* the absence of lost wake-ups hold whatever else wakes sleeping threads  *)
(* and even when callers misuse the mutex (IInv).                          *)
(***************************************************************************)
EXTENDS Mutex, ProofFacts

USE MutexAssumption DEF Pcs

\* The guard is held in the sections between spinlock_lock and its release.
GuardInv == \A t \in Threads :
    pc[t] \in {"look", "sleep", "test", "pass"} => guard = t

\* A thread on the waiters list is in the slow path of mutex_lock and is
\* there once; nobody waits for a mutex that is its own.
QueueInv ==
    /\ Unique(waiters)
    /\ \A t \in Threads : Waiting(t) =>
          owner # t /\ pc[t] \in {"sleep", "recheck", "spin", "look"}
    /\ \A t \in Threads : pc[t] = "sleep" => Waiting(t)

\* Only thread_block_current puts a thread to sleep.
SleepInv == \A t \in Threads : asleep[t] => pc[t] = "recheck"

IInv == /\ TypeOK
        /\ GuardInv
        /\ QueueInv
        /\ SleepInv
        /\ MutualExclusion
        /\ NoLostWakeup

-----------------------------------------------------------------------------

\* mutex_init establishes the inductive invariant.
LEMMA InitIInv == Init => IInv
  <1> SUFFICES ASSUME Init PROVE IInv
    OBVIOUS
  <1>0. waiters = <<>> /\ waiters \in Seq(Threads)
    BY DEF Init
  <1>1. Members(waiters) = {} /\ Unique(waiters)
    BY <1>0, MembersBasics
  <1> QED BY <1>0, <1>1 DEF Init, IInv, TypeOK, GuardInv, QueueInv, SleepInv, Waiting,
                      MutualExclusion, NoLostWakeup

\* Every step of every thread keeps it, one case per action of the model.
LEMMA NextIInv == IInv /\ [Next]_vars => IInv'
  <1> SUFFICES ASSUME IInv, [Next]_vars PROVE IInv'
    OBVIOUS
  <1> USE DEF IInv, TypeOK, GuardInv, QueueInv, SleepInv, MutualExclusion,
              NoLostWakeup, Waiting
  <1>1. ASSUME NEW t \in Threads, Call(t) PROVE IInv'
    BY <1>1 DEF Call, Go
  <1>2. ASSUME NEW t \in Threads, spinlock_lock(t) PROVE IInv'
    BY <1>2 DEF spinlock_lock, Go
  <1>3. ASSUME NEW t \in Threads, mutex_try_lock(t) PROVE IInv'
    BY <1>3 DEF mutex_try_lock, Go
  <1>4. ASSUME NEW t \in Threads, mutex_lock(t) PROVE IInv'
    <2>a. CASE owner = NULL
      <3>1. Members(waiters) = {} /\ waiters = <<>>
        BY <2>a, MembersBasics
      <3>2. /\ pc[t] = "look" /\ pc' = [pc EXCEPT ![t] = "in"]
            /\ owner' = t /\ guard' = NULL /\ UNCHANGED <<waiters, asleep, next>>
        BY <1>4, <2>a DEF mutex_lock, Go
      <3>3. \A u \in Threads : ~Waiting(u) /\ ~Waiting(u)'
        BY <3>1, <3>2
      <3>4. TypeOK' /\ SleepInv' /\ MutualExclusion'
        BY <2>a, <3>2
      <3>5. GuardInv'
        BY <3>2
      <3>6. QueueInv'
        BY <3>2, <3>3
      <3>7. NoLostWakeup'
        BY <2>a, <3>1, <3>2, <3>3
      <3> QED BY <3>4, <3>5, <3>6, <3>7
    <2>b. CASE owner = t
      BY <1>4, <2>b DEF mutex_lock, Go
    <2>1. CASE owner \notin {NULL, t} /\ Waiting(t)
      BY <1>4, <2>1 DEF mutex_lock, Go, Enqueue
    <2>2. CASE owner \notin {NULL, t} /\ ~Waiting(t)
      <3>1. /\ pc[t] = "look" /\ ~asleep[t] /\ pc' = [pc EXCEPT ![t] = "sleep"]
            /\ waiters' = Append(waiters, t)
            /\ UNCHANGED <<guard, owner, asleep, next>>
        BY <1>4, <2>2 DEF mutex_lock, Go, Enqueue
      <3>2. /\ waiters' \in Seq(Threads) /\ Unique(waiters')
            /\ Members(waiters') = Members(waiters) \cup {t}
        BY <2>2, <3>1, MembersAppend
      <3>3. owner' # NULL
        BY <2>2, <3>1
      <3> HIDE DEF Waiting
      <3>4. \A u \in Threads : Waiting(u)' <=> (Waiting(u) \/ u = t)
        BY <3>2 DEF Waiting
      <3>5. TypeOK' /\ GuardInv' /\ SleepInv' /\ MutualExclusion'
        BY <3>1, <3>2
      <3>6. QueueInv'
        BY <2>2, <3>1, <3>2, <3>4
      <3>7. NoLostWakeup'
        BY <3>1, <3>3, <3>4
      <3> QED BY <3>5, <3>6, <3>7
    <2> QED BY <2>a, <2>b, <2>1, <2>2
  <1>5. ASSUME NEW t \in Threads, thread_block_current(t) PROVE IInv'
    <2>1. /\ pc[t] = "sleep" /\ pc' = [pc EXCEPT ![t] = "recheck"] /\ Waiting(t)
          /\ UNCHANGED <<owner, waiters, next>>
      BY <1>5 DEF thread_block_current, Go
    <2>2. guard = t /\ \A u \in Threads \ {t} : pc[u] \notin {"look", "sleep", "test", "pass"}
      BY <2>1
    <2>3. CASE UNCHANGED <<asleep, guard>>
      BY <2>1, <2>3
    <2>4. CASE asleep' = [asleep EXCEPT ![t] = TRUE] /\ guard' = NULL
      <3>1. \A u \in Threads : u # t => asleep'[u] = asleep[u]
        BY <2>4
      <3>2. TypeOK'
        BY <2>1, <2>4
      <3>3. GuardInv' /\ QueueInv' /\ MutualExclusion'
        BY <2>1, <2>2, <2>4
      <3>4. SleepInv'
        BY <2>1, <3>1
      <3>5. NoLostWakeup'
        BY <2>1, <3>1
      <3> QED BY <3>2, <3>3, <3>4, <3>5
    <2> QED BY <1>5, <2>3, <2>4 DEF thread_block_current
  <1>6. ASSUME NEW t \in Threads, Recheck(t) PROVE IInv'
    BY <1>6 DEF Recheck, Go
  <1>7. ASSUME NEW t \in Threads, mutex_unlock(t) PROVE IInv'
    <2>0. pc[t] = "pass" /\ ~asleep[t] /\ guard = t /\ guard' = NULL /\ UNCHANGED asleep
      BY <1>7 DEF mutex_unlock, Go
    <2>1. CASE owner # t \/ waiters = <<>>
      BY <1>7, <2>0, <2>1 DEF mutex_unlock, Go
    <2>2. CASE owner = t /\ waiters # <<>>
      <3> DEFINE h == Head(waiters)
      <3>1. /\ pc' = [pc EXCEPT ![t] = "wake"]
            /\ owner' = h /\ waiters' = Tail(waiters)
            /\ next' = [next EXCEPT ![t] = h]
        BY <1>7, <2>2 DEF mutex_unlock, Go
      <3>2. /\ waiters' \in Seq(Threads) /\ Unique(waiters')
            /\ h \in Members(waiters) /\ h \in Threads
            /\ Members(waiters') = Members(waiters) \ {h}
        BY <2>2, <3>1, MembersTail, MembersBasics
      <3> HIDE DEF h, Waiting
      <3>3. Waiting(h) /\ \A u \in Threads : Waiting(u)' <=> (Waiting(u) /\ u # h)
        BY <3>2 DEF Waiting
      <3>4. h # t /\ h # NULL
        BY <2>2, <3>2, <3>3
      <3>5. TypeOK'
        BY <2>0, <3>1, <3>2
      <3>6. GuardInv' /\ SleepInv'
        BY <2>0, <3>1
      <3>7. QueueInv'
        BY <2>0, <3>1, <3>2, <3>3, <3>4
      <3>8. MutualExclusion'
        BY <2>0, <2>2, <3>1
      <3>9. NoLostWakeup'
        <4>1. pc'[t] = "wake" /\ next'[t] = h
          BY <3>1
        <4>2. ASSUME NEW u \in Threads, asleep[u] PROVE u # t /\ owner # u
          BY <2>0, <2>2, <4>2
        <4> QED BY <2>0, <3>1, <3>3, <3>4, <4>1, <4>2
      <3> QED BY <3>5, <3>6, <3>7, <3>8, <3>9
    <2> QED BY <2>1, <2>2
  <1>8. ASSUME NEW t \in Threads, WakeNext(t) PROVE IInv'
    <2>1. /\ pc[t] = "wake" /\ pc' = [pc EXCEPT ![t] = "out"]
          /\ asleep' = [asleep EXCEPT ![next[t]] = FALSE]
          /\ UNCHANGED <<guard, owner, waiters, next>>
      BY <1>8 DEF WakeNext, thread_wake, Go
    <2>2. \A u \in Threads : asleep'[u] => asleep[u] /\ u # next[t]
      BY <2>1
    <2>3. TypeOK'
      BY <2>1
    <2>4. GuardInv' /\ QueueInv' /\ MutualExclusion'
      BY <2>1
    <2>5. SleepInv'
      BY <2>1, <2>2
    <2>6. NoLostWakeup'
      BY <2>1, <2>2
    <2> QED BY <2>3, <2>4, <2>5, <2>6
  <1>9. ASSUME NEW t \in Threads, ExternalWake(t) PROVE IInv'
    BY <1>9 DEF ExternalWake, thread_wake
  <1>10. CASE UNCHANGED vars
    BY <1>10 DEF vars
  <1> QED
    BY <1>1, <1>2, <1>3, <1>4, <1>5, <1>6, <1>7, <1>8, <1>9, <1>10 DEF Next, Step

\* Every reachable state satisfies the inductive invariant.
THEOREM MutexInvariant == Spec => []IInv
  BY InitIInv, NextIInv, PTL DEF Spec

\* Mutual exclusion, for every set of threads, with external wake-ups, idle
\* contexts and misuse.
THEOREM MutexMutualExclusion == Spec => []MutualExclusion
  BY MutexInvariant, PTL DEF IInv

\* No lost wake-up, under the same assumptions.
THEOREM MutexNoLostWakeup == Spec => []NoLostWakeup
  BY MutexInvariant, PTL DEF IInv
-----------------------------------------------------------------------------
(* Correct callers: nobody locks twice or unlocks what it does not own.    *)

\* A thread that has called mutex_unlock is still the owner.
UnlockInv == \A t \in Threads : pc[t] \in {"unlock", "pass"} => owner = t

\* With correct callers a thread inside mutex_unlock stays the owner.
LEMMA UnlockInductive ==
    ASSUME ~Misuse
    PROVE  Spec => []UnlockInv
  <1>1. Init => UnlockInv
    BY DEF Init, UnlockInv
  <1>2. IInv /\ UnlockInv /\ [Next]_vars => UnlockInv'
    <2> SUFFICES ASSUME IInv, UnlockInv, [Next]_vars PROVE UnlockInv'
      OBVIOUS
    <2> USE DEF IInv, TypeOK, GuardInv, MutualExclusion, UnlockInv
    <2>1. ASSUME NEW t \in Threads, Call(t) PROVE UnlockInv'
      BY <2>1 DEF Call, Go
    <2>2. ASSUME NEW t \in Threads, Step(t) PROVE UnlockInv'
      BY <2>2 DEF Step, spinlock_lock, mutex_try_lock, mutex_lock, thread_block_current,
                  Recheck, mutex_unlock, WakeNext, Go
    <2>3. ASSUME NEW t \in Threads, ExternalWake(t) PROVE UnlockInv'
      BY <2>3 DEF ExternalWake
    <2>4. CASE UNCHANGED vars
      BY <2>4 DEF vars
    <2> QED BY <2>1, <2>2, <2>3, <2>4 DEF Next
  <1> QED BY <1>1, <1>2, MutexInvariant, PTL DEF Spec

\* The mutex implements the FIFO lock when its callers are correct, even if
\* sleeping threads are woken by others.
THEOREM MutexImplementsFifoLock ==
    ASSUME ~Misuse
    PROVE  Spec => ImplementsFifoLock
  <1>1. Init => Lock!LInit
    BY DEF Init, Lock!LInit, Inside
  <1>2. IInv /\ UnlockInv /\ [Next]_vars => [Lock!LNext]_(Lock!lvars)
    <2> SUFFICES ASSUME IInv, UnlockInv, [Next]_vars
                 PROVE  Lock!LNext \/ UNCHANGED Lock!lvars
      OBVIOUS
    <2> USE DEF IInv, TypeOK, MutualExclusion, UnlockInv
    <2>1. ASSUME NEW t \in Threads, Call(t) PROVE UNCHANGED Lock!lvars
      BY <2>1 DEF Call, Go, Inside, Lock!lvars
    <2>2. ASSUME NEW t \in Threads, spinlock_lock(t) PROVE UNCHANGED Lock!lvars
      BY <2>2 DEF spinlock_lock, Go, Inside, Lock!lvars
    <2>3. ASSUME NEW t \in Threads, mutex_try_lock(t)
          PROVE  Lock!Take(t) \/ UNCHANGED Lock!lvars
      BY <2>3 DEF mutex_try_lock, Go, NoLostWakeup, Inside, Lock!lvars, Lock!Take
    <2>4. ASSUME NEW t \in Threads, mutex_lock(t)
          PROVE  Lock!Take(t) \/ Lock!Wait(t) \/ UNCHANGED Lock!lvars
      BY <2>4 DEF mutex_lock, Go, NoLostWakeup, Enqueue, Waiting, Inside, Lock!lvars,
                  Lock!Take, Lock!Wait, Lock!Members, Members
    <2>5. ASSUME NEW t \in Threads, thread_block_current(t) PROVE UNCHANGED Lock!lvars
      BY <2>5 DEF thread_block_current, Go, Inside, Lock!lvars
    <2>6. ASSUME NEW t \in Threads, Recheck(t)
          PROVE  Lock!Enter(t) \/ UNCHANGED Lock!lvars
      BY <2>6 DEF Recheck, Go, Inside, Lock!lvars, Lock!Enter
    <2>7. ASSUME NEW t \in Threads, mutex_unlock(t) PROVE Lock!Release(t)
      BY <2>7 DEF mutex_unlock, Go, Inside, Lock!Release
    <2>8. ASSUME NEW t \in Threads, WakeNext(t) PROVE UNCHANGED Lock!lvars
      BY <2>8 DEF WakeNext, Go, Inside, Lock!lvars
    <2>9. ASSUME NEW t \in Threads, ExternalWake(t) PROVE UNCHANGED Lock!lvars
      BY <2>9 DEF ExternalWake, Inside, Lock!lvars
    <2>10. CASE UNCHANGED vars
      BY <2>10 DEF vars, Inside, Lock!lvars
    <2> QED
      BY <2>1, <2>2, <2>3, <2>4, <2>5, <2>6, <2>7, <2>8, <2>9, <2>10
      DEF Next, Step, Lock!LNext
  <1> QED
    BY <1>1, <1>2, MutexInvariant, UnlockInductive, PTL DEF Spec, ImplementsFifoLock, Lock!LSpec
-----------------------------------------------------------------------------
(* No other wake-ups: every wake-up is the second half of a hand-off.      *)

\* The owner holds the mutex or is on its way out of thread_block_current.
OwnerInv == \A t \in Threads : owner = t => pc[t] \in {"in", "unlock", "pass", "recheck"}

\* A thread that is awake after thread_block_current has been made the owner,
\* or it is an idle thread for which the call returned with the guard held.
AwakeInv == \A t \in Threads : pc[t] = "recheck" /\ ~asleep[t] => owner = t \/ guard = t

\* A waiter sleeps, or it is about to and still holds the guard.
WaiterInv == \A t \in Threads : Waiting(t) => asleep[t] \/ guard = t

\* At most one wake-up is on its way, and it is for the sleeping owner.
WakerInv ==
    /\ \A t \in Threads : pc[t] = "wake" =>
          next[t] \in Threads /\ owner = next[t] /\ asleep[next[t]]
    /\ \A t, u \in Threads : pc[t] = "wake" /\ pc[u] = "wake" => t = u

HandOffInv == OwnerInv /\ AwakeInv /\ WaiterInv /\ WakerInv /\ NoPanic

\* With correct callers and no foreign wake-ups the hand-off invariant is kept,
\* so no thread reaches a kpanic.
LEMMA HandOffInductive ==
    ASSUME ~Misuse, ~ExternalWakes,
           IInv, UnlockInv, HandOffInv, [Next]_vars
    PROVE  HandOffInv'
  <1> USE DEF IInv, TypeOK, GuardInv, SleepInv, UnlockInv, HandOffInv, OwnerInv,
              AwakeInv, WaiterInv, WakerInv, NoPanic
  <1>0. QueueInv /\ (owner = NULL => waiters = <<>>)
    BY DEF NoLostWakeup
  <1>q. \A t \in Threads : Waiting(t) =>
           owner \notin {t, NULL} /\ pc[t] \in {"sleep", "recheck", "spin", "look"}
    <2>1. waiters = <<>> => Members(waiters) = {}
      BY MembersBasics
    <2> QED BY <1>0, <2>1 DEF QueueInv, Waiting
  <1>1. ASSUME NEW t \in Threads, Call(t) PROVE HandOffInv'
    BY <1>1, <1>q DEF Call, Go, Waiting
  <1>2. ASSUME NEW t \in Threads, spinlock_lock(t) PROVE HandOffInv'
    BY <1>2, <1>q DEF spinlock_lock, Go, Waiting
  <1>3. ASSUME NEW t \in Threads, mutex_try_lock(t) PROVE HandOffInv'
    BY <1>3, <1>q DEF mutex_try_lock, Go, Waiting
  <1>4. ASSUME NEW t \in Threads, mutex_lock(t) PROVE HandOffInv'
    <2>1. pc[t] = "look" /\ owner # t /\ guard = t
      BY <1>4 DEF mutex_lock, Go
    <2>2. CASE owner = NULL
      <3>1. /\ pc' = [pc EXCEPT ![t] = "in"] /\ owner' = t
            /\ guard' = NULL /\ UNCHANGED <<waiters, asleep, next>>
        BY <1>4, <2>2 DEF mutex_lock, Go
      <3>2. \A u \in Threads : ~Waiting(u)'
        BY <1>q, <2>2, <3>1 DEF Waiting
      <3>3. \A u \in Threads : pc[u] # "wake"
        BY <2>2
      <3> QED BY <2>1, <2>2, <3>1, <3>2, <3>3
    <2>3. CASE owner # NULL
      <3>1. /\ pc' = [pc EXCEPT ![t] = "sleep"] /\ waiters' = Enqueue(t)
            /\ UNCHANGED <<guard, owner, asleep, next>>
        BY <1>4, <2>1, <2>3 DEF mutex_lock, Go
      <3>2. \A u \in Threads : Waiting(u)' => Waiting(u) \/ u = t
        <4>1. Members(Append(waiters, t)) = Members(waiters) \cup {t}
          BY MembersAppend
        <4> QED BY <3>1, <4>1 DEF Waiting, Enqueue
      <3> QED BY <2>1, <3>1, <3>2
    <2> QED BY <2>2, <2>3
  <1>5. ASSUME NEW t \in Threads, thread_block_current(t) PROVE HandOffInv'
    <2>1. /\ pc[t] = "sleep" /\ pc' = [pc EXCEPT ![t] = "recheck"] /\ guard = t
          /\ UNCHANGED <<owner, waiters, next>>
          /\ \/ UNCHANGED <<asleep, guard>>
             \/ asleep' = [asleep EXCEPT ![t] = TRUE] /\ guard' = NULL
      BY <1>5 DEF thread_block_current, Go
    <2>2. CASE UNCHANGED <<asleep, guard>>
      BY <2>1, <2>2 DEF Waiting
    <2>3. CASE asleep' = [asleep EXCEPT ![t] = TRUE] /\ guard' = NULL
      <3>1. asleep'[t] /\ \A u \in Threads : u # t => asleep'[u] = asleep[u]
        BY <2>3
      <3>2. \A u \in Threads : asleep[u] => asleep'[u]
        BY <3>1
      <3>3. OwnerInv' /\ NoPanic'
        BY <2>1
      <3>4. AwakeInv'
        BY <2>1, <3>1
      <3>5. WaiterInv'
        BY <2>1, <3>1 DEF Waiting
      <3>6. WakerInv'
        BY <2>1, <3>2
      <3> QED BY <3>3, <3>4, <3>5, <3>6
    <2> QED BY <2>1, <2>2, <2>3
  <1>6. ASSUME NEW t \in Threads, Recheck(t) PROVE HandOffInv'
    BY <1>6, <1>q DEF Recheck, Go, Waiting
  <1>7. ASSUME NEW t \in Threads, mutex_unlock(t) PROVE HandOffInv'
    <2>1. pc[t] = "pass" /\ ~asleep[t] /\ guard = t /\ owner = t
          /\ guard' = NULL /\ UNCHANGED asleep
      BY <1>7 DEF mutex_unlock, Go
    <2>2. \A u \in Threads : pc[u] # "wake"
      BY <2>1
    <2>3. \A u \in Threads : pc[u] = "recheck" => asleep[u]
      BY <2>1
    <2>4. \A u \in Threads : Waiting(u) => asleep[u]
      BY <2>1, <1>q
    <2>5. CASE waiters = <<>>
      <3>1. /\ pc' = [pc EXCEPT ![t] = "out"] /\ owner' = NULL /\ waiters' = waiters
        BY <1>7, <2>1, <2>5 DEF mutex_unlock, Go
      <3> QED BY <2>1, <2>2, <2>3, <2>4, <3>1 DEF Waiting
    <2>6. CASE waiters # <<>>
      <3> DEFINE h == Head(waiters)
      <3>1. /\ pc' = [pc EXCEPT ![t] = "wake"]
            /\ owner' = h /\ waiters' = Tail(waiters)
            /\ next' = [next EXCEPT ![t] = h]
        BY <1>7, <2>1, <2>6 DEF mutex_unlock, Go
      <3>2. /\ h \in Members(waiters) /\ h \in Threads
            /\ Members(waiters') \subseteq Members(waiters)
        BY <1>0, <2>6, <3>1, MembersTail, MembersBasics DEF QueueInv
      <3> HIDE DEF h
      <3>3. asleep[h] /\ pc[h] = "recheck" /\ h # t
        BY <2>1, <2>4, <3>2 DEF Waiting
      <3>4. OwnerInv' /\ NoPanic'
        BY <3>1, <3>3
      <3>5. AwakeInv'
        BY <2>1, <2>3, <3>1
      <3>6. WaiterInv'
        BY <2>1, <2>4, <3>2 DEF Waiting
      <3>7. WakerInv'
        BY <2>1, <2>2, <3>1, <3>2, <3>3
      <3> QED BY <3>4, <3>5, <3>6, <3>7
    <2> QED BY <2>5, <2>6
  <1>8. ASSUME NEW t \in Threads, WakeNext(t) PROVE HandOffInv'
    <2>1. /\ pc[t] = "wake" /\ pc' = [pc EXCEPT ![t] = "out"]
          /\ asleep' = [asleep EXCEPT ![next[t]] = FALSE]
          /\ UNCHANGED <<guard, owner, waiters, next>>
      BY <1>8 DEF WakeNext, thread_wake, Go
    <2>2. next[t] \in Threads /\ owner = next[t] /\ pc[next[t]] = "recheck"
      BY <2>1
    <2>3. \A u \in Threads : u # next[t] => asleep'[u] = asleep[u]
      BY <2>1, <2>2
    <2>4. \A u \in Threads : u # t => pc[u] # "wake"
      BY <2>1
    <2>5. OwnerInv' /\ NoPanic' /\ WakerInv'
      BY <2>1, <2>2, <2>4
    <2>6. AwakeInv'
      BY <2>1, <2>2, <2>3
    <2>7. WaiterInv'
      BY <1>q, <2>1, <2>2, <2>3 DEF Waiting
    <2> QED BY <2>5, <2>6, <2>7
  <1>9. ASSUME NEW t \in Threads, ExternalWake(t) PROVE HandOffInv'
    BY <1>9 DEF ExternalWake
  <1>10. CASE UNCHANGED vars
    BY <1>10 DEF vars, Waiting
  <1> QED
    BY <1>1, <1>2, <1>3, <1>4, <1>5, <1>6, <1>7, <1>8, <1>9, <1>10 DEF Next, Step

\* The hand-off invariant holds in every reachable state.
LEMMA HandOffAlways ==
    ASSUME ~Misuse, ~ExternalWakes
    PROVE  Spec => []HandOffInv
  <1>1. Init => HandOffInv
    <2> SUFFICES ASSUME Init PROVE HandOffInv
      OBVIOUS
    <2>1. waiters = <<>> /\ waiters \in Seq(Threads)
      BY DEF Init
    <2>2. Members(waiters) = {}
      BY <2>1, MembersBasics
    <2> QED BY <2>2 DEF Init, HandOffInv, OwnerInv, AwakeInv, WaiterInv, WakerInv,
                        NoPanic, Waiting
  <1>2. IInv /\ UnlockInv /\ HandOffInv /\ [Next]_vars => HandOffInv'
    BY HandOffInductive
  <1> QED BY <1>1, <1>2, MutexInvariant, UnlockInductive, PTL DEF Spec

\* If only mutex_unlock wakes threads and callers are correct, neither kpanic
\* of mutex.c is reached.
THEOREM MutexNoPanic ==
    ASSUME ~Misuse, ~ExternalWakes
    PROVE  Spec => []NoPanic
  BY HandOffAlways, PTL DEF HandOffInv
-----------------------------------------------------------------------------
(* No idle callers: thread_block_current always releases the guard.        *)

\* Whoever holds the guard is between taking it and giving it back.
HolderInv == guard # NULL => pc[guard] \in {"look", "sleep", "test", "pass"}

\* Without idle threads the guard is never left behind by a thread that has
\* gone on to something else.
LEMMA HolderInductive ==
    ASSUME IdleCtx = {}
    PROVE  Spec => []HolderInv
  <1>1. Init => HolderInv
    BY DEF Init, HolderInv
  <1>2. IInv /\ HolderInv /\ [Next]_vars => HolderInv'
    <2> SUFFICES ASSUME IInv, HolderInv, [Next]_vars PROVE HolderInv'
      OBVIOUS
    <2> USE DEF IInv, TypeOK, GuardInv, HolderInv
    <2>1. ASSUME NEW t \in Threads, Call(t) PROVE HolderInv'
      BY <2>1 DEF Call, Go
    <2>2. ASSUME NEW t \in Threads, Step(t) PROVE HolderInv'
      BY <2>2 DEF Step, spinlock_lock, mutex_try_lock, mutex_lock, thread_block_current,
                  Recheck, mutex_unlock, WakeNext, Go
    <2>3. ASSUME NEW t \in Threads, ExternalWake(t) PROVE HolderInv'
      BY <2>3 DEF ExternalWake
    <2>4. CASE UNCHANGED vars
      BY <2>4 DEF vars
    <2> QED BY <2>1, <2>2, <2>3, <2>4 DEF Next
  <1> QED BY <1>1, <1>2, MutexInvariant, PTL DEF Spec

\* Deadlock freedom of the mutex for every set of threads, when callers lock
\* and unlock in turn, only mutex_unlock wakes them and none is an idle thread:
\* a caller that cannot go on waits for the guard's holder, for the owner or
\* for the owner's waker, and one of those can go on.
THEOREM MutexNoDeadlock ==
    ASSUME ~Misuse, ~ExternalWakes, IdleCtx = {}
    PROVE  Spec => []NoDeadlock
  <1>1. IInv /\ HandOffInv /\ HolderInv => NoDeadlock
    <2> SUFFICES ASSUME IInv, HandOffInv, HolderInv,
                        NEW t \in Threads, pc[t] \notin {"out", "panic"}
                 PROVE  \E u \in WaitsFor(t) : CanStep(u)
      BY DEF NoDeadlock
    <2> USE DEF IInv, TypeOK, SleepInv
    <2>1. CASE guard # NULL
      <3>1. guard \in Threads /\ pc[guard] \in {"look", "sleep", "test", "pass"} /\ ~asleep[guard]
        BY <2>1 DEF HolderInv
      <3> QED BY <3>1 DEF WaitsFor, CanStep
    <2>2. CASE guard = NULL /\ ~asleep[t]
      BY <2>2 DEF WaitsFor, CanStep
    <2>3. CASE guard = NULL /\ asleep[t]
      <3>1. owner \in Threads
        <4>1. waiters = <<>> => ~Waiting(t)
          BY MembersBasics DEF Waiting
        <4> QED BY <2>3, <4>1 DEF NoLostWakeup
      <3>2. pc[owner] \in {"in", "unlock", "pass", "recheck"}
        BY <3>1 DEF HandOffInv, OwnerInv
      <3>3. CASE ~asleep[owner]
        BY <2>3, <3>1, <3>2, <3>3 DEF WaitsFor, CanStep
      <3>4. CASE asleep[owner]
        <4>1. PICK u \in Threads : pc[u] = "wake" /\ next[u] = owner
          BY <3>1, <3>4 DEF NoLostWakeup, QueueInv
        <4>2. ~asleep[u]
          BY <4>1
        <4> QED BY <4>1, <4>2 DEF WaitsFor, CanStep
      <3> QED BY <3>3, <3>4
    <2> QED BY <2>1, <2>2, <2>3
  <1> QED BY <1>1, MutexInvariant, HandOffAlways, HolderInductive, PTL
=============================================================================
