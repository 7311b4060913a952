---------------------------- MODULE SchedProofs ----------------------------
(***************************************************************************)
(* Proofs about Sched.tla for any number of CPUs and threads.              *)
(*                                                                         *)
(* QueueInv (types and OnePlace) is inductive whatever the timer does.     *)
(* MachInv adds what the machine state has to do with the queues; it is    *)
(* inductive when the timer leaves the unlock-to-switch window alone.      *)
(***************************************************************************)
EXTENDS Sched, ProofFacts

QueueInv == TypeOK /\ OnePlace

\* Idle threads are distinct and are no spawned threads.
LEMMA IdleDistinct ==
    /\ \A c \in Cpus : Idle(c) \in Tcbs /\ Idle(c) \in Idles /\ Idle(c) \notin Threads
    /\ \A c, d \in Cpus : Idle(c) = Idle(d) => c = d
    /\ \A t \in Threads : t \in Tcbs /\ t \notin Idles
    /\ \A t \in Tcbs : t \in Threads \/ \E c \in Cpus : t = Idle(c)
  <1>1. \A c, d \in Cpus : Idle(c) = Idle(d) => c = d
    BY DEF Idle
  <1>2. \A c \in Cpus : Idle(c) \in Idles
    BY DEF Idles
  <1>3. \A t \in Idles : \E c \in Cpus : t = Idle(c)
    BY DEF Idles
  <1> QED BY <1>1, <1>2, <1>3, IdleAssumption DEF Tcbs

\* sched_next_thread drops nothing from a queue of runnable threads.
LEMMA SkippedNone ==
    ASSUME NEW c, NEW q \in Seq(Tcbs), NEW st,
           \A t \in Members(q) : st[t] = "RUNNABLE"
    PROVE  /\ Skipped(q, st) = 0
           /\ sched_next_thread(c, q, st) = IF q = <<>> THEN Idle(c) ELSE Head(q)
  <1> DEFINE P(k) == /\ \A i \in 1..k : st[q[i]] # "RUNNABLE"
                     /\ k < Len(q) => st[q[k + 1]] = "RUNNABLE"
  <1>0. Len(q) \in Nat /\ DOMAIN q = 1..Len(q)
    OBVIOUS
  <1>1. \A i \in 1..Len(q) : st[q[i]] = "RUNNABLE"
    BY <1>0 DEF Members
  <1>2. 0 \in 0..Len(q) /\ P(0)
    BY <1>0, <1>1
  <1>3. ASSUME NEW k \in 0..Len(q), P(k) PROVE k = 0
    <2> SUFFICES ASSUME k # 0 PROVE FALSE
      OBVIOUS
    <2>1. 1 \in 1..k /\ 1 \in 1..Len(q)
      BY <1>0
    <2> QED BY <1>1, <1>3, <2>1
  <1>4. Skipped(q, st) = CHOOSE k \in 0..Len(q) : P(k)
    BY DEF Skipped
  <1>5. Skipped(q, st) = 0
    <2> HIDE DEF P
    <2> QED BY <1>2, <1>3, <1>4
  <1>6. sched_next_thread(c, q, st) = IF 0 = Len(q) THEN Idle(c) ELSE q[1]
    BY <1>5 DEF sched_next_thread
  <1> QED BY <1>0, <1>5, <1>6

\* What sched_run_next_locked does to a queue of runnable threads: the next
\* thread leaves the queue, nothing else does.
Dispatched(c, q, z, st, tk, next) ==
    /\ \/ next = Idle(c) /\ q = <<>>
       \/ next \in Members(q)
    /\ \E r \in Seq(Tcbs) : /\ rq' = [rq EXCEPT ![c] = r]
                            /\ Unique(r)
                            /\ Members(r) = Members(q) \ {next}
    /\ zombies' = [zombies EXCEPT ![c] = z]
    /\ status' = [st EXCEPT ![next] = "RUNNING"]
    /\ ticks' = [tk EXCEPT ![next] = Quantum]
    /\ current' = [current EXCEPT ![c] = next]

\* Dispatch, with a duplicate-free queue of runnable threads, does this.
LEMMA DispatchEffect ==
    ASSUME NEW c \in Cpus, NEW q \in Seq(Tcbs), Unique(q),
           NEW z, NEW st, NEW tk, NEW next,
           \A t \in Members(q) : st[t] = "RUNNABLE",
           next = sched_next_thread(c, q, st),
           Dispatch(c, next, q, z, st, tk)
    PROVE  Dispatched(c, q, z, st, tk, next)
  <1>1. /\ Skipped(q, st) = 0
        /\ next = IF q = <<>> THEN Idle(c) ELSE Head(q)
    BY SkippedNone
  <1>2. /\ rq' = [rq EXCEPT ![c] = SubSeq(q, 0 + 2, Len(q))]
        /\ zombies' = [zombies EXCEPT ![c] = z]
        /\ status' = [st EXCEPT ![next] = "RUNNING"]
        /\ ticks' = [tk EXCEPT ![next] = Quantum]
        /\ current' = [current EXCEPT ![c] = next]
    BY <1>1 DEF Dispatch
  <1>3. CASE q = <<>>
    <2>1. SubSeq(q, 0 + 2, Len(q)) = <<>>
      BY <1>3
    <2>2. <<>> \in Seq(Tcbs) /\ Members(<<>>) = {} /\ Unique(<<>>)
      BY MembersBasics
    <2> QED BY <1>1, <1>2, <1>3, <2>1, <2>2 DEF Dispatched
  <1>4. CASE q # <<>>
    <2>1. /\ Tail(q) \in Seq(Tcbs) /\ Unique(Tail(q))
          /\ Head(q) \in Members(q)
          /\ Members(Tail(q)) = Members(q) \ {Head(q)}
          /\ SubSeq(q, 2, Len(q)) = Tail(q)
      BY <1>4, MembersTail
    <2>2. 0 + 2 = 2
      OBVIOUS
    <2> QED BY <1>1, <1>2, <1>4, <2>1, <2>2 DEF Dispatched
  <1> QED BY <1>3, <1>4

-----------------------------------------------------------------------------
(* QueueInv.                                                               *)

\* The state in which sched_run_next_locked is entered: nobody of CPU c is
\* RUNNING, q and z are its queues; other CPUs are as they were.
Entered(c, q, z, st) ==
    /\ q \in Seq(Tcbs) /\ Unique(q)
    /\ z \in Seq(Tcbs) /\ Unique(z)
    /\ st \in [Tcbs -> Statuses]
    /\ Members(q) = {t \in Threads : st[t] = "RUNNABLE" /\ cpu_of[t] = c}
    /\ Members(z) = {t \in Threads : st[t] = "ZOMBIE" /\ cpu_of[t] = c}
    /\ \A t \in Threads : IF cpu_of[t] = c THEN st[t] # "RUNNING"
                          ELSE st[t] = status[t]

\* The part of the type invariant that Dispatch may disturb.
SchedTypes ==
    /\ status  \in [Tcbs -> Statuses]
    /\ ticks   \in [Tcbs -> 0..Quantum]
    /\ rq      \in [Cpus -> Seq(Tcbs)]
    /\ zombies \in [Cpus -> Seq(Tcbs)]
    /\ current \in [Cpus -> Tcbs]

\* What a scheduling operation that set the statuses to st and picked next
\* leaves behind.
Left(c, st, next) ==
    /\ SchedTypes' /\ OnePlace'
    /\ next \in Tcbs
    /\ \/ next = Idle(c)
       \/ next \in Threads /\ cpu_of[next] = c /\ st[next] = "RUNNABLE"
    /\ status' = [st EXCEPT ![next] = "RUNNING"]
    /\ current' = [current EXCEPT ![c] = next]

\* Dispatch from such a state restores OnePlace.
LEMMA DispatchInductive ==
    ASSUME QueueInv, NEW c \in Cpus,
           NEW q, NEW z, NEW st, NEW tk \in [Tcbs -> 0..Quantum], NEW next,
           Entered(c, q, z, st), next = sched_next_thread(c, q, st),
           Dispatch(c, next, q, z, st, tk), UNCHANGED cpu_of
    PROVE  Left(c, st, next)
  <1>0. /\ Quantum \in 0..Quantum
        /\ TypeOK /\ OnePlace
    BY QuantumAssumption DEF QueueInv
  <1>1. Dispatched(c, q, z, st, tk, next)
    <2>1. q \in Seq(Tcbs) /\ Unique(q) /\ \A t \in Members(q) : st[t] = "RUNNABLE"
      BY DEF Entered
    <2> QED BY <2>1, DispatchEffect
  <1>2. PICK r \in Seq(Tcbs) : /\ rq' = [rq EXCEPT ![c] = r]
                               /\ Unique(r)
                               /\ Members(r) = Members(q) \ {next}
    BY <1>1 DEF Dispatched
  <1>3. \/ next = Idle(c)
        \/ next \in Threads /\ cpu_of[next] = c /\ st[next] = "RUNNABLE"
    BY <1>1 DEF Entered, Dispatched
  <1>4. next \in Tcbs
    BY <1>3, IdleDistinct
  <1>5. SchedTypes'
    BY <1>0, <1>1, <1>2, <1>4 DEF SchedTypes, TypeOK, Entered, Statuses, Dispatched
  <1>6. \A t \in Threads : /\ t # next => status'[t] = st[t]
                           /\ t = next => status'[t] = "RUNNING"
    BY <1>0, <1>1, IdleDistinct DEF Entered, Dispatched
  <1>7. ASSUME NEW d \in Cpus
        PROVE  /\ Unique(rq'[d]) /\ Unique(zombies'[d])
               /\ Members(rq'[d]) = {t \in Threads : status'[t] = "RUNNABLE" /\ cpu_of[t] = d}
               /\ Members(zombies'[d]) = {t \in Threads : status'[t] = "ZOMBIE" /\ cpu_of[t] = d}
               /\ current'[d] \in {Idle(d)} \cup {t \in Threads : cpu_of[t] = d}
    <2>1. CASE d = c
      <3>1. rq'[d] = r /\ zombies'[d] = z /\ current'[d] = next
        BY <1>0, <1>1, <1>2, <2>1 DEF TypeOK, Dispatched
      <3>2. \A t \in Threads : (status'[t] = "RUNNABLE" /\ cpu_of[t] = d)
                                 <=> (t \in Members(q) /\ t # next)
        BY <1>3, <1>6, <2>1 DEF Entered
      <3>3. \A t \in Threads : (status'[t] = "ZOMBIE" /\ cpu_of[t] = d) <=> t \in Members(z)
        BY <1>3, <1>6, <2>1, IdleDistinct DEF Entered
      <3>4. Members(q) \subseteq Threads /\ Members(z) \subseteq Threads
        BY DEF Entered
      <3>5. Members(z) = {t \in Threads : status'[t] = "ZOMBIE" /\ cpu_of[t] = d}
        BY <3>3, <3>4
      <3>6. Members(r) = {t \in Threads : status'[t] = "RUNNABLE" /\ cpu_of[t] = d}
        BY <1>2, <3>2, <3>4
      <3> QED BY <1>2, <1>3, <2>1, <3>1, <3>5, <3>6 DEF Entered
    <2>2. CASE d # c
      <3>1. rq'[d] = rq[d] /\ zombies'[d] = zombies[d] /\ current'[d] = current[d]
        BY <1>0, <1>1, <1>2, <2>2 DEF TypeOK, Dispatched
      <3>2. \A t \in Threads : cpu_of[t] = d => status'[t] = status[t]
        BY <1>3, <1>6, <2>2, IdleDistinct DEF Entered
      <3> QED BY <1>0, <3>1, <3>2 DEF OnePlace
    <2> QED BY <2>1, <2>2
  <1>8. ASSUME NEW t \in Threads
        PROVE  status'[t] = "RUNNING" <=> current'[cpu_of[t]] = t
    <2>1. cpu_of[t] \in Cpus
      BY <1>0, IdleDistinct DEF TypeOK
    <2>2. CASE cpu_of[t] = c
      BY <1>0, <1>1, <1>6, <2>2 DEF TypeOK, Entered, Dispatched
    <2>3. CASE cpu_of[t] # c
      <3>1. current'[cpu_of[t]] = current[cpu_of[t]]
        BY <1>0, <1>1, <2>1, <2>3 DEF TypeOK, Dispatched
      <3>2. status'[t] = status[t]
        BY <1>3, <1>6, <2>3, IdleDistinct DEF Entered
      <3> QED BY <1>0, <3>1, <3>2 DEF OnePlace
    <2> QED BY <2>2, <2>3
  <1>9. OnePlace'
    BY <1>7, <1>8 DEF OnePlace
  <1> QED BY <1>1, <1>3, <1>4, <1>5, <1>9 DEF Dispatched, Left

\* The part of the type invariant about the machine state.
MachTypes ==
    /\ ctx   \in [Tcbs -> Context]
    /\ stack \in [Cpus -> Tcbs]
    /\ pend  \in [Cpus -> Switch \cup {NoSwitch}]
    /\ intr  \in [Cpus -> BOOLEAN]

\* context_switch keeps the machine state well-typed.
LEMMA ResumeTypes ==
    ASSUME TypeOK, NEW c \in Cpus, NEW from \in Tcbs, NEW to \in Tcbs,
           NEW saved \in Context, NEW flag \in BOOLEAN,
           Resume(c, from, to, saved, flag)
    PROVE  MachTypes'
  <1> DEFINE saves == [ctx EXCEPT ![from] = saved]
             load  == saves[to]
  <1>1. saves \in [Tcbs -> Context]
    BY DEF TypeOK
  <1>2. load \in Context
    BY <1>1
  <1>3. /\ ctx'   = [saves EXCEPT ![to] = [load EXCEPT !.at = "used"]]
        /\ stack' = [stack EXCEPT ![c] = load.on]
        /\ pend'  = [pend EXCEPT ![c] = load.then]
        /\ intr'  = [intr EXCEPT ![c] = IF load.at \in {"fresh", "isr"} THEN TRUE ELSE flag]
    BY <1>1 DEF Resume
  <1> HIDE DEF saves, load
  <1>4. [load EXCEPT !.at = "used"] \in Context /\ load.on \in Tcbs
        /\ load.then \in Switch \cup {NoSwitch}
    BY <1>2 DEF Context
  <1>5. ctx' \in [Tcbs -> Context] /\ stack' \in [Cpus -> Tcbs]
        /\ pend' \in [Cpus -> Switch \cup {NoSwitch}]
    BY <1>1, <1>3, <1>4 DEF TypeOK
  <1>6. intr' \in [Cpus -> BOOLEAN]
    BY <1>3 DEF TypeOK
  <1> QED BY <1>5, <1>6 DEF MachTypes

\* So does announcing a switch.
LEMMA WillSwitchTypes ==
    ASSUME TypeOK, NEW c \in Cpus, NEW from \in Tcbs, NEW to \in Tcbs,
           NEW exiting \in BOOLEAN, WillSwitch(c, from, to, exiting)
    PROVE  MachTypes'
  <1> DEFINE p == IF to = from THEN NoSwitch
                  ELSE [kind |-> "switch", from |-> from, to |-> to, exiting |-> exiting]
  <1>1. p \in Switch \cup {NoSwitch}
    BY DEF Switch
  <1>2. pend' = [pend EXCEPT ![c] = p] /\ UNCHANGED <<ctx, stack, intr>>
    BY DEF WillSwitch
  <1> HIDE DEF p
  <1> QED BY <1>1, <1>2 DEF TypeOK, MachTypes

\* CountLess keeps the thread counts natural numbers.
LEMMA CountLessType ==
    ASSUME TypeOK, NEW c \in Cpus, NEW n \in Nat
    PROVE  CountLess(c, n) \in [Cpus -> Nat]
  <1> DEFINE v == IF count[c] > n THEN count[c] - n ELSE 0
  <1>a. count \in [Cpus -> Nat]
    BY DEF TypeOK
  <1>1. count[c] \in Nat /\ v \in Nat
    BY <1>a
  <1>2. CountLess(c, n) = [count EXCEPT ![c] = v]
    BY DEF CountLess
  <1> HIDE DEF v
  <1> QED BY <1>a, <1>1, <1>2

\* sched_init establishes QueueInv.
LEMMA InitQueueInv == Init => QueueInv
  <1> SUFFICES ASSUME Init PROVE QueueInv
    OBVIOUS
  <1>1. \A t \in Tcbs : \E c \in Cpus : t \in Threads \/ t = Idle(c)
    BY IdleDistinct, IdleAssumption
  <1>2. cpu_of \in [Tcbs -> Cpus]
    BY <1>1 DEF Init
  <1>3. \A t \in Tcbs : Fresh(t) \in Context /\ [Fresh(t) EXCEPT !.at = "used"] \in Context
    BY DEF Fresh, Context
  <1>4. ctx \in [Tcbs -> Context]
    BY <1>3 DEF Init
  <1>5. TypeOK
    BY <1>2, <1>4, IdleDistinct, QuantumAssumption DEF Init, TypeOK, Statuses
  <1>6. \A t \in Threads : status[t] = "NONE"
    BY IdleDistinct DEF Init
  <1>a. <<>> \in Seq(Tcbs)
    OBVIOUS
  <1>7. Members(<<>>) = {} /\ Unique(<<>>)
    BY <1>a, MembersBasics
  <1>8. \A c \in Cpus : rq[c] = <<>> /\ zombies[c] = <<>> /\ current[c] = Idle(c)
    BY DEF Init
  <1>9. \A t \in Threads : cpu_of[t] \in Cpus /\ current[cpu_of[t]] # t
    BY <1>2, <1>8, IdleDistinct
  <1>10. OnePlace
    BY <1>6, <1>7, <1>8, <1>9 DEF OnePlace
  <1> QED BY <1>5, <1>10 DEF QueueInv

-----------------------------------------------------------------------------
(* The operations that give up the CPU.                                    *)

\* The current thread of a CPU: the idle thread, or a RUNNING thread of that
\* CPU, which is in neither queue.
LEMMA CurrentThread ==
    ASSUME QueueInv, NEW c \in Cpus
    PROVE  /\ current[c] \in Tcbs
           /\ rq[c] \in Seq(Tcbs) /\ zombies[c] \in Seq(Tcbs)
           /\ Unique(rq[c]) /\ Unique(zombies[c])
           /\ current[c] \notin Members(rq[c]) /\ current[c] \notin Members(zombies[c])
           /\ \/ current[c] = Idle(c)
              \/ /\ current[c] \in Threads /\ cpu_of[current[c]] = c
                 /\ status[current[c]] = "RUNNING"
           /\ \A t \in Threads : cpu_of[t] = c /\ t # current[c] => status[t] # "RUNNING"
  <1>1. current[c] \in Tcbs /\ rq[c] \in Seq(Tcbs) /\ zombies[c] \in Seq(Tcbs)
    BY DEF QueueInv, TypeOK
  <1>2. Unique(rq[c]) /\ Unique(zombies[c])
    BY DEF QueueInv, OnePlace
  <1>3. \/ current[c] = Idle(c)
        \/ /\ current[c] \in Threads /\ cpu_of[current[c]] = c
           /\ status[current[c]] = "RUNNING"
    BY DEF QueueInv, OnePlace
  <1>4. \A t \in Threads : cpu_of[t] = c /\ t # current[c] => status[t] # "RUNNING"
    BY DEF QueueInv, OnePlace
  <1>5. \A t \in Members(rq[c]) \cup Members(zombies[c]) :
            t \in Threads /\ status[t] # "RUNNING"
    BY DEF QueueInv, OnePlace
  <1>6. current[c] \notin Members(rq[c]) /\ current[c] \notin Members(zombies[c])
    BY <1>3, <1>5, IdleDistinct
  <1> QED BY <1>1, <1>2, <1>3, <1>4, <1>6

\* sched_yield puts the caller, if it is not idle, back into the queue.
LEMMA YieldStep ==
    ASSUME QueueInv, NEW c \in Cpus, sched_yield(c)
    PROVE  \E st, next :
              /\ Left(c, st, next)
              /\ WillSwitch(c, current[c], next, FALSE)
              /\ st = IF current[c] = Idle(c) THEN status
                      ELSE [status EXCEPT ![current[c]] = "RUNNABLE"]
  <1> DEFINE cur  == current[c]
             st   == IF cur # Idle(c) THEN [status EXCEPT ![cur] = "RUNNABLE"] ELSE status
             tk   == IF cur # Idle(c) THEN [ticks EXCEPT ![cur] = Quantum] ELSE ticks
             q    == IF cur # Idle(c) THEN Append(rq[c], cur) ELSE rq[c]
             next == sched_next_thread(c, q, st)
  <1>1. cur # Idle(c) => status[cur] # "ZOMBIE"
    BY CurrentThread
  <1>2. /\ Dispatch(c, next, q, zombies[c], st, tk)
        /\ WillSwitch(c, cur, next, FALSE)
        /\ UNCHANGED cpu_of
    BY <1>1 DEF sched_yield, Requeue
  <1>a. Quantum \in 0..Quantum /\ ticks \in [Tcbs -> 0..Quantum]
    BY QuantumAssumption DEF QueueInv, TypeOK
  <1>3. tk \in [Tcbs -> 0..Quantum]
    BY <1>a
  <1>4. Entered(c, q, zombies[c], st)
    <2>1. TypeOK /\ OnePlace
      BY DEF QueueInv
    <2>2. st \in [Tcbs -> Statuses]
      BY <2>1 DEF TypeOK, Statuses
    <2>3. CASE cur = Idle(c)
      <3>1. q = rq[c] /\ st = status
        BY <2>3
      <3> HIDE DEF q, st
      <3> QED BY <2>1, <2>2, <2>3, <3>1, CurrentThread, IdleDistinct DEF Entered, OnePlace
    <2>4. CASE cur # Idle(c)
      <3>1. q = Append(rq[c], cur) /\ st = [status EXCEPT ![cur] = "RUNNABLE"]
        BY <2>4
      <3>2. cur \in Threads /\ cpu_of[cur] = c /\ status[cur] = "RUNNING" /\ cur \in Tcbs
        BY <2>4, CurrentThread
      <3>3. q \in Seq(Tcbs) /\ Members(q) = Members(rq[c]) \cup {cur} /\ Unique(q)
        BY <3>1, <3>2, CurrentThread, MembersAppend
      <3>4. \A t \in Threads : IF t = cur THEN st[t] = "RUNNABLE" ELSE st[t] = status[t]
        BY <2>1, <3>1, IdleDistinct DEF TypeOK
      <3> HIDE DEF q, st, cur
      <3>5. Members(q) = {t \in Threads : st[t] = "RUNNABLE" /\ cpu_of[t] = c}
        BY <2>1, <3>2, <3>3, <3>4 DEF OnePlace
      <3>6. Members(zombies[c]) = {t \in Threads : st[t] = "ZOMBIE" /\ cpu_of[t] = c}
        BY <2>1, <3>2, <3>4 DEF OnePlace
      <3>7. \A t \in Threads : IF cpu_of[t] = c THEN st[t] # "RUNNING" ELSE st[t] = status[t]
        BY <3>2, <3>4, CurrentThread DEF cur
      <3> QED BY <2>2, <3>3, <3>5, <3>6, <3>7, CurrentThread DEF Entered
    <2> QED BY <2>3, <2>4
  <1> HIDE DEF q, st, tk
  <1>5. Left(c, st, next)
    BY <1>2, <1>3, <1>4, DispatchInductive
  <1>6. st = IF cur = Idle(c) THEN status ELSE [status EXCEPT ![cur] = "RUNNABLE"]
    BY DEF st
  <1> QED BY <1>2, <1>5, <1>6

\* thread_block_current takes the caller off the CPU and out of the queues.
LEMMA BlockStep ==
    ASSUME QueueInv, NEW c \in Cpus, BlockSelf(c)
    PROVE  \E next : /\ Left(c, [status EXCEPT ![current[c]] = "BLOCKED"], next)
                     /\ WillSwitch(c, current[c], next, FALSE)
  <1> DEFINE cur  == current[c]
             st   == [status EXCEPT ![cur] = "BLOCKED"]
             q    == Without(rq[c], cur)
             next == sched_next_thread(c, q, st)
  <1>1. /\ Dispatch(c, next, q, zombies[c], st, ticks)
        /\ WillSwitch(c, cur, next, FALSE)
        /\ UNCHANGED cpu_of /\ cur # Idle(c)
    BY DEF BlockSelf
  <1>2. TypeOK /\ OnePlace /\ ticks \in [Tcbs -> 0..Quantum]
    BY DEF QueueInv, TypeOK
  <1>3. Entered(c, q, zombies[c], st)
    <2>1. st \in [Tcbs -> Statuses]
      BY <1>2 DEF TypeOK, Statuses
    <2>2. cur \in Threads /\ cpu_of[cur] = c /\ status[cur] = "RUNNING" /\ cur \in Tcbs
      BY <1>1, CurrentThread
    <2>3. q \in Seq(Tcbs) /\ Members(q) = Members(rq[c]) \ {cur} /\ Unique(q)
      BY CurrentThread, MembersWithout
    <2>4. \A t \in Threads : IF t = cur THEN st[t] = "BLOCKED" ELSE st[t] = status[t]
      BY <1>2, IdleDistinct DEF TypeOK
    <2> HIDE DEF q, st, cur
    <2>5. Members(q) = {t \in Threads : st[t] = "RUNNABLE" /\ cpu_of[t] = c}
      BY <1>2, <2>2, <2>3, <2>4 DEF OnePlace
    <2>6. Members(zombies[c]) = {t \in Threads : st[t] = "ZOMBIE" /\ cpu_of[t] = c}
      BY <1>2, <2>2, <2>4 DEF OnePlace
    <2>7. \A t \in Threads : IF cpu_of[t] = c THEN st[t] # "RUNNING" ELSE st[t] = status[t]
      BY <2>2, <2>4, CurrentThread DEF cur
    <2> QED BY <2>1, <2>3, <2>5, <2>6, <2>7, CurrentThread DEF Entered
  <1> HIDE DEF q, st
  <1>4. Left(c, st, next)
    BY <1>1, <1>2, <1>3, DispatchInductive
  <1> QED BY <1>1, <1>4 DEF st

\* sched_exit moves the caller to the zombie queue; its own thread is never
\* the one picked, so the test for that case is never taken.
LEMMA ExitStep ==
    ASSUME QueueInv, NEW c \in Cpus, sched_exit(c)
    PROVE  \E next : /\ Left(c, [status EXCEPT ![current[c]] = "ZOMBIE"], next)
                     /\ WillSwitch(c, current[c], next, TRUE)
  <1> DEFINE cur  == current[c]
             st   == [status EXCEPT ![cur] = "ZOMBIE"]
             z    == Append(zombies[c], cur)
             next == sched_next_thread(c, rq[c], st)
  <1>2. TypeOK /\ OnePlace /\ ticks \in [Tcbs -> 0..Quantum]
    BY DEF QueueInv, TypeOK
  <1>a. cur # Idle(c)
    BY DEF sched_exit
  <1>3. Entered(c, rq[c], z, st)
    <2>1. st \in [Tcbs -> Statuses]
      BY <1>2 DEF TypeOK, Statuses
    <2>2. cur \in Threads /\ cpu_of[cur] = c /\ status[cur] = "RUNNING" /\ cur \in Tcbs
      BY <1>a, CurrentThread
    <2>3. z \in Seq(Tcbs) /\ Members(z) = Members(zombies[c]) \cup {cur} /\ Unique(z)
      BY <2>2, CurrentThread, MembersAppend
    <2>4. \A t \in Threads : IF t = cur THEN st[t] = "ZOMBIE" ELSE st[t] = status[t]
      BY <1>2, IdleDistinct DEF TypeOK
    <2> HIDE DEF z, st, cur
    <2>5. Members(rq[c]) = {t \in Threads : st[t] = "RUNNABLE" /\ cpu_of[t] = c}
      BY <1>2, <2>2, <2>4 DEF OnePlace
    <2>6. Members(z) = {t \in Threads : st[t] = "ZOMBIE" /\ cpu_of[t] = c}
      BY <1>2, <2>2, <2>3, <2>4 DEF OnePlace
    <2>7. \A t \in Threads : IF cpu_of[t] = c THEN st[t] # "RUNNING" ELSE st[t] = status[t]
      BY <2>2, <2>4, CurrentThread DEF cur
    <2> QED BY <2>1, <2>3, <2>5, <2>6, <2>7, CurrentThread DEF Entered
  <1>4. next # cur
    <2>1. \A t \in Members(rq[c]) : st[t] = "RUNNABLE"
      BY <1>3 DEF Entered
    <2>a. rq[c] \in Seq(Tcbs)
      BY CurrentThread
    <2> HIDE DEF st
    <2>2. next = IF rq[c] = <<>> THEN Idle(c) ELSE Head(rq[c])
      BY <2>1, <2>a, SkippedNone
    <2>3. rq[c] # <<>> => Head(rq[c]) \in Members(rq[c])
      BY CurrentThread, MembersTail
    <2> QED BY <1>a, <2>2, <2>3, CurrentThread
  <1>5. /\ Dispatch(c, next, rq[c], z, st, ticks)
        /\ WillSwitch(c, cur, next, TRUE)
        /\ UNCHANGED cpu_of
    BY <1>4 DEF sched_exit
  <1> HIDE DEF z, st
  <1>6. Left(c, st, next)
    BY <1>2, <1>3, <1>5, DispatchInductive
  <1> QED BY <1>5, <1>6 DEF st

\* sched_tick frees the zombies of its CPU and either keeps the current
\* thread or puts it back and resumes the next one.
LEMMA TickStep ==
    ASSUME QueueInv, NEW c \in Cpus, sched_tick(c)
    PROVE  \/ /\ SchedTypes' /\ OnePlace'
              /\ status' = Reaped(Members(zombies[c]))
              /\ UNCHANGED <<current, ctx, stack, pend, intr>>
           \/ \E st, next :
                 /\ Left(c, st, next)
                 /\ st = IF current[c] = Idle(c) THEN Reaped(Members(zombies[c]))
                         ELSE [Reaped(Members(zombies[c])) EXCEPT ![current[c]] = "RUNNABLE"]
                 /\ IF next = current[c] THEN UNCHANGED machvars
                    ELSE Resume(c, current[c], next,
                                [on |-> stack[c], at |-> "isr", then |-> pend[c]], FALSE)
  <1> DEFINE cur  == current[c]
             st0  == Reaped(Members(zombies[c]))
             left == IF st0[cur] = "RUNNING" /\ ticks[cur] > 0 THEN ticks[cur] - 1 ELSE ticks[cur]
             tk0  == [ticks EXCEPT ![cur] = left]
             keep == st0[cur] = "RUNNING" /\ left > 0 /\ (cur # Idle(c) \/ rq[c] = <<>>)
             back == cur # Idle(c)
             st   == IF back THEN [st0 EXCEPT ![cur] = "RUNNABLE"] ELSE st0
             tk   == IF back THEN [tk0 EXCEPT ![cur] = Quantum] ELSE tk0
             q    == IF back THEN Append(rq[c], cur) ELSE rq[c]
             next == sched_next_thread(c, q, st)
  <1>1. TypeOK /\ OnePlace
    BY DEF QueueInv
  <1>2. cur \in Tcbs /\ st0 \in [Tcbs -> Statuses]
    BY <1>1, CurrentThread DEF TypeOK, Reaped, Statuses
  <1>3. \A t \in Tcbs : st0[t] = IF t \in Members(zombies[c]) THEN "FREED" ELSE status[t]
    BY DEF Reaped
  <1>4. cur # Idle(c) => st0[cur] = "RUNNING" /\ cur \in Threads /\ cpu_of[cur] = c
    BY <1>2, <1>3, CurrentThread
  <1>5. tk0 \in [Tcbs -> 0..Quantum]
    <2>1. ticks[cur] \in 0..Quantum /\ ticks \in [Tcbs -> 0..Quantum] /\ Quantum \in Nat
      BY <1>1, <1>2, QuantumAssumption DEF TypeOK
    <2>2. left \in 0..Quantum
      BY <2>1
    <2> HIDE DEF left
    <2> QED BY <2>1, <2>2
  <1>6. tk \in [Tcbs -> 0..Quantum]
    <2>1. Quantum \in 0..Quantum
      BY QuantumAssumption
    <2> HIDE DEF tk0
    <2> QED BY <1>5, <2>1
  <1>7. /\ UNCHANGED cpu_of
        /\ \/ /\ keep
              /\ status' = st0
              /\ ticks' = tk0
              /\ zombies' = [zombies EXCEPT ![c] = <<>>]
              /\ UNCHANGED <<rq, current, ctx, stack, pend, intr>>
           \/ /\ Dispatch(c, next, q, <<>>, st, tk)
              /\ IF next = cur THEN UNCHANGED machvars
                 ELSE Resume(c, cur, next,
                             [on |-> stack[c], at |-> "isr", then |-> pend[c]], FALSE)
    BY <1>4 DEF sched_tick, Requeue
  <1>8. <<>> \in Seq(Tcbs)
    OBVIOUS
  <1>9. Members(<<>>) = {} /\ Unique(<<>>)
    BY <1>8, MembersBasics
  <1>b. \A t \in Threads : /\ cpu_of[t] = c => st0[t] # "ZOMBIE"
                           /\ st0[t] = "RUNNABLE" <=> status[t] = "RUNNABLE"
                           /\ st0[t] = "RUNNING" <=> status[t] = "RUNNING"
                           /\ cpu_of[t] # c => st0[t] = status[t]
    BY <1>1, <1>3, IdleDistinct DEF OnePlace
  <1> HIDE DEF st0, left, tk0
  <1>10. CASE /\ status' = st0
              /\ ticks' = tk0
              /\ zombies' = [zombies EXCEPT ![c] = <<>>]
              /\ UNCHANGED <<rq, current, ctx, stack, pend, intr>>
    <2>1. SchedTypes'
      BY <1>1, <1>2, <1>5, <1>8, <1>10 DEF SchedTypes, TypeOK
    <2>2. ASSUME NEW d \in Cpus
          PROVE  /\ Unique(zombies'[d])
                 /\ Members(zombies'[d]) = {t \in Threads : st0[t] = "ZOMBIE" /\ cpu_of[t] = d}
      <3>1. CASE d = c
        <4>1. zombies'[d] = <<>>
          BY <1>1, <1>10, <3>1 DEF TypeOK
        <4> QED BY <1>9, <1>b, <3>1, <4>1
      <3>2. CASE d # c
        <4>1. zombies'[d] = zombies[d]
          BY <1>1, <1>10, <3>2 DEF TypeOK
        <4>2. \A t \in Threads : cpu_of[t] = d => st0[t] = status[t]
          BY <1>b, <3>2
        <4> QED BY <1>1, <4>1, <4>2 DEF OnePlace
      <3> QED BY <3>1, <3>2
    <2>3. OnePlace'
      BY <1>1, <1>7, <1>10, <1>b, <2>2 DEF OnePlace
    <2> QED BY <1>10, <2>1, <2>3 DEF st0
  <1>11. CASE /\ Dispatch(c, next, q, <<>>, st, tk)
              /\ IF next = cur THEN UNCHANGED machvars
                 ELSE Resume(c, cur, next,
                             [on |-> stack[c], at |-> "isr", then |-> pend[c]], FALSE)
    <2>1. Entered(c, q, <<>>, st)
      <3>1. st \in [Tcbs -> Statuses]
        BY <1>2 DEF Statuses
      <3>2. CASE cur = Idle(c)
        <4>1. q = rq[c] /\ st = st0
          BY <3>2
        <4>2. \A t \in Threads : cpu_of[t] = c => st0[t] # "RUNNING"
          BY <1>b, <3>2, CurrentThread, IdleDistinct
        <4> HIDE DEF q, st
        <4>3. Members(q) = {t \in Threads : st[t] = "RUNNABLE" /\ cpu_of[t] = c}
          BY <1>1, <1>b, <4>1 DEF OnePlace
        <4>4. {} = {t \in Threads : st[t] = "ZOMBIE" /\ cpu_of[t] = c}
          BY <1>b, <4>1
        <4> QED BY <1>8, <1>9, <1>b, <3>1, <4>1, <4>2, <4>3, <4>4, CurrentThread DEF Entered
      <3>3. CASE cur # Idle(c)
        <4>1. q = Append(rq[c], cur) /\ st = [st0 EXCEPT ![cur] = "RUNNABLE"]
          BY <3>3
        <4>2. cur \in Threads /\ cpu_of[cur] = c /\ cur \in Tcbs
          BY <1>2, <1>4, <3>3
        <4>3. q \in Seq(Tcbs) /\ Members(q) = Members(rq[c]) \cup {cur} /\ Unique(q)
          BY <4>1, <4>2, CurrentThread, MembersAppend
        <4>4. \A t \in Threads : IF t = cur THEN st[t] = "RUNNABLE" ELSE st[t] = st0[t]
          BY <1>2, <4>1, IdleDistinct
        <4>5. \A t \in Threads : cpu_of[t] = c /\ t # cur => st0[t] # "RUNNING"
          BY <1>b, CurrentThread
        <4> HIDE DEF q, st, cur
        <4>6. Members(q) = {t \in Threads : st[t] = "RUNNABLE" /\ cpu_of[t] = c}
          BY <1>1, <1>b, <4>2, <4>3, <4>4 DEF OnePlace
        <4>7. {} = {t \in Threads : st[t] = "ZOMBIE" /\ cpu_of[t] = c}
          BY <1>b, <4>2, <4>4
        <4>8. \A t \in Threads : IF cpu_of[t] = c THEN st[t] # "RUNNING" ELSE st[t] = status[t]
          BY <1>b, <4>2, <4>4, <4>5
        <4> QED BY <1>8, <1>9, <3>1, <4>3, <4>6, <4>7, <4>8 DEF Entered
      <3> QED BY <3>2, <3>3
    <2> HIDE DEF q, st, tk
    <2>2. Left(c, st, next)
      BY <1>6, <1>7, <1>11, <2>1, DispatchInductive
    <2>3. st = IF cur = Idle(c) THEN st0 ELSE [st0 EXCEPT ![cur] = "RUNNABLE"]
      BY DEF st
    <2> QED BY <1>11, <2>2, <2>3 DEF st0
  <1> QED BY <1>7, <1>10, <1>11

-----------------------------------------------------------------------------
(* The operations on one thread or one queue.                              *)

\* spawn_thread, thread_block and thread_wake move one thread t, which is
\* not running, to status s and its queue to r.
LEMMA MoveInductive ==
    ASSUME QueueInv, NEW t \in Threads, NEW c \in Cpus, NEW s \in Statuses,
           NEW r \in Seq(Tcbs), Unique(r),
           status[t] \notin {"RUNNING", "ZOMBIE"}, s \notin {"RUNNING", "ZOMBIE"},
           status[t] = "NONE" \/ cpu_of[t] = c,
           Members(r) = IF s = "RUNNABLE" THEN Members(rq[c]) \cup {t} ELSE Members(rq[c]) \ {t},
           status' = [status EXCEPT ![t] = s],
           cpu_of' = [cpu_of EXCEPT ![t] = c],
           rq' = [rq EXCEPT ![c] = r],
           UNCHANGED <<zombies, current>>
    PROVE  OnePlace' /\ rq' \in [Cpus -> Seq(Tcbs)] /\ status' \in [Tcbs -> Statuses]
           /\ cpu_of' \in [Tcbs -> Cpus]
  <1>1. TypeOK /\ OnePlace
    BY DEF QueueInv
  <1>2. /\ rq' \in [Cpus -> Seq(Tcbs)] /\ status' \in [Tcbs -> Statuses]
        /\ cpu_of' \in [Tcbs -> Cpus]
    BY <1>1 DEF TypeOK
  <1>3. \A u \in Threads : /\ status'[u] = IF u = t THEN s ELSE status[u]
                           /\ cpu_of'[u] = IF u = t THEN c ELSE cpu_of[u]
    BY <1>1, IdleDistinct DEF TypeOK
  <1>4. \A d \in Cpus : rq'[d] = IF d = c THEN r ELSE rq[d]
    BY <1>1 DEF TypeOK
  <1>5. \A d \in Cpus : current[d] # t
    BY <1>1, IdleDistinct DEF OnePlace
  <1>6. ASSUME NEW d \in Cpus
        PROVE  /\ Unique(rq'[d])
               /\ Members(rq'[d]) = {u \in Threads : status'[u] = "RUNNABLE" /\ cpu_of'[u] = d}
    <2>1. CASE d = c
      BY <1>1, <1>3, <1>4, <2>1 DEF OnePlace
    <2>2. CASE d # c
      <3>1. t \notin Members(rq[d])
        BY <1>1, <2>2 DEF OnePlace
      <3> QED BY <1>1, <1>3, <1>4, <2>2, <3>1 DEF OnePlace
    <2> QED BY <2>1, <2>2
  <1>7. ASSUME NEW d \in Cpus
        PROVE  Members(zombies[d]) = {u \in Threads : status'[u] = "ZOMBIE" /\ cpu_of'[u] = d}
    BY <1>1, <1>3 DEF OnePlace
  <1>8. ASSUME NEW u \in Threads PROVE status'[u] = "RUNNING" <=> current[cpu_of'[u]] = u
    BY <1>1, <1>3, <1>5 DEF OnePlace
  <1>9. \A d \in Cpus : current[d] \in {Idle(d)} \cup {u \in Threads : cpu_of'[u] = d}
    BY <1>1, <1>3, <1>5 DEF OnePlace
  <1>10. \A d \in Cpus : Unique(zombies[d])
    BY <1>1 DEF OnePlace
  <1>11. OnePlace'
    BY <1>6, <1>7, <1>8, <1>9, <1>10 DEF OnePlace
  <1> QED BY <1>2, <1>11

\* Every step keeps every thread in exactly one place.
LEMMA NextQueueInv == QueueInv /\ [Next]_vars => QueueInv'
  <1> SUFFICES ASSUME QueueInv, [Next]_vars PROVE QueueInv'
    OBVIOUS
  <1>0. TypeOK /\ OnePlace
    BY DEF QueueInv
  <1>a. SchedTypes /\ MachTypes /\ cpu_of \in [Tcbs -> Cpus] /\ count \in [Cpus -> Nat]
    BY <1>0 DEF TypeOK, SchedTypes, MachTypes
  <1>b. ASSUME SchedTypes', MachTypes', OnePlace',
               (cpu_of \in [Tcbs -> Cpus])', (count \in [Cpus -> Nat])'
        PROVE  QueueInv'
    BY <1>b DEF QueueInv, TypeOK, SchedTypes, MachTypes
  <1>1. ASSUME NEW c \in Cpus, context_switch(c) PROVE QueueInv'
    <2> DEFINE p == pend[c]
               saved == [on |-> stack[c], at |-> IF p.exiting THEN "dead" ELSE "call",
                         then |-> NoSwitch]
    <2>1. p \in Switch
      BY <1>0, <1>1 DEF context_switch, TypeOK
    <2>2. saved \in Context
      BY <1>0 DEF TypeOK, Context
    <2>3. Resume(c, p.from, p.to, saved, intr[c]) /\ UNCHANGED schedvars
      BY <1>1 DEF context_switch
    <2>4. p.from \in Tcbs /\ p.to \in Tcbs
      BY <2>1 DEF Switch
    <2>5. intr[c] \in BOOLEAN
      BY <1>0 DEF TypeOK
    <2> HIDE DEF p, saved
    <2>6. MachTypes'
      BY <1>0, <2>2, <2>3, <2>4, <2>5, ResumeTypes
    <2>7. SchedTypes' /\ OnePlace'
      BY <1>0, <1>a, <2>3 DEF SchedTypes, OnePlace, schedvars
    <2> QED BY <1>a, <1>b, <2>3, <2>6, <2>7 DEF schedvars
  <1>2. ASSUME NEW c \in Cpus, sched_yield(c) PROVE QueueInv'
    <2>1. PICK st, next : Left(c, st, next) /\ WillSwitch(c, current[c], next, FALSE)
      BY <1>2, YieldStep
    <2>2. MachTypes'
      BY <1>0, <2>1, WillSwitchTypes, CurrentThread DEF Left
    <2> QED BY <1>2, <1>a, <1>b, <2>1, <2>2 DEF Left, sched_yield
  <1>3. ASSUME NEW c \in Cpus, BlockSelf(c) PROVE QueueInv'
    <2>1. PICK next : /\ Left(c, [status EXCEPT ![current[c]] = "BLOCKED"], next)
                      /\ WillSwitch(c, current[c], next, FALSE)
      BY <1>3, BlockStep
    <2>2. MachTypes'
      BY <1>0, <2>1, WillSwitchTypes, CurrentThread DEF Left
    <2> QED BY <1>3, <1>a, <1>b, <2>1, <2>2 DEF Left, BlockSelf
  <1>4. ASSUME NEW c \in Cpus, sched_exit(c) PROVE QueueInv'
    <2>1. PICK next : /\ Left(c, [status EXCEPT ![current[c]] = "ZOMBIE"], next)
                      /\ WillSwitch(c, current[c], next, TRUE)
      BY <1>4, ExitStep
    <2>2. MachTypes'
      BY <1>0, <2>1, WillSwitchTypes, CurrentThread DEF Left
    <2> QED BY <1>4, <1>a, <1>b, <2>1, <2>2 DEF Left, sched_exit
  <1>5. ASSUME NEW c \in Cpus, sched_reap(c) PROVE QueueInv'
    <2> DEFINE z == Head(zombies[c])
    <2>1. zombies[c] # <<>> /\ zombies[c] \in Seq(Tcbs) /\ Unique(zombies[c])
      BY <1>5, CurrentThread DEF sched_reap
    <2>2. /\ Tail(zombies[c]) \in Seq(Tcbs) /\ Unique(Tail(zombies[c]))
          /\ z \in Members(zombies[c])
          /\ Members(Tail(zombies[c])) = Members(zombies[c]) \ {z}
      BY <2>1, MembersTail
    <2>3. z \in Threads /\ status[z] = "ZOMBIE" /\ cpu_of[z] = c
      BY <1>0, <2>2 DEF OnePlace
    <2>4. /\ status' = Reaped({z})
          /\ zombies' = [zombies EXCEPT ![c] = Tail(zombies[c])]
          /\ count' = CountLess(c, 1)
          /\ UNCHANGED <<cpu_of, ticks, rq, current, ctx, stack, pend, intr>>
      BY <1>5 DEF sched_reap
    <2> HIDE DEF z
    <2>5. status' \in [Tcbs -> Statuses]
      BY <1>0, <2>4 DEF Reaped, TypeOK, Statuses
    <2>6. \A t \in Threads : status'[t] = IF t = z THEN "FREED" ELSE status[t]
      BY <2>4, IdleDistinct DEF Reaped
    <2>7. count' \in [Cpus -> Nat]
      BY <1>0, <2>4, CountLessType
    <2>8. SchedTypes'
      BY <1>a, <2>2, <2>4, <2>5 DEF SchedTypes
    <2>9. \A d \in Cpus : zombies'[d] = IF d = c THEN Tail(zombies[c]) ELSE zombies[d]
      BY <1>0, <2>4 DEF TypeOK
    <2>10. ASSUME NEW d \in Cpus
           PROVE  /\ Unique(zombies'[d])
                  /\ Members(zombies'[d]) = {t \in Threads : status'[t] = "ZOMBIE" /\ cpu_of[t] = d}
      BY <1>0, <2>2, <2>3, <2>6, <2>9 DEF OnePlace
    <2>a. ASSUME NEW d \in Cpus
          PROVE  Members(rq[d]) = {t \in Threads : status'[t] = "RUNNABLE" /\ cpu_of[t] = d}
      BY <1>0, <2>3, <2>6 DEF OnePlace
    <2>b. \A t \in Threads : status'[t] = "RUNNING" <=> current[cpu_of[t]] = t
      BY <1>0, <2>3, <2>6 DEF OnePlace
    <2>c. \A d \in Cpus : /\ Unique(rq[d])
                          /\ current[d] \in {Idle(d)} \cup {t \in Threads : cpu_of[t] = d}
      BY <1>0 DEF OnePlace
    <2>11. OnePlace'
      BY <2>4, <2>10, <2>a, <2>b, <2>c DEF OnePlace
    <2>12. MachTypes'
      BY <1>a, <2>4 DEF MachTypes
    <2> QED BY <1>a, <1>b, <2>4, <2>7, <2>8, <2>11, <2>12
  <1>6. ASSUME NEW c \in Cpus, sched_tick(c) PROVE QueueInv'
    <2>1. count' = CountLess(c, Len(zombies[c])) /\ UNCHANGED cpu_of
      BY <1>6 DEF sched_tick
    <2>2. count' \in [Cpus -> Nat]
      <3>1. Len(zombies[c]) \in Nat
        BY <1>0 DEF TypeOK
      <3> QED BY <1>0, <2>1, <3>1, CountLessType
    <2>3. CASE /\ SchedTypes' /\ OnePlace'
               /\ UNCHANGED <<ctx, stack, pend, intr>>
      <3>1. MachTypes'
        BY <1>a, <2>3 DEF MachTypes
      <3> QED BY <1>a, <1>b, <2>1, <2>2, <2>3, <3>1
    <2>4. CASE \E st, next :
                 /\ Left(c, st, next)
                 /\ IF next = current[c] THEN UNCHANGED machvars
                    ELSE Resume(c, current[c], next,
                                [on |-> stack[c], at |-> "isr", then |-> pend[c]], FALSE)
      <3> DEFINE saved == [on |-> stack[c], at |-> "isr", then |-> pend[c]]
      <3>1. PICK st, next :
                 /\ Left(c, st, next)
                 /\ IF next = current[c] THEN UNCHANGED machvars
                    ELSE Resume(c, current[c], next, saved, FALSE)
        BY <2>4
      <3>2. saved \in Context
        BY <1>0 DEF TypeOK, Context
      <3> HIDE DEF saved
      <3>3. MachTypes'
        <4>1. CASE next = current[c]
          BY <1>a, <3>1, <4>1 DEF MachTypes, machvars
        <4>2. CASE next # current[c]
          BY <1>0, <3>1, <3>2, <4>2, ResumeTypes, CurrentThread DEF Left
        <4> QED BY <4>1, <4>2
      <3> QED BY <1>a, <1>b, <2>1, <2>2, <3>1, <3>3 DEF Left
    <2> QED BY <1>6, <2>3, <2>4, TickStep
  <1>7. ASSUME NEW t \in Threads, thread_block(t) PROVE QueueInv'
    <2>1. cpu_of[t] \in Cpus
      BY <1>0, IdleDistinct DEF TypeOK
    <2> DEFINE c == cpu_of[t]
               r == Without(rq[c], t)
    <2>2. r \in Seq(Tcbs) /\ Unique(r) /\ Members(r) = Members(rq[c]) \ {t}
      BY <2>1, CurrentThread, MembersWithout
    <2>3. /\ status' = [status EXCEPT ![t] = "BLOCKED"]
          /\ rq' = [rq EXCEPT ![c] = r]
          /\ UNCHANGED <<cpu_of, ticks, zombies, current, count, ctx, stack, pend, intr>>
          /\ status[t] \in {"RUNNABLE", "BLOCKED"}
      BY <1>7 DEF thread_block
    <2>4. cpu_of' = [cpu_of EXCEPT ![t] = c]
      BY <1>0, <2>3 DEF TypeOK
    <2>5. "BLOCKED" \in Statuses
      BY DEF Statuses
    <2> HIDE DEF c, r
    <2>6. c \in Cpus
      BY <2>1 DEF c
    <2>7. OnePlace' /\ rq' \in [Cpus -> Seq(Tcbs)] /\ status' \in [Tcbs -> Statuses]
      BY <2>2, <2>3, <2>4, <2>5, <2>6, MoveInductive DEF c
    <2> QED BY <1>a, <1>b, <2>3, <2>7 DEF SchedTypes, MachTypes
  <1>8. ASSUME NEW t \in Threads, thread_wake(t) PROVE QueueInv'
    <2>1. cpu_of[t] \in Cpus /\ t \in Tcbs
      BY <1>0, IdleDistinct DEF TypeOK
    <2> DEFINE c == cpu_of[t]
               r == Append(rq[c], t)
    <2>2. status[t] = "BLOCKED" /\ t \notin Members(rq[c])
      BY <1>0, <1>8, <2>1 DEF thread_wake, OnePlace
    <2>3. r \in Seq(Tcbs) /\ Unique(r) /\ Members(r) = Members(rq[c]) \cup {t}
      BY <2>1, <2>2, CurrentThread, MembersAppend
    <2>4. /\ status' = [status EXCEPT ![t] = "RUNNABLE"]
          /\ ticks' = [ticks EXCEPT ![t] = Quantum]
          /\ rq' = [rq EXCEPT ![c] = r]
          /\ UNCHANGED <<cpu_of, zombies, current, count, ctx, stack, pend, intr>>
      BY <1>8, <2>2 DEF thread_wake
    <2>5. cpu_of' = [cpu_of EXCEPT ![t] = c]
      BY <1>0, <2>4 DEF TypeOK
    <2>6. "RUNNABLE" \in Statuses
      BY DEF Statuses
    <2>7. ticks' \in [Tcbs -> 0..Quantum]
      <3>1. Quantum \in 0..Quantum /\ ticks \in [Tcbs -> 0..Quantum]
        BY <1>0, QuantumAssumption DEF TypeOK
      <3> QED BY <2>4, <3>1
    <2> HIDE DEF c, r
    <2>8. c \in Cpus
      BY <2>1 DEF c
    <2>9. OnePlace' /\ rq' \in [Cpus -> Seq(Tcbs)] /\ status' \in [Tcbs -> Statuses]
      BY <2>2, <2>3, <2>4, <2>5, <2>6, <2>8, MoveInductive DEF c
    <2> QED BY <1>a, <1>b, <2>4, <2>7, <2>9 DEF SchedTypes, MachTypes
  <1>9. ASSUME NEW t \in Threads, NEW c \in Cpus, spawn_thread(t, c) PROVE QueueInv'
    <2> DEFINE r == Append(rq[c], t)
    <2>1. t \in Tcbs
      BY IdleDistinct
    <2>2. status[t] = "NONE" /\ t \notin Members(rq[c])
      BY <1>0, <1>9 DEF spawn_thread, OnePlace
    <2>3. r \in Seq(Tcbs) /\ Unique(r) /\ Members(r) = Members(rq[c]) \cup {t}
      BY <2>1, <2>2, CurrentThread, MembersAppend
    <2>4. /\ status' = [status EXCEPT ![t] = "RUNNABLE"]
          /\ cpu_of' = [cpu_of EXCEPT ![t] = c]
          /\ ticks' = [ticks EXCEPT ![t] = Quantum]
          /\ rq' = [rq EXCEPT ![c] = r]
          /\ count' = [count EXCEPT ![c] = count[c] + 1]
          /\ UNCHANGED <<zombies, current, ctx, stack, pend, intr>>
      BY <1>9 DEF spawn_thread
    <2>5. "RUNNABLE" \in Statuses
      BY DEF Statuses
    <2>6. ticks' \in [Tcbs -> 0..Quantum]
      <3>1. Quantum \in 0..Quantum /\ ticks \in [Tcbs -> 0..Quantum]
        BY <1>0, QuantumAssumption DEF TypeOK
      <3> QED BY <2>4, <3>1
    <2>7. count' \in [Cpus -> Nat]
      <3>1. count[c] \in Nat
        BY <1>a
      <3>2. count[c] + 1 \in Nat
        BY <3>1
      <3> QED BY <1>a, <2>4, <3>2
    <2> HIDE DEF r
    <2>8. OnePlace' /\ rq' \in [Cpus -> Seq(Tcbs)] /\ status' \in [Tcbs -> Statuses]
          /\ cpu_of' \in [Tcbs -> Cpus]
      BY <2>2, <2>3, <2>4, <2>5, MoveInductive
    <2> QED BY <1>a, <1>b, <2>4, <2>6, <2>7, <2>8 DEF SchedTypes, MachTypes
  <1>10. CASE UNCHANGED vars
    BY <1>0, <1>10 DEF QueueInv, TypeOK, OnePlace, vars
  <1> QED BY <1>1, <1>2, <1>3, <1>4, <1>5, <1>6, <1>7, <1>8, <1>9, <1>10 DEF Next, CpuStep

\* Whatever the threads, the CPUs and the timer do, every thread is in exactly
\* one place: OnePlace and the type invariant hold in every reachable state.
THEOREM SchedOnePlace == Spec => [](TypeOK /\ OnePlace)
  <1>1. QueueInv /\ [Next]_vars => QueueInv'
    BY NextQueueInv
  <1>2. Spec => []QueueInv
    BY <1>1, InitQueueInv, PTL DEF Spec
  <1>3. QueueInv => TypeOK /\ OnePlace
    BY DEF QueueInv
  <1> QED BY <1>2, <1>3, PTL

\* In particular the type invariant holds (whatever the timer does).
THEOREM SchedTypeOK == Spec => []TypeOK
  BY SchedOnePlace, PTL

-----------------------------------------------------------------------------
(* The thread counts.                                                      *)

Gone == {"NONE", "FREED"}

Unreaped(c) == {t \in Threads : cpu_of[t] = c /\ status[t] \notin Gone}

\* A duplicate-free queue has as many members as entries.
LEMMA CardMembers ==
    ASSUME NEW S, NEW q \in Seq(S), Unique(q)
    PROVE  Cardinality(Members(q)) = Len(q)
  <1>1. Len(q) \in Nat /\ DOMAIN q = 1..Len(q) /\ q \in [1..Len(q) -> Members(q)]
    BY DEF Members
  <1>2. \A x \in Members(q) : \E i \in 1..Len(q) : q[i] = x
    BY <1>1 DEF Members
  <1>3. q \in Bijection(1..Len(q), Members(q))
    BY <1>1, <1>2 DEF Bijection, Injection, Surjection, IsInjective, Unique
  <1>4. ExistsBijection(1..Len(q), Members(q))
    BY <1>3 DEF ExistsBijection
  <1> QED BY <1>1, <1>4, FS_CountingElements

\* The threads of a CPU can be counted.
LEMMA UnreapedFinite ==
    ASSUME NEW c
    PROVE  IsFiniteSet(Unreaped(c)) /\ Cardinality(Unreaped(c)) \in Nat
  <1>1. Unreaped(c) \in SUBSET Threads
    BY DEF Unreaped
  <1>2. IsFiniteSet(Unreaped(c))
    BY <1>1, ThreadsFinite, FS_Subset
  <1> QED BY <1>2, FS_CardinalityType

\* A step that creates and frees no thread leaves the counts right.
LEMMA CountKeeps ==
    ASSUME CountIsExact, UNCHANGED <<cpu_of, count>>,
           \A t \in Threads : status'[t] \in Gone <=> status[t] \in Gone
    PROVE  CountIsExact'
  <1>1. \A c \in Cpus : Unreaped(c)' = Unreaped(c)
    BY DEF Unreaped
  <1>2. \A c \in Cpus : count[c] = Cardinality(Unreaped(c))
    BY DEF CountIsExact, Unreaped, Gone
  <1>3. \A c \in Cpus : count'[c] = Cardinality(Unreaped(c)')
    BY <1>1, <1>2
  <1> QED BY <1>3 DEF CountIsExact, Unreaped, Gone

\* Freeing the zombies of a set Z of CPU c, with the count lowered by their
\* number, leaves the counts right: CountLess never reaches its floor early.
LEMMA CountReaps ==
    ASSUME TypeOK, CountIsExact, NEW c \in Cpus, NEW Z \in SUBSET Unreaped(c), NEW n,
           n = Cardinality(Z), count' = CountLess(c, n), UNCHANGED cpu_of,
           \A t \in Threads : status'[t] \in Gone <=> status[t] \in Gone \/ t \in Z
    PROVE  CountIsExact'
  <1>1. \A d \in Cpus : count[d] = Cardinality(Unreaped(d))
    BY DEF CountIsExact, Unreaped, Gone
  <1>2. IsFiniteSet(Unreaped(c)) /\ Cardinality(Unreaped(c)) \in Nat
    BY UnreapedFinite
  <1>3. IsFiniteSet(Z) /\ n \in Nat /\ n <= Cardinality(Unreaped(c))
    BY <1>2, FS_Subset, FS_CardinalityType
  <1>4. Unreaped(c)' = Unreaped(c) \ Z
    BY DEF Unreaped
  <1>5. \A d \in Cpus : d # c => Unreaped(d)' = Unreaped(d)
    BY DEF Unreaped
  <1>6. Unreaped(c) \cap Z = Z
    OBVIOUS
  <1>7. Cardinality(Unreaped(c) \ Z) = Cardinality(Unreaped(c)) - n
    BY <1>2, <1>6, FS_Difference
  <1>8. \A d \in Cpus : count'[d] = IF d = c THEN (IF count[c] > n THEN count[c] - n ELSE 0)
                                    ELSE count[d]
    BY DEF CountLess, TypeOK
  <1>9. count'[c] = Cardinality(Unreaped(c)')
    BY <1>1, <1>2, <1>3, <1>4, <1>7, <1>8
  <1>10. \A d \in Cpus : count'[d] = Cardinality(Unreaped(d)')
    BY <1>1, <1>5, <1>8, <1>9
  <1> QED BY <1>10 DEF CountIsExact, Unreaped, Gone

\* Creating thread t on CPU c, with the count raised by one.
LEMMA CountSpawns ==
    ASSUME TypeOK, CountIsExact, NEW c \in Cpus, NEW t \in Threads, spawn_thread(t, c)
    PROVE  CountIsExact'
  <1>1. \A d \in Cpus : count[d] = Cardinality(Unreaped(d))
    BY DEF CountIsExact, Unreaped, Gone
  <1>2. IsFiniteSet(Unreaped(c)) /\ Cardinality(Unreaped(c)) \in Nat
    BY UnreapedFinite
  <1>3. \A u \in Threads : /\ status'[u] = IF u = t THEN "RUNNABLE" ELSE status[u]
                           /\ cpu_of'[u] = IF u = t THEN c ELSE cpu_of[u]
    BY IdleDistinct DEF spawn_thread, TypeOK
  <1>4. status[t] \in Gone /\ "RUNNABLE" \notin Gone
    BY DEF spawn_thread, Gone
  <1>5. t \notin Unreaped(c) /\ Unreaped(c)' = Unreaped(c) \cup {t}
    BY <1>3, <1>4 DEF Unreaped
  <1>6. \A d \in Cpus : d # c => Unreaped(d)' = Unreaped(d)
    BY <1>3, <1>4 DEF Unreaped
  <1>7. Cardinality(Unreaped(c) \cup {t}) = Cardinality(Unreaped(c)) + 1
    BY <1>2, <1>5, FS_AddElement
  <1>8. \A d \in Cpus : count'[d] = IF d = c THEN count[c] + 1 ELSE count[d]
    BY DEF spawn_thread, TypeOK
  <1>9. \A d \in Cpus : count'[d] = Cardinality(Unreaped(d)')
    BY <1>1, <1>5, <1>6, <1>7, <1>8
  <1> QED BY <1>9 DEF CountIsExact, Unreaped, Gone

\* Setting the statuses to st and dispatching next frees and creates nobody.
LEMMA LeftGone ==
    ASSUME TypeOK, NEW c \in Cpus, NEW st \in [Tcbs -> Statuses], NEW next, Left(c, st, next)
    PROVE  \A t \in Threads : status'[t] \in Gone <=> st[t] \in Gone
  <1> SUFFICES ASSUME NEW t \in Threads PROVE status'[t] \in Gone <=> st[t] \in Gone
    OBVIOUS
  <1>1. status'[t] = IF t = next THEN "RUNNING" ELSE st[t]
    BY IdleDistinct DEF Left
  <1>2. t = next => st[t] = "RUNNABLE"
    BY IdleDistinct DEF Left
  <1> QED BY <1>1, <1>2 DEF Gone

\* Every step keeps the counts exact.
LEMMA NextCount ==
    ASSUME QueueInv, CountIsExact, [Next]_vars PROVE CountIsExact'
  <1>0. TypeOK /\ OnePlace /\ status \in [Tcbs -> Statuses]
    BY DEF QueueInv, TypeOK
  <1>a. ASSUME NEW c \in Cpus, NEW s \in {"RUNNABLE", "BLOCKED", "ZOMBIE"}, current[c] # Idle(c)
        PROVE  /\ [status EXCEPT ![current[c]] = s] \in [Tcbs -> Statuses]
               /\ \A t \in Threads : [status EXCEPT ![current[c]] = s][t] \in Gone
                                       <=> status[t] \in Gone
    <2>1. current[c] \in Threads /\ status[current[c]] = "RUNNING"
      BY <1>a, CurrentThread
    <2> QED BY <1>0, <2>1, IdleDistinct DEF Gone, Statuses
  <1>1. ASSUME NEW c \in Cpus, context_switch(c) PROVE CountIsExact'
    BY <1>1, CountKeeps DEF context_switch, schedvars
  <1>2. ASSUME NEW c \in Cpus, sched_yield(c) PROVE CountIsExact'
    <2>1. PICK st, next :
              /\ Left(c, st, next)
              /\ st = IF current[c] = Idle(c) THEN status
                      ELSE [status EXCEPT ![current[c]] = "RUNNABLE"]
      BY <1>2, YieldStep
    <2>2. st \in [Tcbs -> Statuses] /\ \A t \in Threads : st[t] \in Gone <=> status[t] \in Gone
      BY <1>0, <1>a, <2>1
    <2>3. \A t \in Threads : status'[t] \in Gone <=> st[t] \in Gone
      BY <1>0, <2>1, <2>2, LeftGone
    <2>4. UNCHANGED <<cpu_of, count>>
      BY <1>2 DEF sched_yield
    <2> QED BY <2>2, <2>3, <2>4, CountKeeps
  <1>3. ASSUME NEW c \in Cpus, BlockSelf(c) PROVE CountIsExact'
    <2>1. PICK st, next : Left(c, st, next) /\ st = [status EXCEPT ![current[c]] = "BLOCKED"]
      BY <1>3, BlockStep
    <2>a. current[c] # Idle(c) /\ UNCHANGED <<cpu_of, count>>
      BY <1>3 DEF BlockSelf
    <2>2. st \in [Tcbs -> Statuses] /\ \A t \in Threads : st[t] \in Gone <=> status[t] \in Gone
      BY <1>a, <2>1, <2>a
    <2>3. \A t \in Threads : status'[t] \in Gone <=> st[t] \in Gone
      BY <1>0, <2>1, <2>2, LeftGone
    <2> QED BY <2>2, <2>3, <2>a, CountKeeps
  <1>4. ASSUME NEW c \in Cpus, sched_exit(c) PROVE CountIsExact'
    <2>1. PICK st, next : Left(c, st, next) /\ st = [status EXCEPT ![current[c]] = "ZOMBIE"]
      BY <1>4, ExitStep
    <2>a. current[c] # Idle(c) /\ UNCHANGED <<cpu_of, count>>
      BY <1>4 DEF sched_exit
    <2>2. st \in [Tcbs -> Statuses] /\ \A t \in Threads : st[t] \in Gone <=> status[t] \in Gone
      BY <1>a, <2>1, <2>a
    <2>3. \A t \in Threads : status'[t] \in Gone <=> st[t] \in Gone
      BY <1>0, <2>1, <2>2, LeftGone
    <2> QED BY <2>2, <2>3, <2>a, CountKeeps
  <1>b. ASSUME NEW c \in Cpus PROVE Members(zombies[c]) \in SUBSET Unreaped(c)
    BY <1>0 DEF OnePlace, Unreaped, Gone
  <1>c. ASSUME NEW c \in Cpus, NEW Z \in SUBSET Members(zombies[c]), NEW st, st = Reaped(Z)
        PROVE  /\ st \in [Tcbs -> Statuses]
               /\ \A t \in Threads : st[t] \in Gone <=> status[t] \in Gone \/ t \in Z
    BY <1>0, <1>c, IdleDistinct DEF Reaped, Gone, Statuses
  <1>5. ASSUME NEW c \in Cpus, sched_reap(c) PROVE CountIsExact'
    <2>1. PICK Z : Z = {Head(zombies[c])}
      OBVIOUS
    <2>2. Head(zombies[c]) \in Members(zombies[c])
      BY <1>5, CurrentThread, MembersTail DEF sched_reap
    <2>3. status' = Reaped(Z) /\ count' = CountLess(c, 1) /\ UNCHANGED cpu_of
      BY <1>5, <2>1 DEF sched_reap
    <2>4. Z \in SUBSET Members(zombies[c])
      BY <2>1, <2>2
    <2>5. 1 = Cardinality(Z)
      BY <2>1, FS_Singleton
    <2>6. \A t \in Threads : status'[t] \in Gone <=> status[t] \in Gone \/ t \in Z
      BY <1>c, <2>3, <2>4
    <2>7. Z \in SUBSET Unreaped(c)
      BY <1>b, <2>4
    <2> QED BY <1>0, <2>3, <2>5, <2>6, <2>7, CountReaps
  <1>6. ASSUME NEW c \in Cpus, sched_tick(c) PROVE CountIsExact'
    <2>1. PICK Z : Z = Members(zombies[c])
      OBVIOUS
    <2>2. PICK st0 : st0 = Reaped(Z)
      OBVIOUS
    <2>3. /\ st0 \in [Tcbs -> Statuses]
          /\ \A t \in Threads : st0[t] \in Gone <=> status[t] \in Gone \/ t \in Z
      BY <1>c, <2>1, <2>2
    <2>4. count' = CountLess(c, Len(zombies[c])) /\ UNCHANGED cpu_of
      BY <1>6 DEF sched_tick
    <2>5. Len(zombies[c]) = Cardinality(Z)
      BY <2>1, CurrentThread, CardMembers
    <2>6. Z \in SUBSET Unreaped(c)
      BY <1>b, <2>1
    <2>7. \A t \in Threads : status'[t] \in Gone <=> status[t] \in Gone \/ t \in Z
      <3>1. CASE status' = st0
        BY <2>3, <3>1
      <3>2. ASSUME NEW st, NEW next, Left(c, st, next),
                   st = IF current[c] = Idle(c) THEN st0
                        ELSE [st0 EXCEPT ![current[c]] = "RUNNABLE"]
            PROVE  \A t \in Threads : status'[t] \in Gone <=> status[t] \in Gone \/ t \in Z
        <4>1. current[c] # Idle(c) => /\ current[c] \in Threads /\ current[c] \notin Z
                                      /\ status[current[c]] = "RUNNING"
          BY <2>1, CurrentThread
        <4>2. st \in [Tcbs -> Statuses] /\ \A t \in Threads : st[t] \in Gone <=> st0[t] \in Gone
          BY <2>3, <3>2, <4>1, IdleDistinct DEF Gone, Statuses
        <4>3. \A t \in Threads : status'[t] \in Gone <=> st[t] \in Gone
          BY <1>0, <3>2, <4>2, LeftGone
        <4> QED BY <2>3, <4>2, <4>3
      <3> QED BY <1>6, <2>1, <2>2, <3>1, <3>2, TickStep
    <2> QED BY <1>0, <2>4, <2>5, <2>6, <2>7, CountReaps
  <1>7. ASSUME NEW t \in Threads, thread_block(t) PROVE CountIsExact'
    <2>1. \A u \in Threads : status'[u] \in Gone <=> status[u] \in Gone
      BY <1>0, <1>7, IdleDistinct DEF thread_block, Gone
    <2> QED BY <1>7, <2>1, CountKeeps DEF thread_block
  <1>8. ASSUME NEW t \in Threads, thread_wake(t) PROVE CountIsExact'
    <2>1. \A u \in Threads : status'[u] \in Gone <=> status[u] \in Gone
      BY <1>0, <1>8, IdleDistinct DEF thread_wake, Gone
    <2> QED BY <1>8, <2>1, CountKeeps DEF thread_wake
  <1>9. ASSUME NEW t \in Threads, NEW c \in Cpus, spawn_thread(t, c) PROVE CountIsExact'
    BY <1>0, <1>9, CountSpawns
  <1>10. CASE UNCHANGED vars
    BY <1>10, CountKeeps DEF vars
  <1> QED BY <1>1, <1>2, <1>3, <1>4, <1>5, <1>6, <1>7, <1>8, <1>9, <1>10 DEF Next, CpuStep

\* For any number of CPUs and threads, and whatever the timer interrupts,
\* sched_thread_count is the number of threads of the CPU that have not been
\* reaped: the guarded decrement of sched_free_thread never meets its floor
\* with a thread still to account for.
THEOREM SchedCountIsExact == Spec => []CountIsExact
  <1>1. Init => CountIsExact
    <2> SUFFICES ASSUME Init, NEW c \in Cpus PROVE count[c] = Cardinality(Unreaped(c))
      BY DEF CountIsExact, Unreaped, Gone
    <2>1. Unreaped(c) = {}
      BY IdleDistinct DEF Init, Unreaped, Gone
    <2> QED BY <2>1, FS_EmptySet DEF Init
  <1>2. QueueInv /\ CountIsExact /\ [Next]_vars => CountIsExact'
    BY NextCount
  <1>3. QueueInv /\ [Next]_vars => QueueInv'
    BY NextQueueInv
  <1> QED BY <1>1, <1>2, <1>3, InitQueueInv, PTL DEF Spec

-----------------------------------------------------------------------------
(* MachInv: the machine state, when the window is not interrupted.         *)

\* The thread a switch p of CPU c leaves is of this CPU, and is a zombie
\* exactly when the switch is the one of sched_exit.
LeavesOwn(c, p) ==
    \/ p.from = Idle(c) /\ ~p.exiting
    \/ /\ p.from \in Threads /\ cpu_of[p.from] = c
       /\ status[p.from] \in (IF p.exiting THEN {"ZOMBIE"} ELSE {"RUNNABLE", "BLOCKED"})

\* Every pending switch leaves a thread of its CPU, for another one.
PendInv == \A c \in Cpus : pend[c] # NoSwitch =>
              LeavesOwn(c, pend[c]) /\ pend[c].from # pend[c].to

\* The idle threads never leave the status they were created with.
IdleInv == \A c \in Cpus : status[Idle(c)] = "RUNNING"

\* The context of t is one that t itself saved and that has not been resumed.
Saved(t) == /\ ctx[t].on = t
            /\ ctx[t].at \in {"fresh", "call", "isr"}
            /\ ctx[t].then = NoSwitch

\* Every thread that is alive and on no CPU can be resumed.
CtxInv == \A t \in Tcbs : status[t] \notin {"ZOMBIE", "FREED"}
                          /\ (\A c \in Cpus : stack[c] # t) => Saved(t)

MachInv == QueueInv /\ Coherent /\ PendInv /\ IdleInv /\ CtxInv

\* The action ZombieNotResumed allows.
Good == \A c \in Cpus : stack'[c] # stack[c] => status[stack'[c]] \notin {"ZOMBIE", "FREED"}

Alive(st, t) == st[t] \notin {"ZOMBIE", "FREED"}

\* Every CPU is on the stack of its idle thread or of a living or exiting
\* thread of its own; so no two CPUs share a stack.
LEMMA StackHome ==
    ASSUME MachInv
    PROVE  /\ \A c \in Cpus :
                 /\ stack[c] \in Tcbs
                 /\ status[stack[c]] \in {"RUNNING", "RUNNABLE", "BLOCKED", "ZOMBIE"}
                 /\ \/ stack[c] = Idle(c)
                    \/ stack[c] \in Threads /\ cpu_of[stack[c]] = c
           /\ \A c, d \in Cpus : stack[c] = stack[d] => c = d
  <1>1. ASSUME NEW c \in Cpus
        PROVE  /\ stack[c] \in Tcbs
               /\ status[stack[c]] \in {"RUNNING", "RUNNABLE", "BLOCKED", "ZOMBIE"}
               /\ \/ stack[c] = Idle(c)
                  \/ stack[c] \in Threads /\ cpu_of[stack[c]] = c
    <2>0. QueueInv /\ stack[c] \in Tcbs
      BY DEF MachInv, QueueInv, TypeOK
    <2>1. CASE pend[c] = NoSwitch
      <3>1. stack[c] = current[c]
        BY <2>1 DEF MachInv, Coherent
      <3> QED BY <2>0, <3>1, CurrentThread DEF MachInv, IdleInv
    <2>2. CASE pend[c] # NoSwitch
      BY <2>0, <2>2 DEF MachInv, Coherent, PendInv, LeavesOwn, IdleInv
    <2> QED BY <2>1, <2>2
  <1>2. \A c, d \in Cpus : stack[c] = stack[d] => c = d
    BY <1>1, IdleDistinct
  <1> QED BY <1>1, <1>2

\* Steps that leave the CPUs where they are and bring nobody back to life.
LEMMA StillMach ==
    ASSUME MachInv, QueueInv', UNCHANGED <<ctx, stack, pend, current>>,
           \A t \in Tcbs : Alive(status', t) => Alive(status, t),
           IdleInv', PendInv'
    PROVE  MachInv' /\ Good
  <1>1. Coherent'
    BY DEF MachInv, Coherent
  <1>2. CtxInv'
    BY DEF MachInv, CtxInv, Saved, Alive
  <1> QED BY <1>1, <1>2 DEF MachInv, Good

\* context_switch from the stack the CPU is on to a thread whose context is
\* saved and which is on no CPU.
LEMMA ResumeMach ==
    ASSUME MachInv, NEW c \in Cpus, NEW to \in Tcbs,
           NEW saved \in Context, NEW flag,
           Resume(c, stack[c], to, saved, flag),
           Saved(to), \A d \in Cpus : stack[d] # to,
           saved.on = stack[c], saved.then = NoSwitch,
           saved.at \in {"call", "isr"} \/ ~Alive(status', stack[c]),
           \A t \in Tcbs : Alive(status', t) => Alive(status, t)
    PROVE  /\ stack' = [stack EXCEPT ![c] = to]
           /\ pend' = [pend EXCEPT ![c] = NoSwitch]
           /\ CtxInv'
  <1> DEFINE from == stack[c]
  <1>1. from \in Tcbs /\ from # to /\ \A d \in Cpus : d # c => stack[d] # from
    BY StackHome
  <1>2. ctx \in [Tcbs -> Context] /\ stack \in [Cpus -> Tcbs]
    BY DEF MachInv, QueueInv, TypeOK
  <1> HIDE DEF from
  <1>3. [ctx EXCEPT ![from] = saved][to] = ctx[to]
    BY <1>1, <1>2
  <1>4. /\ stack' = [stack EXCEPT ![c] = ctx[to].on]
        /\ pend' = [pend EXCEPT ![c] = ctx[to].then]
        /\ ctx' = [[ctx EXCEPT ![from] = saved] EXCEPT ![to].at = "used"]
    BY <1>3 DEF Resume, from
  <1>5. stack' = [stack EXCEPT ![c] = to] /\ pend' = [pend EXCEPT ![c] = NoSwitch]
    BY <1>4 DEF Saved
  <1>6. \A t \in Tcbs : t # to => ctx'[t] = IF t = from THEN saved ELSE ctx[t]
    BY <1>1, <1>2, <1>4
  <1>7. \A d \in Cpus : stack'[d] = IF d = c THEN to ELSE stack[d]
    BY <1>2, <1>5
  <1>8. ASSUME NEW t \in Tcbs, Alive(status', t), \A d \in Cpus : stack'[d] # t
        PROVE  Saved(t)'
    <2>1. t # to
      BY <1>7, <1>8
    <2>2. CASE t = from
      <3>1. ctx'[t] = saved
        BY <1>6, <2>1, <2>2
      <3>2. saved.at \in {"call", "isr"}
        BY <1>8, <2>2 DEF from
      <3> QED BY <2>2, <3>1, <3>2 DEF Saved, from
    <2>3. CASE t # from
      <3>1. ctx'[t] = ctx[t]
        BY <1>6, <2>1, <2>3
      <3>2. \A d \in Cpus : stack[d] # t
        BY <1>7, <1>8, <2>3 DEF from
      <3>3. Saved(t)
        BY <1>8, <3>2 DEF MachInv, CtxInv, Alive
      <3> QED BY <3>1, <3>3 DEF Saved
    <2> QED BY <2>2, <2>3
  <1>9. CtxInv'
    BY <1>8 DEF CtxInv, Alive
  <1> QED BY <1>5, <1>9

\* A thread that gives up its CPU voluntarily, with new status s, opens the
\* window: the machine still runs on its stack.
LEMMA LeaveMach ==
    ASSUME MachInv, QueueInv', NEW c \in Cpus, NEW s, NEW ex \in BOOLEAN, NEW st, NEW next,
           IF ex THEN s = "ZOMBIE" ELSE s \in {"RUNNABLE", "BLOCKED"},
           pend[c] = NoSwitch, current[c] = Idle(c) => ~ex,
           st = IF current[c] = Idle(c) THEN status ELSE [status EXCEPT ![current[c]] = s],
           Left(c, st, next),
           WillSwitch(c, current[c], next, ex), UNCHANGED cpu_of
    PROVE  MachInv' /\ Good
  <1> DEFINE cur == current[c]
             sw  == [kind |-> "switch", from |-> cur, to |-> next, exiting |-> ex]
  <1>1. QueueInv /\ TypeOK /\ OnePlace
    BY DEF MachInv, QueueInv
  <1>2. stack[c] = cur /\ cur \in Tcbs
        /\ (cur = Idle(c) \/ (cur \in Threads /\ cpu_of[cur] = c /\ status[cur] = "RUNNING"))
    <2>1. stack[c] = cur
      BY DEF MachInv, Coherent
    <2> QED BY <1>1, <2>1, CurrentThread
  <1>3. /\ DOMAIN st = Tcbs /\ st = [t \in Tcbs |-> st[t]]
        /\ \A t \in Tcbs : st[t] = IF t = cur /\ cur # Idle(c) THEN s ELSE status[t]
    BY <1>1, <1>2 DEF TypeOK
  <1>4. /\ next \in Tcbs
        /\ \/ next = Idle(c)
           \/ next \in Threads /\ cpu_of[next] = c /\ st[next] = "RUNNABLE"
        /\ \A t \in Tcbs : status'[t] = IF t = next THEN "RUNNING" ELSE st[t]
        /\ \A d \in Cpus : current'[d] = IF d = c THEN next ELSE current[d]
    <2>1. current \in [Cpus -> Tcbs]
      BY <1>1 DEF TypeOK
    <2> QED BY <1>3, <2>1 DEF Left
  <1>5. UNCHANGED <<ctx, stack, intr>>
        /\ \A d \in Cpus : pend'[d] = IF d # c THEN pend[d]
                                      ELSE IF next = cur THEN NoSwitch ELSE sw
    BY <1>1 DEF WillSwitch, TypeOK
  <1>6. sw # NoSwitch /\ sw.from = cur /\ sw.to = next /\ sw.exiting = ex
    BY DEF NoSwitch
  <1> HIDE DEF sw, cur
  <1>7. Coherent'
    BY <1>2, <1>4, <1>5, <1>6 DEF MachInv, Coherent
  <1>8. \A t \in Tcbs : Alive(status', t) => Alive(status, t)
    BY <1>2, <1>3, <1>4 DEF Alive, MachInv, IdleInv
  <1>9. CtxInv'
    BY <1>5, <1>8 DEF MachInv, CtxInv, Saved, Alive
  <1>10. IdleInv'
    BY <1>2, <1>3, <1>4, IdleDistinct DEF MachInv, IdleInv
  <1>11. PendInv'
    <2> SUFFICES ASSUME NEW d \in Cpus, pend'[d] # NoSwitch
                 PROVE  LeavesOwn(d, pend[d])' /\ pend'[d].from # pend'[d].to
      BY DEF PendInv
    <2>1. CASE d = c
      <3>1. next # cur /\ pend'[d] = sw
        BY <1>5, <2>1
      <3>2. cur # Idle(c) => status'[cur] = s
        BY <1>2, <1>3, <1>4, <3>1
      <3>3. cur = Idle(c) => ~ex
        BY DEF cur
      <3> QED BY <1>2, <1>6, <2>1, <3>1, <3>2, <3>3 DEF LeavesOwn
    <2>2. CASE d # c
      <3>1. pend'[d] = pend[d]
        BY <1>5, <2>2
      <3>2. LeavesOwn(d, pend[d]) /\ pend[d].from # pend[d].to
        BY <3>1 DEF MachInv, PendInv
      <3>3. \A t \in Threads : cpu_of[t] = d => status'[t] = status[t]
        BY <1>2, <1>3, <1>4, <2>2, IdleDistinct
      <3> QED BY <3>1, <3>2, <3>3 DEF LeavesOwn
    <2> QED BY <2>1, <2>2
  <1>12. Good
    BY <1>5 DEF Good
  <1> QED BY <1>7, <1>9, <1>10, <1>11, <1>12 DEF MachInv

\* sched_init establishes MachInv.
LEMMA InitMachInv == Init => MachInv
  <1> SUFFICES ASSUME Init PROVE MachInv
    OBVIOUS
  <1>1. QueueInv
    BY InitQueueInv
  <1>2. \A c \in Cpus : stack[c] = Idle(c) /\ current[c] = Idle(c) /\ pend[c] = NoSwitch
    BY DEF Init
  <1>3. Coherent /\ PendInv
    BY <1>2 DEF Coherent, PendInv
  <1>4. IdleInv
    BY IdleDistinct DEF Init, IdleInv
  <1>5. CtxInv
    <2>1. ASSUME NEW t \in Threads PROVE Saved(t)
      <3>1. ctx[t] = Fresh(t)
        BY IdleDistinct DEF Init
      <3> QED BY <3>1 DEF Saved, Fresh
    <2>2. ASSUME NEW t \in Tcbs, \A c \in Cpus : stack[c] # t PROVE t \in Threads
      BY <1>2, <2>2, IdleDistinct
    <2> QED BY <2>1, <2>2 DEF CtxInv
  <1> QED BY <1>1, <1>3, <1>4, <1>5 DEF MachInv

\* Every step keeps MachInv and resumes no zombie, provided the timer does not
\* interrupt the window.
LEMMA NextMachInv ==
    ASSUME ~TickInWindow, MachInv, [Next]_vars
    PROVE  MachInv' /\ Good
  <1>0. QueueInv /\ TypeOK /\ OnePlace
    BY DEF MachInv, QueueInv
  <1>a. QueueInv'
    BY <1>0, NextQueueInv
  <1>1. ASSUME NEW c \in Cpus, context_switch(c) PROVE MachInv' /\ Good
    <2> DEFINE p == pend[c]
               saved == [on |-> stack[c], at |-> IF p.exiting THEN "dead" ELSE "call",
                         then |-> NoSwitch]
    <2>1. p # NoSwitch /\ stack[c] = p.from /\ current[c] = p.to /\ p.from # p.to
          /\ (p.exiting => status[p.from] = "ZOMBIE")
      BY <1>1 DEF context_switch, MachInv, Coherent, PendInv, LeavesOwn
    <2>2. Resume(c, stack[c], p.to, saved, intr[c]) /\ UNCHANGED schedvars
      BY <1>1, <2>1 DEF context_switch
    <2>3. saved \in Context
      BY <1>0 DEF TypeOK, Context
    <2>4. saved.on = stack[c] /\ saved.then = NoSwitch
          /\ (saved.at \in {"call", "isr"} \/ ~Alive(status', stack[c]))
      BY <2>1, <2>2 DEF Alive, schedvars
    <2>5. /\ p.to \in Tcbs /\ status[p.to] = "RUNNING"
          /\ p.to = Idle(c) \/ (p.to \in Threads /\ cpu_of[p.to] = c)
      BY <1>0, <2>1, CurrentThread DEF MachInv, IdleInv
    <2> HIDE DEF p, saved
    <2>6. \A d \in Cpus : stack[d] # p.to
      BY <2>1, <2>5, StackHome, IdleDistinct
    <2>7. Saved(p.to)
      BY <2>5, <2>6 DEF MachInv, CtxInv
    <2>8. /\ stack' = [stack EXCEPT ![c] = p.to]
          /\ pend' = [pend EXCEPT ![c] = NoSwitch]
          /\ CtxInv'
      <3>1. \A t \in Tcbs : Alive(status', t) => Alive(status, t)
        BY <2>2 DEF schedvars
      <3> QED BY <2>2, <2>3, <2>4, <2>5, <2>6, <2>7, <3>1, ResumeMach
    <2>9. \A d \in Cpus : /\ stack'[d] = IF d = c THEN p.to ELSE stack[d]
                          /\ pend'[d] = IF d = c THEN NoSwitch ELSE pend[d]
      BY <1>0, <2>8 DEF TypeOK
    <2>10. Coherent' /\ PendInv' /\ IdleInv'
      BY <2>1, <2>2, <2>9 DEF schedvars, MachInv, Coherent, PendInv, LeavesOwn, IdleInv
    <2>11. Good
      BY <2>5, <2>9 DEF Good
    <2> QED BY <1>a, <2>8, <2>10, <2>11 DEF MachInv
  <1>2. ASSUME NEW c \in Cpus, sched_yield(c) PROVE MachInv' /\ Good
    <2>1. pend[c] = NoSwitch /\ UNCHANGED cpu_of
      BY <1>2 DEF sched_yield
    <2>2. PICK st, next :
              /\ Left(c, st, next)
              /\ WillSwitch(c, current[c], next, FALSE)
              /\ st = IF current[c] = Idle(c) THEN status
                      ELSE [status EXCEPT ![current[c]] = "RUNNABLE"]
      BY <1>0, <1>2, YieldStep
    <2> QED BY <1>a, <2>1, <2>2, LeaveMach
  <1>3. ASSUME NEW c \in Cpus, BlockSelf(c) PROVE MachInv' /\ Good
    <2>1. pend[c] = NoSwitch /\ current[c] # Idle(c) /\ UNCHANGED cpu_of
      BY <1>3 DEF BlockSelf, InThread
    <2> DEFINE st == [status EXCEPT ![current[c]] = "BLOCKED"]
    <2>2. PICK next : Left(c, st, next) /\ WillSwitch(c, current[c], next, FALSE)
      BY <1>0, <1>3, BlockStep
    <2>3. st = IF current[c] = Idle(c) THEN status ELSE [status EXCEPT ![current[c]] = "BLOCKED"]
      BY <2>1
    <2> HIDE DEF st
    <2> QED BY <1>a, <2>1, <2>2, <2>3, LeaveMach
  <1>4. ASSUME NEW c \in Cpus, sched_exit(c) PROVE MachInv' /\ Good
    <2>1. pend[c] = NoSwitch /\ current[c] # Idle(c) /\ UNCHANGED cpu_of
      BY <1>4 DEF sched_exit, InThread
    <2> DEFINE st == [status EXCEPT ![current[c]] = "ZOMBIE"]
    <2>2. PICK next : Left(c, st, next) /\ WillSwitch(c, current[c], next, TRUE)
      BY <1>0, <1>4, ExitStep
    <2>3. st = IF current[c] = Idle(c) THEN status ELSE [status EXCEPT ![current[c]] = "ZOMBIE"]
      BY <2>1
    <2> HIDE DEF st
    <2> QED BY <1>a, <2>1, <2>2, <2>3, LeaveMach
  <1>5. ASSUME NEW c \in Cpus, sched_reap(c) PROVE MachInv' /\ Good
    <2> DEFINE z == Head(zombies[c])
    <2>1. zombies[c] # <<>> /\ zombies[c] \in Seq(Tcbs) /\ Unique(zombies[c])
      BY <1>0, <1>5, CurrentThread DEF sched_reap
    <2>2. z \in Members(zombies[c])
      BY <2>1, MembersTail
    <2>3. z \in Threads /\ status[z] = "ZOMBIE" /\ cpu_of[z] = c
      BY <1>0, <2>2 DEF OnePlace
    <2>4. /\ status' = Reaped({z}) /\ pend[c] = NoSwitch
          /\ UNCHANGED <<cpu_of, current, ctx, stack, pend, intr>>
      BY <1>5 DEF sched_reap
    <2> HIDE DEF z
    <2>5. \A t \in Tcbs : status'[t] = IF t = z THEN "FREED" ELSE status[t]
      BY <2>4 DEF Reaped
    <2>6. IdleInv'
      BY <2>3, <2>5, IdleDistinct DEF MachInv, IdleInv
    <2>7. PendInv'
      <3>1. ASSUME NEW d \in Cpus, pend[d] # NoSwitch PROVE pend[d].from # z
        <4>1. LeavesOwn(d, pend[d])
          BY <3>1 DEF MachInv, PendInv
        <4>2. CASE d = c
          BY <2>4, <3>1, <4>2
        <4> QED BY <2>3, <4>1, <4>2, IdleDistinct DEF LeavesOwn
      <3> QED BY <2>4, <2>5, <3>1, IdleDistinct DEF MachInv, PendInv, LeavesOwn
    <2>8. \A t \in Tcbs : Alive(status', t) => Alive(status, t)
      BY <2>5 DEF Alive
    <2> QED BY <1>a, <2>4, <2>6, <2>7, <2>8, StillMach
  <1>6. ASSUME NEW c \in Cpus, sched_tick(c) PROVE MachInv' /\ Good
    <2> DEFINE cur == current[c]
               st0 == Reaped(Members(zombies[c]))
               saved == [on |-> stack[c], at |-> "isr", then |-> pend[c]]
    <2>1. pend[c] = NoSwitch /\ stack[c] = cur /\ UNCHANGED cpu_of
      BY <1>6 DEF sched_tick, MachInv, Coherent
    <2>2. \A t \in Tcbs : st0[t] = IF t \in Members(zombies[c]) THEN "FREED" ELSE status[t]
      BY DEF Reaped
    <2>3. \A t \in Members(zombies[c]) : t \in Threads /\ cpu_of[t] = c /\ status[t] = "ZOMBIE"
      BY <1>0 DEF OnePlace
    <2>4. st0 \in [Tcbs -> {st0[t] : t \in Tcbs}]
      BY DEF Reaped
    <2>5. cur \in Tcbs /\ status[cur] = "RUNNING"
          /\ (cur = Idle(c) \/ (cur \in Threads /\ cpu_of[cur] = c))
      BY <1>0, CurrentThread DEF MachInv, IdleInv
    <2> HIDE DEF st0, saved
    <2>6. ASSUME \A t \in Tcbs : \/ status'[t] = st0[t]
                                 \/ /\ status'[t] \in {"RUNNING", "RUNNABLE"}
                                    /\ t = Idle(c) \/ (t \in Threads /\ cpu_of[t] = c)
                                    /\ status[t] \notin {"ZOMBIE", "FREED"},
                 status'[Idle(c)] = "RUNNING",
                 \A d \in Cpus \ {c} : pend'[d] = pend[d],
                 pend'[c] = NoSwitch
          PROVE  /\ IdleInv' /\ PendInv'
                 /\ \A t \in Tcbs : Alive(status', t) => Alive(status, t)
      <3>1. \A t \in Tcbs : Alive(status', t) => Alive(status, t)
        BY <2>2, <2>6 DEF Alive
      <3>2. IdleInv'
        BY <2>2, <2>3, <2>6, IdleDistinct DEF MachInv, IdleInv
      <3>3. ASSUME NEW d \in Cpus, pend'[d] # NoSwitch
            PROVE  LeavesOwn(d, pend[d])' /\ pend'[d].from # pend'[d].to
        <4>1. d # c /\ pend'[d] = pend[d]
          BY <2>6, <3>3
        <4>2. LeavesOwn(d, pend[d]) /\ pend[d].from # pend[d].to
          BY <3>3, <4>1 DEF MachInv, PendInv
        <4>3. \A t \in Threads : cpu_of[t] = d => status'[t] = status[t]
          BY <2>2, <2>3, <2>6, <4>1, IdleDistinct
        <4> QED BY <2>1, <4>1, <4>2, <4>3 DEF LeavesOwn
      <3>4. PendInv'
        BY <3>3 DEF PendInv
      <3> QED BY <3>1, <3>2, <3>4
    <2>7. CASE /\ status' = st0
               /\ UNCHANGED <<current, ctx, stack, pend, intr>>
      <3>1. status'[Idle(c)] = "RUNNING"
        BY <2>2, <2>3, <2>7, IdleDistinct DEF MachInv, IdleInv
      <3> QED BY <1>a, <2>1, <2>6, <2>7, <3>1, StillMach
    <2>8. CASE \E st, next :
                 /\ Left(c, st, next)
                 /\ st = IF cur = Idle(c) THEN st0 ELSE [st0 EXCEPT ![cur] = "RUNNABLE"]
                 /\ IF next = cur THEN UNCHANGED machvars
                    ELSE Resume(c, cur, next, saved, FALSE)
      <3>1. PICK st, next :
                 /\ Left(c, st, next)
                 /\ st = IF cur = Idle(c) THEN st0 ELSE [st0 EXCEPT ![cur] = "RUNNABLE"]
                 /\ IF next = cur THEN UNCHANGED machvars
                    ELSE Resume(c, cur, next, saved, FALSE)
        BY <2>8
      <3>2. /\ DOMAIN st = Tcbs /\ st = [t \in Tcbs |-> st[t]]
            /\ \A t \in Tcbs : st[t] = IF t = cur /\ cur # Idle(c) THEN "RUNNABLE" ELSE st0[t]
        BY <2>4, <2>5, <3>1
      <3>3. /\ next \in Tcbs
            /\ \/ next = Idle(c)
               \/ next \in Threads /\ cpu_of[next] = c /\ st[next] = "RUNNABLE"
            /\ \A t \in Tcbs : status'[t] = IF t = next THEN "RUNNING" ELSE st[t]
            /\ current' = [current EXCEPT ![c] = next]
        <4>1. /\ status' = [st EXCEPT ![next] = "RUNNING"] /\ next \in Tcbs
              /\ \/ next = Idle(c)
                 \/ next \in Threads /\ cpu_of[next] = c /\ st[next] = "RUNNABLE"
              /\ current' = [current EXCEPT ![c] = next]
          BY <3>1 DEF Left
        <4> QED BY <3>2, <4>1
      <3>4. status[next] \notin {"ZOMBIE", "FREED"}
        BY <2>2, <2>5, <3>2, <3>3 DEF MachInv, IdleInv
      <3>5. /\ IdleInv'
            /\ \A t \in Tcbs : Alive(status', t) => Alive(status, t)
            /\ (pend'[c] = NoSwitch /\ \A d \in Cpus \ {c} : pend'[d] = pend[d]) => PendInv'
        <4>1. status'[Idle(c)] = "RUNNING"
          BY <2>2, <2>3, <2>5, <3>2, <3>3, IdleDistinct DEF MachInv, IdleInv
        <4>2. \A t \in Tcbs : \/ status'[t] = st0[t]
                              \/ /\ status'[t] \in {"RUNNING", "RUNNABLE"}
                                 /\ t = Idle(c) \/ (t \in Threads /\ cpu_of[t] = c)
                                 /\ status[t] \notin {"ZOMBIE", "FREED"}
          BY <2>5, <3>2, <3>3, <3>4
        <4>3. \A t \in Tcbs : Alive(status', t) => Alive(status, t)
          BY <2>2, <4>2 DEF Alive
        <4>4. IdleInv'
          BY <2>2, <2>3, <4>1, <4>2, IdleDistinct DEF MachInv, IdleInv
        <4> QED BY <2>6, <4>1, <4>2, <4>3, <4>4
      <3>6. CASE next = cur
        <4>1. UNCHANGED <<ctx, stack, pend>>
          BY <3>1, <3>6 DEF machvars
        <4>2. UNCHANGED current
          BY <1>0, <3>3, <3>6 DEF TypeOK
        <4>3. PendInv'
          BY <2>1, <3>5, <4>1
        <4> QED BY <1>a, <3>5, <4>1, <4>2, <4>3, StillMach
      <3>7. CASE next # cur
        <4>1. Resume(c, stack[c], next, saved, FALSE)
          BY <2>1, <3>1, <3>7
        <4>2. saved \in Context /\ saved.on = stack[c] /\ saved.then = NoSwitch
              /\ saved.at \in {"call", "isr"}
          BY <1>0, <2>1 DEF TypeOK, Context, saved
        <4>3. \A d \in Cpus : stack[d] # next
          BY <2>1, <3>3, <3>7, StackHome, IdleDistinct
        <4>4. Saved(next)
          BY <3>3, <3>4, <4>3 DEF MachInv, CtxInv
        <4>5. /\ stack' = [stack EXCEPT ![c] = next]
              /\ pend' = [pend EXCEPT ![c] = NoSwitch]
              /\ CtxInv'
          BY <3>3, <3>5, <4>1, <4>2, <4>3, <4>4, ResumeMach
        <4>6. /\ \A d \in Cpus : /\ stack'[d] = IF d = c THEN next ELSE stack[d]
                                 /\ pend'[d] = IF d = c THEN NoSwitch ELSE pend[d]
                                 /\ current'[d] = IF d = c THEN next ELSE current[d]
          BY <1>0, <3>3, <4>5 DEF TypeOK
        <4>7. Coherent'
          BY <4>6 DEF MachInv, Coherent
        <4>8. PendInv'
          BY <3>5, <4>6
        <4>9. Good
          BY <3>4, <4>6 DEF Good
        <4> QED BY <1>a, <3>5, <4>5, <4>7, <4>8, <4>9 DEF MachInv
      <3> QED BY <3>6, <3>7
    <2> QED BY <1>0, <1>6, <2>7, <2>8, TickStep DEF st0, saved
  <1>7. ASSUME NEW t \in Threads, NEW s \in {"RUNNABLE", "BLOCKED"},
               status' = [status EXCEPT ![t] = s],
               status[t] \in {"NONE", "RUNNABLE", "BLOCKED"},
               \A u \in Threads : u # t => cpu_of'[u] = cpu_of[u],
               cpu_of'[t] = cpu_of[t] \/ status[t] = "NONE",
               UNCHANGED <<ctx, stack, pend, current>>
        PROVE  MachInv' /\ Good
    <2>1. \A u \in Tcbs : status'[u] = IF u = t THEN s ELSE status[u]
      BY <1>0, <1>7 DEF TypeOK
    <2>2. IdleInv'
      BY <2>1, IdleDistinct DEF MachInv, IdleInv
    <2>3. PendInv'
      BY <1>7, <2>1, IdleDistinct DEF MachInv, PendInv, LeavesOwn
    <2>4. \A u \in Tcbs : Alive(status', u) => Alive(status, u)
      BY <1>7, <2>1 DEF Alive
    <2> QED BY <1>7, <1>a, <2>2, <2>3, <2>4, StillMach
  <1>8. ASSUME NEW t \in Threads, thread_block(t) \/ thread_wake(t) PROVE MachInv' /\ Good
    BY <1>7, <1>8 DEF thread_block, thread_wake
  <1>9. ASSUME NEW t \in Threads, NEW c \in Cpus, spawn_thread(t, c) PROVE MachInv' /\ Good
    <2>1. \A u \in Threads : u # t => cpu_of'[u] = cpu_of[u]
      BY <1>0, <1>9, IdleDistinct DEF spawn_thread, TypeOK
    <2> QED BY <1>7, <1>9, <2>1 DEF spawn_thread
  <1>10. CASE UNCHANGED vars
    BY <1>a, <1>10, StillMach DEF vars, MachInv, IdleInv, PendInv, LeavesOwn, Alive
  <1> QED BY <1>1, <1>2, <1>3, <1>4, <1>5, <1>6, <1>8, <1>9, <1>10 DEF Next, CpuStep

-----------------------------------------------------------------------------
(* The theorems.                                                           *)

\* MachInv implies the three state properties of the model.
LEMMA MachInvImplies == MachInv => Coherent /\ StackInUse /\ Resumable
  <1> SUFFICES ASSUME MachInv PROVE StackInUse /\ Resumable
    BY DEF MachInv
  <1>1. StackInUse
    BY StackHome DEF StackInUse
  <1>2. ASSUME NEW t \in Threads, status[t] \in {"RUNNABLE", "BLOCKED"}
        PROVE  Saved(t) \/ (pend[cpu_of[t]] # NoSwitch /\ pend[cpu_of[t]].from = t)
    <2>1. CASE \A c \in Cpus : stack[c] # t
      BY <1>2, <2>1, IdleDistinct DEF MachInv, CtxInv
    <2>2. CASE \E c \in Cpus : stack[c] = t
      <3>1. PICK c \in Cpus : stack[c] = t
        BY <2>2
      <3>2. cpu_of[t] = c
        BY <3>1, StackHome, IdleDistinct
      <3>3. current[c] # t
        BY <1>2, <3>2 DEF MachInv, QueueInv, OnePlace
      <3> QED BY <3>1, <3>2, <3>3 DEF MachInv, Coherent
    <2> QED BY <2>1, <2>2
  <1>3. Resumable
    BY <1>2 DEF Resumable, Saved
  <1> QED BY <1>1, <1>3

\* When the timer does not interrupt the window, a CPU runs what
\* current_thread says, or is about to switch to it.
THEOREM SchedCoherent ==
    ASSUME ~TickInWindow PROVE Spec => []Coherent
  <1>1. MachInv /\ [Next]_vars => MachInv'
    BY NextMachInv
  <1> QED BY <1>1, InitMachInv, MachInvImplies, PTL DEF Spec

\* Likewise, no CPU runs on a freed stack and no two share one.
THEOREM SchedStackInUse ==
    ASSUME ~TickInWindow PROVE Spec => []StackInUse
  <1>1. MachInv /\ [Next]_vars => MachInv'
    BY NextMachInv
  <1> QED BY <1>1, InitMachInv, MachInvImplies, PTL DEF Spec

\* Likewise, a thread waiting to run has a context of its own to resume, or
\* is being saved.
THEOREM SchedResumable ==
    ASSUME ~TickInWindow PROVE Spec => []Resumable
  <1>1. MachInv /\ [Next]_vars => MachInv'
    BY NextMachInv
  <1> QED BY <1>1, InitMachInv, MachInvImplies, PTL DEF Spec

\* Likewise, no CPU switches to the stack of a thread that has exited: the
\* kpanic at the end of sched_exit is not reached.
THEOREM SchedZombieNotResumed ==
    ASSUME ~TickInWindow PROVE Spec => ZombieNotResumed
  <1>1. MachInv /\ [Next]_vars => MachInv'
    BY NextMachInv
  <1>2. MachInv /\ [Next]_vars => [Good]_vars
    BY NextMachInv
  <1>3. Spec => [][Good]_vars
    BY <1>1, <1>2, InitMachInv, PTL DEF Spec
  <1> QED BY <1>3 DEF ZombieNotResumed, Good
=============================================================================
