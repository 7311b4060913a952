----------------------------- MODULE FifoLock -----------------------------
(***************************************************************************)
(* What lib/mutex.c promises to a kernel thread: a mutual-exclusion lock   *)
(* that is handed to its waiters in the order in which they queued, with   *)
(* no barging: while somebody waits, nobody else can take it.              *)
(***************************************************************************)
EXTENDS QueueOps

CONSTANTS Threads, NULL

VARIABLES holder,   \* the thread the lock belongs to
          queue,    \* the threads that wait for it
          inside    \* the threads whose lock call has returned

lvars == <<holder, queue, inside>>

LInit == holder = NULL /\ queue = <<>> /\ inside = {}

Take(t) == /\ holder = NULL /\ queue = <<>>
           /\ holder' = t
           /\ inside' = inside \cup {t}
           /\ UNCHANGED queue

Wait(t) == /\ holder \notin {NULL, t}
           /\ t \notin Members(queue)
           /\ queue' = Append(queue, t)
           /\ UNCHANGED <<holder, inside>>

Enter(t) == /\ holder = t /\ t \notin inside
            /\ inside' = inside \cup {t}
            /\ UNCHANGED <<holder, queue>>

Release(t) == /\ holder = t /\ t \in inside
              /\ inside' = inside \ {t}
              /\ IF queue = <<>>
                 THEN holder' = NULL /\ UNCHANGED queue
                 ELSE holder' = Head(queue) /\ queue' = Tail(queue)

LNext == \E t \in Threads : Take(t) \/ Wait(t) \/ Enter(t) \/ Release(t)

LSpec == LInit /\ [][LNext]_lvars
=============================================================================
