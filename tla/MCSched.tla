------------------------------ MODULE MCSched ------------------------------
EXTENDS Sched, TLC
ThreadSymmetry == Permutations(Threads)
=============================================================================
