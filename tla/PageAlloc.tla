----------------------------- MODULE PageAlloc -----------------------------
(***************************************************************************)
(* What kernel/src/mm/pmm.c promises its callers: a block of 2^o pages,    *)
(* aligned to its size, that nobody else holds, until the last reference   *)
(* to it is freed.  Which block is not said.  The buddy allocator of       *)
(* module Pmm implements this; the kernel heap is built on it.             *)
(***************************************************************************)
EXTENDS PageRuns

CONSTANT MaxOrder     \* PMM_MAX_ORDER

VARIABLES
    usable,     \* the pages that are memory
    held        \* the blocks in use

Alloc == \E o \in 0..(MaxOrder - 1) : \E p \in FreeRuns(usable, held, o) :
             held' = Took(held, p, o)
Ref   == \E p \in DOMAIN held : held' = [held EXCEPT ![p].ref = @ + 1]
Free  == \E p \in DOMAIN held : held' = Gave(held, p)

Spec == /\ held = [p \in {} |-> 0]
        /\ [][(Alloc \/ Ref \/ Free) /\ UNCHANGED usable]_<<usable, held>>
=============================================================================
