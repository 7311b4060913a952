-------------------------------- MODULE Pmm --------------------------------
(***************************************************************************)
(* kernel/src/mm/pmm.c, the physical page allocator: a buddy allocator     *)
(* over the page database of kernel/src/mm/pfndb.c.                        *)
(*                                                                         *)
(* The flags and the order of a page_t are only rewritten where the code   *)
(* writes them: pages inside a free block keep whatever flags and order    *)
(* they had when the block was merged or split, and free_block decides to  *)
(* coalesce by reading the flags of the buddy.  That those stale values    *)
(* never mislead it is what the invariants below are about.                *)
(*                                                                         *)
(* The loops of pmm_init, free_block and pmm_alloc take one step for each  *)
(* iteration.  hand is the block the running call has in its hands: the    *)
(* one free_block merges with its buddies, or the one pmm_alloc splits.    *)
(* One call runs at a time (the code has no lock), so that nothing comes   *)
(* between the steps of a call, and the invariants hold after each.        *)
(***************************************************************************)
EXTENDS QueueOps, FiniteSets

CONSTANTS
    MaxPfn,       \* max_pfn of the page database (the last entry is not RAM)
    MemMaps,      \* the sets of usable pages the boot loader may report
    MaxOrder,     \* PMM_MAX_ORDER: blocks have orders 0 .. MaxOrder - 1
    MaxRef,       \* bound on the references taken to one block
    DoubleFrees   \* TRUE: callers may free a block they have already freed

Pfns   == 0..MaxPfn
Orders == 0..(MaxOrder - 1)

ASSUME PmmAssumption ==
    /\ MaxPfn \in Nat /\ MaxOrder \in Nat \ {0} /\ MaxRef \in Nat \ {0}
    /\ \A m \in MemMaps : m \subseteq 0..(MaxPfn - 1)
    /\ DoubleFrees \in BOOLEAN

VARIABLES
    page,     \* page_t of every pfn: free, used, reserved flag, order, refcount
    lists,    \* free_lists[order], head first
    nfree,    \* free_page_count
    boot,     \* the next page that pmm_init frees, MaxPfn + 1 when it is done
    hand,     \* the block in the hands of free_block or pmm_alloc
    owned,    \* the blocks callers hold: a function from head pfn to references
    stale,    \* heads of freed blocks a caller may still hold a pointer to
    panic     \* the last pmm_free ended in kpanic

vars == <<page, lists, nfree, boot, hand, owned, stale, panic>>

\* No call is running.
NoBlock == [op |-> "none", pfn |-> 0, order |-> 0, want |-> 0]
Freeing(p, o) == [op |-> "free", pfn |-> p, order |-> o, want |-> 0]

Run(p, o) == p..(p + 2^o - 1)

-----------------------------------------------------------------------------
(* free_block.                                                             *)

\* buddy_pfn: pfn ^ (1 << order).
buddy_pfn(p, o) == IF (p \div 2^o) % 2 = 0 THEN p + 2^o ELSE p - 2^o

free_list_push(o, p)   == lists' = [lists EXCEPT ![o] = <<p>> \o @]
free_list_remove(o, p) == lists' = [lists EXCEPT ![o] = Without(@, p)]

\* Variants: the order of the buddy is not compared; merging stops one order
\* too early.
MergeAnyOrder(p, o) ==
    /\ o < MaxOrder - 1
    /\ buddy_pfn(p, o) <= MaxPfn
    /\ page[buddy_pfn(p, o)].free
MergeTooLittle(p, o) ==
    /\ o + 1 < MaxOrder - 1
    /\ buddy_pfn(p, o) <= MaxPfn
    /\ page[buddy_pfn(p, o)].free /\ page[buddy_pfn(p, o)].order = o

\* The test of free_block's loop: may the block p of order o be merged?
Mergeable(p, o) ==
    /\ o < MaxOrder - 1
    /\ buddy_pfn(p, o) <= MaxPfn
    /\ page[buddy_pfn(p, o)].free /\ page[buddy_pfn(p, o)].order = o

\* An iteration of the loop: the buddy leaves its list, and the lower of the
\* two heads becomes the head of both.
Merge ==
    LET b == buddy_pfn(hand.pfn, hand.order)
        p == IF b < hand.pfn THEN b ELSE hand.pfn
    IN  /\ hand.op = "free"
        /\ Mergeable(hand.pfn, hand.order)
        /\ free_list_remove(hand.order, b)
        /\ page' = [page EXCEPT ![p].order = hand.order + 1]
        /\ hand' = Freeing(p, hand.order + 1)
        /\ UNCHANGED <<nfree, boot, owned, stale, panic>>

\* The end of free_block.
Insert ==
    /\ hand.op = "free"
    /\ ~Mergeable(hand.pfn, hand.order)
    /\ page' = [page EXCEPT ![hand.pfn] =
                   [@ EXCEPT !.free = TRUE, !.used = FALSE, !.order = hand.order]]
    /\ free_list_push(hand.order, hand.pfn)
    /\ hand' = NoBlock
    /\ UNCHANGED <<nfree, boot, owned, stale, panic>>

-----------------------------------------------------------------------------
(* Initialisation.                                                         *)

\* pfndb_init marks every page reserved, then the usable ranges free.
pfndb_init(usable) ==
    [p \in Pfns |-> [free |-> p \in usable, used |-> FALSE,
                     reserved |-> p \notin usable, order |-> 0, ref |-> 0]]

\* The first loop of pmm_init turns the free pages into used ones.
Withheld(pg) ==
    [p \in Pfns |-> IF pg[p].free THEN [pg[p] EXCEPT !.free = FALSE, !.used = TRUE, !.order = 0]
                    ELSE pg[p]]

Init == /\ \E usable \in MemMaps : page = Withheld(pfndb_init(usable))
        /\ lists = [o \in Orders |-> <<>>]
        /\ nfree = 0
        /\ boot = 0
        /\ hand = NoBlock
        /\ owned = [p \in {} |-> 0]
        /\ stale = {}
        /\ panic = FALSE

\* The second loop of pmm_init frees them one by one.  (The code counts a page
\* once free_block has returned; nothing reads the count in between.)
pmm_init ==
    /\ hand = NoBlock
    /\ boot <= MaxPfn
    /\ boot' = boot + 1
    /\ IF page[boot].used /\ ~page[boot].reserved
       THEN hand' = Freeing(boot, page[boot].order) /\ nfree' = nfree + 1
       ELSE UNCHANGED <<hand, nfree>>
    /\ UNCHANGED <<page, lists, owned, stale, panic>>

\* Callers call when the allocator is ready.
Ready == hand = NoBlock /\ boot > MaxPfn /\ ~panic

-----------------------------------------------------------------------------
(* pmm_alloc.                                                              *)

Available(o) == \E s \in o..(MaxOrder - 1) : lists[s] # <<>>

\* The order pmm_alloc takes its block from: the first non-empty list.
Source(o) == CHOOSE s \in o..(MaxOrder - 1) :
                /\ lists[s] # <<>>
                /\ \A r \in o..(s - 1) : lists[r] = <<>>

\* pmm_alloc(o) finds a block.
pmm_alloc(o) ==
    /\ Ready
    /\ Available(o)
    /\ hand' = [op |-> "alloc", pfn |-> Head(lists[Source(o)]), order |-> Source(o), want |-> o]
    /\ lists' = [lists EXCEPT ![Source(o)] = Tail(@)]
    /\ UNCHANGED <<page, nfree, boot, owned, stale, panic>>

\* An iteration of the loop that splits it: the upper half becomes free.
Split ==
    LET o == hand.order - 1
        b == hand.pfn + 2^o
    IN  /\ hand.op = "alloc" /\ hand.order > hand.want
        /\ page' = [page EXCEPT ![b] = [free |-> TRUE, used |-> FALSE, reserved |-> FALSE,
                                        order |-> o, ref |-> page[b].ref]]
        /\ free_list_push(o, b)
        /\ hand' = [hand EXCEPT !.order = o]
        /\ UNCHANGED <<nfree, boot, owned, stale, panic>>

\* Variant: pmm_alloc forgets to clear PAGE_FREE on the head of the block.
TakenStillFree(pg, o) ==
    [free |-> pg.free, used |-> TRUE, reserved |-> pg.reserved, order |-> o, ref |-> 1]

\* What pmm_alloc writes to the head page of the block it returns.
Taken(pg, o) ==
    [free |-> FALSE, used |-> TRUE, reserved |-> pg.reserved, order |-> o, ref |-> 1]

\* The block is small enough and pmm_alloc returns it.
Take ==
    LET p == hand.pfn
        o == hand.order
    IN  /\ hand.op = "alloc" /\ hand.order = hand.want
        /\ page' = [q \in Pfns |->
              IF q = p THEN Taken(page[q], o)
              ELSE IF q \in Run(p, o)
                   THEN [free |-> FALSE, used |-> TRUE, reserved |-> FALSE, order |-> o, ref |-> 1]
              ELSE page[q]]
        /\ nfree' = nfree - 2^o
        /\ hand' = NoBlock
        /\ owned' = [q \in DOMAIN owned \cup {p} |-> IF q = p THEN 1 ELSE owned[q]]
        /\ stale' = stale \ Run(p, o)
        /\ UNCHANGED <<lists, boot, panic>>

-----------------------------------------------------------------------------
(* References.                                                             *)

\* page_ref_inc, by a holder of the block (vas_clone, vas_map_phys).
page_ref_inc(p) ==
    /\ Ready
    /\ p \in DOMAIN owned /\ owned[p] < MaxRef
    /\ owned' = [owned EXCEPT ![p] = @ + 1]
    /\ page' = [page EXCEPT ![p].ref = @ + 1]
    /\ UNCHANGED <<lists, nfree, boot, hand, stale, panic>>

\* The holder of a reference to p has one less.
Dropped(p) == IF p \notin DOMAIN owned THEN owned
              ELSE IF owned[p] = 1 THEN [q \in DOMAIN owned \ {p} |-> owned[q]]
              ELSE [owned EXCEPT ![p] = @ - 1]

\* What pmm_free writes before free_block when the last reference is gone.
Cleared(p) ==
    [q \in Pfns |->
        IF q = p THEN [page[q] EXCEPT !.ref = @ - 1]
        ELSE IF q \in Run(p, page[p].order)
             THEN [free |-> FALSE, used |-> FALSE, reserved |-> FALSE, order |-> page[q].order, ref |-> 0]
        ELSE page[q]]

\* pmm_free(p), p held by the caller or (DoubleFrees) freed before.
pmm_free(p) ==
    /\ Ready
    /\ p \in DOMAIN owned \cup stale
    /\ IF page[p].reserved \/ page[p].free
       THEN panic' = TRUE /\ UNCHANGED <<page, lists, nfree, hand, owned, stale>>
       ELSE /\ owned' = Dropped(p)
            /\ IF page[p].ref = 1
               THEN /\ page'  = Cleared(p)
                    /\ nfree' = nfree + 2^page[p].order
                    /\ hand'  = Freeing(p, page[p].order)
                    /\ stale' = IF DoubleFrees THEN stale \cup {p} ELSE stale
               ELSE /\ page'  = [page EXCEPT ![p].ref = @ - 1]
                    /\ UNCHANGED <<nfree, hand, stale>>
            /\ UNCHANGED <<lists, panic>>
    /\ UNCHANGED boot

Next == \/ pmm_init \/ Merge \/ Insert \/ Split \/ Take
        \/ \E o \in Orders : pmm_alloc(o)
        \/ \E p \in Pfns : page_ref_inc(p) \/ pmm_free(p)

Spec == Init /\ [][Next]_vars

-----------------------------------------------------------------------------
(* Properties.                                                             *)

\* The blocks memory is divided into, and by whom each is kept.
Block(p, o, who) == [pfn |-> p, order |-> o, by |-> who]

FreeBlocks == UNION {{Block(p, o, "list") : p \in Members(lists[o])} : o \in Orders}
HeldBlocks == {Block(p, page[p].order, "caller") : p \in DOMAIN owned}
HandBlocks == IF hand = NoBlock THEN {} ELSE {Block(hand.pfn, hand.order, "call")}
Blocks     == FreeBlocks \cup HeldBlocks \cup HandBlocks

Pages(b)   == Run(b.pfn, b.order)
Covered(B) == UNION {Pages(b) : b \in B}

\* Every usable page that pmm_init has reached is in exactly one block, on a
\* free list, held by a caller or in the hands of the running call, and no
\* other page is; blocks are aligned to their size, and a held one has as many
\* references as callers took: memory is neither lost nor handed out twice.
\* free_page_count counts the pages that are not held, and no list has a
\* block twice.  (free_block, pmm_init, pmm_alloc, pmm_free)
Partition ==
    /\ \A q \in Pfns : Cardinality({b \in Blocks : q \in Pages(b)})
                          = IF page[q].reserved \/ q >= boot THEN 0 ELSE 1
    /\ \A b \in Blocks : Pages(b) \subseteq Pfns /\ b.pfn % 2^b.order = 0
    /\ \A p \in DOMAIN owned : page[p].ref = owned[p]
    /\ nfree = Cardinality(Covered(FreeBlocks \cup HandBlocks))
    /\ \A o \in Orders : Unique(lists[o])

\* pmm_alloc(o) only fails when no aligned run of 2^o free pages exists: the
\* free lists are fully coalesced after every free, whatever stale flags the
\* merged pages carry.
FailsOnlyWhenFull ==
    \A o \in Orders : ~Available(o) =>
        ~ \E p \in Pfns : p % 2^o = 0 /\ Run(p, o) \subseteq Covered(FreeBlocks)

\* A caller that frees what it holds never meets the kpanics of pmm_free:
\* the head of a held block is marked neither free nor reserved.
HeldIsUsed == \A p \in DOMAIN owned : ~page[p].free /\ ~page[p].reserved

\* The buddy allocator implements PageAlloc: every block it returns is an
\* aligned run of pages that no holder has, and only the last free of a block
\* makes its pages available again.
Promise == INSTANCE PageAlloc WITH
    usable <- {p \in Pfns : ~page[p].reserved},
    held   <- [p \in DOMAIN owned |-> [order |-> page[p].order, ref |-> page[p].ref]]
ImplementsPageAlloc == Promise!Spec

\* pmm_free "double-free" check: freeing a block that is not held, because
\* it has been freed before, always ends in kpanic.
DoubleFreeCaught ==
    [][\A p \in stale \ DOMAIN owned : (page'[p].ref = page[p].ref - 1) => panic']_vars
=============================================================================
