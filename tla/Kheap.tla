------------------------------- MODULE Kheap -------------------------------
(***************************************************************************)
(* kernel/src/mm/kheap.c, the kernel heap: slab caches for small sizes and *)
(* whole page blocks for large ones, on top of what PageAlloc promises.    *)
(*                                                                         *)
(* The operators are functions on heap states h; kfree and krealloc find   *)
(* out what a pointer is from the flags and the private word of its page,  *)
(* as the code does.  Sizes and addresses are in units; page 0 is not      *)
(* memory, so that address 0 is NULL.  Sizes here are those for which the  *)
(* loop of kmalloc ends; Heap says which those are (Overruns).             *)
(***************************************************************************)
EXTENDS PageRuns, QueueOps

CONSTANTS
    Usable,         \* the pages that are memory
    MaxOrder,       \* PMM_MAX_ORDER
    PAGE_SIZE,      \* units in a page
    MaxAlign,       \* the largest alignment of a size class (16 bytes)
    SlabHdr,        \* sizeof(slab_t)
    LargeHdr,       \* sizeof(large_hdr_t)
    size_classes,   \* the object sizes of the kmalloc caches, ascending
    Own             \* the size and alignment of a cache made by slab_cache_create

NULL   == 0
OWN    == Len(size_classes) + 1       \* the cache that is not a size class
Caches == 1..OWN
LARGE  == OWN + 1                     \* LARGE_PAGE_TAG in page->private
STALE  == OWN + 2                     \* the -1 that slab_destroy leaves there

AlignUp(n, a) == ((n + a - 1) \div a) * a
AlignOf(c)    == IF c = OWN THEN Own.align
                 ELSE IF size_classes[c] < MaxAlign THEN size_classes[c] ELSE MaxAlign
obj_size(c)   == IF c = OWN THEN AlignUp(Own.size, Own.align) ELSE size_classes[c]
page_from_alloc_ptr(ptr) == ptr \div PAGE_SIZE

\* The objects of a slab of cache c on page p, lowest first.
Slots(c, p) ==
    LET hdr   == AlignUp(SlabHdr, AlignOf(c))
        total == (PAGE_SIZE - hdr) \div obj_size(c)
    IN  [i \in 1..total |-> p * PAGE_SIZE + hdr + (i - 1) * obj_size(c)]

\* A slab has room for an object, and the header of a block fits in its page.
ASSUME KheapAssumption ==
    /\ Usable \subseteq Nat \ {0} /\ MaxOrder \in Nat
    /\ {PAGE_SIZE, MaxAlign, SlabHdr, LargeHdr} \subseteq Nat \ {0} /\ LargeHdr < PAGE_SIZE
    /\ size_classes \in Seq(Nat \ {0})
    /\ Own \in [size : Nat \ {0}, align : Nat \ {0}]
    /\ \A c \in Caches : AlignUp(SlabHdr, AlignOf(c)) + obj_size(c) <= PAGE_SIZE

\* A page_t (the PAGE_SLAB flag and private) with what the page holds: the
\* slab's free list and count of objects in use, or the header of a block.
BarePage == [slab |-> FALSE, private |-> 0, freelist |-> <<>>, inuse |-> 0, size |-> 0]

kheap_init ==
    [page    |-> [p \in Usable |-> BarePage],
     partial |-> [c \in Caches |-> <<>>],     \* cache->partial, head first
     full    |-> [c \in Caches |-> <<>>],     \* cache->full
     count   |-> 0,                           \* total_alloc_count - total_free_count
     held    |-> [p \in {} |-> 0]]            \* the blocks taken from the pmm

-----------------------------------------------------------------------------
(* Slabs.                                                                  *)

slab_list_remove(list, p) == Without(list, p)

\* pg is the page pmm_alloc_page returns, 0 when there is none.
slab_create(h, c, pg) ==
    [h EXCEPT !.held = Took(@, pg, 0),
              !.page[pg].slab = TRUE, !.page[pg].private = c,
              !.page[pg].freelist = Slots(c, pg), !.page[pg].inuse = 0,
              !.partial[c] = <<pg>> \o @]

\* Variant: the PAGE_SLAB flag outlives the slabs.
DestroyKeepsFlag(h, S) ==
    [h EXCEPT !.held = [p \in DOMAIN @ \ S |-> @[p]],
              !.page = [p \in Usable |-> IF p \in S THEN [@[p] EXCEPT !.private = STALE] ELSE @[p]]]

\* slab_destroy of the slabs of S, whose pages have one reference each.
slab_destroy(h, S) ==
    [h EXCEPT !.held = [p \in DOMAIN @ \ S |-> @[p]],
              !.page = [p \in Usable |-> IF p \in S THEN [BarePage EXCEPT !.private = STALE] ELSE @[p]]]

\* slab_alloc, once the cache has a partial slab.
PopObject(h, c) ==
    LET p == Head(h.partial[c])
        full == Len(h.page[p].freelist) = 1
    IN  [h EXCEPT !.page[p].freelist = Tail(@), !.page[p].inuse = @ + 1,
                  !.partial[c] = IF full THEN Tail(@) ELSE @,
                  !.full[c] = IF full THEN <<p>> \o @ ELSE @]

slab_alloc(h, c, pg) ==
    LET pop(g) == [h |-> PopObject(g, c), ptr |-> Head(g.page[Head(g.partial[c])].freelist)]
    IN  IF h.partial[c] # <<>> THEN pop(h)
        ELSE IF pg = 0 THEN [h |-> h, ptr |-> NULL]
        ELSE pop(slab_create(h, c, pg))

\* Variant: the count of objects in use is not lowered.
FreeKeepsInuse(h, c, ptr) ==
    LET p == page_from_alloc_ptr(ptr)
        was_full == h.page[p].freelist = <<>> /\ h.page[p].inuse = Len(Slots(c, p))
    IN  [h EXCEPT !.page[p].freelist = <<ptr>> \o @,
                  !.full[c] = IF was_full THEN slab_list_remove(@, p) ELSE @,
                  !.partial[c] = IF was_full THEN <<p>> \o @ ELSE @]

slab_free(h, c, ptr) ==
    LET p == page_from_alloc_ptr(ptr)
        was_full == h.page[p].freelist = <<>> /\ h.page[p].inuse = Len(Slots(c, p))
    IN  [h EXCEPT !.page[p].freelist = <<ptr>> \o @, !.page[p].inuse = @ - 1,
                  !.full[c] = IF was_full THEN slab_list_remove(@, p) ELSE @,
                  !.partial[c] = IF was_full THEN <<p>> \o @ ELSE @]

-----------------------------------------------------------------------------
(* kmalloc, kfree, krealloc.                                               *)

\* cache_for_size: the first class that is large enough, 0 for none.
cache_for_size(size) ==
    LET fits == {i \in DOMAIN size_classes : size <= size_classes[i]}
    IN  IF fits = {} THEN 0 ELSE CHOOSE i \in fits : \A j \in fits : i <= j

\* Variant: the header is not counted.
OrderOfBytes(size) ==
    CHOOSE o \in 0..size : PAGE_SIZE * 2^o >= size /\ (o > 0 => PAGE_SIZE * 2^(o - 1) < size)

\* The smallest order with room for the header and size units.
OrderFor(size) ==
    CHOOSE o \in 0..size : /\ PAGE_SIZE * 2^o >= size + LargeHdr
                           /\ o > 0 => PAGE_SIZE * 2^(o - 1) < size + LargeHdr

\* What pmm_alloc may return to kmalloc(size): 0 where it is not called or
\* has no block, any free block otherwise.
PmmGives(h, size) ==
    LET none(s) == IF s = {} THEN {0} ELSE s
    IN  IF size = 0 THEN {0}
        ELSE IF cache_for_size(size) = 0
             THEN IF OrderFor(size) >= MaxOrder THEN {0}
                  ELSE none(FreeRuns(Usable, h.held, OrderFor(size)))
        ELSE IF h.partial[cache_for_size(size)] # <<>> THEN {0}
        ELSE none(FreeRuns(Usable, h.held, 0))

LargeAlloc(h, size, pg) ==
    IF pg = 0 THEN [h |-> h, ptr |-> NULL]
    ELSE [h   |-> [h EXCEPT !.held = Took(@, pg, OrderFor(size)),
                            !.page[pg].private = LARGE, !.page[pg].size = size],
          ptr |-> pg * PAGE_SIZE + LargeHdr]

kmalloc(h, size, pg) ==
    LET counted(r) == IF r.ptr = NULL THEN r ELSE [r EXCEPT !.h.count = @ + 1]
    IN  IF size = 0 THEN [h |-> h, ptr |-> NULL]
        ELSE IF cache_for_size(size) = 0 THEN counted(LargeAlloc(h, size, pg))
        ELSE counted(slab_alloc(h, cache_for_size(size), pg))

\* page_is_large_alloc, and the header that precedes the pointer.
IsLarge(h, ptr) ==
    LET p == page_from_alloc_ptr(ptr)
    IN  ~h.page[p].slab /\ h.page[p].private = LARGE /\ ptr = p * PAGE_SIZE + LargeHdr

\* The kpanics of kfree and krealloc: the pointer is not a heap allocation.
BadPointer(h, ptr) ==
    /\ ptr # NULL
    /\ IF page_from_alloc_ptr(ptr) \notin Usable THEN TRUE
       ELSE IF h.page[page_from_alloc_ptr(ptr)].slab
            THEN h.page[page_from_alloc_ptr(ptr)].private \notin Caches
       ELSE ~IsLarge(h, ptr)

kfree(h, ptr) ==
    LET p == page_from_alloc_ptr(ptr)
        freed(g) == [g EXCEPT !.count = @ - 1]
    IN  IF ptr = NULL THEN h
        ELSE IF h.page[p].slab THEN freed(slab_free(h, h.page[p].private, ptr))
        ELSE freed([h EXCEPT !.page[p].private = 0, !.page[p].size = 0, !.held = Gave(@, p)])

\* krealloc: the new block is taken before the old one is freed.
krealloc(h, ptr, new_size, pg) ==
    LET moved(r) == IF r.ptr = NULL THEN r ELSE [r EXCEPT !.h = kfree(r.h, ptr)]
    IN  IF ptr = NULL THEN kmalloc(h, new_size, pg)
        ELSE IF new_size = 0 THEN [h |-> kfree(h, ptr), ptr |-> NULL]
        ELSE moved(kmalloc(h, new_size, pg))

\* The bytes krealloc copies: memcpy(new_ptr, ptr, min(old_size, new_size)).
CopySize(h, ptr, new_size) ==
    LET p == page_from_alloc_ptr(ptr)
        old_size == IF h.page[p].slab THEN obj_size(h.page[p].private) ELSE h.page[p].size
    IN  IF old_size < new_size THEN old_size ELSE new_size

slab_cache_destroy(h, at) ==
    LET slabs == Members(h.partial[OWN]) \cup Members(h.full[OWN])
    IN  kfree([slab_destroy(h, slabs) EXCEPT !.partial[OWN] = <<>>, !.full[OWN] = <<>>], at)
=============================================================================
