-------------------------------- MODULE Heap --------------------------------
(***************************************************************************)
(* The kernel heap (module Kheap) in use: by callers of kmalloc, kfree and *)
(* krealloc, by an owner of a slab cache, and by the two clients that      *)
(* carve up what they get: sdi_kernel_alloc (kernel/src/sdi/host.c), which *)
(* puts a header before an aligned pointer, and the driver loader          *)
(* (kernel/src/sdi/elf.c), which lays out a driver's sections.             *)
(*                                                                         *)
(* The heap has no lock; the calls are taken one at a time here.           *)
(***************************************************************************)
EXTENDS Kheap, FiniteSets

CONSTANTS
    Sizes,        \* the sizes kmalloc and krealloc are called with
    SdiSizes,     \* the sizes sdi_alloc is called with
    SdiHdr,       \* sizeof(sdi_alloc_header_t)
    CacheSize,    \* sizeof(slab_cache_t)
    TableSize,    \* the size of section_bases, and of section_offsets
    Images,       \* driver images: sequences of sections (module Elf)
    Word,         \* 2^64, one more than the largest uint64_t
    MaxBlock,     \* 2^31, the largest PAGE_SIZE << order of kmalloc's loop
    MaxLive       \* bound on the allocations that are live at a time

INSTANCE Elf WITH PageSize <- PAGE_SIZE

Sections == [alloc : BOOLEAN, nobits : BOOLEAN, align : Nat, size : Nat, inside : BOOLEAN]

\* kmalloc does not do what its caller asks: PAGE_SIZE << order is computed in
\* 32 bits and never reaches a total above MaxBlock, so its loop does not end;
\* a total that wraps instead is small and a page is given for it.
Overruns(size) == size + LargeHdr > MaxBlock

\* Addresses and headers fit in a word; callers inside the kernel ask kmalloc
\* for what its loop can compute.
ASSUME HeapAssumption ==
    /\ Sizes \cup SdiSizes \cup {SdiHdr, CacheSize, TableSize, MaxLive} \subseteq Nat
    /\ Images \subseteq Seq(Sections)
    /\ {Word, MaxBlock} \subseteq Nat /\ MaxBlock < Word
    /\ \A p \in Usable : (p + 1) * PAGE_SIZE <= Word
    /\ SdiHdr + MaxAlign <= Word /\ SdiHdr + PAGE_SIZE <= Word
    /\ \A n \in Sizes \cup {CacheSize, TableSize} : ~Overruns(n)

VARIABLES
    heap,     \* the state of kheap.c
    live,     \* the allocations in use: pointer to [size, use]
    own,      \* the slab cache that slab_cache_create returned, or NULL
    parts,    \* pointer to the ranges its owner uses, each [start, size, align]
    overrun   \* ghost: a client's sum wrapped unseen, or kmalloc never returned

vars == <<heap, live, own, parts, overrun>>

NoParts == [p \in {} |-> <<>>]

Init == heap = kheap_init /\ live = [p \in {} |-> 0] /\ own = NULL /\ parts = NoParts
        /\ overrun = FALSE

Busy == Cardinality(DOMAIN live) >= MaxLive

With(l, ptr, x) == [p \in DOMAIN l \cup {ptr} |-> IF p = ptr THEN x ELSE l[p]]

\* The caller that got r keeps the pointer, if there is one.
Keep(l, r, size, use) ==
    IF r.ptr = NULL THEN l ELSE With(l, r.ptr, [size |-> size, use |-> use])
Forget(l, ptr) == [p \in DOMAIN l \ {ptr} |-> l[p]]
Of(use) == {p \in DOMAIN live : live[p].use = use}

-----------------------------------------------------------------------------

Malloc(size) ==
    /\ ~Busy
    /\ \E pg \in PmmGives(heap, size) : \E r \in {kmalloc(heap, size, pg)} :
          heap' = r.h /\ live' = Keep(live, r, size, "plain")
    /\ UNCHANGED <<own, parts, overrun>>

Free(ptr) ==
    /\ ptr \in Of("plain")
    /\ heap' = kfree(heap, ptr)
    /\ live' = Forget(live, ptr)
    /\ UNCHANGED <<own, parts, overrun>>

Realloc(ptr, size) ==
    /\ ptr \in Of("plain")
    /\ \E pg \in PmmGives(heap, size) : \E r \in {krealloc(heap, ptr, size, pg)} :
          /\ heap' = r.h
          /\ live' = IF r.ptr = NULL /\ size # 0 THEN live
                     ELSE Keep(Forget(live, ptr), r, size, "plain")
    /\ UNCHANGED <<own, parts, overrun>>

slab_cache_create ==
    /\ own = NULL /\ ~Busy
    /\ \E pg \in PmmGives(heap, CacheSize) : \E r \in {kmalloc(heap, CacheSize, pg)} :
          heap' = r.h /\ own' = r.ptr /\ live' = Keep(live, r, CacheSize, "cache")
    /\ UNCHANGED <<parts, overrun>>

\* The owner of a cache gives its objects back before it destroys the cache.
DestroyCache ==
    /\ own # NULL /\ Of("object") = {}
    /\ heap' = slab_cache_destroy(heap, own)
    /\ live' = Forget(live, own)
    /\ own' = NULL
    /\ UNCHANGED <<parts, overrun>>

AllocObject ==
    /\ own # NULL /\ ~Busy
    /\ \E pg \in IF heap.partial[OWN] # <<>> \/ FreeRuns(Usable, heap.held, 0) = {}
                 THEN {0} ELSE FreeRuns(Usable, heap.held, 0) :
          \E r \in {slab_alloc(heap, OWN, pg)} :
             heap' = r.h /\ live' = Keep(live, r, obj_size(OWN), "object")
    /\ UNCHANGED <<own, parts, overrun>>

FreeObject(ptr) ==
    /\ ptr \in Of("object")
    /\ heap' = slab_free(heap, OWN, ptr)
    /\ live' = Forget(live, ptr)
    /\ UNCHANGED <<own, parts, overrun>>

\* Variant: no room for the alignment.
SdiBlockTight(size, align) == (size + SdiHdr) % Word

\* sdi_kernel_alloc: the room it asks kmalloc for.
SdiBlock(size, align) == (size + SdiHdr + align - 1) % Word

\* ... and what it does with it: the header, then the caller's bytes.
SdiParts(raw, size, align) ==
    LET user_ptr == sdi_elf_align_up(raw + SdiHdr, align)
    IN  <<[start |-> user_ptr - SdiHdr, size |-> SdiHdr, align |-> 1],
          [start |-> user_ptr, size |-> size, align |-> align]>>

\* Flags that are not supported are align = 0.
sdi_kernel_alloc(size, align) ==
    /\ ~Busy
    /\ \E total \in {SdiBlock(size, align)} :
          \/ /\ size = 0 \/ align = 0 \/ total < size
             /\ UNCHANGED <<heap, live, parts, overrun>>
          \/ /\ size # 0 /\ align # 0 /\ total >= size /\ Overruns(total)
             /\ overrun' = TRUE
             /\ UNCHANGED <<heap, live, parts>>
          \/ /\ size # 0 /\ align # 0 /\ total >= size /\ ~Overruns(total)
             /\ \E pg \in PmmGives(heap, total) : \E r \in {kmalloc(heap, total, pg)} :
                   /\ heap' = r.h
                   /\ live' = Keep(live, r, total, "sdi")
                   /\ parts' = IF r.ptr = NULL THEN parts
                               ELSE With(parts, r.ptr, SdiParts(r.ptr, size, align))
             /\ UNCHANGED overrun
    /\ UNCHANGED own

\* sdi_kernel_free finds the raw pointer in the header; a pointer that has no
\* header before it goes to kfree as it is.
sdi_kernel_free(raw) ==
    \/ /\ raw \in Of("sdi")
       /\ heap' = kfree(heap, raw)
       /\ live' = Forget(live, raw)
       /\ parts' = Forget(parts, raw)
       /\ UNCHANGED <<own, overrun>>
    \/ Free(raw)

\* The sections of a module whose memory starts at raw.
SectionParts(image, raw) ==
    LET base == sdi_elf_align_up(raw, Layout(image).align)
    IN  [i \in {k \in DOMAIN image : image[k].alloc} |->
           [start |-> base + Layout(image).offset[i], size |-> image[i].size,
            align |-> SectionAlign(image[i])]]

\* sdi_elf_prepare_sections: the two tables and, if the image is accepted,
\* the module.  Nothing is given back, whatever fails.  Of the sums in total
\* + max_align - 1 and in sdi_elf_align_up the code does not see whether they
\* wrapped: then more is cleared than was taken, or sections lie on each other.
sdi_elf_prepare_sections(image) ==
    /\ Of("table") = {} /\ Of("module") = {}
    /\ \E p1 \in PmmGives(heap, TableSize) : \E t1 \in {kmalloc(heap, TableSize, p1)} :
       \E p2 \in PmmGives(t1.h, TableSize) : \E t2 \in {kmalloc(t1.h, TableSize, p2)} :
       \E l2 \in {Keep(Keep(live, t1, TableSize, "table"), t2, TableSize, "table")} :
          IF t1.ptr = NULL \/ t2.ptr = NULL \/ Refused(image)
          THEN heap' = t2.h /\ live' = l2 /\ UNCHANGED <<parts, overrun>>
          ELSE \E total \in {Layout(image).total + Layout(image).align - 1} :
               IF Layout(image).wraps \/ Overruns(total)
               THEN heap' = t2.h /\ live' = l2 /\ overrun' = TRUE /\ UNCHANGED parts
               ELSE \E p3 \in PmmGives(t2.h, total) : \E m \in {kmalloc(t2.h, total, p3)} :
                      /\ heap' = m.h
                      /\ live' = Keep(l2, m, total, "module")
                      /\ parts' = IF m.ptr = NULL THEN parts
                                  ELSE With(parts, m.ptr, SectionParts(image, m.ptr))
                      /\ UNCHANGED overrun
    /\ UNCHANGED own

Next ==
    /\ ~overrun
    /\ \/ \E size \in Sizes : Malloc(size) \/ \E ptr \in DOMAIN live : Realloc(ptr, size)
       \/ \E ptr \in DOMAIN live : Free(ptr) \/ FreeObject(ptr) \/ sdi_kernel_free(ptr)
       \/ slab_cache_create \/ DestroyCache \/ AllocObject
       \/ \E size \in SdiSizes, align \in {0, MaxAlign, PAGE_SIZE} : sdi_kernel_alloc(size, align)
       \/ \E image \in Images : sdi_elf_prepare_sections(image)

Spec == Init /\ [][Next]_vars

-----------------------------------------------------------------------------
(* Properties.                                                             *)

Span(start, size) == start..(start + size - 1)

SlabPages  == {p \in Usable : heap.page[p].slab}
LargeHeads == {p \in Usable : ~heap.page[p].slab /\ heap.page[p].private = LARGE}
CacheOf(p) == heap.page[p].private

\* No two live allocations overlap, and none overlaps a header or a free
\* object, whose first word is a link: nobody's bytes are overwritten by a
\* neighbour.  krealloc copies as much as the caller had (or now has), and
\* not beyond the old allocation.
Disjoint ==
    /\ \A p, q \in DOMAIN live : p # q =>
          Span(p, live[p].size) \cap Span(q, live[q].size) = {}
    /\ \A p \in DOMAIN live :
          /\ \A s \in SlabPages : Span(p, live[p].size) \cap Span(s * PAGE_SIZE, SlabHdr) = {}
          /\ \A s \in LargeHeads : Span(p, live[p].size) \cap Span(s * PAGE_SIZE, LargeHdr) = {}
          /\ \A s \in SlabPages : \A i \in DOMAIN heap.page[s].freelist :
                Span(p, live[p].size) \cap Span(heap.page[s].freelist[i], obj_size(CacheOf(s))) = {}
    /\ \A p \in DOMAIN live : \A n \in Sizes \ {0} :
          LET copied == CopySize(heap, p, n)
          IN  /\ copied <= n /\ (copied >= n \/ copied >= live[p].size)
              /\ Span(p, copied) \cap UNION {Span(q, live[q].size) : q \in DOMAIN live \ {p}} = {}

\* A slab is on the partial list of its cache if it has a free object and on
\* the full list if it has none, once; its count is that of the live objects
\* on its page, and every object is either live or free.
SlabsSound ==
    \A c \in Caches :
       /\ Unique(heap.partial[c] \o heap.full[c])
       /\ {p \in SlabPages : CacheOf(p) = c} = Members(heap.partial[c] \o heap.full[c])
       /\ \A i \in DOMAIN heap.partial[c] : heap.page[heap.partial[c][i]].freelist # <<>>
       /\ \A i \in DOMAIN heap.full[c] : heap.page[heap.full[c][i]].freelist = <<>>
       /\ \A p \in Members(heap.partial[c] \o heap.full[c]) :
             /\ heap.page[p].inuse = Cardinality({q \in DOMAIN live : page_from_alloc_ptr(q) = p})
             /\ heap.page[p].inuse + Len(heap.page[p].freelist) = Len(Slots(c, p))

\* kfree recognises every live pointer, whatever its page was used for
\* before; the blocks taken from the page allocator are the slabs and the
\* live large allocations, and the two totals differ by the live kmallocs.
Accounted ==
    /\ \A p \in DOMAIN live : ~BadPointer(heap, p)
    /\ DOMAIN heap.held = SlabPages \cup
          {page_from_alloc_ptr(p) : p \in {q \in DOMAIN live : IsLarge(heap, q)}}
    /\ heap.count = Cardinality(DOMAIN live \ Of("object"))

\* The ranges a client of the heap uses lie in its allocation, do not overlap
\* and are aligned: the header and bytes of an sdi_alloc, a driver's sections.
\* Excepted are the calls that set overrun: section tables and sizes whose sums
\* wrap unseen, or that kmalloc cannot compute a block for.
UsersFit ==
    \A raw \in DOMAIN parts : \A i \in DOMAIN parts[raw] :
       LET a == parts[raw][i]
       IN  /\ Span(a.start, a.size) \subseteq Span(raw, live[raw].size)
           /\ a.start % a.align = 0
           /\ \A j \in DOMAIN parts[raw] \ {i} :
                 Span(a.start, a.size) \cap Span(parts[raw][j].start, parts[raw][j].size) = {}
=============================================================================
