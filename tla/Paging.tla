------------------------------- MODULE Paging -------------------------------
(***************************************************************************)
(* kernel/src/mm/paging.c: page tables, as functions on memory states m.   *)
(*                                                                         *)
(*   m.ram    page to [ref, cow, val]: its reference count, PAGE_COW flag  *)
(*            and contents; a page keeps the flag and the contents when it *)
(*            is freed                                                     *)
(*   m.panic  "no", or why the kernel has stopped                          *)
(*   m.vas    address space to NONE or [root, tabs, pte, vads, user_start] *)
(*                                                                         *)
(* tabs holds the pages of the tables below the root, pte the present leaf *)
(* entries [page, w].  Virtual and physical addresses are page numbers.    *)
(* The root is followed by one level of tables, not three, and a table has *)
(* two entries: the walk treats all levels alike.                          *)
(***************************************************************************)
EXTENDS Integers, SequencesExt

CONSTANTS
    Reserved,     \* pages that are PAGE_RESERVED: devices
    Buffer        \* pages that another part of the kernel holds a reference to

NONE == [root |-> 0]

\* A result: the new state, and whether the call succeeded.
Ok(m)   == [m |-> m, ok |-> TRUE]
Fail(m) == [m |-> m, ok |-> FALSE]

Without(f, x) == [y \in DOMAIN f \ {x} |-> f[y]]

-----------------------------------------------------------------------------
(* The page allocator, for single pages (module Pmm has the free lists):   *)
(* which free page it takes makes no difference here.                      *)

FreePages(m) == {p \in DOMAIN m.ram \ Reserved : m.ram[p].ref = 0}
Taken(m)     == Min(FreePages(m))
PmmTake(m)   == [m EXCEPT !.ram[Taken(m)].ref = 1]

\* kpanic when the page is free already.
pmm_free(m, p) ==
    IF m.ram[p].ref = 0 THEN [m EXCEPT !.panic = "double-free"]
    ELSE [m EXCEPT !.ram[p].ref = @ - 1]

-----------------------------------------------------------------------------
(* Tables.                                                                 *)

\* The tables on the way to the leaf entry of va, top down.
TablePath(va) == <<va \div 2>>

\* next_table(.., create = 1): make the table t if it is not there.
next_table(r, a, t) ==
    IF ~r.ok \/ t \in DOMAIN r.m.vas[a].tabs THEN r
    ELSE IF FreePages(r.m) = {} THEN Fail(r.m)
    ELSE Ok([PmmTake(r.m) EXCEPT !.vas[a].tabs = (t :> Taken(r.m)) @@ @])

\* lookup_leaf(.., create = 1): tables made before one fails are kept.
lookup_leaf(m, a, va) == FoldLeft(LAMBDA r, t : next_table(r, a, t), Ok(m), TablePath(va))

paging_map_page(m, a, va, p, w) ==
    LET put(r) == IF ~r.ok THEN r
                  ELSE Ok([r.m EXCEPT !.vas[a].pte = (va :> [page |-> p, w |-> w]) @@ @])
    IN  put(lookup_leaf(m, a, va))

paging_unmap_page(m, a, va) == [m EXCEPT !.vas[a].pte = Without(@, va)]

\* paging_virt_to_phys # 0 and paging_get_flags & PAGE_WRITE.
Mapped(m, a, va)   == va \in DOMAIN m.vas[a].pte
PageAt(m, a, va)   == m.vas[a].pte[va].page
Writable(m, a, va) == Mapped(m, a, va) /\ m.vas[a].pte[va].w

\* ptable_create, into the address space a.
ptable_create(m, a) ==
    IF FreePages(m) = {} THEN Fail(m)
    ELSE Ok([PmmTake(m) EXCEPT !.vas[a] =
                [root |-> Taken(m), tabs |-> [t \in {} |-> 0], pte |-> [v \in {} |-> 0],
                 vads |-> <<>>, user_start |-> 0]])

\* ptable_destroy and destroy_level: every table of the user half, then the root.
ptable_destroy(m, a) ==
    LET tabs == m.vas[a].tabs
    IN  pmm_free(FoldLeft(LAMBDA g, t : pmm_free(g, tabs[t]), m, SetToSeq(DOMAIN tabs)),
                 m.vas[a].root)
=============================================================================
