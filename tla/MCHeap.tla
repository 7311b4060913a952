------------------------------- MODULE MCHeap -------------------------------
(* Pages of 8 units: a size class with three objects in a slab, one whose  *)
(* slabs hold a single object, and an owner's cache with two.              *)
EXTENDS Heap

MCUsable  == 2..4
MCClasses == <<2, 4>>
MCOwn     == [size |-> 3, align |-> 1]

Section(alloc, nobits, align, size, inside) ==
    [alloc |-> alloc, nobits |-> nobits, align |-> align, size |-> size, inside |-> inside]

\* Sections that need padding between them, with one that is not loaded; a
\* misaligned one; one that is not in the image; nothing to load; sizes whose
\* sum is seen to wrap; one whose block wraps; one the next section wraps behind.
MCImages ==
    {<<Section(TRUE, FALSE, 0, 1, TRUE), Section(FALSE, FALSE, 3, 7, FALSE),
       Section(TRUE, TRUE, 4, 2, FALSE)>>,
     <<Section(TRUE, FALSE, 3, 1, TRUE)>>,
     <<Section(TRUE, FALSE, 1, 1, FALSE)>>,
     <<Section(FALSE, FALSE, 1, 1, TRUE)>>,
     <<Section(TRUE, TRUE, 1, 63, FALSE), Section(TRUE, FALSE, 1, 1, TRUE)>>,
     <<Section(TRUE, TRUE, 4, 63, FALSE)>>,
     <<Section(TRUE, TRUE, 1, 63, FALSE), Section(TRUE, FALSE, 4, 1, TRUE)>>}
=============================================================================
