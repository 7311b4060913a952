-------------------------------- MODULE Vmm --------------------------------
(***************************************************************************)
(* kernel/src/mm/vmm.c: address spaces, as functions on the memory states  *)
(* of module Paging.  vads is the list of a vas_t in its order; a vad is   *)
(* [start, end, w, shared, anon]: its range of pages, PAGE_WRITE,          *)
(* VAD_SHARED and VAD_ANONYMOUS.  m.left is how many vad_t and vas_t the   *)
(* heap still has room for.                                                *)
(*                                                                         *)
(* Three fields are not in the code: m.leaked counts the references that a *)
(* failed vas_map_phys keeps, m.opened holds the addresses <<a, va>> whose *)
(* page became writable at one address while others still mapped it, and   *)
(* m.mixed the addresses whose entry a vas_protect of another part of      *)
(* their vad has left with the old protection.                             *)
(***************************************************************************)
EXTENDS Paging, FiniteSets

CONSTANTS VAS_USER_START, VAS_USER_END

Addrs(lo, hi) == [i \in 1..(hi - lo) |-> lo + i - 1]
Lower(x, y)   == IF x < y THEN x ELSE y
Upper(x, y)   == IF x > y THEN x ELSE y
Covered(d)    == d.start..(d.end - 1)

-----------------------------------------------------------------------------
(* The list of vads.                                                       *)

vad_insert(vads, d) ==
    LET before == SelectSeq(vads, LAMBDA e : e.start < d.start)
    IN  before \o <<d>> \o SubSeq(vads, Len(before) + 1, Len(vads))

\* One vad of vad_remove_range: what lies outside [lo, hi) is kept in new
\* vads; kpanic when there is no room for one.
Cut(r, d, lo, hi) ==
    LET outer == (IF d.start < lo THEN <<[d EXCEPT !.end = lo]>> ELSE <<>>) \o
                 (IF d.end > hi THEN <<[d EXCEPT !.start = hi]>> ELSE <<>>)
    IN  IF r.panic # "no" THEN r
        ELSE IF d.end <= lo \/ d.start >= hi THEN [r EXCEPT !.vads = Append(@, d)]
        ELSE IF Len(outer) > r.left THEN [r EXCEPT !.panic = "split"]
        ELSE [r EXCEPT !.vads = @ \o outer, !.left = @ - Len(outer) + 1]

vad_remove_range(m, a, lo, hi) ==
    LET done(r) == [m EXCEPT !.vas[a].vads = IF r.panic = "no" THEN r.vads ELSE @,
                             !.left = r.left, !.panic = r.panic]
    IN  done(FoldLeft(LAMBDA r, d : Cut(r, d, lo, hi),
                      [vads |-> <<>>, left |-> m.left, panic |-> m.panic], m.vas[a].vads))

\* vas_find_free: the first gap of n pages at or after hint, 0 if none.
vas_find_free(vads, hint, n) ==
    LET step(s, d) == IF s.found \/ s.base + n <= d.start THEN [s EXCEPT !.found = TRUE]
                      ELSE IF s.base < d.end THEN [s EXCEPT !.base = d.end] ELSE s
        fit(s) == IF s.base + n > VAS_USER_END THEN 0 ELSE s.base
    IN  fit(FoldLeft(step, [base |-> hint, found |-> FALSE], vads))

\* Variant: the test for the end of the range is off by one.
OverlapsLate(vads, lo, hi) ==
    \E i \in DOMAIN vads : /\ vads[i].end > lo + 1
                           /\ \A j \in 1..i : vads[j].start < hi

vas_overlaps(vads, lo, hi) ==
    \E i \in DOMAIN vads : /\ vads[i].end > lo
                           /\ \A j \in 1..i : vads[j].start < hi

\* Where vas_map_anon and vas_map_phys put n pages; -1 where they return 0.
\* Page 0 is a possible base when the caller insists on it.
BaseFor(m, a, hint, n, fixed) ==
    LET vads == m.vas[a].vads
        search == vas_find_free(vads, IF hint = 0 THEN m.vas[a].user_start ELSE hint, n)
    IN  IF fixed THEN IF hint + n > VAS_USER_END \/ vas_overlaps(vads, hint, hint + n)
                      THEN -1 ELSE hint
        ELSE IF search = 0 THEN -1 ELSE search

-----------------------------------------------------------------------------
(* Mapping and unmapping.                                                  *)

UncommitPage(m, a, va) ==
    LET unmapped == paging_unmap_page([m EXCEPT !.mixed = @ \ {<<a, va>>},
                                                !.opened = @ \ {<<a, va>>}], a, va)
    IN  IF ~Mapped(m, a, va) \/ PageAt(m, a, va) \in Reserved THEN unmapped
        ELSE pmm_free(unmapped, PageAt(m, a, va))

uncommit_range(m, a, lo, hi) == FoldLeft(LAMBDA g, va : UncommitPage(g, a, va), m, Addrs(lo, hi))

\* A page of commit_anon: taken, cleared and mapped.
CommitPage(r, a, va, w) ==
    LET map(p, s) == IF s.ok THEN s ELSE Fail(pmm_free(s.m, p))
        new(p)    == map(p, paging_map_page([PmmTake(r.m) EXCEPT !.ram[p].val = 0], a, va, p, w))
    IN  IF ~r.ok THEN r ELSE IF FreePages(r.m) = {} THEN Fail(r.m) ELSE new(Taken(r.m))

commit_anon(m, a, d) ==
    FoldLeft(LAMBDA r, va : CommitPage(r, a, va, d.w), Ok(m), Addrs(d.start, d.end))

vas_create(m, a) ==
    LET made(r) == IF r.ok THEN Ok([r.m EXCEPT !.left = @ - 1,
                                                      !.vas[a].user_start = VAS_USER_START])
                   ELSE r
    IN  IF m.left = 0 THEN Fail(m) ELSE made(ptable_create(m, a))

vas_destroy(m, a) ==
    LET empty(g) == [ptable_destroy(g, a) EXCEPT !.vas[a] = NONE,
                                                 !.left = @ + Len(m.vas[a].vads) + 1]
    IN  empty(FoldLeft(LAMBDA g, d : uncommit_range(g, a, d.start, d.end), m, m.vas[a].vads))

\* Variant: a failed commit keeps the pages it has mapped.
AnonKeepsPages(m, a, d) ==
    LET end(r) == IF ~r.ok THEN r.m
                  ELSE [r.m EXCEPT !.left = @ - 1, !.vas[a].vads = vad_insert(@, d),
                                   !.vas[a].user_start = d.end]
    IN  IF m.left = 0 THEN m ELSE end(commit_anon(m, a, d))

\* vas_map_anon, once it has found a place.
MapAnonAt(m, a, d) ==
    LET end(r) == IF ~r.ok THEN uncommit_range(r.m, a, d.start, d.end)
                  ELSE [r.m EXCEPT !.left = @ - 1, !.vas[a].vads = vad_insert(@, d),
                                   !.vas[a].user_start = d.end]
    IN  IF m.left = 0 THEN m ELSE end(commit_anon(m, a, d))

vas_map_anon(m, a, hint, n, fixed, w, shared) ==
    LET at(base) == IF base = -1 THEN m
                    ELSE MapAnonAt(m, a, [start |-> base, end |-> base + n, w |-> w,
                                          shared |-> shared, anon |-> TRUE])
    IN  at(BaseFor(m, a, hint, n, fixed))

\* A page of vas_map_phys: the reference is taken first, and kept when the
\* mapping fails.
PhysPage(r, a, va, p, w) ==
    LET count(g) == IF p \in Reserved THEN g ELSE [g EXCEPT !.ram[p].ref = @ + 1]
        kept(s)  == IF s.ok \/ p \in Reserved THEN s
                    ELSE Fail([s.m EXCEPT !.leaked[p] = @ + 1])
    IN  IF ~r.ok THEN r ELSE kept(paging_map_page(count(r.m), a, va, p, w))

\* Every entry below the one that failed is undone; so are all of them when
\* the vad cannot be made.
vas_map_phys(m, a, hint, phys, n, fixed, w, shared) ==
    LET pages(base) == FoldLeft(LAMBDA r, i : PhysPage(r, a, base + i, phys + i, w),
                                Ok(m), Addrs(0, n))
        vad(base)   == [start |-> base, end |-> base + n, w |-> w, shared |-> shared,
                        anon |-> FALSE]
        end(base, r) == IF ~r.ok \/ m.left = 0 THEN uncommit_range(r.m, a, base, base + n)
                        ELSE [r.m EXCEPT !.left = @ - 1,
                                         !.vas[a].vads = vad_insert(@, vad(base))]
        at(base) == IF base = -1 THEN m ELSE end(base, pages(base))
    IN  at(BaseFor(m, a, hint, n, fixed))

\* The vads that vas_unmap and vas_protect visit.
InRange(vads, lo, hi) == SelectSeq(vads, LAMBDA d : d.start < hi /\ d.end > lo)

vas_unmap(m, a, lo, hi) ==
    vad_remove_range(
        FoldLeft(LAMBDA g, d : uncommit_range(g, a, Upper(d.start, lo), Lower(d.end, hi)),
                 m, InRange(m.vas[a].vads, lo, hi)), a, lo, hi)

\* remap_page_flags: the tables are there, so that it cannot fail.
remap_page_flags(m, a, va, w) ==
    IF ~Mapped(m, a, va) THEN m ELSE paging_map_page(m, a, va, PageAt(m, a, va), w).m

-----------------------------------------------------------------------------
(* Protection, copy-on-write.                                              *)

\* The addresses at which a page is mapped.
Mappers(m, p) ==
    UNION {{<<a, va>> : va \in {v \in DOMAIN m.vas[a].pte : PageAt(m, a, v) = p}} :
              a \in {b \in DOMAIN m.vas : m.vas[b] # NONE}}

\* vas_protect remaps whatever the page's state; the new protection goes
\* into the vad even if only a part of it is in the range.
ProtectPage(m, a, va, w) ==
    LET opens == w /\ Mapped(m, a, va) /\ Cardinality(Mappers(m, PageAt(m, a, va))) > 1
    IN  remap_page_flags([m EXCEPT !.mixed = @ \ {<<a, va>>},
                                   !.opened = IF opens THEN @ \cup Mappers(m, PageAt(m, a, va))
                                              ELSE @], a, va, w)

ProtectVad(m, a, d, lo, hi, w) ==
    LET inside == Addrs(Upper(d.start, lo), Lower(d.end, hi))
        rest   == IF d.w = w THEN {} ELSE {<<a, va>> : va \in Covered(d) \ lo..(hi - 1)}
        vads(s) == [i \in DOMAIN s |-> IF s[i] = d THEN [d EXCEPT !.w = w] ELSE s[i]]
    IN  [FoldLeft(LAMBDA g, va : ProtectPage(g, a, va, w), m, inside)
            EXCEPT !.mixed = @ \cup rest, !.vas[a].vads = vads(@)]

vas_protect(m, a, lo, hi, w) ==
    FoldLeft(LAMBDA g, d : ProtectVad(g, a, d, lo, hi, w), m, InRange(m.vas[a].vads, lo, hi))

\* vas_find: the vad of va.
VadsAt(m, a, va) == {i \in DOMAIN m.vas[a].vads : va \in Covered(m.vas[a].vads[i])}
vas_find(m, a, va) == m.vas[a].vads[CHOOSE i \in VadsAt(m, a, va) : TRUE]

\* Every page of [lo, hi) is in some vad: one pass over the ordered list.
vas_range_mapped(vads, lo, hi) ==
    LET step(s, d) == IF s.gap \/ d.end <= s.pos THEN s
                      ELSE IF d.start > s.pos THEN [s EXCEPT !.gap = s.pos < hi]
                      ELSE [s EXCEPT !.pos = d.end]
        last == FoldLeft(step, [pos |-> lo, gap |-> FALSE], vads)
    IN  ~last.gap /\ last.pos >= hi

\* The page is no longer shared: it may be made writable where it is.
LastReference(m, p) == m.ram[p].ref <= 1

\* Variant: the new page is not filled.
CopyForgotten(m, p, q) == PmmTake(m)

\* The page q, the one that is taken, gets the contents of p.
CopyPage(m, p, q) == [PmmTake(m) EXCEPT !.ram[q].val = m.ram[p].val]

\* vas_handle_page_fault for a write to a present page.
vas_handle_page_fault(m, a, va) ==
    LET d == vas_find(m, a, va)
        p == PageAt(m, a, va)
        copy(q) == paging_map_page(
                       pmm_free(paging_unmap_page(CopyPage(m, p, q), a, va), p),
                       a, va, q, d.w)
    IN  IF VadsAt(m, a, va) = {} THEN Fail(m)
        ELSE IF ~d.w \/ d.shared \/ ~Mapped(m, a, va) THEN Fail(m)
        ELSE IF p \in Reserved \/ ~m.ram[p].cow THEN Fail(m)
        ELSE IF LastReference(m, p)
             THEN Ok(remap_page_flags([m EXCEPT !.ram[p].cow = FALSE, !.mixed = @ \ {<<a, va>>}],
                                      a, va, d.w))
        ELSE IF FreePages(m) = {} THEN Fail(m)
        ELSE copy(Taken(m))

\* vas_user_access_ok for a write: a page that is not writable is made so.
vas_user_access_ok(m, a, lo, hi) ==
    LET step(r, va) == IF ~r.ok THEN r
                       ELSE IF ~Mapped(r.m, a, va) THEN Fail(r.m)
                       ELSE IF Writable(r.m, a, va) THEN r
                       ELSE vas_handle_page_fault(r.m, a, va)
    IN  IF lo < VAS_USER_START \/ hi > VAS_USER_END THEN Fail(m)
        ELSE FoldLeft(step, Ok(m), Addrs(lo, hi))

-----------------------------------------------------------------------------
(* vas_clone.                                                              *)

\* Variant: the page is shared without being marked.
SharesUnmarked(m, p, cow) == [m EXCEPT !.ram[p].ref = @ + 1]

\* page_ref_inc, and SetPageFlag for a page that is to be copied on a write.
Shares(m, p, cow) == [m EXCEPT !.ram[p].ref = @ + 1, !.ram[p].cow = @ \/ cow]

\* A page of vas_clone from src to dst, d its vad.  When the entry of dst
\* cannot be made the reference is given back, but src stays read-only.
\* Pages of a vad that says read-only or shared are mapped as they are.
ClonePage(r, src, dst, d, va) ==
    LET p      == PageAt(r.m, src, va)
        cow    == d.w /\ ~d.shared
        opens  == \/ ~d.shared /\ ~cow /\ Writable(r.m, src, va)
                  \/ <<src, va>> \in r.m.opened
        more(m) == [Shares(m, p, cow) EXCEPT
                       !.mixed = IF cow THEN @ \ {<<src, va>>} ELSE @,
                       !.opened = IF opens THEN @ \cup {<<src, va>>, <<dst, va>>} ELSE @]
        back(s) == IF s.ok THEN s ELSE Fail(pmm_free(s.m, p))
    IN  IF ~r.ok \/ ~Mapped(r.m, src, va) THEN r
        ELSE IF p \in Reserved THEN paging_map_page(r.m, dst, va, p, d.w)
        ELSE back(paging_map_page(IF cow THEN remap_page_flags(more(r.m), src, va, FALSE)
                                  ELSE more(r.m), dst, va, p, d.w /\ ~cow))

CloneVad(r, src, dst, d) ==
    LET in(m) == [m EXCEPT !.left = @ - 1, !.vas[dst].vads = vad_insert(@, d)]
    IN  IF ~r.ok THEN r
        ELSE IF r.m.left = 0 THEN Fail(r.m)
        ELSE FoldLeft(LAMBDA s, va : ClonePage(s, src, dst, d, va), Ok(in(r.m)),
                      Addrs(d.start, d.end))

vas_clone(m, src, dst) ==
    LET start(r) == IF ~r.ok THEN r
                    ELSE Ok([r.m EXCEPT !.vas[dst].user_start = m.vas[src].user_start])
        end(r)   == IF r.ok THEN r
                    ELSE IF r.m.vas[dst] = NONE THEN r ELSE Fail(vas_destroy(r.m, dst))
    IN  end(FoldLeft(LAMBDA r, d : CloneVad(r, src, dst, d), start(vas_create(m, dst)),
                     m.vas[src].vads))
=============================================================================
