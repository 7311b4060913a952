----------------------------- MODULE HeapProofs -----------------------------
(***************************************************************************)
(* Proofs about Heap.tla for any memory, page size, size classes, callers  *)
(* and driver images.                                                      *)
(***************************************************************************)
EXTENDS Heap, ProofFacts

\* A page_t and a block have their types.
PageOk(x) ==
    /\ DOMAIN x = {"slab", "private", "freelist", "inuse", "size"}
    /\ x.slab \in BOOLEAN /\ x.private \in Nat /\ x.freelist \in Seq(Nat)
    /\ x.inuse \in Int /\ x.size \in Nat
BlockSet == [order : Nat, ref : {1}]

\* The objects of a slab, and those of a page that are in use.
Objects(c, p) == Members(Slots(c, p))
LiveOn(l, p)  == {q \in DOMAIN l : page_from_alloc_ptr(q) = p}

\* The heap h has its types, and so has what its callers hold, l.
Types(h, l) ==
    /\ DOMAIN h = {"page", "partial", "full", "count", "held"}
    /\ DOMAIN h.page = Usable /\ \A p \in Usable : PageOk(h.page[p])
    /\ DOMAIN h.partial = Caches /\ DOMAIN h.full = Caches
    /\ \A c \in Caches : h.partial[c] \in Seq(Usable) /\ h.full[c] \in Seq(Usable)
    /\ h.count \in Int
    /\ DOMAIN h.held \subseteq Usable /\ h.held \in [DOMAIN h.held -> BlockSet]
    /\ IsFiniteSet(DOMAIN l) /\ DOMAIN l \subseteq Nat \ {0}
    /\ l = [q \in DOMAIN l |-> l[q]]
    /\ \A q \in DOMAIN l : l[q].size \in Nat \ {0}

\* The lists of a cache hold its slabs, by whether they have a free object.
ListInv(h) == \A c \in Caches :
    /\ Unique(h.partial[c]) /\ Unique(h.full[c])
    /\ \A p \in Usable :
          /\ p \in Members(h.partial[c]) <=>
                h.page[p].slab /\ h.page[p].private = c /\ h.page[p].freelist # <<>>
          /\ p \in Members(h.full[c]) <=>
                h.page[p].slab /\ h.page[p].private = c /\ h.page[p].freelist = <<>>

\* A slab has a page of its own and a cache, and each of its objects is
\* either in use or free.
SlabOk(h, l, p) ==
    LET c == h.page[p].private
        f == h.page[p].freelist
    IN  /\ c \in Caches /\ p \in DOMAIN h.held /\ h.held[p].order = 0
        /\ Unique(f) /\ Members(f) \subseteq Objects(c, p)
        /\ LiveOn(l, p) = Objects(c, p) \ Members(f)
        /\ h.page[p].inuse = Cardinality(LiveOn(l, p))
        /\ h.page[p].inuse + Len(f) = Len(Slots(c, p))
SlabInv(h, l) == \A p \in Usable : h.page[p].slab => SlabOk(h, l, p)

\* Blocks of pages do not meet.
HeldInv(held) ==
    /\ \A p \in DOMAIN held : Run(p, held[p].order) \subseteq Usable
    /\ \A p, q \in DOMAIN held :
          Run(p, held[p].order) \cap Run(q, held[q].order) # {} => p = q

\* What is in use is an object of its page, or the large block there.
LiveOk(h, l, q) ==
    LET p == page_from_alloc_ptr(q)
    IN  /\ p \in DOMAIN h.held
        /\ IF h.page[p].slab
           THEN /\ l[q].size <= obj_size(h.page[p].private)
                /\ l[q].use = "object" <=> h.page[p].private = OWN
           ELSE /\ h.page[p].private = LARGE /\ q = p * PAGE_SIZE + LargeHdr
                /\ h.page[p].size = l[q].size /\ l[q].use # "object"
                /\ l[q].size + LargeHdr <= PAGE_SIZE * 2^h.held[p].order
LiveInv(h, l) == \A q \in DOMAIN l : LiveOk(h, l, q)

\* A page with the tag of a large block, or one that is held and no slab,
\* has a large block in use.
LargeOk(h, l, p) ==
    /\ h.page[p].private \notin Caches
    /\ h.page[p].private = LARGE \/ p \in DOMAIN h.held =>
          p \in DOMAIN h.held /\ p * PAGE_SIZE + LargeHdr \in DOMAIN l
LargeInv(h, l) == \A p \in Usable : ~h.page[p].slab => LargeOk(h, l, p)

\* All of it but the count.
Shape(h, l) == Types(h, l) /\ ListInv(h) /\ SlabInv(h, l) /\ HeldInv(h.held) /\ LiveInv(h, l)
               /\ LargeInv(h, l)

\* total_alloc_count - total_free_count: the live allocations of kmalloc.
Plain(l) == {q \in DOMAIN l : l[q].use # "object"}
Sound(h, l) == Shape(h, l) /\ h.count = Cardinality(Plain(l))

\* The ranges that the clients use.
FitIn(ps, raw, size) == \A i \in DOMAIN ps :
    /\ Span(ps[i].start, ps[i].size) \subseteq Span(raw, size)
    /\ ps[i].start % ps[i].align = 0
    /\ \A j \in DOMAIN ps \ {i} :
          Span(ps[i].start, ps[i].size) \cap Span(ps[j].start, ps[j].size) = {}
PartsInv(l, pt) == \A raw \in DOMAIN pt :
    raw \in DOMAIN l /\ l[raw].use \in {"sdi", "module"} /\ FitIn(pt[raw], raw, l[raw].size)

\* The inductive invariant.
HeapInv == Sound(heap, live) /\ PartsInv(live, parts)
           /\ (own # NULL => own \in DOMAIN live /\ live[own].use = "cache")

-----------------------------------------------------------------------------
(* Objects of a slab.                                                      *)

\* An offset below n does not change the quotient by n.
LEMMA DivideOffset ==
    ASSUME NEW n \in Nat \ {0}, NEW p \in Nat, NEW d \in Nat, d < n
    PROVE  (p * n + d) \div n = p
  <1>1. p * n \in Nat /\ p * n + d \in Nat
    OBVIOUS
  <1>2. p * n + d = p * n + d /\ 0 <= d /\ d < n
    OBVIOUS
  <1> QED BY <1>1, <1>2

\* AlignUp and sdi_elf_align_up give the next multiple.
LEMMA NextMultiple ==
    ASSUME NEW n \in Nat, NEW a \in Nat \ {0}
    PROVE  /\ ((n + a - 1) \div a) * a \in Nat
           /\ n <= ((n + a - 1) \div a) * a /\ ((n + a - 1) \div a) * a <= n + a - 1
           /\ (((n + a - 1) \div a) * a) % a = 0
  <1>1. PICK m \in Nat : m = n + a - 1
    OBVIOUS
  <1>2. PICK k \in Nat : k = m \div a
    BY <1>1
  <1>3. k * a <= m /\ m < (k + 1) * a
    BY <1>2
  <1>4. (k + 1) * a = k * a + a
    BY <1>2
  <1>5. k * a \in Nat /\ (k * a) % a = 0
    BY Multiple
  <1> QED BY <1>1, <1>2, <1>3, <1>4, <1>5

\* The constants of a cache.
LEMMA CacheBasics ==
    ASSUME NEW c \in Caches
    PROVE  /\ PAGE_SIZE \in Nat \ {0} /\ SlabHdr \in Nat \ {0} /\ obj_size(c) \in Nat \ {0}
           /\ AlignUp(SlabHdr, AlignOf(c)) \in Nat /\ SlabHdr <= AlignUp(SlabHdr, AlignOf(c))
           /\ AlignUp(SlabHdr, AlignOf(c)) + obj_size(c) <= PAGE_SIZE
  <1>1. /\ PAGE_SIZE \in Nat \ {0} /\ MaxAlign \in Nat \ {0} /\ SlabHdr \in Nat \ {0}
        /\ Own.size \in Nat \ {0} /\ Own.align \in Nat \ {0} /\ size_classes \in Seq(Nat \ {0})
    BY KheapAssumption
  <1>2. c # OWN => size_classes[c] \in Nat \ {0}
    BY <1>1 DEF Caches, OWN
  <1>3. AlignOf(c) \in Nat \ {0}
    BY <1>1, <1>2 DEF AlignOf
  <1>4. AlignUp(SlabHdr, AlignOf(c)) \in Nat /\ SlabHdr <= AlignUp(SlabHdr, AlignOf(c))
    BY <1>1, <1>3, NextMultiple DEF AlignUp
  <1>5. AlignUp(Own.size, Own.align) \in Nat /\ Own.size <= AlignUp(Own.size, Own.align)
    BY <1>1, NextMultiple DEF AlignUp
  <1>6. obj_size(c) \in Nat \ {0}
    BY <1>1, <1>2, <1>5 DEF obj_size
  <1> QED BY <1>1, <1>4, <1>6, KheapAssumption

\* Where the objects of a slab are.
LEMMA SlotFacts ==
    ASSUME NEW c \in Caches, NEW p \in Nat \ {0}
    PROVE  /\ Slots(c, p) \in Seq(Nat) /\ Len(Slots(c, p)) \in Nat \ {0} /\ Unique(Slots(c, p))
           /\ \A q \in Objects(c, p) :
                 /\ q \in Nat \ {0} /\ page_from_alloc_ptr(q) = p
                 /\ p * PAGE_SIZE + SlabHdr <= q /\ q + obj_size(c) <= p * PAGE_SIZE + PAGE_SIZE
                 /\ \A r \in Objects(c, p) : q # r => q + obj_size(c) <= r \/ r + obj_size(c) <= q
  <1>1. PICK hdr \in Nat, s \in Nat \ {0}, n \in Nat \ {0} :
            hdr = AlignUp(SlabHdr, AlignOf(c)) /\ s = obj_size(c) /\ n = PAGE_SIZE
    BY CacheBasics
  <1>2. SlabHdr \in Nat \ {0} /\ SlabHdr <= hdr /\ hdr + s <= n
    BY <1>1, CacheBasics
  <1>3. PICK d \in Nat : d = n - hdr /\ s <= d
    BY <1>2
  <1>4. PICK total \in Nat : total = d \div s
    OBVIOUS
  <1>5. total # 0 /\ total * s <= d
    <2>1. total * s <= d /\ d < (total + 1) * s
      BY <1>4
    <2>2. total = 0 => (total + 1) * s = s
      OBVIOUS
    <2> QED BY <1>3, <2>1, <2>2
  <1>6. PICK b \in Nat \ {0} : b = p * n
    OBVIOUS
  <1>7. Slots(c, p) = [i \in 1..total |-> b + hdr + (i - 1) * s]
    BY <1>1, <1>3, <1>4, <1>6 DEF Slots
  <1>8. PICK f : f = Slots(c, p)
    OBVIOUS
  <1>9. \A i \in 1..total : /\ (i - 1) * s \in Nat /\ (i - 1) * s + s <= d
                            /\ f[i] = b + hdr + (i - 1) * s
    <2> SUFFICES ASSUME NEW i \in 1..total PROVE (i - 1) * s \in Nat /\ (i - 1) * s + s <= d
      BY <1>7, <1>8
    <2>1. PICK k \in Nat : k = i - 1 /\ k + 1 \in Nat /\ k + 1 <= total
      OBVIOUS
    <2>2. k * s \in Nat /\ (k + 1) * s <= total * s /\ (k + 1) * s = k * s + s
      BY <2>1, MultipleOrder
    <2> QED BY <1>5, <2>1, <2>2
  <1>10. \A i \in 1..total : f[i] \in Nat \ {0}
    BY <1>6, <1>9
  <1>11. f \in Seq(Nat) /\ Len(f) = total /\ DOMAIN f = 1..total
    BY <1>7, <1>8, <1>10
  <1>12. \A i, j \in 1..total : i < j => f[i] + s <= f[j]
    <2> SUFFICES ASSUME NEW i \in 1..total, NEW j \in 1..total, i < j PROVE f[i] + s <= f[j]
      OBVIOUS
    <2>1. PICK k \in Nat, m \in Nat : k = i - 1 /\ m = j - 1 /\ k + 1 \in Nat /\ k + 1 <= m
      OBVIOUS
    <2>2. k * s + s <= m * s
      <3>1. (k + 1) * s <= m * s /\ (k + 1) * s = k * s + s
        BY <2>1, MultipleOrder
      <3> QED BY <3>1
    <2>3. k * s \in Nat /\ m * s \in Nat /\ f[i] = b + hdr + k * s /\ f[j] = b + hdr + m * s
      BY <1>9, <2>1
    <2> QED BY <2>2, <2>3
  <1>13. Unique(f)
    <2> SUFFICES ASSUME NEW i \in 1..total, NEW j \in 1..total, f[i] = f[j] PROVE i = j
      BY <1>11 DEF Unique
    <2>1. ~(i < j) /\ ~(j < i)
      BY <1>10, <1>12
    <2> QED BY <2>1
  <1>14. Objects(c, p) = {f[i] : i \in 1..total}
    BY <1>8, <1>11 DEF Objects, Members
  <1>15. ASSUME NEW q \in Objects(c, p)
         PROVE  /\ q \in Nat \ {0} /\ page_from_alloc_ptr(q) = p
                /\ p * PAGE_SIZE + SlabHdr <= q /\ q + obj_size(c) <= p * PAGE_SIZE + PAGE_SIZE
                /\ \A r \in Objects(c, p) : q # r => q + obj_size(c) <= r \/ r + obj_size(c) <= q
    <2>1. PICK i \in 1..total : q = f[i]
      BY <1>14, <1>15
    <2>2. PICK e \in Nat : e = (i - 1) * s /\ e + s <= d /\ q = b + hdr + e
      BY <1>9, <2>1
    <2>3. PICK o \in Nat : o = hdr + e /\ o < n
      BY <1>3, <2>2
    <2>4. q \div n = p
      BY <1>6, <2>2, <2>3, DivideOffset
    <2>5. \A r \in Objects(c, p) : q # r => q + s <= r \/ r + s <= q
      <3> SUFFICES ASSUME NEW r \in Objects(c, p), q # r PROVE q + s <= r \/ r + s <= q
        OBVIOUS
      <3>1. PICK j \in 1..total : r = f[j]
        BY <1>14
      <3>2. i < j \/ j < i
        BY <2>1, <3>1
      <3> QED BY <1>12, <2>1, <3>1, <3>2
    <2>6. b + SlabHdr <= q /\ q + s <= b + n /\ q \in Nat \ {0}
      BY <1>2, <1>3, <2>2
    <2> QED BY <1>1, <1>6, <2>4, <2>5, <2>6 DEF page_from_alloc_ptr
  <1> QED BY <1>5, <1>8, <1>11, <1>13, <1>15

\* Where a large block is.
LEMMA LargePointer ==
    ASSUME NEW p \in Nat \ {0}
    PROVE  /\ p * PAGE_SIZE + LargeHdr \in Nat \ {0}
           /\ page_from_alloc_ptr(p * PAGE_SIZE + LargeHdr) = p
  <1>1. PAGE_SIZE \in Nat \ {0} /\ LargeHdr \in Nat \ {0} /\ LargeHdr < PAGE_SIZE
    BY KheapAssumption
  <1>2. (p * PAGE_SIZE + LargeHdr) \div PAGE_SIZE = p
    BY <1>1, DivideOffset
  <1>3. p * PAGE_SIZE \in Nat
    BY <1>1
  <1> QED BY <1>1, <1>2, <1>3 DEF page_from_alloc_ptr

\* A block has its head, and a block of order 0 nothing else.
LEMMA RunFacts ==
    ASSUME NEW p \in Nat, NEW o \in Nat
    PROVE  p \in Run(p, o) /\ Run(p, 0) = {p} /\ Run(p, o) \subseteq Nat
  <1>1. 2^o \in Nat \ {0} /\ 2^0 = 1
    BY PowerStep
  <1>2. p \in Run(p, o) /\ Run(p, o) \subseteq Nat
    BY <1>1 DEF Run
  <1>3. Run(p, 0) = p..p
    BY <1>1 DEF Run
  <1> QED BY <1>2, <1>3

-----------------------------------------------------------------------------
(* Calls change one page: what is left to show of such a call.             *)

\* g differs from h in page p and the lists of cache c, and p is in the list
\* where it belongs.
OneCache(h, g, p, c) ==
    /\ \A q \in Usable \ {p} : g.page[q] = h.page[q]
    /\ h.page[p].slab => h.page[p].private = c
    /\ g.page[p].slab => g.page[p].private = c
    /\ \A d \in Caches \ {c} : g.partial[d] = h.partial[d] /\ g.full[d] = h.full[d]
    /\ Unique(g.partial[c]) /\ Unique(g.full[c])
    /\ Members(g.partial[c]) \ {p} = Members(h.partial[c]) \ {p}
    /\ Members(g.full[c]) \ {p} = Members(h.full[c]) \ {p}
    /\ p \in Members(g.partial[c]) <=> g.page[p].slab /\ g.page[p].freelist # <<>>
    /\ p \in Members(g.full[c]) <=> g.page[p].slab /\ g.page[p].freelist = <<>>

\* Then the other slabs are in their lists, too.
LEMMA ListStep ==
    ASSUME NEW h, NEW g, NEW p \in Usable, NEW c \in Caches, ListInv(h), OneCache(h, g, p, c)
    PROVE  ListInv(g)
  <1> USE DEF OneCache
  <1> SUFFICES ASSUME NEW d \in Caches
               PROVE  /\ Unique(g.partial[d]) /\ Unique(g.full[d])
                      /\ \A q \in Usable :
                          /\ q \in Members(g.partial[d]) <=>
                              g.page[q].slab /\ g.page[q].private = d /\ g.page[q].freelist # <<>>
                          /\ q \in Members(g.full[d]) <=>
                              g.page[q].slab /\ g.page[q].private = d /\ g.page[q].freelist = <<>>
    BY DEF ListInv
  <1>1. /\ Unique(h.partial[d]) /\ Unique(h.full[d])
        /\ \A q \in Usable :
            /\ q \in Members(h.partial[d]) <=>
                h.page[q].slab /\ h.page[q].private = d /\ h.page[q].freelist # <<>>
            /\ q \in Members(h.full[d]) <=>
                h.page[q].slab /\ h.page[q].private = d /\ h.page[q].freelist = <<>>
    BY DEF ListInv
  <1>2. CASE d # c
    <2>1. g.partial[d] = h.partial[d] /\ g.full[d] = h.full[d]
      BY <1>2
    <2>2. p \notin Members(h.partial[d]) /\ p \notin Members(h.full[d])
      BY <1>1, <1>2
    <2>3. ASSUME NEW q \in Usable
          PROVE  /\ q \in Members(g.partial[d]) <=>
                     g.page[q].slab /\ g.page[q].private = d /\ g.page[q].freelist # <<>>
                 /\ q \in Members(g.full[d]) <=>
                     g.page[q].slab /\ g.page[q].private = d /\ g.page[q].freelist = <<>>
      <3>1. CASE q = p
        BY <1>2, <2>1, <2>2, <3>1
      <3>2. CASE q # p
        BY <1>1, <2>1, <3>2
      <3> QED BY <3>1, <3>2
    <2> QED BY <1>1, <2>1, <2>3
  <1>3. CASE d = c
    <2>1. ASSUME NEW q \in Usable
          PROVE  /\ q \in Members(g.partial[c]) <=>
                     g.page[q].slab /\ g.page[q].private = c /\ g.page[q].freelist # <<>>
                 /\ q \in Members(g.full[c]) <=>
                     g.page[q].slab /\ g.page[q].private = c /\ g.page[q].freelist = <<>>
      <3>1. CASE q = p
        BY <3>1
      <3>2. CASE q # p
        <4>1. /\ q \in Members(g.partial[c]) <=> q \in Members(h.partial[c])
              /\ q \in Members(g.full[c]) <=> q \in Members(h.full[c])
          BY <3>2
        <4> QED BY <1>1, <1>3, <3>2, <4>1
      <3> QED BY <3>1, <3>2
    <2> QED BY <1>3, <2>1
  <1> QED BY <1>2, <1>3

\* g and m differ from h and l in page p, its block and the pointers to it,
\* and p is as it should be.
OnePage(h, l, g, m, p) ==
    /\ \A q \in Usable \ {p} : g.page[q] = h.page[q]
    /\ \A q \in Usable \ {p} : q \in DOMAIN g.held <=> q \in DOMAIN h.held
    /\ \A q \in DOMAIN h.held \ {p} : g.held[q] = h.held[q]
    /\ \A q : page_from_alloc_ptr(q) # p => (q \in DOMAIN m <=> q \in DOMAIN l)
    /\ \A q \in DOMAIN l : page_from_alloc_ptr(q) # p => m[q] = l[q]
    /\ g.page[p].slab => SlabOk(g, m, p)
    /\ \A q \in LiveOn(m, p) : LiveOk(g, m, q)
    /\ ~g.page[p].slab => LargeOk(g, m, p)

\* Then all of the heap is.
LEMMA PageStep ==
    ASSUME NEW h, NEW l, NEW g, NEW m, NEW p \in Usable,
           Shape(h, l), Types(g, m), ListInv(g), HeldInv(g.held), OnePage(h, l, g, m, p)
    PROVE  Shape(g, m)
  <1> USE DEF OnePage
  <1>0. /\ DOMAIN h.held \subseteq Usable /\ DOMAIN g.held \subseteq Usable
        /\ Usable \subseteq Nat \ {0}
    BY KheapAssumption DEF Shape, Types
  <1>1. SlabInv(g, m)
    <2> SUFFICES ASSUME NEW q \in Usable, g.page[q].slab PROVE SlabOk(g, m, q)
      BY DEF SlabInv
    <2>1. CASE q = p
      BY <2>1
    <2>2. CASE q # p
      <3>1. g.page[q] = h.page[q] /\ SlabOk(h, l, q)
        BY <2>2 DEF Shape, SlabInv
      <3>2. LiveOn(m, q) = LiveOn(l, q)
        BY <2>2 DEF LiveOn
      <3>3. q \in DOMAIN h.held => q \in DOMAIN g.held /\ g.held[q] = h.held[q]
        BY <2>2
      <3> QED BY <3>1, <3>2, <3>3 DEF SlabOk
    <2> QED BY <2>1, <2>2
  <1>2. LiveInv(g, m)
    <2> SUFFICES ASSUME NEW q \in DOMAIN m PROVE LiveOk(g, m, q)
      BY DEF LiveInv
    <2>1. PICK a : a = page_from_alloc_ptr(q)
      OBVIOUS
    <2>2. CASE a = p
      BY <2>1, <2>2 DEF LiveOn
    <2>3. CASE a # p
      <3>1. q \in DOMAIN l /\ m[q] = l[q] /\ LiveOk(h, l, q)
        BY <2>1, <2>3 DEF Shape, LiveInv
      <3>2. a \in DOMAIN h.held
        BY <2>1, <3>1 DEF LiveOk
      <3>3. a \in Usable /\ g.page[a] = h.page[a] /\ a \in DOMAIN g.held /\ g.held[a] = h.held[a]
        BY <1>0, <2>3, <3>2
      <3> QED BY <2>1, <3>1, <3>3 DEF LiveOk
    <2> QED BY <2>2, <2>3
  <1>3. LargeInv(g, m)
    <2> SUFFICES ASSUME NEW q \in Usable, ~g.page[q].slab PROVE LargeOk(g, m, q)
      BY DEF LargeInv
    <2>1. CASE q = p
      BY <2>1
    <2>2. CASE q # p
      <3>1. g.page[q] = h.page[q] /\ LargeOk(h, l, q)
        BY <2>2 DEF Shape, LargeInv
      <3>2. page_from_alloc_ptr(q * PAGE_SIZE + LargeHdr) = q
        BY <1>0, LargePointer
      <3>3. PICK x : x = q * PAGE_SIZE + LargeHdr
        OBVIOUS
      <3>4. x \in DOMAIN m <=> x \in DOMAIN l
        BY <2>2, <3>2, <3>3
      <3> QED BY <2>2, <3>1, <3>3, <3>4 DEF LargeOk
    <2> QED BY <2>1, <2>2
  <1> QED BY <1>1, <1>2, <1>3 DEF Shape

-----------------------------------------------------------------------------
(* Blocks taken and given back.                                            *)

\* A page pg that nobody uses, and the blocks once its block is taken.
Fresh(h, l, o, pg, took) ==
    /\ pg \in Usable /\ pg \notin DOMAIN h.held /\ LiveOn(l, pg) = {}
    /\ ~h.page[pg].slab /\ h.page[pg].private \notin Caches \cup {LARGE}
    /\ HeldInv(took)
    /\ DOMAIN took = DOMAIN h.held \cup {pg}
    /\ took[pg] = [order |-> o, ref |-> 1]
    /\ \A q \in DOMAIN h.held : q # pg /\ took[q] = h.held[q]
    /\ DOMAIN took \subseteq Usable
    /\ took \in [DOMAIN took -> BlockSet]

\* A block that pmm_alloc may return is not part of any other.
LEMMA TakeBlock ==
    ASSUME NEW h, NEW l, Shape(h, l), NEW o \in Nat, NEW pg \in FreeRuns(Usable, h.held, o),
           NEW took, took = Took(h.held, pg, o)
    PROVE  Fresh(h, l, o, pg, took)
  <1>0. PICK held : held = h.held
    OBVIOUS
  <1>1. /\ Usable \subseteq Nat \ {0} /\ DOMAIN held \subseteq Usable
        /\ held \in [DOMAIN held -> BlockSet] /\ HeldInv(held)
    BY <1>0, KheapAssumption DEF Shape, Types
  <1>2. pg \in Usable /\ Run(pg, o) \subseteq Usable \ Used(held)
    BY <1>0 DEF FreeRuns
  <1>3. ASSUME NEW q \in DOMAIN held
        PROVE  /\ held[q].order \in Nat /\ q \in Run(q, held[q].order)
               /\ Run(pg, o) \cap Run(q, held[q].order) = {}
    <2>1. q \in Nat /\ held[q].order \in Nat
      BY <1>1, <1>3 DEF BlockSet
    <2>2. Run(q, held[q].order) \subseteq Used(held)
      BY <1>3 DEF Used
    <2> QED BY <1>2, <2>1, <2>2, RunFacts
  <1>4. pg \in Run(pg, o)
    BY <1>1, <1>2, RunFacts
  <1>5. pg \notin DOMAIN held
    BY <1>3, <1>4
  <1>6. LiveOn(l, pg) = {}
    BY <1>0, <1>5 DEF Shape, LiveInv, LiveOk, LiveOn
  <1>7. ~h.page[pg].slab
    BY <1>0, <1>2, <1>5 DEF Shape, SlabInv, SlabOk
  <1>8. h.page[pg].private \notin Caches \cup {LARGE}
    BY <1>0, <1>2, <1>5, <1>7 DEF Shape, LargeInv, LargeOk
  <1>9. took = Took(held, pg, o)
    BY <1>0
  <1>10. /\ DOMAIN took = DOMAIN held \cup {pg} /\ took[pg] = [order |-> o, ref |-> 1]
         /\ \A q \in DOMAIN held : q # pg /\ took[q] = held[q]
    BY <1>5, <1>9 DEF Took
  <1>11. DOMAIN took \subseteq Usable /\ took \in [DOMAIN took -> BlockSet]
    <2>1. took = [q \in DOMAIN held \cup {pg} |-> IF q = pg THEN [order |-> o, ref |-> 1] ELSE held[q]]
      BY <1>9 DEF Took
    <2>2. [order |-> o, ref |-> 1] \in BlockSet /\ \A q \in DOMAIN held : held[q] \in BlockSet
      BY <1>1 DEF BlockSet
    <2> QED BY <1>1, <1>2, <2>1, <2>2
  <1>12. HeldInv(took)
    <2>1. ASSUME NEW q \in DOMAIN took PROVE Run(q, took[q].order) \subseteq Usable
      <3>1. CASE q = pg
        BY <1>2, <1>10, <3>1
      <3>2. CASE q # pg
        BY <1>1, <1>10, <3>2 DEF HeldInv
      <3> QED BY <3>1, <3>2
    <2>2. ASSUME NEW q \in DOMAIN took, NEW r \in DOMAIN took,
                 Run(q, took[q].order) \cap Run(r, took[r].order) # {}
          PROVE  q = r
      <3>1. CASE q = pg /\ r # pg
        BY <1>3, <1>10, <2>2, <3>1
      <3>2. CASE q # pg /\ r = pg
        BY <1>3, <1>10, <2>2, <3>2
      <3>3. CASE q # pg /\ r # pg
        BY <1>1, <1>10, <2>2, <3>3 DEF HeldInv
      <3> QED BY <3>1, <3>2, <3>3
    <2> QED BY <2>1, <2>2 DEF HeldInv
  <1> QED BY <1>0, <1>2, <1>5, <1>6, <1>7, <1>8, <1>9, <1>10, <1>11, <1>12 DEF Fresh

\* Blocks that are given back leave the others as they were.
LEMMA GiveBlocks ==
    ASSUME NEW held, NEW S, DOMAIN held \subseteq Usable, held \in [DOMAIN held -> BlockSet],
           HeldInv(held), NEW k, k = [q \in DOMAIN held \ S |-> held[q]]
    PROVE  /\ HeldInv(k) /\ k \in [DOMAIN held \ S -> BlockSet]
           /\ \A p \in DOMAIN held : S = {p} => Gave(held, p) = k
  <1>1. \A p \in DOMAIN held : held[p].ref = 1
    BY DEF BlockSet
  <1>2. \A p \in DOMAIN held : S = {p} => Gave(held, p) = k
    BY <1>1 DEF Gave
  <1>3. HeldInv(k)
    BY DEF HeldInv
  <1> QED BY <1>2, <1>3

-----------------------------------------------------------------------------
(* Slabs: creation, allocation, free.                                      *)

\* g is h after slab_create on page pg.
SlabCreated(h, c, pg, g) ==
    /\ DOMAIN g = DOMAIN h /\ DOMAIN g.page = Usable
    /\ g.full = h.full /\ g.count = h.count /\ g.held = Took(h.held, pg, 0)
    /\ \A q \in Usable \ {pg} : g.page[q] = h.page[q]
    /\ DOMAIN g.page[pg] = DOMAIN h.page[pg]
    /\ g.page[pg].slab = TRUE /\ g.page[pg].private = c /\ g.page[pg].freelist = Slots(c, pg)
    /\ g.page[pg].inuse = 0 /\ g.page[pg].size = h.page[pg].size
    /\ DOMAIN g.partial = Caches /\ g.partial[c] = <<pg>> \o h.partial[c]
    /\ \A d \in Caches \ {c} : g.partial[d] = h.partial[d]

\* What slab_create writes.
LEMMA SlabCreateFields ==
    ASSUME NEW h, NEW l, Types(h, l), NEW c \in Caches, NEW pg \in Usable, NEW g,
           g = slab_create(h, c, pg)
    PROVE  SlabCreated(h, c, pg, g)
  BY DEF Types, PageOk, slab_create, SlabCreated

\* g is h after PopObject from page p, whose last free object it was if full.
Popped(h, c, p, full, g) ==
    /\ DOMAIN g = DOMAIN h /\ DOMAIN g.page = Usable
    /\ g.count = h.count /\ g.held = h.held
    /\ \A q \in Usable \ {p} : g.page[q] = h.page[q]
    /\ DOMAIN g.page[p] = DOMAIN h.page[p]
    /\ g.page[p].slab = h.page[p].slab /\ g.page[p].private = h.page[p].private
    /\ g.page[p].freelist = Tail(h.page[p].freelist)
    /\ g.page[p].inuse = h.page[p].inuse + 1 /\ g.page[p].size = h.page[p].size
    /\ DOMAIN g.partial = Caches /\ DOMAIN g.full = Caches
    /\ g.partial[c] = IF full THEN Tail(h.partial[c]) ELSE h.partial[c]
    /\ g.full[c] = IF full THEN <<p>> \o h.full[c] ELSE h.full[c]
    /\ \A d \in Caches \ {c} : g.partial[d] = h.partial[d] /\ g.full[d] = h.full[d]

\* What slab_alloc writes, for a slab p with objects f.
LEMMA PopObjectFields ==
    ASSUME NEW h, NEW l, Types(h, l), NEW c \in Caches, NEW p \in Usable, p = Head(h.partial[c]),
           NEW full \in BOOLEAN, full = (Len(h.page[p].freelist) = 1), NEW g,
           g = PopObject(h, c)
    PROVE  Popped(h, c, p, full, g)
  <1>1. PICK a : a = IF full THEN Tail(h.partial[c]) ELSE h.partial[c]
    OBVIOUS
  <1>2. PICK b : b = IF full THEN <<p>> \o h.full[c] ELSE h.full[c]
    OBVIOUS
  <1>3. PICK x : x = Tail(h.page[p].freelist)
    OBVIOUS
  <1>4. PICK y : y = h.page[p].inuse + 1
    OBVIOUS
  <1>5. g = [h EXCEPT !.page[p].freelist = x, !.page[p].inuse = y,
                      !.partial[c] = a, !.full[c] = b]
    BY <1>1, <1>2, <1>3, <1>4 DEF PopObject
  <1>6. /\ DOMAIN h = {"page", "partial", "full", "count", "held"}
        /\ DOMAIN h.page = Usable /\ DOMAIN h.partial = Caches /\ DOMAIN h.full = Caches
        /\ DOMAIN h.page[p] = {"slab", "private", "freelist", "inuse", "size"}
    BY DEF Types, PageOk
  <1>7. /\ DOMAIN g = DOMAIN h /\ DOMAIN g.page = Usable
        /\ g.count = h.count /\ g.held = h.held
        /\ \A q \in Usable \ {p} : g.page[q] = h.page[q]
    BY <1>5, <1>6
  <1>8. /\ DOMAIN g.page[p] = DOMAIN h.page[p]
        /\ g.page[p].slab = h.page[p].slab /\ g.page[p].private = h.page[p].private
        /\ g.page[p].freelist = x /\ g.page[p].inuse = y /\ g.page[p].size = h.page[p].size
    <2>1. g.page = [h.page EXCEPT ![p].freelist = x, ![p].inuse = y]
      BY <1>5, <1>6
    <2>2. g.page[p] = [h.page[p] EXCEPT !.freelist = x, !.inuse = y]
      BY <1>6, <2>1
    <2> QED BY <1>6, <2>2
  <1>9. /\ DOMAIN g.partial = Caches /\ DOMAIN g.full = Caches /\ g.partial[c] = a /\ g.full[c] = b
        /\ \A d \in Caches \ {c} : g.partial[d] = h.partial[d] /\ g.full[d] = h.full[d]
    BY <1>5, <1>6
  <1> QED BY <1>1, <1>2, <1>3, <1>4, <1>7, <1>8, <1>9 DEF Popped

\* g is h after slab_free of ptr on page p, which was full or not.
SlabFreed(h, c, ptr, p, full, g) ==
    /\ DOMAIN g = DOMAIN h /\ DOMAIN g.page = Usable
    /\ g.count = h.count /\ g.held = h.held
    /\ \A q \in Usable \ {p} : g.page[q] = h.page[q]
    /\ DOMAIN g.page[p] = DOMAIN h.page[p]
    /\ g.page[p].slab = h.page[p].slab /\ g.page[p].private = h.page[p].private
    /\ g.page[p].freelist = <<ptr>> \o h.page[p].freelist
    /\ g.page[p].inuse = h.page[p].inuse - 1 /\ g.page[p].size = h.page[p].size
    /\ DOMAIN g.partial = Caches /\ DOMAIN g.full = Caches
    /\ g.partial[c] = IF full THEN <<p>> \o h.partial[c] ELSE h.partial[c]
    /\ g.full[c] = IF full THEN Without(h.full[c], p) ELSE h.full[c]
    /\ \A d \in Caches \ {c} : g.partial[d] = h.partial[d] /\ g.full[d] = h.full[d]

\* What slab_free writes.
LEMMA SlabFreeFields ==
    ASSUME NEW h, NEW l, Types(h, l), NEW c \in Caches, NEW ptr, NEW p \in Usable,
           p = page_from_alloc_ptr(ptr), NEW full \in BOOLEAN,
           full = (h.page[p].freelist = <<>> /\ h.page[p].inuse = Len(Slots(c, p))), NEW g,
           g = slab_free(h, c, ptr)
    PROVE  SlabFreed(h, c, ptr, p, full, g)
  <1>1. PICK a : a = IF full THEN <<p>> \o h.partial[c] ELSE h.partial[c]
    OBVIOUS
  <1>2. PICK b : b = IF full THEN Without(h.full[c], p) ELSE h.full[c]
    OBVIOUS
  <1>3. PICK x : x = <<ptr>> \o h.page[p].freelist
    OBVIOUS
  <1>4. PICK y : y = h.page[p].inuse - 1
    OBVIOUS
  <1>5. g = [h EXCEPT !.page[p].freelist = x, !.page[p].inuse = y,
                      !.full[c] = b, !.partial[c] = a]
    BY <1>1, <1>2, <1>3, <1>4 DEF slab_free, slab_list_remove
  <1>6. /\ DOMAIN h = {"page", "partial", "full", "count", "held"}
        /\ DOMAIN h.page = Usable /\ DOMAIN h.partial = Caches /\ DOMAIN h.full = Caches
        /\ DOMAIN h.page[p] = {"slab", "private", "freelist", "inuse", "size"}
    BY DEF Types, PageOk
  <1>7. /\ DOMAIN g = DOMAIN h /\ DOMAIN g.page = Usable
        /\ g.count = h.count /\ g.held = h.held
        /\ \A q \in Usable \ {p} : g.page[q] = h.page[q]
    BY <1>5, <1>6
  <1>8. /\ DOMAIN g.page[p] = DOMAIN h.page[p]
        /\ g.page[p].slab = h.page[p].slab /\ g.page[p].private = h.page[p].private
        /\ g.page[p].freelist = x /\ g.page[p].inuse = y /\ g.page[p].size = h.page[p].size
    <2>1. g.page = [h.page EXCEPT ![p].freelist = x, ![p].inuse = y]
      BY <1>5, <1>6
    <2>2. g.page[p] = [h.page[p] EXCEPT !.freelist = x, !.inuse = y]
      BY <1>6, <2>1
    <2> QED BY <1>6, <2>2
  <1>9. /\ DOMAIN g.partial = Caches /\ DOMAIN g.full = Caches /\ g.partial[c] = a /\ g.full[c] = b
        /\ \A d \in Caches \ {c} : g.partial[d] = h.partial[d] /\ g.full[d] = h.full[d]
    BY <1>5, <1>6
  <1> QED BY <1>1, <1>2, <1>3, <1>4, <1>7, <1>8, <1>9 DEF SlabFreed

\* g is h after LargeAlloc on page pg.
LargeTaken(h, size, pg, g) ==
    /\ DOMAIN g = DOMAIN h /\ DOMAIN g.page = Usable
    /\ g.count = h.count /\ g.partial = h.partial /\ g.full = h.full
    /\ g.held = Took(h.held, pg, OrderFor(size))
    /\ \A q \in Usable \ {pg} : g.page[q] = h.page[q]
    /\ DOMAIN g.page[pg] = DOMAIN h.page[pg]
    /\ g.page[pg].slab = h.page[pg].slab /\ g.page[pg].private = LARGE
    /\ g.page[pg].freelist = h.page[pg].freelist
    /\ g.page[pg].inuse = h.page[pg].inuse /\ g.page[pg].size = size

\* What kmalloc writes for a large block.
LEMMA LargeAllocFields ==
    ASSUME NEW h, NEW l, Types(h, l), NEW size, NEW pg \in Usable, pg # 0, NEW r,
           r = LargeAlloc(h, size, pg), NEW g, g = r.h
    PROVE  LargeTaken(h, size, pg, g) /\ r.ptr = pg * PAGE_SIZE + LargeHdr
  BY DEF Types, PageOk, LargeAlloc, LargeTaken

\* g is h after kfree of the large block on page p.
LargeFreed(h, p, g) ==
    /\ DOMAIN g = DOMAIN h /\ DOMAIN g.page = Usable
    /\ g.count = h.count - 1 /\ g.partial = h.partial /\ g.full = h.full
    /\ g.held = Gave(h.held, p)
    /\ \A q \in Usable \ {p} : g.page[q] = h.page[q]
    /\ DOMAIN g.page[p] = DOMAIN h.page[p]
    /\ g.page[p].slab = h.page[p].slab /\ g.page[p].private = 0
    /\ g.page[p].freelist = h.page[p].freelist
    /\ g.page[p].inuse = h.page[p].inuse /\ g.page[p].size = 0

\* What kfree writes for a large block.
LEMMA LargeFreeFields ==
    ASSUME NEW h, NEW l, Types(h, l), NEW ptr, ptr # NULL, NEW p \in Usable,
           p = page_from_alloc_ptr(ptr), ~h.page[p].slab, NEW g, g = kfree(h, ptr)
    PROVE  LargeFreed(h, p, g)
  BY DEF Types, PageOk, kfree, LargeFreed

\* g is h with another count.
Counted(h, n, g) ==
    /\ DOMAIN g = DOMAIN h /\ g.count = n /\ g.page = h.page /\ g.partial = h.partial
    /\ g.full = h.full /\ g.held = h.held

\* A call that only counts.
LEMMA CountFields ==
    ASSUME NEW h, NEW l, Types(h, l), NEW n, NEW g, g = [h EXCEPT !.count = n]
    PROVE  Counted(h, n, g)
  BY DEF Types, Counted

\* g is h after slab_destroy of the slabs S.
Destroyed(h, S, g) ==
    /\ DOMAIN g = DOMAIN h /\ DOMAIN g.page = Usable /\ g.count = h.count
    /\ g.held = [p \in DOMAIN h.held \ S |-> h.held[p]]
    /\ \A q \in Usable \ S : g.page[q] = h.page[q]
    /\ \A q \in Usable \cap S :
          PageOk(g.page[q]) /\ ~g.page[q].slab /\ g.page[q].private = STALE
    /\ DOMAIN g.partial = Caches /\ DOMAIN g.full = Caches
    /\ g.partial[OWN] = <<>> /\ g.full[OWN] = <<>>
    /\ \A d \in Caches \ {OWN} : g.partial[d] = h.partial[d] /\ g.full[d] = h.full[d]

\* What slab_cache_destroy writes before it frees the cache.
LEMMA DestroyFields ==
    ASSUME NEW h, NEW l, Types(h, l), NEW S, NEW g,
           g = [slab_destroy(h, S) EXCEPT !.partial[OWN] = <<>>, !.full[OWN] = <<>>]
    PROVE  Destroyed(h, S, g)
  <1>1. OWN \in Caches
    BY KheapAssumption DEF OWN, Caches
  <1>2. PICK k : k = slab_destroy(h, S)
    OBVIOUS
  <1>3. /\ DOMAIN k = DOMAIN h /\ DOMAIN k.page = Usable /\ k.count = h.count
        /\ k.held = [p \in DOMAIN h.held \ S |-> h.held[p]]
        /\ k.partial = h.partial /\ k.full = h.full
        /\ \A q \in Usable \ S : k.page[q] = h.page[q]
        /\ \A q \in Usable \cap S : k.page[q] = [BarePage EXCEPT !.private = STALE]
    BY <1>2 DEF Types, slab_destroy
  <1>4. PICK x : x = [BarePage EXCEPT !.private = STALE]
    OBVIOUS
  <1>5. STALE \in Nat
    BY KheapAssumption DEF STALE, OWN
  <1>6. PageOk(x) /\ ~x.slab /\ x.private = STALE
    BY <1>4, <1>5 DEF BarePage, PageOk
  <1> QED BY <1>1, <1>2, <1>3, <1>4, <1>6 DEF Types, Destroyed

\* A new slab: a page of free objects.
LEMMA SlabCreateShape ==
    ASSUME NEW h, NEW l, Shape(h, l), NEW c \in Caches,
           NEW pg \in FreeRuns(Usable, h.held, 0), NEW g, g = slab_create(h, c, pg)
    PROVE  Shape(g, l) /\ g.count = h.count /\ g.partial[c] # <<>>
  <1>0. Types(h, l) /\ ListInv(h) /\ Usable \subseteq Nat \ {0} /\ 0 \in Nat
    BY KheapAssumption DEF Shape
  <1>1. PICK k : k = Took(h.held, pg, 0)
    OBVIOUS
  <1>2. Fresh(h, l, 0, pg, k)
    BY <1>0, <1>1, TakeBlock
  <1>a. /\ pg \in Usable /\ pg \notin DOMAIN h.held /\ LiveOn(l, pg) = {} /\ ~h.page[pg].slab
    BY <1>2 DEF Fresh
  <1>3. SlabCreated(h, c, pg, g)
    BY <1>0, <1>a, SlabCreateFields
  <1>4. /\ Slots(c, pg) \in Seq(Nat) /\ Len(Slots(c, pg)) \in Nat \ {0} /\ Unique(Slots(c, pg))
    BY <1>0, <1>a, SlotFacts
  <1>5. /\ h.partial[c] \in Seq(Usable) /\ h.full[c] \in Seq(Usable)
        /\ Unique(h.partial[c]) /\ Unique(h.full[c])
        /\ pg \notin Members(h.partial[c]) /\ pg \notin Members(h.full[c])
    BY <1>0, <1>a DEF Types, ListInv
  <1>6. /\ g.partial[c] \in Seq(Usable) /\ Unique(g.partial[c])
        /\ Members(g.partial[c]) = Members(h.partial[c]) \cup {pg}
    BY <1>a, <1>3, <1>5, MembersPush DEF SlabCreated
  <1>7. g.partial[c] # <<>>
    BY <1>6, MembersBasics
  <1>8. Types(g, l)
    <2>1. PageOk(g.page[pg])
      <3>1. PICK x, y : x = g.page[pg] /\ y = h.page[pg]
        OBVIOUS
      <3>2. /\ DOMAIN x = DOMAIN y /\ x.slab = TRUE /\ x.private = c /\ x.freelist = Slots(c, pg)
            /\ x.inuse = 0 /\ x.size = y.size
        BY <1>3, <3>1 DEF SlabCreated
      <3>3. PageOk(y) /\ c \in Nat
        BY <1>0, <1>a, <3>1, KheapAssumption DEF Types, Caches, OWN
      <3>4. x.slab \in BOOLEAN
        BY <3>2
      <3>5. DOMAIN x = {"slab", "private", "freelist", "inuse", "size"} /\ x.size \in Nat
        BY <3>2, <3>3 DEF PageOk
      <3>6. x.private \in Nat /\ x.freelist \in Seq(Nat) /\ x.inuse \in Int
        BY <1>4, <3>2, <3>3
      <3> QED BY <3>1, <3>4, <3>5, <3>6 DEF PageOk
    <2>2. \A q \in Usable : PageOk(g.page[q])
      BY <1>0, <1>3, <2>1 DEF Types, SlabCreated
    <2>3. \A d \in Caches : g.partial[d] \in Seq(Usable) /\ g.full[d] \in Seq(Usable)
      BY <1>0, <1>3, <1>6 DEF Types, SlabCreated
    <2>4. g.held = k
      BY <1>1, <1>3 DEF SlabCreated
    <2> QED BY <1>0, <1>2, <1>3, <2>2, <2>3, <2>4 DEF Types, Fresh, SlabCreated
  <1>9. ListInv(g)
    <2>1. g.page[pg].freelist # <<>>
      BY <1>3, <1>4 DEF SlabCreated
    <2>2. OneCache(h, g, pg, c)
      BY <1>a, <1>3, <1>5, <1>6, <2>1 DEF OneCache, SlabCreated
    <2> QED BY <1>0, <1>a, <2>2, ListStep
  <1>10. SlabOk(g, l, pg)
    <2>1. PICK f : f = Slots(c, pg)
      OBVIOUS
    <2>2. Cardinality(LiveOn(l, pg)) = 0
      BY <1>a, FS_EmptySet, Zenon
    <2>3. Objects(c, pg) = Members(f)
      BY <2>1 DEF Objects
    <2>4. pg \in DOMAIN g.held /\ g.held[pg].order = 0
      BY <1>1, <1>2, <1>3 DEF Fresh, SlabCreated
    <2>5. g.page[pg].private = c /\ g.page[pg].freelist = f /\ g.page[pg].inuse = 0
      BY <1>3, <2>1 DEF SlabCreated
    <2> QED BY <1>a, <1>4, <2>1, <2>2, <2>3, <2>4, <2>5 DEF SlabOk
  <1>11. HeldInv(g.held)
    BY <1>1, <1>2, <1>3 DEF Fresh, SlabCreated
  <1>12. OnePage(h, l, g, l, pg)
    BY <1>a, <1>1, <1>2, <1>3, <1>10 DEF OnePage, Fresh, SlabCreated
  <1>13. Shape(g, l)
    BY <1>a, <1>8, <1>9, <1>11, <1>12, PageStep
  <1>14. g.count = h.count
    BY <1>3 DEF SlabCreated
  <1> QED BY <1>7, <1>13, <1>14

\* What a caller holds after it got ptr, and after it gave ptr back.
Added(l, ptr, x, m) ==
    /\ DOMAIN m = DOMAIN l \cup {ptr} /\ m[ptr] = x /\ \A q \in DOMAIN l \ {ptr} : m[q] = l[q]
    /\ m = [q \in DOMAIN m |-> m[q]] /\ IsFiniteSet(DOMAIN m)
Dropped(l, ptr, m) ==
    /\ DOMAIN m = DOMAIN l \ {ptr} /\ \A q \in DOMAIN l \ {ptr} : m[q] = l[q]
    /\ m = [q \in DOMAIN m |-> m[q]] /\ IsFiniteSet(DOMAIN m)

\* With and Forget do just that.
LEMMA HoldFacts ==
    ASSUME NEW h, NEW l, NEW ptr, NEW x, Types(h, l)
    PROVE  Added(l, ptr, x, With(l, ptr, x)) /\ Dropped(l, ptr, Forget(l, ptr))
  <1>0. l = [q \in DOMAIN l |-> l[q]] /\ IsFiniteSet(DOMAIN l)
    BY DEF Types
  <1>1. /\ DOMAIN With(l, ptr, x) = DOMAIN l \cup {ptr} /\ With(l, ptr, x)[ptr] = x
        /\ \A q \in DOMAIN l \ {ptr} : With(l, ptr, x)[q] = l[q]
        /\ With(l, ptr, x) = [q \in DOMAIN With(l, ptr, x) |-> With(l, ptr, x)[q]]
    BY DEF With
  <1>2. /\ DOMAIN Forget(l, ptr) = DOMAIN l \ {ptr}
        /\ \A q \in DOMAIN l \ {ptr} : Forget(l, ptr)[q] = l[q]
        /\ Forget(l, ptr) = [q \in DOMAIN Forget(l, ptr) |-> Forget(l, ptr)[q]]
    BY DEF Forget
  <1>3. IsFiniteSet(DOMAIN l \cup {ptr}) /\ IsFiniteSet(DOMAIN l \ {ptr})
    BY <1>0, FS_AddElement, FS_RemoveElement
  <1> QED BY <1>1, <1>2, <1>3 DEF Added, Dropped

\* An allocation x that an object of cache c can hold.
Fits(x, c) == /\ x.size \in Nat \ {0} /\ x.size <= obj_size(c)
              /\ x.use = "object" <=> c = OWN

\* slab_alloc takes obj from the first partial slab of cache c.
Pops(h, c, g, obj) == /\ h.partial[c] # <<>> /\ g = PopObject(h, c)
                      /\ obj = Head(h.page[Head(h.partial[c])].freelist)

\* An object of a slab is handed out.
LEMMA PopShape ==
    ASSUME NEW h, NEW l, Shape(h, l), NEW c \in Caches, NEW g, NEW obj, Pops(h, c, g, obj),
           NEW x, Fits(x, c), NEW m, m = With(l, obj, x)
    PROVE  Shape(g, m) /\ obj \in Nat \ {0} /\ obj \notin DOMAIN l /\ g.count = h.count
  <1>0. Types(h, l) /\ ListInv(h) /\ Usable \subseteq Nat \ {0}
    BY KheapAssumption DEF Shape
  <1>1. PICK p : p = Head(h.partial[c])
    OBVIOUS
  <1>2. /\ h.partial[c] \in Seq(Usable) /\ h.full[c] \in Seq(Usable)
        /\ Unique(h.partial[c]) /\ Unique(h.full[c])
    BY <1>0 DEF Types, ListInv
  <1>3. /\ Tail(h.partial[c]) \in Seq(Usable) /\ Unique(Tail(h.partial[c]))
        /\ p \in Members(h.partial[c]) /\ Members(Tail(h.partial[c])) = Members(h.partial[c]) \ {p}
    BY <1>1, <1>2, MembersTail DEF Pops
  <1>4. p \in Usable
    BY <1>2, <1>3, MembersBasics
  <1>5. PICK f : f = h.page[p].freelist
    OBVIOUS
  <1>6. h.page[p].slab /\ h.page[p].private = c /\ f # <<>> /\ p \notin Members(h.full[c])
    BY <1>0, <1>3, <1>4, <1>5 DEF ListInv
  <1>7. /\ p \in DOMAIN h.held /\ h.held[p].order = 0
        /\ Unique(f) /\ Members(f) \subseteq Objects(c, p)
        /\ LiveOn(l, p) = Objects(c, p) \ Members(f)
        /\ h.page[p].inuse = Cardinality(LiveOn(l, p))
        /\ h.page[p].inuse + Len(f) = Len(Slots(c, p))
    <2>1. SlabOk(h, l, p)
      BY <1>4, <1>6 DEF Shape, SlabInv
    <2> QED BY <1>5, <1>6, <2>1 DEF SlabOk
  <1>8. PageOk(h.page[p]) /\ f \in Seq(Nat) /\ h.page[p].inuse \in Int
    BY <1>0, <1>4, <1>5 DEF Types, PageOk
  <1>9. /\ Tail(f) \in Seq(Nat) /\ Unique(Tail(f)) /\ obj \in Members(f)
        /\ Members(Tail(f)) = Members(f) \ {obj} /\ Len(Tail(f)) = Len(f) - 1
        /\ Len(f) \in Nat
    <2>a. obj = Head(f)
      BY <1>1, <1>5, Zenon DEF Pops
    <2>1. Len(f) \in Nat
      BY <1>8
    <2>2. /\ Tail(f) \in Seq(Nat) /\ Unique(Tail(f)) /\ Head(f) \in Members(f)
          /\ Members(Tail(f)) = Members(f) \ {Head(f)} /\ Len(Tail(f)) = Len(f) - 1
      BY <1>6, <1>7, <1>8, MembersTail
    <2> QED BY <2>a, <2>1, <2>2, Zenon
  <1>10. obj \in Objects(c, p) /\ obj \in Nat \ {0} /\ page_from_alloc_ptr(obj) = p
    BY <1>0, <1>4, <1>7, <1>9, SlotFacts
  <1>11. obj \notin DOMAIN l
    BY <1>7, <1>9, <1>10 DEF LiveOn
  <1>12. PICK full \in BOOLEAN : full = (Len(h.page[p].freelist) = 1)
    OBVIOUS
  <1>13. Popped(h, c, p, full, g)
    <2>1. g = PopObject(h, c)
      BY DEF Pops
    <2> QED BY <1>0, <1>1, <1>4, <1>12, <2>1, PopObjectFields
  <1>14. full <=> Tail(f) = <<>>
    <2>1. PICK t \in Seq(Nat) : t = Tail(f) /\ Len(t) = Len(f) - 1
      BY <1>9
    <2>2. t = <<>> <=> Len(t) = 0
      OBVIOUS
    <2>3. t = <<>> <=> Len(f) = 1
      <3>1. PICK n \in Nat : n = Len(f)
        BY <1>9
      <3>2. PICK k \in Nat : k = Len(t)
        OBVIOUS
      <3>3. k = n - 1
        BY <2>1, <3>1, <3>2
      <3>4. k = 0 <=> n = 1
        BY <3>3
      <3> QED BY <2>2, <3>1, <3>2, <3>4, Zenon
    <2> QED BY <1>5, <1>12, <2>1, <2>3
  <1>15. /\ DOMAIN m = DOMAIN l \cup {obj} /\ m[obj] = x /\ \A q \in DOMAIN l : m[q] = l[q]
         /\ m = [q \in DOMAIN m |-> m[q]] /\ IsFiniteSet(DOMAIN m)
    <2>1. Added(l, obj, x, m)
      BY <1>0, HoldFacts
    <2> QED BY <1>11, <2>1 DEF Added
  <1>16. /\ g.partial[c] \in Seq(Usable) /\ g.full[c] \in Seq(Usable)
         /\ Unique(g.partial[c]) /\ Unique(g.full[c])
         /\ Members(g.partial[c]) = IF full THEN Members(h.partial[c]) \ {p} ELSE Members(h.partial[c])
         /\ Members(g.full[c]) = IF full THEN Members(h.full[c]) \cup {p} ELSE Members(h.full[c])
    <2>1. /\ <<p>> \o h.full[c] \in Seq(Usable) /\ Unique(<<p>> \o h.full[c])
          /\ Members(<<p>> \o h.full[c]) = Members(h.full[c]) \cup {p}
      BY <1>2, <1>4, <1>6, MembersPush
    <2>2. CASE full
      <3>1. g.partial[c] = Tail(h.partial[c]) /\ g.full[c] = <<p>> \o h.full[c]
        BY <1>13, <2>2 DEF Popped
      <3> QED BY <1>3, <2>1, <2>2, <3>1
    <2>3. CASE ~full
      <3>1. g.partial[c] = h.partial[c] /\ g.full[c] = h.full[c]
        BY <1>13, <2>3 DEF Popped
      <3> QED BY <1>2, <2>3, <3>1
    <2> QED BY <2>2, <2>3
  <1>17. /\ g.page[p].slab = h.page[p].slab /\ g.page[p].private = c /\ g.page[p].freelist = Tail(f)
         /\ g.page[p].inuse = h.page[p].inuse + 1 /\ g.held = h.held /\ g.count = h.count
    BY <1>5, <1>6, <1>13 DEF Popped
  <1>18. Types(g, m)
    <2>1. PageOk(g.page[p])
      <3>1. PICK y, z : y = g.page[p] /\ z = h.page[p]
        OBVIOUS
      <3>2. /\ DOMAIN y = DOMAIN z /\ y.slab = z.slab /\ y.private = z.private
            /\ y.freelist = Tail(f) /\ y.inuse = z.inuse + 1 /\ y.size = z.size
        BY <1>5, <1>13, <3>1 DEF Popped
      <3>3. PageOk(z)
        BY <1>8, <3>1
      <3>4. y.slab \in BOOLEAN /\ DOMAIN y = {"slab", "private", "freelist", "inuse", "size"}
        BY <3>2, <3>3, Zenon DEF PageOk
      <3>5. y.private \in Nat /\ y.inuse \in Int /\ y.size \in Nat /\ y.freelist \in Seq(Nat)
        BY <1>9, <3>2, <3>3 DEF PageOk
      <3> QED BY <3>1, <3>4, <3>5 DEF PageOk
    <2>2. \A q \in Usable : PageOk(g.page[q])
      BY <1>0, <1>13, <2>1 DEF Types, Popped
    <2>3. \A d \in Caches : g.partial[d] \in Seq(Usable) /\ g.full[d] \in Seq(Usable)
      BY <1>0, <1>13, <1>16 DEF Types, Popped
    <2>4. DOMAIN m \subseteq Nat \ {0} /\ \A q \in DOMAIN m : m[q].size \in Nat \ {0}
      BY <1>0, <1>10, <1>15 DEF Types, Fits
    <2> QED BY <1>0, <1>13, <1>15, <2>2, <2>3, <2>4 DEF Types, Popped
  <1>19. ListInv(g)
    <2>1. OneCache(h, g, p, c)
      BY <1>3, <1>6, <1>13, <1>14, <1>16, <1>17 DEF OneCache, Popped
    <2> QED BY <1>0, <1>4, <2>1, ListStep
  <1>20. LiveOn(m, p) = LiveOn(l, p) \cup {obj}
    BY <1>10, <1>15 DEF LiveOn
  <1>21. SlabOk(g, m, p)
    <2>1. IsFiniteSet(LiveOn(l, p))
      BY <1>0, FS_Subset DEF Types, LiveOn
    <2>2. obj \notin LiveOn(l, p)
      BY <1>11 DEF LiveOn
    <2>3. Cardinality(LiveOn(m, p)) = Cardinality(LiveOn(l, p)) + 1
      <3>1. PICK A : A = LiveOn(l, p)
        OBVIOUS
      <3>2. Cardinality(A \cup {obj}) = Cardinality(A) + 1
        BY <2>1, <2>2, <3>1, FS_AddElement
      <3> QED BY <1>20, <3>1, <3>2
    <2>4. g.page[p].inuse = Cardinality(LiveOn(m, p))
      BY <1>7, <1>17, <2>3
    <2>5. LiveOn(m, p) = Objects(c, p) \ Members(Tail(f)) /\ Members(Tail(f)) \subseteq Objects(c, p)
      <3>1. PICK A, B, F, G : A = LiveOn(l, p) /\ B = Objects(c, p) /\ F = Members(f)
                              /\ G = Members(Tail(f))
        OBVIOUS
      <3>2. F \subseteq B /\ A = B \ F /\ G = F \ {obj} /\ obj \in B /\ obj \in F
        BY <1>7, <1>9, <1>10, <3>1
      <3>3. A \cup {obj} = B \ G /\ G \subseteq B
        BY <3>2
      <3> QED BY <1>20, <3>1, <3>3
    <2>6. PICK t : t = Tail(f)
      OBVIOUS
    <2>7. g.page[p].inuse + Len(t) = Len(Slots(c, p))
      <3>1. PICK a, b, n : a = h.page[p].inuse /\ b = Len(f) /\ n = Len(Slots(c, p))
        OBVIOUS
      <3>2. a \in Int /\ b \in Nat /\ a + b = n
        BY <1>7, <1>8, <1>9, <3>1
      <3>3. g.page[p].inuse = a + 1 /\ Len(t) = b - 1
        BY <1>9, <1>17, <2>6, <3>1
      <3>4. (a + 1) + (b - 1) = n
        BY <3>2
      <3> QED BY <3>1, <3>3, <3>4
    <2> QED BY <1>7, <1>9, <1>17, <2>4, <2>5, <2>6, <2>7 DEF SlabOk
  <1>22. ASSUME NEW q \in LiveOn(m, p) PROVE LiveOk(g, m, q)
    <2>1. page_from_alloc_ptr(q) = p
      BY DEF LiveOn
    <2>2. CASE q = obj
      <3>1. m[q] = x /\ g.page[p].slab /\ p \in DOMAIN g.held
        BY <1>6, <1>7, <1>15, <1>17, <2>2
      <3> QED BY <1>17, <2>1, <3>1 DEF LiveOk, Fits
    <2>3. CASE q # obj
      <3>1. q \in DOMAIN l /\ m[q] = l[q] /\ LiveOk(h, l, q)
        BY <1>15, <1>20, <2>3 DEF LiveOn, Shape, LiveInv
      <3> QED BY <1>6, <1>7, <1>17, <2>1, <3>1 DEF LiveOk
    <2> QED BY <2>2, <2>3
  <1>23. OnePage(h, l, g, m, p)
    BY <1>6, <1>10, <1>13, <1>15, <1>17, <1>21, <1>22 DEF OnePage, Popped
  <1>24. HeldInv(g.held)
    BY <1>17 DEF Shape
  <1>25. Shape(g, m)
    BY <1>4, <1>18, <1>19, <1>23, <1>24, PageStep
  <1> QED BY <1>10, <1>11, <1>17, <1>25

\* An object of a slab is given back.
LEMMA SlabFreeShape ==
    ASSUME NEW h, NEW l, Shape(h, l), NEW ptr \in DOMAIN l, NEW p, p = page_from_alloc_ptr(ptr),
           h.page[p].slab, NEW c, c = h.page[p].private, NEW g, g = slab_free(h, c, ptr),
           NEW m, m = Forget(l, ptr)
    PROVE  Shape(g, m) /\ g.count = h.count
  <1>0. Types(h, l) /\ ListInv(h) /\ Usable \subseteq Nat \ {0} /\ ptr \in Nat
    BY KheapAssumption DEF Shape, Types
  <1>1. p \in Usable
    BY <1>0 DEF Shape, LiveInv, LiveOk, Types
  <1>2. PICK f : f = h.page[p].freelist
    OBVIOUS
  <1>3. /\ c \in Caches /\ p \in DOMAIN h.held /\ h.held[p].order = 0
        /\ Unique(f) /\ Members(f) \subseteq Objects(c, p)
        /\ LiveOn(l, p) = Objects(c, p) \ Members(f)
        /\ h.page[p].inuse = Cardinality(LiveOn(l, p))
        /\ h.page[p].inuse + Len(f) = Len(Slots(c, p))
    <2>1. SlabOk(h, l, p)
      BY <1>1 DEF Shape, SlabInv
    <2> QED BY <1>2, <2>1 DEF SlabOk
  <1>4. /\ h.partial[c] \in Seq(Usable) /\ h.full[c] \in Seq(Usable)
        /\ Unique(h.partial[c]) /\ Unique(h.full[c])
    BY <1>0, <1>3 DEF Types, ListInv
  <1>5. PageOk(h.page[p]) /\ f \in Seq(Nat) /\ h.page[p].inuse \in Int
    BY <1>0, <1>1, <1>2 DEF Types, PageOk
  <1>6. ptr \in LiveOn(l, p) /\ ptr \notin Members(f) /\ ptr \in Objects(c, p)
    <2>1. ptr \in LiveOn(l, p)
      BY DEF LiveOn
    <2> QED BY <1>3, <2>1
  <1>7. PICK t : t = <<ptr>> \o f
    OBVIOUS
  <1>8. t \in Seq(Nat) /\ Unique(t) /\ Members(t) = Members(f) \cup {ptr} /\ t # <<>>
    <2>1. t \in Seq(Nat) /\ Unique(t) /\ Members(t) = Members(f) \cup {ptr}
      BY <1>0, <1>3, <1>5, <1>6, <1>7, MembersPush
    <2> QED BY <2>1, MembersBasics
  <1>9. Len(f) \in Nat /\ Len(t) = Len(f) + 1
    BY <1>0, <1>5, <1>7
  <1>10. PICK full \in BOOLEAN :
            full = (h.page[p].freelist = <<>> /\ h.page[p].inuse = Len(Slots(c, p)))
    OBVIOUS
  <1>11. SlabFreed(h, c, ptr, p, full, g)
    BY <1>0, <1>1, <1>3, <1>10, SlabFreeFields
  <1>12. full <=> f = <<>>
    <2>1. f = <<>> => Len(f) = 0
      OBVIOUS
    <2>2. f = <<>> => h.page[p].inuse = Len(Slots(c, p))
      BY <1>3, <1>5, <2>1
    <2> QED BY <1>2, <1>10, <2>2
  <1>13. /\ p \in Members(h.partial[c]) <=> ~full
         /\ p \in Members(h.full[c]) <=> full
    BY <1>0, <1>1, <1>2, <1>3, <1>12 DEF ListInv
  <1>14. /\ g.partial[c] \in Seq(Usable) /\ g.full[c] \in Seq(Usable)
         /\ Unique(g.partial[c]) /\ Unique(g.full[c])
         /\ Members(g.partial[c]) = Members(h.partial[c]) \cup {p}
         /\ Members(g.full[c]) = Members(h.full[c]) \ {p}
    <2>1. CASE full
      <3>1. g.partial[c] = <<p>> \o h.partial[c] /\ g.full[c] = Without(h.full[c], p)
        BY <1>11, <2>1 DEF SlabFreed
      <3>2. /\ <<p>> \o h.partial[c] \in Seq(Usable) /\ Unique(<<p>> \o h.partial[c])
            /\ Members(<<p>> \o h.partial[c]) = Members(h.partial[c]) \cup {p}
        BY <1>1, <1>4, <1>13, <2>1, MembersPush
      <3>3. /\ Without(h.full[c], p) \in Seq(Usable) /\ Unique(Without(h.full[c], p))
            /\ Members(Without(h.full[c], p)) = Members(h.full[c]) \ {p}
        BY <1>4, MembersWithout
      <3> QED BY <3>1, <3>2, <3>3
    <2>2. CASE ~full
      <3>1. g.partial[c] = h.partial[c] /\ g.full[c] = h.full[c]
        BY <1>11, <2>2 DEF SlabFreed
      <3>2. /\ Members(h.partial[c]) = Members(h.partial[c]) \cup {p}
            /\ Members(h.full[c]) = Members(h.full[c]) \ {p}
        BY <1>13, <2>2
      <3> QED BY <1>4, <3>1, <3>2
    <2> QED BY <2>1, <2>2
  <1>15. /\ DOMAIN m = DOMAIN l \ {ptr} /\ \A q \in DOMAIN l \ {ptr} : m[q] = l[q]
         /\ m = [q \in DOMAIN m |-> m[q]] /\ IsFiniteSet(DOMAIN m)
    <2>1. Dropped(l, ptr, m)
      BY <1>0, HoldFacts
    <2> QED BY <2>1 DEF Dropped
  <1>16. /\ g.page[p].slab = h.page[p].slab /\ g.page[p].private = c /\ g.page[p].freelist = t
         /\ g.page[p].inuse = h.page[p].inuse - 1 /\ g.held = h.held /\ g.count = h.count
    BY <1>2, <1>7, <1>11 DEF SlabFreed
  <1>17. Types(g, m)
    <2>1. PageOk(g.page[p])
      <3>1. PICK y, z : y = g.page[p] /\ z = h.page[p]
        OBVIOUS
      <3>2. /\ DOMAIN y = DOMAIN z /\ y.slab = z.slab /\ y.private = z.private
            /\ y.freelist = t /\ y.inuse = z.inuse - 1 /\ y.size = z.size
        BY <1>2, <1>7, <1>11, <3>1 DEF SlabFreed
      <3>3. PageOk(z)
        BY <1>5, <3>1
      <3>4. y.slab \in BOOLEAN /\ DOMAIN y = {"slab", "private", "freelist", "inuse", "size"}
        BY <3>2, <3>3, Zenon DEF PageOk
      <3>5. y.private \in Nat /\ y.inuse \in Int /\ y.size \in Nat /\ y.freelist \in Seq(Nat)
        BY <1>8, <3>2, <3>3 DEF PageOk
      <3> QED BY <3>1, <3>4, <3>5 DEF PageOk
    <2>2. \A q \in Usable : PageOk(g.page[q])
      BY <1>0, <1>11, <2>1 DEF Types, SlabFreed
    <2>3. \A d \in Caches : g.partial[d] \in Seq(Usable) /\ g.full[d] \in Seq(Usable)
      <3>1. \A d \in Caches \ {c} : g.partial[d] = h.partial[d] /\ g.full[d] = h.full[d]
        BY <1>11 DEF SlabFreed
      <3>2. \A d \in Caches : h.partial[d] \in Seq(Usable) /\ h.full[d] \in Seq(Usable)
        BY <1>0 DEF Types
      <3>3. g.partial[c] \in Seq(Usable) /\ g.full[c] \in Seq(Usable)
        BY <1>14
      <3> QED BY <3>1, <3>2, <3>3
    <2>4. DOMAIN m \subseteq Nat \ {0} /\ \A q \in DOMAIN m : m[q].size \in Nat \ {0}
      BY <1>0, <1>15 DEF Types
    <2> QED BY <1>0, <1>11, <1>15, <2>2, <2>3, <2>4 DEF Types, SlabFreed
  <1>18. ListInv(g)
    <2>1. p \in Members(g.partial[c]) /\ p \notin Members(g.full[c])
      BY <1>14
    <2>2. OneCache(h, g, p, c)
      BY <1>8, <1>11, <1>14, <1>16, <2>1 DEF OneCache, SlabFreed
    <2>3. PICK d, r : d = c /\ r = p
      OBVIOUS
    <2>4. d \in Caches /\ r \in Usable /\ ListInv(h) /\ OneCache(h, g, r, d)
      BY <1>0, <1>1, <1>3, <2>2, <2>3
    <2> QED BY <2>4, ListStep
  <1>19. LiveOn(m, p) = LiveOn(l, p) \ {ptr}
    BY <1>15 DEF LiveOn
  <1>20. SlabOk(g, m, p)
    <2>1. PICK A : A = LiveOn(l, p)
      OBVIOUS
    <2>2. IsFiniteSet(A)
      BY <1>0, <2>1, FS_Subset DEF Types, LiveOn
    <2>3. Cardinality(A \ {ptr}) = Cardinality(A) - 1
      BY <1>6, <2>1, <2>2, FS_RemoveElement
    <2>4. g.page[p].inuse = Cardinality(LiveOn(m, p))
      BY <1>3, <1>16, <1>19, <2>1, <2>3
    <2>5. LiveOn(m, p) = Objects(c, p) \ Members(t) /\ Members(t) \subseteq Objects(c, p)
      BY <1>3, <1>6, <1>8, <1>19
    <2>6. g.page[p].inuse + Len(t) = Len(Slots(c, p))
      BY <1>3, <1>5, <1>9, <1>16
    <2> QED BY <1>3, <1>8, <1>16, <2>4, <2>5, <2>6 DEF SlabOk
  <1>21. ASSUME NEW q \in LiveOn(m, p) PROVE LiveOk(g, m, q)
    <2>1. page_from_alloc_ptr(q) = p
      BY DEF LiveOn
    <2>2. q \in DOMAIN l /\ m[q] = l[q] /\ LiveOk(h, l, q)
      BY <1>15, <1>19 DEF LiveOn, Shape, LiveInv
    <2> QED BY <1>3, <1>16, <2>1, <2>2 DEF LiveOk
  <1>22. OnePage(h, l, g, m, p)
    BY <1>11, <1>15, <1>16, <1>20, <1>21 DEF OnePage, SlabFreed
  <1>23. HeldInv(g.held)
    BY <1>16 DEF Shape
  <1>24. Shape(g, m)
    BY <1>1, <1>17, <1>18, <1>22, <1>23, PageStep
  <1> QED BY <1>16, <1>24

-----------------------------------------------------------------------------
(* Large blocks.                                                           *)

\* kmalloc's loop ends with a block that holds the header and size units.
LEMMA OrderFacts ==
    ASSUME NEW size \in Nat \ {0}
    PROVE  OrderFor(size) \in Nat /\ size + LargeHdr <= PAGE_SIZE * 2^OrderFor(size)
  <1>1. PAGE_SIZE \in Nat \ {0} /\ LargeHdr \in Nat \ {0} /\ LargeHdr < PAGE_SIZE
    BY KheapAssumption
  <1> DEFINE T == {o \in 0..size : PAGE_SIZE * 2^o >= size + LargeHdr}
             S == {n \in Nat : n + 1 <= 2^n}
  <1>2. size + 1 <= 2^size
    <2>1. 0 \in S
      BY PowerStep
    <2>2. ASSUME NEW n \in Nat, n \in S PROVE n + 1 \in S
      <3>1. 2^n \in Nat /\ 2^(n + 1) = 2 * 2^n /\ n + 1 <= 2^n
        BY <2>2, PowerStep
      <3> QED BY <3>1
    <2>3. Nat \subseteq S
      <3> HIDE DEF S
      <3> QED BY <2>1, <2>2, Induct
    <2> QED BY <2>3
  <1>3. PAGE_SIZE * 2^size >= size + LargeHdr
    <2>1. PICK x \in Nat : x = 2^size
      BY PowerStep
    <2>2. /\ (size + 1) * PAGE_SIZE <= x * PAGE_SIZE
          /\ (size + 1) * PAGE_SIZE = size * PAGE_SIZE + 1 * PAGE_SIZE
      BY <1>1, <1>2, <2>1, MultipleOrder
    <2>3. size * 1 <= size * PAGE_SIZE
      BY <1>1
    <2>4. x * PAGE_SIZE = PAGE_SIZE * x /\ size * PAGE_SIZE \in Nat /\ PAGE_SIZE * x \in Nat
      BY <1>1
    <2> QED BY <1>1, <2>1, <2>2, <2>3, <2>4
  <1>4. \A o \in 0..size : PAGE_SIZE * 2^o \in Nat
    BY <1>1, PowerStep
  <1>5. size \in T /\ T \subseteq Nat
    BY <1>3
  <1>6. PICK o \in T : \A n \in T : o <= n
    <2> HIDE DEF T
    <2> QED BY <1>5, LeastNumber
  <1>7. o > 0 => PAGE_SIZE * 2^(o - 1) < size + LargeHdr
    <2> SUFFICES ASSUME o > 0 PROVE PAGE_SIZE * 2^(o - 1) < size + LargeHdr
      OBVIOUS
    <2>1. o - 1 \in 0..size /\ o - 1 \notin T
      BY <1>6
    <2>2. PICK y \in Nat : y = PAGE_SIZE * 2^(o - 1)
      BY <1>4, <2>1
    <2> QED BY <1>1, <2>1, <2>2
  <1>8. \E n \in 0..size : /\ PAGE_SIZE * 2^n >= size + LargeHdr
                           /\ n > 0 => PAGE_SIZE * 2^(n - 1) < size + LargeHdr
    BY <1>6, <1>7
  <1>9. PICK n : n = OrderFor(size)
    OBVIOUS
  <1>10. n \in 0..size /\ PAGE_SIZE * 2^n >= size + LargeHdr
    BY <1>8, <1>9 DEF OrderFor
  <1>11. PICK y \in Nat : y = PAGE_SIZE * 2^n
    BY <1>4, <1>10
  <1> QED BY <1>1, <1>9, <1>10, <1>11

\* A large block is handed out.
LEMMA LargeShape ==
    ASSUME NEW h, NEW l, Shape(h, l), NEW size \in Nat \ {0},
           NEW pg \in FreeRuns(Usable, h.held, OrderFor(size)), NEW r, r = LargeAlloc(h, size, pg),
           NEW x, x.size = size, x.use # "object", NEW m, m = With(l, r.ptr, x)
    PROVE  Shape(r.h, m) /\ r.ptr \in Nat \ {0} /\ r.ptr \notin DOMAIN l /\ r.h.count = h.count
  <1>0. Types(h, l) /\ ListInv(h) /\ Usable \subseteq Nat \ {0}
    BY KheapAssumption DEF Shape
  <1>1. PICK o : o = OrderFor(size)
    OBVIOUS
  <1>2. o \in Nat /\ size + LargeHdr <= PAGE_SIZE * 2^o
    BY <1>1, OrderFacts
  <1>3. PICK k : k = Took(h.held, pg, o)
    OBVIOUS
  <1>4. Fresh(h, l, o, pg, k)
    BY <1>1, <1>2, <1>3, TakeBlock
  <1>5. /\ pg \in Usable /\ pg \notin DOMAIN h.held /\ LiveOn(l, pg) = {} /\ ~h.page[pg].slab
        /\ pg \in Nat \ {0}
    BY <1>0, <1>4 DEF Fresh
  <1>6. PICK g, ptr : g = r.h /\ ptr = r.ptr
    OBVIOUS
  <1>7. LargeTaken(h, size, pg, g) /\ ptr = pg * PAGE_SIZE + LargeHdr
    <2>1. pg # 0
      BY <1>5
    <2> QED BY <1>0, <1>5, <1>6, <2>1, LargeAllocFields
  <1>8. ptr \in Nat \ {0} /\ page_from_alloc_ptr(ptr) = pg /\ ptr \notin DOMAIN l
    BY <1>5, <1>7, LargePointer DEF LiveOn
  <1>9. /\ DOMAIN m = DOMAIN l \cup {ptr} /\ m[ptr] = x /\ \A q \in DOMAIN l : m[q] = l[q]
        /\ m = [q \in DOMAIN m |-> m[q]] /\ IsFiniteSet(DOMAIN m)
    <2>1. Added(l, ptr, x, m)
      BY <1>0, <1>6, HoldFacts
    <2> QED BY <1>8, <2>1 DEF Added
  <1>10. /\ ~g.page[pg].slab /\ g.page[pg].private = LARGE /\ g.page[pg].size = size
         /\ g.held = k /\ g.count = h.count /\ g.partial = h.partial /\ g.full = h.full
    BY <1>1, <1>3, <1>5, <1>7 DEF LargeTaken
  <1>11. LARGE \in Nat /\ LARGE \notin Caches
    BY KheapAssumption DEF LARGE, OWN, Caches
  <1>12. Types(g, m)
    <2>1. PageOk(g.page[pg])
      <3>1. PICK y, z : y = g.page[pg] /\ z = h.page[pg]
        OBVIOUS
      <3>2. /\ DOMAIN y = DOMAIN z /\ y.slab = z.slab /\ y.private = LARGE
            /\ y.freelist = z.freelist /\ y.inuse = z.inuse /\ y.size = size
        BY <1>7, <3>1 DEF LargeTaken
      <3>3. PageOk(z)
        BY <1>0, <1>5, <3>1 DEF Types
      <3>4. y.slab \in BOOLEAN /\ DOMAIN y = {"slab", "private", "freelist", "inuse", "size"}
        BY <3>2, <3>3, Zenon DEF PageOk
      <3>5. y.private \in Nat /\ y.inuse \in Int /\ y.size \in Nat /\ y.freelist \in Seq(Nat)
        BY <1>11, <3>2, <3>3 DEF PageOk
      <3> QED BY <3>1, <3>4, <3>5 DEF PageOk
    <2>2. \A q \in Usable : PageOk(g.page[q])
      BY <1>0, <1>7, <2>1 DEF Types, LargeTaken
    <2>3. DOMAIN m \subseteq Nat \ {0} /\ \A q \in DOMAIN m : m[q].size \in Nat \ {0}
      BY <1>0, <1>8, <1>9 DEF Types
    <2>4. DOMAIN g.held \subseteq Usable /\ g.held \in [DOMAIN g.held -> BlockSet]
      BY <1>4, <1>10 DEF Fresh
    <2> QED BY <1>0, <1>7, <1>9, <2>2, <2>3, <2>4 DEF Types, LargeTaken
  <1>13. ListInv(g)
    <2>1. \A q \in Usable \ {pg} : g.page[q] = h.page[q]
      BY <1>7 DEF LargeTaken
    <2> QED BY <1>0, <1>5, <1>10, <2>1 DEF ListInv
  <1>14. pg \in DOMAIN g.held /\ g.held[pg].order = o
    BY <1>4, <1>10 DEF Fresh
  <1>15. ASSUME NEW q \in LiveOn(m, pg) PROVE LiveOk(g, m, q)
    <2>1. page_from_alloc_ptr(q) = pg /\ q = ptr
      BY <1>5, <1>9 DEF LiveOn
    <2>2. m[q] = x
      BY <1>9, <2>1
    <2> QED BY <1>2, <1>7, <1>10, <1>14, <2>1, <2>2 DEF LiveOk
  <1>16. LargeOk(g, m, pg)
    BY <1>7, <1>9, <1>10, <1>11, <1>14 DEF LargeOk
  <1>17. OnePage(h, l, g, m, pg)
    <2>1. /\ \A q \in Usable \ {pg} : g.page[q] = h.page[q]
          /\ \A q \in Usable \ {pg} : q \in DOMAIN g.held <=> q \in DOMAIN h.held
          /\ \A q \in DOMAIN h.held \ {pg} : g.held[q] = h.held[q]
      BY <1>4, <1>7, <1>10 DEF Fresh, LargeTaken
    <2> QED BY <1>8, <1>9, <1>10, <1>15, <1>16, <2>1 DEF OnePage
  <1>18. HeldInv(g.held)
    BY <1>4, <1>10 DEF Fresh
  <1>19. Shape(g, m)
    BY <1>5, <1>12, <1>13, <1>17, <1>18, PageStep
  <1> QED BY <1>6, <1>8, <1>10, <1>19

\* A large block is given back.
LEMMA LargeFreeShape ==
    ASSUME NEW h, NEW l, Shape(h, l), NEW ptr \in DOMAIN l, NEW p, p = page_from_alloc_ptr(ptr),
           ~h.page[p].slab, NEW g, g = kfree(h, ptr), NEW m, m = Forget(l, ptr)
    PROVE  Shape(g, m) /\ g.count = h.count - 1 /\ l[ptr].use # "object"
  <1>0. Types(h, l) /\ ListInv(h) /\ Usable \subseteq Nat \ {0} /\ ptr \in Nat \ {0}
        /\ HeldInv(h.held)
    BY KheapAssumption DEF Shape, Types
  <1>1. LiveOk(h, l, ptr)
    BY DEF Shape, LiveInv
  <1>2. p \in DOMAIN h.held /\ ptr = p * PAGE_SIZE + LargeHdr /\ l[ptr].use # "object"
    BY <1>1 DEF LiveOk
  <1>3. p \in Usable /\ p \in Nat \ {0}
    BY <1>0, <1>2 DEF Types
  <1>4. LargeFreed(h, p, g)
    BY <1>0, <1>3, LargeFreeFields DEF NULL
  <1>5. PICK k : k = [q \in DOMAIN h.held \ {p} |-> h.held[q]]
    OBVIOUS
  <1>6. Gave(h.held, p) = k /\ HeldInv(k) /\ k \in [DOMAIN h.held \ {p} -> BlockSet]
    <2>1. PICK held : held = h.held
      OBVIOUS
    <2>2. DOMAIN held \subseteq Usable /\ held \in [DOMAIN held -> BlockSet] /\ HeldInv(held)
      BY <1>0, <2>1 DEF Types
    <2>3. PICK S : S = {p}
      OBVIOUS
    <2>4. k = [q \in DOMAIN held \ S |-> held[q]] /\ p \in DOMAIN held
      BY <1>2, <1>5, <2>1, <2>3
    <2>5. Gave(held, p) = k /\ HeldInv(k) /\ k \in [DOMAIN held \ S -> BlockSet]
      BY <2>2, <2>3, <2>4, GiveBlocks
    <2> QED BY <2>1, <2>3, <2>5
  <1>7. DOMAIN k = DOMAIN h.held \ {p} /\ \A q \in DOMAIN h.held \ {p} : k[q] = h.held[q]
    BY <1>5
  <1>8. /\ ~g.page[p].slab /\ g.page[p].private = 0
        /\ g.held = k /\ g.count = h.count - 1 /\ g.partial = h.partial /\ g.full = h.full
    BY <1>4, <1>6 DEF LargeFreed
  <1>9. /\ DOMAIN m = DOMAIN l \ {ptr} /\ \A q \in DOMAIN l \ {ptr} : m[q] = l[q]
        /\ m = [q \in DOMAIN m |-> m[q]] /\ IsFiniteSet(DOMAIN m)
    <2>1. Dropped(l, ptr, m)
      BY <1>0, HoldFacts
    <2> QED BY <2>1 DEF Dropped
  <1>10. Types(g, m)
    <2>1. PageOk(g.page[p])
      <3>1. PICK y, z : y = g.page[p] /\ z = h.page[p]
        OBVIOUS
      <3>2. /\ DOMAIN y = DOMAIN z /\ y.slab = z.slab /\ y.private = 0
            /\ y.freelist = z.freelist /\ y.inuse = z.inuse /\ y.size = 0
        BY <1>4, <3>1 DEF LargeFreed
      <3>3. PageOk(z)
        BY <1>0, <1>3, <3>1 DEF Types
      <3>4. y.slab \in BOOLEAN /\ DOMAIN y = {"slab", "private", "freelist", "inuse", "size"}
        BY <3>2, <3>3, Zenon DEF PageOk
      <3>5. y.private \in Nat /\ y.inuse \in Int /\ y.size \in Nat /\ y.freelist \in Seq(Nat)
        BY <3>2, <3>3 DEF PageOk
      <3> QED BY <3>1, <3>4, <3>5 DEF PageOk
    <2>2. \A q \in Usable : PageOk(g.page[q])
      BY <1>0, <1>4, <2>1 DEF Types, LargeFreed
    <2>3. DOMAIN m \subseteq Nat \ {0} /\ \A q \in DOMAIN m : m[q].size \in Nat \ {0}
      BY <1>0, <1>9 DEF Types
    <2>4. DOMAIN g.held \subseteq Usable /\ g.held \in [DOMAIN g.held -> BlockSet]
      BY <1>0, <1>6, <1>7, <1>8 DEF Types
    <2>5. g.count \in Int
      BY <1>0, <1>8 DEF Types
    <2> QED BY <1>0, <1>4, <1>9, <2>2, <2>3, <2>4, <2>5 DEF Types, LargeFreed
  <1>11. ListInv(g)
    <2>1. \A q \in Usable \ {p} : g.page[q] = h.page[q]
      BY <1>4 DEF LargeFreed
    <2> QED BY <1>0, <1>3, <1>8, <2>1 DEF ListInv
  <1>12. LiveOn(m, p) = {}
    <2>1. ASSUME NEW q \in DOMAIN l, page_from_alloc_ptr(q) = p PROVE q = ptr
      <3>1. LiveOk(h, l, q)
        BY DEF Shape, LiveInv
      <3> QED BY <1>2, <2>1, <3>1 DEF LiveOk
    <2> QED BY <1>9, <2>1 DEF LiveOn
  <1>13. LargeOk(g, m, p)
    <2>1. LARGE # 0 /\ 0 \notin Caches
      BY KheapAssumption DEF LARGE, OWN, Caches
    <2>2. p \notin DOMAIN g.held
      BY <1>7, <1>8
    <2> QED BY <1>8, <2>1, <2>2 DEF LargeOk
  <1>14. OnePage(h, l, g, m, p)
    <2>1. /\ \A q \in Usable \ {p} : g.page[q] = h.page[q]
          /\ \A q \in Usable \ {p} : q \in DOMAIN g.held <=> q \in DOMAIN h.held
          /\ \A q \in DOMAIN h.held \ {p} : g.held[q] = h.held[q]
      BY <1>4, <1>7, <1>8 DEF LargeFreed
    <2> QED BY <1>8, <1>9, <1>12, <1>13, <2>1 DEF OnePage
  <1>15. HeldInv(g.held)
    BY <1>6, <1>8
  <1>16. Shape(g, m)
    BY <1>3, <1>10, <1>11, <1>14, <1>15, PageStep
  <1> QED BY <1>2, <1>8, <1>16

-----------------------------------------------------------------------------
(* kmalloc, kfree, krealloc and slab_cache_destroy.                        *)

\* The shape of the heap does not depend on the totals.
LEMMA Recount ==
    ASSUME NEW h, NEW l, Shape(h, l), NEW n \in Int, NEW g, g = [h EXCEPT !.count = n]
    PROVE  Shape(g, l) /\ g.count = n
  <1>1. Types(h, l) /\ ListInv(h) /\ SlabInv(h, l) /\ HeldInv(h.held) /\ LiveInv(h, l) /\ LargeInv(h, l)
    BY DEF Shape
  <1>2. Counted(h, n, g)
    BY <1>1, CountFields
  <1>3. /\ DOMAIN g = DOMAIN h /\ g.count = n /\ g.page = h.page /\ g.partial = h.partial
        /\ g.full = h.full /\ g.held = h.held
    BY <1>2 DEF Counted
  <1>4. Types(g, l)
    BY <1>1, <1>3 DEF Types
  <1>5. ListInv(g) /\ HeldInv(g.held)
    BY <1>1, <1>3 DEF ListInv
  <1>6. SlabInv(g, l) /\ LargeInv(g, l)
    BY <1>1, <1>3 DEF SlabInv, SlabOk, LargeInv, LargeOk
  <1>7. LiveInv(g, l)
    BY <1>1, <1>3 DEF LiveInv, LiveOk
  <1> QED BY <1>3, <1>4, <1>5, <1>6, <1>7 DEF Shape

\* How the number of live kmallocs changes.
LEMMA PlainCount ==
    ASSUME NEW l, NEW ptr, NEW m, IsFiniteSet(DOMAIN l)
    PROVE  /\ Cardinality(Plain(l)) \in Nat
           /\ \A x : Added(l, ptr, x, m) /\ ptr \notin DOMAIN l =>
                 Cardinality(Plain(m)) = Cardinality(Plain(l)) + (IF x.use = "object" THEN 0 ELSE 1)
           /\ Dropped(l, ptr, m) /\ ptr \in DOMAIN l =>
                 Cardinality(Plain(m)) = Cardinality(Plain(l)) - (IF l[ptr].use = "object" THEN 0 ELSE 1)
  <1>1. PICK A : A = Plain(l)
    OBVIOUS
  <1>2. IsFiniteSet(A) /\ Cardinality(A) \in Nat
    <2>1. A \subseteq DOMAIN l
      BY <1>1 DEF Plain
    <2> QED BY <2>1, FS_Subset, FS_CardinalityType
  <1>3. ASSUME NEW x, Added(l, ptr, x, m), ptr \notin DOMAIN l
        PROVE  Cardinality(Plain(m)) = Cardinality(A) + (IF x.use = "object" THEN 0 ELSE 1)
    <2>1. CASE x.use = "object"
      <3>1. Plain(m) = A
        BY <1>1, <1>3, <2>1 DEF Plain, Added
      <3> QED BY <1>2, <2>1, <3>1
    <2>2. CASE x.use # "object"
      <3>1. Plain(m) = A \cup {ptr} /\ ptr \notin A
        BY <1>1, <1>3, <2>2 DEF Plain, Added
      <3>2. Cardinality(A \cup {ptr}) = Cardinality(A) + 1
        BY <1>2, <3>1, FS_AddElement
      <3> QED BY <2>2, <3>1, <3>2
    <2> QED BY <2>1, <2>2
  <1>4. ASSUME Dropped(l, ptr, m), ptr \in DOMAIN l
        PROVE  Cardinality(Plain(m)) = Cardinality(A) - (IF l[ptr].use = "object" THEN 0 ELSE 1)
    <2>1. CASE l[ptr].use = "object"
      <3>1. Plain(m) = A
        BY <1>1, <1>4, <2>1 DEF Plain, Dropped
      <3> QED BY <1>2, <2>1, <3>1
    <2>2. CASE l[ptr].use # "object"
      <3>1. Plain(m) = A \ {ptr} /\ ptr \in A
        BY <1>1, <1>4, <2>2 DEF Plain, Dropped
      <3>2. Cardinality(A \ {ptr}) = Cardinality(A) - 1
        BY <1>2, <3>1, FS_RemoveElement
      <3> QED BY <2>2, <3>1, <3>2
    <2> QED BY <2>1, <2>2
  <1> QED BY <1>1, <1>2, <1>3, <1>4

\* slab_alloc, with a new slab where the cache has no free object.
LEMMA SlabAllocShape ==
    ASSUME NEW h, NEW l, Shape(h, l), NEW c \in Caches, NEW pg,
           h.partial[c] # <<>> \/ pg = 0 \/ pg \in FreeRuns(Usable, h.held, 0),
           NEW r, r = slab_alloc(h, c, pg),
           NEW x, Fits(x, c),
           NEW m, m = IF r.ptr = NULL THEN l ELSE With(l, r.ptr, x)
    PROVE  Shape(r.h, m) /\ r.h.count = h.count /\ r.ptr \in Nat /\ r.ptr \notin DOMAIN l
  <1>0. NULL = 0 /\ NULL \notin DOMAIN l
    BY DEF Shape, Types, NULL
  <1>1. ASSUME NEW k, Shape(k, l), k.count = h.count, k.partial[c] # <<>>,
               r.h = PopObject(k, c), r.ptr = Head(k.page[Head(k.partial[c])].freelist)
        PROVE  Shape(r.h, m) /\ r.h.count = h.count /\ r.ptr \in Nat /\ r.ptr \notin DOMAIN l
    <2>1. PICK g, obj, n : g = r.h /\ obj = r.ptr /\ n = With(l, obj, x)
      OBVIOUS
    <2>2. g = PopObject(k, c) /\ obj = Head(k.page[Head(k.partial[c])].freelist)
      BY <1>1, <2>1
    <2>3. Shape(g, n) /\ obj \in Nat \ {0} /\ obj \notin DOMAIN l /\ g.count = k.count
      <3>1. Shape(k, l) /\ n = With(l, obj, x) /\ Pops(k, c, g, obj)
        BY <1>1, <2>1, <2>2 DEF Pops
      <3> QED BY <3>1, PopShape
    <2>4. m = n
      BY <1>0, <2>1, <2>3
    <2> QED BY <1>1, <2>1, <2>3, <2>4
  <1>2. CASE h.partial[c] # <<>>
    BY <1>1, <1>2 DEF slab_alloc
  <1>3. CASE h.partial[c] = <<>> /\ pg = 0
    BY <1>0, <1>3 DEF slab_alloc
  <1>4. CASE h.partial[c] = <<>> /\ pg # 0
    <2>1. PICK k : k = slab_create(h, c, pg)
      OBVIOUS
    <2>2. Shape(k, l) /\ k.count = h.count /\ k.partial[c] # <<>>
      BY <1>4, <2>1, SlabCreateShape
    <2>3. r.h = PopObject(k, c) /\ r.ptr = Head(k.page[Head(k.partial[c])].freelist)
      BY <1>4, <2>1 DEF slab_alloc
    <2> QED BY <1>1, <2>2, <2>3
  <1> QED BY <1>2, <1>3, <1>4

\* The class that cache_for_size finds has objects that are large enough.
LEMMA ClassFacts ==
    ASSUME NEW size \in Nat, NEW c, c = cache_for_size(size), c # 0
    PROVE  c \in Caches /\ c # OWN /\ size <= obj_size(c)
  <1> DEFINE fits == {i \in DOMAIN size_classes : size <= size_classes[i]}
  <1>1. size_classes \in Seq(Nat \ {0}) /\ DOMAIN size_classes = 1..Len(size_classes)
        /\ Len(size_classes) \in Nat
    BY KheapAssumption
  <1>2. fits \subseteq Nat /\ fits # {}
    BY <1>1 DEF cache_for_size
  <1>3. \E i \in fits : \A j \in fits : i <= j
    <2> HIDE DEF fits
    <2> QED BY <1>2, LeastNumber
  <1>4. c \in fits
    BY <1>2, <1>3 DEF cache_for_size
  <1>5. c # OWN /\ c \in Caches
    BY <1>1, <1>4 DEF OWN, Caches
  <1> QED BY <1>4, <1>5 DEF obj_size

\* kmalloc returns NULL, or a block of its own that holds size units.
LEMMA KmallocSound ==
    ASSUME NEW h, NEW l, Sound(h, l), NEW size \in Nat, NEW use, use # "object",
           NEW pg \in PmmGives(h, size), NEW r, r = kmalloc(h, size, pg),
           NEW m, m = Keep(l, r, size, use)
    PROVE  /\ Sound(r.h, m) /\ r.ptr \in Nat /\ r.ptr \notin DOMAIN l
           /\ r.ptr # NULL => size # 0
  <1>0. /\ Shape(h, l) /\ Types(h, l) /\ h.count = Cardinality(Plain(l)) /\ h.count \in Int
        /\ NULL = 0 /\ NULL \notin DOMAIN l /\ IsFiniteSet(DOMAIN l) /\ Usable \subseteq Nat \ {0}
    BY KheapAssumption DEF Sound, Shape, Types, NULL
  <1>1. PICK x : x = [size |-> size, use |-> use]
    OBVIOUS
  <1>2. x.size = size /\ x.use = use
    BY <1>1
  <1>3. CASE r = [h |-> h, ptr |-> NULL]
    <2>1. r.h = h /\ r.ptr = NULL /\ m = l
      BY <1>3 DEF Keep
    <2> QED BY <1>0, <2>1
  \* A block that was found is counted.
  <1>4. ASSUME NEW s, size # 0, Shape(s.h, With(l, s.ptr, x)), s.h.count = h.count,
               s.ptr \in Nat \ {0}, s.ptr \notin DOMAIN l, DOMAIN s = {"h", "ptr"},
               r = [s EXCEPT !.h.count = @ + 1]
        PROVE  /\ Sound(r.h, m) /\ r.ptr \in Nat /\ r.ptr \notin DOMAIN l
               /\ r.ptr # NULL => size # 0
    <2>1. PICK g, ptr, k, n : g = s.h /\ ptr = s.ptr /\ k = With(l, ptr, x) /\ n = h.count + 1
      OBVIOUS
    <2>2. r.ptr = ptr /\ r.h = [g EXCEPT !.count = n]
      BY <1>4, <2>1
    <2>3. m = k
      BY <1>0, <1>1, <1>4, <2>1, <2>2 DEF Keep
    <2>4. Shape(g, k) /\ n \in Int
      BY <1>0, <1>4, <2>1
    <2>5. Shape(r.h, k) /\ r.h.count = n
      BY <2>2, <2>4, Recount
    <2>6. Added(l, ptr, x, k)
      BY <1>0, <2>1, HoldFacts
    <2>7. Cardinality(Plain(k)) = Cardinality(Plain(l)) + 1
      <3>1. ptr \notin DOMAIN l
        BY <1>4, <2>1
      <3>2. Cardinality(Plain(k)) = Cardinality(Plain(l)) + (IF x.use = "object" THEN 0 ELSE 1)
        BY <1>0, <2>6, <3>1, PlainCount
      <3> QED BY <1>2, <3>2
    <2>8. Sound(r.h, m)
      BY <1>0, <2>1, <2>3, <2>5, <2>7 DEF Sound
    <2> QED BY <1>4, <2>1, <2>2, <2>8
  <1>5. PICK c : c = cache_for_size(size)
    OBVIOUS
  <1>6. CASE size = 0
    BY <1>3, <1>6 DEF kmalloc
  <1>7. CASE size # 0 /\ c = 0
    <2>1. PICK s : s = LargeAlloc(h, size, pg)
      OBVIOUS
    <2>2. r = IF s.ptr = NULL THEN s ELSE [s EXCEPT !.h.count = @ + 1]
      BY <1>5, <1>7, <2>1 DEF kmalloc
    <2>3. CASE pg = 0
      <3>1. s = [h |-> h, ptr |-> NULL]
        BY <2>1, <2>3 DEF LargeAlloc
      <3>2. s.ptr = NULL
        BY <3>1
      <3> QED BY <1>3, <2>2, <3>1, <3>2
    <2>4. CASE pg # 0
      <3>1. pg \in FreeRuns(Usable, h.held, OrderFor(size))
        BY <1>5, <1>7, <2>4 DEF PmmGives
      <3>2. size \in Nat \ {0}
        BY <1>7
      <3>3. PICK k : k = With(l, s.ptr, x)
        OBVIOUS
      <3>4. Shape(s.h, k) /\ s.ptr \in Nat \ {0} /\ s.ptr \notin DOMAIN l /\ s.h.count = h.count
        BY <1>0, <1>2, <2>1, <3>1, <3>2, <3>3, LargeShape
      <3>5. DOMAIN s = {"h", "ptr"}
        BY <2>1, <2>4 DEF LargeAlloc
      <3>6. r = [s EXCEPT !.h.count = @ + 1]
        BY <1>0, <2>2, <3>4
      <3> QED BY <1>4, <1>7, <3>3, <3>4, <3>5, <3>6
    <2> QED BY <2>3, <2>4
  <1>8. CASE size # 0 /\ c # 0
    <2>1. PICK s : s = slab_alloc(h, c, pg)
      OBVIOUS
    <2>2. r = IF s.ptr = NULL THEN s ELSE [s EXCEPT !.h.count = @ + 1]
      BY <1>5, <1>8, <2>1 DEF kmalloc
    <2>3. c \in Caches /\ c # OWN /\ size <= obj_size(c)
      BY <1>5, <1>8, ClassFacts
    <2>4. Fits(x, c)
      BY <1>2, <1>8, <2>3 DEF Fits
    <2>5. h.partial[c] # <<>> \/ pg = 0 \/ pg \in FreeRuns(Usable, h.held, 0)
      BY <1>5, <1>8 DEF PmmGives
    <2>6. PICK k : k = IF s.ptr = NULL THEN l ELSE With(l, s.ptr, x)
      OBVIOUS
    <2>7. Shape(s.h, k) /\ s.h.count = h.count /\ s.ptr \in Nat /\ s.ptr \notin DOMAIN l
      BY <1>0, <2>1, <2>3, <2>4, <2>5, <2>6, SlabAllocShape
    <2>8. CASE s.ptr = NULL
      <3>1. r = s /\ m = l /\ k = l
        BY <2>2, <2>6, <2>8 DEF Keep
      <3> QED BY <1>0, <2>7, <2>8, <3>1 DEF Sound
    <2>9. CASE s.ptr # NULL
      <3>1. DOMAIN s = {"h", "ptr"}
        BY <2>1 DEF slab_alloc
      <3>2. r = [s EXCEPT !.h.count = @ + 1] /\ s.ptr \in Nat \ {0} /\ k = With(l, s.ptr, x)
        BY <1>0, <2>2, <2>6, <2>7, <2>9
      <3> QED BY <1>4, <1>8, <2>7, <3>1, <3>2
    <2> QED BY <2>8, <2>9
  <1> QED BY <1>6, <1>7, <1>8

\* kfree gives back what a live pointer stands for.
LEMMA KfreeSound ==
    ASSUME NEW h, NEW l, Sound(h, l), NEW ptr \in DOMAIN l, l[ptr].use # "object",
           NEW g, g = kfree(h, ptr), NEW m, m = Forget(l, ptr)
    PROVE  Sound(g, m)
  <1>0. /\ Shape(h, l) /\ Types(h, l) /\ h.count = Cardinality(Plain(l)) /\ h.count \in Int
        /\ ptr \in Nat \ {0} /\ NULL = 0 /\ IsFiniteSet(DOMAIN l)
    BY DEF Sound, Shape, Types, NULL
  <1>1. PICK p : p = page_from_alloc_ptr(ptr)
    OBVIOUS
  <1>2. Dropped(l, ptr, m)
    BY <1>0, HoldFacts
  <1>3. Cardinality(Plain(m)) = h.count - 1
    BY <1>0, <1>2, PlainCount
  <1>4. CASE h.page[p].slab
    <2>1. PICK c, k, n : c = h.page[p].private /\ k = slab_free(h, c, ptr) /\ n = h.count - 1
      OBVIOUS
    <2>2. Shape(k, m) /\ k.count = h.count
      BY <1>0, <1>1, <1>4, <2>1, SlabFreeShape
    <2>3. g = [k EXCEPT !.count = n]
      BY <1>0, <1>1, <1>4, <2>1, <2>2 DEF kfree
    <2>4. Shape(g, m) /\ g.count = n
      BY <1>0, <2>1, <2>2, <2>3, Recount
    <2> QED BY <1>3, <2>1, <2>4 DEF Sound
  <1>5. CASE ~h.page[p].slab
    <2>1. Shape(g, m) /\ g.count = h.count - 1
      BY <1>0, <1>1, <1>5, LargeFreeShape
    <2> QED BY <1>3, <2>1 DEF Sound
  <1> QED BY <1>4, <1>5

\* krealloc keeps the old block or replaces it, and leaves the others alone.
LEMMA KreallocSound ==
    ASSUME NEW h, NEW l, Sound(h, l), NEW ptr \in DOMAIN l, l[ptr].use = "plain", NEW size \in Nat,
           NEW pg \in PmmGives(h, size), NEW r, r = krealloc(h, ptr, size, pg),
           NEW m, m = IF r.ptr = NULL /\ size # 0 THEN l ELSE Keep(Forget(l, ptr), r, size, "plain")
    PROVE  Sound(r.h, m) /\ \A q \in DOMAIN l \ {ptr} : q \in DOMAIN m /\ m[q] = l[q]
  <1>0. Types(h, l) /\ NULL = 0 /\ ptr \in Nat \ {0} /\ l[ptr].use # "object"
    BY DEF Sound, Shape, Types, NULL
  <1>1. PICK f : f = Forget(l, ptr)
    OBVIOUS
  <1>2. Dropped(l, ptr, f)
    BY <1>0, <1>1, HoldFacts
  <1>3. CASE size = 0
    <2>1. r.h = kfree(h, ptr) /\ r.ptr = NULL
      BY <1>0, <1>3 DEF krealloc
    <2>2. m = f
      BY <1>1, <1>3, <2>1 DEF Keep
    <2>3. Sound(r.h, f)
      BY <1>0, <1>1, <2>1, KfreeSound
    <2> QED BY <1>2, <2>2, <2>3 DEF Dropped
  <1>4. CASE size # 0
    <2>1. PICK k : k = kmalloc(h, size, pg)
      OBVIOUS
    <2>2. r = IF k.ptr = NULL THEN k ELSE [k EXCEPT !.h = kfree(k.h, ptr)]
      BY <1>0, <1>4, <2>1 DEF krealloc
    <2>3. PICK n : n = Keep(l, k, size, "plain")
      OBVIOUS
    <2>4. Sound(k.h, n) /\ k.ptr \in Nat /\ k.ptr \notin DOMAIN l
      BY <2>1, <2>3, KmallocSound
    <2>5. CASE k.ptr = NULL
      <3>1. r = k /\ m = l /\ n = l
        BY <1>4, <2>2, <2>3, <2>5 DEF Keep
      <3> QED BY <2>4, <3>1
    <2>6. CASE k.ptr # NULL
      <3>1. DOMAIN k = {"h", "ptr"}
        BY <2>1 DEF kmalloc, slab_alloc, LargeAlloc
      <3>2. r.h = kfree(k.h, ptr) /\ r.ptr = k.ptr
        BY <2>2, <2>6, <3>1
      <3>3. PICK x, a : x = [size |-> size, use |-> "plain"] /\ a = k.ptr
        OBVIOUS
      <3>4. n = With(l, a, x) /\ m = With(f, a, x)
        BY <1>1, <2>3, <2>6, <3>2, <3>3 DEF Keep
      <3>5. Added(l, a, x, n)
        BY <1>0, <3>4, HoldFacts
      <3>6. a # ptr /\ ptr \in DOMAIN n /\ n[ptr].use # "object"
        BY <1>0, <2>4, <3>3, <3>5 DEF Added
      <3>7. PICK d : d = Forget(n, ptr)
        OBVIOUS
      <3>8. Sound(r.h, d)
        <4>1. PICK g : g = k.h
          OBVIOUS
        <4> QED BY <2>4, <3>2, <3>6, <3>7, <4>1, KfreeSound
      <3>9. d = m
        <4>1. DOMAIN n = DOMAIN l \cup {a} /\ n[a] = x /\ \A q \in DOMAIN l : n[q] = l[q]
          BY <2>4, <3>3, <3>5 DEF Added
        <4>2. DOMAIN f = DOMAIN l \ {ptr} /\ \A q \in DOMAIN f : f[q] = l[q]
          BY <1>2 DEF Dropped
        <4>3. d = [q \in (DOMAIN l \cup {a}) \ {ptr} |-> n[q]]
          BY <3>7, <4>1 DEF Forget
        <4>4. m = [q \in (DOMAIN l \ {ptr}) \cup {a} |-> IF q = a THEN x ELSE f[q]]
          BY <3>4, <4>2 DEF With
        <4>5. (DOMAIN l \cup {a}) \ {ptr} = (DOMAIN l \ {ptr}) \cup {a}
          BY <3>6
        <4>6. \A q \in (DOMAIN l \ {ptr}) \cup {a} : n[q] = IF q = a THEN x ELSE f[q]
          BY <3>6, <4>1, <4>2
        <4> QED BY <4>3, <4>4, <4>5, <4>6
      <3>10. \A q \in DOMAIN l \ {ptr} : q \in DOMAIN m /\ m[q] = l[q]
        <4>1. DOMAIN d = DOMAIN n \ {ptr} /\ \A q \in DOMAIN d : d[q] = n[q]
          BY <3>7 DEF Forget
        <4> QED BY <2>4, <3>3, <3>5, <3>9, <4>1 DEF Added
      <3> QED BY <3>8, <3>9, <3>10
    <2> QED BY <2>5, <2>6
  <1> QED BY <1>3, <1>4

\* slab_cache_destroy takes no page from a live allocation.
LEMMA DestroySound ==
    ASSUME NEW h, NEW l, Sound(h, l), \A q \in DOMAIN l : l[q].use # "object",
           NEW at \in DOMAIN l, NEW g, g = slab_cache_destroy(h, at), NEW m, m = Forget(l, at)
    PROVE  Sound(g, m)
  <1>0. /\ Types(h, l) /\ ListInv(h) /\ SlabInv(h, l) /\ HeldInv(h.held) /\ LiveInv(h, l)
        /\ LargeInv(h, l) /\ h.count = Cardinality(Plain(l))
    BY DEF Sound, Shape
  <1>1. OWN \in Caches /\ STALE \notin Caches /\ STALE # LARGE
    BY KheapAssumption DEF OWN, Caches, STALE, LARGE
  <1>2. PICK S : S = Members(h.partial[OWN]) \cup Members(h.full[OWN])
    OBVIOUS
  <1>3. S \subseteq Usable /\ \A p \in Usable : p \in S <=> h.page[p].slab /\ h.page[p].private = OWN
    <2>1. h.partial[OWN] \in Seq(Usable) /\ h.full[OWN] \in Seq(Usable)
      BY <1>0, <1>1 DEF Types
    <2>2. S \subseteq Usable
      BY <1>2, <2>1, MembersBasics
    <2> QED BY <1>0, <1>1, <1>2, <2>2 DEF ListInv
  <1>4. PICK k : k = [slab_destroy(h, S) EXCEPT !.partial[OWN] = <<>>, !.full[OWN] = <<>>]
    OBVIOUS
  <1>5. Destroyed(h, S, k)
    BY <1>0, <1>4, DestroyFields
  <1>6. g = kfree(k, at)
    BY <1>2, <1>4 DEF slab_cache_destroy
  <1>7. /\ k.held = [p \in DOMAIN h.held \ S |-> h.held[p]] /\ DOMAIN k.held = DOMAIN h.held \ S
        /\ \A p \in DOMAIN k.held : k.held[p] = h.held[p]
    BY <1>5 DEF Destroyed
  <1>8. HeldInv(k.held) /\ k.held \in [DOMAIN k.held -> BlockSet] /\ DOMAIN k.held \subseteq Usable
    <2>1. PICK held, n : held = h.held /\ n = k.held
      OBVIOUS
    <2>2. DOMAIN held \subseteq Usable /\ held \in [DOMAIN held -> BlockSet] /\ HeldInv(held)
      BY <1>0, <2>1 DEF Types
    <2>3. n = [p \in DOMAIN held \ S |-> held[p]] /\ DOMAIN n = DOMAIN held \ S
      BY <1>7, <2>1
    <2>4. HeldInv(n) /\ n \in [DOMAIN held \ S -> BlockSet]
      BY <2>2, <2>3, GiveBlocks
    <2> QED BY <2>1, <2>2, <2>3, <2>4
  <1>9. Types(k, l)
    <2>1. \A p \in Usable : PageOk(k.page[p])
      BY <1>0, <1>5 DEF Types, Destroyed
    <2>2. \A c \in Caches : k.partial[c] \in Seq(Usable) /\ k.full[c] \in Seq(Usable)
      <3>1. <<>> \in Seq(Usable)
        OBVIOUS
      <3> QED BY <1>0, <1>5, <3>1 DEF Types, Destroyed
    <2> QED BY <1>0, <1>5, <1>8, <2>1, <2>2 DEF Types, Destroyed
  <1>10. ListInv(k)
    <2> SUFFICES ASSUME NEW c \in Caches
                 PROVE  /\ Unique(k.partial[c]) /\ Unique(k.full[c])
                        /\ \A p \in Usable :
                            /\ p \in Members(k.partial[c]) <=>
                                k.page[p].slab /\ k.page[p].private = c /\ k.page[p].freelist # <<>>
                            /\ p \in Members(k.full[c]) <=>
                                k.page[p].slab /\ k.page[p].private = c /\ k.page[p].freelist = <<>>
      BY DEF ListInv
    <2>1. \A p \in Usable : p \in S => ~k.page[p].slab
      BY <1>5 DEF Destroyed
    <2>2. \A p \in Usable : p \notin S => k.page[p] = h.page[p]
      BY <1>5 DEF Destroyed
    <2>3. CASE c = OWN
      <3>1. k.partial[c] = <<>> /\ k.full[c] = <<>>
        BY <1>5, <2>3 DEF Destroyed
      <3>2. Members(<<>>) = {} /\ Unique(<<>>)
        BY DEF Members, Unique
      <3>3. \A p \in Usable : ~(k.page[p].slab /\ k.page[p].private = c)
        BY <1>3, <2>1, <2>2, <2>3
      <3> QED BY <3>1, <3>2, <3>3
    <2>4. CASE c # OWN
      <3>1. k.partial[c] = h.partial[c] /\ k.full[c] = h.full[c]
        BY <1>5, <2>4 DEF Destroyed
      <3>2. /\ Unique(h.partial[c]) /\ Unique(h.full[c])
            /\ \A p \in Usable :
                /\ p \in Members(h.partial[c]) <=>
                    h.page[p].slab /\ h.page[p].private = c /\ h.page[p].freelist # <<>>
                /\ p \in Members(h.full[c]) <=>
                    h.page[p].slab /\ h.page[p].private = c /\ h.page[p].freelist = <<>>
        BY <1>0 DEF ListInv
      <3>3. \A p \in S : p \notin Members(h.partial[c]) /\ p \notin Members(h.full[c])
        BY <1>3, <2>4, <3>2
      <3> QED BY <2>1, <2>2, <3>1, <3>2, <3>3
    <2> QED BY <2>3, <2>4
  <1>11. SlabInv(k, l)
    <2> SUFFICES ASSUME NEW p \in Usable, k.page[p].slab PROVE SlabOk(k, l, p)
      BY DEF SlabInv
    <2>1. p \notin S /\ k.page[p] = h.page[p]
      BY <1>5 DEF Destroyed
    <2>2. SlabOk(h, l, p)
      BY <1>0, <2>1 DEF SlabInv
    <2>3. p \in DOMAIN k.held /\ k.held[p] = h.held[p]
      BY <1>7, <2>1, <2>2 DEF SlabOk
    <2> QED BY <2>1, <2>2, <2>3 DEF SlabOk
  <1>12. LiveInv(k, l)
    <2> SUFFICES ASSUME NEW q \in DOMAIN l PROVE LiveOk(k, l, q)
      BY DEF LiveInv
    <2>1. PICK p : p = page_from_alloc_ptr(q)
      OBVIOUS
    <2>2. LiveOk(h, l, q) /\ p \in DOMAIN h.held /\ p \in Usable
      BY <1>0, <2>1 DEF LiveInv, LiveOk, Types
    <2>3. p \notin S
      BY <1>3, <2>1, <2>2 DEF LiveOk
    <2>4. p \in DOMAIN k.held /\ k.held[p] = h.held[p] /\ k.page[p] = h.page[p]
      BY <1>5, <1>7, <2>2, <2>3 DEF Destroyed
    <2> QED BY <2>1, <2>2, <2>4 DEF LiveOk
  <1>13. LargeInv(k, l)
    <2> SUFFICES ASSUME NEW p \in Usable, ~k.page[p].slab PROVE LargeOk(k, l, p)
      BY DEF LargeInv
    <2>1. CASE p \in S
      <3>1. k.page[p].private = STALE /\ p \notin DOMAIN k.held
        BY <1>5, <1>7, <2>1 DEF Destroyed
      <3> QED BY <1>1, <3>1 DEF LargeOk
    <2>2. CASE p \notin S
      <3>1. k.page[p] = h.page[p] /\ (p \in DOMAIN k.held <=> p \in DOMAIN h.held)
        BY <1>5, <1>7, <2>2 DEF Destroyed
      <3>2. LargeOk(h, l, p)
        BY <1>0, <3>1 DEF LargeInv
      <3> QED BY <3>1, <3>2 DEF LargeOk
    <2> QED BY <2>1, <2>2
  <1>14. Sound(k, l)
    <2>1. k.count = h.count
      BY <1>5 DEF Destroyed
    <2> QED BY <1>0, <1>8, <1>9, <1>10, <1>11, <1>12, <1>13, <2>1 DEF Sound, Shape
  <1> QED BY <1>6, <1>14, KfreeSound

-----------------------------------------------------------------------------
(* The clients that carve up their blocks.                                 *)

\* A pointer in use and its size do not wrap.
LEMMA LiveEnds ==
    ASSUME NEW h, NEW l, Sound(h, l), NEW q \in DOMAIN l
    PROVE  q + l[q].size <= Word /\ Word \in Nat
  <1>1. /\ Types(h, l) /\ LiveOk(h, l, q) /\ SlabInv(h, l) /\ HeldInv(h.held)
    BY DEF Sound, Shape, LiveInv
  <1>2. PICK p : p = page_from_alloc_ptr(q)
    OBVIOUS
  <1>3. l[q].size \in Nat \ {0} /\ q \in Nat /\ p \in DOMAIN h.held
    BY <1>1, <1>2 DEF Types, LiveOk
  <1>4. /\ p \in Usable /\ h.held[p] \in BlockSet /\ Run(p, h.held[p].order) \subseteq Usable
    BY <1>1, <1>3 DEF Types, HeldInv
  <1>5. /\ p \in Nat \ {0} /\ PAGE_SIZE \in Nat \ {0} /\ h.held[p].order \in Nat
        /\ Word \in Nat /\ LargeHdr \in Nat
    BY <1>4, KheapAssumption, HeapAssumption DEF BlockSet
  <1>6. PICK n \in Nat \ {0}, e \in Nat \ {0}, P \in Nat, s \in Nat :
            n = PAGE_SIZE /\ e = 2^h.held[p].order /\ P = p * n /\ s = l[q].size
    BY <1>3, <1>5, PowerStep
  <1>7. ASSUME NEW k \in Usable PROVE (k + 1) * n <= Word
    BY <1>6, HeapAssumption
  <1>8. CASE h.page[p].slab
    <2>1. PICK c, z : c = h.page[p].private /\ z = obj_size(c)
      OBVIOUS
    <2>2. SlabOk(h, l, p) /\ s <= z
      BY <1>1, <1>2, <1>4, <1>6, <1>8, <2>1 DEF SlabInv, LiveOk
    <2>3. c \in Caches /\ q \in Objects(c, p)
      BY <1>2, <2>1, <2>2 DEF SlabOk, LiveOn
    <2>4. q + z <= P + n /\ z \in Nat
      BY <1>5, <1>6, <2>1, <2>3, SlotFacts, CacheBasics
    <2>5. (p + 1) * n = P + n
      BY <1>5, <1>6
    <2> QED BY <1>3, <1>4, <1>5, <1>6, <1>7, <2>2, <2>4, <2>5
  <1>9. CASE ~h.page[p].slab
    <2>1. q = P + LargeHdr /\ s + LargeHdr <= n * e
      BY <1>1, <1>2, <1>6, <1>9 DEF LiveOk
    <2>2. p + e - 1 \in Usable
      <3>1. p + e - 1 \in Run(p, h.held[p].order)
        BY <1>5, <1>6 DEF Run
      <3> QED BY <1>4, <3>1
    <2>3. PICK k \in Nat : k = p + e - 1
      BY <1>5, <1>6
    <2>4. (k + 1) * n <= Word
      BY <1>7, <2>2, <2>3
    <2>5. k + 1 = p + e /\ (p + e) * n = p * n + e * n /\ e * n = n * e /\ n * e \in Nat
      BY <1>5, <1>6, <2>3, MultipleOrder
    <2>6. P + n * e <= Word
      BY <1>6, <2>4, <2>5
    <2>7. q + s <= P + n * e
      BY <1>3, <1>5, <1>6, <2>1, <2>5
    <2> QED BY <1>3, <1>5, <1>6, <2>5, <2>6, <2>7
  <1> QED BY <1>8, <1>9

\* sdi_elf_align_up gives the next multiple of the alignment, unless it wraps.
LEMMA ElfAlign ==
    ASSUME NEW n \in Nat, NEW a \in Nat \ {0}, n + a - 1 < Word, NEW v, v = sdi_elf_align_up(n, a)
    PROVE  v \in Nat /\ n <= v /\ v <= n + a - 1 /\ v % a = 0
  <1>1. CASE a <= 1
    <2>1. a = 1 /\ v = n
      BY <1>1 DEF sdi_elf_align_up
    <2>2. n % 1 = 0
      OBVIOUS
    <2> QED BY <2>1, <2>2
  <1>2. CASE a > 1
    <2>1. v = (((n + a - 1) % Word) \div a) * a
      BY <1>2 DEF sdi_elf_align_up
    <2>2. n + a - 1 \in Nat /\ Word \in Nat
      BY HeapAssumption
    <2>3. (n + a - 1) % Word = n + a - 1
      BY <2>2
    <2>4. v = ((n + a - 1) \div a) * a
      BY <2>1, <2>3
    <2> QED BY <2>4, NextMultiple
  <1> QED BY <1>1, <1>2

\* Ranges one behind the other do not overlap.
LEMMA SpanFacts ==
    ASSUME NEW a \in Nat, NEW b \in Nat, NEW m \in Nat, NEW n \in Nat
    PROVE  /\ a + m <= b \/ b + n <= a => Span(a, m) \cap Span(b, n) = {}
           /\ a <= b /\ b + n <= a + m => Span(b, n) \subseteq Span(a, m)
           /\ m # 0 /\ n # 0 /\ Span(a, m) \cap Span(b, n) = {} => a + m <= b \/ b + n <= a
  <1>1. a + m <= b \/ b + n <= a => Span(a, m) \cap Span(b, n) = {}
    BY DEF Span
  <1>2. a <= b /\ b + n <= a + m => Span(b, n) \subseteq Span(a, m)
    BY DEF Span
  <1>3. ASSUME m # 0, n # 0, ~(a + m <= b), ~(b + n <= a)
        PROVE  Span(a, m) \cap Span(b, n) # {}
    <2>1. CASE a <= b
      <3>1. b \in Span(a, m) /\ b \in Span(b, n)
        BY <1>3, <2>1 DEF Span
      <3> QED BY <3>1
    <2>2. CASE b < a
      <3>1. a \in Span(a, m) /\ a \in Span(b, n)
        BY <1>3, <2>2 DEF Span
      <3> QED BY <3>1
    <2> QED BY <2>1, <2>2
  <1> QED BY <1>1, <1>2, <1>3

\* What sdi_alloc asks for is exact where it does not refuse.
LEMMA SdiTotal ==
    ASSUME NEW size \in Nat, NEW align \in Nat \ {0}, SdiHdr + align <= Word,
           NEW total, total = SdiBlock(size, align), total >= size
    PROVE  total = size + SdiHdr + align - 1 /\ total \in Nat
  <1>1. SdiHdr \in Nat /\ Word \in Nat
    BY HeapAssumption
  <1>2. PICK sum \in Nat : sum = size + SdiHdr + align - 1
    BY <1>1
  <1>3. total = sum % Word /\ sum < size + Word /\ Word # 0
    BY <1>1, <1>2 DEF SdiBlock
  <1>4. total \in Nat /\ total < Word
    BY <1>1, <1>3
  <1>5. sum < Word => total = sum
    BY <1>1, <1>3
  <1>6. sum >= Word => total <= sum - Word
    <2>1. PICK w \in Nat \ {0} : w = Word
      BY <1>1, <1>3
    <2>2. PICK d \in Nat : d = sum \div w
      BY <2>1
    <2>3. total = sum % w /\ total = sum - d * w
      BY <1>3, <2>1, <2>2
    <2>4. sum >= w => d # 0
      BY <1>3, <2>1, <2>2
    <2>5. d # 0 => 1 * w <= d * w
      BY <2>1, <2>2, MultipleOrder
    <2>6. 1 * w = w /\ d * w \in Nat
      BY <2>1
    <2> QED BY <1>4, <2>1, <2>3, <2>4, <2>5, <2>6
  <1> QED BY <1>1, <1>2, <1>3, <1>4, <1>5, <1>6

\* The header and the bytes of an sdi_alloc lie in the block it takes.
LEMMA SdiFit ==
    ASSUME NEW size \in Nat \ {0}, NEW align \in Nat \ {0}, SdiHdr + align <= Word, NEW raw \in Nat,
           NEW ps, ps = SdiParts(raw, size, align),
           NEW total, total = SdiBlock(size, align), total >= size, raw + total <= Word
    PROVE  FitIn(ps, raw, total)
  <1>1. SdiHdr \in Nat /\ Word \in Nat
    BY HeapAssumption
  <1>2. PICK n \in Nat : n = raw + SdiHdr
    BY <1>1
  <1>3. PICK v : v = sdi_elf_align_up(n, align)
    OBVIOUS
  <1>4. v \in Nat /\ n <= v /\ v <= n + align - 1 /\ v % align = 0
    <2>1. total = size + SdiHdr + align - 1 /\ total \in Nat
      BY SdiTotal
    <2>2. n + align - 1 < Word
      BY <1>1, <1>2, <2>1
    <2> QED BY <1>3, <2>2, ElfAlign
  <1>5. PICK u \in Nat : u = v - SdiHdr
    BY <1>1, <1>2, <1>4
  <1>6. PICK a, b : /\ a = [start |-> u, size |-> SdiHdr, align |-> 1]
                    /\ b = [start |-> v, size |-> size, align |-> align]
    OBVIOUS
  <1>7. ps = <<a, b>>
    BY <1>2, <1>3, <1>5, <1>6 DEF SdiParts
  <1>8. DOMAIN ps = {1, 2} /\ ps[1] = a /\ ps[2] = b
    BY <1>7
  <1>9. total = size + SdiHdr + align - 1 /\ total \in Nat
    BY SdiTotal
  <1>10. raw <= u /\ u + SdiHdr <= raw + total /\ raw <= v /\ v + size <= raw + total /\ u + SdiHdr <= v
    BY <1>1, <1>2, <1>4, <1>5, <1>9
  <1>11. /\ Span(u, SdiHdr) \subseteq Span(raw, total) /\ Span(v, size) \subseteq Span(raw, total)
         /\ Span(u, SdiHdr) \cap Span(v, size) = {}
    <2>1. SdiHdr \in Nat /\ v \in Nat /\ total \in Nat
      BY <1>1, <1>4, <1>9
    <2>2. Span(u, SdiHdr) \subseteq Span(raw, total)
      BY <1>10, <2>1, SpanFacts
    <2>3. Span(v, size) \subseteq Span(raw, total)
      BY <1>10, <2>1, SpanFacts
    <2>4. Span(u, SdiHdr) \cap Span(v, size) = {}
      BY <1>10, <2>1, SpanFacts
    <2> QED BY <2>2, <2>3, <2>4
  <1>12. u % 1 = 0
    OBVIOUS
  <1>13. /\ a.start = u /\ a.size = SdiHdr /\ a.align = 1
         /\ b.start = v /\ b.size = size /\ b.align = align
    BY <1>6
  <1>14. FitIn(ps, raw, total)
    BY <1>4, <1>8, <1>11, <1>12, <1>13 DEF FitIn
  <1> QED BY <1>14

\* The larger of two powers of two is a multiple of the other.
LEMMA LargerPower ==
    ASSUME NEW a \in Nat, NEW b \in Nat, 2^a <= 2^b
    PROVE  \E d \in Nat \ {0} : 2^b = d * 2^a
  <1>1. CASE a <= b
    BY <1>1, PowerDivides
  <1>2. CASE b <= a
    <2>1. PICK d \in Nat \ {0} : 2^a = d * 2^b
      BY <1>2, PowerDivides
    <2>2. PICK x, y : x = 2^a /\ y = 2^b /\ x \in Nat /\ y \in Nat \ {0}
      BY PowerStep
    <2>3. 1 * y <= d * y
      BY <2>2, MultipleOrder
    <2>4. x = y
      BY <2>1, <2>2, <2>3
    <2>5. y = 1 * x /\ 1 \in Nat \ {0}
      BY <2>2, <2>4
    <2> QED BY <2>2, <2>5, Zenon
  <1> QED BY <1>1, <1>2

\* One round of the loop that lays out a driver's sections.
Round(image, t) ==
    [i \in 0..Len(image) |->
       IF i = 0 THEN FirstTurn(Len(image)) ELSE Place(t[i - 1], image[i], i)]

\* The loop has a result: the turns that Turns names exist.
LEMMA TurnsExist ==
    ASSUME NEW image \in Seq(Sections)
    PROVE  Turns(image) = Round(image, Turns(image))
  <1>1. PICK n \in Nat : n = Len(image)
    OBVIOUS
  <1>2. PICK z : z = FirstTurn(n)
    OBVIOUS
  <1> DEFINE To(m, f) == f = [i \in 0..m |-> IF i = 0 THEN z ELSE Place(f[i - 1], image[i], i)]
             S == {m \in Nat : \E f : To(m, f)}
  <1>3. 0 \in S
    <2>1. PICK f : f = [i \in 0..0 |-> z]
      OBVIOUS
    <2>2. To(0, f)
      BY <2>1
    <2> QED BY <2>2
  <1>4. ASSUME NEW m \in Nat, m \in S PROVE m + 1 \in S
    <2>1. PICK f : To(m, f)
      BY <1>4
    <2>2. /\ DOMAIN f = 0..m /\ f[0] = z
          /\ \A i \in 1..m : f[i] = Place(f[i - 1], image[i], i)
      BY <2>1
    <2>3. PICK y : y = Place(f[m], image[m + 1], m + 1)
      OBVIOUS
    <2>4. PICK g : g = [i \in 0..(m + 1) |-> IF i = m + 1 THEN y ELSE f[i]]
      OBVIOUS
    <2>5. /\ g[0] = z /\ g[m + 1] = y /\ \A i \in 0..m : g[i] = f[i]
      BY <2>2, <2>4
    <2>6. ASSUME NEW i \in 0..(m + 1)
          PROVE  (IF i = m + 1 THEN y ELSE f[i]) = (IF i = 0 THEN z ELSE Place(g[i - 1], image[i], i))
      <3>1. CASE i = 0
        BY <2>2, <3>1
      <3>2. CASE i \in 1..m
        <4>1. i - 1 \in 0..m /\ i # 0 /\ i # m + 1
          BY <3>2
        <4> QED BY <2>2, <2>5, <3>2, <4>1
      <3>3. CASE i = m + 1
        <4>1. i - 1 = m /\ m \in 0..m /\ i # 0
          BY <3>3
        <4> QED BY <2>3, <2>5, <3>3, <4>1
      <3> QED BY <3>1, <3>2, <3>3
    <2>7. g = [i \in 0..(m + 1) |-> IF i = 0 THEN z ELSE Place(g[i - 1], image[i], i)]
      BY <2>4, <2>6
    <2>8. To(m + 1, g)
      BY <2>7
    <2>9. m + 1 \in Nat
      OBVIOUS
    <2> HIDE DEF To
    <2> QED BY <2>8, <2>9
  <1>5. PICK f : To(n, f)
    <2>1. n \in S
      <3> HIDE DEF S
      <3> QED BY <1>3, <1>4, Induct
    <2> QED BY <2>1
  <1>6. f = Round(image, f)
    BY <1>1, <1>2, <1>5 DEF Round
  <1>7. Turns(image) = CHOOSE t : t = Round(image, t)
    BY DEF Turns, Round
  <1> QED BY <1>6, <1>7

\* What holds of the loop's variables at when it has placed sections 1..i:
\* they lie one behind the other, each aligned, and max_align suits them all.
Laid(image, at, i) ==
    /\ at.total \in Nat /\ at.align \in Nat \ {0} /\ at.offset \in [1..Len(image) -> Nat]
    /\ \E b \in Nat : at.align = 2^b
    /\ \A j \in 1..i : image[j].alloc =>
          /\ at.offset[j] + image[j].size <= at.total
          /\ at.offset[j] % SectionAlign(image[j]) = 0
          /\ \E d \in Nat : at.align = d * SectionAlign(image[j])
    /\ \A j, k \in 1..i : image[j].alloc /\ image[k].alloc /\ j < k =>
          at.offset[j] + image[j].size <= at.offset[k]

\* A turn of the loop places one more section.
LEMMA PlaceStep ==
    ASSUME NEW image \in Seq(Sections), NEW i \in 1..Len(image), NEW at,
           at.ok /\ ~at.wraps => Laid(image, at, i - 1),
           image[i].alloc => SectionOk(image[i]), NEW next, next = Place(at, image[i], i),
           next.ok, ~next.wraps
    PROVE  Laid(image, next, i)
  <1>0. /\ DOMAIN image = 1..Len(image) /\ Len(image) \in Nat /\ i \in Nat
        /\ \A j \in 1..Len(image) : image[j] \in Sections /\ image[j].size \in Nat
                                    /\ image[j].align \in Nat
    <2>1. DOMAIN image = 1..Len(image) /\ Len(image) \in Nat /\ i \in Nat
          /\ \A j \in 1..Len(image) : image[j] \in Sections
      OBVIOUS
    <2>2. \A x \in Sections : x.size \in Nat /\ x.align \in Nat
      BY DEF Sections
    <2> QED BY <2>1, <2>2
  <1>1. \A j \in 1..i : j \in 1..(i - 1) \/ j = i
    BY <1>0
  <1>2. CASE ~image[i].alloc
    <2>1. next = at
      BY <1>2 DEF Place
    <2>2. Laid(image, at, i - 1)
      BY <2>1
    <2> QED BY <1>1, <1>2, <2>1, <2>2 DEF Laid
  <1>3. CASE image[i].alloc
    <2>a. at.ok
      <3>1. CASE ~at.ok
        <4>1. next = at
          BY <3>1 DEF Place
        <4> QED BY <3>1, <4>1
      <3> QED BY <3>1
    <2>b. PICK st, fits, wr :
              /\ st = sdi_elf_align_up(at.total, SectionAlign(image[i]))
              /\ fits = (st + image[i].size < Word)
              /\ wr = (at.wraps \/ at.total + SectionAlign(image[i]) - 1 >= Word)
      OBVIOUS
    <2>c. next = [total  |-> (st + image[i].size) % Word,
                  align  |-> IF SectionAlign(image[i]) > at.align THEN SectionAlign(image[i]) ELSE at.align,
                  offset |-> [at.offset EXCEPT ![i] = st],
                  ok     |-> fits,
                  wraps  |-> wr]
      BY <1>3, <2>a, <2>b, Zenon DEF Place
    <2>d. fits /\ ~(at.wraps \/ at.total + SectionAlign(image[i]) - 1 >= Word)
      <3>1. next.ok = fits /\ next.wraps = wr
        BY <2>c
      <3>2. fits /\ ~wr
        BY <3>1, Zenon
      <3> QED BY <2>b, <3>2, Zenon
    <2>e. Laid(image, at, i - 1) /\ Word \in Nat
      BY <2>a, <2>d, HeapAssumption
    <2>1. PICK s, sz, tot, al : s = SectionAlign(image[i]) /\ sz = image[i].size
                                /\ tot = at.total /\ al = at.align
      OBVIOUS
    <2>2. s \in Nat \ {0} /\ sz \in Nat /\ tot \in Nat /\ al \in Nat \ {0}
      BY <1>0, <2>1, <2>e DEF SectionAlign, Laid
    <2>3. PICK a \in Nat : s = 2^a
      BY <1>3, <2>1, <2>2 DEF SectionOk, sdi_elf_is_power_of_two
    <2>4. PICK b \in Nat : al = 2^b
      BY <2>1, <2>e DEF Laid
    <2>5. PICK v : v = sdi_elf_align_up(tot, s)
      OBVIOUS
    <2>6. v \in Nat /\ tot <= v /\ v % s = 0
      <3>1. tot + s - 1 < Word
        BY <2>1, <2>2, <2>d, <2>e
      <3> QED BY <2>2, <2>5, <3>1, ElfAlign
    <2>7. PICK big : big = IF s > al THEN s ELSE al
      OBVIOUS
    <2>8. /\ next.total = (v + sz) % Word /\ next.align = big
          /\ next.offset = [at.offset EXCEPT ![i] = v]
      BY <2>1, <2>5, <2>7, <2>b, <2>c
    <2>9. next.total = v + sz /\ next.align = big /\ next.offset = [at.offset EXCEPT ![i] = v]
      <3>1. v + sz < Word
        BY <2>1, <2>5, <2>b, <2>d
      <3>2. v + sz \in Nat
        BY <2>2, <2>6
      <3>3. (v + sz) % Word = v + sz
        BY <2>e, <3>1, <3>2
      <3> QED BY <2>8, <3>3
    <2>10. at.offset \in [1..Len(image) -> Nat]
      BY <2>e DEF Laid
    <2>11. /\ next.offset \in [1..Len(image) -> Nat] /\ next.offset[i] = v
           /\ \A j \in 1..(i - 1) : next.offset[j] = at.offset[j]
      BY <1>0, <2>6, <2>9, <2>10
    <2>12. big \in Nat \ {0} /\ \E e \in Nat : big = 2^e
      BY <2>2, <2>3, <2>4, <2>7
    <2>13. (\E d \in Nat : big = d * s) /\ (\E d \in Nat : big = d * al)
      <3>1. CASE s > al
        <4>1. 2^b <= 2^a
          BY <2>2, <2>3, <2>4, <3>1
        <4>2. PICK d \in Nat \ {0} : 2^a = d * 2^b
          BY <4>1, LargerPower
        <4>3. s = d * al /\ s = 1 * s /\ big = s
          BY <2>2, <2>3, <2>4, <2>7, <3>1, <4>2
        <4> QED BY <4>3
      <3>2. CASE ~(s > al)
        <4>1. 2^a <= 2^b
          BY <2>2, <2>3, <2>4, <3>2
        <4>2. PICK d \in Nat \ {0} : 2^b = d * 2^a
          BY <4>1, LargerPower
        <4>3. al = d * s /\ al = 1 * al /\ big = al
          BY <2>2, <2>3, <2>4, <2>7, <3>2, <4>2
        <4> QED BY <4>3
      <3> QED BY <3>1, <3>2
    <2>14. ASSUME NEW j \in 1..i, image[j].alloc
           PROVE  /\ next.offset[j] + image[j].size <= next.total
                  /\ next.offset[j] % SectionAlign(image[j]) = 0
                  /\ \E d \in Nat : next.align = d * SectionAlign(image[j])
      <3>1. CASE j = i
        <4>1. next.offset[j] = v /\ image[j].size = sz /\ SectionAlign(image[j]) = s
          BY <2>1, <2>11, <3>1
        <4>2. v + sz <= next.total /\ next.align = big
          BY <2>2, <2>6, <2>9
        <4> QED BY <2>6, <2>13, <4>1, <4>2
      <3>2. CASE j # i
        <4>1. j \in 1..(i - 1) /\ j \in 1..Len(image)
          BY <1>0, <3>2
        <4>2. PICK o, z, w : o = at.offset[j] /\ z = image[j].size /\ w = SectionAlign(image[j])
          OBVIOUS
        <4>3. o \in Nat /\ z \in Nat /\ w \in Nat \ {0} /\ next.offset[j] = o
          BY <1>0, <2>10, <2>11, <4>1, <4>2 DEF SectionAlign
        <4>4. o + z <= tot /\ o % w = 0 /\ \E d \in Nat : al = d * w
          BY <2>1, <2>14, <2>e, <4>1, <4>2 DEF Laid
        <4>5. \E d \in Nat : big = d * w
          <5>1. PICK d \in Nat : al = d * w
            BY <4>4
          <5>2. PICK e \in Nat : big = e * al
            BY <2>13
          <5>3. e * (d * w) = (e * d) * w /\ e * d \in Nat
            BY <4>3
          <5>4. big = (e * d) * w
            BY <5>1, <5>2, <5>3, Zenon
          <5> QED BY <5>3, <5>4, Zenon
        <4>6. o + z <= next.total /\ next.align = big
          BY <2>2, <2>6, <2>9, <4>3, <4>4
        <4> QED BY <4>2, <4>3, <4>4, <4>5, <4>6
      <3> QED BY <3>1, <3>2
    <2>15. ASSUME NEW j \in 1..i, NEW k \in 1..i, image[j].alloc, image[k].alloc, j < k
           PROVE  next.offset[j] + image[j].size <= next.offset[k]
      <3>1. j \in 1..(i - 1) /\ j \in 1..Len(image) /\ next.offset[j] = at.offset[j]
        BY <1>0, <2>11, <2>15
      <3>2. CASE k = i
        <4>1. at.offset[j] + image[j].size <= tot /\ at.offset[j] \in Nat /\ image[j].size \in Nat
          BY <1>0, <2>1, <2>10, <2>15, <2>e, <3>1 DEF Laid
        <4>2. PICK o, z : o = at.offset[j] /\ z = image[j].size
          OBVIOUS
        <4>3. o + z <= v
          BY <2>2, <2>6, <4>1, <4>2
        <4> QED BY <2>11, <3>1, <3>2, <4>2, <4>3
      <3>3. CASE k # i
        <4>1. k \in 1..(i - 1) /\ next.offset[k] = at.offset[k]
          BY <1>0, <2>11, <3>3
        <4> QED BY <2>15, <2>e, <3>1, <4>1 DEF Laid
      <3> QED BY <3>2, <3>3
    <2>16. next.total \in Nat /\ next.align \in Nat \ {0} /\ \E e \in Nat : next.align = 2^e
      BY <2>2, <2>6, <2>9, <2>12
    <2> QED BY <2>11, <2>14, <2>15, <2>16 DEF Laid
  <1> QED BY <1>2, <1>3

\* The layout of an image that is not refused.
LEMMA LayoutLaid ==
    ASSUME NEW image \in Seq(Sections), ~Refused(image), ~Layout(image).wraps
    PROVE  Laid(image, Layout(image), Len(image))
  <1>1. PICK n \in Nat : n = Len(image) /\ DOMAIN image = 1..n
    OBVIOUS
  <1>2. PICK t : t = Turns(image)
    OBVIOUS
  <1>3. t = Round(image, t)
    BY <1>2, TurnsExist
  <1>4. /\ t[0] = FirstTurn(n)
        /\ \A i \in 1..n : t[i] = Place(t[i - 1], image[i], i)
    <2>1. t = [i \in 0..n |-> IF i = 0 THEN FirstTurn(n) ELSE Place(t[i - 1], image[i], i)]
      BY <1>1, <1>3, Zenon DEF Round
    <2>2. PICK z : z = FirstTurn(n)
      OBVIOUS
    <2>3. t = [i \in 0..n |-> IF i = 0 THEN z ELSE Place(t[i - 1], image[i], i)]
      BY <2>1, <2>2, Zenon
    <2>4. t[0] = z /\ \A i \in 1..n : t[i] = Place(t[i - 1], image[i], i)
      BY <2>3
    <2> QED BY <2>2, <2>4
  <1>5. \A i \in 1..n : image[i].alloc => SectionOk(image[i])
    BY <1>1 DEF Refused
  <1> DEFINE S == {i \in Nat : i <= n /\ t[i].ok /\ ~t[i].wraps => Laid(image, t[i], i)}
  <1>6. 0 \in S
    <2>1. /\ t[0].total = 0 /\ t[0].align = 1 /\ t[0].offset \in [1..n -> Nat]
      BY <1>4 DEF FirstTurn
    <2>2. t[0].align = 2^0
      BY <2>1, PowerStep
    <2>3. 1..0 = {}
      OBVIOUS
    <2>a. \E b \in Nat : t[0].align = 2^b
      BY <2>2
    <2>b. t[0].total \in Nat /\ t[0].align \in Nat \ {0} /\ t[0].offset \in [1..Len(image) -> Nat]
      BY <1>1, <2>1
    <2>4. Laid(image, t[0], 0)
      BY <2>3, <2>a, <2>b, Zenon DEF Laid
    <2> QED BY <2>4
  <1>7. ASSUME NEW i \in Nat, i \in S PROVE i + 1 \in S
    <2> SUFFICES ASSUME i + 1 <= n, t[i + 1].ok, ~t[i + 1].wraps
                 PROVE  Laid(image, t[i + 1], i + 1)
      OBVIOUS
    <2>1. PICK k : k = i + 1
      OBVIOUS
    <2>2. k \in 1..Len(image) /\ k - 1 = i
      BY <1>1, <2>1
    <2>3. t[k - 1].ok /\ ~t[k - 1].wraps => Laid(image, t[k - 1], k - 1)
      BY <1>7, <2>2
    <2>a. t[k].ok /\ ~t[k].wraps
      BY <2>1
    <2>4. t[k] = Place(t[k - 1], image[k], k) /\ (image[k].alloc => SectionOk(image[k]))
      BY <1>1, <1>4, <1>5, <2>2
    <2>5. Laid(image, t[k], k)
      BY <2>2, <2>3, <2>4, <2>a, PlaceStep
    <2> QED BY <2>1, <2>5
  <1>8. n \in S
    <2> HIDE DEF S
    <2> QED BY <1>6, <1>7, Induct
  <1>9. Layout(image) = t[n] /\ t[n].ok /\ ~t[n].wraps
    BY <1>1, <1>2 DEF Layout, Refused
  <1>10. Laid(image, t[n], n)
    BY <1>8, <1>9
  <1> QED BY <1>1, <1>9, <1>10

\* The sections of a driver lie in the block that is taken for them.
LEMMA SectionFit ==
    ASSUME NEW image \in Seq(Sections), ~Refused(image), ~Layout(image).wraps, NEW raw \in Nat,
           NEW ps, ps = SectionParts(image, raw),
           NEW total, total = Layout(image).total + Layout(image).align - 1, raw + total <= Word
    PROVE  FitIn(ps, raw, total)
  <1>1. PICK at, n : at = Layout(image) /\ n = Len(image)
    OBVIOUS
  <1>2. Laid(image, at, n)
    BY <1>1, LayoutLaid
  <1>3. /\ at.total \in Nat /\ at.align \in Nat \ {0} /\ at.offset \in [1..n -> Nat]
        /\ n \in Nat /\ DOMAIN image = 1..n
    BY <1>1, <1>2 DEF Laid
  <1>4. PICK base : base = sdi_elf_align_up(raw, at.align)
    OBVIOUS
  <1>5. base \in Nat /\ raw <= base /\ base <= raw + at.align - 1 /\ base % at.align = 0
    <2>1. PICK T \in Nat, A \in Nat \ {0}, w \in Nat : T = at.total /\ A = at.align /\ w = Word
      BY <1>3, HeapAssumption
    <2>2. T # 0 /\ raw + (T + A - 1) <= w
      BY <1>1, <2>1 DEF Refused
    <2>3. raw + A - 1 < w
      BY <2>2
    <2>4. base = sdi_elf_align_up(raw, A)
      BY <1>4, <2>1
    <2> QED BY <2>1, <2>3, <2>4, ElfAlign
  <1>6. ps = [i \in {k \in DOMAIN image : image[k].alloc} |->
                [start |-> base + at.offset[i], size |-> image[i].size,
                 align |-> SectionAlign(image[i])]]
    BY <1>1, <1>4 DEF SectionParts
  <1>7. total = at.total + at.align - 1 /\ total \in Nat
    BY <1>1, <1>3
  <1>8. ASSUME NEW i \in DOMAIN ps
        PROVE  /\ i \in 1..n /\ image[i].alloc /\ ps[i].start = base + at.offset[i]
               /\ ps[i].size = image[i].size /\ ps[i].align = SectionAlign(image[i])
               /\ at.offset[i] \in Nat /\ image[i].size \in Nat
               /\ SectionAlign(image[i]) \in Nat \ {0}
    <2>1. i \in 1..n /\ image[i].alloc
      BY <1>3, <1>6
    <2>2. ps[i] = [start |-> base + at.offset[i], size |-> image[i].size,
                   align |-> SectionAlign(image[i])]
      BY <1>6
    <2>3. image[i] \in Sections
      BY <1>3, <2>1
    <2>4. image[i].size \in Nat /\ image[i].align \in Nat
      BY <2>3 DEF Sections
    <2> QED BY <1>3, <2>1, <2>2, <2>4 DEF SectionAlign
  <1>9. ASSUME NEW i \in DOMAIN ps
        PROVE  /\ Span(ps[i].start, ps[i].size) \subseteq Span(raw, total)
               /\ ps[i].start % ps[i].align = 0
    <2>1. PICK o, z, w : o = at.offset[i] /\ z = image[i].size /\ w = SectionAlign(image[i])
      OBVIOUS
    <2>2. /\ o \in Nat /\ z \in Nat /\ w \in Nat \ {0} /\ ps[i].start = base + o
          /\ ps[i].size = z /\ ps[i].align = w /\ i \in 1..n /\ image[i].alloc
      BY <1>8, <2>1
    <2>3. o + z <= at.total /\ o % w = 0 /\ \E d \in Nat : at.align = d * w
      BY <1>2, <2>1, <2>2 DEF Laid
    <2>4. raw <= base + o /\ (base + o) + z <= raw + total /\ base + o \in Nat
      <3>1. PICK tot, al : tot = at.total /\ al = at.align
        OBVIOUS
      <3>2. tot \in Nat /\ al \in Nat /\ base \in Nat /\ raw <= base /\ base <= raw + al - 1
            /\ total = tot + al - 1 /\ o + z <= tot
        BY <1>3, <1>5, <1>7, <2>3, <3>1
      <3> QED BY <2>2, <3>2
    <2>5. Span(base + o, z) \subseteq Span(raw, total)
      BY <1>7, <2>2, <2>4, SpanFacts
    <2>6. (base + o) % w = 0
      <3>1. PICK d \in Nat : at.align = d * w
        BY <2>3
      <3>2. PICK e \in Nat : base = e * at.align
        BY <1>3, <1>5, Multiple
      <3>3. PICK f \in Nat : o = f * w
        <4>1. o \div w \in Nat /\ o = (o \div w) * w
          BY <2>2, <2>3, Multiple
        <4> QED BY <4>1
      <3>4. e * (d * w) = (e * d) * w /\ e * d \in Nat
        BY <2>2
      <3>5. base = (e * d) * w
        BY <3>1, <3>2, <3>4, Zenon
      <3>6. ((e * d) + f) * w = (e * d) * w + f * w
        BY <2>2, <3>4, MultipleOrder
      <3>7. base + o = ((e * d) + f) * w /\ (e * d) + f \in Nat
        BY <3>3, <3>4, <3>5, <3>6
      <3> QED BY <2>2, <3>7, Multiple
    <2> QED BY <2>2, <2>5, <2>6
  <1>10. ASSUME NEW i \in DOMAIN ps, NEW j \in DOMAIN ps, i < j
         PROVE  Span(ps[i].start, ps[i].size) \cap Span(ps[j].start, ps[j].size) = {}
    <2>1. PICK a, m, b, k : a = ps[i].start /\ m = ps[i].size /\ b = ps[j].start /\ k = ps[j].size
      OBVIOUS
    <2>2. at.offset[i] + image[i].size <= at.offset[j]
      BY <1>2, <1>8, <1>10 DEF Laid
    <2>3. /\ a = base + at.offset[i] /\ m = image[i].size /\ b = base + at.offset[j]
          /\ k = image[j].size /\ m \in Nat /\ k \in Nat
          /\ at.offset[i] \in Nat /\ at.offset[j] \in Nat
      BY <1>8, <2>1
    <2>4. a \in Nat /\ b \in Nat /\ a + m <= b
      <3>1. PICK o, u : o = at.offset[i] /\ u = at.offset[j]
        OBVIOUS
      <3>2. /\ o \in Nat /\ u \in Nat /\ a = base + o /\ b = base + u /\ o + m <= u
            /\ m \in Nat /\ base \in Nat
        BY <1>5, <2>2, <2>3, <3>1
      <3> QED BY <3>2
    <2>5. Span(a, m) \cap Span(b, k) = {}
      <3>1. m \in Nat /\ k \in Nat
        BY <2>3
      <3> QED BY <2>4, <3>1, SpanFacts
    <2> QED BY <2>1, <2>5
  <1>11. FitIn(ps, raw, total)
    <2>1. ASSUME NEW i \in DOMAIN ps, NEW j \in DOMAIN ps \ {i}
          PROVE  Span(ps[i].start, ps[i].size) \cap Span(ps[j].start, ps[j].size) = {}
      <3>1. i < j \/ j < i
        <4>1. i \in 1..n /\ j \in 1..n /\ i # j
          BY <1>8
        <4> QED BY <1>3, <4>1
      <3>2. CASE i < j
        BY <1>10, <3>2
      <3>3. CASE j < i
        <4>1. Span(ps[j].start, ps[j].size) \cap Span(ps[i].start, ps[i].size) = {}
          BY <1>10, <3>3
        <4> QED BY <4>1
      <3> QED BY <3>1, <3>2, <3>3
    <2> QED BY <1>9, <2>1 DEF FitIn
  <1> QED BY <1>11

-----------------------------------------------------------------------------
(* The invariant.                                                          *)

\* What was live before a kmalloc is live after it.
LEMMA KeepFrame ==
    ASSUME NEW h, NEW l, Sound(h, l), NEW r, r.ptr \notin DOMAIN l, NEW size, NEW use,
           NEW m, m = Keep(l, r, size, use)
    PROVE  /\ \A q \in DOMAIN l : q \in DOMAIN m /\ m[q] = l[q]
           /\ r.ptr # NULL => r.ptr \in DOMAIN m /\ m[r.ptr].size = size /\ m[r.ptr].use = use
  <1>1. CASE r.ptr = NULL
    BY <1>1 DEF Keep
  <1>2. CASE r.ptr # NULL
    <2>1. PICK x, ptr : x = [size |-> size, use |-> use] /\ ptr = r.ptr
      OBVIOUS
    <2>2. m = With(l, ptr, x)
      BY <1>2, <2>1 DEF Keep
    <2>3. Added(l, ptr, x, m)
      BY <2>2, HoldFacts DEF Sound, Shape
    <2>4. DOMAIN m = DOMAIN l \cup {ptr} /\ m[ptr] = x /\ \A q \in DOMAIN l : m[q] = l[q]
      BY <2>1, <2>3 DEF Added
    <2> QED BY <2>1, <2>4
  <1> QED BY <1>1, <1>2

\* The ranges of the clients whose blocks stay.
LEMMA PartsFrame ==
    ASSUME NEW l, NEW m, NEW pt, PartsInv(l, pt), NEW ps,
           \A raw \in DOMAIN ps : raw \in DOMAIN pt /\ ps[raw] = pt[raw],
           \A raw \in DOMAIN ps : raw \in DOMAIN l => raw \in DOMAIN m /\ m[raw] = l[raw]
    PROVE  PartsInv(m, ps)
  BY DEF PartsInv

\* A new client.
LEMMA PartsAdded ==
    ASSUME NEW m, NEW pt, PartsInv(m, pt), NEW raw, NEW x, raw \in DOMAIN m,
           m[raw].use \in {"sdi", "module"}, FitIn(x, raw, m[raw].size)
    PROVE  PartsInv(m, With(pt, raw, x))
  <1>1. PICK ps : ps = With(pt, raw, x)
    OBVIOUS
  <1>2. DOMAIN ps = DOMAIN pt \cup {raw} /\ ps[raw] = x /\ \A q \in DOMAIN pt \ {raw} : ps[q] = pt[q]
    BY <1>1 DEF With
  <1>3. PartsInv(m, ps)
    BY <1>2 DEF PartsInv
  <1> QED BY <1>1, <1>3

\* An allocation by kmalloc that does not carve up its block.
LEMMA KmallocStep ==
    ASSUME NEW h, NEW l, NEW pt, Sound(h, l), PartsInv(l, pt),
           NEW size \in Nat, NEW use, use # "object", NEW pg \in PmmGives(h, size),
           NEW r, r = kmalloc(h, size, pg), NEW m, m = Keep(l, r, size, use)
    PROVE  /\ Sound(r.h, m) /\ PartsInv(m, pt) /\ r.ptr \in Nat
           /\ \A q \in DOMAIN l : q \in DOMAIN m /\ m[q] = l[q]
           /\ r.ptr # NULL => r.ptr \in DOMAIN m /\ m[r.ptr].size = size /\ m[r.ptr].use = use
  <1>1. Sound(r.h, m) /\ r.ptr \in Nat /\ r.ptr \notin DOMAIN l
    BY KmallocSound
  <1>2. /\ \A q \in DOMAIN l : q \in DOMAIN m /\ m[q] = l[q]
        /\ r.ptr # NULL => r.ptr \in DOMAIN m /\ m[r.ptr].size = size /\ m[r.ptr].use = use
    BY <1>1, KeepFrame
  <1>3. PartsInv(m, pt)
    BY <1>2, PartsFrame
  <1> QED BY <1>1, <1>2, <1>3

\* The heap after kheap_init.
LEMMA HeapInit == Init => HeapInv
  <1> SUFFICES ASSUME Init PROVE HeapInv
    OBVIOUS
  <1>1. /\ heap = kheap_init /\ live = [p \in {} |-> 0] /\ own = NULL /\ parts = NoParts
    BY DEF Init
  <1>2. DOMAIN live = {} /\ DOMAIN parts = {}
    BY <1>1 DEF NoParts
  <1>3. /\ DOMAIN heap = {"page", "partial", "full", "count", "held"}
        /\ heap.page = [p \in Usable |-> BarePage] /\ heap.count = 0
        /\ heap.partial = [c \in Caches |-> <<>>] /\ heap.full = [c \in Caches |-> <<>>]
        /\ heap.held = [p \in {} |-> 0]
    BY <1>1 DEF kheap_init
  <1>4. PageOk(BarePage) /\ ~BarePage.slab /\ BarePage.private = 0
    BY DEF PageOk, BarePage
  <1>5. Types(heap, live)
    <2>1. \A c \in Caches : heap.partial[c] \in Seq(Usable) /\ heap.full[c] \in Seq(Usable)
      BY <1>3
    <2>2. DOMAIN heap.held = {} /\ heap.held \in [DOMAIN heap.held -> BlockSet]
      BY <1>3
    <2>3. IsFiniteSet(DOMAIN live)
      BY <1>2, FS_EmptySet
    <2>4. live = [q \in DOMAIN live |-> live[q]]
      BY <1>1
    <2> QED BY <1>2, <1>3, <1>4, <2>1, <2>2, <2>3, <2>4 DEF Types
  <1>6. ListInv(heap)
    <2>1. Members(<<>>) = {} /\ Unique(<<>>)
      BY DEF Members, Unique
    <2> QED BY <1>3, <1>4, <2>1 DEF ListInv
  <1>7. SlabInv(heap, live) /\ LiveInv(heap, live)
    BY <1>2, <1>3, <1>4 DEF SlabInv, LiveInv
  <1>8. HeldInv(heap.held)
    BY <1>3 DEF HeldInv
  <1>9. LargeInv(heap, live)
    <2>1. 0 \notin Caches /\ LARGE # 0
      BY KheapAssumption DEF Caches, OWN, LARGE
    <2> QED BY <1>3, <1>4, <2>1 DEF LargeInv, LargeOk
  <1>10. heap.count = Cardinality(Plain(live))
    <2>1. Plain(live) = {}
      BY <1>2 DEF Plain
    <2> QED BY <1>3, <2>1, FS_EmptySet
  <1>11. PartsInv(live, parts)
    BY <1>2 DEF PartsInv
  <1> QED BY <1>1, <1>5, <1>6, <1>7, <1>8, <1>9, <1>10, <1>11 DEF HeapInv, Sound, Shape

\* Allocations by callers of kmalloc.
LEMMA MallocKeeps ==
    ASSUME HeapInv, NEW size \in Sizes, Malloc(size)
    PROVE  HeapInv'
  <1>1. PICK pg, r : /\ pg \in PmmGives(heap, size) /\ r = kmalloc(heap, size, pg)
                     /\ heap' = r.h /\ live' = Keep(live, r, size, "plain")
    BY DEF Malloc
  <1>2. /\ size \in Nat /\ own' = own /\ parts' = parts
        /\ Sound(heap, live) /\ PartsInv(live, parts)
    BY HeapAssumption DEF Malloc, HeapInv
  <1>3. PICK m, use, n : use = "plain" /\ m = Keep(live, r, size, use) /\ n = size /\ n \in Nat
    BY <1>2
  <1>4. use # "object" /\ pg \in PmmGives(heap, n) /\ r = kmalloc(heap, n, pg) /\ m = Keep(live, r, n, use)
    BY <1>1, <1>3
  <1>a. Sound(heap, live) /\ PartsInv(live, parts)
    BY <1>2
  <1>5. /\ Sound(r.h, m) /\ PartsInv(m, parts)
        /\ \A q \in DOMAIN live : q \in DOMAIN m /\ m[q] = live[q]
    <2>1. n \in Nat
      BY <1>3
    <2>2. Sound(r.h, m) /\ r.ptr \notin DOMAIN live
      BY <1>4, <1>a, <2>1, KmallocSound
    <2>3. \A q \in DOMAIN live : q \in DOMAIN m /\ m[q] = live[q]
      BY <1>4, <1>a, <2>2, KeepFrame
    <2> QED BY <1>a, <2>2, <2>3, PartsFrame
  <1> QED BY <1>1, <1>2, <1>3, <1>5 DEF HeapInv

\* The memory of a new cache.
LEMMA CacheKeeps ==
    ASSUME HeapInv, slab_cache_create
    PROVE  HeapInv'
  <1>1. PICK pg, r, size, use :
            /\ size = CacheSize /\ use = "cache" /\ pg \in PmmGives(heap, size)
            /\ r = kmalloc(heap, size, pg)
            /\ heap' = r.h /\ own' = r.ptr /\ live' = Keep(live, r, size, use)
    BY DEF slab_cache_create
  <1>2. /\ size \in Nat /\ parts' = parts /\ use # "object"
        /\ Sound(heap, live) /\ PartsInv(live, parts)
    BY <1>1, HeapAssumption DEF slab_cache_create, HeapInv
  <1>3. PICK m : m = Keep(live, r, size, use)
    OBVIOUS
  <1>4. /\ Sound(r.h, m) /\ PartsInv(m, parts)
        /\ r.ptr # NULL => r.ptr \in DOMAIN m /\ m[r.ptr].use = use
    BY <1>1, <1>2, <1>3, KmallocStep
  <1> QED BY <1>1, <1>2, <1>3, <1>4 DEF HeapInv

\* What callers of kmalloc free.
LEMMA FreeKeeps ==
    ASSUME HeapInv, NEW ptr \in DOMAIN live, Free(ptr)
    PROVE  HeapInv'
  <1>1. /\ live[ptr].use = "plain" /\ heap' = kfree(heap, ptr) /\ live' = Forget(live, ptr)
        /\ own' = own /\ parts' = parts
    BY DEF Free, Of
  <1>2. Sound(heap, live) /\ PartsInv(live, parts)
    BY DEF HeapInv
  <1>3. PICK g, m : g = kfree(heap, ptr) /\ m = Forget(live, ptr)
    OBVIOUS
  <1>4. Sound(g, m)
    BY <1>1, <1>2, <1>3, KfreeSound
  <1>5. \A q \in DOMAIN live \ {ptr} : q \in DOMAIN m /\ m[q] = live[q]
    BY <1>3 DEF Forget
  <1>6. ptr \notin DOMAIN parts
    BY <1>1, <1>2 DEF PartsInv
  <1>7. PartsInv(m, parts)
    BY <1>2, <1>5, <1>6, PartsFrame
  <1>8. own # NULL => own \in DOMAIN m /\ m[own].use = "cache"
    BY <1>1, <1>5 DEF HeapInv
  <1> QED BY <1>1, <1>3, <1>4, <1>7, <1>8 DEF HeapInv

\* What they resize.
LEMMA ReallocKeeps ==
    ASSUME HeapInv, NEW ptr \in DOMAIN live, NEW size \in Sizes, Realloc(ptr, size)
    PROVE  HeapInv'
  <1>1. PICK pg, r :
            /\ pg \in PmmGives(heap, size) /\ r = krealloc(heap, ptr, size, pg) /\ heap' = r.h
            /\ live' = IF r.ptr = NULL /\ size # 0 THEN live
                       ELSE Keep(Forget(live, ptr), r, size, "plain")
    BY DEF Realloc
  <1>2. size \in Nat /\ own' = own /\ parts' = parts /\ live[ptr].use = "plain"
    BY HeapAssumption DEF Realloc, Of
  <1>3. Sound(heap, live) /\ PartsInv(live, parts)
    BY DEF HeapInv
  <1>4. PICK m : m = IF r.ptr = NULL /\ size # 0 THEN live
                     ELSE Keep(Forget(live, ptr), r, size, "plain")
    OBVIOUS
  <1>5. Sound(r.h, m) /\ \A q \in DOMAIN live \ {ptr} : q \in DOMAIN m /\ m[q] = live[q]
    BY <1>1, <1>2, <1>3, <1>4, KreallocSound
  <1>6. ptr \notin DOMAIN parts
    BY <1>2, <1>3 DEF PartsInv
  <1>7. PartsInv(m, parts)
    BY <1>3, <1>5, <1>6, PartsFrame
  <1>8. own # NULL => own \in DOMAIN m /\ m[own].use = "cache"
    BY <1>2, <1>5 DEF HeapInv
  <1> QED BY <1>1, <1>2, <1>4, <1>5, <1>7, <1>8 DEF HeapInv

\* A cache whose owner holds no object of it is destroyed.
LEMMA DestroyKeeps ==
    ASSUME HeapInv, DestroyCache
    PROVE  HeapInv'
  <1>1. /\ own # NULL /\ Of("object") = {} /\ heap' = slab_cache_destroy(heap, own)
        /\ live' = Forget(live, own) /\ own' = NULL /\ parts' = parts
    BY DEF DestroyCache
  <1>2. Sound(heap, live) /\ PartsInv(live, parts) /\ own \in DOMAIN live /\ live[own].use = "cache"
    BY <1>1 DEF HeapInv
  <1>3. \A q \in DOMAIN live : live[q].use # "object"
    BY <1>1 DEF Of
  <1>4. PICK g, m : g = slab_cache_destroy(heap, own) /\ m = Forget(live, own)
    OBVIOUS
  <1>5. Sound(g, m)
    BY <1>2, <1>3, <1>4, DestroySound
  <1>6. \A q \in DOMAIN live \ {own} : q \in DOMAIN m /\ m[q] = live[q]
    BY <1>4 DEF Forget
  <1>7. own \notin DOMAIN parts
    BY <1>2 DEF PartsInv
  <1>8. PartsInv(m, parts)
    BY <1>2, <1>6, <1>7, PartsFrame
  <1> QED BY <1>1, <1>4, <1>5, <1>8 DEF HeapInv

\* An object of the cache is handed out; it is not counted.
LEMMA AllocObjectKeeps ==
    ASSUME HeapInv, AllocObject
    PROVE  HeapInv'
  <1>1. PICK pg, r :
            /\ pg \in IF heap.partial[OWN] # <<>> \/ FreeRuns(Usable, heap.held, 0) = {}
                      THEN {0} ELSE FreeRuns(Usable, heap.held, 0)
            /\ r = slab_alloc(heap, OWN, pg) /\ heap' = r.h
            /\ live' = Keep(live, r, obj_size(OWN), "object")
    BY DEF AllocObject
  <1>2. own' = own /\ parts' = parts
    BY DEF AllocObject
  <1>3. /\ Sound(heap, live) /\ PartsInv(live, parts) /\ Shape(heap, live) /\ Types(heap, live)
        /\ heap.count = Cardinality(Plain(live)) /\ IsFiniteSet(DOMAIN live) /\ NULL = 0
    BY DEF HeapInv, Sound, Shape, Types, NULL
  <1>4. OWN \in Caches
    BY KheapAssumption DEF OWN, Caches
  <1>5. PICK c, x : c = OWN /\ x = [size |-> obj_size(OWN), use |-> "object"]
    OBVIOUS
  <1>6. Fits(x, c) /\ c \in Caches
    <2>1. obj_size(OWN) \in Nat \ {0}
      BY <1>4, CacheBasics
    <2> QED BY <1>4, <1>5, <2>1 DEF Fits
  <1>7. heap.partial[c] # <<>> \/ pg = 0 \/ pg \in FreeRuns(Usable, heap.held, 0)
    BY <1>1, <1>5
  <1>8. PICK m : m = IF r.ptr = NULL THEN live ELSE With(live, r.ptr, x)
    OBVIOUS
  <1>9. live' = m /\ r = slab_alloc(heap, c, pg)
    BY <1>1, <1>5, <1>8 DEF Keep
  <1>10. Shape(r.h, m) /\ r.h.count = heap.count /\ r.ptr \notin DOMAIN live
    BY <1>3, <1>6, <1>7, <1>8, <1>9, SlabAllocShape
  <1>11. \A q \in DOMAIN live : q \in DOMAIN m /\ m[q] = live[q]
    BY <1>8, <1>10 DEF With
  <1>12. Cardinality(Plain(m)) = Cardinality(Plain(live))
    <2>1. CASE r.ptr = NULL
      BY <1>8, <2>1
    <2>2. CASE r.ptr # NULL
      <3>1. PICK ptr : ptr = r.ptr
        OBVIOUS
      <3>2. Added(live, ptr, x, m) /\ ptr \notin DOMAIN live
        BY <1>3, <1>8, <1>10, <2>2, <3>1, HoldFacts
      <3>3. Cardinality(Plain(m)) = Cardinality(Plain(live)) + (IF x.use = "object" THEN 0 ELSE 1)
        BY <1>3, <3>2, PlainCount
      <3>4. x.use = "object" /\ Cardinality(Plain(live)) \in Nat
        BY <1>3, <1>5, PlainCount
      <3> QED BY <3>3, <3>4
    <2> QED BY <2>1, <2>2
  <1>13. Sound(r.h, m)
    BY <1>3, <1>10, <1>12 DEF Sound
  <1>14. PartsInv(m, parts)
    BY <1>3, <1>11, PartsFrame
  <1>15. own # NULL => own \in DOMAIN m /\ m[own].use = "cache"
    BY <1>11 DEF HeapInv
  <1> QED BY <1>1, <1>2, <1>9, <1>13, <1>14, <1>15 DEF HeapInv

\* An object of the cache is given back.
LEMMA FreeObjectKeeps ==
    ASSUME HeapInv, NEW ptr \in DOMAIN live, FreeObject(ptr)
    PROVE  HeapInv'
  <1>1. /\ live[ptr].use = "object" /\ heap' = slab_free(heap, OWN, ptr)
        /\ live' = Forget(live, ptr) /\ own' = own /\ parts' = parts
    BY DEF FreeObject, Of
  <1>2. /\ Sound(heap, live) /\ PartsInv(live, parts) /\ Shape(heap, live) /\ Types(heap, live)
        /\ heap.count = Cardinality(Plain(live)) /\ IsFiniteSet(DOMAIN live)
    BY DEF HeapInv, Sound, Shape, Types
  <1>3. PICK p, c : p = page_from_alloc_ptr(ptr) /\ c = heap.page[p].private
    OBVIOUS
  <1>4. heap.page[p].slab /\ c = OWN
    <2>1. LiveOk(heap, live, ptr)
      BY <1>2 DEF Shape, LiveInv
    <2> QED BY <1>1, <1>3, <2>1 DEF LiveOk
  <1>5. PICK g, m : g = slab_free(heap, c, ptr) /\ m = Forget(live, ptr)
    OBVIOUS
  <1>6. Shape(g, m) /\ g.count = heap.count
    BY <1>2, <1>3, <1>4, <1>5, SlabFreeShape
  <1>7. Dropped(live, ptr, m)
    BY <1>2, <1>5, HoldFacts
  <1>8. Cardinality(Plain(m)) = Cardinality(Plain(live))
    <2>1. Cardinality(Plain(m)) = Cardinality(Plain(live)) - (IF live[ptr].use = "object" THEN 0 ELSE 1)
          /\ Cardinality(Plain(live)) \in Nat
      BY <1>2, <1>7, PlainCount
    <2> QED BY <1>1, <2>1
  <1>9. Sound(g, m)
    BY <1>2, <1>6, <1>8 DEF Sound
  <1>10. \A q \in DOMAIN live \ {ptr} : q \in DOMAIN m /\ m[q] = live[q]
    BY <1>7 DEF Dropped
  <1>11. ptr \notin DOMAIN parts
    BY <1>1, <1>2 DEF PartsInv
  <1>12. PartsInv(m, parts)
    BY <1>2, <1>10, <1>11, PartsFrame
  <1>13. own # NULL => own \in DOMAIN m /\ m[own].use = "cache"
    BY <1>1, <1>10 DEF HeapInv
  <1> QED BY <1>1, <1>4, <1>5, <1>9, <1>12, <1>13 DEF HeapInv

\* sdi_alloc: the header and the bytes lie in the block.
LEMMA SdiAllocKeeps ==
    ASSUME HeapInv, NEW size \in SdiSizes, NEW align \in {0, MaxAlign, PAGE_SIZE},
           sdi_kernel_alloc(size, align)
    PROVE  HeapInv'
  <1>a. CASE UNCHANGED <<heap, live, parts>>
    BY <1>a DEF sdi_kernel_alloc, HeapInv
  <1>b. CASE ~UNCHANGED <<heap, live, parts>>
    <2>1. PICK total, pg, r :
              /\ total = SdiBlock(size, align) /\ pg \in PmmGives(heap, total)
              /\ size # 0 /\ align # 0 /\ total >= size
              /\ r = kmalloc(heap, total, pg) /\ heap' = r.h /\ live' = Keep(live, r, total, "sdi")
              /\ parts' = IF r.ptr = NULL THEN parts
                          ELSE With(parts, r.ptr, SdiParts(r.ptr, size, align))
      BY <1>b DEF sdi_kernel_alloc
    <2>2. /\ own' = own /\ size \in Nat \ {0} /\ align \in Nat \ {0} /\ SdiHdr + align <= Word
          /\ Sound(heap, live) /\ PartsInv(live, parts)
      BY <2>1, KheapAssumption, HeapAssumption DEF sdi_kernel_alloc, HeapInv
    <2>3. PICK m, ptr, x : m = Keep(live, r, total, "sdi") /\ ptr = r.ptr /\ x = SdiParts(ptr, size, align)
      OBVIOUS
    <2>4. total \in Nat
      BY <2>1, <2>2, SdiTotal
    <2>5. /\ Sound(r.h, m) /\ PartsInv(m, parts) /\ ptr \in Nat
          /\ \A q \in DOMAIN live : q \in DOMAIN m /\ m[q] = live[q]
          /\ ptr # NULL => ptr \in DOMAIN m /\ m[ptr].size = total /\ m[ptr].use = "sdi"
      <3>1. PICK use : use = "sdi"
        OBVIOUS
      <3>2. use # "object" /\ m = Keep(live, r, total, use) /\ r = kmalloc(heap, total, pg)
            /\ pg \in PmmGives(heap, total)
        BY <2>1, <2>3, <3>1
      <3>3. /\ Sound(r.h, m) /\ PartsInv(m, parts) /\ r.ptr \in Nat
            /\ \A q \in DOMAIN live : q \in DOMAIN m /\ m[q] = live[q]
            /\ r.ptr # NULL => r.ptr \in DOMAIN m /\ m[r.ptr].size = total /\ m[r.ptr].use = use
        <4>1. Sound(heap, live) /\ PartsInv(live, parts)
          BY <2>2
        <4>2. Sound(r.h, m) /\ r.ptr \in Nat /\ r.ptr \notin DOMAIN live
          BY <2>4, <3>2, <4>1, KmallocSound
        <4>3. /\ \A q \in DOMAIN live : q \in DOMAIN m /\ m[q] = live[q]
              /\ r.ptr # NULL => r.ptr \in DOMAIN m /\ m[r.ptr].size = total /\ m[r.ptr].use = use
          BY <3>2, <4>1, <4>2, KeepFrame
        <4>4. PartsInv(m, parts)
          BY <4>1, <4>3, PartsFrame
        <4> QED BY <4>2, <4>3, <4>4
      <3> QED BY <2>3, <3>1, <3>3
    <2>6. ptr # NULL => FitIn(x, ptr, total)
      <3>1. ptr # NULL => ptr + total <= Word
        BY <2>5, LiveEnds
      <3> QED BY <2>1, <2>2, <2>3, <2>5, <3>1, SdiFit
    <2>7. ptr # NULL => PartsInv(m, With(parts, ptr, x))
      BY <2>5, <2>6, PartsAdded
    <2>8. PartsInv(m, parts')
      BY <2>1, <2>3, <2>5, <2>7
    <2>9. own # NULL => own \in DOMAIN m /\ m[own].use = "cache"
      BY <2>5 DEF HeapInv
    <2> QED BY <2>1, <2>2, <2>3, <2>5, <2>8, <2>9 DEF HeapInv
  <1> QED BY <1>a, <1>b

\* sdi_free gives the block back.
LEMMA SdiFreeKeeps ==
    ASSUME HeapInv, NEW raw \in DOMAIN live, sdi_kernel_free(raw)
    PROVE  HeapInv'
  <1>a. CASE Free(raw)
    BY <1>a, FreeKeeps
  <1>b. CASE ~Free(raw)
    <2>1. /\ live[raw].use = "sdi" /\ heap' = kfree(heap, raw) /\ live' = Forget(live, raw)
          /\ own' = own /\ parts' = Forget(parts, raw)
      BY <1>b DEF sdi_kernel_free, Of
    <2>2. Sound(heap, live) /\ PartsInv(live, parts)
      BY DEF HeapInv
    <2>3. PICK g, m, ps : g = kfree(heap, raw) /\ m = Forget(live, raw) /\ ps = Forget(parts, raw)
      OBVIOUS
    <2>4. Sound(g, m)
      <3>1. live[raw].use # "object"
        BY <2>1
      <3> QED BY <2>2, <2>3, <3>1, KfreeSound
    <2>5. \A q \in DOMAIN live \ {raw} : q \in DOMAIN m /\ m[q] = live[q]
      BY <2>3 DEF Forget
    <2>6. DOMAIN ps = DOMAIN parts \ {raw} /\ \A q \in DOMAIN ps : ps[q] = parts[q]
      BY <2>3 DEF Forget
    <2>7. PartsInv(m, ps)
      <3>1. \A q \in DOMAIN ps : q \in DOMAIN parts /\ ps[q] = parts[q]
        BY <2>6
      <3>2. \A q \in DOMAIN ps : q \in DOMAIN live => q \in DOMAIN m /\ m[q] = live[q]
        BY <2>5, <2>6
      <3> QED BY <2>2, <3>1, <3>2, PartsFrame
    <2>8. own # NULL => own \in DOMAIN m /\ m[own].use = "cache"
      BY <2>1, <2>5 DEF HeapInv
    <2> QED BY <2>1, <2>3, <2>4, <2>7, <2>8 DEF HeapInv
  <1> QED BY <1>a, <1>b

\* The driver loader: two tables, then the sections in their block.
LEMMA PrepareKeeps ==
    ASSUME HeapInv, NEW image \in Images, sdi_elf_prepare_sections(image)
    PROVE  HeapInv'
  <1>0. /\ TableSize \in Nat /\ image \in Seq(Sections) /\ own' = own
        /\ Sound(heap, live) /\ PartsInv(live, parts)
    BY HeapAssumption DEF sdi_elf_prepare_sections, HeapInv
  <1>1. PICK p1, t1, p2, t2, l2 :
            /\ p1 \in PmmGives(heap, TableSize) /\ t1 = kmalloc(heap, TableSize, p1)
            /\ p2 \in PmmGives(t1.h, TableSize) /\ t2 = kmalloc(t1.h, TableSize, p2)
            /\ l2 = Keep(Keep(live, t1, TableSize, "table"), t2, TableSize, "table")
            /\ \/ heap' = t2.h /\ live' = l2 /\ parts' = parts
               \/ /\ ~Refused(image) /\ ~Layout(image).wraps
                  /\ \E total \in {Layout(image).total + Layout(image).align - 1} :
                     \E p3 \in PmmGives(t2.h, total) : \E m \in {kmalloc(t2.h, total, p3)} :
                       /\ heap' = m.h
                       /\ live' = Keep(l2, m, total, "module")
                       /\ parts' = IF m.ptr = NULL THEN parts
                                   ELSE With(parts, m.ptr, SectionParts(image, m.ptr))
    BY DEF sdi_elf_prepare_sections
  <1>2. PICK size, use, l1, h1, h2 : /\ size = TableSize /\ use = "table" /\ size \in Nat
                                     /\ l1 = Keep(live, t1, size, use)
                                     /\ h1 = t1.h /\ h2 = t2.h
    BY <1>0
  <1>3. /\ use # "object" /\ p1 \in PmmGives(heap, size) /\ t1 = kmalloc(heap, size, p1)
        /\ p2 \in PmmGives(h1, size) /\ t2 = kmalloc(h1, size, p2) /\ l2 = Keep(l1, t2, size, use)
    BY <1>1, <1>2
  <1>4. Sound(h1, l1) /\ t1.ptr \notin DOMAIN live
    BY <1>0, <1>2, <1>3, KmallocSound
  <1>5. \A q \in DOMAIN live : q \in DOMAIN l1 /\ l1[q] = live[q]
    BY <1>0, <1>2, <1>4, KeepFrame
  <1>6. Sound(h2, l2) /\ t2.ptr \notin DOMAIN l1
    BY <1>2, <1>3, <1>4, KmallocSound
  <1>7. \A q \in DOMAIN live : q \in DOMAIN l2 /\ l2[q] = live[q]
    <2>1. \A q \in DOMAIN l1 : q \in DOMAIN l2 /\ l2[q] = l1[q]
      BY <1>3, <1>4, <1>6, KeepFrame
    <2> QED BY <1>5, <2>1
  <1>8. PartsInv(l2, parts)
    BY <1>0, <1>7, PartsFrame
  <1>9. CASE heap' = t2.h /\ live' = l2 /\ parts' = parts
    <2>1. heap' = h2 /\ live' = l2 /\ parts' = parts
      BY <1>1, <1>2, <1>9
    <2>2. own # NULL => own \in DOMAIN l2 /\ l2[own].use = "cache"
      BY <1>7 DEF HeapInv
    <2> QED BY <1>0, <1>6, <1>8, <2>1, <2>2 DEF HeapInv
  <1>10. CASE ~(heap' = t2.h /\ live' = l2 /\ parts' = parts)
    <2>1. PICK total, p3, m :
              /\ total = Layout(image).total + Layout(image).align - 1
              /\ p3 \in PmmGives(h2, total) /\ m = kmalloc(h2, total, p3)
              /\ heap' = m.h /\ live' = Keep(l2, m, total, "module")
              /\ parts' = IF m.ptr = NULL THEN parts
                          ELSE With(parts, m.ptr, SectionParts(image, m.ptr))
      BY <1>1, <1>2, <1>10
    <2>2. ~Refused(image) /\ ~Layout(image).wraps
      BY <1>1, <1>10
    <2>3. total \in Nat
      <3>1. Laid(image, Layout(image), Len(image))
        BY <1>0, <2>2, LayoutLaid
      <3>2. PICK T, A : T = Layout(image).total /\ A = Layout(image).align
        OBVIOUS
      <3>3. T \in Nat /\ A \in Nat \ {0} /\ total = T + A - 1
        BY <2>1, <3>1, <3>2 DEF Laid
      <3> QED BY <3>3
    <2>4. PICK l3, g, ptr, kind, x : /\ kind = "module" /\ l3 = Keep(l2, m, total, kind)
                                     /\ g = m.h /\ ptr = m.ptr /\ x = SectionParts(image, ptr)
      OBVIOUS
    <2>5. Sound(m.h, l3) /\ m.ptr \in Nat /\ m.ptr \notin DOMAIN l2
      <3>1. kind # "object"
        BY <2>4
      <3> QED BY <1>6, <2>1, <2>3, <2>4, <3>1, KmallocSound
    <2>6. /\ \A q \in DOMAIN l2 : q \in DOMAIN l3 /\ l3[q] = l2[q]
          /\ m.ptr # NULL => m.ptr \in DOMAIN l3 /\ l3[m.ptr].size = total /\ l3[m.ptr].use = kind
      BY <1>6, <2>4, <2>5, KeepFrame
    <2>7. PartsInv(l3, parts)
      BY <1>8, <2>6, PartsFrame
    <2>8. ptr # NULL => FitIn(x, ptr, total)
      <3>1. ptr # NULL => ptr + total <= Word
        BY <2>4, <2>5, <2>6, LiveEnds
      <3> QED BY <1>0, <2>1, <2>2, <2>4, <2>5, <3>1, SectionFit
    <2>9. ptr # NULL => PartsInv(l3, With(parts, ptr, x))
      BY <2>4, <2>6, <2>7, <2>8, PartsAdded
    <2>10. PartsInv(l3, parts')
      BY <2>1, <2>4, <2>7, <2>9
    <2>11. own # NULL => own \in DOMAIN l3 /\ l3[own].use = "cache"
      BY <1>7, <2>6 DEF HeapInv
    <2>12. heap' = g /\ live' = l3
      BY <2>1, <2>4
    <2> QED BY <1>0, <2>4, <2>5, <2>10, <2>11, <2>12 DEF HeapInv
  <1> QED BY <1>9, <1>10

\* Every step of the heap's callers keeps the invariant.
LEMMA HeapInductive == HeapInv /\ [Next]_vars => HeapInv'
  <1> SUFFICES ASSUME HeapInv, [Next]_vars PROVE HeapInv'
    OBVIOUS
  <1>1. ASSUME NEW size \in Sizes, Malloc(size) PROVE HeapInv'
    BY <1>1, MallocKeeps
  <1>2. ASSUME NEW size \in Sizes, NEW ptr \in DOMAIN live, Realloc(ptr, size) PROVE HeapInv'
    BY <1>2, ReallocKeeps
  <1>3. ASSUME NEW ptr \in DOMAIN live, Free(ptr) PROVE HeapInv'
    BY <1>3, FreeKeeps
  <1>4. ASSUME NEW ptr \in DOMAIN live, FreeObject(ptr) PROVE HeapInv'
    BY <1>4, FreeObjectKeeps
  <1>5. ASSUME NEW ptr \in DOMAIN live, sdi_kernel_free(ptr) PROVE HeapInv'
    BY <1>5, SdiFreeKeeps
  <1>6. CASE slab_cache_create
    BY <1>6, CacheKeeps
  <1>7. CASE DestroyCache
    BY <1>7, DestroyKeeps
  <1>8. CASE AllocObject
    BY <1>8, AllocObjectKeeps
  <1>9. ASSUME NEW size \in SdiSizes, NEW align \in {0, MaxAlign, PAGE_SIZE},
               sdi_kernel_alloc(size, align)
        PROVE  HeapInv'
    BY <1>9, SdiAllocKeeps
  <1>10. ASSUME NEW image \in Images, sdi_elf_prepare_sections(image) PROVE HeapInv'
    BY <1>10, PrepareKeeps
  <1>11. CASE UNCHANGED vars
    BY <1>11 DEF vars, HeapInv
  <1> QED BY <1>1, <1>2, <1>3, <1>4, <1>5, <1>6, <1>7, <1>8, <1>9, <1>10, <1>11 DEF Next

\* The heap always has its shape: the inductive invariant of the heap in use.
THEOREM HeapInvariant == Spec => []HeapInv
  <1>1. Init => HeapInv
    BY HeapInit
  <1>2. HeapInv /\ [Next]_vars => HeapInv'
    BY HeapInductive
  <1> QED BY <1>1, <1>2, PTL DEF Spec

-----------------------------------------------------------------------------
(* What the invariant says of the heap.                                    *)

\* The ranges that the clients of the heap use.
LEMMA FitFromInv == HeapInv => UsersFit
  BY DEF HeapInv, PartsInv, FitIn, UsersFit

\* What sdi_kernel_alloc hands to a driver and the sections of a loaded driver
\* lie in the memory that kmalloc gave, aligned and apart from one another,
\* whatever the size, the alignment and the section table: where the checks for
\* wrapped sums refuse, and where they accept and no unchecked sum wraps.
THEOREM HeapUsersFit == Spec => []UsersFit
  BY HeapInvariant, FitFromInv, PTL

\* kfree and krealloc recognise the pointers in use.
LEMMA PointersKnown ==
    ASSUME HeapInv, NEW q \in DOMAIN live
    PROVE  /\ page_from_alloc_ptr(q) \in DOMAIN heap.held /\ page_from_alloc_ptr(q) \in Usable
           /\ ~BadPointer(heap, q)
           /\ ~heap.page[page_from_alloc_ptr(q)].slab => IsLarge(heap, q)
  <1>1. Types(heap, live) /\ LiveOk(heap, live, q) /\ SlabInv(heap, live)
    BY DEF HeapInv, Sound, Shape, LiveInv
  <1>2. PICK p : p = page_from_alloc_ptr(q)
    OBVIOUS
  <1>3. p \in DOMAIN heap.held /\ p \in Usable
    BY <1>1, <1>2 DEF Types, LiveOk
  <1>4. heap.page[p].slab => heap.page[p].private \in Caches
    BY <1>1, <1>3 DEF SlabInv, SlabOk
  <1>5. ~heap.page[p].slab => IsLarge(heap, q)
    BY <1>1, <1>2 DEF LiveOk, IsLarge
  <1> QED BY <1>2, <1>3, <1>4, <1>5 DEF BadPointer

\* The blocks of the page allocator and the totals of the heap.
LEMMA AccountsFromInv ==
    ASSUME HeapInv
    PROVE  Accounted
  <1>1. /\ Types(heap, live) /\ SlabInv(heap, live) /\ LargeInv(heap, live) /\ LiveInv(heap, live)
        /\ heap.count = Cardinality(Plain(live))
    BY DEF HeapInv, Sound, Shape
  <1>2. PICK L : L = {page_from_alloc_ptr(p) : p \in {q \in DOMAIN live : IsLarge(heap, q)}}
    OBVIOUS
  <1>3. DOMAIN heap.held \subseteq Usable /\ Usable \subseteq Nat \ {0}
    BY <1>1, KheapAssumption DEF Types
  <1>4. ASSUME NEW p \in DOMAIN heap.held, ~heap.page[p].slab
        PROVE  p \in L
    <2>1. LargeOk(heap, live, p)
      BY <1>1, <1>3, <1>4 DEF LargeInv
    <2>2. PICK q : q = p * PAGE_SIZE + LargeHdr
      OBVIOUS
    <2>3. q \in DOMAIN live /\ page_from_alloc_ptr(q) = p
      BY <1>3, <2>1, <2>2, LargePointer DEF LargeOk
    <2>4. IsLarge(heap, q)
      BY <1>4, <2>3, PointersKnown
    <2> QED BY <1>2, <2>3, <2>4
  <1>5. SlabPages \subseteq DOMAIN heap.held
    BY <1>1 DEF SlabPages, SlabInv, SlabOk
  <1>6. L \subseteq DOMAIN heap.held
    BY <1>2, PointersKnown
  <1>7. DOMAIN heap.held \subseteq SlabPages \cup L
    BY <1>3, <1>4 DEF SlabPages
  <1>8. DOMAIN heap.held = SlabPages \cup L
    BY <1>5, <1>6, <1>7
  <1>9. Plain(live) = DOMAIN live \ Of("object")
    BY DEF Plain, Of
  <1> QED BY <1>1, <1>2, <1>8, <1>9, PointersKnown DEF Accounted

\* kfree never takes a live pointer for something else, whatever its page was
\* before; no page is leaked by a slab or a large block that is gone; and the
\* totals of kheap.c count the allocations that are live.
THEOREM HeapAccounted == Spec => []Accounted
  <1>1. HeapInv => Accounted
    BY AccountsFromInv
  <1> QED BY <1>1, HeapInvariant, PTL

\* The two lists of a cache in one.
LEMMA MembersJoined ==
    ASSUME NEW S, NEW a \in Seq(S), NEW b \in Seq(S)
    PROVE  /\ Members(a \o b) = Members(a) \cup Members(b)
           /\ Unique(a) /\ Unique(b) /\ Members(a) \cap Members(b) = {} => Unique(a \o b)
  <1>1. PICK r : r = a \o b
    OBVIOUS
  <1>2. PICK n \in Nat, m \in Nat : n = Len(a) /\ m = Len(b)
    OBVIOUS
  <1>3. /\ DOMAIN a = 1..n /\ DOMAIN b = 1..m /\ DOMAIN r = 1..(n + m)
        /\ \A i \in 1..n : r[i] = a[i]
        /\ \A i \in 1..(n + m) : i > n => r[i] = b[i - n]
    BY <1>1, <1>2
  <1>4. \A i \in 1..(n + m) : i > n => i - n \in 1..m
    OBVIOUS
  <1>5. Members(r) \subseteq Members(a) \cup Members(b)
    BY <1>3, <1>4 DEF Members
  <1>6. Members(a) \subseteq Members(r)
    BY <1>3 DEF Members
  <1>7. Members(b) \subseteq Members(r)
    <2> SUFFICES ASSUME NEW i \in 1..m PROVE b[i] \in Members(r)
      BY <1>3 DEF Members
    <2>1. PICK k \in 1..(n + m) : k = i + n /\ k > n /\ k - n = i
      OBVIOUS
    <2>2. r[k] = b[i]
      BY <1>3, <2>1
    <2> QED BY <1>3, <2>2 DEF Members
  <1>8. ASSUME Unique(a), Unique(b), Members(a) \cap Members(b) = {}
        PROVE  Unique(r)
    <2> SUFFICES ASSUME NEW i \in 1..(n + m), NEW j \in 1..(n + m), r[i] = r[j]
                 PROVE  i = j
      BY <1>3 DEF Unique
    <2>1. \A k \in 1..(n + m) : k <= n => r[k] \in Members(a)
      BY <1>3 DEF Members
    <2>2. \A k \in 1..(n + m) : k > n => r[k] \in Members(b)
      BY <1>3, <1>4 DEF Members
    <2>3. CASE i <= n /\ j <= n
      <3>1. a[i] = a[j] /\ i \in DOMAIN a /\ j \in DOMAIN a
        BY <1>3, <2>3
      <3> QED BY <1>8, <3>1 DEF Unique
    <2>4. CASE i > n /\ j > n
      <3>1. b[i - n] = b[j - n] /\ i - n \in DOMAIN b /\ j - n \in DOMAIN b
        BY <1>3, <1>4, <2>4
      <3>2. i - n = j - n
        BY <1>8, <3>1 DEF Unique
      <3> QED BY <3>2
    <2>5. (i <= n) = (j <= n)
      BY <1>8, <2>1, <2>2
    <2> QED BY <2>3, <2>4, <2>5
  <1> QED BY <1>1, <1>5, <1>6, <1>7, <1>8

\* The slabs and their lists.
LEMMA SlabsFromInv ==
    ASSUME HeapInv
    PROVE  SlabsSound
  <1>1. Types(heap, live) /\ ListInv(heap) /\ SlabInv(heap, live)
    BY DEF HeapInv, Sound, Shape
  <1> SUFFICES ASSUME NEW c \in Caches
               PROVE
       /\ Unique(heap.partial[c] \o heap.full[c])
       /\ {p \in SlabPages : CacheOf(p) = c} = Members(heap.partial[c] \o heap.full[c])
       /\ \A i \in DOMAIN heap.partial[c] : heap.page[heap.partial[c][i]].freelist # <<>>
       /\ \A i \in DOMAIN heap.full[c] : heap.page[heap.full[c][i]].freelist = <<>>
       /\ \A p \in Members(heap.partial[c] \o heap.full[c]) :
             /\ heap.page[p].inuse = Cardinality({q \in DOMAIN live : page_from_alloc_ptr(q) = p})
             /\ heap.page[p].inuse + Len(heap.page[p].freelist) = Len(Slots(c, p))
    BY DEF SlabsSound
  <1>2. PICK a, b, J : a = heap.partial[c] /\ b = heap.full[c] /\ J = heap.partial[c] \o heap.full[c]
    OBVIOUS
  <1>3. /\ a \in Seq(Usable) /\ b \in Seq(Usable) /\ Unique(a) /\ Unique(b)
        /\ \A p \in Usable :
              /\ p \in Members(a) <=>
                    heap.page[p].slab /\ heap.page[p].private = c /\ heap.page[p].freelist # <<>>
              /\ p \in Members(b) <=>
                    heap.page[p].slab /\ heap.page[p].private = c /\ heap.page[p].freelist = <<>>
    BY <1>1, <1>2 DEF Types, ListInv
  <1>4. Members(a) \subseteq Usable /\ Members(b) \subseteq Usable
    BY <1>3, MembersBasics
  <1>5. Members(a) \cap Members(b) = {}
    BY <1>3, <1>4
  <1>6. Members(J) = Members(a) \cup Members(b) /\ Unique(J)
    BY <1>2, <1>3, <1>5, MembersJoined
  <1>7. {p \in SlabPages : CacheOf(p) = c} = Members(J)
    BY <1>3, <1>4, <1>6 DEF SlabPages, CacheOf
  <1>8. /\ \A i \in DOMAIN a : heap.page[a[i]].freelist # <<>>
        /\ \A i \in DOMAIN b : heap.page[b[i]].freelist = <<>>
    <2>1. /\ \A i \in DOMAIN a : a[i] \in Members(a)
          /\ \A i \in DOMAIN b : b[i] \in Members(b)
      BY DEF Members
    <2> QED BY <1>3, <1>4, <2>1
  <1>9. ASSUME NEW p \in Members(J)
        PROVE  /\ heap.page[p].inuse = Cardinality({q \in DOMAIN live : page_from_alloc_ptr(q) = p})
               /\ heap.page[p].inuse + Len(heap.page[p].freelist) = Len(Slots(c, p))
    <2>1. p \in Usable /\ heap.page[p].slab /\ heap.page[p].private = c
      BY <1>3, <1>4, <1>6, <1>9
    <2>2. SlabOk(heap, live, p)
      BY <1>1, <2>1 DEF SlabInv
    <2> QED BY <2>1, <2>2 DEF SlabOk, LiveOn
  <1> QED BY <1>2, <1>6, <1>7, <1>8, <1>9

\* A slab with a free object is never off the partial list and one without is
\* never on it, over any sequence of allocations and frees; the count by which
\* slab_free would judge a slab is that of its objects in use.
THEOREM HeapSlabsSound == Spec => []SlabsSound
  <1>1. HeapInv => SlabsSound
    BY SlabsFromInv
  <1> QED BY <1>1, HeapInvariant, PTL

\* The n units from a lie in the block of page p.
InBlock(a, n, p) ==
    /\ p \in DOMAIN heap.held /\ a \in Nat /\ n \in Nat
    /\ p * PAGE_SIZE <= a /\ a + n <= (p + 2^heap.held[p].order) * PAGE_SIZE

\* All that the heap has set aside for the pointer q, its old_size in krealloc.
Room(q) == LET p == page_from_alloc_ptr(q)
           IN  IF heap.page[p].slab THEN obj_size(heap.page[p].private) ELSE heap.page[p].size

\* One range ends before the other starts.
Apart(a, n, b, m) == a + n <= b \/ b + m <= a

\* A block of pages in memory.
LEMMA BlockBounds ==
    ASSUME HeapInv, NEW p \in DOMAIN heap.held
    PROVE  /\ p \in Usable /\ p \in Nat \ {0} /\ PAGE_SIZE \in Nat \ {0}
           /\ heap.held[p].order \in Nat /\ 2^heap.held[p].order \in Nat \ {0}
           /\ p * PAGE_SIZE \in Nat
           /\ (p + 2^heap.held[p].order) * PAGE_SIZE
                 = p * PAGE_SIZE + PAGE_SIZE * 2^heap.held[p].order
           /\ PAGE_SIZE <= PAGE_SIZE * 2^heap.held[p].order
           /\ PAGE_SIZE * 2^heap.held[p].order \in Nat
  <1>1. Types(heap, live)
    BY DEF HeapInv, Sound, Shape
  <1>2. p \in Usable /\ heap.held[p] \in BlockSet
    BY <1>1 DEF Types
  <1>3. p \in Nat \ {0} /\ PAGE_SIZE \in Nat \ {0} /\ heap.held[p].order \in Nat
    BY <1>2, KheapAssumption DEF BlockSet
  <1>4. PICK e \in Nat \ {0} : e = 2^heap.held[p].order
    BY <1>3, PowerStep
  <1>5. PICK n \in Nat \ {0} : n = PAGE_SIZE
    BY <1>3
  <1>6. (p + e) * n = p * n + e * n /\ e * n = n * e /\ n * e \in Nat /\ p * n \in Nat
    BY <1>3, <1>4, <1>5, MultipleOrder
  <1>7. n <= n * e
    <2>1. 1 * n <= e * n
      BY <1>4, <1>5, MultipleOrder
    <2>2. 1 * n = n
      OBVIOUS
    <2> QED BY <1>6, <2>1, <2>2
  <1> QED BY <1>2, <1>3, <1>4, <1>5, <1>6, <1>7

\* Ranges in two blocks are apart.
LEMMA BlocksApart ==
    ASSUME HeapInv, NEW a, NEW n, NEW p, NEW b, NEW m, NEW s,
           InBlock(a, n, p), InBlock(b, m, s), p # s
    PROVE  Apart(a, n, b, m)
  <1>1. p \in DOMAIN heap.held /\ s \in DOMAIN heap.held /\ HeldInv(heap.held)
    BY DEF HeapInv, Sound, Shape, InBlock
  <1>2. PICK u, v : u = 2^heap.held[p].order /\ v = 2^heap.held[s].order
    OBVIOUS
  <1>3. /\ p \in Nat /\ s \in Nat /\ u \in Nat \ {0} /\ v \in Nat \ {0} /\ PAGE_SIZE \in Nat \ {0}
        /\ heap.held[p].order \in Nat /\ heap.held[s].order \in Nat
    BY <1>1, <1>2, BlockBounds
  <1>4. (p..(p + u - 1)) \cap (s..(s + v - 1)) = {}
    BY <1>1, <1>2 DEF HeldInv, Run
  <1>5. p + u <= s \/ s + v <= p
    <2>1. CASE p <= s
      <3>1. s \in s..(s + v - 1) /\ s \notin p..(p + u - 1)
        BY <1>3, <1>4
      <3> QED BY <1>3, <2>1, <3>1
    <2>2. CASE s < p
      <3>1. p \in p..(p + u - 1) /\ p \notin s..(s + v - 1)
        BY <1>3, <1>4
      <3> QED BY <1>3, <2>2, <3>1
    <2> QED BY <1>3, <2>1, <2>2
  <1>6. /\ a \in Nat /\ n \in Nat /\ b \in Nat /\ m \in Nat
        /\ p * PAGE_SIZE <= a /\ a + n <= (p + u) * PAGE_SIZE
        /\ s * PAGE_SIZE <= b /\ b + m <= (s + v) * PAGE_SIZE
    BY <1>2 DEF InBlock
  <1>7. PICK x \in Nat, y \in Nat : x = p + u /\ y = s + v
    BY <1>3
  <1>8. PICK X \in Nat, Y \in Nat, P \in Nat, S \in Nat :
            X = x * PAGE_SIZE /\ Y = y * PAGE_SIZE /\ P = p * PAGE_SIZE /\ S = s * PAGE_SIZE
    BY <1>3, <1>7
  <1>9. (x <= s => X <= S) /\ (y <= p => Y <= P)
    BY <1>3, <1>7, <1>8, MultipleOrder
  <1>10. P <= a /\ a + n <= X /\ S <= b /\ b + m <= Y
    BY <1>6, <1>7, <1>8
  <1> QED BY <1>5, <1>6, <1>7, <1>9, <1>10 DEF Apart

\* Where a pointer in use is, and what is set aside for it.
LEMMA LivePlace ==
    ASSUME HeapInv, NEW q \in DOMAIN live, NEW p, p = page_from_alloc_ptr(q)
    PROVE  /\ InBlock(q, Room(q), p) /\ q \in Nat
           /\ live[q].size \in Nat \ {0} /\ Room(q) \in Nat /\ live[q].size <= Room(q)
           /\ heap.page[p].slab =>
                 /\ heap.page[p].private \in Caches
                 /\ q \in Objects(heap.page[p].private, p) /\ p * PAGE_SIZE + SlabHdr <= q
                 /\ q \notin Members(heap.page[p].freelist)
                 /\ Room(q) = obj_size(heap.page[p].private)
           /\ ~heap.page[p].slab => q = p * PAGE_SIZE + LargeHdr
  <1>1. Types(heap, live) /\ LiveOk(heap, live, q) /\ SlabInv(heap, live)
    BY DEF HeapInv, Sound, Shape, LiveInv
  <1>2. live[q].size \in Nat \ {0} /\ q \in Nat /\ p \in DOMAIN heap.held
    BY <1>1 DEF Types, LiveOk
  <1>3. PICK e : e = PAGE_SIZE * 2^heap.held[p].order
    OBVIOUS
  <1>4. /\ p \in Usable /\ p \in Nat \ {0} /\ PAGE_SIZE \in Nat \ {0} /\ p * PAGE_SIZE \in Nat
        /\ (p + 2^heap.held[p].order) * PAGE_SIZE = p * PAGE_SIZE + e /\ PAGE_SIZE <= e /\ e \in Nat
    BY <1>2, <1>3, BlockBounds
  <1>5. CASE heap.page[p].slab
    <2>1. PICK c, s : c = heap.page[p].private /\ s = obj_size(c)
      OBVIOUS
    <2>2. SlabOk(heap, live, p) /\ Room(q) = s /\ live[q].size <= s
      BY <1>1, <1>4, <1>5, <2>1 DEF SlabInv, Room, LiveOk
    <2>3. c \in Caches /\ LiveOn(live, p) = Objects(c, p) \ Members(heap.page[p].freelist)
      BY <2>1, <2>2 DEF SlabOk
    <2>4. q \in LiveOn(live, p)
      BY DEF LiveOn
    <2>5. q \in Objects(c, p) /\ q \notin Members(heap.page[p].freelist)
      BY <2>3, <2>4
    <2>6. p * PAGE_SIZE + SlabHdr <= q /\ q + s <= p * PAGE_SIZE + PAGE_SIZE
      BY <1>4, <2>1, <2>3, <2>5, SlotFacts
    <2>7. s \in Nat /\ SlabHdr \in Nat
      BY <2>1, <2>3, CacheBasics
    <2>8. PICK P \in Nat : P = p * PAGE_SIZE
      BY <1>4
    <2>9. p * PAGE_SIZE <= q /\ q + s <= (p + 2^heap.held[p].order) * PAGE_SIZE
      <3>1. P <= q /\ q + s <= P + e
        BY <1>2, <1>4, <2>6, <2>7, <2>8
      <3> QED BY <1>4, <2>8, <3>1
    <2>10. InBlock(q, s, p)
      BY <1>2, <2>7, <2>9 DEF InBlock
    <2> QED BY <1>2, <1>5, <2>1, <2>2, <2>3, <2>5, <2>6, <2>7, <2>10
  <1>6. CASE ~heap.page[p].slab
    <2>1. /\ q = p * PAGE_SIZE + LargeHdr /\ heap.page[p].size = live[q].size
          /\ live[q].size + LargeHdr <= e
      BY <1>1, <1>3, <1>6 DEF LiveOk
    <2>2. PICK s : s = live[q].size
      OBVIOUS
    <2>3. Room(q) = s /\ s \in Nat \ {0} /\ LargeHdr \in Nat
      BY <1>2, <1>6, <2>1, <2>2, KheapAssumption DEF Room
    <2>4. PICK P \in Nat : P = p * PAGE_SIZE
      BY <1>4
    <2>5. p * PAGE_SIZE <= q /\ q + s <= (p + 2^heap.held[p].order) * PAGE_SIZE
      <3>1. q = P + LargeHdr /\ s + LargeHdr <= e
        BY <2>1, <2>2, <2>4
      <3>2. P <= q /\ q + s <= P + e
        BY <1>4, <2>3, <3>1
      <3> QED BY <1>4, <2>4, <3>2
    <2>6. InBlock(q, s, p)
      BY <1>2, <2>3, <2>5 DEF InBlock
    <2> QED BY <1>2, <1>6, <2>1, <2>2, <2>3, <2>6
  <1> QED BY <1>5, <1>6

\* What is set aside for two pointers.
LEMMA LiveApart ==
    ASSUME HeapInv, NEW q \in DOMAIN live, NEW r \in DOMAIN live, q # r
    PROVE  Apart(q, Room(q), r, Room(r))
  <1>1. PICK p, s : p = page_from_alloc_ptr(q) /\ s = page_from_alloc_ptr(r)
    OBVIOUS
  <1>2. InBlock(q, Room(q), p) /\ InBlock(r, Room(r), s)
    BY <1>1, LivePlace
  <1>3. CASE p # s
    BY <1>2, <1>3, BlocksApart
  <1>4. CASE p = s /\ heap.page[p].slab
    <2>1. PICK c : c = heap.page[p].private
      OBVIOUS
    <2>2. /\ c \in Caches /\ q \in Objects(c, p) /\ r \in Objects(c, p)
          /\ Room(q) = obj_size(c) /\ Room(r) = obj_size(c)
      BY <1>1, <1>4, <2>1, LivePlace
    <2>3. p \in Nat \ {0}
      BY <1>2, BlockBounds DEF InBlock
    <2> QED BY <2>2, <2>3, SlotFacts DEF Apart
  <1>5. CASE p = s /\ ~heap.page[p].slab
    BY <1>1, <1>5, LivePlace
  <1> QED BY <1>3, <1>4, <1>5

\* ... and for a pointer and the header of a slab.
LEMMA SlabHeaderApart ==
    ASSUME HeapInv, NEW q \in DOMAIN live, NEW s \in SlabPages
    PROVE  Apart(q, Room(q), s * PAGE_SIZE, SlabHdr) /\ s * PAGE_SIZE \in Nat /\ SlabHdr \in Nat
  <1>1. s \in Usable /\ heap.page[s].slab /\ SlabInv(heap, live)
    BY DEF SlabPages, HeapInv, Sound, Shape
  <1>2. PICK c : c = heap.page[s].private
    OBVIOUS
  <1>3. c \in Caches /\ s \in DOMAIN heap.held
    BY <1>1, <1>2 DEF SlabInv, SlabOk
  <1>4. PICK P, e : P = s * PAGE_SIZE /\ e = PAGE_SIZE * 2^heap.held[s].order
    OBVIOUS
  <1>5. /\ P \in Nat /\ e \in Nat /\ PAGE_SIZE \in Nat /\ PAGE_SIZE <= e
        /\ (s + 2^heap.held[s].order) * PAGE_SIZE = P + e
    BY <1>3, <1>4, BlockBounds
  <1>6. SlabHdr \in Nat /\ SlabHdr <= PAGE_SIZE
    BY <1>3, CacheBasics
  <1>7. P + SlabHdr <= P + e
    BY <1>5, <1>6
  <1>8. InBlock(P, SlabHdr, s)
    BY <1>3, <1>4, <1>5, <1>6, <1>7 DEF InBlock
  <1>9. PICK p : p = page_from_alloc_ptr(q)
    OBVIOUS
  <1>10. InBlock(q, Room(q), p) /\ (p = s => P + SlabHdr <= q)
    BY <1>1, <1>4, <1>9, LivePlace
  <1>11. Apart(q, Room(q), P, SlabHdr)
    <2>1. CASE p # s
      BY <1>8, <1>10, <2>1, BlocksApart
    <2>2. CASE p = s
      BY <1>10, <2>2 DEF Apart
    <2> QED BY <2>1, <2>2
  <1> QED BY <1>4, <1>5, <1>6, <1>11

\* ... or that of a large block,
LEMMA LargeHeaderApart ==
    ASSUME HeapInv, NEW q \in DOMAIN live, NEW s \in LargeHeads
    PROVE  Apart(q, Room(q), s * PAGE_SIZE, LargeHdr) /\ s * PAGE_SIZE \in Nat /\ LargeHdr \in Nat
  <1>1. s \in Usable /\ ~heap.page[s].slab /\ heap.page[s].private = LARGE /\ LargeInv(heap, live)
    BY DEF LargeHeads, HeapInv, Sound, Shape
  <1>2. s \in DOMAIN heap.held
    BY <1>1 DEF LargeInv, LargeOk
  <1>3. PICK P, e : P = s * PAGE_SIZE /\ e = PAGE_SIZE * 2^heap.held[s].order
    OBVIOUS
  <1>4. /\ P \in Nat /\ e \in Nat /\ PAGE_SIZE \in Nat /\ PAGE_SIZE <= e
        /\ (s + 2^heap.held[s].order) * PAGE_SIZE = P + e
    BY <1>2, <1>3, BlockBounds
  <1>5. LargeHdr \in Nat /\ LargeHdr < PAGE_SIZE
    BY KheapAssumption
  <1>6. P + LargeHdr <= P + e
    BY <1>4, <1>5
  <1>7. InBlock(P, LargeHdr, s)
    BY <1>2, <1>3, <1>4, <1>5, <1>6 DEF InBlock
  <1>8. PICK p : p = page_from_alloc_ptr(q)
    OBVIOUS
  <1>9. InBlock(q, Room(q), p) /\ (p = s => q = P + LargeHdr)
    BY <1>1, <1>3, <1>8, LivePlace
  <1>10. Apart(q, Room(q), P, LargeHdr)
    <2>1. CASE p # s
      BY <1>7, <1>9, <2>1, BlocksApart
    <2>2. CASE p = s
      BY <1>4, <1>5, <1>9, <2>2 DEF Apart
    <2> QED BY <2>1, <2>2
  <1> QED BY <1>3, <1>4, <1>5, <1>10

\* ... or a free object.
LEMMA FreeApart ==
    ASSUME HeapInv, NEW q \in DOMAIN live, NEW s \in SlabPages,
           NEW i \in DOMAIN heap.page[s].freelist, NEW x, x = heap.page[s].freelist[i],
           NEW n, n = obj_size(CacheOf(s))
    PROVE  Apart(q, Room(q), x, n) /\ x \in Nat /\ n \in Nat
  <1>1. s \in Usable /\ heap.page[s].slab /\ SlabInv(heap, live)
    BY DEF SlabPages, HeapInv, Sound, Shape
  <1>2. PICK c : c = heap.page[s].private
    OBVIOUS
  <1>3. /\ c \in Caches /\ s \in DOMAIN heap.held
        /\ Members(heap.page[s].freelist) \subseteq Objects(c, s)
    BY <1>1, <1>2 DEF SlabInv, SlabOk
  <1>4. x \in Members(heap.page[s].freelist) /\ n = obj_size(c)
    BY <1>2 DEF Members, CacheOf
  <1>5. PICK P, e : P = s * PAGE_SIZE /\ e = PAGE_SIZE * 2^heap.held[s].order
    OBVIOUS
  <1>6. /\ P \in Nat /\ e \in Nat /\ PAGE_SIZE \in Nat /\ PAGE_SIZE <= e /\ s \in Nat \ {0}
        /\ (s + 2^heap.held[s].order) * PAGE_SIZE = P + e
    BY <1>3, <1>5, BlockBounds
  <1>7. n \in Nat /\ SlabHdr \in Nat
    BY <1>3, <1>4, CacheBasics
  <1>8. x \in Nat /\ P + SlabHdr <= x /\ x + n <= P + PAGE_SIZE
    BY <1>3, <1>4, <1>5, <1>6, SlotFacts
  <1>9. P <= x /\ x + n <= P + e
    BY <1>6, <1>7, <1>8
  <1>10. InBlock(x, n, s)
    BY <1>3, <1>5, <1>6, <1>7, <1>8, <1>9 DEF InBlock
  <1>11. PICK p : p = page_from_alloc_ptr(q)
    OBVIOUS
  <1>12. InBlock(q, Room(q), p)
    BY <1>11, LivePlace
  <1>13. CASE p # s
    BY <1>7, <1>8, <1>10, <1>12, <1>13, BlocksApart
  <1>14. CASE p = s
    <2>1. q \in Objects(c, s) /\ q \notin Members(heap.page[s].freelist) /\ Room(q) = n
      BY <1>1, <1>2, <1>4, <1>11, <1>14, LivePlace
    <2>2. q # x /\ x \in Objects(c, s)
      BY <1>3, <1>4, <2>1
    <2>3. q + obj_size(c) <= x \/ x + obj_size(c) <= q
      BY <1>3, <1>6, <2>1, <2>2, SlotFacts
    <2> QED BY <1>4, <1>7, <1>8, <2>1, <2>3 DEF Apart
  <1> QED BY <1>13, <1>14

\* Ranges that are apart have no unit in common, nor have their beginnings.
LEMMA ApartSpans ==
    ASSUME NEW a \in Nat, NEW n \in Nat, NEW b \in Nat, NEW m \in Nat, Apart(a, n, b, m),
           NEW k \in Nat, k <= n, NEW j \in Nat, j <= m
    PROVE  Span(a, k) \cap Span(b, j) = {}
  <1>1. a + k <= b \/ b + j <= a
    BY DEF Apart
  <1> QED BY <1>1, SpanFacts

\* The allocations, the headers, the free objects and what krealloc copies.
LEMMA DisjointFromInv ==
    ASSUME HeapInv
    PROVE  Disjoint
  <1>1. ASSUME NEW q \in DOMAIN live
        PROVE  q \in Nat /\ live[q].size \in Nat /\ Room(q) \in Nat /\ live[q].size <= Room(q)
    <2>1. PICK p : p = page_from_alloc_ptr(q)
      OBVIOUS
    <2> QED BY <2>1, LivePlace
  <1>2. ASSUME NEW p \in DOMAIN live, NEW q \in DOMAIN live, p # q, NEW k \in Nat, k <= Room(p)
        PROVE  Span(p, k) \cap Span(q, live[q].size) = {}
    BY <1>1, <1>2, LiveApart, ApartSpans
  <1>3. \A p, q \in DOMAIN live : p # q => Span(p, live[p].size) \cap Span(q, live[q].size) = {}
    BY <1>1, <1>2
  <1>4. ASSUME NEW p \in DOMAIN live, NEW s \in SlabPages
        PROVE  Span(p, live[p].size) \cap Span(s * PAGE_SIZE, SlabHdr) = {}
    <2>1. PICK b, m : b = s * PAGE_SIZE /\ m = SlabHdr
      OBVIOUS
    <2>2. Apart(p, Room(p), b, m) /\ b \in Nat /\ m \in Nat
      BY <2>1, SlabHeaderApart
    <2>3. m <= m
      BY <2>2
    <2>4. Span(p, live[p].size) \cap Span(b, m) = {}
      BY <1>1, <2>2, <2>3, ApartSpans
    <2> QED BY <2>1, <2>4
  <1>5. ASSUME NEW p \in DOMAIN live, NEW s \in LargeHeads
        PROVE  Span(p, live[p].size) \cap Span(s * PAGE_SIZE, LargeHdr) = {}
    <2>1. PICK b, m : b = s * PAGE_SIZE /\ m = LargeHdr
      OBVIOUS
    <2>2. Apart(p, Room(p), b, m) /\ b \in Nat /\ m \in Nat
      BY <2>1, LargeHeaderApart
    <2>3. m <= m
      BY <2>2
    <2>4. Span(p, live[p].size) \cap Span(b, m) = {}
      BY <1>1, <2>2, <2>3, ApartSpans
    <2> QED BY <2>1, <2>4
  <1>6. ASSUME NEW p \in DOMAIN live, NEW s \in SlabPages, NEW i \in DOMAIN heap.page[s].freelist
        PROVE  Span(p, live[p].size) \cap Span(heap.page[s].freelist[i], obj_size(CacheOf(s))) = {}
    <2>1. PICK b, m : b = heap.page[s].freelist[i] /\ m = obj_size(CacheOf(s))
      OBVIOUS
    <2>2. Apart(p, Room(p), b, m) /\ b \in Nat /\ m \in Nat
      BY <2>1, FreeApart
    <2>3. m <= m
      BY <2>2
    <2>4. Span(p, live[p].size) \cap Span(b, m) = {}
      BY <1>1, <2>2, <2>3, ApartSpans
    <2> QED BY <2>1, <2>4
  <1>7. ASSUME NEW p \in DOMAIN live, NEW n \in Sizes \ {0}, NEW copied, copied = CopySize(heap, p, n)
        PROVE  /\ copied <= n /\ (copied >= n \/ copied >= live[p].size)
               /\ Span(p, copied) \cap UNION {Span(q, live[q].size) : q \in DOMAIN live \ {p}} = {}
    <2>1. copied = IF Room(p) < n THEN Room(p) ELSE n
      BY <1>7 DEF CopySize, Room
    <2>2. PICK z \in Nat, s \in Nat : z = Room(p) /\ s = live[p].size /\ s <= z
      BY <1>1
    <2>3. n \in Nat
      BY HeapAssumption
    <2>4. copied \in Nat /\ copied <= z /\ copied <= n /\ (copied >= n \/ copied >= s)
      BY <2>1, <2>2, <2>3
    <2>5. \A q \in DOMAIN live \ {p} : Span(p, copied) \cap Span(q, live[q].size) = {}
      BY <1>2, <2>2, <2>4
    <2> QED BY <2>2, <2>4, <2>5
  <1> QED BY <1>3, <1>4, <1>5, <1>6, <1>7 DEF Disjoint

\* No two allocations overlap, nor do they touch the header of a slab or of a
\* large block or the link in a free object; and krealloc copies neither more
\* than the old block has nor less than its caller had.
THEOREM HeapDisjoint == Spec => []Disjoint
  <1>1. HeapInv => Disjoint
    BY DisjointFromInv
  <1> QED BY <1>1, HeapInvariant, PTL
=============================================================================
