----------------------------- MODULE PmmProofs -----------------------------
(***************************************************************************)
(* Proofs about Pmm.tla for any size of memory, any memory maps and any    *)
(* number of orders.                                                       *)
(***************************************************************************)
EXTENDS Pmm, ProofFacts

\* What a set of blocks B has to be like to divide the pages of S.
BlockSet == [pfn : Nat, order : Nat, by : {"list", "caller", "call"}]
Tiles(B, S) ==
    /\ B \subseteq BlockSet
    /\ \A b \in B : b.pfn % 2^b.order = 0 /\ Pages(b) \subseteq S
    /\ S \subseteq Covered(B)
    /\ \A b, c \in B : Pages(b) \cap Pages(c) # {} => b = c

\* The memory that pmm_init has reached.
Reached == {q \in Pfns : q < boot /\ ~page[q].reserved}

\* Blocks that no caller holds.
Spare == FreeBlocks \cup HandBlocks

PageType == [free : BOOLEAN, used : BOOLEAN, reserved : BOOLEAN, order : Orders, ref : Int]
HandType == [op : {"none", "free", "alloc"}, pfn : Pfns, order : Orders, want : Orders]

Types ==
    /\ page \in [Pfns -> PageType]
    /\ lists \in [Orders -> Seq(Pfns)] /\ \A o \in Orders : Unique(lists[o])
    /\ boot \in 0..(MaxPfn + 1)
    /\ hand \in HandType
    /\ hand.op = "none" <=> hand = NoBlock
    /\ hand.op = "alloc" => hand.want <= hand.order
    /\ DOMAIN owned \subseteq Pfns /\ owned \in [DOMAIN owned -> Nat \ {0}]
    /\ stale = {} /\ panic = FALSE

\* What the flags say: the head of a block on a list is marked, with its
\* order; a mark on any other page is inside a block that is not held; a page
\* that pmm_init has not reached is as pfndb_init left it.
HeadInv  == \A o \in Orders : \A p \in Members(lists[o]) : page[p].free /\ page[p].order = o
FlagInv  == \A q \in Pfns : page[q].free => q \in Covered(Spare)
BootInv  == \A q \in Pfns : q >= boot => page[q].order = 0 /\ (page[q].used <=> ~page[q].reserved)
RefInv   == \A p \in DOMAIN owned : page[p].ref = owned[p]
CountInv == nfree = Cardinality(Covered(Spare))

\* No two buddies are on a list.
Coalesced == \A o \in Orders : \A p \in Members(lists[o]) :
                o < MaxOrder - 1 => buddy_pfn(p, o) \notin Members(lists[o])

PmmInv == /\ Types /\ Tiles(Blocks, Reached) /\ HeadInv /\ FlagInv /\ BootInv /\ RefInv
          /\ CountInv /\ Coalesced

-----------------------------------------------------------------------------
(* Aligned runs of pages.                                                  *)

\* Of two aligned runs that meet, the smaller lies in the larger.
LEMMA RunsNest ==
    ASSUME NEW k \in Nat, NEW o \in Nat, k <= o,
           NEW x \in Nat, x % 2^k = 0, NEW p \in Nat, p % 2^o = 0,
           NEW q \in Run(x, k), q \in Run(p, o)
    PROVE  Run(x, k) \subseteq Run(p, o)
  <1>1. PICK n \in Nat \ {0} : n = 2^k
    BY PowerStep
  <1>2. PICK d \in Nat \ {0} : 2^o = d * n
    BY <1>1, PowerDivides
  <1>3. PICK b \in Nat : x = b * n
    BY <1>1, Multiple
  <1>4. d * n \in Nat \ {0}
    OBVIOUS
  <1>5. PICK a \in Nat : p = a * (d * n)
    BY <1>2, <1>4, Multiple
  <1>6. PICK c \in Nat : c = a * d /\ p = c * n
    BY <1>5
  <1>7. c + d \in Nat /\ b + 1 \in Nat
    OBVIOUS
  <1>8. (c + d) * n = p + 2^o /\ (b + 1) * n = x + n
    BY <1>2, <1>3, <1>6
  <1>9. q \in Nat /\ x <= q /\ q < x + n /\ p <= q /\ q < p + 2^o
    BY <1>1, <1>2, <1>4 DEF Run
  <1>10. b * n < (c + d) * n /\ c * n < (b + 1) * n
    BY <1>3, <1>6, <1>8, <1>9, <1>2, <1>4
  <1>11. b < c + d /\ c < b + 1
    BY <1>7, <1>10, MultipleOrder
  <1>12. b + 1 <= c + d /\ c <= b
    BY <1>11
  <1>13. (b + 1) * n <= (c + d) * n /\ c * n <= b * n
    BY <1>7, <1>12, MultipleOrder
  <1>14. p <= x /\ x + n <= p + 2^o
    BY <1>3, <1>6, <1>8, <1>13
  <1> QED BY <1>1, <1>2, <1>4, <1>14 DEF Run

\* Aligned runs of the same size that meet are the same.
LEMMA RunsEqual ==
    ASSUME NEW o \in Nat, NEW x \in Nat, x % 2^o = 0, NEW p \in Nat, p % 2^o = 0,
           NEW q \in Run(x, o), q \in Run(p, o)
    PROVE  x = p
  <1>1. Run(x, o) \subseteq Run(p, o) /\ Run(p, o) \subseteq Run(x, o)
    BY RunsNest
  <1>2. 2^o \in Nat \ {0}
    BY PowerStep
  <1>3. x \in Run(x, o) /\ p \in Run(p, o)
    BY <1>2 DEF Run
  <1>4. x \in Run(p, o) /\ p \in Run(x, o)
    BY <1>1, <1>3
  <1>5. x >= p /\ p >= x
    BY <1>2, <1>4 DEF Run
  <1> QED BY <1>5

\* The two halves of an aligned run.
LEMMA Halves ==
    ASSUME NEW o \in Nat, NEW p \in Nat, p % 2^(o + 1) = 0
    PROVE  /\ p % 2^o = 0 /\ (p + 2^o) % 2^o = 0 /\ p + 2^o \in Nat
           /\ Run(p, o + 1) = Run(p, o) \cup Run(p + 2^o, o)
           /\ Run(p, o) \cap Run(p + 2^o, o) = {}
           /\ buddy_pfn(p, o) = p + 2^o /\ buddy_pfn(p + 2^o, o) = p
  <1>1. PICK n \in Nat \ {0} : n = 2^o /\ 2^(o + 1) = 2 * n
    BY PowerStep
  <1>2. PICK a \in Nat : p = a * (2 * n)
    <2>1. 2 * n \in Nat \ {0}
      OBVIOUS
    <2> QED BY <2>1, <1>1, Multiple
  <1>3. PICK c \in Nat, d \in Nat : c = 2 * a /\ d = 2 * a + 1
    OBVIOUS
  <1>4. p = c * n /\ p + n = d * n
    BY <1>2, <1>3
  <1>5. p % n = 0 /\ (p + n) % n = 0 /\ (p \div n) % 2 = 0 /\ ((p + n) \div n) % 2 # 0
    BY <1>3, <1>4, Multiple
  <1>6. buddy_pfn(p, o) = p + n /\ buddy_pfn(p + n, o) = p
    BY <1>1, <1>5 DEF buddy_pfn
  <1>7. p..(p + 2 * n - 1) = (p..(p + n - 1)) \cup ((p + n)..(p + n + n - 1))
    OBVIOUS
  <1>8. (p..(p + n - 1)) \cap ((p + n)..(p + n + n - 1)) = {}
    OBVIOUS
  <1> QED BY <1>1, <1>5, <1>6, <1>7, <1>8 DEF Run

\* A block and its buddy are the halves of the block that merging them gives.
LEMMA BuddyHalves ==
    ASSUME NEW o \in Nat, NEW p \in Nat, p % 2^o = 0
    PROVE  \E m \in Nat :
              /\ m % 2^(o + 1) = 0
              /\ \/ p = m /\ buddy_pfn(p, o) = m + 2^o
                 \/ p = m + 2^o /\ buddy_pfn(p, o) = m
  <1>1. PICK n \in Nat \ {0} : n = 2^o /\ 2^(o + 1) = 2 * n
    BY PowerStep
  <1>2. PICK a \in Nat : p = a * n /\ p \div n = a
    BY <1>1, Multiple
  <1>3. 2 * n \in Nat \ {0}
    OBVIOUS
  <1>4. CASE a % 2 = 0
    <2>1. PICK c \in Nat : a = 2 * c
      BY <1>4
    <2>2. p = c * (2 * n)
      BY <1>2, <2>1
    <2>3. p % (2 * n) = 0
      BY <1>3, <2>2, Multiple
    <2> QED BY <1>1, <1>2, <1>4, <2>3 DEF buddy_pfn
  <1>5. CASE a % 2 # 0
    <2>1. PICK c \in Nat : a = 2 * c + 1
      BY <1>5
    <2>2. PICK m \in Nat : m = c * (2 * n) /\ p = m + n /\ m = p - n
      BY <1>2, <2>1
    <2>3. m % (2 * n) = 0
      BY <1>3, <2>2, Multiple
    <2>4. buddy_pfn(p, o) = m
      BY <1>1, <1>2, <1>5, <2>2 DEF buddy_pfn
    <2> QED BY <1>1, <2>2, <2>3, <2>4
  <1> QED BY <1>4, <1>5

-----------------------------------------------------------------------------
(* Tilings.                                                                *)

\* The fields of a block.
LEMMA BlockFields ==
    ASSUME NEW p \in Nat, NEW o \in Nat, NEW w \in {"list", "caller", "call"}
    PROVE  /\ Block(p, o, w) \in BlockSet
           /\ Block(p, o, w).pfn = p /\ Block(p, o, w).order = o /\ Block(p, o, w).by = w
           /\ Pages(Block(p, o, w)) = Run(p, o)
  BY DEF Block, BlockSet, Pages

\* A run is not empty: it begins with its first page.
LEMMA RunStart ==
    ASSUME NEW p \in Nat, NEW o \in Nat
    PROVE  p \in Run(p, o) /\ Run(p, o) \subseteq Nat /\ \A q \in Run(p, o) : p <= q
  <1>1. 2^o \in Nat \ {0}
    BY PowerStep
  <1> QED BY <1>1 DEF Run

\* Blocks of a tiling may be replaced by others that divide the same pages.
LEMMA TilesReplace ==
    ASSUME NEW B, NEW S, Tiles(B, S), NEW X, X \subseteq B, NEW Y, Tiles(Y, Covered(X))
    PROVE  Tiles((B \ X) \cup Y, S)
  <1> DEFINE C == (B \ X) \cup Y
  <1>1. Covered(X) \subseteq S
    BY DEF Tiles, Covered
  <1>2. \A b \in B \ X : Pages(b) \cap Covered(X) = {}
    BY DEF Tiles, Covered
  <1>3. Covered(Y) = Covered(X)
    BY DEF Tiles, Covered
  <1>4. C \subseteq BlockSet /\ \A b \in C : b.pfn % 2^b.order = 0 /\ Pages(b) \subseteq S
    BY <1>1 DEF Tiles
  <1>5. S \subseteq Covered(C)
    <2> SUFFICES ASSUME NEW q \in S PROVE \E b \in C : q \in Pages(b)
      BY DEF Covered
    <2>1. PICK b \in B : q \in Pages(b)
      BY DEF Tiles, Covered
    <2>2. CASE b \in X
      <3>1. q \in Covered(Y)
        BY <1>3, <2>1, <2>2 DEF Covered
      <3> QED BY <3>1 DEF Covered
    <2> QED BY <2>1, <2>2
  <1>6. ASSUME NEW b \in C, NEW c \in C, Pages(b) \cap Pages(c) # {} PROVE b = c
    <2>1. CASE b \in B \ X /\ c \in B \ X
      BY <1>6, <2>1 DEF Tiles
    <2>2. CASE b \in Y /\ c \in Y
      BY <1>6, <2>2 DEF Tiles
    <2>3. \A y \in Y : Pages(y) \subseteq Covered(X)
      BY DEF Tiles
    <2> QED BY <1>2, <1>6, <2>1, <2>2, <2>3
  <1> HIDE DEF C
  <1>7. Tiles(C, S)
    BY <1>4, <1>5, <1>6 DEF Tiles
  <1> QED BY <1>7 DEF C

\* Two tilings of different pages.
LEMMA TilesUnion ==
    ASSUME NEW B, NEW S, Tiles(B, S), NEW C, NEW T, Tiles(C, T), S \cap T = {}
    PROVE  Tiles(B \cup C, S \cup T)
  BY DEF Tiles, Covered

\* One block, alone.
LEMMA TilesOne ==
    ASSUME NEW p \in Nat, NEW o \in Nat, NEW w \in {"list", "caller", "call"}, p % 2^o = 0
    PROVE  /\ Covered({Block(p, o, w)}) = Run(p, o)
           /\ Tiles({Block(p, o, w)}, Run(p, o))
  <1>1. PICK b : b = Block(p, o, w)
    OBVIOUS
  <1>2. b \in BlockSet /\ b.pfn = p /\ b.order = o /\ Pages(b) = Run(p, o)
    BY <1>1, BlockFields
  <1>3. Covered({b}) = Run(p, o) /\ Tiles({b}, Run(p, o))
    BY <1>2 DEF Tiles, Covered
  <1> QED BY <1>1, <1>3

\* The halves of a block.
LEMMA TilesHalves ==
    ASSUME NEW m \in Nat, NEW o \in Nat, m % 2^(o + 1) = 0,
           NEW v \in {"list", "caller", "call"}, NEW w \in {"list", "caller", "call"}
    PROVE  /\ Covered({Block(m, o, v), Block(m + 2^o, o, w)}) = Run(m, o + 1)
           /\ Tiles({Block(m, o, v), Block(m + 2^o, o, w)}, Run(m, o + 1))
  <1>1. PICK n \in Nat : n = m + 2^o
    BY Halves
  <1>2. m % 2^o = 0 /\ n % 2^o = 0 /\ Run(m, o + 1) = Run(m, o) \cup Run(n, o)
        /\ Run(m, o) \cap Run(n, o) = {}
    BY <1>1, Halves
  <1>3. PICK b, c : b = Block(m, o, v) /\ c = Block(n, o, w)
    OBVIOUS
  <1>4. /\ Tiles({b}, Run(m, o)) /\ Covered({b}) = Run(m, o)
        /\ Tiles({c}, Run(n, o)) /\ Covered({c}) = Run(n, o)
    BY <1>2, <1>3, TilesOne
  <1>5. Tiles({b} \cup {c}, Run(m, o + 1))
    BY <1>2, <1>4, TilesUnion
  <1>6. Covered({b, c}) = Run(m, o + 1) /\ {b} \cup {c} = {b, c}
    BY <1>2, <1>4 DEF Covered
  <1> QED BY <1>1, <1>3, <1>5, <1>6

-----------------------------------------------------------------------------
(* The free lists.                                                         *)

\* Blocks on the lists, and what is known of the constants.
LEMMA Basics ==
    ASSUME Types
    PROVE  /\ \A o \in Orders : o \in Nat /\ o <= MaxOrder - 1
           /\ \A p \in Pfns : p \in Nat /\ p <= MaxPfn
           /\ MaxPfn \in Nat /\ MaxOrder \in Nat \ {0} /\ 0 \in Orders /\ 0 \in Pfns
           /\ \A o \in Orders : lists[o] \in Seq(Pfns) /\ Members(lists[o]) \subseteq Pfns
  <1>1. MaxPfn \in Nat /\ MaxOrder \in Nat \ {0}
    BY PmmAssumption
  <1>2. \A o \in Orders : lists[o] \in Seq(Pfns)
    BY DEF Types
  <1>3. \A o \in Orders : Members(lists[o]) \subseteq Pfns
    BY <1>2, MembersBasics
  <1> QED BY <1>1, <1>2, <1>3 DEF Orders, Pfns

\* A block joins a list.
LEMMA Pushed ==
    ASSUME Types, NEW o \in Orders, NEW p \in Pfns, p \notin Members(lists[o]),
           free_list_push(o, p)
    PROVE  /\ lists' \in [Orders -> Seq(Pfns)] /\ \A r \in Orders : Unique(lists'[r])
           /\ \A r \in Orders : Members(lists'[r]) =
                 IF r = o THEN Members(lists[o]) \cup {p} ELSE Members(lists[r])
           /\ FreeBlocks' = FreeBlocks \cup {Block(p, o, "list")}
  <1>1. lists[o] \in Seq(Pfns) /\ Unique(lists[o])
    BY DEF Types
  <1>2. PICK l : l = <<p>> \o lists[o]
    OBVIOUS
  <1>3. l \in Seq(Pfns) /\ Unique(l) /\ Members(l) = Members(lists[o]) \cup {p}
    BY <1>1, <1>2, MembersPush
  <1>4. lists' = [lists EXCEPT ![o] = l]
    BY <1>2 DEF free_list_push
  <1>5. lists' \in [Orders -> Seq(Pfns)]
        /\ \A r \in Orders : lists'[r] = IF r = o THEN l ELSE lists[r]
    BY <1>3, <1>4 DEF Types
  <1>6. \A r \in Orders : Unique(lists'[r])
    BY <1>3, <1>5 DEF Types
  <1>7. \A r \in Orders : Members(lists'[r]) =
            IF r = o THEN Members(lists[o]) \cup {p} ELSE Members(lists[r])
    BY <1>3, <1>5
  <1>8. FreeBlocks' = FreeBlocks \cup {Block(p, o, "list")}
    BY <1>7 DEF FreeBlocks
  <1> QED BY <1>5, <1>6, <1>7, <1>8

\* A block leaves its list.
LEMMA Pulled ==
    ASSUME Types, NEW o \in Orders, NEW p \in Members(lists[o]), NEW l,
           lists' = [lists EXCEPT ![o] = l], l \in Seq(Pfns), Unique(l),
           Members(l) = Members(lists[o]) \ {p}
    PROVE  /\ lists' \in [Orders -> Seq(Pfns)] /\ \A r \in Orders : Unique(lists'[r])
           /\ \A r \in Orders : Members(lists'[r]) =
                 IF r = o THEN Members(lists[o]) \ {p} ELSE Members(lists[r])
           /\ FreeBlocks' = FreeBlocks \ {Block(p, o, "list")}
           /\ Block(p, o, "list") \in FreeBlocks
  <1>1. lists' \in [Orders -> Seq(Pfns)]
        /\ \A r \in Orders : lists'[r] = IF r = o THEN l ELSE lists[r]
    BY DEF Types
  <1>2. \A r \in Orders : Unique(lists'[r])
    BY <1>1 DEF Types
  <1>3. \A r \in Orders : Members(lists'[r]) =
            IF r = o THEN Members(lists[o]) \ {p} ELSE Members(lists[r])
    BY <1>1
  <1>4. \A r \in Orders : \A q \in Members(lists[r]) : q \in Nat /\ r \in Nat
    BY Basics
  <1>5. \A r \in Orders : \A q \in Members(lists[r]) :
            Block(q, r, "list") = Block(p, o, "list") <=> q = p /\ r = o
    BY <1>4 DEF Block
  <1>6. FreeBlocks' = FreeBlocks \ {Block(p, o, "list")}
    BY <1>3, <1>5 DEF FreeBlocks
  <1>7. Block(p, o, "list") \in FreeBlocks
    BY DEF FreeBlocks
  <1> QED BY <1>1, <1>2, <1>3, <1>6, <1>7

-----------------------------------------------------------------------------
(* Steps that only rearrange what no caller holds.                         *)

\* Spare blocks are not held ones, and hand is one of them.
LEMMA SpareBlocks ==
    ASSUME Types
    PROVE  /\ \A b \in Spare : b.by # "caller"
           /\ Spare \cap HeldBlocks = {} /\ Blocks = Spare \cup HeldBlocks
           /\ hand # NoBlock => Block(hand.pfn, hand.order, "call") \in Spare
  <1>1. \A b \in HeldBlocks : b.by = "caller"
    BY DEF HeldBlocks, Block
  <1>2. \A b \in Spare : b.by # "caller"
    <2>1. \A b \in FreeBlocks : b.by = "list"
      BY DEF FreeBlocks, Block
    <2>2. \A b \in HandBlocks : b.by = "call"
      BY DEF HandBlocks, Block
    <2> QED BY <2>1, <2>2 DEF Spare
  <1>3. hand # NoBlock => Block(hand.pfn, hand.order, "call") \in Spare
    BY DEF Spare, HandBlocks
  <1> QED BY <1>1, <1>2, <1>3 DEF Spare, Blocks

\* A held block lies in memory, and no spare block meets it.
LEMMA HeldApart ==
    ASSUME Types, Tiles(Blocks, Reached), NEW p \in DOMAIN owned
    PROVE  /\ p \in Run(p, page[p].order) /\ Run(p, page[p].order) \subseteq Reached
           /\ Run(p, page[p].order) \cap Covered(Spare) = {}
           /\ p \in Pfns /\ page[p].order \in Orders /\ p % 2^page[p].order = 0
  <1>1. p \in Pfns /\ page[p].order \in Orders /\ p \in Nat /\ page[p].order \in Nat
    BY Basics DEF Types, PageType
  <1>2. PICK b \in HeldBlocks : b = Block(p, page[p].order, "caller")
    BY DEF HeldBlocks
  <1>3. Pages(b) = Run(p, page[p].order) /\ b.pfn = p /\ b.order = page[p].order
    BY <1>1, <1>2, BlockFields
  <1>4. b \in Blocks /\ b \notin Spare
    BY SpareBlocks
  <1>5. \A c \in Spare : Pages(c) \cap Pages(b) = {}
    BY <1>4, SpareBlocks DEF Tiles
  <1>6. Pages(b) \subseteq Reached /\ p % 2^page[p].order = 0
    BY <1>3, <1>4 DEF Tiles
  <1>7. Pages(b) \cap Covered(Spare) = {}
    BY <1>5 DEF Covered
  <1> QED BY <1>1, <1>3, <1>6, <1>7, RunStart

\* A step that replaces the blocks of X by others for the same pages, and
\* writes to no other page, keeps memory divided.
LEMMA Replaced ==
    ASSUME PmmInv, boot' = boot, NEW X, X \subseteq Blocks, NEW Y, Tiles(Y, Covered(X)),
           Blocks' = (Blocks \ X) \cup Y,
           \A q \in Pfns : q \notin Covered(X) => page'[q] = page[q],
           \A q \in Pfns : page'[q].reserved = page[q].reserved
    PROVE  Tiles(Blocks', Reached') /\ Reached' = Reached /\ BootInv'
  <1>0. Types /\ Tiles(Blocks, Reached)
    BY DEF PmmInv
  <1>1. Reached' = Reached
    BY DEF Reached
  <1>2. Tiles((Blocks \ X) \cup Y, Reached)
    BY <1>0, TilesReplace
  <1>3. \A q \in Pfns : q >= boot => q \notin Covered(X)
    <2>1. \A q \in Covered(X) : q \in Reached
      BY <1>0 DEF Tiles, Covered
    <2>2. boot \in 0..(MaxPfn + 1)
      BY <1>0 DEF Types
    <2>3. \A q \in Pfns : q >= boot => ~(q < boot)
      BY <2>2, PmmAssumption DEF Pfns
    <2> QED BY <2>1, <2>3 DEF Reached
  <1>4. BootInv'
    BY <1>3 DEF PmmInv, BootInv
  <1> QED BY <1>1, <1>2, <1>4

\* A step that replaces the spare blocks of X by others for the same pages,
\* and writes to no other page, keeps all but the heads and the lists right.
LEMMA Rearranged ==
    ASSUME PmmInv, Types', UNCHANGED <<nfree, boot, owned>>,
           NEW X, X \subseteq Spare, NEW Y, Tiles(Y, Covered(X)),
           Spare' = (Spare \ X) \cup Y,
           \A q \in Pfns : q \notin Covered(X) => page'[q] = page[q],
           \A q \in Pfns : page'[q].reserved = page[q].reserved
    PROVE  Tiles(Blocks', Reached') /\ FlagInv' /\ BootInv' /\ RefInv' /\ CountInv'
  <1>0. Types /\ Tiles(Blocks, Reached)
    BY DEF PmmInv
  <1>1. Covered(X) \subseteq Covered(Spare)
    BY DEF Covered
  <1>2. ASSUME NEW p \in DOMAIN owned PROVE page'[p] = page[p]
    BY <1>0, <1>1, HeldApart
  <1>3. HeldBlocks' = HeldBlocks
    BY <1>2 DEF HeldBlocks
  <1>4. Blocks = Spare \cup HeldBlocks /\ Spare \cap HeldBlocks = {}
    BY <1>0, SpareBlocks
  <1>5. Blocks' = (Blocks \ X) \cup Y
    <2>1. Blocks' = Spare' \cup HeldBlocks'
      BY DEF Blocks, Spare
    <2> QED BY <1>3, <1>4, <2>1
  <1>6. Tiles(Blocks', Reached') /\ BootInv'
    <2>1. X \subseteq Blocks /\ boot' = boot
      BY <1>4
    <2> QED BY <1>5, <2>1, Replaced
  <1>7. Covered(Y) = Covered(X)
    BY DEF Tiles, Covered
  <1>8. Covered(Spare') = Covered(Spare)
    BY <1>7 DEF Covered
  <1>9. FlagInv'
    BY <1>1, <1>8 DEF PmmInv, FlagInv
  <1>10. RefInv'
    BY <1>2 DEF PmmInv, RefInv
  <1>11. CountInv'
    BY <1>8 DEF PmmInv, CountInv
  <1> QED BY <1>6, <1>9, <1>10, <1>11

\* The block in hand lies in memory and meets no block of a list.
LEMMA InHand ==
    ASSUME Types, Tiles(Blocks, Reached), hand # NoBlock
    PROVE  /\ hand.pfn \in Pfns /\ hand.order \in Orders /\ hand.pfn % 2^hand.order = 0
           /\ hand.pfn \in Run(hand.pfn, hand.order) /\ Run(hand.pfn, hand.order) \subseteq Reached
           /\ \A o \in Orders : \A p \in Members(lists[o]) :
                 Run(p, o) \cap Run(hand.pfn, hand.order) = {}
           /\ HandBlocks = {Block(hand.pfn, hand.order, "call")}
           /\ HandBlocks \cap FreeBlocks = {}
  <1>1. hand.pfn \in Pfns /\ hand.order \in Orders /\ hand.pfn \in Nat /\ hand.order \in Nat
    BY Basics DEF Types, HandType
  <1>2. PICK h : h = Block(hand.pfn, hand.order, "call")
    OBVIOUS
  <1>3. Pages(h) = Run(hand.pfn, hand.order) /\ h.pfn = hand.pfn /\ h.order = hand.order /\ h.by = "call"
    BY <1>1, <1>2, BlockFields
  <1>4. h \in Blocks
    BY <1>2, SpareBlocks
  <1>5. Pages(h) \subseteq Reached /\ h.pfn % 2^h.order = 0
    BY <1>4 DEF Tiles
  <1>6. ASSUME NEW o \in Orders, NEW p \in Members(lists[o])
        PROVE  Run(p, o) \cap Run(hand.pfn, hand.order) = {}
    <2>1. p \in Nat /\ o \in Nat
      BY Basics
    <2>2. PICK b \in FreeBlocks : b = Block(p, o, "list")
      BY DEF FreeBlocks
    <2>3. Pages(b) = Run(p, o) /\ b.by = "list"
      BY <2>1, <2>2, BlockFields
    <2>4. b \in Blocks /\ b # h
      BY <1>3, <2>3 DEF Blocks
    <2> QED BY <1>3, <1>4, <2>3, <2>4 DEF Tiles
  <1>7. HandBlocks = {h}
    BY <1>2 DEF HandBlocks
  <1>8. \A b \in FreeBlocks : b.by = "list"
    BY DEF FreeBlocks, Block
  <1> QED BY <1>1, <1>2, <1>3, <1>5, <1>6, <1>7, <1>8, RunStart

\* Blocks on lists are aligned, lie in memory and meet only themselves.
LEMMA OnList ==
    ASSUME Types, Tiles(Blocks, Reached), NEW o \in Orders, NEW p \in Members(lists[o])
    PROVE  /\ p \in Pfns /\ p % 2^o = 0 /\ p \in Run(p, o) /\ Run(p, o) \subseteq Reached
           /\ \A r \in Orders : \A q \in Members(lists[r]) :
                 Run(p, o) \cap Run(q, r) # {} => p = q /\ o = r
  <1>1. p \in Pfns /\ p \in Nat /\ o \in Nat
    BY Basics
  <1>2. PICK b \in FreeBlocks : b = Block(p, o, "list")
    BY DEF FreeBlocks
  <1>3. Pages(b) = Run(p, o) /\ b.pfn = p /\ b.order = o
    BY <1>1, <1>2, BlockFields
  <1>4. b \in Blocks
    BY DEF Blocks
  <1>5. Pages(b) \subseteq Reached /\ b.pfn % 2^b.order = 0
    BY <1>4 DEF Tiles
  <1>6. ASSUME NEW r \in Orders, NEW q \in Members(lists[r]), Run(p, o) \cap Run(q, r) # {}
        PROVE  p = q /\ o = r
    <2>1. q \in Nat /\ r \in Nat
      BY Basics
    <2>2. PICK c \in FreeBlocks : c = Block(q, r, "list")
      BY DEF FreeBlocks
    <2>3. Pages(c) = Run(q, r) /\ c.pfn = q /\ c.order = r
      BY <2>1, <2>2, BlockFields
    <2>4. c \in Blocks
      BY DEF Blocks
    <2>5. b = c
      BY <1>3, <1>4, <1>6, <2>3, <2>4 DEF Tiles
    <2> QED BY <1>3, <2>3, <2>5
  <1> QED BY <1>1, <1>3, <1>5, <1>6, RunStart

\* The buddy's buddy is the block itself.
LEMMA BuddyBack ==
    ASSUME NEW o \in Nat, NEW p \in Nat, p % 2^o = 0
    PROVE  /\ buddy_pfn(p, o) \in Nat /\ buddy_pfn(p, o) # p /\ buddy_pfn(p, o) % 2^o = 0
           /\ buddy_pfn(buddy_pfn(p, o), o) = p
  <1>1. 2^o \in Nat \ {0}
    BY PowerStep
  <1>2. PICK m \in Nat : /\ m % 2^(o + 1) = 0
                         /\ \/ p = m /\ buddy_pfn(p, o) = m + 2^o
                            \/ p = m + 2^o /\ buddy_pfn(p, o) = m
    BY BuddyHalves
  <1>3. m % 2^o = 0 /\ (m + 2^o) % 2^o = 0 /\ m + 2^o \in Nat
        /\ buddy_pfn(m, o) = m + 2^o /\ buddy_pfn(m + 2^o, o) = m
    BY <1>2, Halves
  <1>4. m + 2^o # m
    BY <1>1
  <1> QED BY <1>2, <1>3, <1>4, Zenon

\* The end of free_block.
LEMMA InsertStep ==
    ASSUME PmmInv, Insert
    PROVE  PmmInv'
  <1>0. Types /\ Tiles(Blocks, Reached)
    BY DEF PmmInv
  <1>1. PICK p, o : p = hand.pfn /\ o = hand.order
    OBVIOUS
  <1>2. hand # NoBlock /\ hand' = NoBlock
    BY DEF Insert, NoBlock
  <1>3. /\ p \in Pfns /\ o \in Orders /\ p % 2^o = 0 /\ p \in Run(p, o) /\ Run(p, o) \subseteq Reached
        /\ \A r \in Orders : \A x \in Members(lists[r]) : Run(x, r) \cap Run(p, o) = {}
        /\ HandBlocks = {Block(p, o, "call")} /\ HandBlocks \cap FreeBlocks = {}
    BY <1>0, <1>1, <1>2, InHand
  <1>4. p \in Nat /\ o \in Nat
    BY <1>0, <1>3, Basics
  <1>5. \A r \in Orders : \A x \in Members(lists[r]) : x # p
    BY <1>0, <1>3, OnList
  <1>6. /\ lists' \in [Orders -> Seq(Pfns)] /\ \A r \in Orders : Unique(lists'[r])
        /\ \A r \in Orders : Members(lists'[r]) =
                 IF r = o THEN Members(lists[o]) \cup {p} ELSE Members(lists[r])
        /\ FreeBlocks' = FreeBlocks \cup {Block(p, o, "list")}
    <2>1. free_list_push(o, p)
      BY <1>1 DEF Insert
    <2> QED BY <1>0, <1>3, <1>5, <2>1, Pushed
  <1>7. /\ page' \in [Pfns -> PageType] /\ \A q \in Pfns : q # p => page'[q] = page[q]
        /\ page'[p].free /\ page'[p].order = o /\ page'[p].reserved = page[p].reserved
    <2>1. PICK w : w = [page[p] EXCEPT !.free = TRUE, !.used = FALSE, !.order = o]
      OBVIOUS
    <2>2. page[p] \in PageType /\ page \in [Pfns -> PageType]
      BY <1>0, <1>3 DEF Types
    <2>3. w \in PageType /\ w.free /\ w.order = o /\ w.reserved = page[p].reserved
      BY <1>3, <2>1, <2>2 DEF PageType
    <2>4. page' = [page EXCEPT ![p] = w]
      BY <1>1, <2>1 DEF Insert
    <2> QED BY <1>3, <2>2, <2>3, <2>4
  <1>8. Types'
    <2>1. hand' \in HandType /\ hand'.op = "none"
      BY <1>0, <1>2, Basics DEF NoBlock, HandType
    <2> QED BY <1>0, <1>2, <1>6, <1>7, <2>1 DEF Types, Insert
  <1>9. HandBlocks' = {}
    BY <1>2 DEF HandBlocks
  <1>10. Spare' = (Spare \ {Block(p, o, "call")}) \cup {Block(p, o, "list")}
    BY <1>3, <1>6, <1>9 DEF Spare
  <1>11. Tiles(Blocks', Reached') /\ FlagInv' /\ BootInv' /\ RefInv' /\ CountInv'
    <2>1. Covered({Block(p, o, "call")}) = Run(p, o) /\ Tiles({Block(p, o, "list")}, Run(p, o))
      BY <1>3, <1>4, TilesOne
    <2>2. {Block(p, o, "call")} \subseteq Spare
      BY <1>3 DEF Spare
    <2>3. \A q \in Pfns : q \notin Run(p, o) => page'[q] = page[q]
      BY <1>3, <1>7
    <2>4. \A q \in Pfns : page'[q].reserved = page[q].reserved
      BY <1>7
    <2>5. UNCHANGED <<nfree, boot, owned>>
      BY DEF Insert
    <2> QED BY <1>8, <1>10, <2>1, <2>2, <2>3, <2>4, <2>5, Rearranged
  <1>12. HeadInv'
    <2> SUFFICES ASSUME NEW r \in Orders, NEW x \in Members(lists'[r])
                 PROVE  page'[x].free /\ page'[x].order = r
      BY DEF HeadInv
    <2>1. CASE x \in Members(lists[r])
      <3>1. x \in Pfns /\ x # p /\ page[x].free /\ page[x].order = r
        BY <1>0, <1>5, <2>1, Basics DEF PmmInv, HeadInv
      <3> QED BY <1>7, <3>1
    <2>2. CASE r = o /\ x = p
      BY <1>7, <2>2
    <2> QED BY <1>6, <2>1, <2>2
  <1>13. Coalesced'
    <2>1. PICK b : b = buddy_pfn(p, o)
      OBVIOUS
    <2>2. b # p /\ b \in Nat
      BY <1>3, <1>4, <2>1, BuddyBack
    <2>3. o < MaxOrder - 1 => b \notin Members(lists[o])
      <3>1. ASSUME o < MaxOrder - 1, b \in Members(lists[o]) PROVE FALSE
        <4>1. b \in Pfns /\ page[b].free /\ page[b].order = o /\ b <= MaxPfn
          BY <1>0, <1>3, <3>1, Basics DEF PmmInv, HeadInv
        <4>2. Mergeable(p, o)
          BY <2>1, <3>1, <4>1 DEF Mergeable
        <4> QED BY <1>1, <4>2 DEF Insert
      <3> QED BY <3>1
    <2>4. ASSUME NEW x \in Members(lists[o]), buddy_pfn(x, o) = p PROVE x = b
      <3>1. x \in Nat /\ x % 2^o = 0
        BY <1>0, <1>3, OnList, Basics
      <3> QED BY <1>4, <2>1, <2>4, <3>1, BuddyBack
    <2> SUFFICES ASSUME NEW r \in Orders, NEW x \in Members(lists'[r]), r < MaxOrder - 1
                 PROVE  buddy_pfn(x, r) \notin Members(lists'[r])
      BY DEF Coalesced
    <2>5. CASE r # o
      BY <1>6, <2>5 DEF PmmInv, Coalesced
    <2>6. CASE r = o /\ x = p
      BY <1>6, <2>1, <2>2, <2>3, <2>6
    <2>7. CASE r = o /\ x # p
      <3>1. x \in Members(lists[o]) /\ buddy_pfn(x, o) \notin Members(lists[o])
        BY <1>6, <2>7 DEF PmmInv, Coalesced
      <3>2. buddy_pfn(x, o) # p
        BY <2>3, <2>4, <2>7, <3>1
      <3> QED BY <1>6, <2>7, <3>1, <3>2
    <2> QED BY <2>5, <2>6, <2>7
  <1> QED BY <1>8, <1>11, <1>12, <1>13 DEF PmmInv

\* Fewer blocks on the lists are as coalesced as before.
LEMMA CoalescedFewer ==
    ASSUME Coalesced, \A r \in Orders : Members(lists'[r]) \subseteq Members(lists[r])
    PROVE  Coalesced'
  BY DEF Coalesced

\* pmm_alloc takes its block from a list.
LEMMA SourceFound ==
    ASSUME Types, NEW o \in Orders, Available(o)
    PROVE  Source(o) \in Orders /\ o <= Source(o) /\ lists[Source(o)] # <<>>
  <1> DEFINE T == {s \in o..(MaxOrder - 1) : lists[s] # <<>>}
  <1>0. o \in Nat /\ MaxOrder \in Nat
    BY Basics
  <1>1. T \subseteq Nat /\ T # {}
    BY <1>0 DEF Available
  <1>2. PICK s \in T : \A t \in T : s <= t
    <2> HIDE DEF T
    <2> QED BY <1>1, LeastNumber
  <1>3. \A r \in o..(s - 1) : r \in o..(MaxOrder - 1) /\ ~(s <= r)
    BY <1>0
  <1>4. \A r \in o..(s - 1) : lists[r] = <<>>
    BY <1>2, <1>3
  <1>5. \E t \in o..(MaxOrder - 1) : lists[t] # <<>> /\ \A r \in o..(t - 1) : lists[r] = <<>>
    BY <1>4
  <1>6. Source(o) \in o..(MaxOrder - 1) /\ lists[Source(o)] # <<>>
    BY <1>5, Zenon DEF Source
  <1> QED BY <1>0, <1>6 DEF Orders

\* pmm_alloc finds a block and takes it off its list.
LEMMA AllocStep ==
    ASSUME PmmInv, NEW o \in Orders, pmm_alloc(o)
    PROVE  PmmInv'
  <1>0. Types /\ Tiles(Blocks, Reached) /\ hand = NoBlock
    BY DEF PmmInv, pmm_alloc, Ready
  <1>1. PICK s : s = Source(o)
    OBVIOUS
  <1>2. s \in Orders /\ o <= s /\ lists[s] # <<>>
    BY <1>0, <1>1, SourceFound DEF pmm_alloc
  <1>3. PICK p : p = Head(lists[s])
    OBVIOUS
  <1>4. lists[s] \in Seq(Pfns) /\ Unique(lists[s])
    BY <1>0, <1>2 DEF Types
  <1>5. PICK l : l = Tail(lists[s])
    OBVIOUS
  <1>6. l \in Seq(Pfns) /\ Unique(l) /\ p \in Members(lists[s]) /\ Members(l) = Members(lists[s]) \ {p}
    BY <1>2, <1>3, <1>4, <1>5, MembersTail
  <1>7. lists' = [lists EXCEPT ![s] = l]
    BY <1>1, <1>5 DEF pmm_alloc
  <1>8. /\ lists' \in [Orders -> Seq(Pfns)] /\ \A r \in Orders : Unique(lists'[r])
        /\ \A r \in Orders : Members(lists'[r]) =
                 IF r = s THEN Members(lists[s]) \ {p} ELSE Members(lists[r])
        /\ FreeBlocks' = FreeBlocks \ {Block(p, s, "list")}
        /\ Block(p, s, "list") \in FreeBlocks
    BY <1>0, <1>2, <1>6, <1>7, Pulled
  <1>9. p \in Pfns /\ p % 2^s = 0 /\ p \in Nat /\ s \in Nat
    BY <1>0, <1>2, <1>6, OnList, Basics
  <1>10. hand' = [op |-> "alloc", pfn |-> p, order |-> s, want |-> o]
    BY <1>1, <1>3 DEF pmm_alloc
  <1>11. hand' \in HandType /\ hand'.op = "alloc" /\ hand' # NoBlock /\ hand'.pfn = p
         /\ hand'.order = s /\ hand'.want = o
    BY <1>2, <1>9, <1>10 DEF HandType, NoBlock
  <1>12. Types'
    BY <1>0, <1>2, <1>8, <1>11 DEF Types, pmm_alloc
  <1>13. HandBlocks' = {Block(p, s, "call")} /\ HandBlocks = {}
    BY <1>0, <1>11 DEF HandBlocks
  <1>14. Spare' = (Spare \ {Block(p, s, "list")}) \cup {Block(p, s, "call")}
    BY <1>8, <1>13 DEF Spare
  <1>15. Tiles(Blocks', Reached') /\ FlagInv' /\ BootInv' /\ RefInv' /\ CountInv'
    <2>1. Covered({Block(p, s, "list")}) = Run(p, s) /\ Tiles({Block(p, s, "call")}, Run(p, s))
      BY <1>9, TilesOne
    <2>2. {Block(p, s, "list")} \subseteq Spare
      BY <1>8 DEF Spare
    <2>3. UNCHANGED <<nfree, boot, owned>> /\ page' = page
      BY DEF pmm_alloc
    <2> QED BY <1>12, <1>14, <2>1, <2>2, <2>3, Rearranged
  <1>16. HeadInv'
    BY <1>8 DEF PmmInv, HeadInv, pmm_alloc
  <1>17. Coalesced'
    BY <1>8, CoalescedFewer DEF PmmInv
  <1> QED BY <1>12, <1>15, <1>16, <1>17 DEF PmmInv

\* pmm_alloc splits its block.
LEMMA SplitStep ==
    ASSUME PmmInv, Split
    PROVE  PmmInv'
  <1>0. Types /\ Tiles(Blocks, Reached)
    BY DEF PmmInv
  <1>1. PICK m, o, b : m = hand.pfn /\ o = hand.order - 1 /\ b = m + 2^o
    OBVIOUS
  <1>2. hand # NoBlock /\ hand \in HandType /\ hand.op = "alloc" /\ hand.order > hand.want
    BY <1>0 DEF Split, NoBlock, Types
  <1>3. /\ m \in Pfns /\ hand.order \in Orders /\ m % 2^hand.order = 0
        /\ Run(m, hand.order) \subseteq Reached
        /\ \A r \in Orders : \A x \in Members(lists[r]) : Run(x, r) \cap Run(m, hand.order) = {}
        /\ HandBlocks = {Block(m, hand.order, "call")} /\ HandBlocks \cap FreeBlocks = {}
    BY <1>0, <1>1, <1>2, InHand
  <1>4. m \in Nat /\ o \in Nat /\ o \in Orders /\ hand.order = o + 1 /\ hand.want \in Orders
        /\ hand.want <= o
    BY <1>0, <1>1, <1>2, <1>3, Basics DEF HandType, Orders
  <1>5. /\ m % 2^o = 0 /\ b % 2^o = 0 /\ b \in Nat /\ buddy_pfn(m, o) = b /\ buddy_pfn(b, o) = m
        /\ Run(m, o + 1) = Run(m, o) \cup Run(b, o) /\ Run(m, o) \cap Run(b, o) = {}
    <2>1. m % 2^(o + 1) = 0 /\ b = m + 2^o
      BY <1>1, <1>3, <1>4, Zenon
    <2>2. /\ m % 2^o = 0 /\ (m + 2^o) % 2^o = 0 /\ m + 2^o \in Nat
          /\ Run(m, o + 1) = Run(m, o) \cup Run(m + 2^o, o)
          /\ Run(m, o) \cap Run(m + 2^o, o) = {}
          /\ buddy_pfn(m, o) = m + 2^o /\ buddy_pfn(m + 2^o, o) = m
      BY <1>4, <2>1, Halves
    <2> QED BY <2>1, <2>2, Zenon
  <1>6. m \in Run(m, o) /\ b \in Run(b, o)
    BY <1>4, <1>5, RunStart
  <1>7. b \in Pfns /\ ~page[b].reserved /\ b # m
    BY <1>3, <1>4, <1>5, <1>6 DEF Reached
  <1>8. \A r \in Orders : \A x \in Members(lists[r]) : x \in Pfns /\ x # m /\ x # b
    BY <1>0, <1>3, <1>4, <1>5, <1>6, OnList
  <1>9. /\ lists' \in [Orders -> Seq(Pfns)] /\ \A r \in Orders : Unique(lists'[r])
        /\ \A r \in Orders : Members(lists'[r]) =
                 IF r = o THEN Members(lists[o]) \cup {b} ELSE Members(lists[r])
        /\ FreeBlocks' = FreeBlocks \cup {Block(b, o, "list")}
    <2>1. free_list_push(o, b)
      BY <1>1 DEF Split
    <2> QED BY <1>0, <1>4, <1>7, <1>8, <2>1, Pushed
  <1>10. /\ page' \in [Pfns -> PageType] /\ \A q \in Pfns : q # b => page'[q] = page[q]
         /\ page'[b].free /\ page'[b].order = o /\ page'[b].reserved = FALSE
    <2>1. PICK w : w = [free |-> TRUE, used |-> FALSE, reserved |-> FALSE, order |-> o,
                        ref |-> page[b].ref]
      OBVIOUS
    <2>2. page[b] \in PageType /\ page \in [Pfns -> PageType]
      BY <1>0, <1>7 DEF Types
    <2>3. w \in PageType /\ w.free /\ w.order = o /\ w.reserved = FALSE
      BY <1>4, <2>1, <2>2 DEF PageType
    <2>4. page' = [page EXCEPT ![b] = w]
      BY <1>1, <2>1 DEF Split
    <2> QED BY <1>7, <2>2, <2>3, <2>4
  <1>11. hand' \in HandType /\ hand'.op = "alloc" /\ hand'.pfn = m /\ hand'.order = o
         /\ hand'.want = hand.want
    BY <1>1, <1>2, <1>4 DEF Split, HandType
  <1>12. hand' # NoBlock
    BY <1>11 DEF NoBlock
  <1>13. Types'
    BY <1>0, <1>4, <1>9, <1>10, <1>11, <1>12 DEF Types, Split
  <1>14. HandBlocks' = {Block(m, o, "call")}
    BY <1>11, <1>12 DEF HandBlocks
  <1>15. Spare' = (Spare \ {Block(m, o + 1, "call")}) \cup {Block(m, o, "call"), Block(b, o, "list")}
    BY <1>3, <1>4, <1>9, <1>14 DEF Spare
  <1>16. Tiles(Blocks', Reached') /\ FlagInv' /\ BootInv' /\ RefInv' /\ CountInv'
    <2>1. Covered({Block(m, o + 1, "call")}) = Run(m, o + 1)
      <3>1. o + 1 \in Nat
        BY <1>4
      <3> QED BY <1>3, <1>4, <3>1, TilesOne
    <2>2. Tiles({Block(m, o, "call"), Block(b, o, "list")}, Run(m, o + 1))
      BY <1>1, <1>3, <1>4, TilesHalves
    <2>3. {Block(m, o + 1, "call")} \subseteq Spare
      BY <1>3, <1>4 DEF Spare
    <2>4. \A q \in Pfns : q \notin Run(m, o + 1) => page'[q] = page[q]
      BY <1>5, <1>6, <1>10
    <2>5. \A q \in Pfns : page'[q].reserved = page[q].reserved
      <3>1. page[b].reserved = FALSE
        BY <1>0, <1>7 DEF Types, PageType
      <3> QED BY <1>10, <3>1
    <2>6. UNCHANGED <<nfree, boot, owned>>
      BY DEF Split
    <2> QED BY <1>13, <1>15, <2>1, <2>2, <2>3, <2>4, <2>5, <2>6, Rearranged
  <1>17. HeadInv'
    <2> SUFFICES ASSUME NEW r \in Orders, NEW x \in Members(lists'[r])
                 PROVE  page'[x].free /\ page'[x].order = r
      BY DEF HeadInv
    <2>1. CASE x \in Members(lists[r])
      <3>1. x \in Pfns /\ x # b /\ page[x].free /\ page[x].order = r
        BY <1>8, <2>1 DEF PmmInv, HeadInv
      <3> QED BY <1>10, <3>1
    <2>2. CASE r = o /\ x = b
      BY <1>10, <2>2
    <2> QED BY <1>9, <2>1, <2>2
  <1>18. Coalesced'
    <2>1. ASSUME NEW x \in Members(lists[o]), buddy_pfn(x, o) = b PROVE FALSE
      <3>1. x \in Nat /\ x % 2^o = 0
        BY <1>0, <1>4, OnList, Basics
      <3>2. x = m
        BY <1>4, <1>5, <2>1, <3>1, BuddyBack
      <3> QED BY <1>4, <1>8, <3>2
    <2> SUFFICES ASSUME NEW r \in Orders, NEW x \in Members(lists'[r]), r < MaxOrder - 1
                 PROVE  buddy_pfn(x, r) \notin Members(lists'[r])
      BY DEF Coalesced
    <2>2. CASE r # o
      BY <1>9, <2>2 DEF PmmInv, Coalesced
    <2>3. CASE r = o /\ x = b
      BY <1>4, <1>5, <1>7, <1>8, <1>9, <2>3
    <2>4. CASE r = o /\ x # b
      <3>1. x \in Members(lists[o]) /\ buddy_pfn(x, o) \notin Members(lists[o])
        BY <1>9, <2>4 DEF PmmInv, Coalesced
      <3> QED BY <1>9, <2>1, <2>4, <3>1
    <2> QED BY <2>2, <2>3, <2>4
  <1> QED BY <1>13, <1>16, <1>17, <1>18 DEF PmmInv

\* The flags of the buddy do not mislead free_block: a page that is marked
\* free with that order is the head of a block on that list.
LEMMA MergeableIsListed ==
    ASSUME PmmInv, hand # NoBlock, Mergeable(hand.pfn, hand.order)
    PROVE  buddy_pfn(hand.pfn, hand.order) \in Members(lists[hand.order])
  <1>0. Types /\ Tiles(Blocks, Reached)
    BY DEF PmmInv
  <1>1. PICK p, o, b : p = hand.pfn /\ o = hand.order /\ b = buddy_pfn(p, o)
    OBVIOUS
  <1>2. /\ p \in Pfns /\ o \in Orders /\ p % 2^o = 0 /\ p \in Run(p, o)
        /\ \A r \in Orders : \A x \in Members(lists[r]) : Run(x, r) \cap Run(p, o) = {}
        /\ HandBlocks = {Block(p, o, "call")}
    BY <1>0, <1>1, InHand
  <1>3. p \in Nat /\ o \in Nat /\ o + 1 \in Nat
    BY <1>0, <1>2, Basics
  <1>4. b \in Nat /\ b % 2^o = 0 /\ b \in Run(b, o)
    BY <1>1, <1>2, <1>3, BuddyBack, RunStart
  <1>5. PICK m \in Nat : /\ m % 2^(o + 1) = 0 /\ p \in Run(m, o + 1) /\ b \in Run(m, o + 1)
                         /\ b \notin Run(p, o)
    <2>1. PICK m \in Nat : /\ m % 2^(o + 1) = 0
                           /\ (p = m /\ b = m + 2^o) \/ (p = m + 2^o /\ b = m)
      BY <1>1, <1>2, <1>3, BuddyHalves
    <2>2. PICK n \in Nat : n = m + 2^o
      BY <1>3, <2>1, Halves
    <2>3. Run(m, o + 1) = Run(m, o) \cup Run(n, o) /\ Run(m, o) \cap Run(n, o) = {}
      BY <1>3, <2>1, <2>2, Halves
    <2> QED BY <1>2, <1>4, <2>1, <2>2, <2>3
  <1>6. b \in Pfns /\ page[b].free /\ page[b].order = o
    BY <1>1, <1>4, PmmAssumption DEF Mergeable, Pfns
  <1>7. PICK c \in Spare : b \in Pages(c)
    BY <1>6 DEF PmmInv, FlagInv, Covered
  <1>8. c \in FreeBlocks
    <2>1. Pages(Block(p, o, "call")) = Run(p, o)
      BY <1>3, BlockFields
    <2> QED BY <1>2, <1>5, <1>7, <2>1 DEF Spare
  <1>9. PICK r \in Orders : \E x \in Members(lists[r]) : c = Block(x, r, "list")
    BY <1>8 DEF FreeBlocks
  <1>10. PICK x \in Members(lists[r]) : c = Block(x, r, "list")
    BY <1>9
  <1>11. x \in Nat /\ r \in Nat /\ x % 2^r = 0
    BY <1>0, OnList, Basics
  <1>12. b \in Run(x, r)
    BY <1>7, <1>10, <1>11, BlockFields
  <1>13. CASE r <= o
    <2>1. Run(x, r) \subseteq Run(b, o)
      BY <1>3, <1>4, <1>11, <1>12, <1>13, RunsNest
    <2>2. x = b
      <3>1. x \in Run(b, o)
        BY <1>11, <2>1, RunStart
      <3>2. b <= x /\ x <= b
        BY <1>3, <1>4, <1>11, <1>12, <3>1, RunStart
      <3> QED BY <1>4, <1>11, <3>2
    <2>3. page[b].order = r
      BY <2>2 DEF PmmInv, HeadInv
    <2> QED BY <1>1, <1>6, <2>2, <2>3
  <1>14. CASE ~(r <= o)
    <2>1. o + 1 <= r
      BY <1>3, <1>11, <1>14
    <2>2. Run(m, o + 1) \subseteq Run(x, r)
      BY <1>3, <1>5, <1>11, <1>12, <2>1, RunsNest
    <2> QED BY <1>2, <1>5, <2>2
  <1> QED BY <1>13, <1>14

\* free_block merges its block with the buddy.
LEMMA MergeStep ==
    ASSUME PmmInv, Merge
    PROVE  PmmInv'
  <1>0. Types /\ Tiles(Blocks, Reached)
    BY DEF PmmInv
  <1>1. PICK p, o, b, m : /\ p = hand.pfn /\ o = hand.order /\ b = buddy_pfn(p, o)
                          /\ m = IF b < p THEN b ELSE p
    OBVIOUS
  <1>2. hand # NoBlock
    BY DEF Merge, NoBlock
  <1>3. /\ p \in Pfns /\ o \in Orders /\ p % 2^o = 0 /\ p \in Run(p, o)
        /\ \A r \in Orders : \A x \in Members(lists[r]) : Run(x, r) \cap Run(p, o) = {}
        /\ HandBlocks = {Block(p, o, "call")} /\ HandBlocks \cap FreeBlocks = {}
    BY <1>0, <1>1, <1>2, InHand
  <1>4. p \in Nat /\ o \in Nat /\ o + 1 \in Nat /\ o < MaxOrder - 1
    BY <1>0, <1>1, <1>3, Basics DEF Merge, Mergeable
  <1>5. b \in Members(lists[o])
    BY <1>1, <1>2, MergeableIsListed DEF Merge
  <1>6. b \in Pfns /\ b \in Nat /\ b \in Run(b, o)
    BY <1>0, <1>3, <1>5, OnList, Basics
  <1>7. /\ m \in Nat /\ m \in Pfns /\ m % 2^(o + 1) = 0
        /\ (p = m /\ b = m + 2^o) \/ (p = m + 2^o /\ b = m)
    <2>1. PICK k \in Nat : /\ k % 2^(o + 1) = 0
                           /\ (p = k /\ b = k + 2^o) \/ (p = k + 2^o /\ b = k)
      BY <1>1, <1>3, <1>4, BuddyHalves
    <2>2. 2^o \in Nat \ {0}
      BY <1>4, PowerStep
    <2>3. m = k
      BY <1>1, <2>1, <2>2
    <2> QED BY <1>3, <1>6, <2>1, <2>3
  <1>8. PICK l : l = Without(lists[o], b)
    OBVIOUS
  <1>9. l \in Seq(Pfns) /\ Unique(l) /\ Members(l) = Members(lists[o]) \ {b}
    BY <1>0, <1>3, <1>8, MembersWithout DEF Types
  <1>10. lists' = [lists EXCEPT ![o] = l]
    BY <1>1, <1>8 DEF Merge, free_list_remove
  <1>11. /\ lists' \in [Orders -> Seq(Pfns)] /\ \A r \in Orders : Unique(lists'[r])
         /\ \A r \in Orders : Members(lists'[r]) =
                 IF r = o THEN Members(lists[o]) \ {b} ELSE Members(lists[r])
         /\ FreeBlocks' = FreeBlocks \ {Block(b, o, "list")}
         /\ Block(b, o, "list") \in FreeBlocks
    BY <1>0, <1>3, <1>5, <1>9, <1>10, Pulled
  <1>12. o + 1 \in Orders
    BY <1>4, PmmAssumption DEF Orders
  <1>13. /\ page' \in [Pfns -> PageType] /\ \A q \in Pfns : q # m => page'[q] = page[q]
         /\ page'[m].reserved = page[m].reserved
    <2>1. PICK w : w = [page[m] EXCEPT !.order = o + 1]
      OBVIOUS
    <2>2. page[m] \in PageType /\ page \in [Pfns -> PageType]
      BY <1>0, <1>7 DEF Types
    <2>3. w \in PageType /\ w.reserved = page[m].reserved
      BY <1>12, <2>1, <2>2 DEF PageType
    <2>4. page' = [page EXCEPT ![m] = w]
      BY <1>1, <2>1 DEF Merge
    <2> QED BY <1>7, <2>2, <2>3, <2>4
  <1>14. hand' = Freeing(m, o + 1)
    BY <1>1 DEF Merge
  <1>15. hand' \in HandType /\ hand'.op = "free" /\ hand'.pfn = m /\ hand'.order = o + 1
    BY <1>0, <1>7, <1>12, <1>14, Basics DEF Freeing, HandType
  <1>16. hand' # NoBlock
    BY <1>15 DEF NoBlock
  <1>17. Types'
    BY <1>0, <1>11, <1>13, <1>15, <1>16 DEF Types, Merge
  <1>18. HandBlocks' = {Block(m, o + 1, "call")}
    BY <1>15, <1>16 DEF HandBlocks
  <1>19. Spare' = (Spare \ {Block(p, o, "call"), Block(b, o, "list")}) \cup {Block(m, o + 1, "call")}
    BY <1>3, <1>11, <1>18 DEF Spare
  <1>20. m \in Run(m, o + 1)
    BY <1>4, <1>7, RunStart
  <1>21. Tiles(Blocks', Reached') /\ FlagInv' /\ BootInv' /\ RefInv' /\ CountInv'
    <2>1. Covered({Block(p, o, "call"), Block(b, o, "list")}) = Run(m, o + 1)
      <3>1. CASE p = m /\ b = m + 2^o
        BY <1>4, <1>7, <3>1, TilesHalves
      <3>2. CASE p = m + 2^o /\ b = m
        <4>1. Covered({Block(b, o, "list"), Block(p, o, "call")}) = Run(m, o + 1)
          BY <1>4, <1>7, <3>2, TilesHalves
        <4>2. {Block(b, o, "list"), Block(p, o, "call")} = {Block(p, o, "call"), Block(b, o, "list")}
          OBVIOUS
        <4> QED BY <4>1, <4>2, Zenon
      <3> QED BY <1>7, <3>1, <3>2
    <2>2. Tiles({Block(m, o + 1, "call")}, Run(m, o + 1))
      BY <1>4, <1>7, TilesOne
    <2>3. {Block(p, o, "call"), Block(b, o, "list")} \subseteq Spare
      BY <1>3, <1>11 DEF Spare
    <2>4. \A q \in Pfns : q \notin Run(m, o + 1) => page'[q] = page[q]
      BY <1>13, <1>20
    <2>5. \A q \in Pfns : page'[q].reserved = page[q].reserved
      BY <1>13
    <2>6. UNCHANGED <<nfree, boot, owned>>
      BY DEF Merge
    <2> QED BY <1>17, <1>19, <2>1, <2>2, <2>3, <2>4, <2>5, <2>6, Rearranged
  <1>22. HeadInv'
    <2> SUFFICES ASSUME NEW r \in Orders, NEW x \in Members(lists'[r])
                 PROVE  page'[x].free /\ page'[x].order = r
      BY DEF HeadInv
    <2>1. x \in Members(lists[r]) /\ (r = o => x # b)
      BY <1>11
    <2>2. x \in Pfns /\ x \in Run(x, r)
      BY <1>0, <2>1, OnList
    <2>3. x # p
      BY <1>3, <2>1, <2>2
    <2>4. x # b
      BY <1>0, <1>3, <1>5, <1>6, <2>1, <2>2, OnList
    <2>5. x # m
      BY <1>7, <2>3, <2>4
    <2> QED BY <1>13, <2>1, <2>2, <2>5 DEF PmmInv, HeadInv
  <1>23. Coalesced'
    BY <1>11, CoalescedFewer DEF PmmInv
  <1> QED BY <1>17, <1>21, <1>22, <1>23 DEF PmmInv

-----------------------------------------------------------------------------
(* Steps that change what callers hold.                                    *)

\* There are finitely many spare pages, and a run of order o has 2^o.
LEMMA SpareFinite ==
    ASSUME Types, Tiles(Blocks, Reached)
    PROVE  /\ Covered(Spare) \subseteq Reached /\ IsFiniteSet(Covered(Spare))
           /\ Cardinality(Covered(Spare)) \in Nat
           /\ \A p \in Nat, o \in Nat : IsFiniteSet(Run(p, o)) /\ Cardinality(Run(p, o)) = 2^o
  <1>1. Covered(Spare) \subseteq Reached
    BY SpareBlocks DEF Tiles, Covered
  <1>2. IsFiniteSet(Pfns)
    BY FS_Interval, PmmAssumption DEF Pfns
  <1>3. Covered(Spare) \in SUBSET Pfns
    BY <1>1 DEF Reached
  <1>4. IsFiniteSet(Covered(Spare)) /\ Cardinality(Covered(Spare)) \in Nat
    BY <1>2, <1>3, FS_Subset, FS_CardinalityType
  <1>5. ASSUME NEW p \in Nat, NEW o \in Nat
        PROVE  IsFiniteSet(Run(p, o)) /\ Cardinality(Run(p, o)) = 2^o
    <2>1. PICK n \in Nat \ {0} : n = 2^o
      BY PowerStep
    <2>2. PICK e \in Int : e = p + n - 1
      OBVIOUS
    <2>3. IsFiniteSet(p..e) /\ Cardinality(p..e) = IF p > e THEN 0 ELSE e - p + 1
      BY FS_Interval
    <2>4. Cardinality(p..e) = n
      BY <2>2, <2>3
    <2> QED BY <2>1, <2>2, <2>3, <2>4 DEF Run
  <1> QED BY <1>1, <1>4, <1>5

\* A caller's block is marked neither free nor reserved.
LEMMA HeldUsed ==
    ASSUME PmmInv, NEW p \in DOMAIN owned
    PROVE  ~page[p].free /\ ~page[p].reserved
  <1>1. p \in Reached /\ p \notin Covered(Spare) /\ p \in Pfns
    BY HeldApart DEF PmmInv
  <1> QED BY <1>1 DEF PmmInv, FlagInv, Reached

\* pmm_alloc returns its block.
LEMMA TakeStep ==
    ASSUME PmmInv, Take
    PROVE  PmmInv'
  <1>0. Types /\ Tiles(Blocks, Reached)
    BY DEF PmmInv
  <1>1. PICK p, o : p = hand.pfn /\ o = hand.order
    OBVIOUS
  <1>2. hand # NoBlock /\ hand' = NoBlock
    BY DEF Take, NoBlock
  <1>3. /\ p \in Pfns /\ o \in Orders /\ p % 2^o = 0 /\ p \in Run(p, o) /\ Run(p, o) \subseteq Reached
        /\ \A r \in Orders : \A x \in Members(lists[r]) : Run(x, r) \cap Run(p, o) = {}
        /\ HandBlocks = {Block(p, o, "call")} /\ HandBlocks \cap FreeBlocks = {}
    BY <1>0, <1>1, <1>2, InHand
  <1>4. p \in Nat /\ o \in Nat
    BY <1>0, <1>3, Basics
  <1>5. Run(p, o) \subseteq Covered(Spare)
    <2>1. Pages(Block(p, o, "call")) = Run(p, o)
      BY <1>4, BlockFields
    <2> QED BY <1>3, <2>1 DEF Spare, Covered
  <1>6. /\ page' \in [Pfns -> PageType]
        /\ \A q \in Pfns : q \notin Run(p, o) => page'[q] = page[q]
        /\ \A q \in Run(p, o) : ~page'[q].free /\ page'[q].reserved = page[q].reserved
        /\ page'[p].order = o /\ page'[p].ref = 1
    <2>1. page \in [Pfns -> PageType]
      BY <1>0 DEF Types
    <2>2. PICK w : w = [free |-> FALSE, used |-> TRUE, reserved |-> FALSE, order |-> o, ref |-> 1]
      OBVIOUS
    <2>3. w \in PageType /\ ~w.free /\ w.reserved = FALSE
      BY <1>3, <2>2 DEF PageType
    <2>4. PICK h : h = Taken(page[p], o)
      OBVIOUS
    <2>5. h \in PageType /\ ~h.free /\ h.reserved = page[p].reserved /\ h.order = o /\ h.ref = 1
      <3>1. page[p].reserved \in BOOLEAN
        BY <1>3, <2>1 DEF PageType
      <3> QED BY <1>3, <2>4, <3>1 DEF Taken, PageType
    <2>6. page' = [q \in Pfns |-> IF q = p THEN h ELSE IF q \in Run(p, o) THEN w ELSE page[q]]
      BY <1>1, <2>2, <2>4 DEF Take
    <2>7. \A q \in Run(p, o) : q \in Pfns /\ page[q].reserved = FALSE
      BY <1>3, <2>1 DEF Reached, PageType
    <2> QED BY <1>3, <2>1, <2>3, <2>5, <2>6, <2>7
  <1>7. \A x \in DOMAIN owned : x \in Pfns /\ x \notin Run(p, o) /\ x # p
    BY <1>0, <1>3, <1>5, HeldApart
  <1>8. /\ owned' = [q \in DOMAIN owned \cup {p} |-> IF q = p THEN 1 ELSE owned[q]]
        /\ DOMAIN owned' = DOMAIN owned \cup {p}
    BY <1>1 DEF Take
  <1>9. Types'
    <2>1. hand' \in HandType /\ hand'.op = "none"
      BY <1>0, <1>2, Basics DEF NoBlock, HandType
    <2>2. DOMAIN owned' \subseteq Pfns /\ owned' \in [DOMAIN owned' -> Nat \ {0}]
      BY <1>0, <1>3, <1>8 DEF Types
    <2>3. stale' = {} /\ UNCHANGED <<lists, boot, panic>>
      BY <1>0 DEF Types, Take
    <2> QED BY <1>0, <1>2, <1>6, <2>1, <2>2, <2>3 DEF Types
  <1>10. HandBlocks' = {} /\ FreeBlocks' = FreeBlocks
    BY <1>2 DEF HandBlocks, FreeBlocks, Take
  <1>11. HeldBlocks' = HeldBlocks \cup {Block(p, o, "caller")}
    BY <1>6, <1>7, <1>8 DEF HeldBlocks
  <1>12. Blocks' = (Blocks \ {Block(p, o, "call")}) \cup {Block(p, o, "caller")}
    <2>1. Block(p, o, "call") \notin HeldBlocks
      BY <1>0, <1>3, SpareBlocks DEF Spare
    <2> QED BY <1>3, <1>10, <1>11, <2>1 DEF Blocks
  <1>13. Tiles(Blocks', Reached') /\ BootInv'
    <2>1. Covered({Block(p, o, "call")}) = Run(p, o) /\ Tiles({Block(p, o, "caller")}, Run(p, o))
      BY <1>3, <1>4, TilesOne
    <2>2. {Block(p, o, "call")} \subseteq Blocks /\ boot' = boot
      BY <1>3 DEF Blocks, Take
    <2>3. \A q \in Pfns : page'[q].reserved = page[q].reserved
      BY <1>6
    <2>4. \A q \in Pfns : q \notin Run(p, o) => page'[q] = page[q]
      BY <1>6
    <2> QED BY <1>12, <2>1, <2>2, <2>3, <2>4, Replaced
  <1>14. Covered(Spare') = Covered(Spare) \ Run(p, o)
    <2>1. Spare' = FreeBlocks
      BY <1>10 DEF Spare
    <2>2. Pages(Block(p, o, "call")) = Run(p, o)
      BY <1>4, BlockFields
    <2>3. Covered(Spare) = Covered(FreeBlocks) \cup Run(p, o)
      BY <1>3, <2>2 DEF Spare, Covered
    <2>4. \A b \in FreeBlocks : Pages(b) \cap Run(p, o) = {}
      <3>1. Block(p, o, "call") \in Blocks /\ Block(p, o, "call") \notin FreeBlocks
        BY <1>3 DEF Blocks
      <3>2. FreeBlocks \subseteq Blocks
        BY DEF Blocks
      <3> QED BY <1>0, <2>2, <3>1, <3>2 DEF Tiles
    <2> QED BY <2>1, <2>3, <2>4 DEF Covered
  <1>15. FlagInv'
    BY <1>6, <1>14 DEF PmmInv, FlagInv
  <1>16. RefInv'
    BY <1>6, <1>7, <1>8 DEF PmmInv, RefInv
  <1>17. CountInv'
    <2>1. PICK c \in Nat : c = Cardinality(Covered(Spare))
      BY <1>0, SpareFinite
    <2>2. PICK S, T : S = Covered(Spare') /\ T = Run(p, o)
      OBVIOUS
    <2>3. Covered(Spare) = S \cup T /\ S \cap T = {} /\ S \in SUBSET Covered(Spare)
      BY <1>5, <1>14, <2>2
    <2>4. IsFiniteSet(S) /\ IsFiniteSet(T) /\ Cardinality(T) = 2^o /\ Cardinality(S) \in Nat
      BY <1>0, <1>4, <2>2, <2>3, SpareFinite, FS_Subset, FS_CardinalityType
    <2>5. Cardinality(S \cup T) = Cardinality(S) + Cardinality(T) - 0
      BY <2>3, <2>4, FS_Union, FS_EmptySet
    <2>6. nfree' = c - 2^o
      BY <1>1, <2>1 DEF PmmInv, CountInv, Take
    <2>7. 2^o \in Nat
      BY <1>4, PowerStep
    <2>8. c = Cardinality(S) + 2^o
      BY <2>1, <2>3, <2>4, <2>5, <2>7
    <2>9. nfree' = Cardinality(S)
      BY <2>4, <2>6, <2>7, <2>8
    <2> QED BY <2>2, <2>9 DEF CountInv
  <1>18. HeadInv'
    <2>1. \A r \in Orders : \A x \in Members(lists[r]) : x \in Pfns /\ x \notin Run(p, o)
      BY <1>0, <1>3, OnList
    <2> QED BY <1>6, <2>1 DEF PmmInv, HeadInv, Take
  <1>19. Coalesced'
    BY CoalescedFewer DEF PmmInv, Take
  <1> QED BY <1>9, <1>13, <1>15, <1>16, <1>17, <1>18, <1>19 DEF PmmInv

\* A step that only counts references.
LEMMA RefsOnly ==
    ASSUME PmmInv, Types', UNCHANGED <<lists, nfree, boot, hand>>, DOMAIN owned' = DOMAIN owned,
           \A q \in Pfns : /\ page'[q].free = page[q].free /\ page'[q].used = page[q].used
                           /\ page'[q].reserved = page[q].reserved /\ page'[q].order = page[q].order,
           RefInv'
    PROVE  PmmInv'
  <1>1. FreeBlocks' = FreeBlocks /\ HandBlocks' = HandBlocks /\ Reached' = Reached
    BY DEF FreeBlocks, HandBlocks, Reached
  <1>2. \A p \in DOMAIN owned : p \in Pfns
    BY DEF PmmInv, Types
  <1>3. HeldBlocks' = HeldBlocks
    BY <1>2 DEF HeldBlocks
  <1>4. Blocks' = Blocks /\ Spare' = Spare
    BY <1>1, <1>3 DEF Blocks, Spare
  <1>5. \A o \in Orders : \A p \in Members(lists[o]) : p \in Pfns
    BY Basics DEF PmmInv
  <1>6. HeadInv' /\ FlagInv' /\ BootInv' /\ CountInv'
    BY <1>4, <1>5 DEF PmmInv, HeadInv, FlagInv, BootInv, CountInv
  <1>7. Coalesced'
    BY CoalescedFewer DEF PmmInv
  <1> QED BY <1>1, <1>4, <1>6, <1>7 DEF PmmInv

\* page_ref_inc.
LEMMA RefIncStep ==
    ASSUME PmmInv, NEW p \in Pfns, page_ref_inc(p)
    PROVE  PmmInv'
  <1>0. Types /\ p \in DOMAIN owned
    BY DEF PmmInv, page_ref_inc
  <1>1. page \in [Pfns -> PageType] /\ page[p] \in PageType /\ owned[p] \in Nat \ {0}
        /\ page[p].ref = owned[p]
    BY <1>0 DEF Types, PmmInv, RefInv
  <1>2. PICK w : w = [page[p] EXCEPT !.ref = @ + 1]
    OBVIOUS
  <1>3. w \in PageType /\ w.free = page[p].free /\ w.used = page[p].used
        /\ w.reserved = page[p].reserved /\ w.order = page[p].order /\ w.ref = page[p].ref + 1
    BY <1>1, <1>2 DEF PageType
  <1>4. page' = [page EXCEPT ![p] = w]
    BY <1>2 DEF page_ref_inc
  <1>5. page' \in [Pfns -> PageType] /\ page'[p] = w /\ \A q \in Pfns : q # p => page'[q] = page[q]
    BY <1>1, <1>3, <1>4
  <1>6. PICK n \in Nat \ {0} : n = owned[p] + 1
    BY <1>1
  <1>7. owned' = [owned EXCEPT ![p] = n]
    BY <1>6 DEF page_ref_inc
  <1>8. DOMAIN owned' = DOMAIN owned /\ owned' \in [DOMAIN owned' -> Nat \ {0}] /\ owned'[p] = n
        /\ \A q \in DOMAIN owned : q # p => owned'[q] = owned[q]
    BY <1>0, <1>6, <1>7 DEF Types
  <1>9. Types'
    BY <1>0, <1>5, <1>8 DEF Types, page_ref_inc
  <1>10. RefInv'
    BY <1>0, <1>1, <1>3, <1>5, <1>6, <1>8 DEF PmmInv, RefInv, Types
  <1>11. UNCHANGED <<lists, nfree, boot, hand>>
    BY DEF page_ref_inc
  <1> QED BY <1>3, <1>5, <1>8, <1>9, <1>10, <1>11, RefsOnly

\* pmm_free, when other references are left.
LEMMA RefDecStep ==
    ASSUME PmmInv, NEW p \in DOMAIN owned, pmm_free(p), page[p].ref # 1
    PROVE  PmmInv'
  <1>0. Types /\ p \in Pfns /\ ~page[p].free /\ ~page[p].reserved
    BY HeldUsed DEF PmmInv, Types
  <1>1. page \in [Pfns -> PageType] /\ page[p] \in PageType /\ owned[p] \in Nat \ {0}
        /\ page[p].ref = owned[p]
    BY <1>0 DEF Types, PmmInv, RefInv
  <1>2. PICK w : w = [page[p] EXCEPT !.ref = @ - 1]
    OBVIOUS
  <1>3. w \in PageType /\ w.free = page[p].free /\ w.used = page[p].used
        /\ w.reserved = page[p].reserved /\ w.order = page[p].order /\ w.ref = page[p].ref - 1
    BY <1>1, <1>2 DEF PageType
  <1>4. page' = [page EXCEPT ![p] = w] /\ owned' = Dropped(p)
        /\ UNCHANGED <<lists, nfree, boot, hand, stale, panic>>
    BY <1>0, <1>2 DEF pmm_free
  <1>5. page' \in [Pfns -> PageType] /\ page'[p] = w /\ \A q \in Pfns : q # p => page'[q] = page[q]
    BY <1>0, <1>1, <1>3, <1>4
  <1>6. PICK n \in Nat \ {0} : n = owned[p] - 1
    BY <1>1
  <1>7. owned' = [owned EXCEPT ![p] = n]
    BY <1>1, <1>4, <1>6 DEF Dropped
  <1>8. DOMAIN owned' = DOMAIN owned /\ owned' \in [DOMAIN owned' -> Nat \ {0}] /\ owned'[p] = n
        /\ \A q \in DOMAIN owned : q # p => owned'[q] = owned[q]
    BY <1>0, <1>6, <1>7 DEF Types
  <1>9. Types'
    BY <1>0, <1>4, <1>5, <1>8 DEF Types
  <1>10. RefInv'
    BY <1>0, <1>1, <1>3, <1>5, <1>6, <1>8 DEF PmmInv, RefInv, Types
  <1> QED BY <1>3, <1>4, <1>5, <1>8, <1>9, <1>10, RefsOnly

\* pmm_free, with the last reference.
LEMMA LastFreeStep ==
    ASSUME PmmInv, ~DoubleFrees, NEW p \in DOMAIN owned, pmm_free(p), page[p].ref = 1
    PROVE  PmmInv'
  <1>0. Types /\ Tiles(Blocks, Reached) /\ hand = NoBlock /\ ~page[p].free /\ ~page[p].reserved
    BY HeldUsed DEF PmmInv, pmm_free, Ready
  <1>1. PICK o : o = page[p].order
    OBVIOUS
  <1>2. /\ p \in Run(p, o) /\ Run(p, o) \subseteq Reached /\ Run(p, o) \cap Covered(Spare) = {}
        /\ p \in Pfns /\ o \in Orders /\ p % 2^o = 0
    BY <1>0, <1>1, HeldApart
  <1>3. p \in Nat /\ o \in Nat
    BY <1>0, <1>2, Basics
  <1>4. /\ page' = Cleared(p) /\ nfree' = nfree + 2^o /\ hand' = Freeing(p, o) /\ stale' = stale
        /\ owned' = Dropped(p) /\ UNCHANGED <<lists, boot, panic>>
    BY <1>0, <1>1 DEF pmm_free
  <1>5. /\ page' \in [Pfns -> PageType]
        /\ \A q \in Pfns : q \notin Run(p, o) => page'[q] = page[q]
        /\ \A q \in Run(p, o) : ~page'[q].free /\ page'[q].reserved = page[q].reserved
    <2>1. page \in [Pfns -> PageType]
      BY <1>0 DEF Types
    <2>2. PICK h : h = [page[p] EXCEPT !.ref = @ - 1]
      OBVIOUS
    <2>3. h \in PageType /\ ~h.free /\ h.reserved = page[p].reserved
      <3>1. page[p] \in PageType
        BY <1>2, <2>1
      <3> QED BY <1>0, <2>2, <3>1 DEF PageType
    <2>4. PICK f : f = [q \in Pfns |-> [free |-> FALSE, used |-> FALSE, reserved |-> FALSE,
                                        order |-> page[q].order, ref |-> 0]]
      OBVIOUS
    <2>5. \A q \in Pfns : f[q] \in PageType /\ ~f[q].free /\ f[q].reserved = FALSE
      BY <2>1, <2>4 DEF PageType
    <2>6. page' = [q \in Pfns |-> IF q = p THEN h ELSE IF q \in Run(p, o) THEN f[q] ELSE page[q]]
      BY <1>1, <1>4, <2>2, <2>4 DEF Cleared
    <2>7. \A q \in Run(p, o) : q \in Pfns /\ page[q].reserved = FALSE
      BY <1>2, <2>1 DEF Reached, PageType
    <2> QED BY <1>2, <2>1, <2>3, <2>5, <2>6, <2>7
  <1>6. /\ owned' = [q \in DOMAIN owned \ {p} |-> owned[q]]
        /\ DOMAIN owned' = DOMAIN owned \ {p}
    BY <1>0, <1>4 DEF Dropped, PmmInv, RefInv
  <1>7. hand' \in HandType /\ hand'.op = "free" /\ hand'.pfn = p /\ hand'.order = o
    BY <1>0, <1>2, <1>4, Basics DEF Freeing, HandType
  <1>8. hand' # NoBlock
    BY <1>7 DEF NoBlock
  <1>9. Types'
    <2>1. DOMAIN owned' \subseteq Pfns /\ owned' \in [DOMAIN owned' -> Nat \ {0}]
      BY <1>0, <1>6 DEF Types
    <2> QED BY <1>0, <1>4, <1>5, <1>7, <1>8, <2>1 DEF Types
  <1>10. HandBlocks' = {Block(p, o, "call")} /\ HandBlocks = {} /\ FreeBlocks' = FreeBlocks
    BY <1>0, <1>4, <1>7, <1>8 DEF HandBlocks, FreeBlocks
  <1>11. \A x \in DOMAIN owned : x # p =>
            x \in Pfns /\ x \notin Run(p, o) /\ Block(x, page[x].order, "caller") # Block(p, o, "caller")
    <2> SUFFICES ASSUME NEW x \in DOMAIN owned, x # p
                 PROVE  x \in Pfns /\ x \notin Run(p, o)
                        /\ Block(x, page[x].order, "caller") # Block(p, o, "caller")
      OBVIOUS
    <2>1. x \in Pfns /\ x \in Run(x, page[x].order) /\ page[x].order \in Orders
      BY <1>0, HeldApart
    <2>2. x \in Nat /\ page[x].order \in Nat
      BY <1>0, <2>1, Basics
    <2>3. PICK b, c : b = Block(x, page[x].order, "caller") /\ c = Block(p, o, "caller")
      OBVIOUS
    <2>4. b \in Blocks /\ c \in Blocks
      BY <1>1, <2>3 DEF Blocks, HeldBlocks
    <2>5. b.pfn = x /\ c.pfn = p /\ Pages(b) = Run(x, page[x].order) /\ Pages(c) = Run(p, o)
      BY <1>3, <2>2, <2>3, BlockFields
    <2>6. b # c
      BY <2>5
    <2>7. Pages(b) \cap Pages(c) = {}
      BY <1>0, <2>4, <2>6 DEF Tiles
    <2> QED BY <2>1, <2>3, <2>5, <2>6, <2>7
  <1>12. HeldBlocks' = HeldBlocks \ {Block(p, o, "caller")} /\ Block(p, o, "caller") \in HeldBlocks
    <2>1. \A x \in DOMAIN owned' : x \in DOMAIN owned /\ x # p /\ page'[x] = page[x]
      BY <1>5, <1>6, <1>11
    <2>2. HeldBlocks' = {Block(x, page[x].order, "caller") : x \in DOMAIN owned \ {p}}
      BY <1>6, <2>1 DEF HeldBlocks
    <2>3. HeldBlocks = {Block(x, page[x].order, "caller") : x \in DOMAIN owned}
      BY DEF HeldBlocks
    <2> QED BY <1>1, <1>11, <2>2, <2>3
  <1>13. Blocks' = (Blocks \ {Block(p, o, "caller")}) \cup {Block(p, o, "call")}
    <2>1. Block(p, o, "caller") \notin FreeBlocks
      BY <1>0, <1>12, SpareBlocks DEF Spare
    <2> QED BY <1>10, <1>12, <2>1 DEF Blocks
  <1>14. Tiles(Blocks', Reached') /\ BootInv'
    <2>1. Covered({Block(p, o, "caller")}) = Run(p, o) /\ Tiles({Block(p, o, "call")}, Run(p, o))
      BY <1>2, <1>3, TilesOne
    <2>2. {Block(p, o, "caller")} \subseteq Blocks /\ boot' = boot
      BY <1>4, <1>12 DEF Blocks
    <2>3. \A q \in Pfns : page'[q].reserved = page[q].reserved
      BY <1>5
    <2>4. \A q \in Pfns : q \notin Run(p, o) => page'[q] = page[q]
      BY <1>5
    <2> QED BY <1>13, <2>1, <2>2, <2>3, <2>4, Replaced
  <1>15. Covered(Spare') = Covered(Spare) \cup Run(p, o)
    <2>1. Pages(Block(p, o, "call")) = Run(p, o)
      BY <1>3, BlockFields
    <2> QED BY <1>10, <2>1 DEF Spare, Covered
  <1>16. FlagInv'
    BY <1>5, <1>15 DEF PmmInv, FlagInv
  <1>17. RefInv'
    BY <1>5, <1>6, <1>11 DEF PmmInv, RefInv
  <1>18. CountInv'
    <2>1. PICK S, T : S = Covered(Spare) /\ T = Run(p, o)
      OBVIOUS
    <2>2. S \cap T = {} /\ IsFiniteSet(S) /\ IsFiniteSet(T) /\ Cardinality(T) = 2^o
          /\ Cardinality(S) \in Nat
      BY <1>0, <1>2, <1>3, <2>1, SpareFinite
    <2>3. Cardinality(S \cup T) = Cardinality(S) + Cardinality(T) - 0
      BY <2>2, FS_Union, FS_EmptySet
    <2>4. nfree' = Cardinality(S) + 2^o
      BY <1>4, <2>1 DEF PmmInv, CountInv
    <2>5. 2^o \in Nat
      BY <1>3, PowerStep
    <2>6. nfree' = Cardinality(S \cup T)
      BY <2>2, <2>3, <2>4, <2>5
    <2> QED BY <1>15, <2>1, <2>6 DEF CountInv
  <1>19. HeadInv'
    <2>1. ASSUME NEW r \in Orders, NEW x \in Members(lists[r])
          PROVE  x \in Pfns /\ x \notin Run(p, o)
      <3>1. x \in Pfns /\ x \in Run(x, r) /\ x \in Nat /\ r \in Nat
        BY <1>0, OnList, Basics
      <3>2. Block(x, r, "list") \in Spare /\ Pages(Block(x, r, "list")) = Run(x, r)
        BY <3>1, BlockFields DEF Spare, FreeBlocks
      <3>3. x \in Covered(Spare)
        BY <3>1, <3>2 DEF Covered
      <3> QED BY <1>2, <3>1, <3>3
    <2> QED BY <1>4, <1>5, <2>1 DEF PmmInv, HeadInv
  <1>20. Coalesced'
    BY <1>4, CoalescedFewer DEF PmmInv
  <1> QED BY <1>9, <1>14, <1>16, <1>17, <1>18, <1>19, <1>20 DEF PmmInv

-----------------------------------------------------------------------------
(* Initialisation.                                                         *)

\* pfndb_init and the first loop of pmm_init.
LEMMA PmmInitial == Init => PmmInv
  <1> SUFFICES ASSUME Init PROVE PmmInv
    OBVIOUS
  <1>0. MaxPfn \in Nat /\ MaxOrder \in Nat \ {0} /\ 0 \in Orders /\ 0 \in Pfns
    BY PmmAssumption DEF Orders, Pfns
  <1>1. PICK usable \in MemMaps : page = Withheld(pfndb_init(usable))
    BY DEF Init
  <1>2. /\ page \in [Pfns -> PageType]
        /\ \A q \in Pfns : page[q].order = 0 /\ ~page[q].free /\ (page[q].used <=> ~page[q].reserved)
    <2>1. PICK f : f = pfndb_init(usable)
      OBVIOUS
    <2>2. \A q \in Pfns : /\ f[q] \in PageType /\ f[q].free = (q \in usable) /\ f[q].used = FALSE
                          /\ f[q].reserved = (q \notin usable) /\ f[q].order = 0
      BY <1>0, <2>1 DEF pfndb_init, PageType
    <2>3. page = [q \in Pfns |-> IF f[q].free
                                 THEN [f[q] EXCEPT !.free = FALSE, !.used = TRUE, !.order = 0]
                                 ELSE f[q]]
      BY <1>1, <2>1 DEF Withheld
    <2>4. ASSUME NEW q \in Pfns
          PROVE  page[q] \in PageType /\ page[q].order = 0 /\ ~page[q].free
                 /\ (page[q].used <=> ~page[q].reserved)
      <3>1. CASE f[q].free
        <4>1. PICK w : w = [f[q] EXCEPT !.free = FALSE, !.used = TRUE, !.order = 0]
          OBVIOUS
        <4>2. w \in PageType /\ w.order = 0 /\ w.free = FALSE /\ w.used = TRUE /\ w.reserved = f[q].reserved
          BY <1>0, <2>2, <4>1 DEF PageType
        <4>3. page[q] = w /\ f[q].reserved = FALSE
          BY <2>2, <2>3, <3>1, <4>1
        <4> QED BY <4>2, <4>3
      <3>2. CASE ~f[q].free
        <4>1. page[q] = f[q]
          BY <2>3, <3>2
        <4> QED BY <2>2, <3>2, <4>1
      <3> QED BY <3>1, <3>2
    <2> QED BY <2>3, <2>4
  <1>3. Types
    <2>1. hand \in HandType /\ hand.op = "none" /\ hand = NoBlock
      BY <1>0 DEF Init, NoBlock, HandType
    <2>2. lists \in [Orders -> Seq(Pfns)] /\ \A o \in Orders : Unique(lists[o])
      BY DEF Init, Unique
    <2>3. DOMAIN owned = {} /\ owned \in [DOMAIN owned -> Nat \ {0}]
      BY DEF Init
    <2> QED BY <1>0, <1>2, <2>1, <2>2, <2>3 DEF Init, Types
  <1>4. \A o \in Orders : Members(lists[o]) = {}
    BY DEF Init, Members
  <1>5. FreeBlocks = {} /\ HeldBlocks = {} /\ HandBlocks = {}
    BY <1>4 DEF FreeBlocks, HeldBlocks, HandBlocks, Init
  <1>6. Reached = {}
    BY <1>0 DEF Reached, Init, Pfns
  <1>7. Blocks = {} /\ Spare = {} /\ Covered({}) = {}
    BY <1>5 DEF Blocks, Spare, Covered
  <1>8. Tiles({}, {})
    BY DEF Tiles, Covered
  <1>9. CountInv
    BY <1>7, FS_EmptySet DEF Init, CountInv
  <1>10. HeadInv /\ FlagInv /\ BootInv /\ Coalesced /\ RefInv
    BY <1>2, <1>4 DEF Init, HeadInv, FlagInv, BootInv, Coalesced, RefInv
  <1> QED BY <1>3, <1>6, <1>7, <1>8, <1>9, <1>10 DEF PmmInv

\* The second loop of pmm_init reaches the next page.
LEMMA PmmInitStep ==
    ASSUME PmmInv, pmm_init
    PROVE  PmmInv'
  <1>0. Types /\ Tiles(Blocks, Reached) /\ hand = NoBlock /\ boot <= MaxPfn /\ boot' = boot + 1
        /\ UNCHANGED <<page, lists, owned, stale, panic>>
    BY DEF PmmInv, pmm_init
  <1>1. boot \in Pfns /\ boot \in Nat /\ boot' \in 0..(MaxPfn + 1)
    <2>1. boot \in 0..(MaxPfn + 1)
      BY <1>0 DEF Types
    <2> QED BY <1>0, <2>1, PmmAssumption DEF Pfns
  <1>2. page[boot].order = 0 /\ (page[boot].used <=> ~page[boot].reserved)
    BY <1>1 DEF PmmInv, BootInv
  <1>3. \A q \in Pfns : /\ q < boot + 1 <=> q < boot \/ q = boot
                        /\ q >= boot + 1 => q >= boot
    BY <1>1 DEF Pfns
  <1>4. FreeBlocks' = FreeBlocks /\ HeldBlocks' = HeldBlocks /\ HandBlocks = {}
    BY <1>0 DEF FreeBlocks, HeldBlocks, HandBlocks
  <1>5. HeadInv' /\ BootInv' /\ RefInv' /\ Coalesced'
    <2>1. Coalesced'
      BY <1>0, CoalescedFewer DEF PmmInv
    <2> QED BY <1>0, <1>3, <2>1 DEF PmmInv, HeadInv, BootInv, RefInv
  <1>6. CASE ~(page[boot].used /\ ~page[boot].reserved)
    <2>1. hand' = hand /\ nfree' = nfree
      BY <1>6 DEF pmm_init
    <2>2. Reached' = Reached
      BY <1>0, <1>2, <1>3, <1>6 DEF Reached
    <2>3. HandBlocks' = HandBlocks
      BY <2>1 DEF HandBlocks
    <2>4. Blocks' = Blocks /\ Spare' = Spare
      BY <1>4, <2>3 DEF Blocks, Spare
    <2>5. Types'
      BY <1>0, <1>1, <2>1 DEF Types
    <2>6. FlagInv' /\ CountInv'
      BY <1>0, <2>1, <2>4 DEF PmmInv, FlagInv, CountInv
    <2> QED BY <1>0, <1>5, <2>2, <2>4, <2>5, <2>6 DEF PmmInv
  <1>7. CASE page[boot].used /\ ~page[boot].reserved
    <2>1. hand' = Freeing(boot, 0) /\ nfree' = nfree + 1
      BY <1>2, <1>7 DEF pmm_init
    <2>2. hand' \in HandType /\ hand'.op = "free" /\ hand'.pfn = boot /\ hand'.order = 0
      BY <1>0, <1>1, <2>1, Basics DEF Freeing, HandType
    <2>3. hand' # NoBlock
      BY <2>2 DEF NoBlock
    <2>4. Types'
      BY <1>0, <1>1, <2>2, <2>3 DEF Types
    <2>5. HandBlocks' = {Block(boot, 0, "call")}
      BY <2>2, <2>3 DEF HandBlocks
    <2>6. Reached' = Reached \cup {boot} /\ boot \notin Reached
      <3>1. boot \notin Reached
        BY <1>1 DEF Reached
      <3>2. page' = page /\ ~page[boot].reserved
        BY <1>0, <1>7
      <3>3. \A q \in Pfns : q < boot' <=> q < boot \/ q = boot
        BY <1>0, <1>3
      <3>4. \A q \in Pfns : q \in Reached' <=> q \in Reached \/ q = boot
        BY <3>2, <3>3 DEF Reached
      <3>5. Reached \subseteq Pfns /\ Reached' \subseteq Pfns
        BY DEF Reached
      <3> QED BY <1>1, <3>1, <3>4, <3>5
    <2>7. Run(boot, 0) = {boot} /\ boot % 2^0 = 0
      <3>1. 2^0 = 1
        OBVIOUS
      <3> QED BY <1>1, <3>1 DEF Run
    <2>8. Tiles({Block(boot, 0, "call")}, {boot}) /\ Covered({Block(boot, 0, "call")}) = {boot}
      BY <1>1, <2>7, TilesOne
    <2>9. Blocks' = Blocks \cup {Block(boot, 0, "call")} /\ Spare' = Spare \cup {Block(boot, 0, "call")}
      BY <1>4, <2>5 DEF Blocks, Spare
    <2>10. Tiles(Blocks', Reached')
      <3>1. Reached \cap {boot} = {}
        BY <2>6
      <3>2. Tiles(Blocks \cup {Block(boot, 0, "call")}, Reached \cup {boot})
        BY <1>0, <2>8, <3>1, TilesUnion
      <3> QED BY <2>6, <2>9, <3>2
    <2>11. Covered(Spare') = Covered(Spare) \cup {boot}
      BY <2>8, <2>9 DEF Covered
    <2>12. FlagInv'
      BY <1>0, <2>11 DEF PmmInv, FlagInv
    <2>13. CountInv'
      <3>1. IsFiniteSet(Covered(Spare)) /\ boot \notin Covered(Spare)
        BY <1>0, <2>6, SpareFinite
      <3>2. Cardinality(Covered(Spare) \cup {boot}) = Cardinality(Covered(Spare)) + 1
        BY <3>1, FS_AddElement
      <3> QED BY <2>1, <2>11, <3>2 DEF PmmInv, CountInv
    <2> QED BY <1>5, <2>4, <2>10, <2>12, <2>13 DEF PmmInv
  <1> QED BY <1>6, <1>7

-----------------------------------------------------------------------------
(* The invariant.                                                          *)

\* Every step keeps PmmInv, unless callers free blocks twice.
LEMMA PmmInductive ==
    ASSUME ~DoubleFrees
    PROVE  PmmInv /\ [Next]_vars => PmmInv'
  <1> SUFFICES ASSUME PmmInv, [Next]_vars PROVE PmmInv'
    OBVIOUS
  <1>1. CASE pmm_init
    BY <1>1, PmmInitStep
  <1>2. CASE Merge
    BY <1>2, MergeStep
  <1>3. CASE Insert
    BY <1>3, InsertStep
  <1>4. CASE Split
    BY <1>4, SplitStep
  <1>5. CASE Take
    BY <1>5, TakeStep
  <1>6. ASSUME NEW o \in Orders, pmm_alloc(o) PROVE PmmInv'
    BY <1>6, AllocStep
  <1>7. ASSUME NEW p \in Pfns, page_ref_inc(p) PROVE PmmInv'
    BY <1>7, RefIncStep
  <1>8. ASSUME NEW p \in Pfns, pmm_free(p) PROVE PmmInv'
    <2>1. p \in DOMAIN owned
      BY <1>8 DEF pmm_free, PmmInv, Types
    <2> QED BY <1>8, <2>1, LastFreeStep, RefDecStep
  <1>9. CASE UNCHANGED vars
    <2>1. Types' /\ UNCHANGED <<lists, nfree, boot, hand>> /\ owned' = owned /\ page' = page
      BY <1>9 DEF vars, PmmInv, Types
    <2>2. RefInv'
      BY <2>1 DEF PmmInv, RefInv
    <2> QED BY <2>1, <2>2, RefsOnly
  <1> QED BY <1>1, <1>2, <1>3, <1>4, <1>5, <1>6, <1>7, <1>8, <1>9 DEF Next

\* PmmInv holds after every step of every call, however many calls have been
\* made, if no caller frees a block that it has freed before.
THEOREM PmmInvariant ==
    ASSUME ~DoubleFrees
    PROVE  Spec => []PmmInv
  <1>1. PmmInv /\ [Next]_vars => PmmInv'
    BY PmmInductive
  <1> QED BY <1>1, PmmInitial, PTL DEF Spec

\* The parts of Partition from the tiling.
LEMMA InvPartition == PmmInv => Partition
  <1> SUFFICES ASSUME PmmInv PROVE Partition
    OBVIOUS
  <1>0. Types /\ Tiles(Blocks, Reached)
    BY DEF PmmInv
  <1>1. ASSUME NEW q \in Pfns
        PROVE  Cardinality({b \in Blocks : q \in Pages(b)})
                  = IF page[q].reserved \/ q >= boot THEN 0 ELSE 1
    <2>1. q \in Reached <=> ~(page[q].reserved \/ q >= boot)
      <3>1. boot \in 0..(MaxPfn + 1) /\ q \in 0..MaxPfn
        BY <1>0 DEF Types, Pfns
      <3>2. q < boot <=> ~(q >= boot)
        BY <3>1, PmmAssumption
      <3> QED BY <3>2 DEF Reached
    <2>2. CASE q \in Reached
      <3>1. PICK b \in Blocks : q \in Pages(b)
        BY <1>0, <2>2 DEF Tiles, Covered
      <3>2. \A c \in Blocks : q \in Pages(c) => c = b
        BY <1>0, <3>1 DEF Tiles
      <3>3. {c \in Blocks : q \in Pages(c)} = {b}
        BY <3>1, <3>2
      <3>4. Cardinality({b}) = 1
        BY FS_Singleton
      <3> QED BY <2>1, <2>2, <3>3, <3>4
    <2>3. CASE q \notin Reached
      <3>1. \A b \in Blocks : q \notin Pages(b)
        BY <1>0, <2>3 DEF Tiles
      <3>2. {b \in Blocks : q \in Pages(b)} = {}
        BY <3>1
      <3>3. Cardinality({}) = 0
        BY FS_EmptySet
      <3> QED BY <2>1, <2>3, <3>2, <3>3
    <2> QED BY <2>2, <2>3
  <1>2. \A b \in Blocks : Pages(b) \subseteq Pfns /\ b.pfn % 2^b.order = 0
    BY <1>0 DEF Tiles, Reached
  <1>3. nfree = Cardinality(Covered(FreeBlocks \cup HandBlocks))
    BY DEF PmmInv, CountInv, Spare
  <1>4. (\A p \in DOMAIN owned : page[p].ref = owned[p]) /\ \A o \in Orders : Unique(lists[o])
    BY <1>0 DEF PmmInv, RefInv, Types
  <1> QED BY <1>1, <1>2, <1>3, <1>4 DEF Partition

\* Memory is neither lost nor handed out twice: Partition holds after every
\* step of pmm_init, free_block, pmm_alloc and pmm_free, for any memory map.
THEOREM PmmPartition ==
    ASSUME ~DoubleFrees
    PROVE  Spec => []Partition
  BY PmmInvariant, InvPartition, PTL

\* A caller that frees what it holds never meets the kpanics of pmm_free.
THEOREM PmmHeldIsUsed ==
    ASSUME ~DoubleFrees
    PROVE  Spec => []HeldIsUsed
  <1>1. PmmInv => HeldIsUsed
    BY HeldUsed DEF HeldIsUsed
  <1> QED BY <1>1, PmmInvariant, PTL

\* A free run of order o that has no block of order o or more on a list has
\* two buddies on a list: the smallest block in it, and the block next to it.
LEMMA FullyCoalesced ==
    ASSUME PmmInv, NEW o \in Orders, ~Available(o), NEW p \in Pfns, p % 2^o = 0,
           Run(p, o) \subseteq Covered(FreeBlocks)
    PROVE  FALSE
  <1>0. Types /\ Tiles(Blocks, Reached) /\ p \in Nat /\ o \in Nat /\ o <= MaxOrder - 1
        /\ MaxOrder \in Nat \ {0}
    BY Basics DEF PmmInv
  <1>1. ASSUME NEW q \in Run(p, o)
        PROVE  \E k \in Orders : \E x \in Members(lists[k]) : q \in Run(x, k)
    <2>1. PICK b \in FreeBlocks : q \in Pages(b)
      BY DEF Covered
    <2>2. PICK k \in Orders : \E x \in Members(lists[k]) : b = Block(x, k, "list")
      BY DEF FreeBlocks
    <2>3. PICK x \in Members(lists[k]) : b = Block(x, k, "list")
      BY <2>2
    <2>4. x \in Nat /\ k \in Nat
      BY <1>0, Basics
    <2>5. Pages(b) = Run(x, k)
      BY <2>3, <2>4, BlockFields
    <2> QED BY <2>1, <2>5
  <1>2. ASSUME NEW k \in Orders, Members(lists[k]) # {}
        PROVE  k \in Nat /\ k < o
    <2>1. lists[k] # <<>>
      <3>1. Members(<<>>) = {}
        BY DEF Members
      <3> QED BY <1>2, <3>1
    <2>2. k \notin o..(MaxOrder - 1)
      BY <2>1 DEF Available
    <2> QED BY <1>0, <2>2 DEF Orders
  <1> DEFINE K == {k \in Orders : \E x \in Members(lists[k]) : Run(x, k) \cap Run(p, o) # {}}
  <1>3. K \subseteq Nat /\ K # {}
    <2>1. p \in Run(p, o)
      BY <1>0, RunStart
    <2> QED BY <1>0, <1>1, <2>1, Basics
  <1>4. PICK k \in K : \A j \in K : k <= j
    <2> HIDE DEF K
    <2> QED BY <1>3, LeastNumber
  <1>5. PICK x \in Members(lists[k]) : Run(x, k) \cap Run(p, o) # {}
    BY <1>4
  <1>6. k \in Orders /\ k \in Nat /\ k < o
    BY <1>2, <1>4, <1>5
  <1>7. x \in Nat /\ x % 2^k = 0 /\ x \in Run(x, k)
        /\ \A r \in Orders : \A y \in Members(lists[r]) : Run(x, k) \cap Run(y, r) # {} => x = y /\ k = r
    BY <1>0, <1>5, <1>6, OnList, Basics
  <1>8. x \in Run(p, o)
    <2>1. PICK q \in Run(x, k) : q \in Run(p, o)
      BY <1>5
    <2>2. Run(x, k) \subseteq Run(p, o)
      BY <1>0, <1>6, <1>7, <2>1, RunsNest
    <2> QED BY <1>7, <2>2
  <1>9. PICK b : b = buddy_pfn(x, k)
    OBVIOUS
  <1>10. b \in Nat /\ b # x /\ b % 2^k = 0 /\ b \in Run(b, k)
    BY <1>6, <1>7, <1>9, BuddyBack, RunStart
  <1>11. PICK m \in Nat : m % 2^(k + 1) = 0 /\ x \in Run(m, k + 1) /\ b \in Run(m, k + 1)
    <2>1. PICK m \in Nat : /\ m % 2^(k + 1) = 0
                           /\ (x = m /\ b = m + 2^k) \/ (x = m + 2^k /\ b = m)
      BY <1>6, <1>7, <1>9, BuddyHalves
    <2>2. Run(m, k + 1) = Run(m, k) \cup Run(m + 2^k, k)
      BY <1>6, <2>1, Halves
    <2> QED BY <1>7, <1>10, <2>1, <2>2
  <1>12. PICK l \in Nat : l = k + 1 /\ l <= o
    BY <1>0, <1>6
  <1>13. b \in Run(p, o)
    <2>1. Run(m, l) \subseteq Run(p, o)
      BY <1>0, <1>8, <1>11, <1>12, RunsNest
    <2> QED BY <1>11, <1>12, <2>1
  <1>14. PICK j \in Orders : \E y \in Members(lists[j]) : b \in Run(y, j)
    BY <1>1, <1>13
  <1>15. PICK y \in Members(lists[j]) : b \in Run(y, j)
    BY <1>14
  <1>16. y \in Nat /\ j \in Nat /\ y % 2^j = 0 /\ j \in K
    BY <1>0, <1>13, <1>15, OnList, Basics
  <1>17. CASE j = k
    <2>1. y = b
      BY <1>6, <1>10, <1>15, <1>16, <1>17, RunsEqual
    <2>2. k < MaxOrder - 1
      BY <1>0, <1>6
    <2> QED BY <1>5, <1>6, <1>9, <1>15, <1>17, <2>1, <2>2 DEF PmmInv, Coalesced
  <1>18. CASE j # k
    <2>1. l <= j
      BY <1>4, <1>6, <1>12, <1>16, <1>18
    <2>2. Run(m, l) \subseteq Run(y, j)
      BY <1>11, <1>12, <1>15, <1>16, <2>1, RunsNest
    <2>3. x \in Run(y, j)
      BY <1>11, <1>12, <2>2
    <2> QED BY <1>7, <1>14, <1>15, <1>18, <2>3
  <1> QED BY <1>17, <1>18

\* pmm_alloc(o) only fails when there is no aligned run of 2^o free pages, at
\* any time, for any memory map and after any calls.
THEOREM PmmFailsOnlyWhenFull ==
    ASSUME ~DoubleFrees
    PROVE  Spec => []FailsOnlyWhenFull
  <1>1. PmmInv => FailsOnlyWhenFull
    BY FullyCoalesced DEF FailsOnlyWhenFull
  <1> QED BY <1>1, PmmInvariant, PTL

-----------------------------------------------------------------------------
(* The buddy allocator implements PageAlloc.                               *)

\* The refinement mapping of ImplementsPageAlloc.
Usable == {p \in Pfns : ~page[p].reserved}
Holds  == [p \in DOMAIN owned |-> [order |-> page[p].order, ref |-> page[p].ref]]

\* A step that only writes to pages no caller holds changes nothing for them.
LEMMA SpareWrites ==
    ASSUME PmmInv, owned' = owned,
           \A q \in Pfns : q \notin Covered(Spare) => page'[q] = page[q],
           \A q \in Pfns : page'[q].reserved = page[q].reserved
    PROVE  UNCHANGED <<Usable, Holds>>
  <1>1. Usable' = Usable
    BY DEF Usable
  <1>2. \A p \in DOMAIN owned : page'[p] = page[p]
    BY HeldApart DEF PmmInv
  <1> QED BY <1>1, <1>2 DEF Holds

\* The iterations of free_block and of the loop that splits only write there.
LEMMA LoopsWriteSpare ==
    ASSUME PmmInv, Merge \/ Insert \/ Split
    PROVE  UNCHANGED <<Usable, Holds>>
  <1>0. Types /\ Tiles(Blocks, Reached) /\ hand # NoBlock /\ page \in [Pfns -> PageType]
        /\ owned' = owned
    BY DEF PmmInv, Types, Merge, Insert, Split, NoBlock
  <1>1. PICK p, o : p = hand.pfn /\ o = hand.order
    OBVIOUS
  <1>2. p \in Pfns /\ o \in Orders /\ p \in Run(p, o) /\ Run(p, o) \subseteq Reached
        /\ HandBlocks = {Block(p, o, "call")} /\ p \in Nat /\ o \in Nat /\ p % 2^o = 0
    BY <1>0, <1>1, InHand, Basics
  <1>3. Run(p, o) \subseteq Covered(Spare)
    <2>1. Pages(Block(p, o, "call")) = Run(p, o)
      BY <1>2, BlockFields
    <2> QED BY <1>2, <2>1 DEF Spare, Covered
  <1>4. ASSUME NEW h \in Covered(Spare), h \in Pfns, NEW w, w.reserved = page[h].reserved,
               page' = [page EXCEPT ![h] = w]
        PROVE  UNCHANGED <<Usable, Holds>>
    <2>1. \A q \in Pfns : q # h => page'[q] = page[q]
      BY <1>0, <1>4
    <2>2. page'[h] = w
      BY <1>0, <1>4
    <2>3. \A q \in Pfns : page'[q].reserved = page[q].reserved
      BY <1>4, <2>1, <2>2
    <2> QED BY <1>0, <2>1, <2>3, SpareWrites
  <1>5. CASE Merge
    <2>1. PICK b, h : b = buddy_pfn(p, o) /\ h = IF b < p THEN b ELSE p
      OBVIOUS
    <2>2. b \in Members(lists[o])
      BY <1>0, <1>1, <1>5, <2>1, MergeableIsListed DEF Merge
    <2>3. b \in Covered(Spare) /\ b \in Pfns
      <3>1. b \in Pfns /\ b \in Nat /\ b \in Run(b, o)
        BY <1>0, <1>2, <2>2, OnList, Basics
      <3>2. Pages(Block(b, o, "list")) = Run(b, o)
        BY <1>2, <3>1, BlockFields
      <3>3. Block(b, o, "list") \in Spare
        BY <1>2, <2>2 DEF Spare, FreeBlocks
      <3> QED BY <3>1, <3>2, <3>3 DEF Covered
    <2>4. h \in Covered(Spare) /\ h \in Pfns
      BY <1>2, <1>3, <2>1, <2>3
    <2>5. PICK w : w = [page[h] EXCEPT !.order = hand.order + 1]
      OBVIOUS
    <2>6. w.reserved = page[h].reserved
      BY <1>0, <2>4, <2>5 DEF PageType
    <2>7. page' = [page EXCEPT ![h] = w]
      BY <1>1, <1>5, <2>1, <2>5 DEF Merge
    <2> QED BY <1>4, <2>4, <2>6, <2>7
  <1>6. CASE Insert
    <2>1. PICK w : w = [page[p] EXCEPT !.free = TRUE, !.used = FALSE, !.order = o]
      OBVIOUS
    <2>2. w.reserved = page[p].reserved
      BY <1>0, <1>2, <2>1 DEF PageType
    <2>3. page' = [page EXCEPT ![p] = w]
      BY <1>1, <1>6, <2>1 DEF Insert
    <2> QED BY <1>2, <1>3, <1>4, <2>2, <2>3
  <1>7. CASE Split
    <2>1. PICK r, b : r = o - 1 /\ b = p + 2^r
      OBVIOUS
    <2>2. r \in Nat /\ r + 1 = o
      <3>1. hand.want \in Orders
        BY <1>0 DEF Types, HandType
      <3> QED BY <1>0, <1>1, <1>2, <1>7, <2>1, <3>1, Basics DEF Split
    <2>3. b \in Run(p, o)
      <3>1. p % 2^(r + 1) = 0
        BY <1>2, <2>2
      <3>2. b \in Nat /\ Run(p, r + 1) = Run(p, r) \cup Run(b, r)
        BY <1>2, <2>1, <2>2, <3>1, Halves
      <3>3. b \in Run(b, r)
        BY <2>2, <3>2, RunStart
      <3> QED BY <2>2, <3>2, <3>3
    <2>4. b \in Covered(Spare) /\ b \in Pfns /\ ~page[b].reserved
      BY <1>2, <1>3, <2>3 DEF Reached
    <2>5. PICK w : w = [free |-> TRUE, used |-> FALSE, reserved |-> FALSE,
                        order |-> r, ref |-> page[b].ref]
      OBVIOUS
    <2>6. w.reserved = page[b].reserved
      BY <1>0, <2>4, <2>5 DEF PageType
    <2>7. page' = [page EXCEPT ![b] = w]
      BY <1>1, <1>7, <2>1, <2>5 DEF Split
    <2> QED BY <1>4, <2>4, <2>6, <2>7
  <1> QED BY <1>5, <1>6, <1>7

\* pmm_alloc returns a block that PageAlloc may return.
LEMMA TakeIsAlloc ==
    ASSUME PmmInv, Take
    PROVE  Promise!Alloc /\ Usable' = Usable
  <1>0. Types /\ Tiles(Blocks, Reached) /\ page \in [Pfns -> PageType]
    BY DEF PmmInv, Types
  <1>1. PICK p, o : p = hand.pfn /\ o = hand.order
    OBVIOUS
  <1>2. hand # NoBlock
    BY DEF Take, NoBlock
  <1>3. p \in Pfns /\ o \in Orders /\ p \in Run(p, o) /\ Run(p, o) \subseteq Reached
        /\ HandBlocks = {Block(p, o, "call")} /\ p \in Nat /\ o \in Nat /\ p % 2^o = 0
    BY <1>0, <1>1, <1>2, InHand, Basics
  <1>4. Run(p, o) \subseteq Covered(Spare)
    <2>1. Pages(Block(p, o, "call")) = Run(p, o)
      BY <1>3, BlockFields
    <2> QED BY <1>3, <2>1 DEF Spare, Covered
  <1>5. /\ \A q \in Pfns : q \notin Run(p, o) => page'[q] = page[q]
        /\ \A q \in Run(p, o) : page'[q].reserved = FALSE
        /\ page'[p].order = o /\ page'[p].ref = 1
    <2>1. PICK w : w = [free |-> FALSE, used |-> TRUE, reserved |-> FALSE, order |-> o, ref |-> 1]
      OBVIOUS
    <2>2. PICK h : h = Taken(page[p], o)
      OBVIOUS
    <2>3. \A q \in Run(p, o) : q \in Pfns /\ page[q].reserved = FALSE
      BY <1>0, <1>3 DEF Reached, PageType
    <2>4. h.reserved = FALSE /\ h.order = o /\ h.ref = 1 /\ w.reserved = FALSE
      BY <1>3, <2>1, <2>2, <2>3 DEF Taken
    <2>5. page' = [q \in Pfns |-> IF q = p THEN h ELSE IF q \in Run(p, o) THEN w ELSE page[q]]
      BY <1>1, <2>1, <2>2 DEF Take
    <2> QED BY <1>3, <2>3, <2>4, <2>5
  <1>6. Usable' = Usable
    <2>1. \A q \in Pfns : page'[q].reserved = page[q].reserved
      BY <1>0, <1>3, <1>5 DEF Reached, PageType
    <2> QED BY <2>1 DEF Usable
  <1>7. Run(p, o) \subseteq Usable
    BY <1>3 DEF Reached, Usable
  <1>8. \A x \in DOMAIN owned : x \in Pfns /\ x \notin Run(p, o) /\ x # p
                                /\ Run(x, page[x].order) \cap Run(p, o) = {}
    BY <1>0, <1>3, <1>4, HeldApart
  <1>9. DOMAIN Holds = DOMAIN owned
        /\ \A x \in DOMAIN owned : Holds[x] = [order |-> page[x].order, ref |-> page[x].ref]
    BY DEF Holds
  <1>10. Promise!Used(Holds) \cap Run(p, o) = {}
    <2>1. \A x \in DOMAIN owned : Holds[x].order = page[x].order
      BY <1>9
    <2>2. \A x \in DOMAIN owned : Promise!Run(x, Holds[x].order) = Run(x, page[x].order)
      BY <2>1 DEF Promise!Run, Run
    <2> QED BY <1>8, <1>9, <2>2 DEF Promise!Used
  <1>11. p \in Promise!FreeRuns(Usable, Holds, o)
    <2>1. Promise!Run(p, o) = Run(p, o)
      BY DEF Promise!Run, Run
    <2> QED BY <1>3, <1>7, <1>10, <2>1 DEF Promise!FreeRuns
  <1>12. Holds' = Promise!Took(Holds, p, o)
    <2>1. DOMAIN owned' = DOMAIN owned \cup {p}
      BY <1>1 DEF Take
    <2>2. Holds' = [q \in DOMAIN owned \cup {p} |-> [order |-> page'[q].order, ref |-> page'[q].ref]]
      BY <2>1 DEF Holds
    <2>3. \A q \in DOMAIN owned \cup {p} : [order |-> page'[q].order, ref |-> page'[q].ref]
              = IF q = p THEN [order |-> o, ref |-> 1] ELSE Holds[q]
      BY <1>5, <1>8, <1>9
    <2> QED BY <1>9, <2>2, <2>3 DEF Promise!Took
  <1>13. o \in 0..(MaxOrder - 1)
    BY <1>3 DEF Orders
  <1> QED BY <1>6, <1>11, <1>12, <1>13 DEF Promise!Alloc, Usable, Holds

\* page_ref_inc takes one reference.
LEMMA RefIncIsRef ==
    ASSUME PmmInv, NEW p \in Pfns, page_ref_inc(p)
    PROVE  Promise!Ref /\ Usable' = Usable
  <1>0. p \in DOMAIN owned /\ page \in [Pfns -> PageType] /\ DOMAIN owned' = DOMAIN owned
        /\ DOMAIN owned \subseteq Pfns
    BY DEF page_ref_inc, PmmInv, Types
  <1>1. PICK w : w = [page[p] EXCEPT !.ref = @ + 1]
    OBVIOUS
  <1>2. w.reserved = page[p].reserved /\ w.order = page[p].order /\ w.ref = page[p].ref + 1
    BY <1>0, <1>1 DEF PageType
  <1>3. page' = [page EXCEPT ![p] = w]
    BY <1>1 DEF page_ref_inc
  <1>4. page'[p] = w /\ \A q \in Pfns : q # p => page'[q] = page[q]
    BY <1>0, <1>3
  <1>5. Usable' = Usable
    BY <1>2, <1>4 DEF Usable
  <1>6. Holds' = [Holds EXCEPT ![p].ref = @ + 1]
    <2>1. PICK h : h = [q \in DOMAIN owned |-> IF q = p THEN [order |-> page[p].order, ref |-> page[p].ref + 1]
                                               ELSE [order |-> page[q].order, ref |-> page[q].ref]]
      OBVIOUS
    <2>2. Holds' = h
      BY <1>0, <1>2, <1>4, <2>1 DEF Holds
    <2>3. Holds[p] = [order |-> page[p].order, ref |-> page[p].ref]
      BY <1>0 DEF Holds
    <2>4. [Holds[p] EXCEPT !.ref = @ + 1] = [order |-> page[p].order, ref |-> page[p].ref + 1]
      BY <2>3
    <2>5. [Holds EXCEPT ![p].ref = @ + 1] = h
      BY <2>1, <2>4 DEF Holds
    <2> QED BY <2>2, <2>5
  <1>7. p \in DOMAIN Holds
    BY <1>0 DEF Holds
  <1> QED BY <1>5, <1>6, <1>7 DEF Promise!Ref, Usable, Holds

\* pmm_free gives one reference up, and the block with the last one.
LEMMA FreeIsFree ==
    ASSUME PmmInv, NEW p \in DOMAIN owned, pmm_free(p)
    PROVE  Promise!Free /\ Usable' = Usable
  <1>0. /\ Types /\ Tiles(Blocks, Reached) /\ ~page[p].free /\ ~page[p].reserved /\ p \in Pfns
        /\ page \in [Pfns -> PageType] /\ page[p] \in PageType
        /\ owned[p] \in Nat \ {0} /\ page[p].ref = owned[p] /\ DOMAIN owned \subseteq Pfns
    BY HeldUsed DEF PmmInv, Types, RefInv
  <1>1. p \in DOMAIN Holds /\ DOMAIN Holds = DOMAIN owned
        /\ \A q \in DOMAIN owned : Holds[q] = [order |-> page[q].order, ref |-> page[q].ref]
    BY DEF Holds
  <1>2. Holds[p].ref = page[p].ref
    BY <1>1
  <1>3. owned' = Dropped(p)
    BY <1>0 DEF pmm_free
  <1>4. PICK h : h = [page[p] EXCEPT !.ref = @ - 1]
    OBVIOUS
  <1>5. h.reserved = page[p].reserved /\ h.order = page[p].order /\ h.ref = page[p].ref - 1
    BY <1>0, <1>4 DEF PageType
  <1>6. CASE page[p].ref # 1
    <2>1. page' = [page EXCEPT ![p] = h]
      BY <1>0, <1>4, <1>6 DEF pmm_free
    <2>2. page'[p] = h /\ \A q \in Pfns : q # p => page'[q] = page[q]
      BY <1>0, <2>1
    <2>3. Usable' = Usable
      BY <1>5, <2>2 DEF Usable
    <2>4. DOMAIN owned' = DOMAIN owned
      BY <1>0, <1>3, <1>6 DEF Dropped
    <2>5. Holds' = [Holds EXCEPT ![p].ref = @ - 1]
      <3>1. PICK g : g = [q \in DOMAIN owned |->
                             IF q = p THEN [order |-> page[p].order, ref |-> page[p].ref - 1]
                             ELSE [order |-> page[q].order, ref |-> page[q].ref]]
        OBVIOUS
      <3>2. Holds' = g
        BY <1>0, <1>5, <2>2, <2>4, <3>1 DEF Holds
      <3>3. [Holds[p] EXCEPT !.ref = @ - 1] = [order |-> page[p].order, ref |-> page[p].ref - 1]
        BY <1>1
      <3>4. [Holds EXCEPT ![p].ref = @ - 1] = g
        BY <3>1, <3>3 DEF Holds
      <3> QED BY <3>2, <3>4
    <2>6. Holds' = Promise!Gave(Holds, p)
      <3>1. Holds[p].ref > 1
        BY <1>0, <1>2, <1>6
      <3> QED BY <2>5, <3>1 DEF Promise!Gave
    <2> QED BY <1>1, <2>3, <2>6 DEF Promise!Free, Usable, Holds
  <1>7. CASE page[p].ref = 1
    <2>1. PICK o : o = page[p].order
      OBVIOUS
    <2>2. p \in Run(p, o) /\ Run(p, o) \subseteq Reached
      BY <1>0, <2>1, HeldApart
    <2>3. page' = Cleared(p)
      BY <1>0, <1>7 DEF pmm_free
    <2>4. /\ \A q \in Pfns : q \notin Run(p, o) => page'[q] = page[q]
          /\ \A q \in Pfns : page'[q].reserved = page[q].reserved
      <3>1. PICK f : f = [q \in Pfns |-> [free |-> FALSE, used |-> FALSE, reserved |-> FALSE,
                                          order |-> page[q].order, ref |-> 0]]
        OBVIOUS
      <3>2. \A q \in Pfns : f[q].reserved = FALSE
        BY <3>1
      <3>3. page' = [q \in Pfns |-> IF q = p THEN h ELSE IF q \in Run(p, o) THEN f[q] ELSE page[q]]
        BY <1>4, <2>1, <2>3, <3>1 DEF Cleared
      <3>4. \A q \in Run(p, o) : page[q].reserved = FALSE
        BY <1>0, <2>2 DEF Reached, PageType
      <3> QED BY <1>0, <1>5, <2>2, <3>2, <3>3, <3>4
    <2>5. Usable' = Usable
      BY <2>4 DEF Usable
    <2>6. DOMAIN owned' = DOMAIN owned \ {p}
      BY <1>0, <1>3, <1>7 DEF Dropped
    <2>7. \A x \in DOMAIN owned \ {p} : x \in Pfns /\ x \notin Run(p, o)
      <3> SUFFICES ASSUME NEW x \in DOMAIN owned, x # p, x \in Run(p, o) PROVE FALSE
        BY <1>0
      <3>1. x \in Nat /\ p \in Nat /\ o \in Nat /\ page[x].order \in Nat /\ x \in Run(x, page[x].order)
        BY <1>0, <2>1, HeldApart, Basics DEF PageType
      <3>2. PICK b, c : b = Block(x, page[x].order, "caller") /\ c = Block(p, o, "caller")
        OBVIOUS
      <3>3. Pages(b) = Run(x, page[x].order) /\ Pages(c) = Run(p, o) /\ b.pfn = x /\ c.pfn = p
        BY <3>1, <3>2, BlockFields
      <3>4. b \in Blocks /\ c \in Blocks
        BY <2>1, <3>2 DEF Blocks, HeldBlocks
      <3>5. b = c
        BY <1>0, <3>1, <3>3, <3>4 DEF Tiles
      <3> QED BY <3>3, <3>5
    <2>8. Holds' = [q \in DOMAIN Holds \ {p} |-> Holds[q]]
      <3>1. \A q \in DOMAIN owned \ {p} : page'[q] = page[q]
        BY <2>4, <2>7
      <3>2. Holds' = [q \in DOMAIN owned \ {p} |-> [order |-> page'[q].order, ref |-> page'[q].ref]]
        BY <2>6 DEF Holds
      <3> QED BY <1>1, <3>1, <3>2
    <2>9. Holds' = Promise!Gave(Holds, p)
      <3>1. ~(Holds[p].ref > 1)
        BY <1>2, <1>7
      <3> QED BY <2>8, <3>1 DEF Promise!Gave
    <2> QED BY <1>1, <2>5, <2>9 DEF Promise!Free, Usable, Holds
  <1> QED BY <1>6, <1>7

\* The buddy allocator implements PageAlloc: a block that pmm_alloc returns is
\* an aligned run of pages that no holder has, pmm_free makes its pages
\* available with the last reference, and merging, splitting and the frees of
\* pmm_init change nothing that a holder sees.
THEOREM PmmImplementsPageAlloc ==
    ASSUME ~DoubleFrees
    PROVE  Spec => ImplementsPageAlloc
  <1> DEFINE Step == (Promise!Alloc \/ Promise!Ref \/ Promise!Free) /\ Usable' = Usable
             Same == UNCHANGED <<Usable, Holds>>
  <1>1. Init => Holds = [p \in {} |-> 0]
    BY DEF Init, Holds
  <1>2. ASSUME PmmInv, [Next]_vars PROVE Step \/ Same
    <2>1. CASE pmm_init
      BY <2>1 DEF pmm_init, Usable, Holds
    <2>2. CASE Merge \/ Insert \/ Split
      BY <1>2, <2>2, LoopsWriteSpare
    <2>3. CASE Take
      BY <1>2, <2>3, TakeIsAlloc
    <2>4. ASSUME NEW o \in Orders, pmm_alloc(o) PROVE Same
      BY <2>4 DEF pmm_alloc, Usable, Holds
    <2>5. ASSUME NEW p \in Pfns, page_ref_inc(p) PROVE Step
      BY <1>2, <2>5, RefIncIsRef
    <2>6. ASSUME NEW p \in Pfns, pmm_free(p) PROVE Step
      <3>1. p \in DOMAIN owned
        BY <1>2, <2>6 DEF pmm_free, PmmInv, Types
      <3> QED BY <1>2, <2>6, <3>1, FreeIsFree
    <2>7. CASE UNCHANGED vars
      BY <2>7 DEF vars, Usable, Holds
    <2> QED BY <1>2, <2>1, <2>2, <2>3, <2>4, <2>5, <2>6, <2>7 DEF Next
  <1>3. PmmInv /\ [Next]_vars =>
           [(Promise!Alloc \/ Promise!Ref \/ Promise!Free) /\ UNCHANGED Usable]_<<Usable, Holds>>
    BY <1>2
  <1> QED BY <1>1, <1>3, PmmInvariant, PTL DEF Spec, ImplementsPageAlloc, Promise!Spec, Usable, Holds
=============================================================================
