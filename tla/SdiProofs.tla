----------------------------- MODULE SdiProofs -----------------------------
(***************************************************************************)
(* Proofs about Sdi.tla for any drivers, lines, instances and capacity:    *)
(* the registry stays sound through nested registrations, and no           *)
(* interrupt reaches a handler whose instance is gone.                     *)
(*                                                                         *)
(* SdiInv is inductive.  RegistryInv is about the registry alone; HostTypes *)
(* to RunInv say, for each step of a start or stop, which of the line's    *)
(* binding, vector and mask, and of the instance's fields, are set.        *)
(***************************************************************************)
EXTENDS Sdi, ProofFacts

\* What a registry can hold: drivers that passed the checks.
Accepted == {d \in Registrable : d.supported}
Entries  == [handle : Nat \ {0}, driver : Accepted]
Registries ==
    [slots : [1..SDI_REGISTRY_CAPACITY -> Entries \cup {FREE}], max : 0..SDI_REGISTRY_CAPACITY,
     count : Int, next : Nat \ {0}, up : BOOLEAN, lost : Nat]

\* The registry's part of the inductive invariant.
RegistryInv(r) ==
    /\ r \in Registries
    /\ \A i \in 1..SDI_REGISTRY_CAPACITY : i > r.max => r.slots[i] = FREE
    /\ \A i \in Used(r) : r.slots[i].handle < r.next
    /\ \A i, j \in Used(r) :
          \/ r.slots[i].handle = r.slots[j].handle
          \/ r.slots[i].driver.name = r.slots[j].driver.name
          => i = j
    /\ r.count = Cardinality(Used(r)) + r.lost

Records == [driver : Accepted, handle : Nat, irq : Lines \cup {0}, running : BOOLEAN]

HostTypes ==
    /\ DOMAIN insts \subseteq Instances
    /\ \A i \in DOMAIN insts : insts[i] \in Records
    /\ bindings \in [Lines -> Instances \cup {0}]
    /\ vectors \subseteq Lines /\ masked \subseteq Lines

\* Where the thread is and what it has done so far.
Loads  == task.at \in {"probe", "attach"}
Starts == task.at \in {"start", "bind", "vector", "route"}
Bound  == task.at \in {"vector", "route"}
Stops  == task.at \in {"unvector", "unbind"}

TaskInv ==
    /\ Loads => \E k \in Used(g) : g.slots[k].handle = task.handle
    /\ Starts \/ Stops => task.inst \in DOMAIN insts /\ Has(task.inst, "start")
    /\ Starts => ~insts[task.inst].running
    /\ Bound => bindings[LineOf(task.inst)] = task.inst
    /\ Stops => insts[task.inst].running /\ LineOf(task.inst) \in masked

\* The line's vector is still to be installed, or is already removed.
Bare(l) == task.at \in {"vector", "unbind"} /\ LineOf(task.inst) = l

LineInv ==
    \A l \in Lines :
        /\ bindings[l] # 0 =>
              /\ bindings[l] \in DOMAIN insts /\ LineOf(bindings[l]) = l
              /\ insts[bindings[l]].running \/ (Bound /\ task.inst = bindings[l])
        /\ l \in vectors <=> bindings[l] # 0 /\ ~Bare(l)
        /\ bindings[l] = 0 => l \in masked

RunInv ==
    \A i \in DOMAIN insts :
        IF insts[i].running
        THEN Has(i, "start") /\ insts[i].irq = LineOf(i) /\ bindings[LineOf(i)] = i
        ELSE insts[i].irq = 0

SdiInv == RegistryInv(g) /\ HostTypes /\ TaskInv /\ LineInv /\ RunInv

-----------------------------------------------------------------------------
(* Loops over the slots.                                                   *)

\* First gives an element of the set, the least one, and 0 for no set but
\* the empty one.
LEMMA FirstFits ==
    ASSUME NEW S, S \subseteq Nat \ {0}
    PROVE  /\ S = {} => First(S) = 0
           /\ S # {} => First(S) \in S /\ First(S) # 0
  <1>1. CASE S = {}
    BY <1>1 DEF First
  <1>2. CASE S # {}
    <2>1. \E x \in S : \A y \in S : x <= y
      BY <1>2, LeastNumber
    <2>2. Min(S) \in S
      BY <2>1 DEF Min
    <2> QED BY <1>2, <2>2 DEF First
  <1> QED BY <1>1, <1>2

\* An entry is not a free slot.
LEMMA EntryNotFree ==
    ASSUME NEW h \in Nat \ {0}, NEW d
    PROVE  [handle |-> h, driver |-> d] # FREE
  <1>1. [handle |-> h, driver |-> d].handle = h /\ FREE.handle = 0
    BY DEF FREE
  <1> QED BY <1>1

\* The used slots are finitely many of the slots there are, and hold entries.
LEMMA UsedFacts ==
    ASSUME NEW r \in Registries
    PROVE  /\ Used(r) \subseteq 1..r.max /\ 1..r.max \subseteq 1..SDI_REGISTRY_CAPACITY
           /\ IsFiniteSet(Used(r)) /\ Cardinality(Used(r)) \in Nat
           /\ \A i \in Used(r) : r.slots[i] \in Entries
           /\ \A i \in Used(r) : i \in Nat \ {0}
  <1>1. r.max \in Nat /\ r.max <= SDI_REGISTRY_CAPACITY
    BY CapacityNat DEF Registries
  <1>2. Used(r) \subseteq 1..r.max /\ 1..r.max \subseteq 1..SDI_REGISTRY_CAPACITY
    BY <1>1, CapacityNat DEF Used
  <1>3. IsFiniteSet(1..r.max)
    BY <1>1, FS_Interval
  <1>4. IsFiniteSet(Used(r)) /\ Cardinality(Used(r)) \in Nat
    BY <1>2, <1>3, FS_Subset, FS_CardinalityType
  <1>5. \A i \in Used(r) : r.slots[i] \in Entries
    BY <1>2 DEF Used, Registries
  <1> QED BY <1>1, <1>2, <1>4, <1>5

\* A handle in use leads to its slot.
LEMMA EntryFound ==
    ASSUME NEW r \in Registries, NEW k \in Used(r), NEW h, h = r.slots[k].handle
    PROVE  /\ sdi_entry_from_handle(r, h) \in Used(r)
           /\ r.slots[sdi_entry_from_handle(r, h)].handle = h
  <1> DEFINE S == {i \in Used(r) : h # 0 /\ r.slots[i].handle = h}
  <1>1. h \in Nat \ {0}
    BY UsedFacts DEF Entries
  <1>2. S \subseteq Nat \ {0} /\ k \in S
    BY <1>1, UsedFacts
  <1>3. First(S) \in S
    BY <1>2, FirstFits
  <1> QED BY <1>3 DEF sdi_entry_from_handle

\* sdi_entry_from_handle gives a used slot with the handle, or 0.
LEMMA EntryIsUsed ==
    ASSUME NEW r \in Registries, NEW h, sdi_entry_from_handle(r, h) # 0
    PROVE  sdi_entry_from_handle(r, h) \in Used(r)
  <1> DEFINE S == {i \in Used(r) : h # 0 /\ r.slots[i].handle = h}
  <1>1. S \subseteq Nat \ {0}
    BY UsedFacts
  <1>2. First(S) # 0 => First(S) \in S
    BY <1>1, FirstFits
  <1> QED BY <1>2 DEF sdi_entry_from_handle

\* sdi_find_driver gives the handle of an entry with the name, or 0 when
\* there is no such entry.
LEMMA DriverFound ==
    ASSUME NEW r \in Registries, NEW name
    PROVE  /\ sdi_find_driver(r, name) = 0 =>
                 \A i \in Used(r) : r.slots[i].driver.name # name
           /\ sdi_find_driver(r, name) # 0 =>
                 \E i \in Used(r) : /\ r.slots[i].driver.name = name
                                    /\ r.slots[i].handle = sdi_find_driver(r, name)
  <1> DEFINE S == {i \in Used(r) : r.slots[i].driver.name = name}
  <1>1. S \subseteq Nat \ {0}
    BY UsedFacts
  <1>2. /\ S = {} => First(S) = 0
        /\ S # {} => First(S) \in S /\ First(S) # 0
    BY <1>1, FirstFits
  <1>3. sdi_find_driver(r, name) = HandleAt(r, First(S))
    BY DEF sdi_find_driver
  <1>4. CASE S = {}
    <2>1. sdi_find_driver(r, name) = 0
      BY <1>2, <1>3, <1>4 DEF HandleAt
    <2> QED BY <1>4, <2>1
  <1>5. CASE S # {}
    <2>1. First(S) \in Used(r) /\ r.slots[First(S)].driver.name = name
      BY <1>2, <1>5
    <2>2. sdi_find_driver(r, name) = r.slots[First(S)].handle
      BY <1>2, <1>3, <1>5 DEF HandleAt
    <2>3. r.slots[First(S)].handle # 0
      BY <2>1, UsedFacts DEF Entries
    <2> QED BY <2>1, <2>2, <2>3
  <1> QED BY <1>4, <1>5

-----------------------------------------------------------------------------
(* The operations of the registry keep its invariant.                      *)

\* Assignments of the right type leave a registry.
LEMMA RegistryUpdate ==
    ASSUME NEW r \in Registries, NEW c \in Int, NEW k \in Nat \ {0}, NEW m \in Nat,
           NEW s \in [1..SDI_REGISTRY_CAPACITY -> Entries \cup {FREE}]
    PROVE  /\ [r EXCEPT !.next = k] \in Registries
           /\ [r EXCEPT !.slots = s, !.count = c, !.next = k, !.lost = m] \in Registries
  BY DEF Registries

\* The states that sdi_init and sdi_shutdown leave.
LEMMA EmptyInv ==
    ASSUME NEW n \in 0..SDI_REGISTRY_CAPACITY, NEW up \in BOOLEAN, NEW k \in Nat \ {0}
    PROVE  RegistryInv(Empty(n, up)) /\ RegistryInv([Empty(n, up) EXCEPT !.next = k])
  <1>1. PICK e : e = Empty(n, up)
    OBVIOUS
  <1>2. e \in Registries
    BY <1>1 DEF Empty, Registries
  <1>3. PICK r : r = [e EXCEPT !.next = k]
    OBVIOUS
  <1>4. r \in Registries /\ r.slots = e.slots /\ r.count = e.count /\ r.lost = e.lost
    BY <1>2, <1>3, RegistryUpdate DEF Registries
  <1>5. e.slots = [i \in 1..SDI_REGISTRY_CAPACITY |-> FREE] /\ e.count = 0 /\ e.lost = 0
    BY <1>1 DEF Empty
  <1>6. ASSUME NEW x \in {e, r} PROVE RegistryInv(x)
    <2>1. x \in Registries /\ x.count = 0 /\ x.lost = 0
      BY <1>2, <1>4, <1>5
    <2>2. \A i \in 1..SDI_REGISTRY_CAPACITY : x.slots[i] = FREE
      BY <1>4, <1>5
    <2>3. Used(x) = {}
      BY <2>1, <2>2, UsedFacts DEF Used
    <2>4. Cardinality({}) = 0
      BY FS_EmptySet
    <2> QED BY <2>1, <2>2, <2>3, <2>4 DEF RegistryInv
  <1> QED BY <1>1, <1>3, <1>6

\* A driver is put in a free slot under a handle that is not given out, with
\* m entries written over before.
Put(r, i, h, d, m) ==
    [r EXCEPT !.slots[i] = [handle |-> h, driver |-> d], !.count = @ + 1 + m,
              !.next = h + 1, !.lost = @ + m]

LEMMA PutInv ==
    ASSUME NEW r, RegistryInv(r), NEW i \in 1..r.max, r.slots[i] = FREE,
           NEW h \in Nat, h >= r.next, NEW d \in Accepted, NEW m \in Nat,
           \A j \in Used(r) : r.slots[j].driver.name # d.name
    PROVE  RegistryInv(Put(r, i, h, d, m))
  <1> DEFINE n == Put(r, i, h, d, m)
  <1>0. r \in Registries
    BY DEF RegistryInv
  <1>1. i \in 1..SDI_REGISTRY_CAPACITY /\ h \in Nat \ {0} /\ r.max \in Nat
    BY <1>0, UsedFacts, CapacityNat DEF Registries
  <1>2. /\ n.slots = [r.slots EXCEPT ![i] = [handle |-> h, driver |-> d]]
        /\ n.max = r.max /\ n.count = r.count + 1 + m /\ n.next = h + 1
        /\ n.up = r.up /\ n.lost = r.lost + m
    BY <1>0 DEF Put, Registries
  <1>3. [handle |-> h, driver |-> d] \in Entries
    BY <1>1 DEF Entries
  <1>4. n \in Registries
    <2>1. /\ [r.slots EXCEPT ![i] = [handle |-> h, driver |-> d]]
               \in [1..SDI_REGISTRY_CAPACITY -> Entries \cup {FREE}]
          /\ r.count + 1 + m \in Int /\ h + 1 \in Nat \ {0} /\ r.lost + m \in Nat
      BY <1>0, <1>1, <1>3 DEF Registries
    <2> QED BY <1>0, <2>1, RegistryUpdate DEF Put
  <1>5. /\ n.slots[i] = [handle |-> h, driver |-> d]
        /\ \A j \in 1..SDI_REGISTRY_CAPACITY : j # i => n.slots[j] = r.slots[j]
    BY <1>0, <1>1, <1>2 DEF Registries
  <1>6. [handle |-> h, driver |-> d] # FREE
    BY <1>1, EntryNotFree
  <1>7. Used(n) = Used(r) \cup {i} /\ i \notin Used(r)
    BY <1>0, <1>1, <1>2, <1>5, <1>6, UsedFacts DEF Used
  <1>8. Cardinality(Used(n)) = Cardinality(Used(r)) + 1
    BY <1>0, <1>7, UsedFacts, FS_AddElement
  <1>9. n.count = Cardinality(Used(n)) + n.lost
    <2>1. /\ r.count = Cardinality(Used(r)) + r.lost
          /\ r.lost \in Nat /\ Cardinality(Used(r)) \in Nat
      BY <1>0, UsedFacts DEF RegistryInv, Registries
    <2> QED BY <1>2, <1>8, <2>1
  <1>10. n.slots[i].handle = h /\ n.slots[i].driver = d
    BY <1>5
  <1>11. \A j \in Used(r) : /\ n.slots[j] = r.slots[j] /\ r.slots[j].handle < r.next
                            /\ r.slots[j].handle \in Nat
    BY <1>0, <1>5, <1>7, UsedFacts DEF RegistryInv, Entries
  <1>12. r.next \in Nat
    BY <1>0 DEF Registries
  <1>13. \A j \in Used(n) : n.slots[j].handle < n.next
    BY <1>2, <1>7, <1>10, <1>11, <1>12
  <1>14. ASSUME NEW j \in Used(n), NEW k \in Used(n),
                \/ n.slots[j].handle = n.slots[k].handle
                \/ n.slots[j].driver.name = n.slots[k].driver.name
         PROVE  j = k
    <2>1. ASSUME NEW x \in Used(r)
          PROVE  n.slots[x].handle # h /\ n.slots[x].driver.name # d.name
      BY <1>11, <1>12, <2>1
    <2>2. CASE j \in Used(r) /\ k \in Used(r)
      BY <1>11, <1>14, <2>2 DEF RegistryInv
    <2>3. CASE j = i \/ k = i
      BY <1>7, <1>10, <1>14, <2>1, <2>3
    <2> QED BY <1>7, <2>2, <2>3
  <1>15. \A j \in 1..SDI_REGISTRY_CAPACITY : j > n.max => n.slots[j] = FREE
    BY <1>1, <1>2, <1>5 DEF RegistryInv
  <1> HIDE DEF n
  <1>16. RegistryInv(n)
    BY <1>4, <1>9, <1>13, <1>14, <1>15 DEF RegistryInv
  <1> QED BY <1>16 DEF n

\* Registries with any values in the slots.
Shape(T) == [slots : [1..SDI_REGISTRY_CAPACITY -> T], max : Int, count : Int, next : Int,
             up : BOOLEAN, lost : Int]

\* Registries with the same fields are equal.
LEMMA SameShape ==
    ASSUME NEW T, NEW a \in Shape(T), NEW b \in Shape(T),
           a.slots = b.slots, a.max = b.max, a.count = b.count, a.next = b.next,
           a.up = b.up, a.lost = b.lost
    PROVE  a = b
  BY DEF Shape

\* What Enter leaves.
LEMMA EnterShape ==
    ASSUME NEW T, NEW r \in Shape(T), NEW i \in 1..SDI_REGISTRY_CAPACITY, NEW d,
           NEW x \in T, x = [handle |-> r.next, driver |-> d], NEW n, n = Enter(r, i, d)
    PROVE  /\ n \in Shape(T)
           /\ n.slots = [r.slots EXCEPT ![i] = x] /\ n.max = r.max /\ n.count = r.count + 1
           /\ n.next = r.next + 1 /\ n.up = r.up
           /\ n.lost = IF r.slots[i] = FREE THEN r.lost ELSE r.lost + 1
  <1>1. PICK c \in Int : c = r.count + 1
    BY DEF Shape
  <1>2. PICK k \in Int : k = r.next + 1
    BY DEF Shape
  <1>3. PICK m \in Int : m = IF r.slots[i] = FREE THEN r.lost ELSE r.lost + 1
    BY DEF Shape
  <1>4. PICK s \in [1..SDI_REGISTRY_CAPACITY -> T] : s = [r.slots EXCEPT ![i] = x]
    BY DEF Shape
  <1>5. n = [r EXCEPT !.slots = s, !.count = c, !.next = k, !.lost = m]
    BY <1>1, <1>2, <1>3, <1>4 DEF Enter
  <1>6. /\ n \in Shape(T) /\ n.slots = s /\ n.max = r.max /\ n.count = c
        /\ n.next = k /\ n.up = r.up /\ n.lost = m
    BY <1>5 DEF Shape
  <1> QED BY <1>1, <1>2, <1>3, <1>4, <1>6

\* And what Put leaves.
LEMMA PutShape ==
    ASSUME NEW T, NEW r \in Shape(T), NEW i \in 1..SDI_REGISTRY_CAPACITY, NEW d,
           NEW h \in Nat, NEW m \in Nat,
           NEW x \in T, x = [handle |-> h, driver |-> d], NEW n, n = Put(r, i, h, d, m)
    PROVE  /\ n \in Shape(T)
           /\ n.slots = [r.slots EXCEPT ![i] = x] /\ n.max = r.max /\ n.count = r.count + 1 + m
           /\ n.next = h + 1 /\ n.up = r.up /\ n.lost = r.lost + m
  <1>1. PICK c \in Int : c = r.count + 1 + m
    BY DEF Shape
  <1>2. PICK k \in Int : k = h + 1
    OBVIOUS
  <1>3. PICK z \in Int : z = r.lost + m
    BY DEF Shape
  <1>4. PICK s \in [1..SDI_REGISTRY_CAPACITY -> T] : s = [r.slots EXCEPT ![i] = x]
    BY DEF Shape
  <1>5. n = [r EXCEPT !.slots = s, !.count = c, !.next = k, !.lost = z]
    BY <1>1, <1>2, <1>3, <1>4 DEF Put
  <1>6. /\ n \in Shape(T) /\ n.slots = s /\ n.max = r.max /\ n.count = c
        /\ n.next = k /\ n.up = r.up /\ n.lost = z
    BY <1>5 DEF Shape
  <1> QED BY <1>1, <1>2, <1>3, <1>4, <1>6

\* A registration in a free slot, and one whose init hook has put a driver
\* in the same slot.
LEMMA EnterIsPut ==
    ASSUME NEW r \in Registries, NEW i \in 1..r.max, r.slots[i] = FREE, NEW c, NEW d
    PROVE  /\ Enter(r, i, d) = Put(r, i, r.next, d, 0)
           /\ Enter(Enter(r, i, c), i, d) = Put(r, i, r.next + 1, d, 1)
  <1>1. i \in 1..SDI_REGISTRY_CAPACITY /\ r.next \in Nat \ {0}
    BY UsedFacts DEF Registries
  <1>2. PICK T : T = Entries \cup {FREE} \cup [handle : Nat, driver : {c, d}]
    OBVIOUS
  <1>3. r \in Shape(T) /\ r.count \in Int /\ r.lost \in Int
    BY <1>2, CapacityNat DEF Registries, Shape
  <1>4. PICK e : e = Enter(r, i, c)
    OBVIOUS
  <1>5. PICK f : f = Enter(e, i, d)
    OBVIOUS
  <1>6. PICK a : a = Enter(r, i, d)
    OBVIOUS
  <1>7. PICK u : u = Put(r, i, r.next, d, 0)
    OBVIOUS
  <1>8. PICK v : v = Put(r, i, r.next + 1, d, 1)
    OBVIOUS
  <1>x. PICK x \in T : x = [handle |-> r.next, driver |-> c]
    BY <1>1, <1>2
  <1>y. PICK y \in T : y = [handle |-> r.next, driver |-> d]
    BY <1>1, <1>2
  <1>z. PICK z \in T : z = [handle |-> r.next + 1, driver |-> d]
    <2>1. r.next + 1 \in Nat
      BY <1>1
    <2> QED BY <1>2, <2>1
  <1>e. /\ e \in Shape(T) /\ e.slots = [r.slots EXCEPT ![i] = x]
        /\ e.max = r.max /\ e.count = r.count + 1 /\ e.next = r.next + 1 /\ e.up = r.up
        /\ e.lost = r.lost
    BY <1>1, <1>3, <1>4, <1>x, EnterShape
  <1>a. /\ a \in Shape(T) /\ a.slots = [r.slots EXCEPT ![i] = y]
        /\ a.max = r.max /\ a.count = r.count + 1 /\ a.next = r.next + 1 /\ a.up = r.up
        /\ a.lost = r.lost
    BY <1>1, <1>3, <1>6, <1>y, EnterShape
  <1>u. /\ u \in Shape(T) /\ u.slots = [r.slots EXCEPT ![i] = y]
        /\ u.max = r.max /\ u.count = r.count + 1 + 0 /\ u.next = r.next + 1 /\ u.up = r.up
        /\ u.lost = r.lost + 0
    BY <1>1, <1>3, <1>7, <1>y, PutShape
  <1>v. /\ v \in Shape(T) /\ v.slots = [r.slots EXCEPT ![i] = z]
        /\ v.max = r.max /\ v.count = r.count + 1 + 1 /\ v.next = r.next + 1 + 1 /\ v.up = r.up
        /\ v.lost = r.lost + 1
    BY <1>1, <1>3, <1>8, <1>z, PutShape
  <1>f. /\ f \in Shape(T) /\ f.slots = [e.slots EXCEPT ![i] = z]
        /\ f.max = e.max /\ f.count = e.count + 1 /\ f.next = e.next + 1 /\ f.up = e.up
        /\ f.lost = e.lost + 1
    <2>1. e.slots[i] = x
      BY <1>1, <1>3, <1>e DEF Shape
    <2>2. e.slots[i] # FREE
      BY <1>1, <1>x, <2>1, EntryNotFree
    <2>3. z = [handle |-> e.next, driver |-> d]
      BY <1>e, <1>z
    <2> QED BY <1>1, <1>5, <1>e, <1>z, <2>2, <2>3, EnterShape
  <1>9. a = u
    <2>1. a.count = u.count /\ a.lost = u.lost
      BY <1>3, <1>a, <1>u
    <2> QED BY <1>a, <1>u, <2>1, SameShape
  <1>10. f = v
    <2>1. f.slots = v.slots
      BY <1>1, <1>3, <1>e, <1>f, <1>v DEF Shape
    <2>2. f.count = v.count /\ f.lost = v.lost /\ f.next = v.next
      BY <1>3, <1>e, <1>f, <1>v
    <2> QED BY <1>e, <1>f, <1>v, <2>1, <2>2, SameShape
  <1> QED BY <1>4, <1>5, <1>6, <1>7, <1>8, <1>9, <1>10

\* sdi_register_driver, whether the init hook registers a driver or not.
LEMMA RegisterInv ==
    ASSUME NEW r, RegistryInv(r), NEW d \in Drivers, NEW init
    PROVE  RegistryInv(sdi_register_driver(r, d, init))
  <1> DEFINE i == FirstFree(r)
             S == {j \in 1..r.max : r.slots[j] = FREE}
  <1>0. r \in Registries
    BY DEF RegistryInv
  <1>1. CASE ~Acceptable(r, d) \/ i = 0 \/ init = "fails"
    BY <1>1 DEF sdi_register_driver
  <1>2. CASE Acceptable(r, d) /\ i # 0 /\ init # "fails"
    <2>1. i \in 1..r.max /\ r.slots[i] = FREE
      <3>1. S \subseteq Nat \ {0}
        BY <1>0, CapacityNat DEF Registries
      <3>2. First(S) # 0 => First(S) \in S
        BY <3>1, FirstFits
      <3> QED BY <1>2, <3>2 DEF FirstFree
    <2>2. ASSUME NEW c \in Registrable, Acceptable(r, c)
          PROVE  c \in Accepted /\ \A j \in Used(r) : r.slots[j].driver.name # c.name
      BY <1>0, <2>2, DriverFound DEF Acceptable, Accepted
    <2>3. r.next \in Nat
      BY <1>0 DEF Registries
    <2> HIDE DEF i
    <2>4. d \in Registrable /\ (d.child # <<>> => d.child[1] \in Registrable)
      BY DriversComplete DEF Registrable
    <2>5. RegistryInv(Put(r, i, r.next, d, 0)) /\ RegistryInv(Put(r, i, r.next + 1, d, 1))
      <3>1. d \in Accepted /\ \A j \in Used(r) : r.slots[j].driver.name # d.name
        BY <1>2, <2>2, <2>4
      <3> QED BY <2>1, <2>3, <3>1, PutInv
    <2>6. ASSUME d.child # <<>>, Acceptable(r, d.child[1])
          PROVE  RegistryInv(Enter(r, i, d.child[1]))
      <3>1. RegistryInv(Put(r, i, r.next, d.child[1], 0))
        BY <2>1, <2>2, <2>3, <2>4, <2>6, PutInv
      <3> QED BY <1>0, <2>1, <3>1, EnterIsPut
    <2>7. Inited(r, d) = r \/ (/\ d.child # <<>> /\ Acceptable(r, d.child[1])
                               /\ Inited(r, d) = Enter(r, i, d.child[1]))
      BY <1>2 DEF i, Inited, RegisterLeaf
    <2>8. CASE init = "fails late"
      BY <1>2, <2>6, <2>7, <2>8 DEF i, sdi_register_driver
    <2>9. CASE init # "fails late"
      <3>1. sdi_register_driver(r, d, init) = Enter(Inited(r, d), i, d)
        BY <1>2, <2>9 DEF i, sdi_register_driver
      <3> QED BY <1>0, <2>1, <2>5, <2>7, <3>1, EnterIsPut
    <2> QED BY <2>8, <2>9
  <1> QED BY <1>1, <1>2

\* sdi_unregister_driver.
LEMMA UnregisterInv ==
    ASSUME NEW r, RegistryInv(r), NEW h, NEW ok \in BOOLEAN
    PROVE  RegistryInv(sdi_unregister_driver(r, h, ok))
  <1>0. r \in Registries
    BY DEF RegistryInv
  <1>1. PICK i : i = sdi_entry_from_handle(r, h)
    OBVIOUS
  <1>2. PICK n : n = [r EXCEPT !.slots[i] = FREE, !.count = @ - 1]
    OBVIOUS
  <1>3. sdi_unregister_driver(r, h, ok) \in {r, n} /\ (i = 0 => sdi_unregister_driver(r, h, ok) = r)
    BY <1>1, <1>2 DEF sdi_unregister_driver
  <1>4. ASSUME i # 0 PROVE RegistryInv(n)
    <2>1. i \in Used(r) /\ i \in 1..SDI_REGISTRY_CAPACITY
      BY <1>0, <1>1, <1>4, EntryIsUsed, UsedFacts
    <2>2. /\ n.slots = [r.slots EXCEPT ![i] = FREE] /\ n.count = r.count - 1
          /\ n.next = r.next /\ n.max = r.max /\ n.lost = r.lost
      BY <1>0, <1>2 DEF Registries
    <2>3. n \in Registries
      <3>1. [r.slots EXCEPT ![i] = FREE] \in [1..SDI_REGISTRY_CAPACITY -> Entries \cup {FREE}]
        BY <1>0, <2>1 DEF Registries
      <3>2. r.count - 1 \in Int
        BY <1>0 DEF Registries
      <3>3. PICK s \in [1..SDI_REGISTRY_CAPACITY -> Entries \cup {FREE}] :
                s = [r.slots EXCEPT ![i] = FREE]
        BY <3>1
      <3>4. n = [r EXCEPT !.slots = s, !.count = r.count - 1]
        BY <1>2, <3>3
      <3> QED BY <1>0, <3>2, <3>3, <3>4 DEF Registries
    <2>4. /\ n.slots[i] = FREE
          /\ \A j \in 1..SDI_REGISTRY_CAPACITY : j # i => n.slots[j] = r.slots[j]
      BY <1>0, <2>1, <2>2 DEF Registries
    <2>5. Used(n) = Used(r) \ {i}
      BY <1>0, <2>1, <2>2, <2>4, UsedFacts DEF Used
    <2>6. Cardinality(Used(n)) = Cardinality(Used(r)) - 1
      BY <1>0, <2>1, <2>5, UsedFacts, FS_RemoveElement
    <2>7. n.count = Cardinality(Used(n)) + n.lost
      <3>1. /\ r.count = Cardinality(Used(r)) + r.lost
            /\ r.lost \in Nat /\ Cardinality(Used(r)) \in Nat
        BY <1>0, UsedFacts DEF RegistryInv, Registries
      <3> QED BY <2>2, <2>6, <3>1
    <2>8. \A j \in Used(n) : j \in Used(r) /\ n.slots[j] = r.slots[j]
      BY <1>0, <2>4, <2>5, UsedFacts
    <2>9. \A j \in 1..SDI_REGISTRY_CAPACITY : j > n.max => n.slots[j] = FREE
      BY <2>2, <2>4 DEF RegistryInv
    <2> QED BY <2>2, <2>3, <2>7, <2>8, <2>9 DEF RegistryInv
  <1> QED BY <1>3, <1>4

-----------------------------------------------------------------------------
(* The invariant makes the registry sound.                                 *)

Rank(U, i) == Cardinality({j \in U : j < i})

\* A used slot is counted before every slot behind it.
LEMMA RankGrows ==
    ASSUME NEW U, IsFiniteSet(U), U \subseteq Nat, NEW i \in U, NEW k \in Nat, i < k
    PROVE  Rank(U, i) \in Nat /\ Rank(U, k) \in Nat /\ Rank(U, i) < Rank(U, k)
  <1> DEFINE A == {j \in U : j < i}
             B == {j \in U : j < k}
             C == A \cup {i}
  <1>0. i \in Nat /\ \A j \in U : j \in Nat /\ (j < i => j < k)
    OBVIOUS
  <1>1. A \in SUBSET U /\ B \in SUBSET U /\ C \in SUBSET B /\ i \notin A
    <2>1. A \subseteq B /\ i \in B /\ A \subseteq U /\ B \subseteq U
      BY <1>0
    <2>2. i \notin A
      BY <1>0
    <2> HIDE DEF A, B
    <2> QED BY <2>1, <2>2
  <1>2. IsFiniteSet(A) /\ IsFiniteSet(B)
    BY <1>1, FS_Subset
  <1>3. Cardinality(C) <= Cardinality(B)
    BY <1>1, <1>2, FS_Subset
  <1>4. Cardinality(C) = Cardinality(A) + 1
    BY <1>1, <1>2, FS_AddElement
  <1>5. Cardinality(A) \in Nat /\ Cardinality(B) \in Nat
    BY <1>2, FS_CardinalityType
  <1> HIDE DEF A, B, C
  <1>6. Cardinality(A) < Cardinality(B)
    BY <1>3, <1>4, <1>5
  <1> QED BY <1>5, <1>6 DEF A, B, Rank

\* Of n used slots, each number below n is the rank of one.
LEMMA RankTaken ==
    ASSUME NEW m \in Nat, NEW U, U \subseteq 1..m, IsFiniteSet(U),
           NEW k \in Nat, k < Cardinality(U)
    PROVE  \E i \in U : Rank(U, i) = k
  <1> DEFINE T == {x \in Nat : k < Rank(U, x + 1)}
  <1>1. ASSUME NEW x \in Nat PROVE Rank(U, x) \in Nat
    <2>1. {j \in U : j < x} \in SUBSET U
      OBVIOUS
    <2> QED BY <2>1, FS_Subset, FS_CardinalityType DEF Rank
  <1>2. m \in T
    <2>0. \A j \in U : j < m + 1
      OBVIOUS
    <2>1. {j \in U : j < m + 1} = U
      BY <2>0
    <2> QED BY <2>1 DEF Rank
  <1>3. T \subseteq Nat /\ T # {}
    BY <1>2
  <1>4. PICK x \in T : \A y \in T : x <= y
    BY <1>3, LeastNumber
  <1>5. x # 0
    <2>0. \A j \in U : ~(j < 0 + 1)
      OBVIOUS
    <2>1. {j \in U : j < 0 + 1} = {}
      BY <2>0
    <2>2. Rank(U, 0 + 1) = 0
      BY <2>1, FS_EmptySet DEF Rank
    <2> QED BY <2>2
  <1>6. x - 1 \in Nat /\ x - 1 \notin T
    BY <1>4, <1>5
  <1>7. Rank(U, x) <= k
    BY <1>1, <1>4, <1>6
  <1>8. x \in U /\ Rank(U, x + 1) = Rank(U, x) + 1
    <2> DEFINE A == {j \in U : j < x}
    <2>1. A \in SUBSET U /\ x \notin A
      OBVIOUS
    <2>2. IsFiniteSet(A)
      BY <2>1, FS_Subset
    <2>3. k < Rank(U, x + 1)
      OBVIOUS
    <2>4. x \in U
      <3> SUFFICES ASSUME x \notin U PROVE FALSE
        OBVIOUS
      <3>1. \A j \in U : j < x + 1 <=> j < x
        OBVIOUS
      <3>2. {j \in U : j < x + 1} = A
        BY <3>1
      <3>3. Rank(U, x + 1) = Rank(U, x)
        BY <3>2 DEF Rank
      <3> QED BY <1>1, <1>7, <2>3, <3>3
    <2>5. \A j \in U : j < x + 1 <=> (j < x \/ j = x)
      OBVIOUS
    <2>6. {j \in U : j < x + 1} = A \cup {x}
      BY <2>4, <2>5
    <2> QED BY <2>1, <2>2, <2>4, <2>6, FS_AddElement DEF Rank
  <1>9. Rank(U, x) = k
    BY <1>1, <1>7, <1>8
  <1> QED BY <1>8, <1>9

\* sdi_get_driver_at of its rank leads to a used slot.
LEMMA RankLeads ==
    ASSUME NEW r \in Registries, NEW i \in Used(r)
    PROVE  /\ Rank(Used(r), i) \in Nat /\ Rank(Used(r), i) < Cardinality(Used(r))
           /\ sdi_get_driver_at(r, Rank(Used(r), i)) = r.slots[i].handle
  <1>1. PICK U : U = Used(r)
    OBVIOUS
  <1>2. PICK m \in Nat : m = r.max
    BY CapacityNat DEF Registries
  <1>3. U \subseteq 1..m /\ IsFiniteSet(U) /\ U \subseteq Nat /\ i \in U
    BY <1>1, <1>2, UsedFacts
  <1>4. PICK k : k = Rank(U, i)
    OBVIOUS
  <1>5. {j \in U : j < m + 1} = U
    <2>1. \A j \in U : j < m + 1
      BY <1>3
    <2> QED BY <2>1
  <1>6. k \in Nat /\ k < Cardinality(U)
    <2>1. Rank(U, m + 1) = Cardinality(U)
      BY <1>5 DEF Rank
    <2>2. m + 1 \in Nat /\ i < m + 1
      BY <1>3
    <2> QED BY <1>3, <1>4, <2>1, <2>2, RankGrows
  <1>7. PICK S : S = {x \in U : Rank(U, x) = k}
    OBVIOUS
  <1>8. i \in S /\ S \subseteq Nat \ {0}
    <2>1. \A j \in U : j \in Nat \ {0}
      BY <1>3
    <2> QED BY <1>3, <1>4, <1>7, <2>1
  <1>9. First(S) \in S /\ First(S) # 0
    BY <1>8, FirstFits
  <1>10. ASSUME NEW x \in S PROVE x = i
    <2>1. x \in U /\ Rank(U, x) = Rank(U, i) /\ x \in Nat /\ i \in Nat
      BY <1>3, <1>4, <1>7
    <2>2. ASSUME x < i PROVE FALSE
      <3>1. Rank(U, x) \in Nat /\ Rank(U, x) < Rank(U, i)
        BY <1>3, <2>1, <2>2, RankGrows
      <3> QED BY <2>1, <3>1
    <2>3. ASSUME i < x PROVE FALSE
      <3>1. Rank(U, i) \in Nat /\ Rank(U, i) < Rank(U, x)
        BY <1>3, <2>1, <2>3, RankGrows
      <3> QED BY <2>1, <3>1
    <2> QED BY <2>1, <2>2, <2>3
  <1>11. First(S) = i
    BY <1>9, <1>10
  <1>12. sdi_get_driver_at(r, k) = HandleAt(r, First(S))
    BY <1>1, <1>7 DEF sdi_get_driver_at, Rank
  <1>13. sdi_get_driver_at(r, k) = r.slots[i].handle
    BY <1>9, <1>11, <1>12 DEF HandleAt
  <1> QED BY <1>1, <1>4, <1>6, <1>13

\* RegistryInv implies what RegistrySound states.
LEMMA InvSound == RegistryInv(g) => RegistrySound
  <1> SUFFICES ASSUME RegistryInv(g) PROVE RegistrySound
    OBVIOUS
  <1> DEFINE U == Used(g)
             used == {g.slots[i] : i \in U}
             handles == {e.handle : e \in used}
  <1>0. g \in Registries
    BY DEF RegistryInv
  <1>1. \A x : x \in handles <=> \E i \in U : x = g.slots[i].handle
    OBVIOUS
  <1>2. /\ IsFiniteSet(U) /\ Cardinality(U) \in Nat
        /\ \A i \in U : g.slots[i].handle \in Nat \ {0}
    BY <1>0, UsedFacts DEF Entries
  <1>3. \A i \in U : g.slots[i].handle < g.next
    BY DEF RegistryInv
  <1>4. \A i, j \in U : \/ g.slots[i].handle = g.slots[j].handle
                        \/ g.slots[i].driver.name = g.slots[j].driver.name
                        => i = j
    BY DEF RegistryInv
  <1>5. Cardinality(handles) = Cardinality(U)
    <2> DEFINE f == [i \in U |-> g.slots[i].handle]
    <2> HIDE DEF U, handles
    <2>1. f \in [U -> handles] /\ (\A x \in handles : \E i \in U : f[i] = x)
      BY <1>1
    <2>2. \A i, j \in U : f[i] = f[j] => i = j
      BY <1>4
    <2>3. f \in Bijection(U, handles)
      BY <2>1, <2>2 DEF Bijection, Injection, Surjection, IsInjective
    <2>4. ExistsBijection(U, handles)
      BY <2>3 DEF ExistsBijection
    <2> QED BY <1>2, <2>4, FS_Bijection
  <1>6. handles \subseteq 1..(g.next - 1)
    <2>1. g.next \in Nat
      BY <1>0 DEF Registries
    <2> HIDE DEF U, handles
    <2> QED BY <1>1, <1>2, <1>3, <2>1
  <1>7. ASSUME NEW e \in used PROVE sdi_find_driver(g, e.driver.name) = e.handle
    <2>1. PICK i \in U : e = g.slots[i]
      OBVIOUS
    <2>2. PICK name : name = e.driver.name
      OBVIOUS
    <2>3. sdi_find_driver(g, name) # 0
      BY <1>0, <2>1, <2>2, DriverFound
    <2>4. PICK j \in U : /\ g.slots[j].driver.name = name
                         /\ g.slots[j].handle = sdi_find_driver(g, name)
      BY <1>0, <2>3, DriverFound
    <2>5. i = j
      BY <1>4, <2>1, <2>2, <2>4
    <2> QED BY <2>1, <2>2, <2>4, <2>5
  <1>8. {sdi_get_driver_at(g, k) : k \in 0..(Cardinality(U) - 1)} = handles
    <2>1. ASSUME NEW k \in 0..(Cardinality(U) - 1) PROVE sdi_get_driver_at(g, k) \in handles
      <3>1. k \in Nat /\ k < Cardinality(U)
        BY <1>2
      <3>2. PICK m \in Nat : m = g.max /\ U \subseteq 1..m
        BY <1>0, UsedFacts, CapacityNat DEF Registries
      <3>3. PICK i \in U : Rank(U, i) = k
        <4> HIDE DEF U
        <4> QED BY <1>2, <3>1, <3>2, RankTaken
      <3>4. sdi_get_driver_at(g, k) = g.slots[i].handle
        BY <1>0, <3>3, RankLeads
      <3> QED BY <1>1, <3>4
    <2>2. ASSUME NEW x \in handles
          PROVE  \E k \in 0..(Cardinality(U) - 1) : sdi_get_driver_at(g, k) = x
      <3>1. PICK i \in U : x = g.slots[i].handle
        BY <1>1
      <3>2. PICK k : k = Rank(U, i)
        OBVIOUS
      <3>3. k \in Nat /\ k < Cardinality(U) /\ sdi_get_driver_at(g, k) = x
        BY <1>0, <3>1, <3>2, RankLeads
      <3>4. k \in 0..(Cardinality(U) - 1)
        <4> HIDE DEF U
        <4> QED BY <1>2, <3>3
      <3> QED BY <3>3, <3>4
    <2> HIDE DEF U, handles
    <2> QED BY <2>1, <2>2
  <1>9. /\ g.count = Cardinality(U) + g.lost
        /\ \A i \in 1..SDI_REGISTRY_CAPACITY : i > g.max => g.slots[i] = FREE
    BY DEF RegistryInv
  <1> QED BY <1>5, <1>6, <1>7, <1>8, <1>9 DEF RegistrySound

-----------------------------------------------------------------------------
(* The steps keep the invariant.                                           *)

HostInv == HostTypes /\ TaskInv /\ LineInv /\ RunInv

\* The initial state.
LEMMA InitInv == Init => SdiInv
  <1> SUFFICES ASSUME Init PROVE SdiInv
    OBVIOUS
  <1>1. RegistryInv(g)
    <2>1. 0 \in 0..SDI_REGISTRY_CAPACITY /\ 1 \in Nat \ {0}
      BY CapacityNat
    <2> QED BY <2>1, EmptyInv DEF Init
  <1>2. task.at = "idle"
    BY DEF Init, IDLE
  <1>3. DOMAIN insts = {}
    BY DEF Init
  <1> QED BY <1>1, <1>2, <1>3
          DEF Init, SdiInv, HostTypes, TaskInv, LineInv, RunInv, Loads, Starts, Bound, Stops, Bare

\* A line that an instance with a start hook is for.
LEMMA LineExists ==
    ASSUME HostTypes, NEW i \in DOMAIN insts, Has(i, "start")
    PROVE  LineOf(i) \in Lines
  BY DriversComplete DEF HostTypes, Has, LineOf, Records, Accepted

\* A step of the registry between calls leaves the host alone.
LEMMA RegistryStep ==
    ASSUME HostInv, Calls, task' \in {IDLE} \cup {Loading("probe", h) : h \in Nat},
           task'.at = "probe" => \E k \in Used(g') : g'.slots[k].handle = task'.handle,
           UNCHANGED <<insts, host>>
    PROVE  HostInv'
  <1>1. task.at = "idle" /\ task'.at \in {"idle", "probe"}
    BY DEF Calls, IDLE, Loading
  <1> QED BY <1>1 DEF HostInv, HostTypes, TaskInv, LineInv, RunInv, Loads, Starts, Bound, Stops,
                      Bare, host, Has, LineOf

\* Steps that only the devices and the interrupt controller see.
LEMMA DeviceStep ==
    ASSUME SdiInv, UNCHANGED <<g, insts, host, task>>
    PROVE  SdiInv'
  BY DEF SdiInv, RegistryInv, Used, HostTypes, TaskInv, LineInv, RunInv, Loads, Starts, Bound,
         Stops, Bare, host, Has, LineOf

\* Probe and attach.
LEMMA LoadStep ==
    ASSUME SdiInv, Probe \/ Attach
    PROVE  HostInv'
  <1>0. HostInv /\ g \in Registries
    BY DEF SdiInv, HostInv, RegistryInv
  <1>1. CASE Probe
    <2>1. task'.at \in {"attach", "idle"} /\ task.at = "probe" /\ (task'.at = "attach" => task'.handle = task.handle)
      BY <1>1 DEF Probe, Loading, IDLE
    <2> QED BY <1>0, <1>1, <2>1
            DEF Probe, HostInv, HostTypes, TaskInv, LineInv, RunInv, Loads, Starts, Bound, Stops,
                Bare, host, Has, LineOf
  <1>2. CASE Attach
    <2>1. PICK k \in Used(g) : g.slots[k].handle = task.handle
      BY <1>0, <1>2 DEF Attach, HostInv, TaskInv, Loads
    <2>2. Entry \in Accepted /\ task.handle \in Nat
      BY <1>0, <2>1, EntryFound, UsedFacts DEF Entry, Entries
    <2>3. CASE task' = IDLE /\ UNCHANGED insts
      <3>1. task'.at = "idle" /\ task.at = "attach"
        BY <1>2, <2>3 DEF IDLE, Attach
      <3> QED BY <1>0, <1>2, <2>3, <3>1
            DEF Attach, HostInv, HostTypes, TaskInv, LineInv, RunInv, Loads, Starts, Bound, Stops,
                Bare, host, Has, LineOf
    <2>4. CASE ~(Instances \subseteq DOMAIN insts) /\ ~(task' = IDLE /\ UNCHANGED insts)
      <3>1. PICK i \in Instances \ DOMAIN insts :
                /\ insts' = [j \in DOMAIN insts \cup {i} |->
                                IF j = i THEN [driver |-> Entry, handle |-> task.handle,
                                               irq |-> 0, running |-> FALSE]
                                ELSE insts[j]]
                /\ task' = IF "start" \in Entry.hooks THEN At("start", i) ELSE IDLE
        BY <1>2, <2>4 DEF Attach
      <3>2. UNCHANGED <<bindings, vectors, masked>> /\ task.at = "attach"
        BY <1>2 DEF Attach, host
      <3>3. /\ DOMAIN insts' = DOMAIN insts \cup {i}
            /\ insts'[i] \in Records /\ insts'[i].driver = Entry
            /\ ~insts'[i].running /\ insts'[i].irq = 0
            /\ \A j \in DOMAIN insts : insts'[j] = insts[j]
        BY <2>2, <3>1 DEF Records
      <3>4. \/ task'.at = "idle"
            \/ task'.at = "start" /\ task'.inst = i /\ "start" \in Entry.hooks
        BY <3>1 DEF At, IDLE
      <3>5. HostTypes'
        BY <1>0, <3>2, <3>3 DEF HostInv, HostTypes
      <3>6. TaskInv'
        BY <3>3, <3>4 DEF TaskInv, Loads, Starts, Bound, Stops, Has
      <3>7. LineInv'
        BY <1>0, <3>2, <3>3, <3>4 DEF HostInv, LineInv, Bound, Bare, LineOf
      <3>8. RunInv'
        BY <1>0, <3>2, <3>3 DEF HostInv, RunInv, Has, LineOf
      <3> QED BY <3>5, <3>6, <3>7, <3>8 DEF HostInv
    <2> QED BY <1>2, <2>3, <2>4 DEF Attach
  <1> QED BY <1>1, <1>2

\* The steps of a start.
LEMMA StartStep ==
    ASSUME HostInv, \/ Drain \/ Bind \/ InstallVector \/ Route
                    \/ \E i \in DOMAIN insts : sdi_start_driver(i)
    PROVE  HostInv'
  <1> USE DEF HostInv, Loads, Starts, Bound, Stops, Bare, host, Has, LineOf
  <1>0. HostTypes /\ TaskInv /\ LineInv /\ RunInv
    OBVIOUS
  <1>1. ASSUME NEW i \in DOMAIN insts, sdi_start_driver(i) PROVE HostInv'
    <2>1. /\ task.at = "idle" /\ task'.at = "start" /\ task'.inst = i
          /\ "start" \in insts[i].driver.hooks /\ ~insts[i].running
          /\ UNCHANGED <<insts, bindings, vectors, masked>>
      BY <1>1 DEF sdi_start_driver, Calls, IDLE, At
    <2> QED BY <1>0, <2>1 DEF HostTypes, TaskInv, LineInv, RunInv
  <1>2. CASE Drain
    <2>1. /\ task.at = "start" /\ task'.at = "bind" /\ task'.inst = task.inst
          /\ UNCHANGED <<insts, bindings, vectors, masked>>
      BY <1>2 DEF Drain, At
    <2> QED BY <1>0, <2>1 DEF HostTypes, TaskInv, LineInv, RunInv
  <1>3. ASSUME NEW i \in DOMAIN insts, NEW l \in Lines, task.inst = i, LineOf(i) = l,
               Bind \/ InstallVector \/ Route
        PROVE  HostInv'
    <2>0. i \in Instances /\ i # 0 /\ insts[i] \in Records
      BY <1>0, <1>3, NotNull DEF HostTypes
    <2>1. CASE Bind /\ bindings[l] # 0
      <3>1. /\ task.at = "bind" /\ task'.at = "idle"
            /\ UNCHANGED <<insts, bindings, vectors, masked>>
        BY <1>3, <2>1 DEF Bind, IDLE
      <3> QED BY <1>0, <3>1 DEF HostTypes, TaskInv, LineInv, RunInv
    <2>2. CASE Bind /\ bindings[l] = 0
      <3>1. /\ task.at = "bind" /\ task'.at = "vector" /\ task'.inst = i
            /\ bindings' = [bindings EXCEPT ![l] = i] /\ UNCHANGED <<insts, vectors, masked>>
        BY <1>3, <2>2 DEF Bind, At
      <3>2. /\ bindings'[l] = i /\ \A m \in Lines : m # l => bindings'[m] = bindings[m]
            /\ bindings' \in [Lines -> Instances \cup {0}]
        BY <1>0, <2>0, <3>1 DEF HostTypes
      <3>3. HostTypes' /\ TaskInv'
        BY <1>0, <1>3, <3>1, <3>2 DEF HostTypes, TaskInv
      <3>4. LineInv'
        BY <1>0, <1>3, <2>0, <2>2, <3>1, <3>2 DEF LineInv
      <3>5. RunInv'
        <4>1. ASSUME NEW j \in DOMAIN insts, insts[j].running PROVE LineOf(j) \in Lines /\ LineOf(j) # l
          <5>1. LineOf(j) \in Lines
            BY <1>0, <4>1, LineExists DEF RunInv
          <5> QED BY <1>0, <2>2, <4>1, <5>1, NotNull DEF RunInv, HostTypes
        <4> QED BY <1>0, <3>1, <3>2, <4>1 DEF RunInv
      <3> QED BY <3>3, <3>4, <3>5
    <2>3. CASE InstallVector
      <3>1. /\ task.at = "vector" /\ task'.at = "route" /\ task'.inst = i
            /\ vectors' = vectors \cup {l} /\ UNCHANGED <<insts, bindings, masked>>
        BY <1>3, <2>3 DEF InstallVector, At
      <3>2. HostTypes' /\ TaskInv'
        BY <1>0, <1>3, <3>1 DEF HostTypes, TaskInv
      <3>3. bindings[l] = i
        BY <1>0, <1>3, <3>1 DEF TaskInv
      <3>4. LineInv'
        BY <1>0, <1>3, <2>0, <3>1, <3>3 DEF LineInv
      <3>5. RunInv'
        BY <1>0, <3>1 DEF RunInv
      <3> QED BY <3>2, <3>4, <3>5
    <2>4. CASE Route
      <3>1. /\ task.at = "route" /\ task'.at = "idle" /\ masked' = masked \ {l}
            /\ insts' = [insts EXCEPT ![i].irq = l, ![i].running = TRUE]
            /\ UNCHANGED <<bindings, vectors>>
        BY <1>3, <2>4 DEF Route, IDLE
      <3>2. /\ DOMAIN insts' = DOMAIN insts /\ insts'[i] \in Records
            /\ insts'[i].irq = l /\ insts'[i].running /\ insts'[i].driver = insts[i].driver
            /\ \A j \in DOMAIN insts : j # i => insts'[j] = insts[j]
        BY <1>3, <2>0, <3>1 DEF Records
      <3>3. bindings[l] = i /\ "start" \in insts[i].driver.hooks
        BY <1>0, <1>3, <3>1 DEF TaskInv
      <3>4. HostTypes' /\ TaskInv'
        BY <1>0, <3>1, <3>2 DEF HostTypes, TaskInv
      <3>5. LineInv'
        BY <1>0, <1>3, <2>0, <3>1, <3>2, <3>3 DEF LineInv
      <3>6. RunInv'
        BY <1>0, <1>3, <3>1, <3>2, <3>3 DEF RunInv
      <3> QED BY <3>4, <3>5, <3>6
    <2> QED BY <1>3, <2>1, <2>2, <2>3, <2>4
  <1>4. ASSUME Bind \/ InstallVector \/ Route
        PROVE  task.inst \in DOMAIN insts /\ LineOf(task.inst) \in Lines
    <2>1. task.at \in {"bind", "vector", "route"}
      BY <1>4 DEF Bind, InstallVector, Route
    <2>2. task.inst \in DOMAIN insts /\ Has(task.inst, "start")
      BY <1>0, <2>1 DEF TaskInv
    <2> QED BY <1>0, <2>2, LineExists
  <1> QED BY <1>1, <1>2, <1>3, <1>4

\* The steps of a stop, and detaching.
LEMMA StopStep ==
    ASSUME HostInv, \/ UninstallVector \/ Unbind
                    \/ \E i \in DOMAIN insts : sdi_stop_driver(i) \/ sdi_detach_driver(i)
    PROVE  HostInv'
  <1> USE DEF HostInv, Loads, Starts, Bound, Stops, Bare, host, Has, LineOf
  <1>0. HostTypes /\ TaskInv /\ LineInv /\ RunInv
    OBVIOUS
  <1>1. ASSUME NEW i \in DOMAIN insts, sdi_stop_driver(i) PROVE HostInv'
    <2>1. /\ insts[i].running /\ insts[i].irq = LineOf(i) /\ bindings[LineOf(i)] = i
          /\ Has(i, "start") /\ i # 0
      BY <1>0, <1>1, NotNull DEF RunInv, sdi_stop_driver, HostTypes
    <2>2. PICK l \in Lines : l = LineOf(i)
      BY <1>0, <2>1, LineExists
    <2>3. /\ task.at = "idle" /\ task'.at = "unvector" /\ task'.inst = i
          /\ masked' = masked \cup {l} /\ UNCHANGED <<insts, bindings, vectors>>
      <3>1. insts[i].irq = l /\ bindings[insts[i].irq] # 0
        BY <2>1, <2>2
      <3>2. task = IDLE /\ task' = At("unvector", i) /\ masked' = masked \cup {insts[i].irq}
        BY <1>1, <3>1 DEF sdi_stop_driver, Calls
      <3>3. UNCHANGED <<insts, bindings, vectors>>
        BY <1>1, <3>1 DEF sdi_stop_driver
      <3>4. masked' = masked \cup {l}
        BY <3>1, <3>2
      <3>5. task.at = "idle" /\ task'.at = "unvector" /\ task'.inst = i
        BY <3>2 DEF IDLE, At
      <3> QED BY <3>3, <3>4, <3>5
    <2>4. HostTypes' /\ TaskInv'
      BY <1>0, <2>1, <2>2, <2>3 DEF HostTypes, TaskInv
    <2>5. LineInv' /\ RunInv'
      BY <1>0, <2>3 DEF LineInv, RunInv
    <2> QED BY <2>4, <2>5
  <1>2. ASSUME NEW i \in DOMAIN insts, sdi_detach_driver(i) PROVE HostInv'
    <2>1. /\ task.at = "idle" /\ task'.at = "idle" /\ ~insts[i].running
          /\ insts' = [j \in DOMAIN insts \ {i} |-> insts[j]]
          /\ UNCHANGED <<bindings, vectors, masked>>
      BY <1>2 DEF sdi_detach_driver, Calls, IDLE
    <2>2. /\ DOMAIN insts' = DOMAIN insts \ {i}
          /\ \A j \in DOMAIN insts' : insts'[j] = insts[j]
      BY <2>1
    <2>3. \A l \in Lines : bindings[l] # i \/ i = 0
      BY <1>0, <2>1 DEF LineInv
    <2>4. HostTypes' /\ TaskInv'
      BY <1>0, <2>1, <2>2 DEF HostTypes, TaskInv
    <2>5. LineInv'
      BY <1>0, <2>1, <2>2, <2>3 DEF LineInv
    <2>6. RunInv'
      BY <1>0, <2>1, <2>2 DEF RunInv
    <2> QED BY <2>4, <2>5, <2>6
  <1>3. ASSUME NEW i \in DOMAIN insts, NEW l \in Lines, task.inst = i, LineOf(i) = l,
               insts[i].irq = l, insts[i].running, l \in masked, Has(i, "start"), bindings[l] = i,
               UninstallVector \/ Unbind
        PROVE  HostInv'
    <2>0. i \in Instances /\ i # 0 /\ insts[i] \in Records
      BY <1>0, <1>3, NotNull DEF HostTypes
    <2>1. CASE UninstallVector
      <3>1. /\ task.at = "unvector" /\ task'.at = "unbind" /\ task'.inst = i
            /\ vectors' = vectors \ {l} /\ UNCHANGED <<insts, bindings, masked>>
        BY <1>3, <2>1 DEF UninstallVector, At
      <3>2. HostTypes' /\ TaskInv'
        BY <1>0, <1>3, <3>1 DEF HostTypes, TaskInv
      <3>3. LineInv'
        BY <1>0, <1>3, <3>1 DEF LineInv
      <3>4. RunInv'
        BY <1>0, <3>1 DEF RunInv
      <3> QED BY <3>2, <3>3, <3>4
    <2>2. CASE Unbind
      <3>1. /\ task.at = "unbind" /\ task'.at = "idle"
            /\ bindings' = [bindings EXCEPT ![l] = 0]
            /\ insts' = [insts EXCEPT ![i].irq = 0, ![i].running = FALSE]
            /\ UNCHANGED <<vectors, masked>>
        BY <1>3, <2>2 DEF Unbind, IDLE
      <3>2. /\ DOMAIN insts' = DOMAIN insts /\ insts'[i] \in Records
            /\ insts'[i].irq = 0 /\ ~insts'[i].running /\ insts'[i].driver = insts[i].driver
            /\ \A j \in DOMAIN insts : j # i => insts'[j] = insts[j]
        BY <1>3, <2>0, <3>1 DEF Records
      <3>3. /\ bindings'[l] = 0 /\ \A m \in Lines : m # l => bindings'[m] = bindings[m]
            /\ bindings' \in [Lines -> Instances \cup {0}]
        BY <1>0, <3>1 DEF HostTypes
      <3>4. HostTypes' /\ TaskInv'
        BY <1>0, <3>1, <3>2, <3>3 DEF HostTypes, TaskInv
      <3>5. LineInv'
        BY <1>0, <1>3, <2>0, <3>1, <3>2, <3>3 DEF LineInv
      <3>6. RunInv'
        <4>1. ASSUME NEW j \in DOMAIN insts, j # i, insts[j].running
              PROVE  LineOf(j) \in Lines /\ LineOf(j) # l
          <5>1. LineOf(j) \in Lines
            BY <1>0, <4>1, LineExists DEF RunInv
          <5> QED BY <1>0, <1>3, <4>1, <5>1 DEF RunInv
        <4> QED BY <1>0, <3>1, <3>2, <3>3, <4>1 DEF RunInv
      <3> QED BY <3>4, <3>5, <3>6
    <2> QED BY <1>3, <2>1, <2>2
  <1>4. ASSUME UninstallVector \/ Unbind PROVE HostInv'
    <2>1. task.at \in {"unvector", "unbind"}
      BY <1>4 DEF UninstallVector, Unbind
    <2>2. /\ task.inst \in DOMAIN insts /\ Has(task.inst, "start")
          /\ insts[task.inst].running /\ LineOf(task.inst) \in masked
      BY <1>0, <2>1 DEF TaskInv
    <2>3. LineOf(task.inst) \in Lines
      BY <1>0, <2>2, LineExists
    <2>4. insts[task.inst].irq = LineOf(task.inst) /\ bindings[LineOf(task.inst)] = task.inst
      BY <1>0, <2>2 DEF RunInv
    <2> QED BY <1>3, <1>4, <2>2, <2>3, <2>4
  <1> QED BY <1>1, <1>2, <1>4

\* Masking a line through its handle.
LEMMA MaskStep ==
    ASSUME HostInv, NEW l \in Lines, sdi_irq_mask(l)
    PROVE  HostInv'
  <1>1. /\ task.at = "idle" /\ task' = task /\ bindings[l] # 0
        /\ masked' \in {masked \cup {l}, masked \ {l}}
        /\ UNCHANGED <<insts, bindings, vectors>>
    BY DEF sdi_irq_mask, irq_call, Calls, IDLE
  <1> QED BY <1>1 DEF HostInv, HostTypes, TaskInv, LineInv, RunInv, Loads, Starts, Bound, Stops,
                      Bare, Has, LineOf

\* Every step keeps the invariant.
LEMMA NextInv == SdiInv /\ [Next]_vars => SdiInv'
  <1> SUFFICES ASSUME SdiInv, [Next]_vars PROVE SdiInv'
    OBVIOUS
  <1>0. HostInv /\ RegistryInv(g) /\ g \in Registries
    BY DEF SdiInv, HostInv, RegistryInv
  <1>i. ASSUME HostInv', RegistryInv(g)' PROVE SdiInv'
    BY <1>i DEF SdiInv, HostInv
  <1>k. ASSUME UNCHANGED g PROVE RegistryInv(g)'
    BY <1>0, <1>k DEF RegistryInv, Used
  <1>1. CASE sdi_kernel_init
    <2>1. RegistryInv(g')
      <3>1. PICK n \in 0..SDI_REGISTRY_CAPACITY : g' = Empty(n, TRUE)
        <4>1. PICK n : n = IF Requested \in 1..SDI_REGISTRY_CAPACITY THEN Requested
                           ELSE SDI_REGISTRY_CAPACITY
          OBVIOUS
        <4>2. n \in 0..SDI_REGISTRY_CAPACITY
          BY <4>1, CapacityNat
        <4>3. g' = Empty(n, TRUE)
          BY <1>1, <4>1 DEF sdi_kernel_init, Registers, sdi_init
        <4> QED BY <4>2, <4>3
      <3>2. 1 \in Nat \ {0}
        OBVIOUS
      <3> QED BY <3>1, <3>2, EmptyInv
    <2>2. Calls /\ task' = IDLE /\ UNCHANGED <<insts, host>> /\ task'.at # "probe"
      BY <1>1 DEF sdi_kernel_init, Registers, Calls, IDLE
    <2>3. HostInv'
      BY <1>0, <2>2, RegistryStep
    <2> QED BY <1>i, <2>1, <2>3 DEF RegistryInv, Used
  <1>2. CASE Shutdown
    <2>1. RegistryInv(g')
      <3>1. PICK k \in Nat \ {0} : k = g.next
        BY <1>0 DEF Registries
      <3>2. g' = [Empty(0, FALSE) EXCEPT !.next = k]
        BY <1>2, <3>1 DEF Shutdown, sdi_shutdown
      <3>3. 0 \in 0..SDI_REGISTRY_CAPACITY
        BY CapacityNat
      <3> QED BY <3>2, <3>3, EmptyInv
    <2>2. /\ task.at = "idle" /\ task' = task
          /\ insts' = [i \in DOMAIN insts |-> [insts[i] EXCEPT !.handle = 0]]
          /\ UNCHANGED <<bindings, vectors, masked>>
      BY <1>2 DEF Shutdown, Calls, IDLE, host
    <2>3. /\ DOMAIN insts' = DOMAIN insts
          /\ \A i \in DOMAIN insts :
                /\ insts'[i] \in Records /\ insts'[i].driver = insts[i].driver
                /\ insts'[i].irq = insts[i].irq /\ insts'[i].running = insts[i].running
      BY <1>0, <2>2 DEF HostInv, HostTypes, Records
    <2>4. HostInv'
      BY <1>0, <2>2, <2>3 DEF HostInv, HostTypes, TaskInv, LineInv, RunInv, Loads, Starts, Bound,
                              Stops, Bare, Has, LineOf
    <2> QED BY <1>i, <2>1, <2>4 DEF RegistryInv, Used
  <1>3. CASE Unregister
    <2>1. RegistryInv(g')
      BY <1>0, <1>3, UnregisterInv DEF Unregister, Registers
    <2>2. Calls /\ task' = IDLE /\ UNCHANGED <<insts, host>> /\ task'.at # "probe"
      BY <1>3 DEF Unregister, Registers, Calls, IDLE
    <2>3. HostInv'
      BY <1>0, <2>2, RegistryStep
    <2> QED BY <1>i, <2>1, <2>3 DEF RegistryInv, Used
  <1>4. ASSUME NEW d \in Drivers, Load(d) PROVE SdiInv'
    <2>1. PICK init :
             /\ g' = sdi_register_driver(g, d, init) /\ UNCHANGED <<insts, host>>
             /\ task' = IF init # "ok" \/ sdi_find_driver(g', d.name) \in {0, sdi_find_driver(g, d.name)}
                        THEN IDLE ELSE Loading("probe", sdi_find_driver(g', d.name))
      BY <1>4 DEF Load, Registers
    <2>2. RegistryInv(g')
      BY <1>0, <2>1, RegisterInv
    <2>3. g' \in Registries /\ Calls
      BY <1>4, <2>2 DEF RegistryInv, Load
    <2>4. PICK h : h = sdi_find_driver(g', d.name)
      OBVIOUS
    <2>5. h # 0 => h \in Nat /\ \E i \in Used(g') : g'.slots[i].handle = h
      BY <2>3, <2>4, DriverFound, UsedFacts DEF Entries
    <2>6. task' = IDLE \/ (task' = Loading("probe", h) /\ h # 0)
      BY <2>1, <2>4
    <2>7. /\ task' \in {IDLE} \cup {Loading("probe", x) : x \in Nat}
          /\ task'.at = "probe" => \E k \in Used(g') : g'.slots[k].handle = task'.handle
      BY <2>5, <2>6 DEF IDLE, Loading
    <2>8. HostInv'
      BY <1>0, <2>1, <2>3, <2>7, RegistryStep
    <2> QED BY <1>i, <2>2, <2>8 DEF RegistryInv, Used
  <1>5. CASE Probe \/ Attach
    BY <1>5, <1>i, <1>k, LoadStep DEF Probe, Attach
  <1>6. CASE Drain \/ Bind \/ InstallVector \/ Route
    BY <1>0, <1>6, <1>i, <1>k, StartStep DEF Drain, Bind, InstallVector, Route
  <1>7. CASE UninstallVector \/ Unbind
    BY <1>0, <1>7, <1>i, <1>k, StopStep DEF UninstallVector, Unbind
  <1>8. ASSUME NEW i \in DOMAIN insts,
               sdi_start_driver(i) \/ sdi_stop_driver(i) \/ sdi_detach_driver(i)
        PROVE  SdiInv'
    <2>1. UNCHANGED g
      BY <1>8 DEF sdi_start_driver, sdi_stop_driver, sdi_detach_driver
    <2>2. HostInv'
      BY <1>0, <1>8, StartStep, StopStep
    <2> QED BY <1>i, <1>k, <2>1, <2>2
  <1>9. ASSUME NEW l \in Lines, sdi_irq_mask(l) PROVE SdiInv'
    BY <1>0, <1>9, <1>i, <1>k, MaskStep DEF sdi_irq_mask
  <1>10. ASSUME NEW l \in Lines, sdi_irq_ack(l) \/ Byte(l) \/ isr_common_handler(l) PROVE SdiInv'
    <2>1. UNCHANGED <<g, insts, host, task>>
      BY <1>10 DEF sdi_irq_ack, Byte, isr_common_handler
    <2> QED BY <2>1, DeviceStep
  <1>11. CASE EnableInterrupts \/ ResumeWithoutInterrupts
    BY <1>11, DeviceStep DEF EnableInterrupts, ResumeWithoutInterrupts
  <1>12. CASE UNCHANGED vars
    BY <1>12, DeviceStep DEF vars
  <1> QED BY <1>1, <1>2, <1>3, <1>4, <1>5, <1>6, <1>7, <1>8, <1>9, <1>10, <1>11, <1>12 DEF Next

\* SdiInv holds in every behaviour.
LEMMA SpecInv == Spec => []SdiInv
  <1>1. Spec => Init /\ [][Next]_vars
    BY PTL DEF Spec
  <1> QED BY <1>1, InitInv, NextInv, PTL

\* The registry is sound whatever is registered, from an init hook too, and
\* unregistered, across sdi_shutdown and sdi_init.  (sdi.c)
THEOREM SdiRegistrySound == Spec => []RegistrySound
  <1>1. SdiInv => RegistrySound
    BY InvSound DEF SdiInv
  <1> QED BY <1>1, SpecInv, PTL

\* At no point of a start, a stop or a detach can an interrupt call the
\* handler of an instance that is freed or of another line.  (host.c, idt.c,
\* drivers/ps2/main.c)
THEOREM SdiHandlerLive == Spec => []HandlerLive
  <1>1. SdiInv => HandlerLive
    BY DEF SdiInv, HostTypes, LineInv, HandlerLive
  <1> QED BY <1>1, SpecInv, PTL

\* Between calls a line is bound to the running instance that has its handle
\* and to no other, and is masked when it is not bound.  (host.c,
\* drivers/ps2/main.c)
THEOREM SdiLinesSound == Spec => []LinesSound
  <1>1. SdiInv => LinesSound
    <2> SUFFICES ASSUME SdiInv, Calls PROVE LinesSound
      BY DEF LinesSound
    <2>1. task.at = "idle" /\ HostTypes /\ LineInv /\ RunInv
      BY DEF Calls, IDLE, SdiInv
    <2>2. ASSUME NEW l \in Lines
          PROVE  /\ bindings[l] # 0 <=> l \in vectors
                 /\ bindings[l] = 0 => l \in masked
                 /\ bindings[l] # 0 => insts[bindings[l]].irq = l
      BY <2>1 DEF LineInv, RunInv, Bare, Bound
    <2>3. ASSUME NEW i \in DOMAIN insts
          PROVE  /\ insts[i].running <=> insts[i].irq # 0
                 /\ insts[i].running => bindings[insts[i].irq] = i
      <3>1. insts[i].running => LineOf(i) \in Lines
        BY <2>1, LineExists DEF RunInv
      <3>2. insts[i].running \in BOOLEAN
        BY <2>1 DEF HostTypes, Records
      <3> QED BY <2>1, <3>1, <3>2, NotNull DEF RunInv
    <2> QED BY <2>2, <2>3 DEF LinesSound
  <1> QED BY <1>1, SpecInv, PTL
=============================================================================
