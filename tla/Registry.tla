------------------------------ MODULE Registry ------------------------------
(***************************************************************************)
(* The driver registry of kernel/src/sdi/sdi.c, as functions on its state  *)
(*                                                                         *)
(*   g = [slots, max, count, next, up, lost]                               *)
(*                                                                         *)
(* slots are the entries of g_sdi_registry, FREE or [handle, driver]; max, *)
(* count, next and up are g_sdi_max_drivers, g_sdi_driver_count,           *)
(* g_sdi_next_handle and g_sdi_initialized.  lost is not in the code: it   *)
(* counts the entries that a registration has written over.                *)
(*                                                                         *)
(* A driver is [name, supported, child, hooks, line]: its name, whether    *)
(* the checks of its sizes, versions and capabilities pass, the driver     *)
(* that its init hook registers (a bus driver's device) or none, the hooks *)
(* it has, and the interrupt line it binds.                                *)
(***************************************************************************)
EXTENDS Integers, FiniteSets, FiniteSetsExt

CONSTANT SDI_REGISTRY_CAPACITY

FREE == [handle |-> 0]

Empty(n, up) == [slots |-> [i \in 1..SDI_REGISTRY_CAPACITY |-> FREE],
                 max |-> n, count |-> 0, next |-> 1, up |-> up, lost |-> 0]

\* sdi_init, with the number of drivers the host asks for.
sdi_init(requested) ==
    Empty(IF requested \in 1..SDI_REGISTRY_CAPACITY THEN requested
          ELSE SDI_REGISTRY_CAPACITY, TRUE)

\* sdi_shutdown: the results of the fini hooks are ignored, and the next
\* handle is kept until sdi_init sets it.
sdi_shutdown(g) == IF g.up THEN [Empty(0, FALSE) EXCEPT !.next = g.next] ELSE g

Used(g) == {i \in 1..g.max : g.slots[i] # FREE}

\* A loop over the slots stops at the first one that fits; 0 if none does.
First(slots) == IF slots = {} THEN 0 ELSE Min(slots)
HandleAt(g, i) == IF i = 0 THEN 0 ELSE g.slots[i].handle

\* sdi_entry_from_handle_: the slot, 0 if none.
sdi_entry_from_handle(g, h) == First({i \in Used(g) : h # 0 /\ g.slots[i].handle = h})

\* sdi_find_driver: the handle, 0 if none.
sdi_find_driver(g, name) ==
    HandleAt(g, First({i \in Used(g) : g.slots[i].driver.name = name}))

\* sdi_get_driver_at, with index from 0: the handle, 0 if none.
sdi_get_driver_at(g, index) ==
    HandleAt(g, First({i \in Used(g) : Cardinality({j \in Used(g) : j < i}) = index}))

\* The checks of sdi_register_driver before it calls the init hook.
Acceptable(g, d) == g.up /\ d.supported /\ sdi_find_driver(g, d.name) = 0

FirstFree(g) == First({i \in 1..g.max : g.slots[i] = FREE})

\* Variant: the handle is not advanced.
EnterSameHandle(g, i, d) ==
    [g EXCEPT !.slots[i] = [handle |-> g.next, driver |-> d], !.count = @ + 1,
              !.lost = IF g.slots[i] = FREE THEN @ ELSE @ + 1]

\* The slot is written as it was found, whatever it holds by now.
Enter(g, i, d) ==
    [g EXCEPT !.slots[i] = [handle |-> g.next, driver |-> d], !.count = @ + 1,
              !.next = @ + 1, !.lost = IF g.slots[i] = FREE THEN @ ELSE @ + 1]

\* A driver whose init hook registers nothing.
RegisterLeaf(g, d, initOk) ==
    IF Acceptable(g, d) /\ FirstFree(g) # 0 /\ initOk THEN Enter(g, FirstFree(g), d) ELSE g

\* The init hook of d has registered its child, if it has one and the
\* registry takes it.
Inited(g, d) == IF d.child = <<>> THEN g ELSE RegisterLeaf(g, d.child[1], TRUE)

\* sdi_register_driver: the slot is chosen before the init hook runs.  A hook
\* that fails before it registers its child leaves nothing, one that fails
\* late leaves the child registered.
sdi_register_driver(g, d, init) ==
    IF ~Acceptable(g, d) \/ FirstFree(g) = 0 \/ init = "fails" THEN g
    ELSE IF init = "fails late" THEN Inited(g, d)
    ELSE Enter(Inited(g, d), FirstFree(g), d)

\* sdi_unregister_driver; a fini hook can refuse.
sdi_unregister_driver(g, h, finiOk) ==
    LET i == sdi_entry_from_handle(g, h)
    IN  IF ~g.up \/ i = 0 THEN g
        ELSE IF "fini" \in g.slots[i].driver.hooks /\ ~finiOk THEN g
        ELSE [g EXCEPT !.slots[i] = FREE, !.count = @ - 1]
=============================================================================
