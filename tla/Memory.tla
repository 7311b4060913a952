------------------------------- MODULE Memory -------------------------------
(***************************************************************************)
(* What the address spaces of kernel/include/mm/vmm.h promise about        *)
(* private memory: an address keeps what its own space stored last, a new  *)
(* page reads as zero, and a copy of a space starts with the same contents *)
(* and is independent from then on.                                        *)
(***************************************************************************)
EXTENDS Integers

CONSTANTS Spaces, Addresses, Values

VARIABLE view     \* address <<space, page>> to contents

Of(f, a) == {x \in DOMAIN f : x[1] = a}
Kept(x)  == x \in DOMAIN view /\ view'[x] = view[x]

\* vas_map_anon, vas_unmap, vas_destroy: addresses come, empty, and go.
Change == \A x \in DOMAIN view' : IF x \in DOMAIN view THEN Kept(x) ELSE view'[x] = 0

\* vas_clone: what is new is the copy.
Fork(src, dst) ==
    /\ Of(view, dst) = {}
    /\ \A x \in DOMAIN view' \ Of(view', dst) : Kept(x)
    /\ \A x \in Of(view', dst) : /\ <<src, x[2]>> \in DOMAIN view
                                 /\ view'[x] = view[<<src, x[2]>>]

\* A write of v to the pages lo..hi-1 of one space: they alone change.
Store(a, lo, hi, v) ==
    view' = [x \in DOMAIN view |-> IF x[1] = a /\ x[2] \in lo..(hi - 1) THEN v ELSE view[x]]

Init == view = [x \in {} |-> 0]

Next ==
    \/ Change
    \/ \E src, dst \in Spaces : src # dst /\ Fork(src, dst)
    \/ \E a \in Spaces, lo, hi \in Addresses, v \in Values : Store(a, lo, hi, v)

Spec == Init /\ [][Next]_view
=============================================================================
