-------------------------------- MODULE MCVm --------------------------------
(* Pages 1 to 8 for the allocator, 9 held by another part of the kernel,   *)
(* 10 a device; two address spaces with three pages, the first one below   *)
(* VAS_USER_START.                                                         *)
EXTENDS Vm

MCRam    == 1..8
MCPlaces == {[hint |-> 0, n |-> 1, fixed |-> FALSE], [hint |-> 0, n |-> 3, fixed |-> TRUE],
             [hint |-> 1, n |-> 2, fixed |-> TRUE], [hint |-> 2, n |-> 1, fixed |-> TRUE]}
MCKinds  == {[w |-> TRUE, shared |-> FALSE], [w |-> FALSE, shared |-> FALSE],
             [w |-> TRUE, shared |-> TRUE]}
MCRanges == {<<1, 2>>, <<1, 3>>, <<2, 3>>}

SpacesAlike == Permutations(Spaces)
=============================================================================
