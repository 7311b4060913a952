------------------------------- MODULE MCPmm -------------------------------
(* Three memory maps: a whole power of two, one with a hole (a reserved    *)
(* page between usable ones) and one that starts and ends unaligned.       *)
EXTENDS Pmm
Maps == {0..7, (0..7) \ {2}, 1..6}
=============================================================================
