------------------------------- MODULE MCRq -------------------------------
(* Two lists over three nodes: every position (first, middle, last, only)  *)
(* occurs, and with two data values two nodes can carry the same datum.    *)
EXTENDS Rq
=============================================================================
