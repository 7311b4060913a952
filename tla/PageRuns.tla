------------------------------ MODULE PageRuns ------------------------------
(***************************************************************************)
(* Blocks of pages as the callers of kernel/src/mm/pmm.c see them: held is *)
(* a function from the head page of a block in use to [order, ref].        *)
(***************************************************************************)
EXTENDS Integers

Run(p, o) == p..(p + 2^o - 1)

Used(held) == UNION {Run(p, held[p].order) : p \in DOMAIN held}

\* The blocks pmm_alloc(o) may return; it returns NULL if there is none.
FreeRuns(pages, held, o) ==
    {p \in pages : p % 2^o = 0 /\ Run(p, o) \subseteq pages \ Used(held)}

Took(held, p, o) ==
    [q \in DOMAIN held \cup {p} |-> IF q = p THEN [order |-> o, ref |-> 1] ELSE held[q]]

Gave(held, p) == IF held[p].ref > 1 THEN [held EXCEPT ![p].ref = @ - 1]
                 ELSE [q \in DOMAIN held \ {p} |-> held[q]]
=============================================================================
