-------------------------------- MODULE Elf --------------------------------
(***************************************************************************)
(* kernel/src/sdi/elf.c: where the sections of a driver image are placed.  *)
(* A section is [alloc, nobits, align, size, inside]: its SHF_ALLOC flag,  *)
(* whether it is SHT_NOBITS, sh_addralign, sh_size, and whether its bytes  *)
(* lie in the image (sdi_elf_range_ok).  Sums wrap at Word.                *)
(***************************************************************************)
EXTENDS Integers, Sequences

CONSTANTS
    PageSize,
    Word          \* 2^64, one more than the largest uint64_t

\* sdi_elf_align_up; also sdi_align_up of host.c.
sdi_elf_align_up(n, a) == IF a <= 1 THEN n ELSE (((n + a - 1) % Word) \div a) * a

sdi_elf_is_power_of_two(n) == \E k \in 0..n : n = 2^k

SectionAlign(s) == IF s.align = 0 THEN 1 ELSE s.align

\* The checks on a section that is to be loaded.
SectionOk(s) == /\ sdi_elf_is_power_of_two(SectionAlign(s)) /\ SectionAlign(s) <= PageSize
                /\ s.nobits \/ s.inside

\* One turn of the first loop of sdi_elf_prepare_sections, for section i.  ok
\* is what sdi_elf_u64_add_ok answered so far; it does not look at the sum in
\* sdi_elf_align_up, and wraps remembers whether that one wrapped.
Place(at, s, i) ==
    IF ~s.alloc \/ ~at.ok THEN at
    ELSE LET start == sdi_elf_align_up(at.total, SectionAlign(s))
         IN  [total  |-> (start + s.size) % Word,
              align  |-> IF SectionAlign(s) > at.align THEN SectionAlign(s) ELSE at.align,
              offset |-> [at.offset EXCEPT ![i] = start],
              ok     |-> start + s.size < Word,
              wraps  |-> at.wraps \/ at.total + SectionAlign(s) - 1 >= Word]

\* The loop: total, max_align and section_offsets (zeroed) after each turn.
FirstTurn(n) ==
    [total |-> 0, align |-> 1, offset |-> [k \in 1..n |-> 0], ok |-> TRUE, wraps |-> FALSE]

Turns(image) ==
    LET turn[i \in 0..Len(image)] ==
            IF i = 0 THEN FirstTurn(Len(image)) ELSE Place(turn[i - 1], image[i], i)
    IN  turn

Layout(image) == Turns(image)[Len(image)]

\* The image is refused before memory is taken for it.
Refused(image) == \/ \E i \in DOMAIN image : image[i].alloc /\ ~SectionOk(image[i])
                  \/ ~Layout(image).ok
                  \/ Layout(image).total = 0
=============================================================================
