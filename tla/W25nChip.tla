------------------------------ MODULE W25nChip ------------------------------
(***************************************************************************)
(* The W25N02KV, as the two drivers use it: a page buffer, a write enable  *)
(* latch, and one internal operation at a time.  A page is the set of its  *)
(* programmed bits.  The chip itself is outside the repository.            *)
(***************************************************************************)
EXTENDS Integers

CONSTANT BLOCK_PAGES     \* pages of an erase block

ASSUME ChipGeometry == BLOCK_PAGES \in Nat \ {0}

NewChip(cells) == [cells |-> cells, buf |-> {}, wel |-> FALSE, busy |-> "no",
                   target |-> 0, fail |-> FALSE, protected |-> TRUE, ecc |-> TRUE]

\* What a message does.  A busy chip takes no command but the status read; a
\* load, an execute and an erase need the write enable latch.
Latched(c) == [c EXCEPT !.wel = TRUE]
Loaded(c, content) == IF c.wel THEN [c EXCEPT !.buf = content] ELSE c
Started(c, what, page) == IF c.wel THEN [c EXCEPT !.busy = what, !.target = page, !.fail = FALSE] ELSE c
Reading(c, page) == [c EXCEPT !.busy = "read", !.target = page]

Block(c, page) == {p \in DOMAIN c.cells : p \div BLOCK_PAGES = page \div BLOCK_PAGES}
Erased(c, gone) == [p \in DOMAIN c.cells |-> IF p \in gone THEN {} ELSE c.cells[p]]
Ended(c, cells) == [c EXCEPT !.cells = cells, !.busy = "no", !.wel = FALSE]

\* The chip at the end of what it does.  P-FAIL and E-FAIL share `fail': who asks
\* knows which of the two the last operation could set.  A protected chip fails.  What ECC does
\* to a second program is left out: it takes two unseen faults to leave it on.
Completed(c) ==
    IF c.busy = "read" THEN [c EXCEPT !.buf = c.cells[c.target], !.busy = "no"]
    ELSE IF c.protected THEN [Ended(c, c.cells) EXCEPT !.fail = TRUE]
    ELSE Ended(c, IF c.busy = "program" THEN [c.cells EXCEPT ![c.target] = @ \cup c.buf]
                                        ELSE Erased(c, Block(c, c.target)))

\* The cells that a program or an erase may leave when it is cut short.
CutShort(c) ==
    CASE c.busy = "program" -> {[c.cells EXCEPT ![c.target] = @ \cup part] : part \in SUBSET c.buf}
      [] c.busy = "erase"   -> {Erased(c, gone) : gone \in SUBSET Block(c, c.target)}
      [] OTHER              -> {c.cells}
=============================================================================
