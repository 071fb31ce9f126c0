--------------------------- MODULE BorrowNetlist ---------------------------
(***************************************************************************)
(* The combinational circuit that src/server/ROM.cpp lays out on one flash *)
(* page: LANES independent DIGIT-bit subtractors b - a, each a hierarchical *)
(* borrow look-ahead (4 bits, 4 groups, 4 super groups), plus the flag     *)
(* "result is zero or negative".                                           *)
(*                                                                         *)
(* A cell is one byte of flash.  It accumulates the AND of everything that *)
(* is written to it; a signal is a cell and the polarity it is read with.  *)
(* The code names a cell by its address, handed out by getCalcAddr(); here *)
(* a cell is named by its role, <<lane, kind, level, index, term>>, so that*)
(* two cells never share a name and the netlist is a function of the name. *)
(***************************************************************************)
EXTENDS Geometry, Sequences, SequencesExt

\* The static_assert of build_lane: three levels of blocks of four.
ASSUME NetlistAssumption == DIGIT \in {16, 32, 48, 64}

Bits == 0 .. DIGIT - 1

\* Number of blocks of each level: bits, 4-bit groups, super groups.
Width(n) == CASE n = 0 -> DIGIT [] n = 1 -> DIGIT \div 4 [] n = 2 -> DIGIT \div 16
----------------------------------------------------------------------------
(* Signals *)

Sig(c) == [cell |-> c, inv |-> FALSE]
NOT(s) == [s EXCEPT !.inv = ~@]

\* An AND of one signal is that signal: no cell is spent on it.
AndOf(c, xs) == IF Len(xs) = 1 THEN xs[1] ELSE Sig(c)
\* OR by De Morgan: the cell holds the NOR, so it is read inverted.
OrOf(c) == NOT(Sig(c))
OrIns(xs) == [i \in 1 .. Len(xs) |-> NOT(xs[i])]

A(l, i) == Sig(<<l, "a", 0, i, 0>>)
B(l, i) == Sig(<<l, "b", 0, i, 0>>)
Zero(l) == Sig(<<l, "zero", 0, 0, 0>>)
X(l, i) == NOT(OrOf(<<l, "x", 0, i, 0>>))

\* Borrow generate and propagate of block i of a level.
G(l, n, i) == IF n = 0 THEN Sig(<<l, "g", 0, i, 0>>) ELSE OrOf(<<l, "gg", n, i, 0>>)
P(l, n, i) == IF n = 0 THEN NOT(X(l, i)) ELSE Sig(<<l, "gp", n, i, 0>>)

\* P of the blocks base+hi down to base+lo of a level, most significant first.
PRun(l, n, base, hi, lo) == [m \in 1 .. hi - lo + 1 |-> P(l, n, base + hi - m + 1)]

\* A look-ahead term: block base+j generates and base+j+1 .. base+top-1 propagate.
TermIns(l, n, base, top, j) == Append(PRun(l, n, base, top - 1, j + 1), G(l, n, base + j))

\* Borrow into block i of a level: the hierarchy passes the first block of
\* four its parent's borrow, and the lowest one of all a constant zero.
BSupNone(l, s) == Zero(l)   \* mutant: super groups do not pass a borrow on
BSup(l, s) == IF s = 0 THEN Zero(l) ELSE OrOf(<<l, "bo", 2, s, 0>>)
BGrp(l, k) == IF k % 4 = 0 THEN BSup(l, k \div 4) ELSE OrOf(<<l, "bo", 1, k, 0>>)
Bor(l, i)  == IF i % 4 = 0 THEN BGrp(l, i \div 4) ELSE OrOf(<<l, "bo", 0, i, 0>>)

\* The borrow that enters the block of four that block i of a level is in.
BorIn(l, n, i) == CASE n = 2 -> Zero(l) [] n = 1 -> BSup(l, i \div 4) [] n = 0 -> BGrp(l, i \div 4)

ClaGroupTerms(l, n, k) ==
    [m \in 1 .. 4 |-> AndOf(<<l, "gt", n, k, 4 - m>>, TermIns(l, n - 1, 4 * k, 4, 4 - m))]

ClaBorrowTerms(l, n, i) ==
    LET u == i % 4
    IN  [m \in 1 .. u + 1 |->
            IF m <= u THEN AndOf(<<l, "bt", n, i, u - m>>, TermIns(l, n, i - u, u, u - m))
                      ELSE Sig(<<l, "bt", n, i, -1>>)]

\* Sum bit i is x XOR borrow; bit 0 has no borrow in and is x itself.
Sum(l, i) == IF i = 0 THEN X(l, 0) ELSE NOT(OrOf(<<l, "s", 0, i, 0>>))

IsJmp(l) == Sig(<<l, "jmp", 0, 0, 0>>)
----------------------------------------------------------------------------
(* Cells, in the order in which the code creates them (and hands out addresses) *)

Upto(F(_), n) == FlattenSeq([i \in 1 .. n |-> F(i - 1)])

XorOrder(hi, lo, x) == <<hi, lo, x>>
InputOrder(l, i) == <<<<l, "a", 0, i, 0>>, <<l, "b", 0, i, 0>>>>
HalfOrder(l, i) == Append(XorOrder(<<l, "hi", 0, i, 0>>, <<l, "lo", 0, i, 0>>, <<l, "x", 0, i, 0>>),
                          <<l, "g", 0, i, 0>>)
GroupOrder(l, n, k) == [m \in 1 .. 3 |-> <<l, "gt", n, k, 3 - m>>]
                       \o <<<<l, "gg", n, k, 0>>, <<l, "gp", n, k, 0>>>>
BorrowOrder(l, n, i) ==
    IF i % 4 = 0 THEN <<>>
    ELSE Append([m \in 1 .. i % 4 |-> <<l, "bt", n, i, (i % 4) - 1 - m>>], <<l, "bo", n, i, 0>>)
SumOrder(l, i) ==
    IF i = 0 THEN <<>>
    ELSE BorrowOrder(l, 0, i)
         \o XorOrder(<<l, "shi", 0, i, 0>>, <<l, "slo", 0, i, 0>>, <<l, "s", 0, i, 0>>)

LaneOrder(l) ==
    Upto(LAMBDA i : InputOrder(l, i), DIGIT)
    \o <<<<l, "zero", 0, 0, 0>>>>
    \o Upto(LAMBDA i : HalfOrder(l, i), DIGIT)
    \o Upto(LAMBDA k : GroupOrder(l, 1, k), Width(1))
    \o Upto(LAMBDA s : GroupOrder(l, 2, s), Width(2))
    \o Upto(LAMBDA s : BorrowOrder(l, 2, s), Width(2))
    \o Upto(LAMBDA k : BorrowOrder(l, 1, k), Width(1))
    \o Upto(LAMBDA i : SumOrder(l, i), DIGIT)
    \o [m \in 1 .. DIGIT \div 8 |-> <<l, "acc", 0, m - 1, 0>>]
    \o <<<<l, "allz", 0, 0, 0>>, <<l, "jor", 0, 0, 0>>, <<l, "jmp", 0, 0, 0>>>>

CellOrder == Upto(LaneOrder, LANES)

\* The same cells as a set, by role.
Blocks(n) == 0 .. Width(n) - 1
GroupCells(l, n) == {<<l, "gt", n, k, j>> : k \in Blocks(n), j \in 0 .. 2}
                    \cup {<<l, kind, n, k, 0>> : kind \in {"gg", "gp"}, k \in Blocks(n)}
BorrowCells(l, n) ==
    UNION {{<<l, "bo", n, i, 0>>} \cup {<<l, "bt", n, i, j>> : j \in -1 .. (i % 4) - 2} :
              i \in {b \in Blocks(n) : b % 4 # 0}}
BitCells(l) == {<<l, kind, 0, i, 0>> : kind \in {"a", "b", "hi", "lo", "x", "g"}, i \in Bits}
SumCells(l) == {<<l, kind, 0, i, 0>> : kind \in {"shi", "slo", "s"}, i \in Bits \ {0}}
AccCells(l) == {<<l, "acc", 0, m, 0>> : m \in 0 .. (DIGIT \div 8) - 1}
LoneCells(l) == {<<l, kind, 0, 0, 0>> : kind \in {"zero", "allz", "jor", "jmp"}}
LaneCells(l) == BitCells(l) \cup SumCells(l) \cup AccCells(l) \cup LoneCells(l)
                \cup GroupCells(l, 1) \cup GroupCells(l, 2)
                \cup BorrowCells(l, 0) \cup BorrowCells(l, 1) \cup BorrowCells(l, 2)
Cell == UNION {LaneCells(l) : l \in Lane}
InputCells == {c \in Cell : c[2] \in {"a", "b"}}

\* XOR is built from ~(p & q) & ~(~p & ~q): two AND cells and their NOR.
HiIns(p, q) == <<p, q>>
LoIns(p, q) == <<NOT(p), NOT(q)>>
XorIns(hi, lo) == OrIns(<<Sig(hi), Sig(lo)>>)

\* What is written to a cell, in the order the code wires it.
InsOf(c) ==
    LET l == c[1]  n == c[3]  i == c[4]  j == c[5]
    IN  CASE c[2] \in {"a", "b"} -> <<>>
          [] c[2] = "zero" -> <<B(l, 0), NOT(B(l, 0))>>
          [] c[2] = "hi"   -> HiIns(A(l, i), B(l, i))
          [] c[2] = "lo"   -> LoIns(A(l, i), B(l, i))
          [] c[2] = "x"    -> XorIns(<<l, "hi", 0, i, 0>>, <<l, "lo", 0, i, 0>>)
          [] c[2] = "g"    -> <<A(l, i), NOT(B(l, i))>>
          [] c[2] = "gt"   -> TermIns(l, n - 1, 4 * i, 4, j)
          [] c[2] = "gg"   -> OrIns(ClaGroupTerms(l, n, i))
          [] c[2] = "gp"   -> PRun(l, n - 1, 4 * i, 3, 0)
          [] c[2] = "bt"   -> IF j = -1
                              THEN Append(PRun(l, n, i - (i % 4), (i % 4) - 1, 0), BorIn(l, n, i))
                              ELSE TermIns(l, n, i - (i % 4), i % 4, j)
          [] c[2] = "bo"   -> OrIns(ClaBorrowTerms(l, n, i))
          [] c[2] = "shi"  -> HiIns(X(l, i), Bor(l, i))
          [] c[2] = "slo"  -> LoIns(X(l, i), Bor(l, i))
          [] c[2] = "s"    -> XorIns(<<l, "shi", 0, i, 0>>, <<l, "slo", 0, i, 0>>)
          [] c[2] = "acc"  -> [m \in 1 .. 8 |-> NOT(Sum(l, 8 * i + m - 1))]
          [] c[2] = "allz" -> [m \in 1 .. DIGIT \div 8 |-> Sig(<<l, "acc", 0, m - 1, 0>>)]
          [] c[2] = "jor"  -> OrIns(<<Sig(<<l, "allz", 0, 0, 0>>), Sum(l, DIGIT - 1)>>)
          [] c[2] = "jmp"  -> <<OrOf(<<l, "jor", 0, 0, 0>>)>>
============================================================================
