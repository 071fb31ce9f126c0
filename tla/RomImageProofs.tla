--------------------------- MODULE RomImageProofs ---------------------------
(***************************************************************************)
(* The netlist of ROM.cpp and its schedule, for every word length the      *)
(* build accepts and any number of lanes: there is no combinational loop,  *)
(* every cell gets a step, and the order in which the code visits the      *)
(* cells has all of them.                                                  *)
(***************************************************************************)
EXTENDS RomImage, FiniteSetTheorems, SequenceTheorems, WellFoundedInduction, TLAPS

(* The gates: which cells there are and what is written to them.           *)

LEMMA Widths ==
    /\ DIGIT \in Nat /\ DIGIT >= 16 /\ DIGIT = 16 * (DIGIT \div 16)
    /\ Width(0) = DIGIT /\ Width(1) = DIGIT \div 4 /\ Width(2) = DIGIT \div 16
    /\ DIGIT \div 16 \in 1 .. 4 /\ DIGIT \div 4 = 4 * (DIGIT \div 16) /\ DIGIT \div 8 = 2 * (DIGIT \div 16)
BY NetlistAssumption DEF Width

LEMMA CellsOfLane ==
    ASSUME NEW l \in Lane
    PROVE  /\ BitCells(l) \subseteq Cell /\ SumCells(l) \subseteq Cell /\ AccCells(l) \subseteq Cell
           /\ LoneCells(l) \subseteq Cell /\ \A n \in {1, 2} : GroupCells(l, n) \subseteq Cell
           /\ \A n \in {0, 1, 2} : BorrowCells(l, n) \subseteq Cell
BY DEF LaneCells, Cell

LEMMA CellOfBit ==
    ASSUME NEW l \in Lane, NEW i \in Bits
    PROVE  /\ \A kind \in {"a", "b", "hi", "lo", "x", "g"} : <<l, kind, 0, i, 0>> \in Cell
           /\ \A kind \in {"shi", "slo", "s"} : i # 0 => <<l, kind, 0, i, 0>> \in Cell
<1>1. \A kind \in {"a", "b", "hi", "lo", "x", "g"} : <<l, kind, 0, i, 0>> \in BitCells(l)
  BY DEF BitCells
<1>2. \A kind \in {"shi", "slo", "s"} : i # 0 => <<l, kind, 0, i, 0>> \in SumCells(l)
  BY DEF SumCells
<1> QED
  BY <1>1, <1>2, CellsOfLane

LEMMA CellOfFlag ==
    ASSUME NEW l \in Lane
    PROVE  /\ \A kind \in {"zero", "allz", "jor", "jmp"} : <<l, kind, 0, 0, 0>> \in Cell
           /\ \A m \in 0 .. (DIGIT \div 8) - 1 : <<l, "acc", 0, m, 0>> \in Cell
<1>1. \A kind \in {"zero", "allz", "jor", "jmp"} : <<l, kind, 0, 0, 0>> \in LoneCells(l)
  BY DEF LoneCells
<1>2. \A m \in 0 .. (DIGIT \div 8) - 1 : <<l, "acc", 0, m, 0>> \in AccCells(l)
  BY DEF AccCells
<1> QED
  BY <1>1, <1>2, CellsOfLane

LEMMA CellOfGroup ==
    ASSUME NEW l \in Lane, NEW n \in {1, 2}, NEW k \in Blocks(n)
    PROVE  /\ \A j \in 0 .. 2 : <<l, "gt", n, k, j>> \in Cell
           /\ \A kind \in {"gg", "gp"} : <<l, kind, n, k, 0>> \in Cell
<1>1. \A j \in 0 .. 2 : <<l, "gt", n, k, j>> \in GroupCells(l, n)
  BY DEF GroupCells
<1>2. \A kind \in {"gg", "gp"} : <<l, kind, n, k, 0>> \in GroupCells(l, n)
  BY DEF GroupCells
<1> QED
  BY <1>1, <1>2, CellsOfLane

LEMMA CellOfBorrow ==
    ASSUME NEW l \in Lane, NEW n \in {0, 1, 2}, NEW i \in Blocks(n), i % 4 # 0
    PROVE  /\ <<l, "bo", n, i, 0>> \in Cell
           /\ \A j \in -1 .. (i % 4) - 2 : <<l, "bt", n, i, j>> \in Cell
<1>1. /\ <<l, "bo", n, i, 0>> \in BorrowCells(l, n)
      /\ \A j \in -1 .. (i % 4) - 2 : <<l, "bt", n, i, j>> \in BorrowCells(l, n)
  BY DEF BorrowCells
<1> QED
  BY <1>1, CellsOfLane

\* Every cell has one of the roles.
IsBit(c, l) == \E i \in Bits : c \in {<<l, kind, 0, i, 0>> : kind \in {"a", "b", "hi", "lo", "x", "g"}}
IsSum(c, l) == \E i \in Bits \ {0} : c \in {<<l, kind, 0, i, 0>> : kind \in {"shi", "slo", "s"}}
IsAcc(c, l) == \E m \in 0 .. (DIGIT \div 8) - 1 : c = <<l, "acc", 0, m, 0>>
IsLone(c, l) == c \in {<<l, kind, 0, 0, 0>> : kind \in {"zero", "allz", "jor", "jmp"}}
IsGroup(c, l, n) == \E k \in Blocks(n) : \/ \E j \in 0 .. 2 : c = <<l, "gt", n, k, j>>
                                         \/ c \in {<<l, "gg", n, k, 0>>, <<l, "gp", n, k, 0>>}
IsBorrow(c, l, n) == \E i \in Blocks(n) :
    i % 4 # 0 /\ (c = <<l, "bo", n, i, 0>> \/ \E j \in -1 .. (i % 4) - 2 : c = <<l, "bt", n, i, j>>)

LEMMA Roles ==
    ASSUME NEW c \in Cell
    PROVE  \E l \in Lane : \/ IsBit(c, l) \/ IsSum(c, l) \/ IsAcc(c, l) \/ IsLone(c, l)
                           \/ \E n \in {1, 2} : IsGroup(c, l, n)
                           \/ \E n \in {0, 1, 2} : IsBorrow(c, l, n)
<1>1. PICK l \in Lane : c \in LaneCells(l)
  BY DEF Cell
<1>2. \A n : c \in GroupCells(l, n) => IsGroup(c, l, n)
  BY DEF GroupCells, IsGroup
<1>3. \A n : c \in BorrowCells(l, n) => IsBorrow(c, l, n)
  BY DEF BorrowCells, IsBorrow
<1>4. /\ c \in BitCells(l) => IsBit(c, l)
      /\ c \in SumCells(l) => IsSum(c, l)
      /\ c \in AccCells(l) => IsAcc(c, l)
      /\ c \in LoneCells(l) => IsLone(c, l)
  BY DEF BitCells, SumCells, AccCells, LoneCells, IsBit, IsSum, IsAcc, IsLone
<1>5. \/ c \in BitCells(l) \/ c \in SumCells(l) \/ c \in AccCells(l) \/ c \in LoneCells(l)
      \/ \E n \in {1, 2} : c \in GroupCells(l, n)
      \/ \E n \in {0, 1, 2} : c \in BorrowCells(l, n)
  BY <1>1 DEF LaneCells
<1> QED
  BY <1>2, <1>3, <1>4, <1>5
----------------------------------------------------------------------------
(* Blocks and signals                                                      *)

LEMMA BlocksAre ==
    \E s \in 1 .. 4 : /\ DIGIT = 16 * s /\ Blocks(0) = 0 .. (16 * s) - 1 /\ Blocks(1) = 0 .. (4 * s) - 1
                     /\ Blocks(2) = 0 .. s - 1 /\ Bits = Blocks(0)
<1>1. Blocks(0) = 0 .. DIGIT - 1 /\ Blocks(1) = 0 .. (DIGIT \div 4) - 1 /\ Blocks(2) = 0 .. (DIGIT \div 16) - 1
  BY Widths DEF Blocks
<1>2. PICK s \in 1 .. 4 : DIGIT = 16 * s /\ DIGIT \div 4 = 4 * s /\ DIGIT \div 16 = s
  BY Widths
<1> QED
  BY <1>1, <1>2 DEF Bits

LEMMA BlockNat == Bits = Blocks(0) /\ \A n \in {0, 1, 2} : Blocks(n) \subseteq Nat /\ 0 \in Blocks(n)
BY BlocksAre

\* The four blocks of a block, and the block that a block is in.
LEMMA Child == ASSUME NEW n \in {1, 2}, NEW k \in Blocks(n), NEW q \in 0 .. 3 PROVE (4 * k) + q \in Blocks(n - 1)
BY BlocksAre

LEMMA Parent == ASSUME NEW n \in {0, 1}, NEW i \in Blocks(n) PROVE i \div 4 \in Blocks(n + 1)
<1>1. \A j \in Nat : j = (4 * (j \div 4)) + (j % 4) /\ j % 4 \in 0 .. 3 /\ j \div 4 \in Nat
  OBVIOUS
<1> QED
  BY <1>1, BlocksAre

\* The place of a block among the four it belongs to, and those before it.
LEMMA PlaceInBlock ==
    ASSUME NEW n \in {0, 1, 2}, NEW i \in Blocks(n)
    PROVE  /\ i % 4 \in 0 .. 3 /\ i - (i % 4) \in Nat /\ i \in Nat /\ i - (i % 4) = 4 * (i \div 4)
           /\ \A q \in 0 .. i % 4 : i - (i % 4) + q \in Blocks(n)
<1>1. i \in Nat
  BY BlockNat
<1>2. i % 4 \in 0 .. 3 /\ i = (4 * (i \div 4)) + (i % 4) /\ i \div 4 \in Nat
  BY <1>1
<1>3. PICK w \in Nat : Blocks(n) = 0 .. w - 1
  BY BlocksAre
<1>4. PICK u \in 0 .. 3 : u = i % 4 /\ u <= i
  BY <1>2
<1> QED
  BY <1>1, <1>2, <1>3, <1>4

Source == [cell : Cell, inv : BOOLEAN]

\* How many gates lie between a cell and the inputs.
Level(c) ==
    CASE c[2] \in {"a", "b"}               -> 0
      [] c[2] \in {"zero", "hi", "lo", "g"} -> 1
      [] c[2] = "x"                        -> 2
      [] c[2] \in {"gt", "gp"}             -> (2 * c[3]) + 1
      [] c[2] = "gg"                       -> (2 * c[3]) + 2
      [] c[2] = "bt"                       -> 11 - (2 * c[3])
      [] c[2] = "bo"                       -> 12 - (2 * c[3])
      [] c[2] \in {"shi", "slo"}           -> 13
      [] c[2] = "s"                        -> 14
      [] c[2] = "acc"                      -> 15
      [] c[2] = "allz"                     -> 16
      [] c[2] = "jor"                      -> 17
      [] c[2] = "jmp"                      -> 18

Below(s, n) == s \in Source /\ Level(s.cell) \in Nat /\ Level(s.cell) < n
Fed(xs, n) == xs \in Seq(Source) /\ xs # <<>> /\ \A m \in DOMAIN xs : Below(xs[m], n)

LEMMA NotBelow == ASSUME NEW n, NEW s, Below(s, n) PROVE Below(NOT(s), n)
<1>1. NOT(s) \in Source /\ NOT(s).cell = s.cell
  BY DEF Below, Source, NOT
<1> QED
  BY <1>1 DEF Below

LEMMA SigBelow ==
    ASSUME NEW c \in Cell, NEW n, Level(c) \in Nat, Level(c) < n
    PROVE  Below(Sig(c), n) /\ Below(OrOf(c), n)
<1>1. Sig(c) \in Source /\ Sig(c).cell = c
  BY DEF Sig, Source
<1>2. Below(Sig(c), n)
  BY <1>1 DEF Below
<1> QED
  BY <1>2, NotBelow DEF OrOf

LEMMA PairFed ==
    ASSUME NEW n, NEW p, NEW q, Below(p, n), Below(q, n)
    PROVE  Fed(<<p, q>>, n) /\ Fed(<<p>>, n)
BY DEF Fed, Below

Listed(f, k, n) == k \in Nat \ {0} /\ f = [m \in 1 .. k |-> f[m]] /\ \A m \in 1 .. k : Below(f[m], n)

LEMMA ListFed == ASSUME NEW n, NEW k, NEW f, Listed(f, k, n) PROVE Fed(f, n)
<1>1. f \in Seq(Source) /\ DOMAIN f = 1 .. k
  BY DEF Below, Listed
<1> QED
  BY <1>1 DEF Fed, Listed

LEMMA OrFed == ASSUME NEW n, NEW xs, Fed(xs, n) PROVE Fed(OrIns(xs), n)
<1>1. Len(xs) \in Nat \ {0} /\ DOMAIN xs = 1 .. Len(xs)
  BY DEF Fed
<1>2. \A m \in 1 .. Len(xs) : Below(OrIns(xs)[m], n)
  BY <1>1, NotBelow DEF OrIns, Fed
<1>3. OrIns(xs) = [m \in 1 .. Len(xs) |-> OrIns(xs)[m]]
  BY DEF OrIns
<1> QED
  BY <1>1, <1>2, <1>3, ListFed DEF Listed

LEMMA AppendFed ==
    ASSUME NEW n, NEW xs \in Seq(Source), NEW x, \A m \in DOMAIN xs : Below(xs[m], n), Below(x, n)
    PROVE  Fed(Append(xs, x), n)
<1>1. x \in Source
  BY DEF Below
<1>2. /\ Append(xs, x) \in Seq(Source) /\ Len(Append(xs, x)) = Len(xs) + 1
      /\ Append(xs, x)[Len(xs) + 1] = x /\ \A m \in 1 .. Len(xs) : Append(xs, x)[m] = xs[m]
  BY <1>1, AppendProperties
<1>3. Len(xs) \in Nat /\ DOMAIN xs = 1 .. Len(xs) /\ DOMAIN Append(xs, x) = 1 .. Len(xs) + 1
  BY <1>2
<1>4. \A m \in 1 .. Len(xs) + 1 : m \in 1 .. Len(xs) \/ m = Len(xs) + 1
  BY <1>3
<1> QED
  BY <1>2, <1>3, <1>4 DEF Fed

LEMMA Widen == ASSUME NEW s, NEW n \in Int, NEW m \in Int, n <= m, Below(s, n) PROVE Below(s, m)
BY DEF Below

\* Signals of a bit.
LEMMA BitSignals ==
    ASSUME NEW l \in Lane, NEW i \in Bits
    PROVE  /\ Below(A(l, i), 1) /\ Below(B(l, i), 1) /\ Below(X(l, i), 3)
           /\ Below(P(l, 0, i), 3) /\ Below(G(l, 0, i), 3)
<1>1. Level(<<l, "a", 0, i, 0>>) = 0 /\ Level(<<l, "b", 0, i, 0>>) = 0
  BY DEF Level
<1>2. Level(<<l, "x", 0, i, 0>>) = 2 /\ Level(<<l, "g", 0, i, 0>>) = 1
  BY DEF Level
<1>3. \A kind \in {"a", "b", "x", "g"} : <<l, kind, 0, i, 0>> \in Cell
  BY CellOfBit
<1>4. Below(A(l, i), 1) /\ Below(B(l, i), 1) /\ Below(G(l, 0, i), 3)
  BY <1>1, <1>2, <1>3, SigBelow DEF A, B, G
<1>5. Below(X(l, i), 3)
  BY <1>2, <1>3, SigBelow, NotBelow DEF X
<1>6. Below(P(l, 0, i), 3)
  BY <1>5, NotBelow DEF P
<1> QED
  BY <1>4, <1>5, <1>6

\* Generate and propagate of a block.
LEMMA BlockSignals ==
    ASSUME NEW l \in Lane, NEW n \in {0, 1, 2}, NEW i \in Blocks(n)
    PROVE  Below(G(l, n, i), (2 * n) + 3) /\ Below(P(l, n, i), (2 * n) + 3)
<1>1. CASE n = 0
  BY <1>1, BitSignals, BlockNat
<1>2. CASE n # 0
  <2>1. <<l, "gg", n, i, 0>> \in Cell /\ <<l, "gp", n, i, 0>> \in Cell
    BY <1>2, CellOfGroup
  <2>2. Level(<<l, "gg", n, i, 0>>) = (2 * n) + 2 /\ Level(<<l, "gp", n, i, 0>>) = (2 * n) + 1
    BY DEF Level
  <2>3. Level(<<l, "gg", n, i, 0>>) \in Nat /\ Level(<<l, "gp", n, i, 0>>) \in Nat
        /\ Level(<<l, "gg", n, i, 0>>) < (2 * n) + 3 /\ Level(<<l, "gp", n, i, 0>>) < (2 * n) + 3
    BY <2>2
  <2> QED
    BY <1>2, <2>1, <2>3, SigBelow DEF G, P
<1> QED
  BY <1>1, <1>2

\* The propagates of the blocks base + hi down to base + lo.
IsRun(run, l, n, base, hi, lo) ==
    /\ run \in Seq(Source) /\ Len(run) = hi - lo + 1
    /\ \A m \in 1 .. hi - lo + 1 : run[m] = P(l, n, base + (hi - m + 1)) /\ Below(run[m], (2 * n) + 3)

LEMMA PRunIs ==
    ASSUME NEW l \in Lane, NEW n \in {0, 1, 2}, NEW base \in Int, NEW hi \in Int, NEW lo \in Int, lo <= hi + 1,
           \A q \in lo .. hi : base + q \in Blocks(n)
    PROVE  IsRun(PRun(l, n, base, hi, lo), l, n, base, hi, lo)
<1>1. \A m \in 1 .. hi - lo + 1 : hi - m + 1 \in lo .. hi /\ base + hi - m + 1 = base + (hi - m + 1)
  OBVIOUS
<1>2. \A m \in 1 .. hi - lo + 1 : Below(P(l, n, base + (hi - m + 1)), (2 * n) + 3)
  BY <1>1, BlockSignals
<1>3. PRun(l, n, base, hi, lo) = [m \in 1 .. hi - lo + 1 |-> P(l, n, base + (hi - m + 1))]
  BY <1>1 DEF PRun
<1>4. hi - lo + 1 \in Nat
  OBVIOUS
<1>5. \A m \in 1 .. hi - lo + 1 : P(l, n, base + (hi - m + 1)) \in Source
  BY <1>2 DEF Below
<1>6. PRun(l, n, base, hi, lo) \in Seq(Source) /\ Len(PRun(l, n, base, hi, lo)) = hi - lo + 1
  BY <1>3, <1>4, <1>5
<1> QED
  BY <1>2, <1>3, <1>6 DEF IsRun

\* Blocks base, base + 1, ... of a level.
Siblings(n, base, top) == base \in Int /\ top \in Nat \ {0} /\ \A q \in 0 .. top - 1 : base + q \in Blocks(n)

LEMMA RunOfBlocks ==
    ASSUME NEW l \in Lane, NEW n \in {0, 1, 2}, NEW base, NEW top, Siblings(n, base, top)
    PROVE  /\ IsRun(PRun(l, n, base, top - 1, 0), l, n, base, top - 1, 0)
           /\ Fed(PRun(l, n, base, top - 1, 0), (2 * n) + 3)
<1>1. PICK hi \in Nat : hi = top - 1
  BY DEF Siblings
<1>2. base \in Int /\ 0 <= hi + 1 /\ hi \in Int /\ 0 \in Int /\ \A q \in 0 .. hi : base + q \in Blocks(n)
  BY <1>1 DEF Siblings
<1>3. IsRun(PRun(l, n, base, hi, 0), l, n, base, hi, 0)
  BY <1>2, PRunIs
<1>4. hi - 0 + 1 \in Nat \ {0}
  OBVIOUS
<1> QED
  BY <1>1, <1>3, <1>4 DEF Fed, IsRun

\* What block base + j generates and the blocks from there up to base + top pass on.
IsTerm(xs, l, n, base, top, j) ==
    /\ Fed(xs, (2 * n) + 3) /\ Len(xs) = top - j
    /\ \A m \in 1 .. top - j : xs[m] = IF m = top - j THEN G(l, n, base + j) ELSE P(l, n, base + (top - m))

LEMMA TermIs ==
    ASSUME NEW l \in Lane, NEW n \in {0, 1, 2}, NEW base, NEW top, Siblings(n, base, top), NEW j \in 0 .. top - 1
    PROVE  IsTerm(TermIns(l, n, base, top, j), l, n, base, top, j)
<1>1. base \in Int /\ top \in Nat \ {0} /\ base + j \in Blocks(n) /\ \A q \in j + 1 .. top - 1 : base + q \in Blocks(n)
  BY DEF Siblings
<1>2. PICK run, hi, lo : run = PRun(l, n, base, top - 1, j + 1) /\ hi = top - 1 /\ lo = j + 1
  OBVIOUS
<1>3. hi \in Int /\ lo \in Int /\ lo <= hi + 1 /\ run = PRun(l, n, base, hi, lo) /\ hi - lo + 1 = top - j - 1
  BY <1>1, <1>2
<1>4. IsRun(run, l, n, base, hi, lo)
  BY <1>1, <1>2, <1>3, PRunIs
<1>5. \A m \in 1 .. top - j - 1 : hi - m + 1 = top - m
  BY <1>1, <1>2
<1>6. /\ run \in Seq(Source) /\ Len(run) = top - j - 1 /\ DOMAIN run = 1 .. top - j - 1
      /\ \A m \in 1 .. top - j - 1 : run[m] = P(l, n, base + (top - m)) /\ Below(run[m], (2 * n) + 3)
  BY <1>3, <1>4, <1>5 DEF IsRun
<1>7. Below(G(l, n, base + j), (2 * n) + 3) /\ G(l, n, base + j) \in Source
  BY <1>1, BlockSignals DEF Below
<1>8. TermIns(l, n, base, top, j) = Append(run, G(l, n, base + j))
  BY <1>2 DEF TermIns
<1>9. /\ Len(Append(run, G(l, n, base + j))) = Len(run) + 1
      /\ Append(run, G(l, n, base + j))[Len(run) + 1] = G(l, n, base + j)
      /\ \A m \in 1 .. Len(run) : Append(run, G(l, n, base + j))[m] = run[m]
  BY <1>6, <1>7, AppendProperties
<1>10. Fed(Append(run, G(l, n, base + j)), (2 * n) + 3)
  BY <1>6, <1>7, AppendFed
<1>11. Len(run) + 1 = top - j /\ \A m \in 1 .. top - j : m = top - j \/ m \in 1 .. top - j - 1
  BY <1>1, <1>6
<1> QED
  BY <1>6, <1>8, <1>9, <1>10, <1>11 DEF IsTerm

\* The borrow into a block, by the level of the block.
LEMMA BorrowSignals ==
    ASSUME NEW l \in Lane
    PROVE  /\ Below(Zero(l), 2)
           /\ \A s \in Blocks(2) : Below(BSup(l, s), 9)
           /\ \A k \in Blocks(1) : Below(BGrp(l, k), 11)
           /\ \A i \in Blocks(0) : Below(Bor(l, i), 13)
<1>1. Level(<<l, "zero", 0, 0, 0>>) = 1 /\ <<l, "zero", 0, 0, 0>> \in Cell
  BY CellOfFlag DEF Level
<1>2. Below(Zero(l), 2) /\ Below(Zero(l), 9) /\ Below(Zero(l), 11) /\ Below(Zero(l), 13)
  BY <1>1, SigBelow DEF Zero
<1>3. ASSUME NEW n \in {0, 1, 2}, NEW i \in Blocks(n), i % 4 # 0
      PROVE  Below(OrOf(<<l, "bo", n, i, 0>>), 13 - (2 * n))
  <2>1. Level(<<l, "bo", n, i, 0>>) = 12 - (2 * n)
    BY DEF Level
  <2>2. Level(<<l, "bo", n, i, 0>>) \in Nat /\ Level(<<l, "bo", n, i, 0>>) < 13 - (2 * n)
    BY <2>1
  <2>3. <<l, "bo", n, i, 0>> \in Cell
    BY <1>3, CellOfBorrow
  <2> QED
    BY <2>2, <2>3, SigBelow
<1>4. \A s \in Blocks(2) : s # 0 => s % 4 # 0
  <2>1. \A s \in 0 .. 3 : s # 0 => s % 4 # 0
    OBVIOUS
  <2>2. Blocks(2) \subseteq 0 .. 3
    BY Widths DEF Blocks
  <2> QED
    BY <2>1, <2>2
<1>5. ASSUME NEW s \in Blocks(2) PROVE Below(BSup(l, s), 9) /\ Below(BSup(l, s), 11) /\ Below(BSup(l, s), 13)
  <2>1. CASE s = 0
    BY <1>2, <2>1 DEF BSup
  <2>2. CASE s # 0
    <3>1. Below(OrOf(<<l, "bo", 2, s, 0>>), 9)
      BY <1>3, <1>4, <2>2
    <3> QED
      BY <2>2, <3>1, Widen DEF BSup
  <2> QED
    BY <2>1, <2>2
<1>6. ASSUME NEW k \in Blocks(1) PROVE Below(BGrp(l, k), 11) /\ Below(BGrp(l, k), 13)
  <2>1. CASE k % 4 = 0
    BY <1>5, <2>1, Parent DEF BGrp
  <2>2. CASE k % 4 # 0
    <3>1. Below(OrOf(<<l, "bo", 1, k, 0>>), 11)
      BY <1>3, <2>2
    <3> QED
      BY <2>2, <3>1, Widen DEF BGrp
  <2> QED
    BY <2>1, <2>2
<1>7. ASSUME NEW i \in Blocks(0) PROVE Below(Bor(l, i), 13)
  <2>1. CASE i % 4 = 0
    BY <1>6, <2>1, Parent DEF Bor
  <2>2. CASE i % 4 # 0
    BY <1>3, <2>2 DEF Bor
  <2> QED
    BY <2>1, <2>2
<1> QED
  BY <1>2, <1>5, <1>6, <1>7

LEMMA SumSignals ==
    ASSUME NEW l \in Lane, NEW i \in Bits
    PROVE  Below(Sum(l, i), 15)
<1>1. CASE i = 0
  <2>1. Below(X(l, 0), 3)
    BY <1>1, BitSignals
  <2> QED
    BY <1>1, <2>1, Widen DEF Sum
<1>2. CASE i # 0
  <2>1. Level(<<l, "s", 0, i, 0>>) = 14 /\ <<l, "s", 0, i, 0>> \in Cell
    BY <1>2, CellOfBit DEF Level
  <2> QED
    BY <1>2, <2>1, SigBelow, NotBelow DEF Sum
<1> QED
  BY <1>1, <1>2

\* Every gate is fed by gates of lower levels: the netlist has no loop.
LEMMA BitFed ==
    ASSUME NEW l \in Lane, NEW c, IsBit(c, l), InsOf(c) # <<>>
    PROVE  Fed(InsOf(c), Level(c))
<1>1. PICK i \in Bits : c \in {<<l, kind, 0, i, 0>> : kind \in {"a", "b", "hi", "lo", "x", "g"}}
  BY DEF IsBit
<1>2. Below(A(l, i), 1) /\ Below(B(l, i), 1) /\ Below(NOT(A(l, i)), 1) /\ Below(NOT(B(l, i)), 1)
  BY BitSignals, NotBelow
<1>3. CASE c = <<l, "hi", 0, i, 0>>
  <2>1. InsOf(c) = <<A(l, i), B(l, i)>> /\ Level(c) = 1
    BY <1>3 DEF InsOf, HiIns, Level
  <2> QED
    BY <1>2, <2>1, PairFed
<1>4. CASE c = <<l, "lo", 0, i, 0>>
  <2>1. InsOf(c) = <<NOT(A(l, i)), NOT(B(l, i))>> /\ Level(c) = 1
    BY <1>4 DEF InsOf, LoIns, Level
  <2> QED
    BY <1>2, <2>1, PairFed
<1>5. CASE c = <<l, "g", 0, i, 0>>
  <2>1. InsOf(c) = <<A(l, i), NOT(B(l, i))>> /\ Level(c) = 1
    BY <1>5 DEF InsOf, Level
  <2> QED
    BY <1>2, <2>1, PairFed
<1>6. CASE c = <<l, "x", 0, i, 0>>
  <2>1. Level(<<l, "hi", 0, i, 0>>) = 1 /\ Level(<<l, "lo", 0, i, 0>>) = 1 /\ Level(c) = 2
    BY <1>6 DEF Level
  <2>2. InsOf(c) = OrIns(<<Sig(<<l, "hi", 0, i, 0>>), Sig(<<l, "lo", 0, i, 0>>)>>)
    BY <1>6 DEF InsOf, XorIns
  <2>3. <<l, "hi", 0, i, 0>> \in Cell /\ <<l, "lo", 0, i, 0>> \in Cell
    BY CellOfBit
  <2>4. Below(Sig(<<l, "hi", 0, i, 0>>), 2) /\ Below(Sig(<<l, "lo", 0, i, 0>>), 2)
    BY <2>1, <2>3, SigBelow
  <2> QED
    BY <2>1, <2>2, <2>4, PairFed, OrFed
<1>7. CASE c = <<l, "a", 0, i, 0>> \/ c = <<l, "b", 0, i, 0>>
  <2>1. c[2] \in {"a", "b"}
    BY <1>7
  <2>2. InsOf(c) = <<>>
    BY <2>1, Zenon DEF InsOf
  <2> QED
    BY <2>2
<1> QED
  BY <1>1, <1>3, <1>4, <1>5, <1>6, <1>7

LEMMA SumFed ==
    ASSUME NEW l \in Lane, NEW c, IsSum(c, l)
    PROVE  Fed(InsOf(c), Level(c))
<1>1. PICK i \in Bits \ {0} : c \in {<<l, kind, 0, i, 0>> : kind \in {"shi", "slo", "s"}}
  BY DEF IsSum
<1>2. Below(X(l, i), 13) /\ Below(Bor(l, i), 13)
  BY BitSignals, BorrowSignals, BlockNat, Widen
<1>3. Below(NOT(X(l, i)), 13) /\ Below(NOT(Bor(l, i)), 13)
  BY <1>2, NotBelow
<1>4. CASE c = <<l, "shi", 0, i, 0>>
  <2>1. InsOf(c) = <<X(l, i), Bor(l, i)>> /\ Level(c) = 13
    BY <1>4 DEF InsOf, HiIns, Level
  <2> QED
    BY <1>2, <2>1, PairFed
<1>5. CASE c = <<l, "slo", 0, i, 0>>
  <2>1. InsOf(c) = <<NOT(X(l, i)), NOT(Bor(l, i))>> /\ Level(c) = 13
    BY <1>5 DEF InsOf, LoIns, Level
  <2> QED
    BY <1>3, <2>1, PairFed
<1>6. CASE c = <<l, "s", 0, i, 0>>
  <2>1. Level(<<l, "shi", 0, i, 0>>) = 13 /\ Level(<<l, "slo", 0, i, 0>>) = 13 /\ Level(c) = 14
    BY <1>6 DEF Level
  <2>2. InsOf(c) = OrIns(<<Sig(<<l, "shi", 0, i, 0>>), Sig(<<l, "slo", 0, i, 0>>)>>)
    BY <1>6 DEF InsOf, XorIns
  <2>3. <<l, "shi", 0, i, 0>> \in Cell /\ <<l, "slo", 0, i, 0>> \in Cell
    BY CellOfBit
  <2>4. Below(Sig(<<l, "shi", 0, i, 0>>), 14) /\ Below(Sig(<<l, "slo", 0, i, 0>>), 14)
    BY <2>1, <2>3, SigBelow
  <2> QED
    BY <2>1, <2>2, <2>4, PairFed, OrFed
<1> QED
  BY <1>1, <1>4, <1>5, <1>6

LEMMA FlagFed ==
    ASSUME NEW l \in Lane, NEW c, IsAcc(c, l) \/ IsLone(c, l)
    PROVE  Fed(InsOf(c), Level(c))
<1>1. ASSUME NEW m \in 0 .. (DIGIT \div 8) - 1, c = <<l, "acc", 0, m, 0>> PROVE Fed(InsOf(c), Level(c))
  <2>1. InsOf(c) = [k \in 1 .. 8 |-> NOT(Sum(l, 8 * m + k - 1))] /\ Level(c) = 15
    BY <1>1 DEF InsOf, Level
  <2>2. \A k \in 1 .. 8 : 8 * m + k - 1 \in Bits
    BY Widths DEF Bits
  <2>3. \A k \in 1 .. 8 : Below(NOT(Sum(l, 8 * m + k - 1)), 15)
    BY <2>2, SumSignals, NotBelow
  <2>4. PICK f : f = InsOf(c)
    OBVIOUS
  <2>5. Listed(f, 8, 15)
    BY <2>1, <2>3, <2>4 DEF Listed
  <2> QED
    BY <2>1, <2>4, <2>5, ListFed
<1>2. CASE c = <<l, "zero", 0, 0, 0>>
  <2>1. InsOf(c) = <<B(l, 0), NOT(B(l, 0))>> /\ Level(c) = 1
    BY <1>2 DEF InsOf, Level
  <2>2. 0 \in Bits
    BY BlockNat
  <2> QED
    BY <2>1, <2>2, BitSignals, NotBelow, PairFed
<1>3. CASE c = <<l, "allz", 0, 0, 0>>
  <2>1. InsOf(c) = [m \in 1 .. DIGIT \div 8 |-> Sig(<<l, "acc", 0, m - 1, 0>>)] /\ Level(c) = 16
    BY <1>3 DEF InsOf, Level
  <2>6. \A m \in 1 .. DIGIT \div 8 : m - 1 \in 0 .. (DIGIT \div 8) - 1
    BY Widths
  <2>2. \A m \in 1 .. DIGIT \div 8 : <<l, "acc", 0, m - 1, 0>> \in Cell /\ Level(<<l, "acc", 0, m - 1, 0>>) = 15
    BY <2>6, CellOfFlag DEF Level
  <2>3. \A m \in 1 .. DIGIT \div 8 : Below(Sig(<<l, "acc", 0, m - 1, 0>>), 16)
    BY <2>2, SigBelow
  <2>4. PICK f, k : f = InsOf(c) /\ k = DIGIT \div 8
    OBVIOUS
  <2>7. k \in Nat \ {0}
    BY <2>4, Widths
  <2>8. f = [m \in 1 .. k |-> Sig(<<l, "acc", 0, m - 1, 0>>)]
    BY <2>1, <2>4
  <2>5. Listed(f, k, 16)
    BY <2>3, <2>4, <2>7, <2>8 DEF Listed
  <2> QED
    BY <2>1, <2>4, <2>5, ListFed
<1>4. CASE c = <<l, "jor", 0, 0, 0>>
  <2>1. InsOf(c) = OrIns(<<Sig(<<l, "allz", 0, 0, 0>>), Sum(l, DIGIT - 1)>>) /\ Level(c) = 17
    BY <1>4 DEF InsOf, Level
  <2>2. <<l, "allz", 0, 0, 0>> \in Cell /\ Level(<<l, "allz", 0, 0, 0>>) = 16
    BY CellOfFlag DEF Level
  <2>3. Below(Sig(<<l, "allz", 0, 0, 0>>), 17)
    BY <2>2, SigBelow
  <2>4. DIGIT - 1 \in Bits
    BY Widths DEF Bits
  <2>5. Below(Sum(l, DIGIT - 1), 17)
    BY <2>4, SumSignals, Widen
  <2> QED
    BY <2>1, <2>3, <2>5, PairFed, OrFed
<1>5. CASE c = <<l, "jmp", 0, 0, 0>>
  <2>1. InsOf(c) = <<OrOf(<<l, "jor", 0, 0, 0>>)>> /\ Level(c) = 18
    BY <1>5 DEF InsOf, Level
  <2>2. <<l, "jor", 0, 0, 0>> \in Cell /\ Level(<<l, "jor", 0, 0, 0>>) = 17
    BY CellOfFlag DEF Level
  <2>3. Below(OrOf(<<l, "jor", 0, 0, 0>>), 18)
    BY <2>2, SigBelow
  <2> QED
    BY <2>1, <2>3, PairFed
<1> QED
  BY <1>1, <1>2, <1>3, <1>4, <1>5 DEF IsAcc, IsLone

\* A term is a cell of its own, or the one signal it consists of.
LEMMA TermBelow ==
    ASSUME NEW n \in Nat, NEW c, NEW xs, Fed(xs, n), Len(xs) # 1 => c \in Cell /\ Level(c) = n
    PROVE  Below(AndOf(c, xs), n + 1)
<1>1. CASE Len(xs) = 1
  BY <1>1, Widen DEF AndOf, Fed
<1>2. CASE Len(xs) # 1
  BY <1>2, SigBelow DEF AndOf
<1> QED
  BY <1>1, <1>2

LEMMA GroupTermsFed ==
    ASSUME NEW l \in Lane, NEW n \in {1, 2}, NEW k \in Blocks(n)
    PROVE  Listed(ClaGroupTerms(l, n, k), 4, (2 * n) + 2)
<1>2. PICK h \in {0, 1} : h = n - 1 /\ (2 * h) + 3 = (2 * n) + 1
  OBVIOUS
<1>0. k \in Nat /\ \A q \in 0 .. 3 : (4 * k) + q \in Blocks(h)
  BY <1>2, BlockNat, Child
<1>3. PICK base \in Int : base = 4 * k
  BY <1>0
<1>4. Siblings(h, base, 4)
  BY <1>0, <1>3 DEF Siblings
<1>5. ASSUME NEW j \in 0 .. 3
      PROVE  /\ Fed(TermIns(l, h, base, 4, j), (2 * n) + 1) /\ Len(TermIns(l, h, base, 4, j)) = 4 - j
  <2>1. j \in 0 .. 4 - 1
    OBVIOUS
  <2>2. IsTerm(TermIns(l, h, base, 4, j), l, h, base, 4, j)
    BY <1>4, <2>1, TermIs
  <2> QED
    BY <1>2, <2>2 DEF IsTerm
<1>12. ASSUME NEW m \in 1 .. 4
      PROVE  Below(AndOf(<<l, "gt", n, k, 4 - m>>, TermIns(l, h, base, 4, 4 - m)), (2 * n) + 2)
  <2>1. PICK j \in 0 .. 3 : j = 4 - m
    OBVIOUS
  <2>2. PICK xs : xs = TermIns(l, h, base, 4, j)
    OBVIOUS
  <2>3. Fed(xs, (2 * n) + 1) /\ Len(xs) = 4 - j
    BY <1>5, <2>2
  <2>7. Level(<<l, "gt", n, k, j>>) = (2 * n) + 1
    BY DEF Level
  <2>8. Len(xs) # 1 => j \in 0 .. 2
    BY <2>3
  <2>4. Len(xs) # 1 => <<l, "gt", n, k, j>> \in Cell /\ Level(<<l, "gt", n, k, j>>) = (2 * n) + 1
    BY <2>7, <2>8, CellOfGroup
  <2>5. PICK v \in Nat : v = (2 * n) + 1 /\ v + 1 = (2 * n) + 2
    OBVIOUS
  <2>6. Below(AndOf(<<l, "gt", n, k, j>>, xs), v + 1)
    BY <2>3, <2>4, <2>5, TermBelow
  <2> QED
    BY <2>1, <2>2, <2>5, <2>6
<1>13. ClaGroupTerms(l, n, k) = [m \in 1 .. 4 |-> AndOf(<<l, "gt", n, k, 4 - m>>, TermIns(l, h, base, 4, 4 - m))]
  BY <1>2, <1>3 DEF ClaGroupTerms
<1>14. Listed(ClaGroupTerms(l, n, k), 4, (2 * n) + 2)
  BY <1>12, <1>13 DEF Listed
<1> QED
  BY <1>14

LEMMA GroupFed ==
    ASSUME NEW l \in Lane, NEW n \in {1, 2}, NEW c, IsGroup(c, l, n)
    PROVE  Fed(InsOf(c), Level(c))
<1>1. PICK k \in Blocks(n) : \/ \E j \in 0 .. 2 : c = <<l, "gt", n, k, j>>
                             \/ c \in {<<l, "gg", n, k, 0>>, <<l, "gp", n, k, 0>>}
  BY DEF IsGroup
<1>2. PICK h \in {0, 1} : h = n - 1 /\ (2 * h) + 3 = (2 * n) + 1
  OBVIOUS
<1>0. k \in Nat /\ \A q \in 0 .. 3 : (4 * k) + q \in Blocks(h)
  BY <1>2, BlockNat, Child
<1>3. PICK base \in Int : base = 4 * k
  BY <1>0
<1>4. Siblings(h, base, 4)
  BY <1>0, <1>3 DEF Siblings
<1>5. ASSUME NEW j \in 0 .. 3
      PROVE  /\ Fed(TermIns(l, h, base, 4, j), (2 * n) + 1) /\ Len(TermIns(l, h, base, 4, j)) = 4 - j
  <2>1. j \in 0 .. 4 - 1
    OBVIOUS
  <2>2. IsTerm(TermIns(l, h, base, 4, j), l, h, base, 4, j)
    BY <1>4, <2>1, TermIs
  <2> QED
    BY <1>2, <2>2 DEF IsTerm
<1>6. ASSUME NEW j \in 0 .. 2, c = <<l, "gt", n, k, j>> PROVE Fed(InsOf(c), Level(c))
  <2>1. InsOf(c) = TermIns(l, h, base, 4, j) /\ Level(c) = (2 * n) + 1
    BY <1>2, <1>3, <1>6 DEF InsOf, Level
  <2> QED
    BY <1>5, <2>1
<1>7. CASE c = <<l, "gp", n, k, 0>>
  <2>1. InsOf(c) = PRun(l, h, base, 3, 0) /\ Level(c) = (2 * n) + 1
    BY <1>2, <1>3, <1>7 DEF InsOf, Level
  <2>2. Fed(PRun(l, h, base, 4 - 1, 0), (2 * h) + 3)
    BY <1>4, RunOfBlocks
  <2>3. 4 - 1 = 3
    OBVIOUS
  <2> QED
    BY <1>2, <2>1, <2>2, <2>3
<1>8. CASE c = <<l, "gg", n, k, 0>>
  <2>1. InsOf(c) = OrIns(ClaGroupTerms(l, n, k)) /\ Level(c) = (2 * n) + 2
    BY <1>8 DEF InsOf, Level
  <2>2. Listed(ClaGroupTerms(l, n, k), 4, (2 * n) + 2)
    BY GroupTermsFed
  <2> QED
    BY <2>1, <2>2, ListFed, OrFed
<1> QED
  BY <1>1, <1>6, <1>7, <1>8

LEMMA BorrowTermsFed ==
    ASSUME NEW l \in Lane, NEW n \in {0, 1, 2}, NEW i \in Blocks(n), i % 4 # 0
    PROVE  Listed(ClaBorrowTerms(l, n, i), (i % 4) + 1, 12 - (2 * n))
<1>0. i % 4 \in 0 .. 3 /\ i - (i % 4) \in Nat /\ \A q \in 0 .. i % 4 : i - (i % 4) + q \in Blocks(n)
  BY PlaceInBlock
<1>2. PICK u \in 1 .. 3 : u = i % 4
  BY <1>0
<1>3. PICK base \in Nat : base = i - u
  BY <1>0, <1>2
<1>4. Siblings(n, base, u)
  BY <1>0, <1>2, <1>3 DEF Siblings
<1>5. (2 * n) + 3 <= 11 - (2 * n) /\ 11 - (2 * n) \in Nat /\ (11 - (2 * n)) + 1 = 12 - (2 * n) /\ (2 * n) + 3 \in Nat
  OBVIOUS
<1>6. \A xs : Fed(xs, (2 * n) + 3) => Fed(xs, 11 - (2 * n))
  BY <1>5, Widen DEF Fed
<1>7. ASSUME NEW j \in 0 .. u - 1
      PROVE  Fed(TermIns(l, n, base, u, j), 11 - (2 * n)) /\ Len(TermIns(l, n, base, u, j)) = u - j
  <2>1. IsTerm(TermIns(l, n, base, u, j), l, n, base, u, j)
    BY <1>4, TermIs
  <2> QED
    BY <1>6, <2>1 DEF IsTerm
<1>12. PICK terms : terms = ClaBorrowTerms(l, n, i)
  OBVIOUS
<1>13. terms = [m \in 1 .. u + 1 |-> IF m <= u THEN AndOf(<<l, "bt", n, i, u - m>>, TermIns(l, n, base, u, u - m))
                                              ELSE Sig(<<l, "bt", n, i, -1>>)]
  BY <1>2, <1>3, <1>12 DEF ClaBorrowTerms
<1>14. ASSUME NEW m \in 1 .. u + 1, m <= u PROVE Below(terms[m], 12 - (2 * n))
  <2>1. PICK j \in 0 .. u - 1 : j = u - m
    BY <1>14
  <2>2. PICK xs : xs = TermIns(l, n, base, u, j)
    OBVIOUS
  <2>3. Fed(xs, 11 - (2 * n)) /\ Len(xs) = u - j
    BY <1>7, <2>2
  <2>7. Level(<<l, "bt", n, i, j>>) = 11 - (2 * n)
    BY DEF Level
  <2>8. Len(xs) # 1 => j \in -1 .. (i % 4) - 2
    BY <1>2, <2>3
  <2>4. Len(xs) # 1 => <<l, "bt", n, i, j>> \in Cell /\ Level(<<l, "bt", n, i, j>>) = 11 - (2 * n)
    BY <2>7, <2>8, CellOfBorrow
  <2>5. Below(AndOf(<<l, "bt", n, i, j>>, xs), (11 - (2 * n)) + 1)
    BY <1>5, <2>3, <2>4, TermBelow
  <2> QED
    BY <1>5, <1>13, <1>14, <2>1, <2>2, <2>5
<1>15. ASSUME NEW m \in 1 .. u + 1, ~(m <= u) PROVE Below(terms[m], 12 - (2 * n))
  <2>4. \A j \in -1 .. (i % 4) - 2 : <<l, "bt", n, i, j>> \in Cell
    BY CellOfBorrow
  <2>1. <<l, "bt", n, i, -1>> \in Cell
    BY <1>2, <2>4
  <2>2. Level(<<l, "bt", n, i, -1>>) = 11 - (2 * n)
    BY DEF Level
  <2>3. Level(<<l, "bt", n, i, -1>>) \in Nat /\ Level(<<l, "bt", n, i, -1>>) < 12 - (2 * n)
    BY <2>2
  <2> QED
    BY <1>13, <1>15, <2>1, <2>3, SigBelow
<1>17. terms = [m \in 1 .. u + 1 |-> terms[m]]
  BY <1>13
<1>18. \A m \in 1 .. u + 1 : Below(terms[m], 12 - (2 * n))
  BY <1>14, <1>15
<1>16. Listed(terms, u + 1, 12 - (2 * n))
  BY <1>17, <1>18 DEF Listed
<1> QED
  BY <1>2, <1>12, <1>16

LEMMA BorrowFed ==
    ASSUME NEW l \in Lane, NEW n \in {0, 1, 2}, NEW c, IsBorrow(c, l, n)
    PROVE  Fed(InsOf(c), Level(c))
<1>1. PICK i \in Blocks(n) :
         i % 4 # 0 /\ (c = <<l, "bo", n, i, 0>> \/ \E j \in -1 .. (i % 4) - 2 : c = <<l, "bt", n, i, j>>)
  BY DEF IsBorrow
<1>0. i % 4 \in 0 .. 3 /\ i - (i % 4) \in Nat /\ \A q \in 0 .. i % 4 : i - (i % 4) + q \in Blocks(n)
  BY PlaceInBlock
<1>2. PICK u \in 1 .. 3 : u = i % 4
  BY <1>0, <1>1
<1>3. PICK base \in Nat : base = i - u
  BY <1>0, <1>2
<1>4. Siblings(n, base, u)
  BY <1>0, <1>2, <1>3 DEF Siblings
<1>5. (2 * n) + 3 <= 11 - (2 * n) /\ 11 - (2 * n) \in Nat /\ (11 - (2 * n)) + 1 = 12 - (2 * n) /\ (2 * n) + 3 \in Nat
  OBVIOUS
<1>6. \A xs : Fed(xs, (2 * n) + 3) => Fed(xs, 11 - (2 * n))
  BY <1>5, Widen DEF Fed
<1>7. ASSUME NEW j \in 0 .. u - 1
      PROVE  Fed(TermIns(l, n, base, u, j), 11 - (2 * n)) /\ Len(TermIns(l, n, base, u, j)) = u - j
  <2>1. IsTerm(TermIns(l, n, base, u, j), l, n, base, u, j)
    BY <1>4, TermIs
  <2> QED
    BY <1>6, <2>1 DEF IsTerm
<1>8. Below(BorIn(l, n, i), 11 - (2 * n))
  <2>1. CASE n = 2
    BY <2>1, BorrowSignals, Widen DEF BorIn
  <2>2. CASE n = 1
    BY <2>2, BorrowSignals, Parent DEF BorIn
  <2>3. CASE n = 0
    BY <2>3, BorrowSignals, Parent DEF BorIn
  <2> QED
    BY <2>1, <2>2, <2>3
<1>9. ASSUME NEW j \in -1 .. u - 2, c = <<l, "bt", n, i, j>> PROVE Fed(InsOf(c), Level(c))
  <2>1. Level(c) = 11 - (2 * n)
    BY <1>9 DEF Level
  <2>2. CASE j = -1
    <3>1. InsOf(c) = Append(PRun(l, n, base, u - 1, 0), BorIn(l, n, i))
      BY <1>2, <1>3, <1>9, <2>2 DEF InsOf
    <3>2. Fed(PRun(l, n, base, u - 1, 0), (2 * n) + 3)
      BY <1>4, RunOfBlocks
    <3>3. Fed(PRun(l, n, base, u - 1, 0), 11 - (2 * n))
      BY <1>6, <3>2
    <3> QED
      BY <1>8, <2>1, <3>1, <3>3, AppendFed DEF Fed
  <2>3. CASE j # -1
    <3>1. InsOf(c) = TermIns(l, n, base, u, j)
      BY <1>2, <1>3, <1>9, <2>3 DEF InsOf
    <3> QED
      BY <1>7, <2>1, <2>3, <3>1
  <2> QED
    BY <2>2, <2>3
<1>10. CASE c = <<l, "bo", n, i, 0>>
  <2>1. InsOf(c) = OrIns(ClaBorrowTerms(l, n, i)) /\ Level(c) = 12 - (2 * n)
    BY <1>10 DEF InsOf, Level
  <2>2. Listed(ClaBorrowTerms(l, n, i), (i % 4) + 1, 12 - (2 * n))
    BY <1>1, BorrowTermsFed
  <2> QED
    BY <2>1, <2>2, ListFed, OrFed
<1> QED
  BY <1>1, <1>2, <1>9, <1>10

LEMMA NetlistFed ==
    ASSUME NEW c \in Cell, InsOf(c) # <<>>
    PROVE  Fed(InsOf(c), Level(c))
<1>1. PICK l \in Lane : \/ IsBit(c, l) \/ IsSum(c, l) \/ IsAcc(c, l) \/ IsLone(c, l)
                        \/ \E n \in {1, 2} : IsGroup(c, l, n)
                        \/ \E n \in {0, 1, 2} : IsBorrow(c, l, n)
  BY Roles
<1> QED
  BY <1>1, BitFed, SumFed, FlagFed, GroupFed, BorrowFed

(* Recursion over an interval                                              *)

LEMMA Smallest == ASSUME NEW T \in SUBSET Nat, T # {} PROVE \E x \in T : \A y \in T : x <= y
<1>1. PICK x \in T : \A y \in T : <<y, x>> \notin OpToRel(<, Nat)
  BY NatLessThanWellFounded, WFMin, Zenon
<1>2. ASSUME NEW y \in T PROVE x <= y
  <2>1. <<y, x>> \in Nat \X Nat /\ <<y, x>>[1] = y /\ <<y, x>>[2] = x
    OBVIOUS
  <2>2. ~(y < x)
    BY <1>1, <2>1, Zenon DEF OpToRel
  <2> QED
    BY <2>2
<1> QED
  BY <1>2

LEMMA Climb ==
    ASSUME NEW L \in Nat, NEW H, 0 \in H, \A k \in 1 .. L : k - 1 \in H => k \in H
    PROVE  \A k \in 0 .. L : k \in H
<1> DEFINE Bad == (0 .. L) \ H
<1>1. SUFFICES ASSUME Bad # {} PROVE FALSE
  OBVIOUS
<1>2. Bad \in SUBSET Nat
  OBVIOUS
<1>3. \E m \in Bad : \A k \in Bad : m <= k
  <2> HIDE DEF Bad
  <2> QED
    BY <1>1, <1>2, Smallest
<1>4. PICK m \in Bad : \A k \in Bad : m <= k
  BY <1>3
<1>5. m \in 1 .. L /\ m - 1 \in 0 .. L /\ m - 1 \notin Bad
  BY <1>4
<1> QED
  BY <1>4, <1>5

\* The values of a recursive function whose step is F, up to k.
Unfolds(f, F, base, U, k) == f \in [0 .. k -> U] /\ f[0] = base /\ \A n \in 1 .. k : f[n] = F[<<n, f[n - 1]>>]

LEMMA Recursion ==
    ASSUME NEW U, NEW base \in U, NEW L \in Nat, NEW F \in [(1 .. L) \X U -> U]
    PROVE  \E f : Unfolds(f, F, base, U, L)
<1> DEFINE H == {k \in 0 .. L : \E f : Unfolds(f, F, base, U, k)}
<1>1. 0 \in H
  <2>1. PICK f : f = [n \in 0 .. 0 |-> base]
    OBVIOUS
  <2>2. Unfolds(f, F, base, U, 0)
    BY <2>1 DEF Unfolds
  <2> QED
    BY <2>2
<1>2. ASSUME NEW m \in 1 .. L, m - 1 \in H PROVE m \in H
  <2>1. m - 1 \in 0 .. L /\ m \in Nat \ {0}
    OBVIOUS
  <2>2. PICK f : Unfolds(f, F, base, U, m - 1)
    BY <1>2
  <2>3. PICK g : g = [n \in 0 .. m |-> IF n = m THEN F[<<m, f[m - 1]>>] ELSE f[n]]
    OBVIOUS
  <2>4. f \in [0 .. m - 1 -> U] /\ f[0] = base /\ \A n \in 1 .. m - 1 : f[n] = F[<<n, f[n - 1]>>]
    BY <2>2 DEF Unfolds
  <2>5. F[<<m, f[m - 1]>>] \in U
    <3>1. m - 1 \in 0 .. m - 1
      BY <2>1
    <3>2. f[m - 1] \in U
      BY <2>4, <3>1
    <3> QED
      BY <3>2
  <2>6. \A n \in 0 .. m : n = m \/ n \in 0 .. m - 1
    BY <2>1
  <2>7. g \in [0 .. m -> U]
    BY <2>3, <2>4, <2>5, <2>6
  <2>8. g[0] = base
    BY <2>1, <2>3, <2>4
  <2>9. ASSUME NEW n \in 1 .. m PROVE g[n] = F[<<n, g[n - 1]>>]
    <3>1. n - 1 \in 0 .. m /\ n - 1 # m /\ n \in 0 .. m
      BY <2>1
    <3>2. g[n - 1] = f[n - 1]
      BY <2>3, <3>1
    <3>3. CASE n = m
      BY <2>3, <3>1, <3>2, <3>3
    <3>4. CASE n # m
      <4>1. n \in 1 .. m - 1
        BY <2>1, <3>4
      <4>2. f[n] = F[<<n, f[n - 1]>>] /\ g[n] = f[n]
        BY <2>3, <2>4, <3>1, <3>4, <4>1
      <4> QED
        BY <3>2, <4>2
    <3> QED
      BY <3>3, <3>4
  <2>10. Unfolds(g, F, base, U, m)
    BY <2>7, <2>8, <2>9 DEF Unfolds
  <2> QED
    BY <2>10
<1>3. \A k \in 0 .. L : k \in H
  <2> HIDE DEF H
  <2> QED
    BY <1>1, <1>2, Climb
<1> QED
  BY <1>3

(* The schedule                                                            *)

\* Each write takes a later step than the one before it, and than the step
\* that completes its source.
LEMMA StepsAre ==
    ASSUME NEW settled, NEW ins, NEW L \in Nat, Len(ins) = L, \A k \in 1 .. L : At(settled, ins[k]) \in Nat
    PROVE  /\ Steps(settled, ins) \in [0 .. L -> Nat \ {0}]
           /\ \A k \in 1 .. L : /\ Steps(settled, ins)[k] > At(settled, ins[k])
                                /\ Steps(settled, ins)[k] > Steps(settled, ins)[k - 1]
<1> DEFINE Looped(u) == u = [k \in 0 .. Len(ins) |-> IF k = 0 THEN 1 ELSE MaxOf(At(settled, ins[k]), u[k - 1]) + 1]
<1>1. \E u : Looped(u)
  <2>1. PICK F : F = [p \in (1 .. L) \X (Nat \ {0}) |-> MaxOf(At(settled, ins[p[1]]), p[2]) + 1]
    OBVIOUS
  <2>2. \A k \in 1 .. L : \A x \in Nat \ {0} : F[<<k, x>>] = MaxOf(At(settled, ins[k]), x) + 1 /\ F[<<k, x>>] \in Nat \ {0}
    BY <2>1 DEF MaxOf
  <2>3. F \in [(1 .. L) \X (Nat \ {0}) -> Nat \ {0}]
    BY <2>1, <2>2
  <2>4. PICK f : Unfolds(f, F, 1, Nat \ {0}, L)
    <3>1. PICK U : U = Nat \ {0}
      OBVIOUS
    <3>2. 1 \in U /\ F \in [(1 .. L) \X U -> U]
      BY <2>3, <3>1
    <3> QED
      BY <3>1, <3>2, Recursion
  <2>5. ASSUME NEW k \in 0 .. L PROVE f[k] = IF k = 0 THEN 1 ELSE MaxOf(At(settled, ins[k]), f[k - 1]) + 1
    <3>1. CASE k = 0
      BY <2>4, <3>1 DEF Unfolds
    <3>2. CASE k # 0
      <4>1. k \in 1 .. L /\ k - 1 \in 0 .. L
        BY <3>2
      <4>2. f[k] = F[<<k, f[k - 1]>>] /\ f[k - 1] \in Nat \ {0}
        BY <2>4, <4>1 DEF Unfolds
      <4> QED
        BY <2>2, <3>2, <4>1, <4>2
    <3> QED
      BY <3>1, <3>2
  <2>6. f = [k \in 0 .. L |-> f[k]]
    BY <2>4 DEF Unfolds
  <2> QED
    BY <2>5, <2>6
<1>2. Steps(settled, ins) = CHOOSE u : Looped(u)
  BY DEF Steps
<1>3. PICK u : u = Steps(settled, ins) /\ Looped(u)
  <2> HIDE DEF Looped
  <2> QED
    BY <1>1, <1>2, Zenon
<1>4. /\ DOMAIN u = 0 .. L /\ u = [k \in 0 .. L |-> u[k]] /\ u[0] = 1
      /\ \A k \in 1 .. L : u[k] = MaxOf(At(settled, ins[k]), u[k - 1]) + 1
  BY <1>3
<1> DEFINE H == {k \in 0 .. L : u[k] \in Nat \ {0}}
<1>5. 0 \in H
  BY <1>4
<1>6. ASSUME NEW k \in 1 .. L, k - 1 \in H PROVE k \in H
  <2>1. u[k] = MaxOf(At(settled, ins[k]), u[k - 1]) + 1 /\ At(settled, ins[k]) \in Nat /\ u[k - 1] \in Nat \ {0}
    BY <1>4, <1>6
  <2> QED
    BY <2>1 DEF MaxOf
<1>7. \A k \in 0 .. L : k \in H
  <2> HIDE DEF H
  <2> QED
    BY <1>5, <1>6, Climb
<1>8. u \in [0 .. L -> Nat \ {0}]
  BY <1>4, <1>7
<1>9. ASSUME NEW k \in 1 .. L PROVE u[k] > At(settled, ins[k]) /\ u[k] > u[k - 1]
  <2>1. k - 1 \in 0 .. L /\ At(settled, ins[k]) \in Nat
    OBVIOUS
  <2>3. u[k] = MaxOf(At(settled, ins[k]), u[k - 1]) + 1
    BY <1>4
  <2>2. u[k - 1] \in Nat
    BY <1>7, <2>1
  <2> QED
    BY <2>1, <2>2, <2>3 DEF MaxOf
<1> QED
  BY <1>3, <1>8, <1>9

\* The stable sort of a cell's writes: their ranks are a permutation.
RankSet(settled, ins, i) ==
    {j \in DOMAIN ins : \/ At(settled, ins[j]) < At(settled, ins[i])
                        \/ At(settled, ins[j]) = At(settled, ins[i]) /\ j <= i}

LEMMA RanksRise ==
    ASSUME NEW settled, NEW ins, NEW L \in Nat, DOMAIN ins = 1 .. L, \A k \in 1 .. L : At(settled, ins[k]) \in Nat
    PROVE  /\ \A i \in 1 .. L : Rank(settled, ins, i) \in 1 .. L
           /\ \A i, j \in 1 .. L : Rank(settled, ins, i) = Rank(settled, ins, j) => i = j
<1> DEFINE S(i) == RankSet(settled, ins, i)
           Under(i, j) == \/ At(settled, ins[i]) < At(settled, ins[j])
                          \/ At(settled, ins[i]) = At(settled, ins[j]) /\ i <= j
<1>1. \A i \in 1 .. L : Rank(settled, ins, i) = Cardinality(S(i))
  BY DEF Rank, RankSet
<1>2. \A i, j \in 1 .. L : i \in S(j) <=> Under(i, j)
  BY DEF RankSet
<1>3. \A i \in 1 .. L : S(i) \subseteq 1 .. L
  BY DEF RankSet
<1>4. \A i \in 1 .. L : i \in S(i)
  BY <1>2
<1> HIDE DEF S
<1>5. \A i \in 1 .. L : /\ IsFiniteSet(S(i)) /\ Cardinality(S(i)) \in Nat
                        /\ Cardinality(S(i)) <= L /\ Cardinality(S(i)) # 0
  <2> TAKE i \in 1 .. L
  <2>1. IsFiniteSet(1 .. L) /\ Cardinality(1 .. L) = L
    BY FS_Interval
  <2>2. IsFiniteSet(S(i)) /\ Cardinality(S(i)) <= L
    BY <1>3, <2>1, FS_Subset
  <2>3. S(i) # {}
    BY <1>4
  <2> QED
    BY <2>2, <2>3, FS_CardinalityType, FS_EmptySet
<1>6. ASSUME NEW i \in 1 .. L, NEW j \in 1 .. L, i # j, Under(i, j) PROVE Cardinality(S(i)) < Cardinality(S(j))
  <2>1. ~Under(j, i)
    BY <1>6
  <2>2. ASSUME NEW k \in S(i) PROVE k \in S(j)
    <3>1. k \in 1 .. L /\ Under(k, i)
      BY <1>2, <1>3
    <3>2. At(settled, ins[k]) \in Nat /\ At(settled, ins[i]) \in Nat /\ At(settled, ins[j]) \in Nat
      BY <3>1
    <3>3. Under(k, j)
      BY <1>6, <3>1, <3>2
    <3> QED
      BY <1>2, <3>1, <3>3
  <2>3. j \in S(j) /\ j \notin S(i)
    BY <1>2, <1>4, <2>1
  <2>4. S(i) \in SUBSET S(j) /\ S(i) # S(j)
    BY <2>2, <2>3
  <2>5. Cardinality(S(i)) <= Cardinality(S(j)) /\ (Cardinality(S(j)) = Cardinality(S(i)) => S(j) = S(i))
    BY <1>5, <2>4, FS_Subset
  <2> QED
    BY <1>5, <2>4, <2>5
<1>7. \A i, j \in 1 .. L : Under(i, j) \/ Under(j, i)
  OBVIOUS
<1>8. \A i, j \in 1 .. L : Cardinality(S(i)) = Cardinality(S(j)) => i = j
  <2> HIDE DEF Under
  <2> QED
    BY <1>5, <1>6, <1>7
<1> QED
  BY <1>1, <1>5, <1>8

Timed(settled, ins, L) == L \in Nat /\ DOMAIN ins = 1 .. L /\ \A k \in 1 .. L : At(settled, ins[k]) \in Nat
Shuffles(xs, ins, L) == /\ DOMAIN xs = 1 .. L /\ xs = [k \in 1 .. L |-> xs[k]]
                        /\ \A k \in 1 .. L : \E i \in 1 .. L : xs[k] = ins[i]
                        /\ \A i \in 1 .. L : \E k \in 1 .. L : xs[k] = ins[i]
\* Every write stands at its rank and every place has a write.
ByRank(xs, settled, ins, L) ==
    /\ \A i \in 1 .. L : Rank(settled, ins, i) \in 1 .. L /\ xs[Rank(settled, ins, i)] = ins[i]
    /\ \A k \in 1 .. L : \E i \in 1 .. L : Rank(settled, ins, i) = k

\* The sort neither loses nor invents a write, and puts each at its rank.
LEMMA SortedIs ==
    ASSUME NEW settled, NEW ins, NEW L, Timed(settled, ins, L)
    PROVE  /\ Shuffles(Sorted(settled, ins), ins, L)
           /\ ByRank(Sorted(settled, ins), settled, ins, L)
<1>0. L \in Nat /\ DOMAIN ins = 1 .. L /\ \A k \in 1 .. L : At(settled, ins[k]) \in Nat
  BY DEF Timed
<1>1. PICK f : f = [i \in 1 .. L |-> Rank(settled, ins, i)]
  OBVIOUS
<1>2. f \in [1 .. L -> 1 .. L] /\ \A i, j \in 1 .. L : f[i] = f[j] => i = j
  BY <1>0, <1>1, RanksRise
<1>3. \A k \in 1 .. L : \E i \in 1 .. L : f[i] = k
  <2>1. f \in Injection(1 .. L, 1 .. L)
    BY <1>2 DEF Injection, IsInjective
  <2>2. IsFiniteSet(1 .. L)
    BY <1>0, FS_Interval
  <2>3. f \in Surjection(1 .. L, 1 .. L)
    BY <2>1, <2>2, FS_Injection
  <2> QED
    BY <2>3 DEF Surjection
<1>4. Sorted(settled, ins) = [k \in 1 .. L |-> ins[CHOOSE i \in 1 .. L : Rank(settled, ins, i) = k]]
  BY <1>0 DEF Sorted
<1>5. PICK h : h = [k \in 1 .. L |-> CHOOSE i \in 1 .. L : Rank(settled, ins, i) = k]
  OBVIOUS
<1>6. \A k \in 1 .. L : h[k] \in 1 .. L /\ f[h[k]] = k
  <2> TAKE k \in 1 .. L
  <2>1. \E i \in 1 .. L : Rank(settled, ins, i) = k
    BY <1>1, <1>3
  <2>2. h[k] = CHOOSE i \in 1 .. L : Rank(settled, ins, i) = k
    BY <1>5
  <2>3. h[k] \in 1 .. L /\ Rank(settled, ins, h[k]) = k
    BY <2>1, <2>2
  <2> QED
    BY <1>1, <2>3
<1>7. \A k \in 1 .. L : Sorted(settled, ins)[k] = ins[h[k]]
  BY <1>4, <1>5
<1>8. \A i \in 1 .. L : f[i] \in 1 .. L /\ h[f[i]] = i
  BY <1>2, <1>6
<1>9. \A i \in 1 .. L : Sorted(settled, ins)[f[i]] = ins[i]
  BY <1>7, <1>8
<1> QED
  BY <1>1, <1>2, <1>3, <1>4, <1>6, <1>7, <1>8, <1>9 DEF Shuffles, ByRank

\* What the schedule says of a cell: every input is written, each in a step
\* after the one that completes its source.
Entry == [complete : Nat \ {0}, writes : Seq([src : Source, step : Nat])]
InTime(settled, c) ==
    /\ \A k \in DOMAIN settled[c].writes :
          LET w == settled[c].writes[k]
          IN  /\ \E i \in DOMAIN InsOf(c) : w.src = InsOf(c)[i]
              /\ w.src.cell \in DOMAIN settled
              /\ settled[w.src.cell].complete < w.step /\ w.step <= settled[c].complete
    /\ \A i \in DOMAIN InsOf(c) : \E k \in DOMAIN settled[c].writes : settled[c].writes[k].src = InsOf(c)[i]
    /\ \A j, k \in DOMAIN settled[c].writes : settled[c].writes[j].step = settled[c].writes[k].step => j = k
Settled(settled) == /\ DOMAIN settled \subseteq Cell /\ settled \in [DOMAIN settled -> Entry]
                    /\ \A c \in DOMAIN settled : InTime(settled, c)

\* A later step of a cell is at or before the one that completes it.
LEMMA StepsRise ==
    ASSUME NEW L \in Nat, NEW st \in [0 .. L -> Nat], \A k \in 1 .. L : st[k] > st[k - 1]
    PROVE  \A k \in 1 .. L : st[k] <= st[L]
<1> DEFINE H == {j \in 0 .. L : \A k \in 0 .. j : st[k] <= st[j]}
<1>1. 0 \in H
  OBVIOUS
<1>2. ASSUME NEW j \in 1 .. L, j - 1 \in H PROVE j \in H
  <2>1. j - 1 \in 0 .. L /\ st[j] > st[j - 1] /\ st[j] \in Nat /\ st[j - 1] \in Nat /\ j \in 0 .. L
    OBVIOUS
  <2>2. \A k \in 0 .. j : k = j \/ k \in 0 .. j - 1
    BY <2>1
  <2>3. \A k \in 0 .. j - 1 : st[k] <= st[j - 1] /\ st[k] \in Nat
    BY <1>2, <2>1
  <2>4. \A k \in 0 .. j : st[k] <= st[j]
    BY <2>1, <2>2, <2>3
  <2> QED
    BY <2>1, <2>4
<1>3. \A k \in 0 .. L : k \in H
  <2> HIDE DEF H
  <2> QED
    BY <1>1, <1>2, Climb
<1> QED
  BY <1>3

LEMMA StepsDiffer ==
    ASSUME NEW L \in Nat, NEW st \in [0 .. L -> Nat], \A k \in 1 .. L : st[k] > st[k - 1]
    PROVE  \A j, k \in 1 .. L : st[j] = st[k] => j = k
<1> DEFINE H == {k \in 0 .. L : \A j \in 0 .. k - 1 : st[j] < st[k]}
<1>1. 0 \in H
  OBVIOUS
<1>2. ASSUME NEW k \in 1 .. L, k - 1 \in H PROVE k \in H
  <2>1. k - 1 \in 0 .. L /\ st[k] > st[k - 1] /\ st[k] \in Nat /\ st[k - 1] \in Nat /\ k \in 0 .. L
    OBVIOUS
  <2>2. \A j \in 0 .. k - 1 : j = k - 1 \/ (j \in 0 .. (k - 1) - 1 /\ st[j] \in Nat)
    BY <2>1
  <2>3. \A j \in 0 .. (k - 1) - 1 : st[j] < st[k - 1]
    BY <1>2
  <2>4. ASSUME NEW j \in 0 .. k - 1 PROVE st[j] < st[k]
    <3>1. CASE j = k - 1
      BY <2>1, <3>1
    <3>2. CASE j # k - 1
      BY <2>1, <2>2, <2>3, <3>2
    <3> QED
      BY <3>1, <3>2
  <2> QED
    BY <2>1, <2>4
<1>3. \A k \in 0 .. L : k \in H
  <2> HIDE DEF H
  <2> QED
    BY <1>1, <1>2, Climb
<1>4. \A j, k \in 1 .. L : j < k => st[j] < st[k]
  BY <1>3
<1>5. \A j \in 1 .. L : st[j] \in Nat
  OBVIOUS
<1> QED
  BY <1>4, <1>5

LEMMA PlacedInTime ==
    ASSUME NEW settled, Settled(settled), NEW c \in Cell \ DOMAIN settled, InsOf(c) \in Seq(Source),
           \A src \in Range(InsOf(c)) : src.cell \in DOMAIN settled,
           NEW later, DOMAIN settled \subseteq DOMAIN later, \A d \in DOMAIN settled : later[d] = settled[d],
           later[c] = PlacedAfter(settled, Sorted(settled, InsOf(c)))
    PROVE  later[c] \in Entry /\ InTime(later, c)
<1>1. PICK ins, L : ins = InsOf(c) /\ L = Len(ins)
  OBVIOUS
<1>2. ins \in Seq(Source) /\ L \in Nat /\ DOMAIN ins = 1 .. L /\ \A i \in 1 .. L : ins[i] \in Source
  BY <1>1
<1>3. \A i \in 1 .. L : ins[i].cell \in DOMAIN settled
  BY <1>1, <1>2 DEF Range
<1>4. \A i \in 1 .. L : At(settled, ins[i]) \in Nat
  BY <1>3 DEF Settled, Entry, At
<1>5. PICK xs : xs = Sorted(settled, ins)
  OBVIOUS
<1>6. /\ DOMAIN xs = 1 .. L /\ xs = [k \in 1 .. L |-> xs[k]]
      /\ \A k \in 1 .. L : \E i \in 1 .. L : xs[k] = ins[i]
      /\ \A i \in 1 .. L : \E k \in 1 .. L : xs[k] = ins[i]
  <2>1. Timed(settled, ins, L)
    BY <1>2, <1>4 DEF Timed
  <2>2. Shuffles(xs, ins, L)
    BY <1>5, <2>1, SortedIs
  <2> QED
    BY <2>2 DEF Shuffles
<1>7. \A k \in 1 .. L : xs[k] \in Source /\ xs[k].cell \in DOMAIN settled /\ At(settled, xs[k]) \in Nat
  <2> TAKE k \in 1 .. L
  <2>1. PICK i \in 1 .. L : xs[k] = ins[i]
    BY <1>6
  <2> QED
    BY <1>2, <1>3, <1>4, <2>1
<1>8. Len(xs) = L
  <2>1. xs \in [1 .. L -> Source]
    BY <1>6, <1>7
  <2>2. xs \in Seq(Source)
    BY <1>2, <2>1, IsASeq
  <2> QED
    BY <1>2, <1>6, <2>2, LenProperties
<1>9. PICK st : st = Steps(settled, xs)
  OBVIOUS
<1>10. /\ st \in [0 .. L -> Nat \ {0}]
       /\ \A k \in 1 .. L : st[k] > At(settled, xs[k]) /\ st[k] > st[k - 1]
  BY <1>2, <1>7, <1>8, <1>9, StepsAre
<1>11. \A k \in 1 .. L : st[k] <= st[L]
  <2>1. st \in [0 .. L -> Nat]
    BY <1>10
  <2> QED
    BY <1>2, <1>10, <2>1, StepsRise
<1>12. later[c] = [complete |-> st[L], writes |-> [k \in 1 .. L |-> [src |-> xs[k], step |-> st[k]]]]
  BY <1>1, <1>5, <1>6, <1>8, <1>9 DEF PlacedAfter, Placed
<1>13. /\ later[c].complete = st[L] /\ DOMAIN later[c].writes = 1 .. L
       /\ \A k \in 1 .. L : later[c].writes[k].src = xs[k] /\ later[c].writes[k].step = st[k]
  BY <1>12
<1>14. later[c] \in Entry
  <2>1. [k \in 1 .. L |-> [src |-> xs[k], step |-> st[k]]] \in Seq([src : Source, step : Nat])
    BY <1>2, <1>7, <1>10
  <2>2. st[L] \in Nat \ {0}
    BY <1>2, <1>10
  <2> QED
    BY <1>12, <2>1, <2>2 DEF Entry
<1>15. \A k \in 1 .. L : xs[k].cell \in DOMAIN later /\ later[xs[k].cell].complete < st[k] /\ st[k] <= st[L]
  <2> TAKE k \in 1 .. L
  <2>1. xs[k].cell \in DOMAIN settled /\ later[xs[k].cell].complete = At(settled, xs[k])
    BY <1>7 DEF At
  <2>2. st[k] > At(settled, xs[k]) /\ st[k] <= st[L] /\ st[k] \in Nat /\ At(settled, xs[k]) \in Nat
    BY <1>7, <1>10, <1>11
  <2> QED
    BY <2>1, <2>2
<1>16. InTime(later, c)
  <2>1. ASSUME NEW k \in DOMAIN later[c].writes
        PROVE  LET w == later[c].writes[k]
               IN  /\ \E i \in DOMAIN InsOf(c) : w.src = InsOf(c)[i]
                   /\ w.src.cell \in DOMAIN later
                   /\ later[w.src.cell].complete < w.step /\ w.step <= later[c].complete
    <3>1. k \in 1 .. L /\ later[c].writes[k].src = xs[k] /\ later[c].writes[k].step = st[k]
      BY <1>13
    <3>2. \E i \in 1 .. L : xs[k] = ins[i]
      BY <1>6, <3>1
    <3>3. xs[k].cell \in DOMAIN later /\ later[xs[k].cell].complete < st[k] /\ st[k] <= st[L]
      BY <1>15, <3>1
    <3> QED
      BY <1>1, <1>2, <1>13, <3>1, <3>2, <3>3
  <2>2. ASSUME NEW i \in DOMAIN InsOf(c) PROVE \E k \in DOMAIN later[c].writes : later[c].writes[k].src = InsOf(c)[i]
    <3>1. PICK k \in 1 .. L : xs[k] = ins[i]
      BY <1>1, <1>2, <1>6
    <3> QED
      BY <1>1, <1>13, <3>1
  <2>3. \A j, k \in DOMAIN later[c].writes : later[c].writes[j].step = later[c].writes[k].step => j = k
    <3>1. st \in [0 .. L -> Nat]
      BY <1>10
    <3>2. \A j, k \in 1 .. L : st[j] = st[k] => j = k
      BY <1>2, <1>10, <3>1, StepsDiffer
    <3> QED
      BY <1>13, <3>2
  <2> QED
    BY <2>1, <2>2, <2>3 DEF InTime
<1> QED
  BY <1>14, <1>16

ReadyCells(settled) == {c \in Cell \ DOMAIN settled : \A src \in Range(InsOf(c)) : src.cell \in DOMAIN settled}
Pass(settled) ==
    [c \in DOMAIN settled \cup ReadyCells(settled) |->
        IF c \in ReadyCells(settled) THEN PlacedAfter(settled, Sorted(settled, InsOf(c))) ELSE settled[c]]

LEMMA WiredSources == ASSUME NEW c \in Cell PROVE InsOf(c) \in Seq(Source)
<1>1. CASE InsOf(c) = <<>>
  BY <1>1
<1>2. CASE InsOf(c) # <<>>
  BY <1>2, NetlistFed DEF Fed
<1> QED
  BY <1>1, <1>2

LEMMA PassSettles ==
    ASSUME NEW settled, Settled(settled)
    PROVE  Settled(Pass(settled)) /\ DOMAIN Pass(settled) = DOMAIN settled \cup ReadyCells(settled)
<1>1. PICK later : later = Pass(settled)
  OBVIOUS
<1>2. /\ DOMAIN later = DOMAIN settled \cup ReadyCells(settled)
      /\ later = [c \in DOMAIN later |-> later[c]]
      /\ \A c \in DOMAIN settled : later[c] = settled[c]
      /\ \A c \in ReadyCells(settled) : later[c] = PlacedAfter(settled, Sorted(settled, InsOf(c)))
  <2>1. \A c \in ReadyCells(settled) : c \notin DOMAIN settled
    BY DEF ReadyCells
  <2> HIDE DEF ReadyCells
  <2> QED
    BY <1>1, <2>1 DEF Pass
<1>3. DOMAIN settled \subseteq DOMAIN later
  BY <1>2
<1>4. ASSUME NEW c \in DOMAIN settled PROVE later[c] \in Entry /\ InTime(later, c)
  <2>1. settled[c] \in Entry /\ InTime(settled, c) /\ later[c] = settled[c]
    BY <1>2, <1>4 DEF Settled
  <2>2. \A d \in DOMAIN settled : later[d] = settled[d] /\ d \in DOMAIN later
    BY <1>2
  <2>3. InTime(later, c)
    BY <2>1, <2>2 DEF InTime
  <2> QED
    BY <2>1, <2>3
<1>5. ASSUME NEW c \in ReadyCells(settled) PROVE later[c] \in Entry /\ InTime(later, c)
  <2>1. c \in Cell \ DOMAIN settled /\ \A src \in Range(InsOf(c)) : src.cell \in DOMAIN settled
    BY DEF ReadyCells
  <2>2. InsOf(c) \in Seq(Source)
    BY <2>1, WiredSources
  <2>3. later[c] = PlacedAfter(settled, Sorted(settled, InsOf(c)))
    BY <1>2
  <2> QED
    BY <1>2, <1>3, <2>1, <2>2, <2>3, PlacedInTime
<1>6. DOMAIN later \subseteq Cell
  BY <1>2 DEF Settled, ReadyCells
<1>7. later \in [DOMAIN later -> Entry]
  BY <1>2, <1>4, <1>5
<1>8. Settled(later)
  BY <1>2, <1>4, <1>5, <1>6, <1>7 DEF Settled
<1> QED
  BY <1>1, <1>2, <1>8

\* The netlist is 18 gates deep.
LEMMA LevelBound ==
    ASSUME NEW c \in Cell
    PROVE  Level(c) \in 0 .. 18 /\ (Level(c) = 0 => c \in InputCells)
<1>1. PICK l \in Lane : \/ IsBit(c, l) \/ IsSum(c, l) \/ IsAcc(c, l) \/ IsLone(c, l)
                        \/ \E n \in {1, 2} : IsGroup(c, l, n)
                        \/ \E n \in {0, 1, 2} : IsBorrow(c, l, n)
  BY Roles
<1>2. CASE IsBit(c, l)
  BY <1>2 DEF IsBit, Level, InputCells
<1>3. CASE IsSum(c, l)
  BY <1>3 DEF IsSum, Level
<1>4. CASE IsAcc(c, l)
  BY <1>4 DEF IsAcc, Level
<1>5. CASE IsLone(c, l)
  BY <1>5 DEF IsLone, Level
<1>6. ASSUME NEW n \in {1, 2}, IsGroup(c, l, n) PROVE Level(c) \in 1 .. 18
  BY <1>6 DEF IsGroup, Level
<1>7. ASSUME NEW n \in {0, 1, 2}, IsBorrow(c, l, n) PROVE Level(c) \in 1 .. 18
  BY <1>7 DEF IsBorrow, Level
<1> QED
  BY <1>1, <1>2, <1>3, <1>4, <1>5, <1>6, <1>7

\* The combinational loop that schedule() asserts against is impossible.
AreRounds(u) == u = [n \in 0 .. Passes |-> IF n = 0 THEN [c \in InputCells |-> [complete |-> 1, writes |-> <<>>]]
                                           ELSE Pass(u[n - 1])]

LEMMA FirstSettled ==
    Settled([c \in InputCells |-> [complete |-> 1, writes |-> <<>>]])
<1>1. PICK s : s = [c \in InputCells |-> [complete |-> 1, writes |-> <<>>]]
  OBVIOUS
<1>2. DOMAIN s = InputCells /\ \A c \in InputCells : c \in Cell /\ InsOf(c) = <<>>
  BY <1>1 DEF InputCells, InsOf
<1>3. [complete |-> 1, writes |-> <<>>] \in Entry
  BY DEF Entry
<1>4. s \in [DOMAIN s -> Entry]
  BY <1>1, <1>3
<1>5. \A c \in DOMAIN s : s[c].writes = <<>> /\ InsOf(c) = <<>>
  BY <1>1, <1>2
<1>6. \A c \in DOMAIN s : InTime(s, c)
  BY <1>5 DEF InTime
<1>7. Settled(s)
  BY <1>2, <1>4, <1>6 DEF Settled
<1> QED
  BY <1>1, <1>7

LEMMA RoundsRun == \E u : AreRounds(u)
<1> DEFINE First == [c \in InputCells |-> [complete |-> 1, writes |-> <<>>]]
           Maps == UNION {[D -> Entry] : D \in SUBSET Cell}
           U == {s \in Maps : Settled(s)}
<1>1. \A s : Settled(s) => s \in U
  BY DEF Settled
<1>2. First \in U
  BY <1>1, FirstSettled
<1>3. PICK F : F = [p \in (1 .. Passes) \X U |-> Pass(p[2])]
  OBVIOUS
<1>4. \A n \in 1 .. Passes : \A s \in U : F[<<n, s>>] = Pass(s)
  <2> HIDE DEF U
  <2> QED
    BY <1>3
<1>5. \A s \in U : Pass(s) \in U
  BY <1>1, PassSettles
<1>6. F \in [(1 .. Passes) \X U -> U]
  <2> HIDE DEF U
  <2> QED
    BY <1>3, <1>5
<1>7. Passes \in Nat
  BY DEF Passes
<1>8. \E f : Unfolds(f, F, First, U, Passes)
  <2> HIDE DEF U, First
  <2> QED
    BY <1>2, <1>6, <1>7, Recursion
<1>9. PICK f : Unfolds(f, F, First, U, Passes)
  BY <1>8
<1> HIDE DEF U, First
<1>10. /\ f = [n \in 0 .. Passes |-> f[n]] /\ f[0] = First
       /\ \A n \in 1 .. Passes : f[n] = F[<<n, f[n - 1]>>] /\ f[n - 1] \in U
  BY <1>7, <1>9 DEF Unfolds
<1>11. \A n \in 0 .. Passes : f[n] = IF n = 0 THEN First ELSE Pass(f[n - 1])
  <2> TAKE n \in 0 .. Passes
  <2>1. CASE n = 0
    BY <1>10, <2>1
  <2>2. CASE n # 0
    <3>1. n \in 1 .. Passes
      BY <1>7, <2>2
    <3> QED
      BY <1>4, <1>10, <2>2, <3>1
  <2> QED
    BY <2>1, <2>2
<1>12. AreRounds(f)
  BY <1>10, <1>11 DEF AreRounds, First
<1> QED
  BY <1>12

LEMMA ScheduleIs == \E u : AreRounds(u) /\ Schedule = u[Passes]
<1> DEFINE Looped(u) ==
        u = [n \in 0 .. Passes |->
              IF n = 0 THEN [c \in InputCells |-> [complete |-> 1, writes |-> <<>>]]
              ELSE LET settled == u[n - 1]
                       ready == {c \in Cell \ DOMAIN settled :
                                  \A src \in Range(InsOf(c)) : src.cell \in DOMAIN settled}
                   IN  [c \in DOMAIN settled \cup ready |->
                           IF c \in ready THEN PlacedAfter(settled, Sorted(settled, InsOf(c))) ELSE settled[c]]]
<1>1. \A u : AreRounds(u) <=> Looped(u)
  BY DEF AreRounds, Pass, ReadyCells
<1>2. Schedule = (CHOOSE u : Looped(u))[Passes]
  BY DEF Schedule
<1>3. \E u : Looped(u)
  BY <1>1, RoundsRun
<1> HIDE DEF Looped
<1>4. PICK u : u = (CHOOSE v : Looped(v)) /\ Looped(u)
  BY <1>3, Zenon
<1>5. Schedule = u[Passes]
  BY <1>2, <1>4
<1> QED
  BY <1>1, <1>4, <1>5

\* Pass n has scheduled every cell that lies at most n gates from the inputs.
Reached(settled, n) == \A c \in Cell : Level(c) <= n => c \in DOMAIN settled

LEMMA PassReaches ==
    ASSUME NEW n \in Nat, NEW settled, Settled(settled), Reached(settled, n)
    PROVE  Reached(Pass(settled), n + 1)
<1>1. SUFFICES ASSUME NEW c \in Cell, Level(c) <= n + 1 PROVE c \in DOMAIN Pass(settled)
  BY DEF Reached
<1>2. DOMAIN Pass(settled) = DOMAIN settled \cup ReadyCells(settled)
  BY PassSettles
<1>3. ASSUME NEW src \in Range(InsOf(c)) PROVE src.cell \in DOMAIN settled
  <2>1. PICK i \in DOMAIN InsOf(c) : src = InsOf(c)[i]
    BY DEF Range
  <2>2. InsOf(c) # <<>>
    BY <2>1
  <2>3. Below(src, Level(c))
    BY <2>1, <2>2, NetlistFed DEF Fed
  <2>4. src.cell \in Cell /\ Level(src.cell) \in Nat /\ Level(src.cell) < Level(c) /\ Level(c) \in Nat
    BY <2>3, LevelBound DEF Below, Source
  <2>5. Level(src.cell) <= n
    BY <1>1, <2>4
  <2> QED
    BY <2>4, <2>5 DEF Reached
<1> QED
  BY <1>2, <1>3 DEF ReadyCells

LEMMA ScheduleSettled == Settled(Schedule) /\ DOMAIN Schedule = Cell
<1>1. PICK u : AreRounds(u) /\ Schedule = u[Passes]
  BY ScheduleIs
<1>2. Passes \in Nat /\ Passes = 40
  BY DEF Passes
<1>3. /\ u[0] = [c \in InputCells |-> [complete |-> 1, writes |-> <<>>]]
      /\ \A n \in 1 .. Passes : u[n] = Pass(u[n - 1])
  <2>1. PICK first : first = [c \in InputCells |-> [complete |-> 1, writes |-> <<>>]]
    OBVIOUS
  <2>2. u = [n \in 0 .. Passes |-> IF n = 0 THEN first ELSE Pass(u[n - 1])]
    BY <1>1, <2>1 DEF AreRounds
  <2>3. \A n \in 1 .. Passes : n \in 0 .. Passes /\ n # 0
    BY <1>2
  <2>4. u[0] = first
    BY <1>2, <2>2
  <2>5. \A n \in 1 .. Passes : u[n] = Pass(u[n - 1])
    BY <2>2, <2>3
  <2> QED
    BY <2>1, <2>4, <2>5
<1> DEFINE H == {n \in 0 .. Passes : Settled(u[n]) /\ Reached(u[n], n)}
<1>4. 0 \in H
  <2>1. Settled(u[0])
    BY <1>3, FirstSettled
  <2>2. DOMAIN u[0] = InputCells
    BY <1>3
  <2>3. Reached(u[0], 0)
    <3>1. \A c \in Cell : Level(c) <= 0 => c \in InputCells
      BY LevelBound
    <3> QED
      BY <2>2, <3>1 DEF Reached
  <2> QED
    BY <1>2, <2>1, <2>3
<1>5. ASSUME NEW n \in 1 .. Passes, n - 1 \in H PROVE n \in H
  <2>1. PICK m \in Nat : m = n - 1 /\ n = m + 1
    BY <1>2
  <2>2. Settled(u[m]) /\ Reached(u[m], m) /\ u[n] = Pass(u[m])
    BY <1>3, <1>5, <2>1
  <2>3. Settled(u[n]) /\ Reached(u[n], m + 1)
    BY <2>2, PassSettles, PassReaches
  <2> QED
    BY <2>1, <2>3
<1>6. Passes \in H
  <2>1. \A n \in 0 .. Passes : n \in H
    <3> HIDE DEF H
    <3> QED
      BY <1>2, <1>4, <1>5, Climb
  <2> QED
    BY <1>2, <2>1
<1>7. Settled(Schedule) /\ Reached(Schedule, Passes)
  BY <1>1, <1>6
<1>8. \A c \in Cell : Level(c) <= Passes
  BY <1>2, LevelBound
<1> QED
  BY <1>7, <1>8 DEF Settled, Reached

(* The last step                                                           *)

Kinds == {"a", "b", "zero", "hi", "lo", "x", "g", "gt", "gg", "gp", "bt", "bo", "shi", "slo", "s",
          "acc", "allz", "jor", "jmp"}
Named == (((Lane \X Kinds) \X (0 .. 2)) \X Bits) \X (-1 .. 2)

LEMMA NamedFinite == IsFiniteSet(Named)
<1>1. LANES \in Nat /\ DIGIT \in Nat /\ Lane = 0 .. LANES - 1 /\ Bits = 0 .. DIGIT - 1
  BY GeometryAssumption DEF Lane, Bits
<1>2. IsFiniteSet(Lane) /\ IsFiniteSet(Bits) /\ IsFiniteSet(0 .. 2) /\ IsFiniteSet(-1 .. 2)
  <2>1. \A m, n \in Int : IsFiniteSet(m .. n)
    BY FS_Interval
  <2>2. LANES - 1 \in Int /\ DIGIT - 1 \in Int /\ 0 \in Int /\ 2 \in Int /\ -1 \in Int
    BY <1>1
  <2>3. IsFiniteSet(0 .. LANES - 1) /\ IsFiniteSet(0 .. DIGIT - 1)
    BY <2>1, <2>2
  <2>4. IsFiniteSet(0 .. 2) /\ IsFiniteSet(-1 .. 2)
    BY <2>1, <2>2
  <2> QED
    BY <1>1, <2>3, <2>4
<1>3. IsFiniteSet(Kinds)
  <2>1. \A S, x : IsFiniteSet(S) => IsFiniteSet(S \cup {x})
    BY FS_AddElement
  <2>2. IsFiniteSet({"a"})
    BY FS_Singleton
  <2>3. IsFiniteSet({"a", "b", "zero", "hi", "lo", "x", "g"})
    <3>1. IsFiniteSet({"a"} \cup {"b"} \cup {"zero"} \cup {"hi"} \cup {"lo"} \cup {"x"} \cup {"g"})
      BY <2>1, <2>2
    <3>2. {"a"} \cup {"b"} \cup {"zero"} \cup {"hi"} \cup {"lo"} \cup {"x"} \cup {"g"} = {"a", "b", "zero", "hi", "lo", "x", "g"}
      OBVIOUS
    <3> QED
      BY <3>1, <3>2
  <2>4. IsFiniteSet({"a", "b", "zero", "hi", "lo", "x", "g", "gt", "gg", "gp", "bt", "bo", "shi"})
    <3>1. IsFiniteSet({"a", "b", "zero", "hi", "lo", "x", "g"} \cup {"gt"} \cup {"gg"} \cup {"gp"} \cup {"bt"} \cup {"bo"} \cup {"shi"})
      BY <2>1, <2>3
    <3>2. {"a", "b", "zero", "hi", "lo", "x", "g"} \cup {"gt"} \cup {"gg"} \cup {"gp"} \cup {"bt"} \cup {"bo"} \cup {"shi"} = {"a", "b", "zero", "hi", "lo", "x", "g", "gt", "gg", "gp", "bt", "bo", "shi"}
      OBVIOUS
    <3> QED
      BY <3>1, <3>2
  <2>5. IsFiniteSet({"a", "b", "zero", "hi", "lo", "x", "g", "gt", "gg", "gp", "bt", "bo", "shi", "slo", "s", "acc", "allz", "jor", "jmp"})
    <3>1. IsFiniteSet({"a", "b", "zero", "hi", "lo", "x", "g", "gt", "gg", "gp", "bt", "bo", "shi"} \cup {"slo"} \cup {"s"} \cup {"acc"} \cup {"allz"} \cup {"jor"} \cup {"jmp"})
      BY <2>1, <2>4
    <3>2. {"a", "b", "zero", "hi", "lo", "x", "g", "gt", "gg", "gp", "bt", "bo", "shi"} \cup {"slo"} \cup {"s"} \cup {"acc"} \cup {"allz"} \cup {"jor"} \cup {"jmp"} = {"a", "b", "zero", "hi", "lo", "x", "g", "gt", "gg", "gp", "bt", "bo", "shi", "slo", "s", "acc", "allz", "jor", "jmp"}
      OBVIOUS
    <3> QED
      BY <3>1, <3>2
  <2> QED
    BY <2>5 DEF Kinds
<1>4. IsFiniteSet(Lane \X Kinds)
  BY <1>2, <1>3, FS_Product
<1>5. IsFiniteSet((Lane \X Kinds) \X (0 .. 2))
  BY <1>2, <1>4, FS_Product
<1>6. IsFiniteSet(((Lane \X Kinds) \X (0 .. 2)) \X Bits)
  BY <1>2, <1>5, FS_Product
<1> QED
  BY <1>2, <1>6, FS_Product DEF Named

LEMMA CellNamed ==
    ASSUME NEW c \in Cell
    PROVE  <<<<<<<<c[1], c[2]>>, c[3]>>, c[4]>>, c[5]>> \in Named /\ c = <<c[1], c[2], c[3], c[4], c[5]>>
<1> DEFINE Good(d) == \E l \in Lane, k \in Kinds, n \in 0 .. 2, i \in Bits, j \in -1 .. 2 : d = <<l, k, n, i, j>>
<1>1. PICK l \in Lane : \/ IsBit(c, l) \/ IsSum(c, l) \/ IsAcc(c, l) \/ IsLone(c, l)
                        \/ \E n \in {1, 2} : IsGroup(c, l, n)
                        \/ \E n \in {0, 1, 2} : IsBorrow(c, l, n)
  BY Roles
<1>2. 0 \in Bits /\ \A n \in {0, 1, 2} : Blocks(n) \subseteq Bits
  BY Widths DEF Blocks, Bits
<1>7. ASSUME NEW n \in {1, 2}, IsGroup(c, l, n) PROVE Good(c)
  BY <1>2, <1>7 DEF IsGroup, Kinds
<1>8. ASSUME NEW n \in {0, 1, 2}, IsBorrow(c, l, n) PROVE Good(c)
  <2>1. PICK i \in Blocks(n) : i % 4 # 0 /\ (c = <<l, "bo", n, i, 0>> \/ \E j \in -1 .. (i % 4) - 2 : c = <<l, "bt", n, i, j>>)
    BY <1>8 DEF IsBorrow
  <2>2. i \in Bits /\ i \in Nat
    BY <1>2, <2>1, BlockNat
  <2>3. i % 4 \in 0 .. 3
    BY <2>2
  <2> QED
    BY <2>1, <2>2, <2>3 DEF Kinds
<1>9. Good(c)
  <2>1. ASSUME IsBit(c, l) PROVE Good(c)
    BY <2>1 DEF IsBit, Kinds
  <2>2. ASSUME IsSum(c, l) PROVE Good(c)
    BY <2>2 DEF IsSum, Kinds
  <2>3. ASSUME IsAcc(c, l) PROVE Good(c)
    <3>1. \A m \in 0 .. (DIGIT \div 8) - 1 : m \in Bits
      BY Widths DEF Bits
    <3> QED
      BY <2>3, <3>1 DEF IsAcc, Kinds
  <2>4. ASSUME IsLone(c, l) PROVE Good(c)
    BY <1>2, <2>4 DEF IsLone, Kinds
  <2> QED
    BY <1>1, <1>7, <1>8, <2>1, <2>2, <2>3, <2>4
<1> QED
  BY <1>9 DEF Named

LEMMA CompleteBounded == \E b \in Nat : \A c \in Cell : Schedule[c].complete <= b
<1> DEFINE Role(c) == <<<<<<<<c[1], c[2]>>, c[3]>>, c[4]>>, c[5]>>
<1>1. PICK n \in Nat : \E e \in [1 .. n -> Named] : \A p \in Named : \E i \in 1 .. n : e[i] = p
  <2>1. PICK n \in Nat : ExistsSurjection(1 .. n, Named)
    BY NamedFinite, FS_NatSurjection
  <2> QED
    BY <2>1 DEF ExistsSurjection, Surjection
<1>2. PICK e \in [1 .. n -> Named] : \A p \in Named : \E i \in 1 .. n : e[i] = p
  BY <1>1
<1>3. \A c \in Cell : Schedule[c].complete \in Nat
  BY ScheduleSettled DEF Settled, Entry
<1>4. \A c, d \in Cell : Role(c) = Role(d) => c = d
  <2> TAKE c, d \in Cell
  <2>1. c = <<c[1], c[2], c[3], c[4], c[5]>> /\ d = <<d[1], d[2], d[3], d[4], d[5]>>
    BY CellNamed
  <2> QED
    BY <2>1
<1>5. \A c \in Cell : Role(c) \in Named
  BY CellNamed
<1> HIDE DEF Role
<1> DEFINE Bound(b, k) == \A i \in 1 .. k : \A c \in Cell : Role(c) = e[i] => Schedule[c].complete <= b
           H == {k \in 0 .. n : \E b \in Nat : Bound(b, k)}
<1>6. 0 \in H
  BY 0 \in Nat
<1>7. ASSUME NEW k \in 1 .. n, k - 1 \in H PROVE k \in H
  <2>1. PICK b \in Nat : Bound(b, k - 1)
    BY <1>7
  <2>2. PICK d \in Nat : d >= b /\ \A c \in Cell : Role(c) = e[k] => Schedule[c].complete <= d
    <3>1. CASE \E c \in Cell : Role(c) = e[k]
      <4>1. PICK c \in Cell : Role(c) = e[k]
        BY <3>1
      <4>2. \A a \in Cell : Role(a) = e[k] => a = c
        BY <1>4, <4>1
      <4>3. PICK d \in Nat : d >= b /\ Schedule[c].complete <= d
        <5>1. \A x, y \in Nat : \E z \in Nat : z >= x /\ y <= z
          OBVIOUS
        <5> QED
          BY <1>3, <5>1
      <4> QED
        BY <4>2, <4>3
    <3>2. CASE ~\E c \in Cell : Role(c) = e[k]
      BY <3>2
    <3> QED
      BY <3>1, <3>2
  <2>3. ASSUME NEW i \in 1 .. k, NEW c \in Cell, Role(c) = e[i] PROVE Schedule[c].complete <= d
    <3>1. CASE i = k
      BY <2>2, <2>3, <3>1
    <3>2. CASE i # k
      <4>1. i \in 1 .. k - 1 /\ Schedule[c].complete \in Nat
        BY <1>3, <3>2
      <4>2. Schedule[c].complete <= b
        BY <2>1, <2>3, <4>1
      <4> QED
        BY <2>2, <4>1, <4>2
    <3> QED
      BY <3>1, <3>2
  <2>4. Bound(d, k) /\ k \in 0 .. n
    BY <2>3
  <2> QED
    BY <2>4
<1>8. n \in H
  <2>1. \A k \in 0 .. n : k \in H
    <3> HIDE DEF H
    <3> QED
      BY <1>6, <1>7, Climb
  <2>2. n \in 0 .. n
    OBVIOUS
  <2> HIDE DEF H
  <2> QED
    BY <2>1, <2>2
<1>9. PICK b \in Nat : Bound(b, n)
  BY <1>8
<1>10. ASSUME NEW c \in Cell PROVE Schedule[c].complete <= b
  <2>1. PICK i \in 1 .. n : e[i] = Role(c)
    BY <1>2, <1>5
  <2> QED
    BY <1>9, <2>1
<1> QED
  BY <1>10

\* The assert of schedule() never fires: whatever the word length, the netlist
\* of build_lane has no combinational loop and every cell gets a step; and the
\* schedule writes every input to its cell, in a step after the one that
\* completes its source.
THEOREM EveryCellScheduled ==
    /\ DOMAIN Schedule = Cell
    /\ \A c \in Cell : InTime(Schedule, c)
BY ScheduleSettled DEF Settled

----------------------------------------------------------------------------
(* Sequences that are joined from parts, and the order of the cells *)

\* xs is the first n parts, one after the other; part j begins after off[j - 1].
Joins(xs, parts, n, U, off) ==
    /\ xs \in Seq(U) /\ off \in [0 .. n -> Nat] /\ off[0] = 0 /\ Len(xs) = off[n]
    /\ \A j \in 1 .. n : off[j] = off[j - 1] + Len(parts[j])
    /\ \A j \in 1 .. n : \A i \in 1 .. Len(parts[j]) :
          off[j - 1] + i \in 1 .. Len(xs) /\ xs[off[j - 1] + i] = parts[j][i]
    /\ \A x \in 1 .. Len(xs) : \E j \in 1 .. n : \E i \in 1 .. Len(parts[j]) : x = off[j - 1] + i

LEMMA JoinOne ==
    ASSUME NEW U, NEW m \in Nat, NEW n \in 1 .. m, NEW parts \in [1 .. m -> Seq(U)],
           NEW xs, NEW off, Joins(xs, parts, n - 1, U, off)
    PROVE  \E new : Joins(xs \o parts[n], parts, n, U, new)
<1>1. PICK ys, p, new : ys = xs \o p /\ p = parts[n]
                        /\ new = [j \in 0 .. n |-> IF j = n THEN Len(ys) ELSE off[j]]
  OBVIOUS
<1>2. /\ xs \in Seq(U) /\ off \in [0 .. n - 1 -> Nat] /\ off[0] = 0 /\ Len(xs) = off[n - 1]
      /\ \A j \in 1 .. n - 1 : off[j] = off[j - 1] + Len(parts[j])
      /\ \A j \in 1 .. n - 1 : \A i \in 1 .. Len(parts[j]) :
            off[j - 1] + i \in 1 .. Len(xs) /\ xs[off[j - 1] + i] = parts[j][i]
      /\ \A x \in 1 .. Len(xs) : \E j \in 1 .. n - 1 : \E i \in 1 .. Len(parts[j]) : x = off[j - 1] + i
  BY DEF Joins
<1>3. p \in Seq(U) /\ \A j \in 1 .. n : parts[j] \in Seq(U) /\ Len(parts[j]) \in Nat
  BY <1>1
<1>4. /\ ys \in Seq(U) /\ Len(ys) = Len(xs) + Len(p) /\ Len(xs) \in Nat /\ Len(p) \in Nat
      /\ \A i \in 1 .. Len(xs) + Len(p) : ys[i] = IF i <= Len(xs) THEN xs[i] ELSE p[i - Len(xs)]
  <2>1. p \in Seq(U)
    BY <1>3
  <2>2. /\ xs \o p \in Seq(U) /\ Len(xs \o p) = Len(xs) + Len(p)
        /\ \A i \in 1 .. Len(xs) + Len(p) : (xs \o p)[i] = IF i <= Len(xs) THEN xs[i] ELSE p[i - Len(xs)]
    BY <1>2, <2>1, ConcatProperties
  <2> QED
    BY <1>1, <1>2, <2>1, <2>2
<1>5. \A j \in 0 .. n - 1 : new[j] = off[j] /\ new[j] \in Nat
  BY <1>1, <1>2
<1>6. new \in [0 .. n -> Nat] /\ new[0] = 0 /\ new[n] = Len(ys) /\ new[n - 1] = Len(xs)
  BY <1>1, <1>2, <1>4, <1>5
<1>7. \A j \in 1 .. n : j = n \/ (j \in 1 .. n - 1 /\ j - 1 \in 0 .. n - 1 /\ j \in 0 .. n - 1)
  OBVIOUS
<1>8. ASSUME NEW j \in 1 .. n PROVE new[j] = new[j - 1] + Len(parts[j])
  BY <1>1, <1>2, <1>4, <1>5, <1>6, <1>7
<1>9. ASSUME NEW j \in 1 .. n, NEW i \in 1 .. Len(parts[j])
      PROVE  new[j - 1] + i \in 1 .. Len(ys) /\ ys[new[j - 1] + i] = parts[j][i]
  <2>1. CASE j = n
    <3>1. new[j - 1] + i = Len(xs) + i /\ i \in 1 .. Len(p)
      BY <1>1, <1>6, <2>1
    <3>2. Len(xs) + i \in 1 .. Len(xs) + Len(p) /\ ~(Len(xs) + i <= Len(xs)) /\ (Len(xs) + i) - Len(xs) = i
      BY <1>4, <3>1
    <3> QED
      BY <1>1, <1>4, <2>1, <3>1, <3>2
  <2>2. CASE j # n
    <3>1. j \in 1 .. n - 1 /\ new[j - 1] = off[j - 1]
      BY <1>5, <1>7, <2>2
    <3>2. PICK x \in 1 .. Len(xs) : x = off[j - 1] + i /\ xs[x] = parts[j][i]
      BY <1>2, <3>1
    <3>3. x \in 1 .. Len(xs) + Len(p) /\ x <= Len(xs)
      BY <1>4
    <3>4. x \in 1 .. Len(ys) /\ ys[x] = xs[x]
      BY <1>4, <3>3
    <3> QED
      BY <3>1, <3>2, <3>4
  <2> QED
    BY <2>1, <2>2
<1>10. ASSUME NEW x \in 1 .. Len(ys) PROVE \E j \in 1 .. n : \E i \in 1 .. Len(parts[j]) : x = new[j - 1] + i
  <2>1. CASE x <= Len(xs)
    <3>1. x \in 1 .. Len(xs)
      BY <1>4, <2>1
    <3>2. PICK j \in 1 .. n - 1 : \E i \in 1 .. Len(parts[j]) : x = off[j - 1] + i
      BY <1>2, <3>1
    <3>3. j \in 1 .. n /\ j - 1 \in 0 .. n - 1
      OBVIOUS
    <3>4. new[j - 1] = off[j - 1]
      BY <1>5, <3>3
    <3> QED
      BY <3>2, <3>3, <3>4
  <2>2. CASE x > Len(xs)
    <3>1. x \in Nat /\ x <= Len(xs) + Len(p)
      BY <1>4
    <3>2. x - Len(xs) \in 1 .. Len(p) /\ x = Len(xs) + (x - Len(xs))
      BY <1>4, <2>2, <3>1
    <3>3. PICK i \in 1 .. Len(p) : x = Len(xs) + i
      BY <3>2
    <3>4. n \in 1 .. n /\ new[n - 1] = Len(xs) /\ parts[n] = p
      BY <1>1, <1>6
    <3>5. \E h \in 1 .. Len(parts[n]) : x = new[n - 1] + h
      BY <3>3, <3>4, Zenon
    <3> QED
      BY <3>4, <3>5
  <2> QED
    BY <1>4, <2>1, <2>2
<1>11. Joins(ys, parts, n, U, new)
  BY <1>4, <1>6, <1>8, <1>9, <1>10 DEF Joins
<1> QED
  BY <1>1, <1>11

LEMMA Flattened ==
    ASSUME NEW U, NEW n \in Nat, NEW parts \in [1 .. n -> Seq(U)]
    PROVE  \E off : Joins(FlattenSeq(parts), parts, n, U, off)
<1>1. parts \in Seq(Seq(U)) /\ Len(parts) = n
  OBVIOUS
<1>2. CASE n = 0
  <2>1. FlattenSeq(parts) = parts
    BY <1>1, <1>2 DEF FlattenSeq
  <2>2. parts \in Seq(U) /\ Len(parts) = 0
    BY <1>1, <1>2
  <2>3. PICK off : off = [j \in 0 .. 0 |-> 0]
    OBVIOUS
  <2>4. Joins(parts, parts, 0, U, off)
    BY <2>2, <2>3 DEF Joins
  <2> QED
    BY <1>2, <2>1, <2>4
<1>3. CASE n # 0
  <2>1. PICK F : F = [q \in (1 .. n) \X Seq(U) |-> q[2] \o parts[q[1]]]
    OBVIOUS
  <2>2. \A k \in 1 .. n : \A x \in Seq(U) : F[<<k, x>>] = x \o parts[k] /\ F[<<k, x>>] \in Seq(U)
    <3>1. \A k \in 1 .. n : parts[k] \in Seq(U)
      OBVIOUS
    <3>2. \A k \in 1 .. n : \A x \in Seq(U) : x \o parts[k] \in Seq(U)
      BY <3>1, ConcatProperties
    <3>3. \A k \in 1 .. n : \A x \in Seq(U) : F[<<k, x>>] = x \o parts[k]
      BY <2>1
    <3> QED
      BY <3>2, <3>3
  <2>3. F \in [(1 .. n) \X Seq(U) -> Seq(U)]
    BY <2>1, <2>2
  <2>4. PICK g : Unfolds(g, F, <<>>, Seq(U), n)
    <3>1. PICK V : V = Seq(U)
      OBVIOUS
    <3>2. <<>> \in V /\ F \in [(1 .. n) \X V -> V]
      BY <2>3, <3>1
    <3> QED
      BY <3>1, <3>2, Recursion
  <2>5. /\ g[0] = <<>> /\ \A k \in 0 .. n : g[k] \in Seq(U)
        /\ \A k \in 1 .. n : g[k] = g[k - 1] \o parts[k]
    <3>1. g \in [0 .. n -> Seq(U)] /\ g[0] = <<>> /\ \A k \in 1 .. n : g[k] = F[<<k, g[k - 1]>>]
      BY <2>4 DEF Unfolds
    <3>2. \A k \in 1 .. n : k - 1 \in 0 .. n
      OBVIOUS
    <3> QED
      BY <2>2, <3>1, <3>2
  <2>6. g[1] = parts[1]
    <3>1. 1 \in 1 .. n /\ g[1 - 1] = <<>>
      BY <1>3, <2>5
    <3>2. g[1] = <<>> \o parts[1] /\ parts[1] \in Seq(U)
      BY <2>5, <3>1
    <3> QED
      BY <3>2, ConcatEmptySeq
  <2> DEFINE Loop(u) == u = [i \in 1 .. n |-> IF i = 1 THEN parts[i] ELSE u[i - 1] \o parts[i]]
  <2>7. \E u : Loop(u)
    <3>1. PICK u : u = [k \in 1 .. n |-> g[k]]
      OBVIOUS
    <3>2. ASSUME NEW i \in 1 .. n PROVE u[i] = IF i = 1 THEN parts[i] ELSE u[i - 1] \o parts[i]
      <4>1. CASE i = 1
        BY <2>6, <3>1, <4>1
      <4>2. CASE i # 1
        <5>1. i - 1 \in 1 .. n
          BY <4>2
        <5> QED
          BY <2>5, <3>1, <4>2, <5>1
      <4> QED
        BY <4>1, <4>2
    <3>3. u = [i \in 1 .. n |-> IF i = 1 THEN parts[i] ELSE u[i - 1] \o parts[i]]
      BY <3>1, <3>2, Zenon
    <3> QED
      BY <3>3
  <2>8. FlattenSeq(parts) = (CHOOSE u : Loop(u))[n]
    BY <1>1, <1>3 DEF FlattenSeq
  <2>9. PICK u : Loop(u) /\ FlattenSeq(parts) = u[n]
    <3> HIDE DEF Loop
    <3> QED
      BY <2>7, <2>8, Zenon
  <2>10. \A i \in 1 .. n : u[i] = IF i = 1 THEN parts[i] ELSE u[i - 1] \o parts[i]
    BY <2>9
  <2>11. \A k \in 0 .. n : k = 0 \/ u[k] = g[k]
    <3> DEFINE H == {k \in 0 .. n : k = 0 \/ u[k] = g[k]}
    <3>1. 0 \in H
      OBVIOUS
    <3>2. ASSUME NEW k \in 1 .. n, k - 1 \in H PROVE k \in H
      <4>1. CASE k = 1
        BY <2>6, <2>10, <4>1
      <4>2. CASE k # 1
        <5>1. u[k - 1] = g[k - 1]
          BY <3>2, <4>2
        <5>2. u[k] = u[k - 1] \o parts[k] /\ g[k] = g[k - 1] \o parts[k]
          BY <2>5, <2>10, <4>2
        <5>3. u[k] = g[k]
          BY <5>1, <5>2
        <5> QED
          BY <5>3
      <4> QED
        BY <4>1, <4>2
    <3>3. \A k \in 0 .. n : k \in H
      <4> HIDE DEF H
      <4> QED
        BY <3>1, <3>2, Climb
    <3> QED
      BY <3>3
  <2>12. \A k \in 0 .. n : \E off : Joins(g[k], parts, k, U, off)
    <3> DEFINE H == {k \in 0 .. n : \E off : Joins(g[k], parts, k, U, off)}
    <3>1. 0 \in H
      <4>1. PICK off : off = [j \in 0 .. 0 |-> 0]
        OBVIOUS
      <4>2. Joins(g[0], parts, 0, U, off)
        BY <2>5, <4>1 DEF Joins
      <4> QED
        BY <4>2
    <3>2. ASSUME NEW k \in 1 .. n, k - 1 \in H PROVE k \in H
      <4>1. PICK off : Joins(g[k - 1], parts, k - 1, U, off)
        BY <3>2
      <4>2. \E new : Joins(g[k - 1] \o parts[k], parts, k, U, new)
        BY <4>1, JoinOne, Zenon
      <4>3. g[k] = g[k - 1] \o parts[k]
        BY <2>5
      <4>4. \E new : Joins(g[k], parts, k, U, new)
        BY <4>2, <4>3, Zenon
      <4>5. k \in 0 .. n
        OBVIOUS
      <4> QED
        BY <4>4, <4>5, Zenon
    <3>3. \A k \in 0 .. n : k \in H
      <4> HIDE DEF H
      <4> QED
        BY <3>1, <3>2, Climb
    <3> QED
      BY <3>3
  <2>13. n \in 0 .. n
    OBVIOUS
  <2>14. FlattenSeq(parts) = g[n]
    BY <1>3, <2>9, <2>11, <2>13, Zenon
  <2> QED
    BY <2>12, <2>13, <2>14
<1> QED
  BY <1>2, <1>3

\* xs lists the members of S.
Lists(xs, S) == xs \in Seq(S) /\ \A x \in S : \E i \in 1 .. Len(xs) : xs[i] = x

LEMMA ListsBoth ==
    ASSUME NEW S, NEW Y, NEW xs, NEW ys, Lists(xs, S), Lists(ys, Y)
    PROVE  Lists(xs \o ys, S \cup Y)
<1>1. PICK U : U = S \cup Y
  OBVIOUS
<1>2. xs \in Seq(U) /\ ys \in Seq(U) /\ Len(xs) \in Nat /\ Len(ys) \in Nat
  BY <1>1 DEF Lists
<1>3. /\ xs \o ys \in Seq(U) /\ Len(xs \o ys) = Len(xs) + Len(ys)
      /\ \A i \in 1 .. Len(xs) + Len(ys) : (xs \o ys)[i] = IF i <= Len(xs) THEN xs[i] ELSE ys[i - Len(xs)]
  BY <1>2, ConcatProperties
<1>4. ASSUME NEW x \in U PROVE \E i \in 1 .. Len(xs \o ys) : (xs \o ys)[i] = x
  <2>1. CASE x \in S
    <3>1. PICK i \in 1 .. Len(xs) : xs[i] = x
      BY <2>1 DEF Lists
    <3>2. i \in 1 .. Len(xs \o ys) /\ (xs \o ys)[i] = x
      BY <1>2, <1>3, <3>1
    <3> QED
      BY <3>2
  <2>2. CASE x \in Y
    <3>1. PICK i \in 1 .. Len(ys) : ys[i] = x
      BY <2>2 DEF Lists
    <3>2. PICK j \in Nat : j = Len(xs) + i
      BY <1>2
    <3>3. j \in 1 .. Len(xs) + Len(ys) /\ ~(j <= Len(xs)) /\ j - Len(xs) = i
      BY <1>2, <3>2
    <3> QED
      BY <1>3, <3>1, <3>3
  <2> QED
    BY <1>1, <2>1, <2>2
<1> QED
  BY <1>1, <1>3, <1>4 DEF Lists

LEMMA ListsFlat ==
    ASSUME NEW n \in Nat, NEW parts, DOMAIN parts = 1 .. n, parts = [j \in 1 .. n |-> parts[j]],
           NEW S, \A j \in 1 .. n : Lists(parts[j], S[j]),
           NEW U, \A j \in 1 .. n : S[j] \subseteq U, \A x \in U : \E j \in 1 .. n : x \in S[j]
    PROVE  Lists(FlattenSeq(parts), U)
<1>1. ASSUME NEW j \in 1 .. n PROVE parts[j] \in Seq(U)
  <2>1. S[j] \subseteq U
    OBVIOUS
  <2>2. parts[j] \in Seq(S[j])
    BY DEF Lists
  <2> QED
    BY <2>1, <2>2
<1>2. parts \in [1 .. n -> Seq(U)]
  BY <1>1
<1>3. PICK xs, off : xs = FlattenSeq(parts) /\ Joins(xs, parts, n, U, off)
  BY <1>2, Flattened
<1>4. ASSUME NEW x \in U PROVE \E i \in 1 .. Len(xs) : xs[i] = x
  <2>1. PICK j \in 1 .. n : x \in S[j]
    OBVIOUS
  <2>2. PICK i \in 1 .. Len(parts[j]) : parts[j][i] = x
    BY <2>1 DEF Lists
  <2> QED
    BY <1>3, <2>2 DEF Joins
<1> QED
  BY <1>3, <1>4 DEF Lists, Joins

LEMMA ListsPair == \A x, y : Lists(<<x>>, {x}) /\ Lists(<<x, y>>, {x, y}) /\ Lists(<<>>, {})
<1> TAKE x, y
<1>1. Lists(<<x>>, {x})
  <2>1. <<x>>[1] = x /\ <<x>> \in Seq({x}) /\ Len(<<x>>) = 1
    OBVIOUS
  <2> QED
    BY <2>1 DEF Lists
<1>2. Lists(<<x, y>>, {x, y})
  <2>1. <<x, y>>[1] = x /\ <<x, y>>[2] = y /\ <<x, y>> \in Seq({x, y}) /\ Len(<<x, y>>) = 2
    OBVIOUS
  <2> QED
    BY <2>1 DEF Lists
<1>3. Lists(<<>>, {})
  BY DEF Lists
<1> QED
  BY <1>1, <1>2, <1>3

LEMMA ListsThree == \A x, y, z : Lists(<<x, y, z>>, {x, y, z})
<1> TAKE x, y, z
<1>1. <<x, y, z>>[1] = x /\ <<x, y, z>>[2] = y /\ <<x, y, z>>[3] = z /\ <<x, y, z>> \in Seq({x, y, z})
      /\ Len(<<x, y, z>>) = 3
  OBVIOUS
<1> QED
  BY <1>1 DEF Lists

\* A list given by its values.
Tabled(f, n) == DOMAIN f = 1 .. n /\ f = [m \in 1 .. n |-> f[m]]

LEMMA ListsValues ==
    ASSUME NEW n \in Nat, NEW f, Tabled(f, n), NEW U, \A m \in 1 .. n : f[m] \in U,
           \A x \in U : \E m \in 1 .. n : f[m] = x
    PROVE  Lists(f, U)
<1>1. f \in [1 .. n -> U]
  BY DEF Tabled
<1>2. f \in Seq(U)
  BY <1>1, IsASeq
<1>3. Len(f) = n
  BY <1>2, LenProperties DEF Tabled
<1> QED
  BY <1>2, <1>3 DEF Lists

LEMMA ListsUpto ==
    ASSUME NEW n \in Nat, NEW f, Tabled(f, n), NEW S, \A i \in 0 .. n - 1 : Lists(f[i + 1], S[i]),
           NEW Y, \A i \in 0 .. n - 1 : S[i] \subseteq Y, \A x \in Y : \E i \in 0 .. n - 1 : x \in S[i]
    PROVE  Lists(FlattenSeq(f), Y)
<1>1. PICK V : V = [j \in 1 .. n |-> S[j - 1]]
  OBVIOUS
<1>2. DOMAIN f = 1 .. n /\ f = [j \in 1 .. n |-> f[j]] /\ \A j \in 1 .. n : j - 1 \in 0 .. n - 1 /\ (j - 1) + 1 = j
  BY DEF Tabled
<1>3. \A j \in 1 .. n : Lists(f[j], V[j])
  BY <1>1, <1>2
<1>4. ASSUME NEW i \in 0 .. n - 1 PROVE i + 1 \in 1 .. n /\ V[i + 1] = S[i]
  <2>1. i + 1 \in 1 .. n /\ (i + 1) - 1 = i
    OBVIOUS
  <2>2. V[i + 1] = S[(i + 1) - 1]
    BY <1>1, <2>1
  <2> QED
    BY <2>1, <2>2
<1>5. ASSUME NEW j \in 1 .. n PROVE V[j] \subseteq Y
  <2>1. j - 1 \in 0 .. n - 1 /\ V[j] = S[j - 1]
    BY <1>1, <1>2
  <2> QED
    BY <2>1
<1>6. ASSUME NEW x \in Y PROVE \E j \in 1 .. n : x \in V[j]
  <2>1. PICK i \in 0 .. n - 1 : x \in S[i]
    OBVIOUS
  <2> QED
    BY <1>4, <2>1
<1> QED
  BY <1>2, <1>3, <1>5, <1>6, ListsFlat

\* The pieces of LaneOrder.
InputsOf(l) == {<<l, kind, 0, i, 0>> : kind \in {"a", "b"}, i \in Bits}
HalvesOf(l) == {<<l, kind, 0, i, 0>> : kind \in {"hi", "lo", "x", "g"}, i \in Bits}

LEMMA InputsListed ==
    ASSUME NEW l \in Lane PROVE Lists(Upto(LAMBDA i : InputOrder(l, i), DIGIT), InputsOf(l))
<1>1. PICK f, S : /\ f = [i \in 1 .. DIGIT |-> InputOrder(l, i - 1)]
                  /\ S = [i \in Bits |-> {<<l, "a", 0, i, 0>>, <<l, "b", 0, i, 0>>}]
  OBVIOUS
<1>2. DIGIT \in Nat /\ Bits = 0 .. DIGIT - 1
  BY Widths DEF Bits
<1>3. ASSUME NEW i \in 0 .. DIGIT - 1 PROVE Lists(f[i + 1], S[i])
  <2>1. i + 1 \in 1 .. DIGIT /\ (i + 1) - 1 = i
    BY <1>2
  <2>2. f[i + 1] = InputOrder(l, i)
    BY <1>1, <2>1
  <2> QED
    BY <1>1, <1>2, <2>2, ListsPair DEF InputOrder
<1>4. Tabled(f, DIGIT)
  BY <1>1 DEF Tabled
<1>5. PICK Y : Y = InputsOf(l)
  OBVIOUS
<1>6. (\A i \in 0 .. DIGIT - 1 : S[i] \subseteq Y) /\ \A x \in Y : \E i \in 0 .. DIGIT - 1 : x \in S[i]
  BY <1>5, <1>1, <1>2 DEF InputsOf
<1>7. Upto(LAMBDA i : InputOrder(l, i), DIGIT) = FlattenSeq(f)
  BY <1>1 DEF Upto
<1>8. Lists(FlattenSeq(f), Y)
  BY <1>2, <1>3, <1>4, <1>6, ListsUpto
<1> QED
  BY <1>5, <1>7, <1>8, Zenon

LEMMA HalvesListed ==
    ASSUME NEW l \in Lane PROVE Lists(Upto(LAMBDA i : HalfOrder(l, i), DIGIT), HalvesOf(l))
<1>1. PICK f, S : /\ f = [i \in 1 .. DIGIT |-> HalfOrder(l, i - 1)]
                  /\ S = [i \in Bits |-> {<<l, "hi", 0, i, 0>>, <<l, "lo", 0, i, 0>>, <<l, "x", 0, i, 0>>} \cup {<<l, "g", 0, i, 0>>}]
  OBVIOUS
<1>2. DIGIT \in Nat /\ Bits = 0 .. DIGIT - 1
  BY Widths DEF Bits
<1>3. ASSUME NEW i \in 0 .. DIGIT - 1 PROVE Lists(f[i + 1], S[i])
  <2>1. i + 1 \in 1 .. DIGIT /\ (i + 1) - 1 = i
    BY <1>2
  <2>2. f[i + 1] = HalfOrder(l, i)
    BY <1>1, <2>1
  <2>3. PICK xs, g : xs = XorOrder(<<l, "hi", 0, i, 0>>, <<l, "lo", 0, i, 0>>, <<l, "x", 0, i, 0>>) /\ g = <<l, "g", 0, i, 0>>
    OBVIOUS
  <2>4. Lists(xs, {<<l, "hi", 0, i, 0>>, <<l, "lo", 0, i, 0>>, <<l, "x", 0, i, 0>>}) /\ Lists(<<g>>, {g})
    BY <2>3, ListsPair, ListsThree DEF XorOrder
  <2>5. Lists(xs \o <<g>>, {<<l, "hi", 0, i, 0>>, <<l, "lo", 0, i, 0>>, <<l, "x", 0, i, 0>>} \cup {g})
    BY <2>4, ListsBoth
  <2>6. HalfOrder(l, i) = xs \o <<g>>
    <3>1. PICK U : U = {<<l, "hi", 0, i, 0>>, <<l, "lo", 0, i, 0>>, <<l, "x", 0, i, 0>>, g}
      OBVIOUS
    <3>2. xs \in Seq(U) /\ g \in U
      BY <2>4, <3>1 DEF Lists
    <3> QED
      BY <2>3, <3>2, AppendIsConcat DEF HalfOrder
  <2> QED
    BY <1>1, <1>2, <2>2, <2>3, <2>5, <2>6
<1>4. Tabled(f, DIGIT)
  BY <1>1 DEF Tabled
<1>5. PICK Y : Y = HalvesOf(l)
  OBVIOUS
<1>6. (\A i \in 0 .. DIGIT - 1 : S[i] \subseteq Y) /\ \A x \in Y : \E i \in 0 .. DIGIT - 1 : x \in S[i]
  BY <1>5, <1>1, <1>2 DEF HalvesOf
<1>7. Upto(LAMBDA i : HalfOrder(l, i), DIGIT) = FlattenSeq(f)
  BY <1>1 DEF Upto
<1>8. Lists(FlattenSeq(f), Y)
  BY <1>2, <1>3, <1>4, <1>6, ListsUpto
<1> QED
  BY <1>5, <1>7, <1>8, Zenon

LEMMA GroupsListed ==
    ASSUME NEW l \in Lane, NEW n \in {1, 2}
    PROVE  Lists(Upto(LAMBDA k : GroupOrder(l, n, k), Width(n)), GroupCells(l, n))
<1> DEFINE Y(k) == {<<l, "gt", n, k, j>> : j \in 0 .. 2} \cup {<<l, "gg", n, k, 0>>, <<l, "gp", n, k, 0>>}
<1>1. PICK f, S : f = [k \in 1 .. Width(n) |-> GroupOrder(l, n, k - 1)] /\ S = [k \in Blocks(n) |-> Y(k)]
  OBVIOUS
<1>2. Width(n) \in Nat /\ Blocks(n) = 0 .. Width(n) - 1
  BY Widths DEF Blocks
<1>3. ASSUME NEW k \in 0 .. Width(n) - 1 PROVE Lists(f[k + 1], S[k])
  <2>1. k + 1 \in 1 .. Width(n) /\ (k + 1) - 1 = k
    BY <1>2
  <2>2. f[k + 1] = GroupOrder(l, n, k)
    BY <1>1, <2>1
  <2>3. PICK g : g = [m \in 1 .. 3 |-> <<l, "gt", n, k, 3 - m>>]
    OBVIOUS
  <2>4. PICK U : U = {<<l, "gt", n, k, j>> : j \in 0 .. 2}
    OBVIOUS
  <2>5. Lists(g, U)
    <3>1. Tabled(g, 3) /\ 3 \in Nat
      BY <2>3 DEF Tabled
    <3>2. \A m \in 1 .. 3 : 3 - m \in 0 .. 2 /\ g[m] = <<l, "gt", n, k, 3 - m>>
      BY <2>3
    <3>3. \A j \in 0 .. 2 : 3 - j \in 1 .. 3 /\ g[3 - j] = <<l, "gt", n, k, j>>
      BY <2>3
    <3>4. \A m \in 1 .. 3 : g[m] \in U
      BY <2>4, <3>2
    <3>5. \A x \in U : \E m \in 1 .. 3 : g[m] = x
      BY <2>4, <3>3
    <3> QED
      BY <3>1, <3>4, <3>5, ListsValues
  <2>6. Lists(<<<<l, "gg", n, k, 0>>, <<l, "gp", n, k, 0>>>>, {<<l, "gg", n, k, 0>>, <<l, "gp", n, k, 0>>})
    BY ListsPair
  <2>7. Lists(GroupOrder(l, n, k), Y(k))
    BY <2>3, <2>4, <2>5, <2>6, ListsBoth DEF GroupOrder
  <2> QED
    BY <1>1, <1>2, <2>2, <2>7
<1>4. Tabled(f, Width(n))
  BY <1>1 DEF Tabled
<1>5. PICK Z : Z = GroupCells(l, n)
  OBVIOUS
<1>6. (\A i \in 0 .. Width(n) - 1 : S[i] \subseteq Z) /\ \A x \in Z : \E i \in 0 .. Width(n) - 1 : x \in S[i]
  BY <1>5, <1>1, <1>2 DEF GroupCells
<1>7. Upto(LAMBDA k : GroupOrder(l, n, k), Width(n)) = FlattenSeq(f)
  BY <1>1 DEF Upto
<1>8. Lists(FlattenSeq(f), Z)
  BY <1>2, <1>3, <1>4, <1>6, ListsUpto
<1> QED
  BY <1>5, <1>7, <1>8, Zenon

BorrowOf(l, n, i) == IF i % 4 = 0 THEN {} ELSE {<<l, "bo", n, i, 0>>} \cup {<<l, "bt", n, i, j>> : j \in -1 .. (i % 4) - 2}

LEMMA BorrowListed ==
    ASSUME NEW l \in Lane, NEW n \in {0, 1, 2}, NEW i \in Nat
    PROVE  Lists(BorrowOrder(l, n, i), BorrowOf(l, n, i))
<1>1. CASE i % 4 = 0
  BY <1>1, ListsPair DEF BorrowOrder, BorrowOf
<1>2. CASE i % 4 # 0
  <2>1. PICK u, f, d : u = i % 4 /\ d = <<l, "bo", n, i, 0>> /\ f = [m \in 1 .. u |-> <<l, "bt", n, i, u - 1 - m>>]
    OBVIOUS
  <2>2. u \in Nat /\ u \in 1 .. 3
    BY <1>2, <2>1
  <2>3. PICK U : U = {<<l, "bt", n, i, j>> : j \in -1 .. u - 2}
    OBVIOUS
  <2>4. Lists(f, U)
    <3>1. Tabled(f, u) /\ u \in Nat
      BY <2>1, <2>2 DEF Tabled
    <3>2. \A m \in 1 .. u : u - 1 - m \in -1 .. u - 2 /\ f[m] = <<l, "bt", n, i, u - 1 - m>>
      BY <2>1, <2>2
    <3>3. \A j \in -1 .. u - 2 : u - 1 - j \in 1 .. u /\ u - 1 - (u - 1 - j) = j
      BY <2>2
    <3>4. \A j \in -1 .. u - 2 : f[u - 1 - j] = <<l, "bt", n, i, j>>
      BY <2>1, <3>3
    <3>5. \A m \in 1 .. u : f[m] \in U
      BY <2>3, <3>2
    <3>6. \A x \in U : \E m \in 1 .. u : f[m] = x
      BY <2>3, <3>3, <3>4
    <3> QED
      BY <3>1, <3>5, <3>6, ListsValues
  <2>5. Lists(<<d>>, {d})
    BY ListsPair
  <2>6. Lists(f \o <<d>>, U \cup {d})
    BY <2>4, <2>5, ListsBoth
  <2>7. BorrowOrder(l, n, i) = f \o <<d>>
    <3>1. PICK V : V = U \cup {d}
      OBVIOUS
    <3>2. f \in Seq(U)
      BY <2>4 DEF Lists
    <3>3. f \in Seq(V) /\ d \in V
      BY <3>1, <3>2
    <3>4. Append(f, d) = f \o <<d>>
      BY <3>3, AppendIsConcat
    <3> QED
      BY <1>2, <2>1, <3>4 DEF BorrowOrder
  <2>8. BorrowOf(l, n, i) = U \cup {d}
    BY <1>2, <2>1, <2>3 DEF BorrowOf
  <2> QED
    BY <2>6, <2>7, <2>8
<1> QED
  BY <1>1, <1>2

LEMMA BorrowsListed ==
    ASSUME NEW l \in Lane, NEW n \in {1, 2}
    PROVE  Lists(Upto(LAMBDA k : BorrowOrder(l, n, k), Width(n)), BorrowCells(l, n))
<1>1. PICK f, S : f = [k \in 1 .. Width(n) |-> BorrowOrder(l, n, k - 1)] /\ S = [k \in Blocks(n) |-> BorrowOf(l, n, k)]
  OBVIOUS
<1>2. Width(n) \in Nat /\ Blocks(n) = 0 .. Width(n) - 1
  BY Widths DEF Blocks
<1>3. ASSUME NEW k \in 0 .. Width(n) - 1 PROVE Lists(f[k + 1], S[k])
  <2>1. k + 1 \in 1 .. Width(n) /\ (k + 1) - 1 = k /\ k \in Nat
    BY <1>2
  <2>2. f[k + 1] = BorrowOrder(l, n, k)
    BY <1>1, <2>1
  <2> QED
    BY <1>1, <1>2, <2>1, <2>2, BorrowListed
<1>4. Tabled(f, Width(n))
  BY <1>1 DEF Tabled
<1>5. PICK Y : Y = BorrowCells(l, n)
  OBVIOUS
<1>6. (\A i \in 0 .. Width(n) - 1 : S[i] \subseteq Y) /\ \A x \in Y : \E i \in 0 .. Width(n) - 1 : x \in S[i]
  <2>1. ASSUME NEW i \in Blocks(n) PROVE BorrowOf(l, n, i) \subseteq Y
    BY <1>5 DEF BorrowCells, BorrowOf
  <2>2. ASSUME NEW x \in Y PROVE \E i \in Blocks(n) : x \in BorrowOf(l, n, i)
    BY <1>5 DEF BorrowCells, BorrowOf
  <2>3. \A i \in Blocks(n) : S[i] = BorrowOf(l, n, i)
    BY <1>1
  <2>4. \A i \in Blocks(n) : S[i] \subseteq Y
    BY <2>1, <2>3
  <2>5. \A x \in Y : \E i \in Blocks(n) : x \in S[i]
    BY <2>2, <2>3
  <2> QED
    BY <1>2, <2>4, <2>5
<1>7. Upto(LAMBDA k : BorrowOrder(l, n, k), Width(n)) = FlattenSeq(f)
  BY <1>1 DEF Upto
<1>8. Lists(FlattenSeq(f), Y)
  BY <1>2, <1>3, <1>4, <1>6, ListsUpto
<1> QED
  BY <1>5, <1>7, <1>8, Zenon

XorOf(l, i) == {<<l, "shi", 0, i, 0>>, <<l, "slo", 0, i, 0>>, <<l, "s", 0, i, 0>>}

LEMMA SumsListed ==
    ASSUME NEW l \in Lane
    PROVE  Lists(Upto(LAMBDA i : SumOrder(l, i), DIGIT), BorrowCells(l, 0) \cup SumCells(l))
<1>1. PICK f, S : /\ f = [i \in 1 .. DIGIT |-> SumOrder(l, i - 1)]
                  /\ S = [i \in Bits |-> IF i = 0 THEN {} ELSE BorrowOf(l, 0, i) \cup XorOf(l, i)]
  OBVIOUS
<1>2. DIGIT \in Nat /\ Bits = 0 .. DIGIT - 1 /\ Blocks(0) = Bits
  BY Widths DEF Bits, Blocks
<1>3. ASSUME NEW i \in 0 .. DIGIT - 1 PROVE Lists(f[i + 1], S[i])
  <2>1. i + 1 \in 1 .. DIGIT /\ (i + 1) - 1 = i /\ i \in Nat
    BY <1>2
  <2>2. f[i + 1] = SumOrder(l, i)
    BY <1>1, <2>1
  <2>3. CASE i = 0
    BY <1>1, <1>2, <2>2, <2>3, ListsPair DEF SumOrder
  <2>4. CASE i # 0
    <3>1. Lists(BorrowOrder(l, 0, i), BorrowOf(l, 0, i))
      BY <2>1, BorrowListed
    <3>2. Lists(XorOrder(<<l, "shi", 0, i, 0>>, <<l, "slo", 0, i, 0>>, <<l, "s", 0, i, 0>>), XorOf(l, i))
      BY ListsThree DEF XorOrder, XorOf
    <3>3. Lists(SumOrder(l, i), BorrowOf(l, 0, i) \cup XorOf(l, i))
      BY <2>4, <3>1, <3>2, ListsBoth DEF SumOrder
    <3>4. S[i] = BorrowOf(l, 0, i) \cup XorOf(l, i)
      BY <1>1, <1>2, <2>4
    <3> QED
      BY <2>2, <3>3, <3>4
  <2> QED
    BY <2>3, <2>4
<1>4. Tabled(f, DIGIT)
  BY <1>1 DEF Tabled
<1>5. PICK Y : Y = BorrowCells(l, 0) \cup SumCells(l)
  OBVIOUS
<1>6. ASSUME NEW i \in 0 .. DIGIT - 1 PROVE S[i] \subseteq Y
  <2>1. CASE i = 0
    BY <1>1, <1>2, <2>1
  <2>2. CASE i # 0
    <3>1. S[i] = BorrowOf(l, 0, i) \cup XorOf(l, i) /\ i \in Blocks(0)
      BY <1>1, <1>2, <2>2
    <3>2. BorrowOf(l, 0, i) \subseteq BorrowCells(l, 0)
      BY <3>1 DEF BorrowOf, BorrowCells
    <3>3. XorOf(l, i) \subseteq SumCells(l)
      BY <1>2, <2>2 DEF XorOf, SumCells
    <3> QED
      BY <1>5, <3>1, <3>2, <3>3
  <2> QED
    BY <2>1, <2>2
<1>7. ASSUME NEW x \in Y PROVE \E i \in 0 .. DIGIT - 1 : x \in S[i]
  <2>1. CASE x \in BorrowCells(l, 0)
    <3>1. PICK i \in Blocks(0) : i % 4 # 0 /\ x \in BorrowOf(l, 0, i)
      BY <2>1 DEF BorrowCells, BorrowOf
    <3>2. i # 0
      BY <3>1
    <3> QED
      BY <1>1, <1>2, <3>1, <3>2
  <2>2. CASE x \in SumCells(l)
    <3>1. PICK i \in Bits : i # 0 /\ x \in XorOf(l, i)
      BY <2>2 DEF SumCells, XorOf
    <3> QED
      BY <1>1, <1>2, <3>1
  <2> QED
    BY <1>5, <2>1, <2>2
<1>8. Upto(LAMBDA i : SumOrder(l, i), DIGIT) = FlattenSeq(f)
  BY <1>1 DEF Upto
<1>9. Lists(FlattenSeq(f), Y)
  BY <1>2, <1>3, <1>4, <1>6, <1>7, ListsUpto
<1> QED
  BY <1>5, <1>8, <1>9, Zenon

LEMMA AccListed ==
    ASSUME NEW l \in Lane PROVE Lists([m \in 1 .. DIGIT \div 8 |-> <<l, "acc", 0, m - 1, 0>>], AccCells(l))
<1>1. PICK n \in Nat : n = DIGIT \div 8
  BY Widths
<1>2. PICK f : f = [m \in 1 .. n |-> <<l, "acc", 0, m - 1, 0>>]
  OBVIOUS
<1>3. Tabled(f, n)
  BY <1>2 DEF Tabled
<1>4. \A m \in 1 .. n : m - 1 \in 0 .. n - 1 /\ f[m] = <<l, "acc", 0, m - 1, 0>>
  BY <1>2
<1>5. \A m \in 1 .. n : f[m] \in AccCells(l)
  BY <1>1, <1>4 DEF AccCells
<1>6. ASSUME NEW x \in AccCells(l) PROVE \E m \in 1 .. n : f[m] = x
  <2>1. PICK q \in 0 .. n - 1 : x = <<l, "acc", 0, q, 0>>
    BY <1>1 DEF AccCells
  <2>2. q + 1 \in 1 .. n /\ (q + 1) - 1 = q
    OBVIOUS
  <2> QED
    BY <1>4, <2>1, <2>2
<1>7. Lists(f, AccCells(l))
  BY <1>3, <1>5, <1>6, ListsValues
<1> QED
  BY <1>1, <1>2, <1>7, Zenon

LEMMA LaneListed == ASSUME NEW l \in Lane PROVE Lists(LaneOrder(l), LaneCells(l))
<1>1. PICK x1, x3, x4, x5, x6, x7, x8, x9 :
          /\ x1 = Upto(LAMBDA i : InputOrder(l, i), DIGIT) /\ x3 = Upto(LAMBDA i : HalfOrder(l, i), DIGIT)
          /\ x4 = Upto(LAMBDA k : GroupOrder(l, 1, k), Width(1)) /\ x5 = Upto(LAMBDA s : GroupOrder(l, 2, s), Width(2))
          /\ x6 = Upto(LAMBDA s : BorrowOrder(l, 2, s), Width(2)) /\ x7 = Upto(LAMBDA k : BorrowOrder(l, 1, k), Width(1))
          /\ x8 = Upto(LAMBDA i : SumOrder(l, i), DIGIT) /\ x9 = [m \in 1 .. DIGIT \div 8 |-> <<l, "acc", 0, m - 1, 0>>]
  OBVIOUS
<1>2. PICK z, y : z = <<<<l, "zero", 0, 0, 0>>>> /\ y = <<<<l, "allz", 0, 0, 0>>, <<l, "jor", 0, 0, 0>>, <<l, "jmp", 0, 0, 0>>>>
  OBVIOUS
<1>3. /\ Lists(z, {<<l, "zero", 0, 0, 0>>})
      /\ Lists(y, {<<l, "allz", 0, 0, 0>>, <<l, "jor", 0, 0, 0>>, <<l, "jmp", 0, 0, 0>>})
  BY <1>2, ListsPair, ListsThree
<1>4. /\ Lists(x1, InputsOf(l)) /\ Lists(x3, HalvesOf(l)) /\ Lists(x4, GroupCells(l, 1)) /\ Lists(x5, GroupCells(l, 2))
      /\ Lists(x6, BorrowCells(l, 2)) /\ Lists(x7, BorrowCells(l, 1))
      /\ Lists(x8, BorrowCells(l, 0) \cup SumCells(l)) /\ Lists(x9, AccCells(l))
  BY <1>1, InputsListed, HalvesListed, GroupsListed, BorrowsListed, SumsListed, AccListed
<1>5. LaneOrder(l) = x1 \o z \o x3 \o x4 \o x5 \o x6 \o x7 \o x8 \o x9 \o y
  BY <1>1, <1>2 DEF LaneOrder
<1>6. Lists(x1 \o z \o x3 \o x4, InputsOf(l) \cup {<<l, "zero", 0, 0, 0>>} \cup HalvesOf(l) \cup GroupCells(l, 1))
  BY <1>3, <1>4, ListsBoth
<1>7. Lists(x1 \o z \o x3 \o x4 \o x5 \o x6 \o x7,
            InputsOf(l) \cup {<<l, "zero", 0, 0, 0>>} \cup HalvesOf(l) \cup GroupCells(l, 1)
            \cup GroupCells(l, 2) \cup BorrowCells(l, 2) \cup BorrowCells(l, 1))
  BY <1>4, <1>6, ListsBoth
<1>8. Lists(x1 \o z \o x3 \o x4 \o x5 \o x6 \o x7 \o x8 \o x9 \o y,
            InputsOf(l) \cup {<<l, "zero", 0, 0, 0>>} \cup HalvesOf(l) \cup GroupCells(l, 1)
            \cup GroupCells(l, 2) \cup BorrowCells(l, 2) \cup BorrowCells(l, 1)
            \cup (BorrowCells(l, 0) \cup SumCells(l)) \cup AccCells(l)
            \cup {<<l, "allz", 0, 0, 0>>, <<l, "jor", 0, 0, 0>>, <<l, "jmp", 0, 0, 0>>})
  BY <1>3, <1>4, <1>7, ListsBoth
<1>9. BitCells(l) = InputsOf(l) \cup HalvesOf(l)
  BY DEF BitCells, InputsOf, HalvesOf
<1>10. LoneCells(l) = {<<l, "zero", 0, 0, 0>>} \cup {<<l, "allz", 0, 0, 0>>, <<l, "jor", 0, 0, 0>>, <<l, "jmp", 0, 0, 0>>}
  BY DEF LoneCells
<1>11. InputsOf(l) \cup {<<l, "zero", 0, 0, 0>>} \cup HalvesOf(l) \cup GroupCells(l, 1)
       \cup GroupCells(l, 2) \cup BorrowCells(l, 2) \cup BorrowCells(l, 1)
       \cup (BorrowCells(l, 0) \cup SumCells(l)) \cup AccCells(l)
       \cup {<<l, "allz", 0, 0, 0>>, <<l, "jor", 0, 0, 0>>, <<l, "jmp", 0, 0, 0>>} = LaneCells(l)
  BY <1>9, <1>10, Zenon DEF LaneCells
<1> QED
  BY <1>5, <1>8, <1>11, Zenon

\* The order in which the code visits the cells has all of them.
LEMMA CellsListed == Lists(CellOrder, Cell)
<1>1. PICK f, S : f = [i \in 1 .. LANES |-> LaneOrder(i - 1)] /\ S = [i \in Lane |-> LaneCells(i)]
  OBVIOUS
<1>2. LANES \in Nat /\ Lane = 0 .. LANES - 1
  BY GeometryAssumption DEF Lane
<1>3. ASSUME NEW i \in 0 .. LANES - 1 PROVE Lists(f[i + 1], S[i])
  <2>1. i + 1 \in 1 .. LANES /\ (i + 1) - 1 = i
    BY <1>2
  <2>2. f[i + 1] = LaneOrder(i)
    BY <1>1, <2>1
  <2> QED
    BY <1>1, <1>2, <2>2, LaneListed
<1>4. Tabled(f, LANES)
  BY <1>1 DEF Tabled
<1>5. PICK Y : Y = Cell
  OBVIOUS
<1>6. (\A i \in 0 .. LANES - 1 : S[i] \subseteq Y) /\ \A x \in Y : \E i \in 0 .. LANES - 1 : x \in S[i]
  BY <1>1, <1>2, <1>5 DEF Cell
<1>7. CellOrder = FlattenSeq(f)
  BY <1>1 DEF CellOrder, Upto
<1>8. Lists(FlattenSeq(f), Y)
  BY <1>2, <1>3, <1>4, <1>6, ListsUpto
<1> QED
  BY <1>5, <1>7, <1>8, Zenon
=============================================================================
