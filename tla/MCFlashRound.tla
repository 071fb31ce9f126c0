--------------------------- MODULE MCFlashRound ---------------------------
(* FlashRound with operands at the edges of the word and of the blocks of  *)
(* the look-ahead hierarchy.                                               *)
EXTENDS FlashRound

\* Words given by the set of their one bits.
Ones(S) == [i \in 1 .. DIGIT |-> (i - 1) \in S]

\* 0, 1, -1, the extreme values, alternating bits, a block of ones, and single
\* bits on both sides of the 4-bit and 16-bit block boundaries.
EdgeWords == {Ones(S) : S \in {{}, {0}, Bits, {DIGIT - 1}, Bits \ {DIGIT - 1},
                               {i \in Bits : i % 2 = 0}, {4, 5, 6, 7}, {15}, {16}, {3, 17, 32 % DIGIT}}}

\* Every pair of words in lane 0 together with the swapped pair in lane 1.
Pairs(words) == {[a |-> [l \in Lane |-> IF l = 0 THEN u ELSE v],
                  b |-> [l \in Lane |-> IF l = 0 THEN v ELSE u]] : u, v \in words}
MCJobs == Pairs(EdgeWords)

\* Fewer for 64 bits, where a page has 1748 cells: 0, -1, the smallest number,
\* alternating bits and bits in different blocks of every level.
MCWideJobs == Pairs({Ones(S) : S \in {{}, Bits, {DIGIT - 1}, {i \in Bits : i % 2 = 0},
                                      {3, 17, 32 % DIGIT}}})

\* The shipped geometry passes the asserts of the code.
ASSUME ImageAssumption

\* On words short enough for TLC's integers, Difference is b - a modulo
\* 2^DIGIT and NonPositive its comparison with zero as a signed number.
ValueOf(w) == LET sum[i \in 0 .. DIGIT] == IF i = 0 THEN 0
                      ELSE sum[i - 1] + (IF w[i] THEN 2^(i - 1) ELSE 0)
              IN  sum[DIGIT]
ASSUME DIGIT = 16 =>
    \A u, v \in EdgeWords :
        LET d == (ValueOf(v) - ValueOf(u)) % 2^DIGIT
        IN  /\ ValueOf(Subtractor!Difference(u, v)) = d
            /\ Subtractor!NonPositive(Subtractor!Difference(u, v)) <=> d = 0 \/ d >= 2^(DIGIT - 1)
===========================================================================
