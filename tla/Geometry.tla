----------------------------- MODULE Geometry -----------------------------
(* The compile-time parameters of the machine (include/ROM.hpp).       *)
EXTENDS Integers

CONSTANTS DIGIT,     \* bits of a word (64 in the shipped build)
          LANES,     \* subtractions per round (2 in the shipped build)
          PAGE_SIZ   \* bytes of a flash page (2048 in the shipped build)

ASSUME GeometryAssumption ==
    /\ DIGIT \in Nat \ {0}
    /\ LANES \in Nat \ {0}
    /\ PAGE_SIZ \in Nat /\ PAGE_SIZ >= 8

Lane == 0 .. LANES - 1

\* A word is a sequence of DIGIT bits, least significant first, so that the
\* 64-bit build fits TLC's 32-bit integers.
Word == [1 .. DIGIT -> BOOLEAN]

\* Instructions are eight bytes long: this many share a page of the ROM.
WORDS == PAGE_SIZ \div 8
===========================================================================
