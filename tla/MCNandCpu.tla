---------------------------- MODULE MCNandCpu ----------------------------
(* NandCpu running the image that ROM.cpp generates for 16-bit words.      *)
EXTENDS RomImage, NandCpu

MCCells == Cell
MCRom == Image

\* The word whose DIGIT bits have the value n (low 30 bits; 0 above).
Bits30(n) == [i \in 1 .. DIGIT |-> i <= 30 /\ (n \div 2^(i - 1)) % 2 = 1]
Batch(pairs) == [a |-> [l \in Lane |-> Bits30(pairs[l + 1][1])],
                 b |-> [l \in Lane |-> Bits30(pairs[l + 1][2])]]

\* Lanes with different work: a borrow through all bits and a negative operand;
\* and a short batch (0, 0 filled in) with a borrow across groups.
MCJobs == {Batch(<<<<1, 0>>, <<65535, 32767>>>>), Batch(<<<<2054, 36864>>, <<0, 0>>>>)}

\* The image is one that reads what it has programmed, and programs what it edited.
ASSUME ReadsAfterProgram /\ ProgramsAfterEdit

\* No stuck column, or as many as the vote tolerates: 4 read 0 and 3 read 1.
SomeStuck == {[zero |-> {}, one |-> {}], [zero |-> {1, 2, 3, 4}, one |-> {0, 5, 7}]}
==========================================================================
