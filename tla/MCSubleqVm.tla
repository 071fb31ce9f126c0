----------------------------- MODULE MCSubleqVm -----------------------------
EXTENDS SubleqVm

\* Ten words of program, then the table, whose words hold 0, 1, ...
Memory(words) == [i \in Address |-> IF i < TABLE THEN words[i + 1] ELSE i - TABLE]

\* Echo what is typed; the same, but asking for Ctrl-C and jumping by the
\* answer into the middle of an instruction; count down from 3 and halt; a
\* difference that does not fit; a table word that keeps its value while the
\* jump follows the difference.
Echo  == <<-1, 9, 0,   9, -1, 0,   9, 9, 0,   5>>
Ask   == <<-1, 9, 0,   -2, 8, 0,   9, 9, 0,   5>>
Count == <<11, 9, 6,   10, 10, 0,  9, 9, -1,  3>>
Large == <<6, 7, 3,   9, 9, -1,   -16, 15, 0,  2>>
Table == <<13, 12, 6,   0, 9, 0,   9, 9, -1,  3>>

\* One instruction with operands of every kind, then halt.
Operand == {-3, -2, -1, 0, 9, 12, 15}
Single == {<<x, y, z,   9, 9, -1,   0, 0, 0,   2>> : x, y, z \in Operand}

MCPrograms == {Memory(words) : words \in {Echo, Ask, Count, Large, Table} \cup Single}
MCKeys == {-1, 2}
=============================================================================
