-------------------------- MODULE MCNandCpuTiny --------------------------
(* NandCpu running a program of a dozen words that uses every opcode, the  *)
(* ERASE included that rom_init no longer emits, spread over five ROM      *)
(* pages of three words: out = a AND NOT b, flag = the highest bit of out. *)
EXTENDS NandCpu, SequencesExt

Op(code, dest, from) == [code |-> code, dest |-> dest, from |-> from]

GetBits == [i \in 1 .. LANES * DIGIT |->
              Op("GET_IN", <<"b", (i - 1) \div DIGIT, (i - 1) % DIGIT>>,
                           <<"a", (i - 1) \div DIGIT, (i - 1) % DIGIT>>)]
LaneBits(code, k) == [i \in 1 .. LANES * DIGIT |->
              Op(code, <<"z", (i - 1) \div DIGIT, (i - 1) % DIGIT>>,
                       <<k, (i - 1) \div DIGIT, (i - 1) % DIGIT>>)]
Pushes == [i \in 1 .. LANES * DIGIT |->
              Op("PUSH_OUT", (i - 1) \div DIGIT, <<"z", (i - 1) \div DIGIT, (i - 1) % DIGIT>>)]
Raises == [i \in 1 .. LANES |-> Op("RAISE", i - 1, <<"z", i - 1, DIGIT - 1>>)]
Home == <<"a", 0, 0>>
Program == <<Op("PRG_NAND", Home, Home)>>

TinyOps == GetBits \o Program \o LaneBits("MOV", "a") \o Program
           \o LaneBits("INV_MOV", "b") \o Program \o Pushes \o Raises
Linked(ops) == [i \in DOMAIN ops |-> [code |-> ops[i].code, dest |-> ops[i].dest,
                                      from |-> ops[i].from, next |-> i % Len(ops)]]

\* The program erases before each round, beside the erase RAISE may cause.
MCErasingRom == Linked(<<Op("ERASE", Home, Home), Op("CAP_IN", Home, Home)>> \o TinyOps)

MCCells == {<<kind, l, i>> : kind \in {"a", "b", "z"}, l \in Lane, i \in 0 .. DIGIT - 1}

\* Lane 1 computes on ones where lane 0 has zeros, and all four pairs in turn.
Bit(v) == [i \in 1 .. DIGIT |-> v]
MCJobs == {[a |-> [l \in Lane |-> Bit(l = 1 \/ v)],
            b |-> [l \in Lane |-> Bit(l = 1 /\ w)]] : v, w \in BOOLEAN}
MCStuck == {[zero |-> {}, one |-> {}], [zero |-> {1}, one |-> {2, 3}],
            [zero |-> {1, 2, 3, 4}, one |-> {0, 5, 7}]}

\* A failed program does nothing, all of its work, or some of it in one lane.
MCPartials == {[c \in MCCells |-> Columns], [c \in MCCells |-> {}],
               [c \in MCCells |-> IF c[2] = 0 THEN {0, 1, 2, 6} ELSE Columns]}

\* The image is one that reads what it has programmed, and programs what it edited.
ASSUME ReadsAfterProgram /\ ProgramsAfterEdit

\* What the program computes.
AndNot(j) == [l \in Lane |-> [i \in 1 .. DIGIT |-> j.a[l][i] /\ ~j.b[l][i]]]

\* A failed fetch, program or read spoils the answers of its round and of the
\* next one at most (the program may be left in the middle), a failed erase
\* those after it until the second round after an erase succeeds; every other
\* answer is right, the one of the round that ends in the failed erase included.
TinyRoundCorrect == ~serving /\ job # NoJob /\ since = 2 =>
    out = AndNot(job) /\ isJmp = [l \in Lane |-> AndNot(job)[l][DIGIT]]
==========================================================================
