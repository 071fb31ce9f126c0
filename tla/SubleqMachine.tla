--------------------------- MODULE SubleqMachine ---------------------------
(***************************************************************************)
(* The subleq machine that the interpreter promises: every instruction is  *)
(* one step on the machine's own memory (the subtraction that subleq.cpp   *)
(* once did locally), whatever the flash server does in between.           *)
(***************************************************************************)
EXTENDS Integers

CONSTANTS W,               \* bits of a word
          MAX_CODE_SIZE,   \* words of memory
          TABLE,           \* words from here on keep their value (0x600000)
          Keys,            \* what the keyboard may deliver; -1 is end of file
          CTRL_C,          \* the character of Ctrl-C
          Programs         \* memories to start with

VARIABLES code,     \* memory: address -> word
          pc,
          status,   \* running, or how the program has ended
          flag,     \* Ctrl-C pressed at the last input, and not asked for yet
          presses,  \* Ctrl-C presses in a row
          console   \* the last character written

vars == <<code, pc, status, flag, presses, console>>

Address == 0 .. MAX_CODE_SIZE - 1
Wrap(x) == ((x + 2^(W - 1)) % 2^W) - 2^(W - 1)
Minus(x, y) == Wrap(x - y)
Flag == IF flag THEN 1 ELSE 0

a == code[pc]
b == code[pc + 1]
c == code[pc + 2]

\* An instruction that lies in memory, both operands small enough.
Decoded == status = "running" /\ pc \in Address /\ pc + 2 \in Address
           /\ a < MAX_CODE_SIZE /\ b < MAX_CODE_SIZE
----------------------------------------------------------------------------
Init == /\ code \in Programs /\ pc = 0 /\ status = "running"
        /\ flag = FALSE /\ presses = 0 /\ console = 0

Stop(how) == status' = how /\ UNCHANGED <<code, pc, flag, presses, console>>

Subtract ==
    /\ Decoded /\ a >= 0 /\ b >= 0
    /\ LET result == Minus(code[b], code[a]) IN
         /\ code' = IF b < TABLE THEN [code EXCEPT ![b] = result] ELSE code
         /\ IF result > 0 THEN pc' = pc + 3 /\ UNCHANGED status
            ELSE IF c = -1 THEN status' = "halted" /\ UNCHANGED pc
            ELSE pc' = c /\ UNCHANGED status
    /\ UNCHANGED <<flag, presses, console>>

Write == /\ Decoded /\ b = -1 /\ a >= 0
         /\ console' = code[a] /\ pc' = pc + 3
         /\ UNCHANGED <<code, status, flag, presses>>

\* Ctrl-C counts as a character; the third in a row ends the program.  Nothing
\* checks that the character's address is not negative.
Read == /\ Decoded /\ a = -1 /\ b # -1
        /\ \E ch \in Keys \cup {CTRL_C} :
              /\ flag' = (ch = CTRL_C)
              /\ presses' = IF ch = CTRL_C THEN presses + 1 ELSE IF ch = -1 THEN presses ELSE 0
              /\ IF b >= 0 THEN /\ code' = [code EXCEPT ![b] = ch] /\ pc' = pc + 3
                                /\ status' = IF presses' = 3 THEN "stopped" ELSE "running"
                 ELSE status' = "undefined" /\ UNCHANGED <<code, pc>>
        /\ UNCHANGED console

AskCtrlC == /\ Decoded /\ a = -2 /\ b >= 0
            /\ code' = [code EXCEPT ![b] = Flag] /\ pc' = pc + 3
            /\ flag' = FALSE
            /\ UNCHANGED <<status, presses, console>>

\* An error the interpreter reports, or an access it does not check: past the
\* last word of memory, or with a negative partner of a special operand.
Fault == /\ status = "running"
         /\ IF pc \notin Address THEN Stop("error")
            ELSE IF pc + 2 \notin Address THEN Stop("undefined")
            ELSE IF a >= MAX_CODE_SIZE \/ b >= MAX_CODE_SIZE THEN Stop("error")
            ELSE IF b = -1 THEN a < 0 /\ Stop("undefined")
            ELSE IF a = -2 THEN b < 0 /\ Stop("undefined")
            ELSE a # -1 /\ (a < 0 \/ b < 0) /\ Stop("error")

Compute == Subtract \/ Write \/ AskCtrlC \/ Fault
Next == Compute \/ Read

Spec == Init /\ [][Next]_vars /\ WF_vars(Compute)
============================================================================
