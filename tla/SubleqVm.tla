------------------------------ MODULE SubleqVm ------------------------------
(***************************************************************************)
(* The interpreter in subleq.cpp: it takes its instructions apart in the   *)
(* order of the code and sends every subtraction to the flash server.      *)
(* Ctrl-C is a signal whose handler jumps back into the loop (siglongjmp), *)
(* to where the last input instruction called sigsetjmp.                   *)
(*                                                                         *)
(* Lost and late datagrams are the matter of FlashService; here a request  *)
(* is answered once.                                                       *)
(***************************************************************************)
EXTENDS Integers, Sequences

CONSTANTS W, MAX_CODE_SIZE, TABLE, Keys, CTRL_C, Programs,   \* as in SubleqMachine
          SignalAt,   \* when Ctrl-C is pressed: "any", or "prompt": while the loop waits for a
                      \* key after an earlier one has armed jmpbuf (not at the first prompt)
          Locals      \* what the jump leaves in a, b, c and pc: "current", "saved"

ASSUME MachineSizes == /\ W \in Nat \ {0} /\ MAX_CODE_SIZE \in Nat
                       /\ TABLE \in 0 .. MAX_CODE_SIZE /\ MAX_CODE_SIZE < 2^(W - 1)
ASSUME Signals == /\ SignalAt \in {"prompt", "any"}
                  /\ Locals \subseteq {"current", "saved"} /\ Locals # {}

VARIABLES code, pc, status, ctrlc, ctrlc_count, console,
          at,        \* where the loop is: "fetch", "input" or "recv"
          b,         \* the local variable b
          jmpbuf,    \* the locals at the last sigsetjmp, or NotArmed
          requests,  \* datagrams on their way to the server
          answers    \* datagrams in the client's socket

vars == <<code, pc, status, ctrlc, ctrlc_count, console, at, b, jmpbuf, requests, answers>>

Address == 0 .. MAX_CODE_SIZE - 1
Word == -(2^(W - 1)) .. 2^(W - 1) - 1
Unwrapped(x) == x   \* mutant: a wider word
Wrap(x) == ((x + 2^(W - 1)) % 2^W) - 2^(W - 1)

\* Memory, files and characters are 64-bit words.
ASSUME Inputs == Programs \subseteq [Address -> Word] /\ Keys \subseteq Word /\ CTRL_C \in Word

NotArmed == [b |-> 0, pc |-> -1]
----------------------------------------------------------------------------
Init == /\ code \in Programs /\ pc = 0 /\ status = "running"
        /\ ctrlc = FALSE /\ ctrlc_count = 0 /\ console = 0
        /\ at = "fetch" /\ b = 0 /\ jmpbuf = NotArmed
        /\ requests = <<>> /\ answers = <<>>

Exit(how) == status' = how /\ UNCHANGED <<code, pc, ctrlc, ctrlc_count, console, at, b, jmpbuf, requests, answers>>

\* The special operands, and then the call of flashClient.
WriteConsole(a) ==
    /\ console' = code[a] /\ pc' = pc + 3
    /\ UNCHANGED <<code, status, ctrlc, ctrlc_count, at, jmpbuf, requests, answers>>
Prompt == /\ at' = "input"
          /\ UNCHANGED <<code, pc, status, ctrlc, ctrlc_count, console, jmpbuf, requests, answers>>
CheckCtrlC ==
    /\ code' = [code EXCEPT ![b'] = IF ctrlc THEN 1 ELSE 0]
    /\ ctrlc' = FALSE /\ pc' = pc + 3
    /\ UNCHANGED <<status, ctrlc_count, console, at, jmpbuf, requests, answers>>

flashCall(a) ==
    /\ at' = "recv"
    /\ requests' = Append(requests, [a |-> code[a], b |-> code[b']])
    /\ UNCHANGED <<code, pc, status, ctrlc, ctrlc_count, console, jmpbuf, answers>>

\* One turn of the loop up to where it may block.
Execute ==
    /\ status = "running" /\ at = "fetch"
    /\ IF pc >= MAX_CODE_SIZE \/ pc < 0 THEN Exit("error")
       ELSE IF pc + 2 >= MAX_CODE_SIZE THEN Exit("undefined")
       ELSE LET a == code[pc] IN
            IF a >= MAX_CODE_SIZE \/ code[pc + 1] >= MAX_CODE_SIZE THEN Exit("error")
            ELSE IF code[pc + 1] = -1
                 THEN IF a < 0 THEN Exit("undefined") ELSE b' = -1 /\ WriteConsole(a)
            ELSE IF a = -1 THEN b' = code[pc + 1] /\ Prompt
            ELSE IF a = -2
                 THEN IF code[pc + 1] < 0 THEN Exit("undefined") ELSE b' = code[pc + 1] /\ CheckCtrlC
            ELSE IF a < 0 \/ code[pc + 1] < 0 THEN Exit("error")
            ELSE b' = code[pc + 1] /\ flashCall(a)

\* What follows the input, the ctrlc = 0 in front of it included: count the Ctrl-Cs, store the character.
Deliver(ch, dest, from) ==
    /\ ctrlc' = (ch = CTRL_C)
    /\ ctrlc_count' = IF ch = CTRL_C THEN ctrlc_count + 1 ELSE IF ch = -1 THEN ctrlc_count ELSE 0
    /\ IF dest \notin Address
       THEN status' = "undefined" /\ UNCHANGED <<code, pc>>
       ELSE /\ code' = [code EXCEPT ![dest] = ch] /\ pc' = from + 3
            /\ status' = IF ctrlc_count' > 2 THEN "stopped" ELSE status
    /\ at' = "fetch"
    /\ UNCHANGED <<console, requests, answers>>

\* read_stdin_blocking() returns, and only then sigsetjmp() is called.
Input == /\ status = "running" /\ at = "input"
         /\ \E key \in Keys : Deliver(key, b, pc)
         /\ jmpbuf' = [b |-> b, pc |-> pc]
         /\ UNCHANGED b

\* SIGINT: siglongjmp() to the last sigsetjmp(), out of whatever runs.  Before
\* the first one the buffer holds nothing to jump to.  The locals have changed
\* since, so the compiler may have kept either value of them.
Sigint ==
    /\ status = "running"
    /\ SignalAt = "prompt" => at = "input" /\ jmpbuf # NotArmed
    /\ IF jmpbuf = NotArmed THEN Exit("undefined")
       ELSE \E kept \in Locals :
              LET old == IF kept = "saved" THEN jmpbuf ELSE [b |-> b, pc |-> pc] IN
              /\ Deliver(CTRL_C, old.b, old.pc)
              /\ b' = old.b /\ UNCHANGED jmpbuf
----------------------------------------------------------------------------
\* The server: RemoteSubtract for this one client.
Serve ==
    /\ requests # <<>>
    /\ LET req == Head(requests)   result == Wrap(req.b - req.a) IN
         answers' = Append(answers, [c |-> result, is_jmp |-> result <= 0, to |-> req])
    /\ requests' = Tail(requests)
    /\ UNCHANGED <<code, pc, status, ctrlc, ctrlc_count, console, at, b, jmpbuf>>

Stores(resp) == IF b < TABLE THEN [code EXCEPT ![b] = resp.c] ELSE code

\* mutant: the jump is taken when the stored word is not positive
JumpsOnStored(resp) == Stores(resp)[b] <= 0

Jumps(resp) == resp.is_jmp

\* flashClient returns the first answer in its socket and drops the others,
\* and the loop stores the result and jumps.
Return ==
    /\ status = "running" /\ at = "recv" /\ answers # <<>>
    /\ LET resp == Head(answers) IN
         /\ code' = Stores(resp)
         /\ IF ~Jumps(resp) THEN pc' = pc + 3 /\ UNCHANGED status
            ELSE IF code[pc + 2] = -1 THEN status' = "halted" /\ UNCHANGED pc
            ELSE pc' = code[pc + 2] /\ UNCHANGED status
    /\ at' = "fetch" /\ answers' = <<>>
    /\ UNCHANGED <<ctrlc, ctrlc_count, console, b, jmpbuf, requests>>

Next == Execute \/ Input \/ Sigint \/ Serve \/ Return

Spec == Init /\ [][Next]_vars /\ WF_vars(Execute \/ Return) /\ WF_vars(Serve)
----------------------------------------------------------------------------
TypeOK == /\ code \in [Address -> Word] /\ pc \in Word
          /\ status \in {"running", "halted", "error", "undefined", "stopped"}
          /\ at \in {"fetch", "input", "recv"} /\ b \in Word
          /\ ctrlc \in BOOLEAN /\ ctrlc_count \in 0 .. 3

\* "Perform subtraction on the NAND flash server": what an instruction takes
\* for its result is the answer to its own operands.
OwnResult == [][(at = "recv" /\ at' = "fetch" /\ ctrlc_count' = ctrlc_count) =>
                   Head(answers).to = [a |-> code[code[pc]], b |-> code[b]]]_vars

\* The program cannot tell the flash server from a subtraction of its own.
Machine == INSTANCE SubleqMachine WITH flag <- ctrlc, presses <- ctrlc_count
RefinesMachine == Machine!Spec
=============================================================================
