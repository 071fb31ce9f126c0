--------------------------- MODULE SubleqVmProofs ---------------------------
(***************************************************************************)
(* Theorems about SubleqVm for every word width, memory size, program and  *)
(* keyboard input.  Wherever Ctrl-C strikes and whatever its jump leaves   *)
(* in the locals, every step of the interpreter is a step of the subleq    *)
(* machine or leaves the machine as it is, but for two kinds of step: the  *)
(* jump itself and the return with the answer to another request (the run  *)
(* SubleqInterrupted shows one).  With Ctrl-C at an armed prompt only, and *)
(* a jump that keeps the locals, neither happens.                          *)
(***************************************************************************)
EXTENDS SubleqVm, SequenceTheorems, FiniteSetTheorems, TLAPS

(* Words *)

Splits(T, P, with) == T = P \cup with /\ P \cap with = {}

LEMMA PowerSplits ==
    ASSUME NEW S, NEW x, x \notin S, NEW with, with = {A \cup {x} : A \in SUBSET S}
    PROVE  Splits(SUBSET (S \cup {x}), SUBSET S, with)
<1>1. ASSUME NEW A \in SUBSET (S \cup {x}) PROVE A \in SUBSET S \/ A \in with
  <2>1. CASE x \in A
    <3>1. PICK B \in SUBSET S : \A y : y \in B <=> y \in A /\ y # x
      <4> WITNESS A \ {x} \in SUBSET S
      <4> QED
        OBVIOUS
    <3>2. A = B \cup {x}
      BY <2>1, <3>1
    <3> QED
      BY <3>2
  <2>2. CASE x \notin A
    BY <2>2
  <2> QED
    BY <2>1, <2>2
<1>2. ASSUME NEW A \in with PROVE A \in SUBSET (S \cup {x}) /\ A \notin SUBSET S
  <2>1. PICK B \in SUBSET S : A = B \cup {x}
    OBVIOUS
  <2>2. x \in A
    BY <2>1
  <2> QED
    BY <2>1, <2>2
<1>3. SUBSET S \subseteq SUBSET (S \cup {x})
  OBVIOUS
<1> QED
  BY <1>1, <1>2, <1>3 DEF Splits

LEMMA PowerPairs ==
    ASSUME NEW S, NEW x, x \notin S, NEW with, with = {A \cup {x} : A \in SUBSET S}
    PROVE  ExistsBijection(SUBSET S, with)
<1>1. PICK f : f = [A \in SUBSET S |-> A \cup {x}]
  OBVIOUS
<1>2. /\ f \in [SUBSET S -> with] /\ \A A \in SUBSET S : f[A] = A \cup {x}
      /\ \A t \in with : \E A \in SUBSET S : f[A] = t
  BY <1>1
<1>3. ASSUME NEW A \in SUBSET S, NEW B \in SUBSET S, f[A] = f[B] PROVE A = B
  <2>1. x \notin A /\ x \notin B
    OBVIOUS
  <2>2. A \cup {x} = B \cup {x}
    BY <1>2, <1>3
  <2>3. \A y : y \in A <=> y \in B
    BY <2>1, <2>2
  <2> QED
    BY <2>3
<1> DEFINE P == SUBSET S
<1>4. f \in [P -> with] /\ (\A t \in with : \E A \in P : f[A] = t) /\ (\A A, B \in P : f[A] = f[B] => A = B)
  BY <1>2, <1>3
<1> HIDE DEF P
<1>5. f \in Injection(P, with)
  BY <1>4 DEF Injection, IsInjective
<1>6. f \in Surjection(P, with)
  BY <1>4 DEF Surjection
<1> QED
  BY <1>5, <1>6 DEF ExistsBijection, Bijection, P

LEMMA TwoPowers ==
    ASSUME NEW m \in Nat
    PROVE  2^m \in Nat \ {0} /\ 2^(m + 1) = 2 * 2^m
<1>1. \A k \in Nat : IsFiniteSet(1 .. k) /\ Cardinality(1 .. k) = k
  BY FS_Interval
<1>2. \A k \in Nat : IsFiniteSet(SUBSET (1 .. k)) /\ Cardinality(SUBSET (1 .. k)) = 2^k
  BY <1>1, FS_SUBSET
<1>3. PICK S, x : S = 1 .. m /\ x = m + 1 /\ x \notin S /\ S \cup {x} = 1 .. m + 1
  OBVIOUS
<1>4. PICK P, with : /\ P = SUBSET S /\ Splits(SUBSET (S \cup {x}), P, with)
                     /\ ExistsBijection(P, with)
  <2>1. PICK with : with = {A \cup {x} : A \in SUBSET S}
    OBVIOUS
  <2>2. x \notin S
    BY <1>3
  <2>3. Splits(SUBSET (S \cup {x}), SUBSET S, with)
    BY <2>1, <2>2, PowerSplits
  <2>4. ExistsBijection(SUBSET S, with)
    BY <2>1, <2>2, PowerPairs
  <2> QED
    BY <2>3, <2>4
<1>5. IsFiniteSet(P) /\ Cardinality(P) = 2^m /\ P # {}
  BY <1>2, <1>3, <1>4
<1>6. 2^m \in Nat \ {0}
  BY <1>5, FS_CardinalityType, FS_EmptySet
<1>7. IsFiniteSet(with) /\ Cardinality(with) = 2^m
  <2>1. \A Q : ExistsBijection(P, Q) => IsFiniteSet(Q) /\ Cardinality(Q) = Cardinality(P)
    BY <1>5, FS_Bijection
  <2> QED
    BY <1>4, <1>5, <2>1
<1>8. Cardinality(P \cup with) = 2^m + 2^m
  <2>1. Cardinality(P \cap with) = 0
    BY <1>4, FS_EmptySet DEF Splits
  <2>2. Cardinality(P \cup with) = Cardinality(P) + Cardinality(with) - Cardinality(P \cap with)
    BY <1>5, <1>7, FS_Union
  <2>3. Cardinality(P \cup with) = 2^m + 2^m - 0
    BY <1>5, <1>7, <2>1, <2>2
  <2> QED
    BY <1>6, <2>3
<1>9. Cardinality(SUBSET (S \cup {x})) = 2^(m + 1)
  <2>1. m + 1 \in Nat
    OBVIOUS
  <2> QED
    BY <1>2, <1>3, <2>1, Zenon
<1> QED
  <2>1. 2^(m + 1) = 2^m + 2^m
    BY <1>4, <1>8, <1>9 DEF Splits
  <2> QED
    BY <1>6, <2>1

LEMMA WrapIs == ASSUME NEW x \in Int PROVE Wrap(x) \in Word
<1>1. W - 1 \in Nat /\ (W - 1) + 1 = W
  BY MachineSizes
<1>2. 2^(W - 1) \in Nat \ {0} /\ 2^W = 2 * 2^(W - 1)
  BY <1>1, TwoPowers
<1> DEFINE h == 2^(W - 1)
<1>3. \A y \in Int, m \in Nat \ {0} : y % m \in 0 .. m - 1
  OBVIOUS
<1>4. h \in Nat \ {0} /\ 2^W = 2 * h
  BY <1>2
<1> HIDE DEF h
<1> DEFINE r == (x + h) % (2 * h)
<1>5. x + h \in Int /\ 2 * h \in Nat \ {0}
  BY <1>4
<1>6. r \in 0 .. (2 * h) - 1
  BY <1>3, <1>5
<1>7. Wrap(x) = r - h
  BY <1>4 DEF Wrap, h
<1> HIDE DEF r
<1>8. Wrap(x) \in -h .. h - 1
  BY <1>4, <1>6, <1>7
<1> QED
  BY <1>8 DEF Word, h

LEMMA WordsAre ==
    /\ Word \subseteq Int /\ Address \subseteq Word /\ -1 \in Word /\ 0 \in Word
    /\ \A p \in Int : p \in Address /\ p + 2 \in Address => p + 3 \in Word /\ 1 \in Word
    /\ \A p \in Address : p \in Int /\ 0 <= p /\ p < MAX_CODE_SIZE
<1>1. 2^(W - 1) \in Nat \ {0}
  <2>1. W - 1 \in Nat
    BY MachineSizes
  <2> QED
    BY <2>1, TwoPowers
<1> QED
  BY <1>1, MachineSizes DEF Word, Address
-----------------------------------------------------------------------------
(* The state between two steps *)

\* The operands of the instruction that waits.
Waits == /\ pc \in Address /\ pc + 2 \in Address
         /\ code[pc] < MAX_CODE_SIZE /\ b < MAX_CODE_SIZE /\ b = code[pc + 1]

Asked == [a |-> code[code[pc]], b |-> code[b]]
Difference == Wrap(code[b] - code[code[pc]])
Answer == [c |-> Difference, is_jmp |-> Difference <= 0, to |-> Asked]

\* One request on its way, or its answer.
InFlight == \/ requests = <<Asked>> /\ answers = <<>>
            \/ requests = <<>> /\ answers = <<Answer>>

VmInv == /\ TypeOK
         /\ jmpbuf = NotArmed \/ (jmpbuf.b \in Word /\ jmpbuf.pc \in Address /\ jmpbuf.pc + 2 \in Address)
         /\ jmpbuf.pc \in Int
         /\ status = "running" => ctrlc_count <= 2
         /\ at = "input" => Waits /\ code[pc] = -1 /\ b # -1
         /\ at = "recv" => status = "running" /\ Waits /\ code[pc] >= 0 /\ b >= 0 /\ InFlight
         /\ at # "recv" => requests = <<>> /\ answers = <<>>

LEMMA InitVm == Init => VmInv
<1> SUFFICES ASSUME Init PROVE VmInv
  OBVIOUS
<1>1. code \in [Address -> Word]
  BY Inputs DEF Init
<1>2. pc \in Word /\ b \in Word /\ ctrlc_count \in 0 .. 3 /\ ctrlc \in BOOLEAN
  <2>1. 0 \in Word /\ pc = 0 /\ b = 0 /\ ctrlc_count = 0 /\ ctrlc = FALSE
    BY WordsAre DEF Init
  <2>2. 0 \in 0 .. 3 /\ FALSE \in BOOLEAN
    OBVIOUS
  <2> QED
    BY <2>1, <2>2, Zenon
<1>3. TypeOK
  BY <1>1, <1>2 DEF Init, TypeOK
<1> QED
  BY <1>3 DEF Init, VmInv, NotArmed

\* What Deliver leaves of the types, whichever locals the jump has kept.
LEMMA DeliverKeeps ==
    ASSUME VmInv, status = "running", NEW ch \in Word, NEW dest \in Word, NEW from \in Address, from + 2 \in Address,
           at = "input", Deliver(ch, dest, from), b' \in Word,
           jmpbuf' = NotArmed \/ (jmpbuf'.b \in Word /\ jmpbuf'.pc \in Address /\ jmpbuf'.pc + 2 \in Address),
           jmpbuf'.pc \in Int
    PROVE  VmInv'
<1>1. /\ code \in [Address -> Word] /\ pc \in Word /\ ctrlc_count \in 0 .. 2 /\ from + 3 \in Word
      /\ requests = <<>> /\ answers = <<>>
  BY WordsAre DEF VmInv, TypeOK
<1>2. ctrlc' \in BOOLEAN /\ at' = "fetch" /\ requests' = <<>> /\ answers' = <<>>
  BY <1>1 DEF Deliver
<1>3. ctrlc_count' \in 0 .. 3
  BY <1>1 DEF Deliver
<1>4. /\ code' \in [Address -> Word] /\ pc' \in Word
      /\ status' \in {"running", "stopped", "undefined"}
      /\ status' = "running" => ctrlc_count' <= 2
  <2>1. CASE dest \notin Address
    BY <1>1, <2>1 DEF Deliver
  <2>2. CASE dest \in Address
    <3>1. /\ code' = [code EXCEPT ![dest] = ch] /\ pc' = from + 3
          /\ status' = IF ctrlc_count' > 2 THEN "stopped" ELSE status
      BY <2>2 DEF Deliver
    <3>2. status' = "running" => ctrlc_count' <= 2
      BY <1>3, <3>1
    <3>3. status' \in {"running", "stopped"}
      BY <3>1
    <3> QED
      BY <1>1, <3>1, <3>2, <3>3
  <2> QED
    BY <2>1, <2>2
<1>5. TypeOK'
  BY <1>2, <1>3, <1>4 DEF TypeOK
<1> QED
  BY <1>2, <1>4, <1>5 DEF VmInv

\* The branches of one turn of the loop.
LEMMA ExecuteIs ==
    ASSUME code \in [Address -> Word], pc \in Int, Execute
    PROVE  /\ status = "running" /\ at = "fetch" /\ UNCHANGED jmpbuf
           /\ \/ /\ pc \notin Address /\ Exit("error")
              \/ /\ pc \in Address /\ pc + 2 \notin Address /\ Exit("undefined")
              \/ /\ pc \in Address /\ pc + 2 \in Address
                 /\ LET x == code[pc]   y == code[pc + 1] IN
                    \/ (x >= MAX_CODE_SIZE \/ y >= MAX_CODE_SIZE) /\ Exit("error")
                    \/ /\ x < MAX_CODE_SIZE /\ y < MAX_CODE_SIZE
                       /\ \/ y = -1 /\ x < 0 /\ Exit("undefined")
                          \/ y = -1 /\ x >= 0 /\ b' = y /\ WriteConsole(x)
                          \/ y # -1 /\ x = -1 /\ b' = y /\ Prompt
                          \/ y # -1 /\ x = -2 /\ y < 0 /\ Exit("undefined")
                          \/ y # -1 /\ x = -2 /\ y >= 0 /\ b' = y /\ CheckCtrlC
                          \/ y # -1 /\ x # -1 /\ x # -2 /\ (x < 0 \/ y < 0) /\ Exit("error")
                          \/ y >= 0 /\ x >= 0 /\ b' = y /\ flashCall(x)
<1>1. pc \in Int /\ MAX_CODE_SIZE \in Nat /\ code \in [Address -> Word]
  BY MachineSizes
<1>2. UNCHANGED jmpbuf
  BY DEF Execute, Exit, WriteConsole, Prompt, CheckCtrlC, flashCall
<1>3. CASE pc \notin Address
  <2>1. pc >= MAX_CODE_SIZE \/ pc < 0
    BY <1>1, <1>3 DEF Address
  <2> QED
    BY <1>2, <1>3, <2>1 DEF Execute
<1>4. CASE pc \in Address /\ pc + 2 \notin Address
  <2>1. ~(pc >= MAX_CODE_SIZE \/ pc < 0) /\ pc + 2 >= MAX_CODE_SIZE
    BY <1>1, <1>4 DEF Address
  <2> QED
    BY <1>2, <1>4, <2>1 DEF Execute
<1>5. CASE pc \in Address /\ pc + 2 \in Address
  <2>1. ~(pc >= MAX_CODE_SIZE \/ pc < 0) /\ ~(pc + 2 >= MAX_CODE_SIZE) /\ pc + 1 \in Address
    BY <1>1, <1>5 DEF Address
  <2> DEFINE x == code[pc]   y == code[pc + 1]
  <2>2. x \in Int /\ y \in Int
    BY <1>1, <1>5, <2>1, WordsAre
  <2>3. /\ status = "running" /\ at = "fetch"
        /\ IF x >= MAX_CODE_SIZE \/ y >= MAX_CODE_SIZE THEN Exit("error")
           ELSE IF y = -1 THEN IF x < 0 THEN Exit("undefined") ELSE b' = -1 /\ WriteConsole(x)
           ELSE IF x = -1 THEN b' = y /\ Prompt
           ELSE IF x = -2 THEN IF y < 0 THEN Exit("undefined") ELSE b' = y /\ CheckCtrlC
           ELSE IF x < 0 \/ y < 0 THEN Exit("error")
           ELSE b' = y /\ flashCall(x)
    BY <2>1 DEF Execute
  <2>4. \A z \in Int : (z >= MAX_CODE_SIZE <=> ~(z < MAX_CODE_SIZE)) /\ (z < 0 <=> ~(z >= 0))
    BY <1>1
  <2> HIDE DEF x, y
  <2>5. \/ (x >= MAX_CODE_SIZE \/ y >= MAX_CODE_SIZE) /\ Exit("error")
        \/ /\ x < MAX_CODE_SIZE /\ y < MAX_CODE_SIZE
           /\ \/ y = -1 /\ x < 0 /\ Exit("undefined")
              \/ y = -1 /\ x >= 0 /\ b' = y /\ WriteConsole(x)
              \/ y # -1 /\ x = -1 /\ b' = y /\ Prompt
              \/ y # -1 /\ x = -2 /\ y < 0 /\ Exit("undefined")
              \/ y # -1 /\ x = -2 /\ y >= 0 /\ b' = y /\ CheckCtrlC
              \/ y # -1 /\ x # -1 /\ x # -2 /\ (x < 0 \/ y < 0) /\ Exit("error")
              \/ y >= 0 /\ x >= 0 /\ b' = y /\ flashCall(x)
    BY <2>2, <2>3, <2>4
  <2> QED
    BY <1>2, <1>5, <2>3, <2>5 DEF x, y
<1> QED
  BY <1>3, <1>4, <1>5
-----------------------------------------------------------------------------
(* One lemma for each step *)

LEMMA StopsKeep ==
    ASSUME VmInv, status = "running", at # "recv", NEW how \in {"error", "undefined"}, Exit(how)
    PROVE  VmInv'
<1>1. TypeOK'
  BY DEF VmInv, TypeOK, Exit
<1>2. InFlight' <=> InFlight
  BY DEF Exit, InFlight, Asked, Answer, Difference, Wrap
<1> QED
  BY <1>1 DEF VmInv, Exit, Waits

LEMMA ExecuteKeeps ==
    ASSUME VmInv, Execute
    PROVE  VmInv'
<1> DEFINE x == code[pc]
           y == code[pc + 1]
<1>0. code \in [Address -> Word] /\ pc \in Int
  BY WordsAre DEF VmInv, TypeOK
<1>1. /\ status = "running" /\ at = "fetch" /\ UNCHANGED jmpbuf
      /\ requests = <<>> /\ answers = <<>>
  BY <1>0, ExecuteIs DEF VmInv
<1>2. CASE \E how \in {"error", "undefined"} : Exit(how)
  BY <1>1, <1>2, StopsKeep
<1>3. CASE pc \in Address /\ pc + 2 \in Address
  <2>1. /\ pc + 1 \in Address /\ pc + 3 \in Word /\ 1 \in Word /\ 0 \in Word /\ -1 \in Word
        /\ code \in [Address -> Word] /\ Word \subseteq Int /\ pc \in Word
    BY <1>3, WordsAre, MachineSizes DEF VmInv, TypeOK, Address
  <2>2. x \in Word /\ y \in Word
    BY <1>3, <2>1
  <2>3. CASE y = -1 /\ x >= 0 /\ b' = y /\ WriteConsole(x)
    <3>1. TypeOK'
      BY <2>1, <2>2, <2>3 DEF VmInv, TypeOK, WriteConsole
    <3> QED
      BY <1>1, <2>3, <3>1 DEF VmInv, WriteConsole
  <2>4. CASE x < MAX_CODE_SIZE /\ y < MAX_CODE_SIZE /\ y # -1 /\ x = -1 /\ b' = y /\ Prompt
    <3>1. TypeOK'
      BY <2>1, <2>2, <2>4 DEF VmInv, TypeOK, Prompt
    <3>2. (Waits /\ code[pc] = -1 /\ b # -1)'
      BY <1>3, <2>4 DEF Prompt, Waits
    <3> QED
      BY <1>1, <2>4, <3>1, <3>2 DEF VmInv, Prompt
  <2>5. CASE y >= 0 /\ b' = y /\ CheckCtrlC
    <3>1. code' \in [Address -> Word]
      BY <2>1, <2>5 DEF CheckCtrlC
    <3>2. TypeOK'
      BY <2>1, <2>2, <2>5, <3>1 DEF VmInv, TypeOK, CheckCtrlC
    <3> QED
      BY <1>1, <2>5, <3>2 DEF VmInv, CheckCtrlC
  <2>6. CASE x < MAX_CODE_SIZE /\ y < MAX_CODE_SIZE /\ y >= 0 /\ x >= 0 /\ b' = y /\ flashCall(x)
    <3>1. TypeOK'
      BY <2>1, <2>2, <2>6 DEF VmInv, TypeOK, flashCall
    <3>2. (Waits /\ code[pc] >= 0 /\ b >= 0)'
      BY <1>3, <2>6 DEF flashCall, Waits
    <3>3. InFlight'
      BY <1>1, <2>6 DEF flashCall, InFlight, Asked
    <3> QED
      BY <1>1, <2>6, <3>1, <3>2, <3>3 DEF VmInv, flashCall
  <2> QED
    BY <1>0, <1>2, <1>3, <2>3, <2>4, <2>5, <2>6, ExecuteIs
<1> QED
  BY <1>0, <1>2, <1>3, ExecuteIs

LEMMA InputKeeps == ASSUME VmInv, Input PROVE VmInv'
<1>1. status = "running" /\ at = "input" /\ jmpbuf' = [b |-> b, pc |-> pc] /\ b' = b
  BY DEF Input
<1>2. /\ pc \in Address /\ pc + 2 \in Address /\ b \in Word /\ pc \in Int
  BY <1>1, WordsAre DEF VmInv, TypeOK, Waits
<1>3. PICK key \in Keys : Deliver(key, b, pc)
  BY DEF Input
<1>4. key \in Word
  BY Inputs
<1>5. jmpbuf'.b = b /\ jmpbuf'.pc = pc
  BY <1>1
<1> QED
  BY <1>1, <1>2, <1>3, <1>4, <1>5, DeliverKeeps

LEMMA SigintKeeps == ASSUME SignalAt = "prompt", VmInv, Sigint PROVE VmInv'
<1>1. status = "running" /\ at = "input" /\ jmpbuf # NotArmed /\ CTRL_C \in Word
  BY Inputs DEF Sigint
<1>2. PICK old : /\ old = jmpbuf \/ old = [b |-> b, pc |-> pc]
                 /\ Deliver(CTRL_C, old.b, old.pc) /\ b' = old.b /\ jmpbuf' = jmpbuf
  BY <1>1 DEF Sigint
<1>3. old.b \in Word /\ old.pc \in Address /\ old.pc + 2 \in Address
  <2>1. CASE old = jmpbuf
    BY <1>1, <2>1 DEF VmInv
  <2>2. CASE old = [b |-> b, pc |-> pc]
    BY <1>1, <2>2 DEF VmInv, TypeOK, Waits
  <2> QED
    BY <1>2, <2>1, <2>2
<1>5. /\ jmpbuf' = NotArmed \/ (jmpbuf'.b \in Word /\ jmpbuf'.pc \in Address /\ jmpbuf'.pc + 2 \in Address)
      /\ jmpbuf'.pc \in Int
  BY <1>2 DEF VmInv
<1>6. b' \in Word
  BY <1>2, <1>3
<1> QED
  BY <1>1, <1>2, <1>3, <1>5, <1>6, DeliverKeeps

LEMMA ServeKeeps == ASSUME VmInv, Serve PROVE VmInv'
<1>1. at = "recv" /\ requests = <<Asked>> /\ answers = <<>>
  BY DEF VmInv, Serve, InFlight
<1>2. requests' = <<>> /\ answers' = <<Answer>>
  <2>1. Head(requests) = Asked /\ Tail(requests) = <<>> /\ Asked.a = code[code[pc]] /\ Asked.b = code[b]
    BY <1>1 DEF Asked
  <2>2. answers' = Append(answers, Answer)
    BY <2>1 DEF Serve, Answer, Difference
  <2> QED
    BY <1>1, <2>1, <2>2 DEF Serve
<1>3. UNCHANGED <<code, pc, status, ctrlc, ctrlc_count, console, at, b, jmpbuf>>
  BY DEF Serve
<1>4. TypeOK'
  BY <1>3 DEF VmInv, TypeOK
<1>5. InFlight'
  BY <1>2, <1>3 DEF InFlight, Answer, Asked, Difference, Wrap
<1> QED
  BY <1>1, <1>3, <1>4, <1>5 DEF VmInv, Waits

LEMMA AnswerIs ==
    ASSUME VmInv, Return
    PROVE  /\ status = "running" /\ at = "recv" /\ Waits /\ code[pc] >= 0 /\ b >= 0
           /\ Head(answers) = Answer /\ requests = <<>> /\ Difference \in Word
<1>1. status = "running" /\ at = "recv" /\ Waits /\ code[pc] >= 0 /\ b >= 0 /\ InFlight /\ answers # <<>>
  BY DEF VmInv, Return
<1>2. requests = <<>> /\ answers = <<Answer>>
  BY <1>1 DEF InFlight
<1>3. code[b] \in Int /\ code[code[pc]] \in Int
  <2>1. code \in [Address -> Word] /\ pc \in Address /\ b \in Word /\ Word \subseteq Int
    BY <1>1, WordsAre DEF VmInv, TypeOK, Waits
  <2>2. code[pc] \in Word
    BY <2>1
  <2>3. b \in Address /\ code[pc] \in Address
    <3>1. \A z \in Int : 0 <= z /\ z < MAX_CODE_SIZE => z \in Address
      BY MachineSizes DEF Address
    <3>2. b \in Int /\ code[pc] \in Int /\ b < MAX_CODE_SIZE /\ code[pc] < MAX_CODE_SIZE
      BY <1>1, <2>1, <2>2 DEF Waits
    <3> QED
      BY <1>1, <3>1, <3>2
  <2> QED
    BY <2>1, <2>3
<1>4. Difference \in Word
  <2>1. code[b] - code[code[pc]] \in Int
    BY <1>3
  <2> QED
    BY <2>1, WrapIs DEF Difference
<1> QED
  BY <1>1, <1>2, <1>4

LEMMA ReturnKeeps == ASSUME VmInv, Return PROVE VmInv'
<1>1. /\ status = "running" /\ at = "recv" /\ Waits /\ requests = <<>> /\ Difference \in Word
      /\ Head(answers) = Answer
  BY AnswerIs
<1>2. code \in [Address -> Word] /\ pc + 3 \in Word /\ code[pc + 2] \in Word /\ pc \in Word
  BY <1>1, WordsAre DEF VmInv, TypeOK, Waits
<1>3. Answer.c = Difference
  BY DEF Answer
<1>4. code' \in [Address -> Word]
  BY <1>1, <1>2, <1>3 DEF Return, Stores
<1>5. pc' \in Word /\ status' \in {"running", "halted"}
  BY <1>1, <1>2 DEF Return
<1>6. at' = "fetch" /\ answers' = <<>> /\ UNCHANGED <<ctrlc, ctrlc_count, console, b, jmpbuf, requests>>
  BY DEF Return
<1>7. TypeOK'
  BY <1>4, <1>5, <1>6 DEF VmInv, TypeOK
<1> QED
  BY <1>1, <1>6, <1>7 DEF VmInv

LEMMA StepKeepsVm == ASSUME SignalAt = "prompt", VmInv, [Next]_vars PROVE VmInv'
<1>1. CASE UNCHANGED vars
  <2>1. TypeOK'
    BY <1>1 DEF VmInv, TypeOK, vars
  <2>2. InFlight' <=> InFlight
    BY <1>1 DEF InFlight, Asked, Answer, Difference, Wrap, vars
  <2> QED
    BY <1>1, <2>1, <2>2 DEF VmInv, Waits, vars
<1> QED
  BY <1>1, ExecuteKeeps, InputKeeps, SigintKeeps, ServeKeeps, ReturnKeeps DEF Next
-----------------------------------------------------------------------------
(* What holds wherever Ctrl-C strikes *)

Operands == [a : Word, b : Word]
Results == {r \in [c : Word, is_jmp : BOOLEAN, to : Operands] :
               r.c = Wrap(r.to.b - r.to.a) /\ r.is_jmp = (r.c <= 0)}

CoreInv == /\ code \in [Address -> Word] /\ pc \in Int /\ b \in Int
           /\ jmpbuf.b \in Int /\ jmpbuf.pc \in Int
           /\ ctrlc_count \in 0 .. 3 /\ (status = "running" => ctrlc_count <= 2)
           /\ at = "input" => Waits /\ code[pc] = -1 /\ b # -1
           /\ at = "recv" => Waits /\ code[pc] >= 0 /\ b >= 0
           /\ requests \in Seq(Operands) /\ answers \in Seq(Results)

LEMMA InitCore == Init => CoreInv
<1> SUFFICES ASSUME Init PROVE CoreInv
  OBVIOUS
<1>1. code \in [Address -> Word]
  BY Inputs DEF Init
<1>2. <<>> \in Seq(Operands) /\ <<>> \in Seq(Results)
  OBVIOUS
<1> QED
  BY <1>1, <1>2 DEF Init, CoreInv, NotArmed

\* An input or a jump, to any address.
LEMMA DeliverCore ==
    ASSUME CoreInv, status = "running", NEW ch \in Word, NEW dest \in Int, NEW from \in Int,
           Deliver(ch, dest, from), b' \in Int, jmpbuf'.b \in Int, jmpbuf'.pc \in Int
    PROVE  CoreInv'
<1>1. code \in [Address -> Word] /\ pc \in Int /\ ctrlc_count \in 0 .. 2
  BY DEF CoreInv
<1>2. at' = "fetch" /\ ctrlc_count' \in 0 .. 3 /\ UNCHANGED <<requests, answers>>
  BY <1>1 DEF Deliver
<1>3. code' \in [Address -> Word] /\ pc' \in Int /\ (status' = "running" => ctrlc_count' <= 2)
  <2>1. CASE dest \notin Address
    BY <1>1, <2>1 DEF Deliver
  <2>2. CASE dest \in Address
    <3>1. /\ code' = [code EXCEPT ![dest] = ch] /\ pc' = from + 3
          /\ status' = IF ctrlc_count' > 2 THEN "stopped" ELSE status
      BY <2>2 DEF Deliver
    <3>2. status' = "running" => ctrlc_count' <= 2
      BY <1>2, <3>1
    <3>3. code' \in [Address -> Word]
      BY <1>1, <3>1
    <3>4. pc' \in Int
      BY <3>1
    <3> QED
      BY <3>2, <3>3, <3>4
  <2> QED
    BY <2>1, <2>2
<1> QED
  BY <1>2, <1>3 DEF CoreInv

LEMMA ExecuteCore == ASSUME CoreInv, Execute PROVE CoreInv'
<1> DEFINE x == code[pc]
           y == code[pc + 1]
<1>1. code \in [Address -> Word] /\ pc \in Int
  BY DEF CoreInv
<1>2. status = "running" /\ at = "fetch" /\ UNCHANGED jmpbuf
  BY <1>1, ExecuteIs
<1>3. CASE \E how \in {"error", "undefined"} : Exit(how)
  BY <1>2, <1>3 DEF CoreInv, Exit, Waits
<1>4. CASE pc \in Address /\ pc + 2 \in Address
  <2>1. /\ pc + 1 \in Address /\ 1 \in Word /\ 0 \in Word /\ Word \subseteq Int
    BY <1>4, WordsAre, MachineSizes DEF Address
  <2>2. x \in Word /\ y \in Word /\ x \in Int /\ y \in Int
    BY <1>1, <1>4, <2>1
  <2>3. CASE y = -1 /\ x >= 0 /\ b' = y /\ WriteConsole(x)
    BY <1>1, <1>2, <2>2, <2>3 DEF CoreInv, WriteConsole
  <2>4. CASE x < MAX_CODE_SIZE /\ y < MAX_CODE_SIZE /\ y # -1 /\ x = -1 /\ b' = y /\ Prompt
    <3>1. (Waits /\ code[pc] = -1 /\ b # -1)'
      BY <1>4, <2>4 DEF Prompt, Waits
    <3> QED
      BY <1>2, <2>2, <2>4, <3>1 DEF CoreInv, Prompt
  <2>5. CASE y >= 0 /\ b' = y /\ CheckCtrlC
    <3>1. code' \in [Address -> Word]
      BY <1>1, <2>1, <2>5 DEF CheckCtrlC
    <3> QED
      BY <1>1, <1>2, <2>2, <2>5, <3>1 DEF CoreInv, CheckCtrlC
  <2>6. CASE x < MAX_CODE_SIZE /\ y < MAX_CODE_SIZE /\ y >= 0 /\ x >= 0 /\ b' = y /\ flashCall(x)
    <3>1. (Waits /\ code[pc] >= 0 /\ b >= 0)'
      BY <1>4, <2>6 DEF flashCall, Waits
    <3>2. x \in Address /\ y \in Address
      BY <2>2, <2>6, MachineSizes DEF Address
    <3>3. [a |-> code[x], b |-> code[y]] \in Operands
      BY <1>1, <3>2 DEF Operands
    <3>4. requests' = Append(requests, [a |-> code[x], b |-> code[y]]) /\ requests \in Seq(Operands)
      BY <2>6 DEF flashCall, CoreInv
    <3>5. requests' \in Seq(Operands)
      BY <3>3, <3>4, AppendProperties
    <3> QED
      BY <1>2, <2>2, <2>6, <3>1, <3>5 DEF CoreInv, flashCall
  <2> QED
    BY <1>1, <1>3, <1>4, <2>3, <2>4, <2>5, <2>6, ExecuteIs
<1> QED
  BY <1>1, <1>3, <1>4, ExecuteIs

LEMMA InputCore == ASSUME CoreInv, Input PROVE CoreInv'
<1>1. status = "running" /\ jmpbuf' = [b |-> b, pc |-> pc] /\ b' = b /\ b \in Int /\ pc \in Int
  BY DEF Input, CoreInv
<1>2. PICK key \in Keys : Deliver(key, b, pc)
  BY DEF Input
<1>3. key \in Word
  BY Inputs
<1>4. jmpbuf'.b = b /\ jmpbuf'.pc = pc
  BY <1>1
<1> QED
  BY <1>1, <1>2, <1>3, <1>4, DeliverCore

LEMMA SigintCore == ASSUME CoreInv, Sigint PROVE CoreInv'
<1>1. status = "running" /\ CTRL_C \in Word /\ b \in Int /\ pc \in Int /\ jmpbuf.b \in Int /\ jmpbuf.pc \in Int
  BY Inputs DEF Sigint, CoreInv
<1>2. CASE Exit("undefined")
  BY <1>2 DEF CoreInv, Exit, Waits
<1>3. CASE \E kept \in Locals :
             LET old == IF kept = "saved" THEN jmpbuf ELSE [b |-> b, pc |-> pc]
             IN  Deliver(CTRL_C, old.b, old.pc) /\ b' = old.b /\ jmpbuf' = jmpbuf
  <2>1. PICK old : /\ old = jmpbuf \/ old = [b |-> b, pc |-> pc]
                   /\ Deliver(CTRL_C, old.b, old.pc) /\ b' = old.b /\ jmpbuf' = jmpbuf
    BY <1>3
  <2>2. old.b \in Int /\ old.pc \in Int
    BY <1>1, <2>1
  <2> QED
    BY <1>1, <2>1, <2>2, DeliverCore
<1> QED
  BY <1>2, <1>3 DEF Sigint

LEMMA ServeCore == ASSUME CoreInv, Serve PROVE CoreInv'
<1>1. requests \in Seq(Operands) /\ requests # <<>> /\ answers \in Seq(Results)
  BY DEF CoreInv, Serve
<1>2. Head(requests) \in Operands /\ Tail(requests) \in Seq(Operands)
  BY <1>1, HeadTailProperties
<1> DEFINE req == Head(requests)
           result == Wrap(req.b - req.a)
           resp == [c |-> result, is_jmp |-> result <= 0, to |-> req]
<1>3. result \in Word
  <2> HIDE DEF req
  <2>1. req \in Operands
    BY <1>2 DEF req
  <2>2. req.a \in Word /\ req.b \in Word /\ Word \subseteq Int
    BY <2>1, WordsAre DEF Operands
  <2>3. req.a \in Int /\ req.b \in Int
    BY <2>2
  <2>4. req.b - req.a \in Int
    BY <2>3
  <2> QED
    BY <2>4, WrapIs
<1>4. answers' = Append(answers, resp) /\ requests' = Tail(requests)
  BY DEF Serve
<1>5. resp \in Results
  <2> HIDE DEF result, req
  <2>1. req \in Operands /\ result = Wrap(req.b - req.a) /\ result \in Word
    BY <1>2, <1>3 DEF req, result
  <2> QED
    BY <2>1 DEF Results
<1>6. answers' \in Seq(Results)
  BY <1>1, <1>4, <1>5, AppendProperties
<1>7. UNCHANGED <<code, pc, status, ctrlc, ctrlc_count, console, at, b, jmpbuf>>
  BY DEF Serve
<1> QED
  BY <1>2, <1>4, <1>6, <1>7 DEF CoreInv, Waits

LEMMA AnswerIsWord ==
    ASSUME CoreInv, Return
    PROVE  Head(answers) \in Results
<1>1. answers \in Seq(Results) /\ answers # <<>>
  BY DEF CoreInv, Return
<1> QED
  BY <1>1, HeadTailProperties

LEMMA ReturnCore == ASSUME CoreInv, Return PROVE CoreInv'
<1>1. Head(answers).c \in Word
  BY AnswerIsWord DEF Results
<1>2. status = "running" /\ Waits /\ code \in [Address -> Word]
  BY DEF CoreInv, Return
<1>3. code[pc + 2] \in Int /\ pc \in Int
  BY <1>2, WordsAre DEF Waits
<1>4. code' \in [Address -> Word]
  BY <1>1, <1>2 DEF Return, Stores
<1>5. pc' \in Int
  BY <1>3 DEF Return
<1>6. /\ at' = "fetch" /\ answers' = <<>> /\ UNCHANGED <<ctrlc_count, b, jmpbuf, requests>>
      /\ <<>> \in Seq(Results)
  BY DEF Return
<1> QED
  BY <1>2, <1>4, <1>5, <1>6 DEF CoreInv

LEMMA StepKeepsCore == ASSUME CoreInv, [Next]_vars PROVE CoreInv'
<1>1. CASE UNCHANGED vars
  BY <1>1 DEF CoreInv, Waits, vars
<1> QED
  BY <1>1, ExecuteCore, InputCore, SigintCore, ServeCore, ReturnCore DEF Next
-----------------------------------------------------------------------------
(* The machine takes each step, or none *)

\* A jump that is no input of CTRL_C to the instruction that waits for one.
StrayJump == Sigint /\ (at # "input" \/ jmpbuf = NotArmed \/ Locals # {"current"})

\* The answer that is first in the socket is one to an instruction that was left.
OthersAnswer == Return /\ Head(answers).to # Asked

LEMMA FaultIs ==
    ASSUME NEW how, Exit(how), status = "running"
    PROVE  /\ pc \notin Address /\ how = "error" => Machine!Fault
           /\ pc \in Address /\ pc + 2 \notin Address /\ how = "undefined" => Machine!Fault
           /\ pc \in Address /\ pc + 2 \in Address =>
                LET x == code[pc]   y == code[pc + 1] IN
                /\ (x >= MAX_CODE_SIZE \/ y >= MAX_CODE_SIZE) /\ how = "error" => Machine!Fault
                /\ ~(x >= MAX_CODE_SIZE \/ y >= MAX_CODE_SIZE) =>
                     /\ y = -1 /\ x < 0 /\ how = "undefined" => Machine!Fault
                     /\ y # -1 /\ x = -2 /\ y < 0 /\ how = "undefined" => Machine!Fault
                     /\ y # -1 /\ x # -1 /\ x # -2 /\ (x < 0 \/ y < 0) /\ how = "error" => Machine!Fault
<1>1. Machine!Stop(how)
  BY DEF Exit, Machine!Stop
<1>2. Machine!Address = Address /\ Machine!a = code[pc] /\ Machine!b = code[pc + 1]
  BY DEF Machine!Address, Address, Machine!a, Machine!b
<1> QED
  BY <1>1, <1>2 DEF Machine!Fault

LEMMA ExecuteSimulates == ASSUME CoreInv, Execute PROVE [Machine!Next]_(Machine!vars)
<1> DEFINE x == code[pc]
           y == code[pc + 1]
<1>1. Machine!Address = Address /\ Machine!a = x /\ Machine!b = y
  BY DEF Machine!Address, Address, Machine!a, Machine!b
<1>0. code \in [Address -> Word] /\ pc \in Int
  BY DEF CoreInv
<1>2. status = "running" /\ at = "fetch"
  BY <1>0, ExecuteIs
<1>3. CASE Machine!Fault
  BY <1>3 DEF Machine!Next, Machine!Compute
<1>4. CASE pc \in Address /\ pc + 2 \in Address
  <2>1. x \in Int /\ y \in Int /\ \A z \in Int : z < MAX_CODE_SIZE <=> ~(z >= MAX_CODE_SIZE)
    <3>1. pc + 1 \in Address /\ Word \subseteq Int
      BY <1>4, WordsAre, MachineSizes DEF Address
    <3>2. x \in Int /\ y \in Int
      BY <1>0, <1>4, <3>1
    <3>3. \A z, m \in Int : z < m <=> ~(z >= m)
      OBVIOUS
    <3> QED
      BY <3>2, <3>3, MachineSizes
  <2>2. CASE x < MAX_CODE_SIZE /\ y < MAX_CODE_SIZE /\ y = -1 /\ x >= 0 /\ b' = y /\ WriteConsole(x)
    <3>1. Machine!Write
      BY <1>1, <1>2, <1>4, <2>2 DEF Machine!Write, Machine!Decoded, WriteConsole
    <3> QED
      BY <3>1 DEF Machine!Next, Machine!Compute
  <2>3. CASE Prompt
    BY <2>3 DEF Prompt, Machine!vars
  <2>4. CASE x < MAX_CODE_SIZE /\ y < MAX_CODE_SIZE /\ x = -2 /\ y >= 0 /\ b' = y /\ CheckCtrlC
    <3>1. Machine!AskCtrlC
      BY <1>1, <1>2, <1>4, <2>4 DEF Machine!AskCtrlC, Machine!Decoded, Machine!Flag, CheckCtrlC
    <3> QED
      BY <3>1 DEF Machine!Next, Machine!Compute
  <2>5. CASE flashCall(x)
    BY <2>5 DEF flashCall, Machine!vars
  <2>6. CASE Exit("error")
    BY <1>0, <1>2, <1>3, <1>4, <2>1, <2>2, <2>3, <2>4, <2>5, <2>6, ExecuteIs, FaultIs
  <2>7. CASE Exit("undefined")
    BY <1>0, <1>2, <1>3, <1>4, <2>1, <2>2, <2>3, <2>4, <2>5, <2>7, ExecuteIs, FaultIs
  <2> QED
    BY <1>0, <1>4, <2>2, <2>3, <2>4, <2>5, <2>6, <2>7, ExecuteIs
<1> QED
  BY <1>0, <1>2, <1>3, <1>4, ExecuteIs, FaultIs

LEMMA InputSimulates ==
    ASSUME CoreInv, status = "running", at = "input",
           NEW ch \in Keys \cup {CTRL_C}, Deliver(ch, b, pc)
    PROVE  [Machine!Next]_(Machine!vars)
<1>1. Machine!Address = Address /\ Machine!a = code[pc] /\ Machine!b = code[pc + 1]
  BY DEF Machine!Address, Address, Machine!a, Machine!b
<1>2. /\ pc \in Address /\ pc + 2 \in Address /\ code[pc] = -1 /\ b # -1 /\ b = code[pc + 1]
      /\ b < MAX_CODE_SIZE /\ code[pc] < MAX_CODE_SIZE
  BY DEF CoreInv, Waits
<1>3. b \in Int /\ (b \in Address <=> b >= 0)
  <2>1. b \in Int
    BY DEF CoreInv
  <2> QED
    BY <1>2, <2>1, MachineSizes DEF Address
<1>4. ctrlc_count' = 3 <=> ctrlc_count' > 2
  <2>1. ctrlc_count \in 0 .. 2
    BY DEF CoreInv
  <2>2. ctrlc_count' \in {ctrlc_count + 1, ctrlc_count, 0}
    BY DEF Deliver
  <2> QED
    BY <2>1, <2>2
<1>5. /\ ctrlc' = (ch = CTRL_C) /\ UNCHANGED console
      /\ ctrlc_count' = IF ch = CTRL_C THEN ctrlc_count + 1 ELSE IF ch = -1 THEN ctrlc_count ELSE 0
  BY DEF Deliver
<1>6. IF b >= 0 THEN /\ code' = [code EXCEPT ![b] = ch] /\ pc' = pc + 3
                     /\ status' = IF ctrlc_count' = 3 THEN "stopped" ELSE "running"
      ELSE status' = "undefined" /\ UNCHANGED <<code, pc>>
  BY <1>3, <1>4 DEF Deliver
<1>7. Machine!Read
  BY <1>1, <1>2, <1>5, <1>6 DEF Machine!Read, Machine!Decoded
<1> QED
  BY <1>7 DEF Machine!Next

LEMMA ReturnSimulates ==
    ASSUME CoreInv, Return, Head(answers).to = Asked
    PROVE  [Machine!Next]_(Machine!vars)
<1>0. /\ status = "running" /\ Waits /\ code[pc] >= 0 /\ b >= 0
  BY DEF CoreInv, Return
<1>1. Head(answers) = Answer /\ Difference \in Int
  <2>1. PICK r \in Results : r = Head(answers)
    BY AnswerIsWord
  <2>2. r.to.a = code[code[pc]] /\ r.to.b = code[b]
    BY <2>1 DEF Asked
  <2>3. r.c = Difference /\ r.is_jmp = (Difference <= 0) /\ r.c \in Word
    BY <2>2 DEF Results, Difference
  <2>4. r = [c |-> r.c, is_jmp |-> r.is_jmp, to |-> r.to]
    BY DEF Results
  <2>5. r = Answer
    BY <2>1, <2>3, <2>4 DEF Answer
  <2> QED
    BY <2>1, <2>3, <2>5, WordsAre
<1>2. /\ Machine!Address = Address /\ Machine!a = code[pc] /\ Machine!b = b /\ Machine!c = code[pc + 2]
  BY <1>0 DEF Machine!Address, Address, Machine!a, Machine!b, Machine!c, Waits
<1>3. Machine!Minus(code[b], code[code[pc]]) = Difference
  BY DEF Machine!Minus, Machine!Wrap, Difference, Wrap
<1>4. Answer.c = Difference /\ (Jumps(Answer) <=> ~(Difference > 0))
  <2>1. Answer.c = Difference /\ (Jumps(Answer) <=> Difference <= 0)
    BY Zenon DEF Answer, Jumps
  <2>2. \A z \in Int : z <= 0 <=> ~(z > 0)
    OBVIOUS
  <2> QED
    BY <1>1, <2>1, <2>2
<1>5. /\ code' = IF b < TABLE THEN [code EXCEPT ![b] = Difference] ELSE code
      /\ IF Difference > 0 THEN pc' = pc + 3 /\ UNCHANGED status
         ELSE IF code[pc + 2] = -1 THEN status' = "halted" /\ UNCHANGED pc
         ELSE pc' = code[pc + 2] /\ UNCHANGED status
      /\ UNCHANGED <<ctrlc, ctrlc_count, console>>
  BY <1>1, <1>4 DEF Return, Stores
<1>6. Machine!Decoded
  BY <1>0, <1>2 DEF Machine!Decoded, Waits
<1>7. Machine!Subtract
  BY <1>0, <1>2, <1>3, <1>5, <1>6 DEF Machine!Subtract
<1> QED
  BY <1>7 DEF Machine!Next, Machine!Compute

LEMMA StepSimulates ==
    ASSUME CoreInv, [Next]_vars
    PROVE  [Machine!Next \/ StrayJump \/ OthersAnswer]_(Machine!vars)
<1>1. CASE UNCHANGED vars
  BY <1>1 DEF vars, Machine!vars
<1>2. CASE Execute
  BY <1>2, ExecuteSimulates
<1>3. CASE Input
  <2>1. PICK key \in Keys : Deliver(key, b, pc)
    BY <1>3 DEF Input
  <2> QED
    BY <1>3, <2>1, InputSimulates DEF Input
<1>4. CASE Sigint /\ ~StrayJump
  <2>1. status = "running" /\ at = "input" /\ Deliver(CTRL_C, b, pc)
    BY <1>4 DEF Sigint, StrayJump
  <2> QED
    BY <2>1, InputSimulates
<1>5. CASE Serve
  BY <1>5 DEF Serve, Machine!vars
<1>6. CASE Return /\ ~OthersAnswer
  BY <1>6, ReturnSimulates DEF OthersAnswer
<1> QED
  BY <1>1, <1>2, <1>3, <1>4, <1>5, <1>6 DEF Next
-----------------------------------------------------------------------------
\* Ctrl-C is pressed at an armed prompt: memory stays an array of words, and
\* neither pc nor b nor the count of Ctrl-Cs leaves its range, whatever the
\* program that runs.
THEOREM TypeCorrect == ASSUME SignalAt = "prompt" PROVE Spec => []TypeOK
<1>1. VmInv => TypeOK
  BY DEF VmInv
<1> QED
  BY InitVm, StepKeepsVm, <1>1, PTL DEF Spec

\* What the loop stores and jumps by is the server's answer to the operands of
\* the instruction it is at.
THEOREM ResultsAreOwn == ASSUME SignalAt = "prompt" PROVE Spec => OwnResult
<1> DEFINE Own == (at = "recv" /\ at' = "fetch" /\ ctrlc_count' = ctrlc_count) =>
                     Head(answers).to = [a |-> code[code[pc]], b |-> code[b]]
<1>1. ASSUME VmInv, [Next]_vars PROVE [Own]_vars
  <2>1. SUFFICES ASSUME Next, at = "recv", at' = "fetch" PROVE Head(answers).to = Asked
    BY <1>1 DEF Asked
  <2>2. Return
    BY <2>1 DEF Next, Execute, Input, Sigint, Serve
  <2>3. Head(answers) = Answer
    BY <1>1, <2>2, AnswerIs
  <2> QED
    BY <2>3 DEF Answer
<1>2. Spec => [][Own]_vars
  BY InitVm, StepKeepsVm, <1>1, PTL DEF Spec
<1> QED
  BY <1>2 DEF OwnResult

\* Wherever Ctrl-C strikes and whatever siglongjmp() leaves in the locals, the
\* loop with its flash server takes only steps of the machine that subtracts by
\* itself, its own stray jump and the return with another request's answer aside.
THEOREM ImplementsMachine ==
    Spec => Machine!Init /\ [][Machine!Next \/ StrayJump \/ OthersAnswer]_(Machine!vars)
<1>1. Init => Machine!Init
  BY DEF Init, Machine!Init
<1> QED
  BY InitCore, StepKeepsCore, StepSimulates, <1>1, PTL DEF Spec

\* Pressed at an armed prompt, with a jump that finds the locals as they were
\* (C does not promise it), Ctrl-C is an input like any other, and every answer
\* that returns is to the instruction that waits (safety; TLC checks that it goes on).
THEOREM PromptImplementsMachine ==
    ASSUME SignalAt = "prompt", Locals = {"current"}
    PROVE  Spec => Machine!Init /\ [][Machine!Next]_(Machine!vars)
<1>1. Init => Machine!Init
  BY DEF Init, Machine!Init
<1>2. ASSUME VmInv, CoreInv, [Next]_vars PROVE [Machine!Next]_(Machine!vars)
  <2>1. ~StrayJump
    BY DEF StrayJump, Sigint
  <2>2. ~OthersAnswer
    BY <1>2, AnswerIs DEF OthersAnswer, Answer
  <2> QED
    BY <1>2, <2>1, <2>2, StepSimulates
<1> QED
  BY InitVm, InitCore, StepKeepsVm, StepKeepsCore, <1>1, <1>2, PTL DEF Spec
=============================================================================
