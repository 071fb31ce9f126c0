--------------------------- MODULE NandCpuProofs ---------------------------
(***************************************************************************)
(* Theorems about NandCpu for every microprogram of the shape that         *)
(* RomAssumption states, every device size, every set of batches and       *)
(* whatever fails; and, in the second half, for the microprogram that      *)
(* RomImage generates, for every word width.                               *)
(***************************************************************************)
EXTENDS NandCpu, FiniteSetTheorems, TLAPS

(* Arithmetic of ROM pages. *)

LEMMA DivMod ==
    ASSUME NEW W \in Nat \ {0}, NEW p \in Nat
    PROVE  /\ p \div W \in Nat
           /\ p % W \in 0 .. W - 1
           /\ p = ((p \div W) * W) + (p % W)
OBVIOUS

LEMMA DivModUnique ==
    ASSUME NEW W \in Nat \ {0}, NEW q \in Nat, NEW r \in 0 .. W - 1
    PROVE  ((q * W) + r) \div W = q /\ ((q * W) + r) % W = r
OBVIOUS

LEMMA DivMonotone ==
    ASSUME NEW W \in Nat \ {0}, NEW p \in Nat, NEW n \in Nat, p <= n
    PROVE  p \div W <= n \div W
OBVIOUS

LEMMA DivBound ==
    ASSUME NEW W \in Nat \ {0}, NEW q \in Nat, NEW n \in Nat, q <= n \div W
    PROVE  q * W <= n
OBVIOUS

LEMMA ModWrap ==
    ASSUME NEW L \in Nat \ {0}, NEW i \in 1 .. L
    PROVE  i % L = IF i = L THEN 0 ELSE i
OBVIOUS

\* A page of the ROM has at least one word.
LEMMA WordsType == WORDS \in Nat \ {0}
BY GeometryAssumption DEF WORDS

\* The image is not empty and its words have a successor in the image.
LEMMA RomType ==
    /\ Len(Rom) \in Nat \ {0}
    /\ \A i \in 1 .. Len(Rom) : Rom[i] \in Instruction /\ Rom[i].next \in 0 .. Len(Rom) - 1
<1>1. Len(Rom) \in Nat \ {0}
  BY RomAssumption
<1>2. \A i \in 1 .. Len(Rom) : Rom[i] \in Instruction
  BY RomAssumption
<1>3. \A i \in 1 .. Len(Rom) : Rom[i].next \in 0 .. Len(Rom) - 1
  BY <1>1, RomAssumption, ModWrap
<1> QED
  BY <1>1, <1>2, <1>3
-----------------------------------------------------------------------------
(* Shifting a register *)

LEMMA ShiftType ==
    ASSUME NEW w \in Word, NEW v \in BOOLEAN
    PROVE  Shift(w, v) \in Word
<1>1. w \in Seq(BOOLEAN) /\ Len(w) = DIGIT
  BY GeometryAssumption DEF Word
<1>2. Tail(w) \in Seq(BOOLEAN) /\ Len(Tail(w)) = DIGIT - 1
  BY <1>1, GeometryAssumption
<1>3. Append(Tail(w), v) \in Seq(BOOLEAN) /\ Len(Append(Tail(w), v)) = DIGIT
  BY <1>2, GeometryAssumption
<1>4. \A s \in Seq(BOOLEAN) : s \in [1 .. Len(s) -> BOOLEAN]
  OBVIOUS
<1>5. Append(Tail(w), v) \in [1 .. DIGIT -> BOOLEAN]
  BY <1>3, <1>4
<1> QED
  BY <1>5 DEF Shift, Word
-----------------------------------------------------------------------------
(* Fetching *)

\* Operands are where the opcode says.
LEMMA OperandTypes ==
    ASSUME NEW w \in Instruction
    PROVE  /\ w.from \in Cells
           /\ w.code \notin {"PUSH_OUT", "RAISE"} => w.dest \in Cells
           /\ w.code \in {"PUSH_OUT", "RAISE"} => w.dest \in Nat
           /\ w.code # "ZERO" /\ w.code # "ERASED"
BY DEF Instruction

\* The word of a buffer that holds a page of the image, and its successor.
LEMMA DecodedWord ==
    ASSUME NEW b \in 0 .. (Len(Rom) - 1) \div WORDS, NEW r \in 0 .. WORDS - 1,
           r = pc % WORDS, (b * WORDS) + r < Len(Rom)
    PROVE  LET w == Rom[(b * WORDS) + r + 1]
           IN  /\ Decoded(b) = w
               /\ b = w.next \div WORDS \/ w.next % WORDS = 0
<1> DEFINE L == Len(Rom)  W == WORDS  i == (b * W) + r + 1
<1>0. L \in Nat \ {0} /\ W \in Nat \ {0} /\ b \in Nat
  BY RomType, WordsType, DivMod
<1>1. b * W \in Nat
  BY <1>0
<1>2. i \in 1 .. L
  BY <1>0, <1>1
<1>3. Decoded(b) = Rom[i]
  <2>1. Rom[((b * W) + r) + 1] = Rom[i]
    BY <1>1
  <2> QED
    BY <1>0, <2>1 DEF Decoded
<1>4. Rom[i].next = i % L
  BY <1>2, RomAssumption
<1>5. b = Rom[i].next \div W \/ Rom[i].next % W = 0
  <2>1. CASE i = L
    <3>1. Rom[i].next = 0
      BY <2>1, <1>0, <1>2, <1>4, ModWrap
    <3>2. 0 % W = 0
      BY <1>0
    <3> QED
      BY <3>1, <3>2
  <2>2. CASE i # L /\ r + 1 < W
    <3>1. Rom[i].next = i
      BY <2>2, <1>0, <1>2, <1>4, ModWrap
    <3>2. i = (b * W) + (r + 1)
      BY <1>0, <1>1
    <3>3. r + 1 \in 0 .. W - 1
      BY <2>2, <1>0
    <3>4. ((b * W) + (r + 1)) \div W = b
      BY <1>0, <3>3, DivModUnique
    <3> QED
      BY <3>1, <3>2, <3>4
  <2>3. CASE i # L /\ r + 1 = W
    <3>1. Rom[i].next = i
      BY <2>3, <1>0, <1>2, <1>4, ModWrap
    <3>2. i = ((b + 1) * W) + 0
      <4>1. (b + 1) * W = (b * W) + W
        BY <1>0
      <4> QED
        BY <2>3, <1>0, <1>1, <4>1
    <3>3. 0 \in 0 .. W - 1 /\ b + 1 \in Nat
      BY <1>0
    <3>4. (((b + 1) * W) + 0) % W = 0
      BY <1>0, <3>3, DivModUnique
    <3> QED
      BY <3>1, <3>2, <3>4
  <2> QED
    BY <2>1, <2>2, <2>3, <1>0
<1> QED
  BY <1>3, <1>5

\* What a fetch returns: a word of the image, or the blank one that leads back
\* to it; and with no failed read the word at pc.
LEMMA FetchResult ==
    ASSUME TypeOK, PageLoaded, NEW fetch \in Fetched
    PROVE  /\ fetch.buffer \in -1 .. (Len(Rom) - 1) \div WORDS
           /\ fetch.failed \in {{}, {"romread"}}
           /\ \/ fetch.word.code = "ZERO"
              \/ fetch.word \in Instruction /\ \E i \in 1 .. Len(Rom) : fetch.word = Rom[i]
           /\ fetch.word.next \in 0 .. Len(Rom) - 1
           /\ fetch.buffer = fetch.word.next \div WORDS \/ fetch.word.next % WORDS = 0
           /\ fetch.failed = {} => fetch.word = Rom[pc + 1]
<1> DEFINE L == Len(Rom)  W == WORDS  b == fetch.buffer  r == pc % W
<1>0. /\ L \in Nat \ {0} /\ W \in Nat \ {0}
      /\ pc \in 0 .. L - 1 /\ pc \in Nat /\ L - 1 \in Nat
      /\ romPage \in -1 .. (L - 1) \div W
  BY RomType, WordsType DEF TypeOK, ControlType
<1>1. /\ pc \div W \in Nat /\ r \in 0 .. W - 1 /\ pc = ((pc \div W) * W) + r
      /\ pc \div W <= (L - 1) \div W /\ (L - 1) \div W \in Nat
  <2>1. pc \div W \in Nat /\ r \in 0 .. W - 1 /\ pc = ((pc \div W) * W) + r
    BY <1>0, DivMod
  <2>2. (L - 1) \div W \in Nat
    BY <1>0, DivMod
  <2>3. pc <= L - 1
    BY <1>0
  <2>4. pc \div W <= (L - 1) \div W
    BY <1>0, <2>3, DivMonotone
  <2> QED
    BY <2>1, <2>2, <2>4
<1>2. Refilled = pc \div W
  BY <1>0 DEF Refilled, PageLoaded
<1>3. /\ fetch.word = Decoded(b)
      /\ \/ b = pc \div W /\ fetch.failed = {}
         \/ b = romPage /\ r = 0 /\ fetch.failed = {"romread"}
  <2>1. PICK c \in {Refilled} \cup (IF pc % W = 0 /\ May("romread") THEN {romPage} ELSE {}) :
            fetch = [buffer |-> c, word |-> Decoded(c),
                     failed |-> IF c = Refilled THEN {} ELSE {"romread"}]
    BY DEF Fetched
  <2> QED
    BY <2>1, <1>2
<1>4. CASE b = -1
  <2>1. fetch.word = [code |-> "ZERO", next |-> 0]
    BY <1>3, <1>4 DEF Decoded
  <2>2. 0 % W = 0
    BY <1>0
  <2>3. fetch.failed = {"romread"}
    BY <1>1, <1>3, <1>4
  <2> QED
    BY <1>0, <1>1, <1>4, <2>1, <2>2, <2>3
<1>5. CASE b # -1
  <2>1. b \in 0 .. (L - 1) \div W
    BY <1>0, <1>1, <1>3, <1>5
  <2>2. (b * W) + r < L
    <3>1. CASE b = pc \div W
      BY <1>0, <1>1, <3>1
    <3>2. CASE r = 0
      <4>1. b \in Nat /\ b <= (L - 1) \div W
        BY <1>1, <2>1
      <4>2. b * W <= L - 1
        BY <1>0, <4>1, DivBound
      <4>3. b * W \in Nat
        BY <1>0, <4>1
      <4> QED
        BY <1>0, <3>2, <4>2, <4>3
    <3> QED
      BY <1>3, <3>1, <3>2
  <2> DEFINE i == (b * W) + r + 1
  <2>3. /\ Decoded(b) = Rom[i]
        /\ b = Rom[i].next \div W \/ Rom[i].next % W = 0
    BY <1>1, <2>1, <2>2, DecodedWord
  <2>4. i \in 1 .. L
    <3>1. b * W \in Nat
      BY <1>0, <1>1, <2>1
    <3> QED
      BY <1>0, <1>1, <2>2, <3>1
  <2>5. Rom[i] \in Instruction /\ Rom[i].next \in 0 .. L - 1
    BY <2>4, RomType
  <2>6. ASSUME fetch.failed = {} PROVE i = pc + 1
    <3>1. b = pc \div W
      BY <1>3, <2>6
    <3> QED
      BY <1>0, <1>1, <3>1
  <2>7. fetch.failed \in {{}, {"romread"}}
    BY <1>3
  <2> QED
    BY <1>3, <2>1, <2>3, <2>4, <2>5, <2>6, <2>7
<1> QED
  BY <1>4, <1>5
-----------------------------------------------------------------------------
(* What every instruction does to the control of the round *)

LEMMA FailedType ==
    ASSUME NEW failed \in SUBSET FaultKinds
    PROVE  Cardinality(failed) \in Nat
<1>1. IsFiniteSet(FaultKinds)
  <2>1. IsFiniteSet({"romread"}) /\ IsFiniteSet({"read"})
        /\ IsFiniteSet({"write"}) /\ IsFiniteSet({"erase"})
    BY FS_Singleton
  <2>2. FaultKinds = ({"romread"} \cup {"read"}) \cup ({"write"} \cup {"erase"})
    BY DEF FaultKinds
  <2> QED
    BY <2>1, <2>2, FS_Union
<1> QED
  BY <1>1, FS_Subset, FS_CardinalityType

\* Only the last word ends the round, so a round without failures cannot run
\* out of the words the loop allows it before it gets there.
LEMMA AdvanceControl ==
    ASSUME TypeOK, PageLoaded, InStep, serving,
           NEW fetch \in Fetched, NEW failed \in SUBSET FaultKinds, NEW raised \in BOOLEAN,
           fetch.failed \subseteq failed,
           raised <=> LastRaise(fetch.word),
           Advance(fetch, failed, raised)
    PROVE  /\ ControlType' /\ PageLoaded' /\ InStep'
           /\ ~serving' /\ since' >= 1 => raised /\ pc' = 0
<1> DEFINE L == Len(Rom)
<1>0. L \in Nat \ {0} /\ pc \in 0 .. L - 1 /\ ran \in 0 .. L - 1 /\ since \in 0 .. 2
  BY RomType DEF TypeOK, ControlType, InStep
<1>1. ControlType'
  <2>1. pc' \in 0 .. L - 1 /\ romPage' \in -1 .. (L - 1) \div WORDS
    BY FetchResult DEF Advance
  <2>2. signal' \in BOOLEAN /\ serving' \in BOOLEAN /\ ran' \in 0 .. L
    BY <1>0 DEF Advance
  <2>3. faults' \in 0 .. MaxFaults
    BY FailedType, CpuAssumption DEF Advance, TypeOK, ControlType
  <2>4. since' \in 0 .. 2
    BY <1>0 DEF Advance
  <2> QED
    BY <2>1, <2>2, <2>3, <2>4 DEF Advance, TypeOK, ControlType
<1>2. PageLoaded'
  BY FetchResult DEF Advance, PageLoaded
<1>3. ASSUME since' >= 1
      PROVE  /\ since' = since /\ ran <= pc
             /\ pc' = IF raised THEN 0 ELSE pc + 1
             /\ ~raised => pc + 1 < L
             /\ since = 2 => ran = pc
  <2>1. failed \subseteq {"erase"} /\ since' = since
    <3>1. since' = IF failed = {} \/ (raised /\ failed = {"erase"}) THEN since ELSE 0
      BY DEF Advance
    <3>2. failed = {} \/ (raised /\ failed = {"erase"})
      BY <1>3, <3>1
    <3> QED
      BY <3>1, <3>2
  <2>2. fetch.failed = {}
    BY <2>1, FetchResult
  <2>3. fetch.word = Rom[pc + 1] /\ pc + 1 \in 1 .. L
    BY <1>0, <2>2, FetchResult
  <2>4. raised <=> pc + 1 = L
    BY <2>3, RomAssumption
  <2>5. pc' = (pc + 1) % L
    BY <2>3, RomAssumption DEF Advance
  <2>6. pc' = IF pc + 1 = L THEN 0 ELSE pc + 1
    BY <1>0, <2>3, <2>5, ModWrap
  <2> QED
    BY <1>0, <1>3, <2>1, <2>3, <2>4, <2>6 DEF InStep
<1>4. InStep'
  <2>1. ASSUME serving' PROVE ~raised /\ ran + 1 < L /\ ran' = ran + 1
    BY <2>1 DEF Advance
  <2>2. ASSUME serving', since' >= 1 PROVE ran' <= pc'
    BY <1>0, <1>3, <2>1, <2>2
  <2>3. ASSUME serving', since' = 2 PROVE ran' = pc'
    <3>1. since' >= 1
      BY <2>3
    <3> QED
      BY <1>0, <1>3, <2>1, <2>3, <3>1
  <2> QED
    BY <2>1, <2>2, <2>3 DEF InStep
<1>5. ASSUME ~serving', since' >= 1 PROVE raised /\ pc' = 0
  <2>1. raised \/ ran + 1 >= L
    <3>1. serving' = (~raised /\ ran + 1 < L)
      BY DEF Advance
    <3>2. ~(~raised /\ ran + 1 < L)
      BY <1>5, <3>1, Zenon
    <3> QED
      BY <1>0, <3>2
  <2>2. /\ ran <= pc /\ (~raised => pc + 1 < L)
        /\ pc' = IF raised THEN 0 ELSE pc + 1
    BY <1>3, <1>5
  <2>3. raised
    BY <1>0, <2>1, <2>2
  <2> QED
    BY <2>2, <2>3
<1> QED
  BY <1>1, <1>2, <1>4, <1>5
-----------------------------------------------------------------------------
(* What the instructions do to the data *)

LEMMA BlankType == Blank \in [Cells -> Byte]
BY DEF Blank, Byte

LEMMA EditBufType ==
    ASSUME DataType, NEW c \in Cells, NEW v \in Byte
    PROVE  EditBuf(c, v) \in [Cells -> Byte]
BY BlankType DEF EditBuf, DataType

LEMMA ReplicateType == \A v \in BOOLEAN : Replicate(v) \in Byte
BY DEF Replicate, Byte

\* The lane that GET_IN feeds exists, whatever the counter says.
LEMMA GetInLaneType ==
    ASSUME DataType
    PROVE  /\ GetInLane \in Lane
           /\ inA[GetInLane] \in Word /\ inA[GetInLane][1] \in BOOLEAN
           /\ inB[GetInLane] \in Word /\ inB[GetInLane][1] \in BOOLEAN
<1>1. getinCnt \div DIGIT \in Nat
  BY GeometryAssumption, DivMod DEF DataType
<1>2. GetInLane \in Lane
  BY <1>1, GeometryAssumption DEF GetInLane, Lane
<1>3. 1 \in 1 .. DIGIT
  BY GeometryAssumption
<1> QED
  BY <1>2, <1>3 DEF DataType, Word

LEMMA ProgramType ==
    ASSUME TypeOK
    PROVE  /\ Programmed \in [Page -> [Cells -> Byte]]
           /\ \A left \in Partials : PartlyProgrammed(left) \in [Page -> [Cells -> Byte]]
           /\ \A fl \in [Page -> [Cells -> Byte]] : ReadBack(fl) \in [Cells -> Byte]
<1>1. flash \in [Page -> [Cells -> Byte]] /\ cur \in Page
  BY DEF TypeOK, DataType
<1>2. \A b \in Byte : Sensed(b) \in Byte
  BY CpuAssumption DEF TypeOK, ControlType, Sensed, Byte
<1>3. ASSUME NEW buf PROVE [flash EXCEPT ![cur] = [c \in Cells |-> flash[cur][c] \cap buf[c]]] \in [Page -> [Cells -> Byte]]
  <2>1. [c \in Cells |-> flash[cur][c] \cap buf[c]] \in [Cells -> Byte]
    BY <1>1 DEF Byte
  <2> QED
    BY <1>1, <2>1
<1>4. Programmed \in [Page -> [Cells -> Byte]]
  BY <1>3 DEF Programmed
<1>5. ASSUME NEW left \in Partials PROVE PartlyProgrammed(left) \in [Page -> [Cells -> Byte]]
  <2>1. [c \in Cells |-> flash[cur][c] \cap (page[c] \cup left[c])] \in [Cells -> Byte]
    BY <1>1 DEF Byte
  <2> QED
    BY <1>1, <2>1 DEF PartlyProgrammed
<1> QED
  BY <1>1, <1>2, <1>4, <1>5 DEF ReadBack

\* The other pages are not touched, and a failed program programs a part of what a
\* successful one does.
LEMMA ProgramOthers ==
    ASSUME TypeOK, flash' = Programmed \/ \E left \in Partials : flash' = PartlyProgrammed(left)
    PROVE  /\ \A p \in Page : p # cur => flash'[p] = flash[p]
           /\ \A c \in Cells : flash[cur][c] \cap page[c] \subseteq flash'[cur][c]
BY DEF TypeOK, DataType, Programmed, PartlyProgrammed

LEMMA LaneType == \A d \in Nat : d % LANES \in Lane
BY GeometryAssumption, DivMod DEF Lane

LEMMA VoteType == \A S : majorityVote(S) \in BOOLEAN
BY DEF majorityVote

\* The pages that are blank stay blank as long as only the current one is
\* programmed, and all pages are after an erase.
LEMMA KeepsPages ==
    ASSUME IInv, UNCHANGED <<cur, flash, eraseOk>>, ~(~serving' /\ since' >= 1)
    PROVE  BlankAhead' /\ AtRest'
BY DEF IInv, BlankAhead, AtRest

LEMMA ErasesPages ==
    ASSUME IInv, Erased, ~serving' /\ since' >= 1 => pc' = 0
    PROVE  /\ BlankAhead' /\ AtRest'
           /\ cur' \in Page /\ page' \in [Cells -> Byte] /\ eraseOk' \in BOOLEAN
           /\ flash' \in [Page -> [Cells -> Byte]]
<1>1. 0 \in Page
  BY CpuAssumption DEF Page
<1> QED
  BY <1>1, BlankType DEF Erased, BlankAhead, AtRest

LEMMA FailsToErase ==
    ASSUME IInv, EraseFailed, ~serving' /\ since' >= 1 => pc' = 0
    PROVE  /\ BlankAhead' /\ AtRest'
           /\ cur' \in Page /\ page' \in [Cells -> Byte] /\ eraseOk' \in BOOLEAN
           /\ flash' \in [Page -> [Cells -> Byte]]
<1>1. 0 \in Page
  BY CpuAssumption DEF Page
<1>2. flash' \in [Page -> [Cells -> Byte]]
  BY BlankType DEF IInv, TypeOK, DataType, EraseFailed
<1> QED
  BY <1>1, <1>2, BlankType DEF EraseFailed, BlankAhead, AtRest
-----------------------------------------------------------------------------
(* Each instruction preserves the invariant *)

\* What an instruction fetched in an execution loop may rely on.
LEMMA FetchedOperands ==
    ASSUME IInv, NEW fetch \in Fetched, fetch.word.code # "ZERO"
    PROVE  /\ fetch.word.from \in Cells
           /\ fetch.word.code \notin {"PUSH_OUT", "RAISE"} => fetch.word.dest \in Cells
           /\ fetch.word.code \in {"PUSH_OUT", "RAISE"} => fetch.word.dest \in Nat
<1>1. TypeOK /\ PageLoaded
  BY DEF IInv
<1>2. fetch.word \in Instruction
  BY <1>1, FetchResult
<1> QED
  BY <1>2, OperandTypes

\* An instruction other than the last RAISE leaves the round running, unless
\* something failed in it.
LEMMA AdvanceQuietly ==
    ASSUME IInv, serving, NEW fetch \in Fetched, NEW failed \in SUBSET FaultKinds,
           ~LastRaise(fetch.word), Advance(fetch, fetch.failed \cup failed, FALSE)
    PROVE  ControlType' /\ PageLoaded' /\ InStep' /\ ~(~serving' /\ since' >= 1)
<1>1. TypeOK /\ PageLoaded /\ InStep
  BY DEF IInv
<1>2. fetch.failed \cup failed \in SUBSET FaultKinds
  BY <1>1, FetchResult DEF FaultKinds
<1> QED
  BY <1>1, <1>2, AdvanceControl

LEMMA AdvanceSilently ==
    ASSUME IInv, serving, NEW fetch \in Fetched,
           ~LastRaise(fetch.word), Advance(fetch, fetch.failed, FALSE)
    PROVE  ControlType' /\ PageLoaded' /\ InStep' /\ ~(~serving' /\ since' >= 1)
<1>1. fetch.failed = fetch.failed \cup {} /\ {} \in SUBSET FaultKinds
  OBVIOUS
<1> QED
  BY <1>1, AdvanceQuietly

LEMMA BlankRomKeepsIInv == ASSUME IInv, BlankRom PROVE IInv'
<1>1. PICK fetch \in Fetched : /\ Executes("ZERO", fetch)
                               /\ Advance(fetch, fetch.failed, FALSE)
                               /\ UNCHANGED <<page, pre, cur, regs, flash, eraseOk>>
  BY DEF BlankRom
<1>2. ControlType' /\ PageLoaded' /\ InStep' /\ ~(~serving' /\ since' >= 1)
  BY <1>1, AdvanceSilently DEF Executes, LastRaise
<1>3. DataType'
  BY <1>1 DEF IInv, TypeOK, DataType, regs
<1> QED
  BY <1>1, <1>2, <1>3, KeepsPages DEF IInv, TypeOK

LEMMA MovKeepsIInv == ASSUME IInv, Mov PROVE IInv'
<1>1. PICK fetch \in Fetched :
          /\ Executes("MOV", fetch)
          /\ page' = EditBuf(fetch.word.dest, page[fetch.word.from])
          /\ pre' = cur
          /\ Advance(fetch, fetch.failed, FALSE)
          /\ UNCHANGED <<cur, regs, flash, eraseOk>>
  BY DEF Mov
<1>2. ControlType' /\ PageLoaded' /\ InStep' /\ ~(~serving' /\ since' >= 1)
  BY <1>1, AdvanceSilently DEF Executes, LastRaise
<1>3. fetch.word.dest \in Cells /\ fetch.word.from \in Cells
  BY <1>1, FetchedOperands DEF Executes
<1>4. DataType
  BY DEF IInv, TypeOK
<1>5. page[fetch.word.from] \in Byte
  BY <1>3, <1>4 DEF DataType
<1>6. page' \in [Cells -> Byte]
  BY <1>1, <1>3, <1>4, <1>5, EditBufType
<1>7. pre' \in -1 .. NPages - 1 /\ UNCHANGED <<cur, regs, flash, eraseOk>>
  BY <1>1, <1>4 DEF DataType, Page
<1>8. DataType'
  BY <1>4, <1>6, <1>7 DEF DataType, regs
<1> QED
  BY <1>2, <1>7, <1>8, KeepsPages DEF IInv, TypeOK

LEMMA InvMovKeepsIInv == ASSUME IInv, InvMov PROVE IInv'
<1>1. PICK fetch \in Fetched :
          /\ Executes("INV_MOV", fetch)
          /\ page' = EditBuf(fetch.word.dest, Inverted(page[fetch.word.from]))
          /\ pre' = cur
          /\ Advance(fetch, fetch.failed, FALSE)
          /\ UNCHANGED <<cur, regs, flash, eraseOk>>
  BY DEF InvMov
<1>2. ControlType' /\ PageLoaded' /\ InStep' /\ ~(~serving' /\ since' >= 1)
  BY <1>1, AdvanceSilently DEF Executes, LastRaise
<1>3. fetch.word.dest \in Cells
  BY <1>1, FetchedOperands DEF Executes
<1>4. DataType
  BY DEF IInv, TypeOK
<1>5. Inverted(page[fetch.word.from]) \in Byte
  BY DEF Byte, Inverted
<1>6. page' \in [Cells -> Byte]
  BY <1>1, <1>3, <1>4, <1>5, EditBufType
<1>7. pre' \in -1 .. NPages - 1 /\ UNCHANGED <<cur, regs, flash, eraseOk>>
  BY <1>1, <1>4 DEF DataType, Page
<1>8. DataType'
  BY <1>4, <1>6, <1>7 DEF DataType, regs
<1> QED
  BY <1>2, <1>7, <1>8, KeepsPages DEF IInv, TypeOK

LEMMA CapInKeepsIInv == ASSUME IInv, CapIn PROVE IInv'
<1>1. PICK fetch \in Fetched :
          /\ Executes("CAP_IN", fetch)
          /\ getinCnt' = 0
          /\ Advance(fetch, fetch.failed, FALSE)
          /\ UNCHANGED <<page, pre, cur, inA, inB, out, isJmp, flash, eraseOk>>
  BY DEF CapIn
<1>2. ControlType' /\ PageLoaded' /\ InStep' /\ ~(~serving' /\ since' >= 1)
  BY <1>1, AdvanceSilently DEF Executes, LastRaise
<1>3. DataType'
  BY <1>1 DEF IInv, TypeOK, DataType
<1> QED
  BY <1>1, <1>2, <1>3, KeepsPages DEF IInv, TypeOK

LEMMA GetInKeepsIInv == ASSUME IInv, GetIn PROVE IInv'
<1>1. PICK fetch \in Fetched :
          /\ Executes("GET_IN", fetch)
          /\ getinCnt' = getinCnt + 1
          /\ page' = [EditBuf(fetch.word.from, Replicate(inA[GetInLane][1]))
                         EXCEPT ![fetch.word.dest] = Replicate(inB[GetInLane][1])]
          /\ pre' = cur
          /\ inA' = [inA EXCEPT ![GetInLane] = Shift(inA[GetInLane], FALSE)]
          /\ inB' = [inB EXCEPT ![GetInLane] = Shift(inB[GetInLane], FALSE)]
          /\ Advance(fetch, fetch.failed, FALSE)
          /\ UNCHANGED <<cur, out, isJmp, flash, eraseOk>>
  BY DEF GetIn
<1>2. ControlType' /\ PageLoaded' /\ InStep' /\ ~(~serving' /\ since' >= 1)
  BY <1>1, AdvanceSilently DEF Executes, LastRaise
<1>3. fetch.word.dest \in Cells /\ fetch.word.from \in Cells
  BY <1>1, FetchedOperands DEF Executes
<1>4. DataType
  BY DEF IInv, TypeOK
<1>5. /\ GetInLane \in Lane
      /\ Replicate(inA[GetInLane][1]) \in Byte /\ Replicate(inB[GetInLane][1]) \in Byte
      /\ Shift(inA[GetInLane], FALSE) \in Word /\ Shift(inB[GetInLane], FALSE) \in Word
  BY <1>4, GetInLaneType, ReplicateType, ShiftType
<1>6. page' \in [Cells -> Byte]
  BY <1>1, <1>3, <1>4, <1>5, EditBufType
<1>7. inA' \in [Lane -> Word] /\ inB' \in [Lane -> Word]
  BY <1>1, <1>4, <1>5 DEF DataType
<1>8. /\ pre' \in -1 .. NPages - 1 /\ getinCnt' \in Nat
      /\ UNCHANGED <<cur, out, isJmp, flash, eraseOk>>
  BY <1>1, <1>4 DEF DataType, Page
<1>9. DataType'
  BY <1>4, <1>6, <1>7, <1>8 DEF DataType
<1> QED
  BY <1>2, <1>8, <1>9, KeepsPages DEF IInv, TypeOK

LEMMA PrgNandKeepsIInv == ASSUME IInv, PrgNand PROVE IInv'
<1>1. PICK fetch \in Fetched, failed \in SUBSET (Faults \cap {"write", "read"}) :
          /\ Executes("PRG_NAND", fetch)
          /\ Advance(fetch, fetch.failed \cup failed, FALSE)
          /\ flash' = Programmed \/ \E left \in Partials : flash' = PartlyProgrammed(left)
          /\ page' = ReadBack(flash') \/ page' = page
          /\ UNCHANGED <<pre, cur, regs, eraseOk>>
  BY DEF PrgNand
<1>2. ControlType' /\ PageLoaded' /\ InStep' /\ ~(~serving' /\ since' >= 1)
  <2>1. serving /\ ~LastRaise(fetch.word) /\ failed \in SUBSET FaultKinds
    BY <1>1 DEF Executes, LastRaise, FaultKinds
  <2> QED
    BY <1>1, <2>1, AdvanceQuietly
<1>3. TypeOK /\ DataType /\ BlankAhead
  BY DEF IInv, TypeOK
<1>4. flash' \in [Page -> [Cells -> Byte]]
  BY <1>1, <1>3, ProgramType
<1>5. page' \in [Cells -> Byte]
  BY <1>1, <1>3, <1>4, ProgramType DEF DataType
<1>6. DataType'
  BY <1>1, <1>3, <1>4, <1>5 DEF DataType, regs
<1>7. \A p \in Page : p # cur => flash'[p] = flash[p]
  BY <1>1, <1>3, ProgramOthers
<1>8. BlankAhead'
  <2>1. cur \in Int /\ \A p \in Page : p \in Int
    BY <1>3, CpuAssumption DEF DataType, Page
  <2> QED
    BY <1>1, <1>3, <1>7, <2>1 DEF BlankAhead
<1>9. AtRest'
  BY <1>2 DEF AtRest
<1> QED
  BY <1>2, <1>6, <1>8, <1>9 DEF IInv, TypeOK

LEMMA PushOutKeepsIInv == ASSUME IInv, PushOut PROVE IInv'
<1>1. PICK fetch \in Fetched :
          /\ Executes("PUSH_OUT", fetch)
          /\ out' = [out EXCEPT ![fetch.word.dest % LANES] =
                         Shift(out[fetch.word.dest % LANES], majorityVote(page[fetch.word.from]))]
          /\ Advance(fetch, fetch.failed, FALSE)
          /\ UNCHANGED <<page, pre, cur, getinCnt, inA, inB, isJmp, flash, eraseOk>>
  BY DEF PushOut
<1>2. ControlType' /\ PageLoaded' /\ InStep' /\ ~(~serving' /\ since' >= 1)
  BY <1>1, AdvanceSilently DEF Executes, LastRaise
<1>3. fetch.word.dest \in Nat
  BY <1>1, FetchedOperands DEF Executes
<1>4. DataType
  BY DEF IInv, TypeOK
<1>5. Shift(out[fetch.word.dest % LANES], majorityVote(page[fetch.word.from])) \in Word
  BY <1>3, <1>4, LaneType, VoteType, ShiftType DEF DataType
<1>6. out' \in [Lane -> Word]
  BY <1>1, <1>4, <1>5 DEF DataType
<1>7. UNCHANGED <<page, pre, cur, getinCnt, inA, inB, isJmp, flash, eraseOk>>
  BY <1>1
<1>8. DataType'
  BY <1>4, <1>6, <1>7 DEF DataType
<1> QED
  BY <1>2, <1>7, <1>8, KeepsPages DEF IInv, TypeOK

LEMMA EraseOpKeepsIInv == ASSUME IInv, EraseOp PROVE IInv'
<1>1. PICK fetch \in Fetched :
          /\ Executes("ERASE", fetch)
          /\ \/ Erased /\ Advance(fetch, fetch.failed, FALSE)
             \/ EraseFailed /\ Advance(fetch, fetch.failed \cup {"erase"}, FALSE)
          /\ UNCHANGED <<pre, regs>>
  BY DEF EraseOp
<1>2. ControlType' /\ PageLoaded' /\ InStep' /\ ~(~serving' /\ since' >= 1)
  <2>1. serving /\ ~LastRaise(fetch.word)
    BY <1>1 DEF Executes, LastRaise
  <2>2. {"erase"} \in SUBSET FaultKinds
    BY DEF FaultKinds
  <2>3. CASE Advance(fetch, fetch.failed, FALSE)
    BY <2>1, <2>3, AdvanceSilently
  <2>4. CASE Advance(fetch, fetch.failed \cup {"erase"}, FALSE)
    BY <2>1, <2>2, <2>4, AdvanceQuietly
  <2> QED
    BY <1>1, <2>3, <2>4
<1>3. /\ BlankAhead' /\ AtRest'
      /\ cur' \in Page /\ page' \in [Cells -> Byte] /\ eraseOk' \in BOOLEAN
      /\ flash' \in [Page -> [Cells -> Byte]]
  BY <1>1, <1>2, ErasesPages, FailsToErase
<1>4. UNCHANGED <<pre, regs>>
  BY <1>1
<1>5. DataType'
  BY <1>3, <1>4 DEF IInv, TypeOK, DataType, regs
<1> QED
  BY <1>2, <1>3, <1>5 DEF IInv, TypeOK

\* The end of the round: the next page is erased already, or all of them are.
LEMMA NextPageKeepsIInv ==
    ASSUME IInv, serving, NEW fetch \in Fetched, LastRaise(fetch.word), NextPage(fetch)
    PROVE  /\ ControlType' /\ PageLoaded' /\ InStep' /\ BlankAhead' /\ AtRest'
           /\ cur' \in Page /\ page' \in [Cells -> Byte] /\ eraseOk' \in BOOLEAN
           /\ flash' \in [Page -> [Cells -> Byte]]
<1>1. TypeOK /\ DataType /\ PageLoaded /\ BlankAhead /\ InStep
  BY DEF IInv, TypeOK
<1>2. fetch.failed \in SUBSET FaultKinds /\ fetch.failed \cup {"erase"} \in SUBSET FaultKinds
  BY <1>1, FetchResult DEF FaultKinds
<1>3. Advance(fetch, fetch.failed, TRUE) \/ Advance(fetch, fetch.failed \cup {"erase"}, TRUE)
  BY DEF NextPage
<1>4. /\ ControlType' /\ PageLoaded' /\ InStep'
      /\ ~serving' /\ since' >= 1 => pc' = 0
  <2>1. CASE Advance(fetch, fetch.failed, TRUE)
    BY <1>1, <1>2, <2>1, AdvanceControl
  <2>2. CASE Advance(fetch, fetch.failed \cup {"erase"}, TRUE)
    BY <1>1, <1>2, <2>2, AdvanceControl
  <2> QED
    BY <1>3, <2>1, <2>2
<1>5. CASE /\ cur + 2 <= NPages
           /\ cur' = cur + 1
           /\ UNCHANGED <<page, flash, eraseOk>>
  <2>1. cur' \in Page /\ cur' > cur
    BY <1>1, <1>5, CpuAssumption DEF DataType, Page
  <2>2. eraseOk' => \A p \in Page : p > cur => flash'[p] = Blank
    BY <1>1, <1>5 DEF BlankAhead
  <2>3. BlankAhead'
    <3>1. cur \in Int /\ cur' \in Int /\ \A p \in Page : p \in Int
      BY <1>1, <2>1, CpuAssumption DEF DataType, Page
    <3>2. \A p \in Page : p > cur' => p > cur
      BY <2>1, <3>1
    <3> QED
      BY <2>2, <3>2 DEF BlankAhead
  <2>4. AtRest'
    BY <1>4, <2>1, <2>2 DEF AtRest
  <2> QED
    BY <1>1, <1>4, <1>5, <2>1, <2>3, <2>4 DEF DataType
<1>6. CASE Erased
  BY <1>4, <1>6, ErasesPages
<1>7. CASE EraseFailed
  BY <1>4, <1>7, FailsToErase
<1> QED
  BY <1>5, <1>6, <1>7 DEF NextPage

LEMMA RaiseKeepsIInv == ASSUME IInv, Raise PROVE IInv'
<1>1. PICK fetch \in Fetched :
          /\ Executes("RAISE", fetch)
          /\ isJmp' = [isJmp EXCEPT ![fetch.word.dest % LANES] =
                           majorityVote(page[fetch.word.from])]
          /\ \/ LastRaise(fetch.word) /\ NextPage(fetch)
             \/ /\ ~LastRaise(fetch.word)
                /\ Advance(fetch, fetch.failed, FALSE)
                /\ UNCHANGED <<page, cur, flash, eraseOk>>
          /\ UNCHANGED <<pre, getinCnt, inA, inB, out>>
  BY DEF Raise
<1>2. DataType /\ serving
  BY <1>1 DEF IInv, TypeOK, Executes
<1>3. fetch.word.dest \in Nat
  BY <1>1, FetchedOperands DEF Executes
<1>4. isJmp' \in [Lane -> BOOLEAN]
  BY <1>1, <1>2, <1>3, LaneType, VoteType DEF DataType
<1>5. UNCHANGED <<pre, getinCnt, inA, inB, out>>
  BY <1>1
<1>6. /\ ControlType' /\ PageLoaded' /\ InStep' /\ BlankAhead' /\ AtRest'
      /\ cur' \in Page /\ page' \in [Cells -> Byte] /\ eraseOk' \in BOOLEAN
      /\ flash' \in [Page -> [Cells -> Byte]]
  <2>1. CASE LastRaise(fetch.word) /\ NextPage(fetch)
    BY <1>2, <2>1, NextPageKeepsIInv
  <2>2. CASE /\ ~LastRaise(fetch.word)
             /\ Advance(fetch, fetch.failed, FALSE)
             /\ UNCHANGED <<page, cur, flash, eraseOk>>
    <3>1. ControlType' /\ PageLoaded' /\ InStep' /\ ~(~serving' /\ since' >= 1)
      BY <1>2, <2>2, AdvanceSilently
    <3> QED
      BY <1>2, <2>2, <3>1, KeepsPages DEF DataType
  <2> QED
    BY <1>1, <2>1, <2>2
<1>7. DataType'
  BY <1>2, <1>4, <1>5, <1>6 DEF DataType
<1> QED
  BY <1>6, <1>7 DEF IInv, TypeOK

LEMMA StartKeepsIInv == ASSUME IInv, Start PROVE IInv'
<1>1. /\ ~serving /\ serving' = TRUE /\ ran' = 0
      /\ job' \in Jobs /\ inA' = job'.a /\ inB' = job'.b
      /\ since' = IF ~eraseOk THEN 0 ELSE IF since < 2 THEN since + 1 ELSE 2
      /\ UNCHANGED <<pc, romPage, page, pre, cur, getinCnt, out, isJmp, signal, flash, stuck,
                     eraseOk, faults>>
  BY DEF Start, device
<1>2. ControlType /\ DataType /\ PageLoaded /\ BlankAhead /\ AtRest
  BY DEF IInv, TypeOK
<1>3. ControlType'
  BY <1>1, <1>2, RomType DEF ControlType
<1>4. DataType'
  BY <1>1, <1>2, CpuAssumption DEF DataType
<1>5. PageLoaded' /\ BlankAhead' /\ AtRest'
  BY <1>1, <1>2 DEF PageLoaded, BlankAhead, AtRest
<1>6. InStep'
  <2>1. ran' < Len(Rom) /\ ran' <= pc'
    BY <1>1, <1>2, RomType DEF ControlType
  <2>2. ASSUME since' = 2 PROVE ran' = pc'
    <3>1. since >= 1
      BY <1>1, <1>2, <2>2 DEF ControlType
    <3> QED
      BY <1>1, <1>2, <3>1 DEF AtRest
  <2> QED
    BY <2>1, <2>2 DEF InStep
<1> QED
  BY <1>3, <1>4, <1>5, <1>6 DEF IInv, TypeOK
-----------------------------------------------------------------------------
(* The theorems *)

LEMMA InitIInv == Init => IInv
<1> SUFFICES ASSUME Init PROVE IInv
  OBVIOUS
<1>1. ZeroWord \in Word
  BY DEF ZeroWord, Word
<1>2. 0 \in Page /\ NPages \in Nat \ {0} /\ MaxFaults \in Nat
  BY CpuAssumption DEF Page
<1>3. /\ Len(Rom) \in Nat \ {0} /\ 0 % WORDS = 0
      /\ (Len(Rom) - 1) \div WORDS \in Nat
  <2>1. Len(Rom) \in Nat \ {0} /\ Len(Rom) - 1 \in Nat
    BY RomType
  <2>2. (Len(Rom) - 1) \div WORDS \in Nat
    BY <2>1, WordsType, DivMod
  <2>3. 0 % WORDS = 0
    BY WordsType
  <2> QED
    BY <2>1, <2>2, <2>3
<1>4. faults \in 0 .. MaxFaults /\ since \in 0 .. 2 /\ eraseOk \in BOOLEAN
  <2>1. eraseOk \in BOOLEAN /\ since \in {0, 2}
    BY DEF Init
  <2>2. faults = 0 \/ (faults = 1 /\ MaxFaults > 0)
    BY DEF Init
  <2>3. faults \in 0 .. MaxFaults
    BY <1>2, <2>2
  <2> QED
    BY <2>1, <2>3
<1>5. ControlType
  <2>1. signal \in BOOLEAN /\ serving \in BOOLEAN /\ job \in Jobs \cup {NoJob}
        /\ stuck \in StuckSets
    BY DEF Init
  <2>2. pc \in 0 .. Len(Rom) - 1 /\ romPage \in -1 .. (Len(Rom) - 1) \div WORDS
        /\ ran \in 0 .. Len(Rom)
    BY <1>3 DEF Init
  <2> QED
    BY <1>4, <2>1, <2>2 DEF ControlType
<1>6. flash \in [Page -> [Cells -> Byte]]
  <2>1. [c \in Cells |-> {}] \in [Cells -> Byte]
    BY DEF Byte
  <2> QED
    BY <2>1, BlankType DEF Init
<1>7. DataType
  BY <1>1, <1>2, <1>4, <1>6, BlankType DEF Init, DataType
<1>8. PageLoaded /\ InStep
  BY <1>3 DEF Init, PageLoaded, InStep
<1>9. BlankAhead /\ AtRest
  BY <1>2 DEF Init, BlankAhead, AtRest
<1> QED
  BY <1>5, <1>7, <1>8, <1>9 DEF IInv, TypeOK

LEMMA NextIInv == IInv /\ [Next]_vars => IInv'
<1> SUFFICES ASSUME IInv, [Next]_vars PROVE IInv'
  OBVIOUS
<1>1. CASE Start     BY <1>1, StartKeepsIInv
<1>2. CASE BlankRom  BY <1>2, BlankRomKeepsIInv
<1>3. CASE Mov       BY <1>3, MovKeepsIInv
<1>4. CASE InvMov    BY <1>4, InvMovKeepsIInv
<1>5. CASE CapIn     BY <1>5, CapInKeepsIInv
<1>6. CASE GetIn     BY <1>6, GetInKeepsIInv
<1>7. CASE PrgNand   BY <1>7, PrgNandKeepsIInv
<1>8. CASE PushOut   BY <1>8, PushOutKeepsIInv
<1>9. CASE Raise     BY <1>9, RaiseKeepsIInv
<1>10. CASE EraseOp  BY <1>10, EraseOpKeepsIInv
<1>11. CASE UNCHANGED vars
  BY <1>11 DEF vars, regs, device, IInv, TypeOK, ControlType, DataType, PageLoaded, BlankAhead,
               InStep, AtRest
<1> QED
  BY <1>1, <1>2, <1>3, <1>4, <1>5, <1>6, <1>7, <1>8, <1>9, <1>10, <1>11 DEF Next, Execute

\* Registers, page buffer and device stay well-typed, and control stays in the
\* image, whatever operation of the device fails (fetch, execute, erase of
\* cpu.cpp and the loop of process_requests).
THEOREM InvariantHolds == Spec => []IInv
<1>1. Init => IInv
  BY InitIInv
<1>2. IInv /\ [Next]_vars => IInv'
  BY NextIInv
<1> QED
  BY <1>1, <1>2, PTL DEF Spec

THEOREM TypeCorrect == Spec => []TypeOK
<1>1. IInv => TypeOK
  BY DEF IInv
<1> QED
  BY <1>1, InvariantHolds, PTL

\* A round without failures starts at the first word of the image on a page
\* that was erased and not programmed since (RAISE's wrap and erase).
THEOREM RoundsStartFresh == Spec => []FreshPages
<1>1. IInv => FreshPages
  <2> SUFFICES ASSUME IInv, ~serving, Healthy, NEW p \in cur .. NPages - 1
               PROVE  pc = 0 /\ flash[p] = Blank
    BY DEF FreshPages, IInv, TypeOK, DataType, Page, AtRest, Healthy
  <2>1. pc = 0 /\ flash[cur] = Blank /\ eraseOk
    BY DEF Healthy, IInv, AtRest
  <2>2. cur \in Page /\ p \in Page
    BY CpuAssumption DEF IInv, TypeOK, DataType, Page
  <2>3. p > cur => flash[p] = Blank
    BY <2>1, <2>2 DEF IInv, BlankAhead
  <2>4. p > cur \/ p = cur
    BY <2>2, CpuAssumption DEF Page
  <2> QED
    BY <2>1, <2>3, <2>4
<1> QED
  BY <1>1, InvariantHolds, PTL

\* However many reads of the ROM fail, what is executed is a word of the image
\* or the buffer's initial zero, never the erased region behind the image.
THEOREM FetchesStayInImage == Spec => []FetchesImage
<1>1. IInv => FetchesImage
  <2> SUFFICES ASSUME IInv, NEW fetch \in Fetched
               PROVE  fetch.word.code # "ERASED"
    BY DEF FetchesImage
  <2>1. fetch.word.code = "ZERO" \/ fetch.word \in Instruction
    BY FetchResult DEF IInv
  <2> QED
    BY <2>1, OperandTypes
<1> QED
  BY <1>1, InvariantHolds, PTL
-----------------------------------------------------------------------------
(* What an edit finds in the buffer *)

\* All bits of a byte that follow the data are 1.
Working == Columns \ (stuck.zero \cup stuck.one)
Clean(byte) == Working \subseteq byte

LEMMA CleanBits == /\ \A byte : Clean(Sensed(byte)) <=> Clean(byte)
                   /\ \A c \in Cells : Clean(Blank[c])
                   /\ \A s, t, u : Clean(s) /\ Clean(t) /\ s \cap t \subseteq u => Clean(u)
BY DEF Clean, Working, Sensed, Blank

\* Before a round edits the page, the buffer and the pages are as the erase left
\* them, in the columns that work.
BufInv ==
    /\ eraseOk /\ pre > cur => /\ \A c \in Cells : Clean(page[c])
                               /\ \A p \in Page, c \in Cells : Clean(flash[p][c])
    /\ ~serving /\ since >= 1 /\ eraseOk /\ pre >= cur => \A c \in Cells : Clean(page[c])

LEMMA BufKept ==
    ASSUME stuck' = stuck, ~(~serving' /\ since' >= 1),
           eraseOk' /\ pre' > cur' => /\ \A c \in Cells : Clean(page'[c])
                                      /\ \A p \in Page, c \in Cells : Clean(flash'[p][c])
    PROVE  BufInv'
BY DEF BufInv, Clean, Working

LEMMA NextBuf == ASSUME IInv, BufInv, [Next]_vars PROVE BufInv'
<1>0. TypeOK /\ DataType /\ cur \in Int /\ pre \in Int /\ 0 \in Page
  BY CpuAssumption DEF IInv, TypeOK, DataType, Page
<1>3. CASE Start
  BY <1>3, BufKept DEF Start, device, BufInv
<1>4. CASE UNCHANGED vars
  BY <1>4 DEF vars, device, BufInv, Clean, Working
<1>5. ASSUME NEW fetch \in Fetched, serving, ~LastRaise(fetch.word), Advance(fetch, fetch.failed, FALSE),
             UNCHANGED <<page, pre, cur, flash, eraseOk>>
      PROVE  BufInv'
  <2>1. stuck' = stuck /\ ~(~serving' /\ since' >= 1)
    BY <1>5, AdvanceSilently DEF Advance
  <2> QED
    BY <1>5, <2>1, BufKept DEF BufInv
<1>6. ASSUME NEW fetch \in Fetched, serving, ~LastRaise(fetch.word), Advance(fetch, fetch.failed, FALSE),
             cur' = cur, pre' = cur
      PROVE  BufInv'
  <2>1. stuck' = stuck /\ ~(~serving' /\ since' >= 1)
    BY <1>6, AdvanceSilently DEF Advance
  <2>2. ~(pre' > cur')
    BY <1>0, <1>6
  <2> QED
    BY <2>1, <2>2, BufKept
<1>7. CASE BlankRom
  BY <1>5, <1>7 DEF BlankRom, Executes, LastRaise
<1>8. CASE CapIn
  BY <1>5, <1>8 DEF CapIn, Executes, LastRaise
<1>9. CASE PushOut
  BY <1>5, <1>9 DEF PushOut, Executes, LastRaise
<1>10. CASE Mov
  BY <1>6, <1>10 DEF Mov, Executes, LastRaise
<1>11. CASE InvMov
  BY <1>6, <1>11 DEF InvMov, Executes, LastRaise
<1>12. CASE GetIn
  BY <1>6, <1>12 DEF GetIn, Executes, LastRaise
<1>13. CASE PrgNand
  <2>1. PICK fetch \in Fetched, failed \in SUBSET (Faults \cap {"write", "read"}) :
            /\ Executes("PRG_NAND", fetch)
            /\ Advance(fetch, fetch.failed \cup failed, FALSE)
            /\ flash' = Programmed \/ \E left \in Partials : flash' = PartlyProgrammed(left)
            /\ page' = ReadBack(flash') \/ page' = page
            /\ UNCHANGED <<pre, cur, regs, eraseOk>>
    BY <1>13 DEF PrgNand
  <2>2. stuck' = stuck /\ ~(~serving' /\ since' >= 1)
    <3>1. ~LastRaise(fetch.word) /\ serving /\ failed \in SUBSET FaultKinds
      BY <2>1 DEF Executes, LastRaise, FaultKinds
    <3> QED
      BY <2>1, <3>1, AdvanceQuietly DEF Advance
  <2>3. ASSUME eraseOk', pre' > cur', NEW c \in Cells
        PROVE  Clean(page'[c]) /\ \A p \in Page : Clean(flash'[p][c])
    <3>1. Clean(page[c]) /\ \A p \in Page : Clean(flash[p][c])
      BY <2>1, <2>3 DEF BufInv
    <3>2. /\ \A p \in Page : p # cur => flash'[p] = flash[p]
          /\ flash[cur][c] \cap page[c] \subseteq flash'[cur][c]
      BY <1>0, <2>1, ProgramOthers
    <3>3. cur \in Page
      BY <1>0 DEF DataType
    <3>4. Clean(flash'[cur][c])
      BY <3>1, <3>2, <3>3, CleanBits
    <3>5. \A p \in Page : Clean(flash'[p][c])
      BY <3>1, <3>2, <3>4
    <3>6. ReadBack(flash')[c] = Sensed(flash'[cur][c])
      BY DEF ReadBack
    <3>7. Clean(ReadBack(flash')[c])
      BY <3>4, <3>6, CleanBits
    <3> QED
      BY <2>1, <3>1, <3>5, <3>7
  <2> QED
    BY <2>2, <2>3, BufKept
<1>14. ASSUME Erased, stuck' = stuck PROVE BufInv'
  <2>1. /\ \A c \in Cells : Clean(page'[c])
        /\ \A p \in Page, c \in Cells : Clean(flash'[p][c])
    BY <1>14, CleanBits DEF Erased
  <2> QED
    BY <1>14, <2>1 DEF BufInv, Clean, Working
<1>15. ASSUME EraseFailed PROVE BufInv'
  BY <1>15 DEF EraseFailed, BufInv
<1>16. CASE EraseOp
  BY <1>14, <1>15, <1>16 DEF EraseOp, Advance
<1>17. CASE Raise
  <2>1. PICK fetch \in Fetched :
            /\ Executes("RAISE", fetch)
            /\ \/ LastRaise(fetch.word) /\ NextPage(fetch)
               \/ /\ ~LastRaise(fetch.word) /\ Advance(fetch, fetch.failed, FALSE)
                  /\ UNCHANGED <<page, cur, flash, eraseOk>>
            /\ pre' = pre
    BY <1>17 DEF Raise
  <2>2. CASE ~LastRaise(fetch.word) /\ Advance(fetch, fetch.failed, FALSE) /\ UNCHANGED <<page, cur, flash, eraseOk>>
    BY <1>5, <2>1, <2>2 DEF Executes
  <2>3. CASE cur' = cur + 1 /\ Advance(fetch, fetch.failed, TRUE) /\ UNCHANGED <<page, flash, eraseOk>>
    <3>1. (pre' > cur' => pre > cur) /\ (pre' >= cur' => pre > cur)
      BY <1>0, <2>1, <2>3
    <3> QED
      BY <2>3, <3>1 DEF BufInv, Clean, Working, Advance
  <2>4. CASE Erased /\ Advance(fetch, fetch.failed, TRUE)
    BY <1>14, <2>4 DEF Advance
  <2>5. CASE EraseFailed
    BY <1>15, <2>5
  <2> QED
    BY <2>1, <2>2, <2>3, <2>4, <2>5 DEF NextPage
<1> QED
  BY <1>3, <1>4, <1>7, <1>8, <1>9, <1>10, <1>11, <1>12, <1>13, <1>16, <1>17 DEF Next, Execute

-----------------------------------------------------------------------------
(* What the readers see *)

\* In a round without failures: once a word has edited the page, pre says so, and
\* a cell that was programmed and not edited since shows what the flash holds.
InPage(r) == \E e \in 1 .. r : Edited(Rom[e]) # {} /\ \A k \in e .. r : Rom[k].code # "ERASE"
ReadInv == serving /\ since = 2 =>
    /\ InPage(pc) => pre = cur
    /\ \A c \in Cells : Shown(c, pc) => page[c] = Sensed(flash[cur][c])

LEMMA ShownNext ==
    ASSUME NEW r \in Nat
    PROVE  /\ InPage(r + 1) => Rom[r + 1].code # "ERASE" /\ (InPage(r) \/ Edited(Rom[r + 1]) # {})
           /\ \A c : Shown(c, r + 1) => c \notin Edited(Rom[r + 1])
           /\ \A c : Shown(c, r + 1) => \/ Shown(c, r)
                                        \/ Rom[r + 1].code = "PRG_NAND" /\ InPage(r)
           /\ \A c : Shown(c, r) => InPage(r)
<1>1. r + 1 \in 1 .. r + 1 /\ \A e \in 1 .. r + 1 : e \in 1 .. r \/ e = r + 1
  OBVIOUS
<1>2. \A e \in 1 .. r + 1 : r + 1 \in e .. r + 1 /\ \A k \in e .. r : k \in e .. r + 1
  OBVIOUS
<1>3. InPage(r + 1) => Rom[r + 1].code # "ERASE" /\ (InPage(r) \/ Edited(Rom[r + 1]) # {})
  BY <1>1, <1>2 DEF InPage
<1>4. \A c : Shown(c, r) => InPage(r)
  BY DEF Shown, InPage
<1>5. ASSUME NEW c, Shown(c, r + 1)
      PROVE  /\ c \notin Edited(Rom[r + 1])
             /\ Shown(c, r) \/ (Rom[r + 1].code = "PRG_NAND" /\ InPage(r))
  <2>1. PICK e \in 1 .. r + 1 :
           /\ Edited(Rom[e]) # {} /\ \A k \in e .. r + 1 : Rom[k].code # "ERASE"
           /\ \E q \in e + 1 .. r + 1 : Rom[q].code = "PRG_NAND" /\ \A k \in q .. r + 1 : c \notin Edited(Rom[k])
    BY <1>5 DEF Shown
  <2>2. PICK q \in e + 1 .. r + 1 : Rom[q].code = "PRG_NAND" /\ \A k \in q .. r + 1 : c \notin Edited(Rom[k])
    BY <2>1
  <2>3. /\ e \in 1 .. r /\ r + 1 \in q .. r + 1
        /\ q = r + 1 \/ q \in e + 1 .. r
        /\ \A k \in q .. r : k \in q .. r + 1
    OBVIOUS
  <2>4. \A k \in e .. r : Rom[k].code # "ERASE"
    BY <1>2, <2>1
  <2>5. CASE q = r + 1
    BY <2>1, <2>2, <2>3, <2>4, <2>5 DEF InPage
  <2>6. CASE q \in e + 1 .. r
    <3>1. \A k \in q .. r : c \notin Edited(Rom[k])
      BY <2>2, <2>3
    <3>2. Shown(c, r)
      BY <2>1, <2>2, <2>3, <2>4, <2>6, <3>1 DEF Shown
    <3> QED
      BY <2>2, <2>3, <3>2
  <2> QED
    BY <2>3, <2>5, <2>6
<1> QED
  BY <1>3, <1>4, <1>5

LEMMA ShownFirst == ~InPage(0) /\ \A c : ~Shown(c, 0)
BY DEF InPage, Shown

\* A step inside a round without failures executes the word at pc and no other.
LEMMA HealthyStep ==
    ASSUME IInv, serving, NEW fetch \in Fetched, NEW failed \in SUBSET FaultKinds, NEW raised \in BOOLEAN,
           Advance(fetch, fetch.failed \cup failed, raised), raised <=> LastRaise(fetch.word),
           serving', since' = 2
    PROVE  /\ since = 2 /\ failed = {} /\ fetch.failed = {} /\ fetch.word = Rom[pc + 1]
           /\ pc \in Nat /\ pc' = pc + 1 /\ stuck' = stuck
<1>1. ~raised /\ since' = (IF fetch.failed \cup failed = {} THEN since ELSE 0) /\ pc' = fetch.word.next /\ stuck' = stuck
  BY DEF Advance
<1>2. fetch.failed \cup failed = {} /\ since = 2
  BY <1>1
<1>3. fetch.word = Rom[pc + 1]
  BY <1>2, FetchResult DEF IInv
<1>4. Len(Rom) \in Nat \ {0} /\ pc \in 0 .. Len(Rom) - 1
  BY RomType DEF IInv, TypeOK, ControlType
<1>5. pc + 1 \in 1 .. Len(Rom)
  BY <1>4
<1>6. Rom[pc + 1].next = (pc + 1) % Len(Rom) /\ (LastRaise(Rom[pc + 1]) <=> pc + 1 = Len(Rom))
  BY <1>5, RomAssumption
<1>7. (pc + 1) % Len(Rom) = pc + 1
  BY <1>1, <1>3, <1>4, <1>5, <1>6, ModWrap
<1> QED
  BY <1>1, <1>2, <1>3, <1>4, <1>6, <1>7

\* The three ways in which an instruction treats the page.
LEMMA LeavesPage ==
    ASSUME IInv, ReadInv, serving, NEW fetch \in Fetched, ~LastRaise(fetch.word),
           Advance(fetch, fetch.failed, FALSE), UNCHANGED <<page, pre, cur, flash>>,
           fetch.word.code \notin {"PRG_NAND", "MOV", "INV_MOV", "GET_IN"}
    PROVE  ReadInv'
<1> SUFFICES ASSUME serving', since' = 2
             PROVE  (InPage(pc) => pre = cur)' /\ (\A c \in Cells : Shown(c, pc) => page[c] = Sensed(flash[cur][c]))'
  BY DEF ReadInv
<1>1. fetch.failed \cup {} = fetch.failed /\ {} \in SUBSET FaultKinds /\ FALSE \in BOOLEAN
  OBVIOUS
<1>2. since = 2 /\ fetch.word = Rom[pc + 1] /\ pc \in Nat /\ pc' = pc + 1 /\ stuck' = stuck
  BY <1>1, HealthyStep
<1>3. Edited(Rom[pc + 1]) = {}
  BY <1>2 DEF Edited
<1>4. (InPage(pc + 1) => InPage(pc)) /\ \A c : Shown(c, pc + 1) => Shown(c, pc)
  BY <1>2, <1>3, ShownNext
<1> QED
  BY <1>2, <1>4 DEF ReadInv, Sensed, InPage, Shown

LEMMA EditsPage ==
    ASSUME IInv, ReadInv, serving, NEW fetch \in Fetched, ~LastRaise(fetch.word),
           Advance(fetch, fetch.failed, FALSE), UNCHANGED <<cur, flash>>, pre' = cur,
           fetch.word.code # "PRG_NAND",
           \A c \in Cells : c \in Edited(fetch.word) \/ (pre = cur => page'[c] = page[c])
    PROVE  ReadInv'
<1> SUFFICES ASSUME serving', since' = 2
             PROVE  (InPage(pc) => pre = cur)' /\ (\A c \in Cells : Shown(c, pc) => page[c] = Sensed(flash[cur][c]))'
  BY DEF ReadInv
<1>1. fetch.failed \cup {} = fetch.failed /\ {} \in SUBSET FaultKinds /\ FALSE \in BOOLEAN
  OBVIOUS
<1>2. since = 2 /\ fetch.word = Rom[pc + 1] /\ pc \in Nat /\ pc' = pc + 1 /\ stuck' = stuck
  BY <1>1, HealthyStep
<1>3. \A c : Shown(c, pc + 1) => Shown(c, pc) /\ InPage(pc) /\ c \notin Edited(fetch.word)
  BY <1>2, ShownNext
<1>4. \A c \in Cells : Shown(c, pc + 1) => page'[c] = Sensed(flash[cur][c])
  BY <1>2, <1>3 DEF ReadInv
<1>5. (\A c \in Cells : Shown(c, pc) => page[c] = Sensed(flash[cur][c]))'
  BY <1>2, <1>4 DEF Shown, Sensed
<1> QED
  BY <1>5

\* edit_buf keeps the other cells of a page that it is at already.
LEMMA EditBufElse ==
    ASSUME DataType, NEW c \in Cells, NEW v \in Byte, pre = cur, NEW d \in Cells, d # c
    PROVE  EditBuf(c, v)[d] = page[d]
BY DEF EditBuf, DataType

LEMMA NextReads == IInv /\ ReadInv /\ [Next]_vars => ReadInv'
<1> SUFFICES ASSUME IInv, ReadInv, [Next]_vars PROVE ReadInv'
  OBVIOUS
<1>1. TypeOK /\ DataType
  BY DEF IInv, TypeOK
<1>2. CASE Start
  <2>1. serving' /\ since' = 2 => pc' = 0
    <3>1. since' = 2 => since >= 1
      BY <1>2 DEF Start, IInv, TypeOK, ControlType
    <3> QED
      BY <1>2, <3>1 DEF Start, IInv, AtRest
  <2> QED
    BY <2>1, ShownFirst DEF ReadInv, InPage, Shown
<1>3. CASE BlankRom
  BY <1>3, LeavesPage DEF BlankRom, Executes, LastRaise
<1>4. CASE CapIn
  BY <1>4, LeavesPage DEF CapIn, Executes, LastRaise
<1>5. CASE PushOut
  BY <1>5, LeavesPage DEF PushOut, Executes, LastRaise
<1>6. CASE Raise
  <2>1. PICK fetch \in Fetched :
            /\ Executes("RAISE", fetch)
            /\ \/ LastRaise(fetch.word) /\ NextPage(fetch)
               \/ /\ ~LastRaise(fetch.word) /\ Advance(fetch, fetch.failed, FALSE)
                  /\ UNCHANGED <<page, cur, flash, eraseOk>>
            /\ pre' = pre
    BY <1>6 DEF Raise
  <2>2. CASE NextPage(fetch)
    BY <2>2 DEF NextPage, Advance, ReadInv
  <2> QED
    BY <2>1, <2>2, LeavesPage DEF Executes
<1>7. CASE EraseOp
  <2>1. PICK fetch \in Fetched :
            /\ Executes("ERASE", fetch) /\ pre' = pre
            /\ Advance(fetch, fetch.failed, FALSE) \/ Advance(fetch, fetch.failed \cup {"erase"}, FALSE)
    BY <1>7 DEF EraseOp
  <2>2. SUFFICES ASSUME serving', since' = 2 PROVE ~InPage(pc)' /\ \A c \in Cells : ~Shown(c, pc)'
    BY DEF ReadInv
  <2>3. fetch.failed \cup {} = fetch.failed /\ {} \in SUBSET FaultKinds /\ {"erase"} \in SUBSET FaultKinds
        /\ FALSE \in BOOLEAN /\ ~LastRaise(fetch.word) /\ serving /\ fetch.word.code = "ERASE"
    BY <2>1 DEF FaultKinds, LastRaise, Executes
  <2>4. fetch.word = Rom[pc + 1] /\ pc \in Nat /\ pc' = pc + 1
    <3>1. CASE Advance(fetch, fetch.failed, FALSE)
      BY <2>2, <2>3, <3>1, HealthyStep
    <3>2. CASE Advance(fetch, fetch.failed \cup {"erase"}, FALSE)
      BY <2>2, <2>3, <3>2, HealthyStep
    <3> QED
      BY <2>1, <3>1, <3>2
  <2>5. ~InPage(pc + 1) /\ \A c : ~Shown(c, pc + 1)
    <3>1. pc + 1 \in Nat /\ Rom[pc + 1].code = "ERASE"
      BY <2>3, <2>4
    <3>2. ~InPage(pc + 1)
      BY <2>4, <3>1, ShownNext
    <3>3. \A c : Shown(c, pc + 1) => InPage(pc + 1)
      BY <3>1, ShownNext
    <3> QED
      BY <3>2, <3>3
  <2> QED
    BY <2>4, <2>5 DEF InPage, Shown
<1>8. CASE Mov
  <2>1. PICK fetch \in Fetched :
            /\ Executes("MOV", fetch) /\ page' = EditBuf(fetch.word.dest, page[fetch.word.from])
            /\ pre' = cur /\ Advance(fetch, fetch.failed, FALSE) /\ UNCHANGED <<cur, flash>>
    BY <1>8 DEF Mov
  <2>2. /\ fetch.word.dest \in Cells /\ fetch.word.from \in Cells /\ fetch.word.code = "MOV"
        /\ ~LastRaise(fetch.word) /\ serving
    BY <2>1, FetchedOperands DEF Executes, LastRaise
  <2>3. page[fetch.word.from] \in Byte /\ Edited(fetch.word) = {fetch.word.dest}
    BY <1>1, <2>2 DEF DataType, Edited
  <2>4. \A c \in Cells : c \in Edited(fetch.word) \/ (pre = cur => page'[c] = page[c])
    BY <1>1, <2>1, <2>2, <2>3, EditBufElse
  <2> QED
    BY <2>1, <2>2, <2>4, EditsPage
<1>9. CASE InvMov
  <2>1. PICK fetch \in Fetched :
            /\ Executes("INV_MOV", fetch) /\ page' = EditBuf(fetch.word.dest, Inverted(page[fetch.word.from]))
            /\ pre' = cur /\ Advance(fetch, fetch.failed, FALSE) /\ UNCHANGED <<cur, flash>>
    BY <1>9 DEF InvMov
  <2>2. /\ fetch.word.dest \in Cells /\ fetch.word.from \in Cells /\ fetch.word.code = "INV_MOV"
        /\ ~LastRaise(fetch.word) /\ serving
    BY <2>1, FetchedOperands DEF Executes, LastRaise
  <2>3. Inverted(page[fetch.word.from]) \in Byte /\ Edited(fetch.word) = {fetch.word.dest}
    BY <2>2 DEF Inverted, Byte, Edited
  <2>4. \A c \in Cells : c \in Edited(fetch.word) \/ (pre = cur => page'[c] = page[c])
    BY <1>1, <2>1, <2>2, <2>3, EditBufElse
  <2> QED
    BY <2>1, <2>2, <2>4, EditsPage
<1>10. CASE GetIn
  <2> DEFINE va == Replicate(inA[GetInLane][1])  vb == Replicate(inB[GetInLane][1])
  <2>1. PICK fetch \in Fetched :
            /\ Executes("GET_IN", fetch) /\ page' = [EditBuf(fetch.word.from, va) EXCEPT ![fetch.word.dest] = vb]
            /\ pre' = cur /\ Advance(fetch, fetch.failed, FALSE) /\ UNCHANGED <<cur, flash>>
    BY <1>10 DEF GetIn
  <2>2. /\ fetch.word.dest \in Cells /\ fetch.word.from \in Cells /\ fetch.word.code = "GET_IN"
        /\ ~LastRaise(fetch.word) /\ serving
    BY <2>1, FetchedOperands DEF Executes, LastRaise
  <2>3. va \in Byte /\ Edited(fetch.word) = {fetch.word.dest, fetch.word.from}
    BY <1>1, <2>2, GetInLaneType, ReplicateType DEF Edited
  <2> HIDE DEF va, vb
  <2>4. EditBuf(fetch.word.from, va) \in [Cells -> Byte]
    BY <1>1, <2>2, <2>3, EditBufType
  <2>5. ASSUME NEW c \in Cells, c \notin Edited(fetch.word), pre = cur PROVE page'[c] = page[c]
    <3>1. c # fetch.word.dest /\ c # fetch.word.from
      BY <2>3, <2>5
    <3>2. page'[c] = EditBuf(fetch.word.from, va)[c]
      BY <2>1, <2>4, <3>1
    <3> QED
      BY <1>1, <2>2, <2>3, <2>5, <3>1, <3>2, EditBufElse
  <2>6. \A c \in Cells : c \in Edited(fetch.word) \/ (pre = cur => page'[c] = page[c])
    BY <2>5
  <2> QED
    BY <2>1, <2>2, <2>6, EditsPage
<1>11. CASE PrgNand
  <2>1. PICK fetch \in Fetched, failed \in SUBSET (Faults \cap {"write", "read"}) :
            /\ Executes("PRG_NAND", fetch)
            /\ Advance(fetch, fetch.failed \cup failed, FALSE)
            /\ failed = {} => flash' = Programmed /\ page' = ReadBack(flash')
            /\ UNCHANGED <<pre, cur>>
    BY <1>11 DEF PrgNand
  <2>2. SUFFICES ASSUME serving', since' = 2
                 PROVE  (InPage(pc) => pre = cur)' /\ (\A c \in Cells : Shown(c, pc) => page[c] = Sensed(flash[cur][c]))'
    BY DEF ReadInv
  <2>3. /\ failed \in SUBSET FaultKinds /\ FALSE \in BOOLEAN /\ ~LastRaise(fetch.word)
        /\ serving /\ fetch.word.code = "PRG_NAND"
    BY <2>1 DEF FaultKinds, LastRaise, Executes
  <2>4. /\ fetch.word = Rom[pc + 1] /\ pc \in Nat /\ pc' = pc + 1 /\ stuck' = stuck /\ since = 2
        /\ page' = ReadBack(flash')
    BY <2>1, <2>2, <2>3, HealthyStep
  <2>5. Edited(Rom[pc + 1]) = {}
    BY <2>3, <2>4 DEF Edited
  <2>6. InPage(pc + 1) => InPage(pc)
    BY <2>4, <2>5, ShownNext
  <2>7. (InPage(pc) => pre = cur)'
    BY <2>1, <2>3, <2>4, <2>6 DEF ReadInv, InPage
  <2>8. \A c \in Cells : page'[c] = Sensed(flash'[cur][c])
    BY <2>4 DEF ReadBack
  <2>9. (\A c \in Cells : page[c] = Sensed(flash[cur][c]))'
    BY <2>1, <2>4, <2>8 DEF Sensed
  <2> QED
    BY <2>7, <2>9
<1>12. CASE UNCHANGED vars
  BY <1>12 DEF vars, device, ReadInv, InPage, Shown, Sensed
<1> QED
  BY <1>2, <1>3, <1>4, <1>5, <1>6, <1>7, <1>8, <1>9, <1>10, <1>11, <1>12 DEF Next, Execute

\* If the microprogram reads only what it has programmed since it last edited it
\* (ReadsAfterProgram), then MOV, INV_MOV, PUSH_OUT and RAISE see the flash and
\* never a pending edit or the buffer of another page, although read() returns
\* the page buffer whatever is in it.
THEOREM ReadersSeeFlash == ASSUME ReadsAfterProgram PROVE Spec => []ReadsProgrammed
<1>1. Init => ReadInv
  BY DEF Init, ReadInv
<1>2. IInv /\ ReadInv => ReadsProgrammed
  <2> SUFFICES ASSUME IInv, ReadInv, serving, Healthy, NEW fetch \in Fetched, fetch.failed = {},
                      fetch.word.code \in Readers
               PROVE  page[fetch.word.from] = Sensed(flash[cur][fetch.word.from])
    BY DEF ReadsProgrammed
  <2>1. fetch.word = Rom[pc + 1]
    BY FetchResult DEF IInv
  <2>2. pc \in Nat /\ pc + 1 \in 1 .. Len(Rom) /\ (pc + 1) - 1 = pc
    BY RomType DEF IInv, TypeOK, ControlType
  <2>3. Shown(fetch.word.from, (pc + 1) - 1)
    BY <2>1, <2>2 DEF ReadsAfterProgram
  <2>4. fetch.word.from \in Cells
    BY FetchedOperands DEF Readers
  <2> QED
    BY <2>2, <2>3, <2>4 DEF ReadInv, Healthy
<1> QED
  BY <1>1, <1>2, NextReads, InvariantHolds, PTL DEF Spec
-----------------------------------------------------------------------------
(* Eight copies of one computation *)

LEMMA AgreeClosed ==
    ASSUME NEW s, NEW t, Agree(s), Agree(t)
    PROVE  Agree(s \cap t) /\ Agree(Columns \ s) /\ Agree(Sensed(s))
BY DEF Agree, Sensed

LEMMA AgreeConstant ==
    /\ Agree(Columns) /\ \A v : Agree(Replicate(v))
    /\ \A byte : Clean(byte) => Agree(byte)
BY DEF Agree, Replicate, Clean, Working

\* In an undisturbed round the copies agree on the page, and in the buffer once it
\* is the page's: since the first edit, or from the start if it was just erased.
AgreeInv == serving /\ Healthy =>
    /\ \A c \in Cells : Agree(flash[cur][c])
    /\ pre = cur \/ (\E e \in 1 .. pc : Edited(Rom[e]) # {}) => \A c \in Cells : Agree(page[c])

LEMMA AgreeStart == ASSUME IInv, BufInv, Start PROVE AgreeInv'
<1> SUFFICES ASSUME Healthy' PROVE AgreeInv'
  BY DEF AgreeInv
<1>1. ~serving /\ since >= 1 /\ eraseOk /\ UNCHANGED <<pc, page, pre, cur, flash, stuck>> /\ pre \in Int /\ cur \in Int
  BY CpuAssumption DEF Start, Healthy, device, IInv, TypeOK, ControlType, DataType, Page
<1>2. pc = 0 /\ flash[cur] = Blank
  BY <1>1 DEF IInv, AtRest
<1>3. pre = cur => \A c \in Cells : Agree(page[c])
  BY <1>1, AgreeConstant DEF BufInv
<1>4. \A c \in Cells : Agree(flash[cur][c])
  BY <1>2, CleanBits, AgreeConstant
<1> QED
  BY <1>1, <1>2, <1>3, <1>4 DEF AgreeInv, Agree

\* What a step of an undisturbed round has to show.
LEMMA AgreeStep ==
    ASSUME IInv, serving, NEW fetch \in Fetched, NEW failed \in SUBSET FaultKinds, ~LastRaise(fetch.word),
           Advance(fetch, fetch.failed \cup failed, FALSE),
           failed = {} /\ since = 2 /\ fetch.word = Rom[pc + 1] /\ eraseOk' =>
              /\ \A c \in Cells : Agree(flash'[cur'][c])
              /\ \/ pre' = cur' \/ Edited(fetch.word) # {} \/ \E e \in 1 .. pc : Edited(Rom[e]) # {}
                 => \A c \in Cells : Agree(page'[c])
    PROVE  AgreeInv'
<1> SUFFICES ASSUME serving', since' = 2, eraseOk' PROVE AgreeInv'
  BY DEF AgreeInv, Healthy
<1>1. failed = {} /\ since = 2 /\ fetch.word = Rom[pc + 1] /\ pc \in Nat /\ pc' = pc + 1 /\ stuck' = stuck
  BY HealthyStep
<1>2. \A byte : Agree(byte)' <=> Agree(byte)
  BY <1>1 DEF Agree
<1>3. (\E e \in 1 .. pc + 1 : Edited(Rom[e]) # {}) => Edited(fetch.word) # {} \/ \E e \in 1 .. pc : Edited(Rom[e]) # {}
  <2>1. \A e \in 1 .. pc + 1 : e \in 1 .. pc \/ e = pc + 1
    BY <1>1
  <2> QED
    BY <1>1, <2>1
<1>4. \A c \in Cells : Agree(flash'[cur'][c])
  BY <1>1
<1>5. pre' = cur' \/ (\E e \in 1 .. pc + 1 : Edited(Rom[e]) # {}) => \A c \in Cells : Agree(page'[c])
  BY <1>1, <1>3
<1>6. (\A c \in Cells : Agree(flash[cur][c]))'
  BY <1>1, <1>4 DEF Agree
<1>7. (pre = cur \/ (\E e \in 1 .. pc : Edited(Rom[e]) # {}) => \A c \in Cells : Agree(page[c]))'
  BY <1>1, <1>5 DEF Agree
<1> QED
  BY <1>6, <1>7 DEF AgreeInv

LEMMA AgreeKept ==
    ASSUME IInv, AgreeInv, serving, NEW fetch \in Fetched, ~LastRaise(fetch.word), Edited(fetch.word) = {},
           Advance(fetch, fetch.failed, FALSE), UNCHANGED <<page, pre, cur, flash, eraseOk>>
    PROVE  AgreeInv'
<1>1. fetch.failed = fetch.failed \cup {} /\ {} \in SUBSET FaultKinds
  OBVIOUS
<1> QED
  BY <1>1, AgreeStep DEF AgreeInv, Healthy

\* An edit in an undisturbed round: the other cells of the buffer are the page's,
\* or all ones.
LEMMA AgreeEdit ==
    ASSUME IInv, AgreeInv, serving, NEW fetch \in Fetched, ~LastRaise(fetch.word),
           Advance(fetch, fetch.failed, FALSE), UNCHANGED <<cur, flash, eraseOk>>,
           since = 2 /\ fetch.word = Rom[pc + 1] /\ eraseOk =>
              \A c \in Cells : Agree(page'[c]) \/ page'[c] = (IF pre = cur THEN page ELSE Blank)[c]
    PROVE  AgreeInv'
<1>1. fetch.failed = fetch.failed \cup {} /\ {} \in SUBSET FaultKinds
  OBVIOUS
<1>2. ASSUME since = 2, fetch.word = Rom[pc + 1], eraseOk
      PROVE  (\A c \in Cells : Agree(flash'[cur'][c])) /\ \A c \in Cells : Agree(page'[c])
  <2>1. (\A c \in Cells : Agree(flash[cur][c])) /\ (pre = cur => \A c \in Cells : Agree(page[c]))
    BY <1>2 DEF AgreeInv, Healthy
  <2>2. \A c \in Cells : Agree((IF pre = cur THEN page ELSE Blank)[c])
    BY <2>1, AgreeConstant, CleanBits
  <2> QED
    BY <1>2, <2>1, <2>2
<1> QED
  BY <1>1, <1>2, AgreeStep

\* A reader of an undisturbed round finds what the page holds there.
LEMMA AgreeRead ==
    ASSUME ReadsAfterProgram, IInv, ReadInv, AgreeInv, serving, since = 2, eraseOk,
           NEW fetch \in Fetched, fetch.word = Rom[pc + 1], fetch.word.code \in Readers
    PROVE  Agree(page[fetch.word.from])
<1>1. pc + 1 \in 1 .. Len(Rom) /\ (pc + 1) - 1 = pc
  BY RomType DEF IInv, TypeOK, ControlType
<1>2. Shown(fetch.word.from, (pc + 1) - 1)
  BY <1>1 DEF ReadsAfterProgram
<1>3. fetch.word.from \in Cells
  BY FetchedOperands DEF Readers
<1>4. page[fetch.word.from] = Sensed(flash[cur][fetch.word.from])
  BY <1>1, <1>2, <1>3 DEF ReadInv
<1>5. Agree(flash[cur][fetch.word.from])
  BY <1>3 DEF AgreeInv, Healthy
<1> QED
  BY <1>4, <1>5, AgreeClosed

LEMMA NextAgree ==
    ASSUME ReadsAfterProgram, ProgramsAfterEdit, IInv, BufInv, ReadInv, AgreeInv, [Next]_vars
    PROVE  AgreeInv'
<1>1. TypeOK /\ DataType
  BY DEF IInv, TypeOK
<1>2. CASE Start
  BY <1>2, AgreeStart
<1>3. CASE UNCHANGED vars
  BY <1>3 DEF vars, device, AgreeInv, Healthy, Agree
<1>4. CASE BlankRom
  BY <1>4, AgreeKept DEF BlankRom, Executes, LastRaise, Edited
<1>5. CASE CapIn
  BY <1>5, AgreeKept DEF CapIn, Executes, LastRaise, Edited
<1>6. CASE PushOut
  BY <1>6, AgreeKept DEF PushOut, Executes, LastRaise, Edited
<1>7. CASE Mov
  <2>1. PICK fetch \in Fetched :
            /\ Executes("MOV", fetch) /\ page' = EditBuf(fetch.word.dest, page[fetch.word.from])
            /\ pre' = cur /\ Advance(fetch, fetch.failed, FALSE) /\ UNCHANGED <<cur, flash, eraseOk>>
    BY <1>7 DEF Mov
  <2>2. /\ fetch.word.dest \in Cells /\ fetch.word.from \in Cells /\ fetch.word.code \in Readers
        /\ ~LastRaise(fetch.word) /\ serving
    BY <2>1, FetchedOperands DEF Executes, LastRaise, Readers
  <2>3. ASSUME since = 2, fetch.word = Rom[pc + 1], eraseOk, NEW c \in Cells
        PROVE  Agree(page'[c]) \/ page'[c] = (IF pre = cur THEN page ELSE Blank)[c]
    <3>1. Agree(page[fetch.word.from])
      BY <2>2, <2>3, AgreeRead
    <3>2. page'[c] = page[fetch.word.from] \/ page'[c] = (IF pre = cur THEN page ELSE Blank)[c]
      BY <1>1, <2>1, BlankType DEF EditBuf, DataType
    <3> QED
      BY <3>1, <3>2
  <2> QED
    BY <2>1, <2>2, <2>3, AgreeEdit
<1>8. CASE InvMov
  <2>1. PICK fetch \in Fetched :
            /\ Executes("INV_MOV", fetch) /\ page' = EditBuf(fetch.word.dest, Inverted(page[fetch.word.from]))
            /\ pre' = cur /\ Advance(fetch, fetch.failed, FALSE) /\ UNCHANGED <<cur, flash, eraseOk>>
    BY <1>8 DEF InvMov
  <2>2. /\ fetch.word.dest \in Cells /\ fetch.word.from \in Cells /\ fetch.word.code \in Readers
        /\ ~LastRaise(fetch.word) /\ serving
    BY <2>1, FetchedOperands DEF Executes, LastRaise, Readers
  <2>3. ASSUME since = 2, fetch.word = Rom[pc + 1], eraseOk, NEW c \in Cells
        PROVE  Agree(page'[c]) \/ page'[c] = (IF pre = cur THEN page ELSE Blank)[c]
    <3>1. Agree(Inverted(page[fetch.word.from]))
      BY <2>2, <2>3, AgreeRead, AgreeClosed DEF Inverted
    <3>2. page'[c] = Inverted(page[fetch.word.from]) \/ page'[c] = (IF pre = cur THEN page ELSE Blank)[c]
      BY <1>1, <2>1, BlankType DEF EditBuf, DataType
    <3> QED
      BY <3>1, <3>2
  <2> QED
    BY <2>1, <2>2, <2>3, AgreeEdit
<1>9. CASE GetIn
  <2> DEFINE va == Replicate(inA[GetInLane][1])  vb == Replicate(inB[GetInLane][1])
  <2>1. PICK fetch \in Fetched :
            /\ Executes("GET_IN", fetch) /\ page' = [EditBuf(fetch.word.from, va) EXCEPT ![fetch.word.dest] = vb]
            /\ pre' = cur /\ Advance(fetch, fetch.failed, FALSE) /\ UNCHANGED <<cur, flash, eraseOk>>
    BY <1>9 DEF GetIn
  <2>2. fetch.word.dest \in Cells /\ fetch.word.from \in Cells /\ ~LastRaise(fetch.word) /\ serving
    BY <2>1, FetchedOperands DEF Executes, LastRaise
  <2>3. va \in Byte /\ Agree(va) /\ Agree(vb)
    BY <1>1, GetInLaneType, ReplicateType, AgreeConstant
  <2> HIDE DEF va, vb
  <2>4. ASSUME NEW c \in Cells
        PROVE  Agree(page'[c]) \/ page'[c] = (IF pre = cur THEN page ELSE Blank)[c]
    <3>1. EditBuf(fetch.word.from, va) \in [Cells -> Byte]
      BY <1>1, <2>2, <2>3, EditBufType
    <3>2. page'[c] = vb \/ page'[c] = EditBuf(fetch.word.from, va)[c]
      BY <2>1, <3>1
    <3>3. EditBuf(fetch.word.from, va)[c] = va
          \/ EditBuf(fetch.word.from, va)[c] = (IF pre = cur THEN page ELSE Blank)[c]
      BY <1>1, BlankType DEF EditBuf, DataType
    <3> QED
      BY <2>3, <3>2, <3>3
  <2> QED
    BY <2>1, <2>2, <2>4, AgreeEdit
<1>10. CASE PrgNand
  <2>1. PICK fetch \in Fetched, failed \in SUBSET (Faults \cap {"write", "read"}) :
            /\ Executes("PRG_NAND", fetch)
            /\ Advance(fetch, fetch.failed \cup failed, FALSE)
            /\ failed = {} => flash' = Programmed /\ page' = ReadBack(flash')
            /\ UNCHANGED <<pre, cur, eraseOk>>
    BY <1>10 DEF PrgNand
  <2>2. failed \in SUBSET FaultKinds /\ ~LastRaise(fetch.word) /\ serving /\ fetch.word.code = "PRG_NAND"
    BY <2>1 DEF FaultKinds, LastRaise, Executes
  <2>3. ASSUME failed = {}, since = 2, fetch.word = Rom[pc + 1], eraseOk, NEW c \in Cells
        PROVE  Agree(flash'[cur'][c]) /\ Agree(page'[c])
    <3>1. pc + 1 \in 1 .. Len(Rom) /\ (pc + 1) - 1 = pc
      BY RomType DEF IInv, TypeOK, ControlType
    <3>2. \E e \in 1 .. pc : Edited(Rom[e]) # {}
      BY <2>2, <2>3, <3>1 DEF ProgramsAfterEdit
    <3>3. Agree(page[c]) /\ Agree(flash[cur][c])
      BY <2>2, <2>3, <3>2 DEF AgreeInv, Healthy
    <3>4. flash'[cur'][c] = flash[cur][c] \cap page[c]
      BY <1>1, <2>1, <2>3 DEF Programmed, DataType
    <3>5. page'[c] = Sensed(flash'[cur'][c])
      <4>1. page' = ReadBack(flash') /\ cur' = cur
        BY <2>1, <2>3
      <4>2. ReadBack(flash')[c] = Sensed(flash'[cur][c])
        BY DEF ReadBack
      <4> QED
        BY <4>1, <4>2
    <3>6. Agree(flash[cur][c] \cap page[c])
      BY <3>3, AgreeClosed
    <3>7. Agree(Sensed(flash[cur][c] \cap page[c]))
      BY <3>6, AgreeClosed
    <3> QED
      BY <3>4, <3>5, <3>6, <3>7
  <2> QED
    BY <2>1, <2>2, <2>3, AgreeStep
<1>11. CASE Raise
  <2>1. PICK fetch \in Fetched :
            /\ Executes("RAISE", fetch)
            /\ \/ LastRaise(fetch.word) /\ NextPage(fetch)
               \/ /\ ~LastRaise(fetch.word) /\ Advance(fetch, fetch.failed, FALSE)
                  /\ UNCHANGED <<page, cur, flash, eraseOk>>
            /\ pre' = pre
    BY <1>11 DEF Raise
  <2>2. CASE NextPage(fetch)
    BY <2>2 DEF NextPage, Advance, AgreeInv
  <2> QED
    BY <2>1, <2>2, AgreeKept DEF Executes, Edited
<1>12. CASE EraseOp
  <2>1. PICK fetch \in Fetched :
            /\ Executes("ERASE", fetch)
            /\ (Erased /\ Advance(fetch, fetch.failed, FALSE)) \/ EraseFailed
    BY <1>12 DEF EraseOp
  <2>2. CASE EraseFailed
    BY <2>2 DEF EraseFailed, AgreeInv, Healthy
  <2>3. CASE Erased /\ Advance(fetch, fetch.failed, FALSE)
    <3>1. ~LastRaise(fetch.word) /\ serving /\ {} \in SUBSET FaultKinds /\ fetch.failed = fetch.failed \cup {}
      BY <2>1 DEF Executes, LastRaise
    <3>2. 0 \in Page
      BY CpuAssumption DEF Page
    <3>3. \A c \in Cells : Agree(flash'[cur'][c]) /\ Agree(page'[c])
      BY <2>3, <3>2, CleanBits, AgreeConstant DEF Erased
    <3> QED
      BY <2>3, <3>1, <3>3, AgreeStep
  <2> QED
    BY <2>1, <2>2, <2>3
<1> QED
  BY <1>2, <1>3, <1>4, <1>5, <1>6, <1>7, <1>8, <1>9, <1>10, <1>11, <1>12 DEF Next, Execute

\* Whatever failed before and whichever columns are stuck, in an undisturbed round
\* the other columns of every byte hold the same computation (0xff/0x00 of GET_IN,
\* MOV, INV_MOV, program), although a failed program of an earlier round may have
\* left its columns apart in a page, and in the buffer that was read back from it.
THEOREM ReplicasStayEqual == ASSUME ReadsAfterProgram, ProgramsAfterEdit PROVE Spec => []ReplicasAgree
<1>1. Init => BufInv /\ ReadInv /\ AgreeInv
  BY DEF Init, BufInv, ReadInv, AgreeInv
<1>2. IInv /\ BufInv /\ ReadInv /\ AgreeInv /\ [Next]_vars => BufInv' /\ ReadInv' /\ AgreeInv'
  BY NextBuf, NextReads, NextAgree
<1>3. AgreeInv => ReplicasAgree
  BY DEF AgreeInv, ReplicasAgree
<1> QED
  BY <1>1, <1>2, <1>3, InvariantHolds, PTL DEF Spec
-----------------------------------------------------------------------------
(* What the vote makes of a byte *)

\* At least four columns are not stuck at 0 and at most three are stuck at 1, so
\* the columns that work outvote the others, whatever the byte holds there.
LEMMA VoteOutvotes ==
    ASSUME stuck \in [zero : Byte, one : Byte],
           Cardinality(stuck.zero) <= 4, Cardinality(stuck.one) <= 3,
           NEW byte \in Byte, Agree(byte),
           NEW i \in Columns \ (stuck.zero \cup stuck.one)
    PROVE  majorityVote(Sensed(byte)) <=> i \in byte
<1>1. IsFiniteSet(Columns) /\ Cardinality(Columns) = 8
  <2>1. 0 \in Int /\ 7 \in Int
    OBVIOUS
  <2>2. /\ IsFiniteSet(0 .. 7)
        /\ Cardinality(0 .. 7) = IF 0 > 7 THEN 0 ELSE 7 - 0 + 1
    BY <2>1, FS_Interval, Zenon
  <2> QED
    BY <2>2 DEF Columns
<1>2. stuck.zero \in SUBSET Columns /\ stuck.one \in SUBSET Columns
  BY DEF Byte
<1>3. Sensed(byte) \in SUBSET Columns
  BY <1>2 DEF Sensed, Byte
<1>4. /\ IsFiniteSet(stuck.one) /\ Cardinality(stuck.one) \in Nat
      /\ IsFiniteSet(Sensed(byte)) /\ Cardinality(Sensed(byte)) \in Nat
      /\ IsFiniteSet(stuck.zero) /\ Cardinality(stuck.zero) \in Nat
  BY <1>1, <1>2, <1>3, FS_Subset, FS_CardinalityType
<1>5. CASE i \in byte
  <2>1. Columns \ stuck.zero \in SUBSET Sensed(byte)
    BY <1>5 DEF Sensed, Agree
  <2>2. Columns \cap stuck.zero = stuck.zero
    BY <1>2
  <2>3. Cardinality(Columns \ stuck.zero) = Cardinality(Columns) - Cardinality(Columns \cap stuck.zero)
    BY <1>1, FS_Difference, Zenon
  <2>4. Cardinality(Columns \ stuck.zero) <= Cardinality(Sensed(byte))
    BY <1>4, <2>1, FS_Subset
  <2> QED
    BY <1>1, <1>4, <1>5, <2>2, <2>3, <2>4 DEF majorityVote
<1>6. CASE i \notin byte
  <2>1. Sensed(byte) \in SUBSET stuck.one
    BY <1>6 DEF Sensed, Agree, Byte
  <2>2. Cardinality(Sensed(byte)) <= Cardinality(stuck.one)
    BY <1>4, <2>1, FS_Subset
  <2> QED
    BY <1>4, <1>6, <2>2 DEF majorityVote
<1> QED
  BY <1>5, <1>6

\* Up to four columns that always read 0 and three that always read 1 do not
\* change what PUSH_OUT and RAISE take from a byte (majorityVote in cpu.cpp).
THEOREM VoteIsRight == ASSUME ReadsAfterProgram, ProgramsAfterEdit PROVE Spec => []VoteTolerates
<1>1. IInv /\ ReadsProgrammed /\ ReplicasAgree => VoteTolerates
  <2> SUFFICES ASSUME IInv, ReadsProgrammed, ReplicasAgree, serving, Healthy,
                      Cardinality(stuck.zero) <= 4, Cardinality(stuck.one) <= 3,
                      NEW fetch \in Fetched,
                      NEW i \in Columns \ (stuck.zero \cup stuck.one),
                      fetch.failed = {}, fetch.word.code \in {"PUSH_OUT", "RAISE"}
               PROVE  majorityVote(page[fetch.word.from]) <=> i \in flash[cur][fetch.word.from]
    BY DEF VoteTolerates
  <2>1. page[fetch.word.from] = Sensed(flash[cur][fetch.word.from])
    BY DEF ReadsProgrammed, Readers
  <2>2. fetch.word.from \in Cells
    BY FetchedOperands
  <2>3. cur \in Page /\ flash \in [Page -> [Cells -> Byte]] /\ stuck \in StuckSets
    BY DEF IInv, TypeOK, ControlType, DataType
  <2>4. flash[cur][fetch.word.from] \in Byte /\ Agree(flash[cur][fetch.word.from])
    BY <2>2, <2>3 DEF ReplicasAgree
  <2>5. stuck \in [zero : Byte, one : Byte]
    BY <2>3, CpuAssumption
  <2> QED
    BY <2>1, <2>4, <2>5, VoteOutvotes
<1> QED
  BY <1>1, InvariantHolds, ReadersSeeFlash, ReplicasStayEqual, PTL
-----------------------------------------------------------------------------
(***************************************************************************)
(* The image that ROM.cpp generates.  From here on the microprogram is the *)
(* one of RomImage, for any width the netlist is defined for, and what is  *)
(* proved is what the rounds compute: the page, in a column that works, is *)
(* the content of FlashRound after as many program steps as the program    *)
(* counter has passed.                                                     *)
(***************************************************************************)

\* A column that works, the page as it holds it, and the program operations among
\* the first r words.
Free == CHOOSE i \in Columns \ (stuck.zero \cup stuck.one) : TRUE
Content == [c \in Cells |-> Free \in flash[cur][c]]
Done(r) == Cardinality({k \in 1 .. r : Rom[k].code = "PRG_NAND"})

\* The round of FlashRound that the instructions carry out.
Round == INSTANCE FlashRoundProofs WITH NoResp <- NoJob, resp <- NoJob, programs <- Done(pc), content <- Content

\* The microprogram is the image of RomImage.
Generated == Round!NetlistAssumption /\ Cells = Round!Cell /\ Rom = Round!Image

NSlots == LANES * DIGIT

\* The assumptions of the modules that Round is an instance of.
LEMMA RoundFacts ==
    ASSUME Generated
    PROVE  Round!GeometryAssumption /\ Round!RoundAssumption /\ Round!NetlistAssumption
<1>1. Round!GeometryAssumption
  BY GeometryAssumption DEF Round!GeometryAssumption
<1>2. Round!RoundAssumption
  BY CpuAssumption DEF Round!RoundAssumption, Round!Lane, Round!Word, Lane, Word
<1> QED
  BY <1>1, <1>2 DEF Generated

LEMMA RoundNames ==
    ASSUME Generated
    PROVE  /\ Round!Lane = Lane /\ Round!Word = Word /\ Round!Slots = 0 .. NSlots - 1 /\ Round!Bits = 0 .. DIGIT - 1
           /\ \A r : Done(r) = Round!StepsDone(r)
           /\ Round!InputEnd = 2 + NSlots /\ Round!InputEnd \in Nat /\ Round!StepsEnd \in Nat
           /\ Round!InputEnd <= Round!StepsEnd
           /\ Len(Rom) = Round!StepsEnd + NSlots + LANES
           /\ NSlots \in Nat \ {0}
<1>1. Round!Lane = Lane /\ Round!Word = Word /\ Round!Slots = 0 .. NSlots - 1 /\ Round!Bits = 0 .. DIGIT - 1
  BY DEF Round!Lane, Round!Word, Lane, Word, Round!Slots, Round!Bits, NSlots
<1>2. \A r : Done(r) = Round!StepsDone(r)
  <2>1. TAKE r
  <2>2. Rom = Round!Image
    BY DEF Generated
  <2> QED
    BY <2>2, Zenon DEF Done, Round!StepsDone, Cardinality, Round!Cardinality
<1>3. Round!InputEnd = 2 + NSlots
  BY DEF Round!InputEnd, NSlots
<1>4. /\ Len(Round!Image) = Round!StepsEnd + NSlots + LANES
      /\ Round!InputEnd \in Nat /\ Round!StepsEnd \in Nat /\ Round!InputEnd <= Round!StepsEnd
  BY RoundFacts, Round!ImageLayout DEF NSlots
<1>5. NSlots \in Nat \ {0}
  BY RoundFacts, Round!Division DEF NSlots
<1> QED
  BY <1>1, <1>2, <1>3, <1>4, <1>5 DEF Generated

\* The words of the image, in the order of the round.
LEMMA Wired ==
    ASSUME Generated
    PROVE  /\ Rom[1].code = "CAP_IN" /\ Rom[Round!InputEnd].code = "PRG_NAND"
           /\ \A g \in 0 .. NSlots - 1 : /\ Rom[2 + g].code = "GET_IN"
                                         /\ Rom[2 + g].from = Round!SlotA(g) /\ Rom[2 + g].dest = Round!SlotB(g)
           /\ \A g \in 0 .. NSlots - 1 :
                 LET w == Rom[Round!StepsEnd + 1 + g]
                 IN  w.code = "PUSH_OUT" /\ w.dest = g \div DIGIT /\ w.from = Round!Sum(g \div DIGIT, g % DIGIT).cell
           /\ \A l \in Lane : LET w == Rom[Round!StepsEnd + NSlots + 1 + l]
                              IN  w.code = "RAISE" /\ w.dest = l /\ w.from = Round!IsJmp(l).cell
<1>1. Round!Lane = Lane /\ Round!Slots = 0 .. NSlots - 1
  BY RoundNames
<1>2. /\ Round!Image[1].code = "CAP_IN" /\ Round!Same(Round!Image[Round!InputEnd], Round!PRG)
      /\ \A g \in Round!Slots : Round!Same(Round!Image[2 + g], Round!SlotOp("GET_IN", g))
      /\ \A g \in Round!Slots : Round!Same(Round!Image[Round!StepsEnd + 1 + g], Round!SlotOp("PUSH_OUT", g))
      /\ \A l \in Round!Lane : Round!Same(Round!Image[Round!StepsEnd + (LANES * DIGIT) + 1 + l],
                                          Round!Op("RAISE", l, Round!IsJmp(l).cell))
  BY RoundFacts, Round!ImageLayout
<1>3. Round!PRG.code = "PRG_NAND"
  BY RoundFacts, Round!PRGType
<1>4. Rom[1].code = "CAP_IN" /\ Rom[Round!InputEnd].code = "PRG_NAND"
  BY <1>2, <1>3 DEF Generated, Round!Same
<1>5. ASSUME NEW g \in 0 .. NSlots - 1
      PROVE  Rom[2 + g].code = "GET_IN" /\ Rom[2 + g].from = Round!SlotA(g) /\ Rom[2 + g].dest = Round!SlotB(g)
  <2>1. Round!Same(Rom[2 + g], Round!SlotOp("GET_IN", g))
    BY <1>1, <1>2 DEF Generated
  <2> QED
    BY <2>1 DEF Round!Same, Round!SlotOp, Round!Op, Round!SlotA, Round!SlotB
<1>6. ASSUME NEW g \in 0 .. NSlots - 1, NEW w, w = Rom[Round!StepsEnd + 1 + g]
      PROVE  w.code = "PUSH_OUT" /\ w.dest = g \div DIGIT /\ w.from = Round!Sum(g \div DIGIT, g % DIGIT).cell
  <2>1. Round!Same(w, Round!SlotOp("PUSH_OUT", g))
    BY <1>1, <1>2, <1>6 DEF Generated
  <2> QED
    BY <2>1 DEF Round!Same, Round!SlotOp, Round!Op
<1>7. ASSUME NEW l \in Lane, NEW w, w = Rom[Round!StepsEnd + NSlots + 1 + l]
      PROVE  w.code = "RAISE" /\ w.dest = l /\ w.from = Round!IsJmp(l).cell
  <2>1. Round!Same(w, Round!Op("RAISE", l, Round!IsJmp(l).cell))
    BY <1>1, <1>2, <1>7 DEF Generated, NSlots
  <2> QED
    BY <2>1 DEF Round!Same, Round!Op
<1> QED
  BY <1>4, <1>5, <1>6, <1>7

\* The image reads only what it has programmed since it last edited it.
LEMMA ImageReadsBack == ASSUME Generated PROVE ReadsAfterProgram
<1>1. SUFFICES ASSUME NEW i \in 1 .. Len(Rom), Rom[i].code \in Readers PROVE Shown(Rom[i].from, i - 1)
  BY DEF ReadsAfterProgram
<1>2. PICK q \in Round!InputEnd .. i - 1 :
          /\ Rom[q].code = "PRG_NAND"
          /\ \A k \in q .. i - 1 : /\ Rom[k].code # "GET_IN"
                                   /\ Rom[k].code \in {"MOV", "INV_MOV"} => Rom[k].dest # Rom[i].from
  <2> DEFINE Served(p) ==
        \E q \in Round!InputEnd .. p - 1 :
          /\ Round!Image[q].code = "PRG_NAND"
          /\ \A k \in q .. p - 1 :
                /\ Round!Image[k].code # "GET_IN"
                /\ Round!Image[k].code \in {"MOV", "INV_MOV"} => Round!Image[k].dest # Round!Image[p].from
  <2>1. i \in 1 .. Len(Round!Image) /\ Round!Image[i].code \in {"MOV", "INV_MOV", "PUSH_OUT", "RAISE"}
    BY <1>1 DEF Generated, Readers
  <2>2. ASSUME NEW p \in 1 .. Len(Round!Image), Round!Image[p].code \in {"MOV", "INV_MOV", "PUSH_OUT", "RAISE"}
        PROVE  Served(p)
    BY <2>2, RoundFacts, Round!ReadsRecent
  <2>3. Served(i)
    <3> HIDE DEF Served
    <3> QED
      BY <2>1, <2>2
  <2>4. Rom = Round!Image
    BY DEF Generated
  <2> QED
    BY <2>3, <2>4
<1>3. /\ Round!InputEnd = 2 + NSlots /\ NSlots \in Nat \ {0} /\ Len(Rom) \in Nat
      /\ \A k \in 1 .. Len(Rom) : Rom[k].code \in Round!Codes
  BY RoundFacts, RoundNames, RomType, Round!ImageLayout DEF Generated
<1>4. 2 \in 1 .. i - 1 /\ q \in 2 + 1 .. i - 1
  BY <1>2, <1>3
<1>5. Edited(Rom[2]) # {}
  <2>1. 0 \in 0 .. NSlots - 1 /\ 2 + 0 = 2
    BY <1>3
  <2>2. Rom[2].code = "GET_IN"
    BY <2>1, Wired
  <2> QED
    BY <2>2 DEF Edited
<1>6. \A k \in 2 .. i - 1 : Rom[k].code # "ERASE"
  <2>1. \A k \in 2 .. i - 1 : k \in 1 .. Len(Rom)
    BY <1>3
  <2> QED
    BY <1>3, <2>1 DEF Round!Codes
<1>7. \A k \in q .. i - 1 : Rom[i].from \notin Edited(Rom[k])
  BY <1>2 DEF Edited
<1> QED
  BY <1>2, <1>4, <1>5, <1>6, <1>7 DEF Shown

-----------------------------------------------------------------------------
(* Shifting operands in and results out *)

\* How many bits of lane l the first g of the GET_INs, or of the PUSH_OUTs, move.
Turn(g, l) == IF l < g \div DIGIT THEN DIGIT ELSE IF l = g \div DIGIT THEN g % DIGIT ELSE 0

\* After i of its bits were shifted out, or in, w still holds, or already holds,
\* the others of a word.
Feeds(w, word, i) == \A k \in 1 .. DIGIT - i : w[k] = word[k + i]
Pushed(w, word, i) == \A k \in 1 .. i : w[(DIGIT - i) + k] = word[k]

LEMMA SlotNumber ==
    ASSUME NEW g \in 0 .. NSlots - 1
    PROVE  /\ g \div DIGIT \in Lane /\ g % DIGIT \in 0 .. DIGIT - 1
           /\ g = ((g \div DIGIT) * DIGIT) + (g % DIGIT)
<1>1. /\ DIGIT \in Nat \ {0} /\ LANES \in Nat \ {0} /\ g \in Nat /\ NSlots = LANES * DIGIT /\ g < NSlots
  BY GeometryAssumption DEF NSlots
<1>2. /\ g \div DIGIT \in Nat /\ g % DIGIT \in 0 .. DIGIT - 1
      /\ g = ((g \div DIGIT) * DIGIT) + (g % DIGIT)
  BY <1>1, DivMod
<1>3. g \div DIGIT < LANES
  <2>1. SUFFICES ASSUME g \div DIGIT >= LANES PROVE FALSE
    BY <1>1, <1>2
  <2>2. PICK q \in Nat, D \in Nat, L \in Nat : q = g \div DIGIT /\ D = DIGIT /\ L = LANES
    BY <1>1, <1>2
  <2>3. q = L + (q - L) /\ q - L \in Nat
    BY <2>1, <2>2
  <2>4. q * D = (L * D) + ((q - L) * D)
    BY <2>3
  <2>5. PICK x \in Nat, y \in Nat : x = (q - L) * D /\ y = L * D /\ q * D = y + x
    BY <2>3, <2>4
  <2>6. g < y
    BY <1>1, <2>2, <2>5
  <2>7. PICK r \in Nat : g = (y + x) + r
    BY <1>2, <2>2, <2>5
  <2> QED
    BY <2>6, <2>7
<1> QED
  BY <1>1, <1>2, <1>3 DEF Lane

LEMMA TurnNext ==
    ASSUME NEW g \in 0 .. NSlots - 1
    PROVE  /\ Turn(g, g \div DIGIT) = g % DIGIT /\ Turn(g + 1, g \div DIGIT) = (g % DIGIT) + 1
           /\ \A l \in Lane : l # g \div DIGIT => Turn(g + 1, l) = Turn(g, l)
<1>1. PICK q \in Nat, r \in Nat, D \in Nat \ {0} :
          q = g \div DIGIT /\ r = g % DIGIT /\ D = DIGIT /\ r < D /\ g = (q * D) + r
  BY SlotNumber, GeometryAssumption DEF Lane
<1>2. Lane \subseteq Nat
  BY GeometryAssumption DEF Lane
<1>3. CASE r + 1 < D
  <2>1. g + 1 = (q * D) + (r + 1) /\ r + 1 \in 0 .. D - 1
    BY <1>1, <1>3
  <2>2. (g + 1) \div D = q /\ (g + 1) % D = r + 1
    BY <2>1, DivModUnique
  <2> QED
    BY <1>1, <1>2, <2>2 DEF Turn
<1>4. CASE r + 1 = D
  <2>1. (q + 1) * D = (q * D) + D
    OBVIOUS
  <2>2. PICK n \in Nat : n = q + 1
    OBVIOUS
  <2>3. g + 1 = (n * D) + 0 /\ 0 \in 0 .. D - 1
    BY <1>1, <1>4, <2>1, <2>2
  <2>4. ((n * D) + 0) \div D = n /\ ((n * D) + 0) % D = 0
    BY <2>3, DivModUnique
  <2>5. (g + 1) \div D = q + 1 /\ (g + 1) % D = 0
    BY <2>2, <2>3, <2>4
  <2> QED
    BY <1>1, <1>2, <1>4, <2>5 DEF Turn
<1> QED
  BY <1>1, <1>3, <1>4

LEMMA TurnEnds == \A l \in Lane : Turn(0, l) = 0 /\ Turn(NSlots, l) = DIGIT
<1>1. PICK L \in Nat \ {0}, D \in Nat \ {0} : L = LANES /\ D = DIGIT
  BY GeometryAssumption
<1>2. Lane = 0 .. L - 1 /\ NSlots = (L * D) + 0 /\ 0 \in 0 .. D - 1 /\ 0 = (0 * D) + 0
  BY <1>1 DEF Lane, NSlots
<1>3. NSlots \div D = L
  BY <1>2, DivModUnique
<1>4. 0 \div D = 0 /\ 0 % D = 0
  OBVIOUS
<1> QED
  BY <1>1, <1>2, <1>3, <1>4 DEF Turn

LEMMA ShiftBits ==
    ASSUME NEW w \in Word, NEW v \in BOOLEAN
    PROVE  Shift(w, v)[DIGIT] = v /\ \A k \in 1 .. DIGIT - 1 : Shift(w, v)[k] = w[k + 1]
<1>1. w \in Seq(BOOLEAN) /\ Len(w) = DIGIT /\ DIGIT \in Nat \ {0}
  BY GeometryAssumption DEF Word
<1>2. Tail(w) \in Seq(BOOLEAN) /\ Len(Tail(w)) = DIGIT - 1 /\ \A k \in 1 .. DIGIT - 1 : Tail(w)[k] = w[k + 1]
  BY <1>1
<1>3. PICK t \in Seq(BOOLEAN) : t = Tail(w)
  BY <1>2
<1>4. Append(t, v)[Len(t) + 1] = v /\ \A k \in 1 .. Len(t) : Append(t, v)[k] = t[k]
  OBVIOUS
<1> QED
  BY <1>1, <1>2, <1>3, <1>4 DEF Shift

\* A lane that was fed the first bits of a word is fed the next one.
LEMMA FeedsNext ==
    ASSUME NEW w \in Word, NEW word \in Word, NEW i \in 0 .. DIGIT - 1, Feeds(w, word, i)
    PROVE  w[1] = word[i + 1] /\ Feeds(Shift(w, FALSE), word, i + 1)
<1>1. PICK D \in Nat \ {0} : D = DIGIT
  BY GeometryAssumption
<1>2. w[1] = word[i + 1]
  <2>1. 1 \in 1 .. D - i /\ 1 + i = i + 1
    BY <1>1
  <2> QED
    BY <1>1, <2>1 DEF Feeds
<1>3. ASSUME NEW k \in 1 .. D - (i + 1) PROVE Shift(w, FALSE)[k] = word[k + (i + 1)]
  <2>1. k \in 1 .. D - 1 /\ k + 1 \in 1 .. D - i /\ (k + 1) + i = k + (i + 1)
    BY <1>1
  <2>2. Shift(w, FALSE)[k] = w[k + 1]
    BY <1>1, <2>1, ShiftBits
  <2>3. w[k + 1] = word[(k + 1) + i]
    BY <1>1, <2>1 DEF Feeds
  <2> QED
    BY <2>1, <2>2, <2>3
<1> QED
  BY <1>1, <1>2, <1>3 DEF Feeds

LEMMA PushedNext ==
    ASSUME NEW w \in Word, NEW word, NEW i \in 0 .. DIGIT - 1, Pushed(w, word, i), NEW v \in BOOLEAN, v = word[i + 1]
    PROVE  Pushed(Shift(w, v), word, i + 1)
<1>1. PICK D \in Nat \ {0} : D = DIGIT
  BY GeometryAssumption
<1>2. ASSUME NEW k \in 1 .. i + 1 PROVE Shift(w, v)[(D - (i + 1)) + k] = word[k]
  <2>1. CASE k = i + 1
    <3>1. (D - (i + 1)) + k = D
      BY <1>1, <2>1
    <3> QED
      BY <1>1, <2>1, <3>1, ShiftBits
  <2>2. CASE k # i + 1
    <3>1. k \in 1 .. i /\ (D - (i + 1)) + k \in 1 .. D - 1 /\ ((D - (i + 1)) + k) + 1 = (D - i) + k
      BY <1>1, <2>2
    <3>2. Shift(w, v)[(D - (i + 1)) + k] = w[((D - (i + 1)) + k) + 1]
      BY <1>1, <3>1, ShiftBits
    <3>3. w[(D - i) + k] = word[k]
      BY <1>1, <3>1 DEF Pushed
    <3> QED
      BY <3>1, <3>2, <3>3
  <2> QED
    BY <2>1, <2>2
<1> QED
  BY <1>1, <1>2 DEF Pushed

LEMMA PushedAll ==
    ASSUME NEW w \in Word, NEW word \in Word, Pushed(w, word, DIGIT)
    PROVE  w = word
<1>1. PICK D \in Nat \ {0} : D = DIGIT
  BY GeometryAssumption
<1>2. ASSUME NEW k \in 1 .. D PROVE w[k] = word[k]
  <2>1. (D - D) + k = k
    OBVIOUS
  <2> QED
    BY <1>1, <2>1 DEF Pushed
<1> QED
  BY <1>1, <1>2 DEF Word
-----------------------------------------------------------------------------
(* A column that works *)

\* As many stuck columns as the vote outvotes.
Tolerable == \A s \in StuckSets : Cardinality(s.zero) <= 4 /\ Cardinality(s.one) <= 3

\* What column Free holds of a page or a buffer of it.
Column(buf) == [c \in Cells |-> Free \in buf[c]]

LEMMA FreeWorks ==
    ASSUME Tolerable, stuck \in StuckSets
    PROVE  Free \in Columns \ (stuck.zero \cup stuck.one)
<1>1. IsFiniteSet(Columns) /\ Cardinality(Columns) = 8
  <2>1. 0 \in Int /\ 7 \in Int
    OBVIOUS
  <2>2. /\ IsFiniteSet(0 .. 7)
        /\ Cardinality(0 .. 7) = IF 0 > 7 THEN 0 ELSE 7 - 0 + 1
    BY <2>1, FS_Interval, Zenon
  <2> QED
    BY <2>2 DEF Columns
<1>2. PICK z, o : z = stuck.zero /\ o = stuck.one /\ Cardinality(z) <= 4 /\ Cardinality(o) <= 3
                  /\ z \in SUBSET Columns /\ o \in SUBSET Columns
  <2>1. stuck \in [zero : Byte, one : Byte]
    BY CpuAssumption
  <2> QED
    BY <2>1 DEF Tolerable, Byte
<1>3. /\ IsFiniteSet(z) /\ Cardinality(z) \in Nat /\ IsFiniteSet(o) /\ Cardinality(o) \in Nat
      /\ IsFiniteSet(z \cap o) /\ Cardinality(z \cap o) \in Nat
  <2>1. z \cap o \in SUBSET Columns
    BY <1>2
  <2> QED
    BY <1>1, <1>2, <2>1, FS_Subset, FS_CardinalityType
<1>4. Cardinality(z \cup o) = Cardinality(z) + Cardinality(o) - Cardinality(z \cap o)
  BY <1>3, FS_Union, Zenon
<1>5. z \cup o # Columns
  <2>1. Cardinality(z \cup o) <= 7
    BY <1>2, <1>3, <1>4
  <2> QED
    BY <1>1, <2>1
<1>6. \E i : i \in Columns \ (z \cup o)
  BY <1>2, <1>5
<1> QED
  BY <1>2, <1>6 DEF Free

LEMMA FreeBits ==
    ASSUME Free \in Columns \ (stuck.zero \cup stuck.one)
    PROVE  /\ \A byte : Free \in Sensed(byte) <=> Free \in byte
           /\ \A byte : Free \in Inverted(byte) <=> ~(Free \in byte)
           /\ \A v \in BOOLEAN : Free \in Replicate(v) <=> v
           /\ \A c \in Cells : Free \in Blank[c]
BY DEF Sensed, Inverted, Replicate, Blank

-----------------------------------------------------------------------------
(* What the instructions keep true on the way *)

\* A round in which nothing has failed, nor in the one before.

Running == serving /\ since = 2

\* A round that runs has a batch, and without a failure it runs on erased pages.
JobInv == (serving => job \in Jobs) /\ (Running => eraseOk)

\* The words of the image by their opcode.
LEMMA Words ==
    ASSUME Generated, NEW p \in 0 .. Len(Rom) - 1, NEW w, w = Rom[p + 1]
    PROVE  /\ w.code = "CAP_IN" => p = 0
           /\ w.code = "GET_IN" => \E g \in 0 .. NSlots - 1 : p = 1 + g /\ w.from = Round!SlotA(g) /\ w.dest = Round!SlotB(g)
           /\ w.code = "PRG_NAND" => p + 1 \in Round!InputEnd .. Round!StepsEnd
           /\ w.code \in {"MOV", "INV_MOV"} => p + 1 \in Round!InputEnd + 1 .. Round!StepsEnd
           /\ w.code = "PUSH_OUT" => \E g \in 0 .. NSlots - 1 : /\ p = Round!StepsEnd + g
                                                                /\ w.dest = g \div DIGIT
                                                                /\ w.from = Round!Sum(g \div DIGIT, g % DIGIT).cell
           /\ w.code = "RAISE" => \E l \in Lane : /\ p = Round!StepsEnd + NSlots + l
                                                  /\ w.dest = l /\ w.from = Round!IsJmp(l).cell
           /\ w.code # "ERASE"
<1>1. PICK F \in Nat, E \in Nat, N \in Nat \ {0} :
          F = Round!InputEnd /\ E = Round!StepsEnd /\ N = NSlots /\ F <= E
  BY RoundNames
<1>2. Round!Slots = 0 .. N - 1 /\ Round!Lane = Lane /\ LANES * DIGIT = N /\ Len(Rom) \in Nat
  BY <1>1, RoundNames, RomType DEF NSlots
<1>3. PICK q : q = p + 1 /\ q \in 1 .. Len(Rom)
  BY <1>2
<1>4. w = Round!Image[q] /\ q \in 1 .. Len(Round!Image)
  BY <1>3 DEF Generated
<1>5. \/ q = 1 /\ Round!Image[q].code = "CAP_IN"
      \/ \E g \in Round!Slots : q = 2 + g /\ Round!Same(Round!Image[q], Round!SlotOp("GET_IN", g))
      \/ q = Round!InputEnd /\ Round!Same(Round!Image[q], Round!PRG)
      \/ q \in Round!InputEnd + 1 .. Round!StepsEnd /\ Round!Image[q].code \in {"PRG_NAND", "MOV", "INV_MOV"}
      \/ \E g \in Round!Slots : q = Round!StepsEnd + 1 + g /\ Round!Same(Round!Image[q], Round!SlotOp("PUSH_OUT", g))
      \/ \E l \in Round!Lane : /\ q = Round!StepsEnd + (LANES * DIGIT) + 1 + l
                               /\ Round!Same(Round!Image[q], Round!Op("RAISE", l, Round!IsJmp(l).cell))
  BY <1>4, RoundFacts, Round!WordAt
<1>6. Round!PRG.code = "PRG_NAND"
  BY RoundFacts, Round!PRGType
<1>7. CASE q = 1 /\ w.code = "CAP_IN"
  BY <1>3, <1>7
<1>8. ASSUME NEW g \in 0 .. N - 1, q = 2 + g, Round!Same(w, Round!SlotOp("GET_IN", g))
      PROVE  w.code = "GET_IN" /\ p = 1 + g /\ w.from = Round!SlotA(g) /\ w.dest = Round!SlotB(g)
  <2>1. p = 1 + g
    BY <1>3, <1>8
  <2> QED
    BY <1>8, <2>1 DEF Round!Same, Round!SlotOp, Round!Op, Round!SlotA, Round!SlotB
<1>9. CASE q = F /\ Round!Same(w, Round!PRG)
  <2>1. p + 1 \in F .. E
    BY <1>1, <1>3, <1>9
  <2> QED
    BY <1>1, <1>6, <1>9, <2>1 DEF Round!Same
<1>10. CASE q \in F + 1 .. E /\ w.code \in {"PRG_NAND", "MOV", "INV_MOV"}
  BY <1>1, <1>3, <1>10
<1>11. ASSUME NEW g \in 0 .. N - 1, q = E + 1 + g, Round!Same(w, Round!SlotOp("PUSH_OUT", g))
       PROVE  w.code = "PUSH_OUT" /\ p = E + g /\ w.dest = g \div DIGIT /\ w.from = Round!Sum(g \div DIGIT, g % DIGIT).cell
  <2>1. p = E + g
    BY <1>1, <1>3, <1>11
  <2> QED
    BY <1>11, <2>1 DEF Round!Same, Round!SlotOp, Round!Op
<1>12. ASSUME NEW l \in Lane, q = E + N + 1 + l, Round!Same(w, Round!Op("RAISE", l, Round!IsJmp(l).cell))
       PROVE  w.code = "RAISE" /\ p = E + N + l /\ w.dest = l /\ w.from = Round!IsJmp(l).cell
  <2>1. p = E + N + l
    BY <1>1, <1>3, <1>12, GeometryAssumption DEF Lane
  <2> QED
    BY <1>12, <2>1 DEF Round!Same, Round!Op
<1>13. \/ q = 1 /\ w.code = "CAP_IN"
       \/ \E g \in 0 .. N - 1 : q = 2 + g /\ Round!Same(w, Round!SlotOp("GET_IN", g))
       \/ q = F /\ Round!Same(w, Round!PRG)
       \/ q \in F + 1 .. E /\ w.code \in {"PRG_NAND", "MOV", "INV_MOV"}
       \/ \E g \in 0 .. N - 1 : q = E + 1 + g /\ Round!Same(w, Round!SlotOp("PUSH_OUT", g))
       \/ \E l \in Lane : q = E + N + 1 + l /\ Round!Same(w, Round!Op("RAISE", l, Round!IsJmp(l).cell))
  BY <1>1, <1>2, <1>4, <1>5
<1>14. CASE \E g \in 0 .. N - 1 : q = 2 + g /\ Round!Same(w, Round!SlotOp("GET_IN", g))
  BY <1>1, <1>8, <1>14
<1>15. CASE \E g \in 0 .. N - 1 : q = E + 1 + g /\ Round!Same(w, Round!SlotOp("PUSH_OUT", g))
  BY <1>1, <1>11, <1>15
<1>16. CASE \E l \in Lane : q = E + N + 1 + l /\ Round!Same(w, Round!Op("RAISE", l, Round!IsJmp(l).cell))
  BY <1>1, <1>12, <1>16
<1> QED
  BY <1>7, <1>9, <1>10, <1>13, <1>14, <1>15, <1>16

\* The image programs the page only after it has edited the buffer, and reads only
\* what it has programmed since it last edited it (build_round, schedule and
\* codegen of ROM.cpp).
THEOREM ImageReads == ASSUME Generated PROVE ReadsAfterProgram /\ ProgramsAfterEdit
<1>1. ASSUME NEW i \in 1 .. Len(Rom), Rom[i].code = "PRG_NAND" PROVE \E e \in 1 .. i - 1 : Edited(Rom[e]) # {}
  <2>1. NSlots \in Nat \ {0} /\ Round!InputEnd = 2 + NSlots /\ Len(Rom) \in Nat
    BY RoundNames, RomType
  <2>2. i - 1 \in 0 .. Len(Rom) - 1 /\ (i - 1) + 1 = i
    BY <2>1
  <2>3. PICK p \in 0 .. Len(Rom) - 1 : p = i - 1
    BY <2>2
  <2>4. i \in Round!InputEnd .. Round!StepsEnd
    BY <1>1, <2>2, <2>3, Words
  <2>5. 2 \in 1 .. i - 1
    BY <2>1, <2>4, RoundNames
  <2>6. 0 \in 0 .. NSlots - 1 /\ 2 + 0 = 2
    BY <2>1
  <2>7. Edited(Rom[2]) # {}
    <3>1. Rom[2].code = "GET_IN"
      BY <2>6, Wired
    <3> QED
      BY <3>1 DEF Edited
  <2> QED
    BY <2>5, <2>7
<1> QED
  BY <1>1, ImageReadsBack DEF ProgramsAfterEdit

\* An instruction that leaves the round running without a failure.
LEMMA QuietStep ==
    ASSUME IInv, serving, NEW fetch \in Fetched, ~LastRaise(fetch.word), Advance(fetch, fetch.failed, FALSE), Running'
    PROVE  /\ Running /\ fetch.word = Rom[pc + 1] /\ fetch.failed = {} /\ pc \in 0 .. Len(Rom) - 1
           /\ pc' = pc + 1 /\ stuck' = stuck /\ job' = job
<1>1. fetch.failed \cup {} = fetch.failed /\ {} \in SUBSET FaultKinds /\ FALSE \in BOOLEAN
  OBVIOUS
<1>2. since = 2 /\ fetch.word = Rom[pc + 1] /\ fetch.failed = {} /\ pc' = pc + 1 /\ stuck' = stuck
  BY <1>1, HealthyStep DEF Running
<1>3. pc \in 0 .. Len(Rom) - 1
  BY DEF IInv, TypeOK, ControlType
<1> QED
  BY <1>2, <1>3 DEF Running, Advance

LEMMA NextJob == ASSUME IInv, JobInv, [Next]_vars PROVE JobInv'
<1>1. CASE Start
  BY <1>1 DEF Start, JobInv, Running, device
<1>2. CASE UNCHANGED vars
  BY <1>2 DEF vars, JobInv, Running, device
<1>3. ASSUME serving, job' = job, since' = since \/ since' = 0, eraseOk' = eraseOk \/ eraseOk' \/ ~serving' \/ since' = 0
      PROVE  JobInv'
  BY <1>3 DEF JobInv, Running
<1>4. CASE BlankRom
  BY <1>3, <1>4 DEF BlankRom, Executes, Advance
<1>5. CASE Mov
  BY <1>3, <1>5 DEF Mov, Executes, Advance
<1>6. CASE InvMov
  BY <1>3, <1>6 DEF InvMov, Executes, Advance
<1>7. CASE CapIn
  BY <1>3, <1>7 DEF CapIn, Executes, Advance
<1>8. CASE GetIn
  BY <1>3, <1>8 DEF GetIn, Executes, Advance
<1>9. CASE PrgNand
  BY <1>3, <1>9 DEF PrgNand, Executes, Advance
<1>10. CASE PushOut
  BY <1>3, <1>10 DEF PushOut, Executes, Advance
<1>11. CASE Raise
  <2>1. PICK fetch \in Fetched :
            /\ Executes("RAISE", fetch)
            /\ \/ LastRaise(fetch.word) /\ NextPage(fetch)
               \/ ~LastRaise(fetch.word) /\ Advance(fetch, fetch.failed, FALSE) /\ eraseOk' = eraseOk
    BY <1>11 DEF Raise
  <2>2. CASE NextPage(fetch)
    BY <1>3, <2>1, <2>2 DEF NextPage, Executes, Advance
  <2>3. CASE Advance(fetch, fetch.failed, FALSE) /\ eraseOk' = eraseOk
    BY <1>3, <2>1, <2>3 DEF Executes, Advance
  <2> QED
    BY <2>1, <2>2, <2>3
<1>12. CASE EraseOp
  <2>1. PICK fetch \in Fetched :
            /\ Executes("ERASE", fetch)
            /\ \/ Erased /\ Advance(fetch, fetch.failed, FALSE)
               \/ EraseFailed /\ Advance(fetch, fetch.failed \cup {"erase"}, FALSE)
    BY <1>12 DEF EraseOp
  <2>2. CASE Erased /\ Advance(fetch, fetch.failed, FALSE)
    BY <1>3, <2>1, <2>2 DEF Erased, Executes, Advance
  <2>3. CASE EraseFailed /\ Advance(fetch, fetch.failed \cup {"erase"}, FALSE)
    BY <1>3, <2>1, <2>3 DEF Executes, Advance
  <2> QED
    BY <2>1, <2>2, <2>3
<1> QED
  BY <1>1, <1>2, <1>4, <1>5, <1>6, <1>7, <1>8, <1>9, <1>10, <1>11, <1>12 DEF Next, Execute

-----------------------------------------------------------------------------
(* The round, phase by phase *)

\* What the next edit finds in the buffer (edit_buf), how many GET_INs are done,
\* and the operands that are still in the registers of the lanes.
Buf == IF pre = cur THEN page ELSE Blank
Got == IF pc = 0 THEN 0 ELSE pc - 1
Fed == \A l \in Lane : Feeds(inA[l], job.a[l], Turn(Got, l)) /\ Feeds(inB[l], job.b[l], Turn(Got, l))

\* While the inputs are read in, the page is blank and the buffer holds the bits
\* read so far, in the cells of the operands, and ones elsewhere.
InputInv == Running /\ pc < Round!InputEnd =>
    /\ flash[cur] = Blank /\ Fed /\ Round!Loaded(Column(Buf), job, Got)
    /\ pc > 0 => getinCnt = Got
    /\ pc > 1 => pre = cur

\* While the steps run, the page is the content of FlashRound after the program
\* operations done so far, and the buffer shows it with the edits of the step.
StepInv == Running /\ pc >= Round!InputEnd =>
    /\ Round!RoundInv /\ pre = cur
    /\ pc <= Round!StepsEnd => Round!Shows(Column(page), Content, pc)

\* While the outputs are pushed, the registers of the lanes hold the bits of the
\* answer pushed so far, and the flags those that were raised.
Moved == LET u == pc - Round!StepsEnd IN IF u < NSlots THEN u ELSE NSlots
OutInv == Running /\ pc >= Round!StepsEnd =>
    /\ \A l \in Lane : Pushed(out[l], Subtractor!Answer(job).c[l], Turn(Moved, l))
    /\ \A l \in Lane : l < pc - (Round!StepsEnd + NSlots) => isJmp[l] = Subtractor!Answer(job).jmp[l]

PhaseInv == InputInv /\ StepInv /\ OutInv

LEMMA RoundKept ==
    ASSUME Round!RoundInv, job' = job, Done(pc') = Done(pc), Content' = Content
    PROVE  Round!RoundInv'
BY DEF Round!RoundInv, Round!FlowInv, Round!PageInv, Round!AnswerType, Round!Read

LEMMA OutFirst == ASSUME Generated, pc' \in Nat, pc' <= Round!StepsEnd PROVE OutInv'
<1> SUFFICES ASSUME pc' >= Round!StepsEnd
             PROVE  /\ (\A l \in Lane : Pushed(out[l], Subtractor!Answer(job).c[l], Turn(Moved, l)))'
                    /\ (\A l \in Lane : l < pc - (Round!StepsEnd + NSlots) => isJmp[l] = Subtractor!Answer(job).jmp[l])'
  BY DEF OutInv
<1>1. PICK E \in Nat, N \in Nat \ {0} : E = Round!StepsEnd /\ N = NSlots
  BY RoundNames
<1>2. PICK p \in Nat : p = pc'
  OBVIOUS
<1>3. p = E
  BY <1>1, <1>2
<1>4. p - E = 0 /\ p - (E + N) < 0
  BY <1>3
<1>5. Moved' = 0
  <2>1. pc' - Round!StepsEnd = 0
    BY <1>1, <1>2, <1>4
  <2>2. 0 < NSlots
    BY <1>1
  <2> QED
    BY <2>1, <2>2 DEF Moved
<1>6. \A l \in Lane : ~(l < p - (E + N))
  BY <1>4, GeometryAssumption DEF Lane
<1>7. \A l \in Lane : Turn(0, l) = 0 /\ ~(l < pc' - (E + N))
  BY <1>2, <1>6, TurnEnds
<1>8. \A w, word : Pushed(w, word, 0)
  BY DEF Pushed
<1> QED
  BY <1>1, <1>5, <1>7, <1>8

\* The inputs of a job as the lanes hold them.
LEMMA JobWords == ASSUME NEW j \in Jobs PROVE j.a \in [Lane -> Word] /\ j.b \in [Lane -> Word]
BY CpuAssumption

LEMMA StartPhase == ASSUME Generated, Tolerable, IInv, BufInv, Start PROVE PhaseInv'
<1> SUFFICES ASSUME Running' PROVE PhaseInv'
  BY DEF PhaseInv, InputInv, StepInv, OutInv
<1>1. /\ job' \in Jobs /\ inA' = job'.a /\ inB' = job'.b
      /\ UNCHANGED <<pc, page, pre, cur, flash, stuck>> /\ ~serving /\ eraseOk /\ since >= 1 /\ since \in 0 .. 2
  BY DEF Start, device, Running, IInv, TypeOK, ControlType
<1>2. pc = 0 /\ flash[cur] = Blank
  BY <1>1 DEF IInv, AtRest
<1>3. PICK F \in Nat, E \in Nat : F = Round!InputEnd /\ E = Round!StepsEnd /\ 0 < F /\ F <= E
  BY RoundNames
<1>4. Got' = 0
  BY <1>1, <1>2 DEF Got
<1>5. Fed'
  <2>1. ASSUME NEW w \in Word PROVE Feeds(w, w, 0)
    <3>1. DIGIT - 0 = DIGIT /\ \A k \in 1 .. DIGIT : k + 0 = k
      BY GeometryAssumption
    <3> QED
      BY <3>1 DEF Feeds
  <2>2. ASSUME NEW l \in Lane
        PROVE  Feeds(inA'[l], job'.a[l], Turn(0, l)) /\ Feeds(inB'[l], job'.b[l], Turn(0, l))
    <3>1. Turn(0, l) = 0 /\ job'.a[l] \in Word /\ job'.b[l] \in Word
      BY <1>1, TurnEnds, JobWords
    <3> QED
      BY <1>1, <2>1, <3>1
  <2> QED
    BY <1>4, <2>2 DEF Fed
<1>6. Round!Loaded(Column(Buf), job, Got)'
  <2>1. pre \in Int /\ cur \in Int
    BY CpuAssumption DEF IInv, TypeOK, DataType, Page
  <2>2. Free \in Columns \ (stuck.zero \cup stuck.one) /\ Free' = Free
    BY <1>1, FreeWorks DEF IInv, TypeOK, ControlType, Free
  <2>3. \A c \in Cells : Free \in Blank[c]
    BY <2>2, FreeBits
  <2>4. pre = cur => \A c \in Cells : Free \in page[c]
    BY <1>1, <2>1, <2>2 DEF BufInv, Clean, Working
  <2>5. PICK b : b = Column(Buf)' /\ \A c \in Cells : b[c] = TRUE
    <3>1. \A c \in Cells : Free' \in Buf'[c]
      BY <1>1, <2>2, <2>3, <2>4 DEF Buf
    <3>2. Column(Buf)' = [c \in Cells |-> Free' \in Buf'[c]]
      BY DEF Column
    <3>3. \A c \in Cells : Column(Buf)'[c] = TRUE
      BY <3>1, <3>2
    <3> QED
      BY <3>3
  <2>6. \A c \in Round!Cell : b[c] = TRUE
    BY <2>5 DEF Generated
  <2>7. Round!Loaded(b, job', 0)
    BY <2>6, RoundFacts, Round!LoadedFirst
  <2> QED
    BY <1>4, <2>5, <2>7 DEF Round!Loaded
<1>7. InputInv'
  BY <1>1, <1>2, <1>5, <1>6 DEF InputInv
<1>8. StepInv'
  BY <1>1, <1>2, <1>3 DEF StepInv
<1>9. OutInv'
  BY <1>1, <1>2, <1>3, OutFirst
<1> QED
  BY <1>7, <1>8, <1>9 DEF PhaseInv

LEMMA CapInPhase ==
    ASSUME Generated, IInv, PhaseInv, serving, NEW fetch \in Fetched, fetch.word.code = "CAP_IN",
           getinCnt' = 0, Advance(fetch, fetch.failed, FALSE), UNCHANGED <<page, pre, cur, inA, inB, flash>>
    PROVE  PhaseInv'
<1> SUFFICES ASSUME Running' PROVE PhaseInv'
  BY DEF PhaseInv, InputInv, StepInv, OutInv
<1>1. /\ Running /\ fetch.word = Rom[pc + 1] /\ pc \in 0 .. Len(Rom) - 1
      /\ pc' = pc + 1 /\ stuck' = stuck /\ job' = job
  BY QuietStep DEF LastRaise
<1>2. pc = 0
  BY <1>1, Words
<1>3. PICK F \in Nat, E \in Nat : F = Round!InputEnd /\ E = Round!StepsEnd /\ 2 < F /\ F <= E
  BY RoundNames
<1>4. pc' = 1 /\ Got = 0 /\ Got' = 0
  BY <1>1, <1>2 DEF Got
<1>5. flash[cur] = Blank /\ Fed /\ Round!Loaded(Column(Buf), job, 0)
  BY <1>1, <1>2, <1>3, <1>4 DEF PhaseInv, InputInv
<1>6. Fed'
  BY <1>1, <1>4, <1>5 DEF Fed
<1>7. Column(Buf)' = Column(Buf)
  BY <1>1 DEF Column, Buf, Free
<1>8. Round!Loaded(Column(Buf), job, Got)'
  BY <1>1, <1>4, <1>5, <1>7 DEF Round!Loaded
<1>9. InputInv'
  BY <1>4, <1>5, <1>6, <1>8 DEF InputInv
<1>10. StepInv' /\ OutInv'
  BY <1>3, <1>4 DEF StepInv, OutInv
<1> QED
  BY <1>9, <1>10 DEF PhaseInv

LEMMA SlotsApart ==
    ASSUME NEW g
    PROVE  Round!SlotA(g) # Round!SlotB(g)
<1>1. Round!SlotA(g)[2] = "a" /\ Round!SlotB(g)[2] = "b"
  BY DEF Round!SlotA, Round!SlotB, Round!A, Round!B, Round!Sig
<1> QED
  BY <1>1

LEMMA GetInPhase ==
    ASSUME Generated, Tolerable, IInv, JobInv, PhaseInv, serving,
           NEW fetch \in Fetched, fetch.word.code = "GET_IN",
           getinCnt' = getinCnt + 1,
           page' = [EditBuf(fetch.word.from, Replicate(inA[GetInLane][1]))
                       EXCEPT ![fetch.word.dest] = Replicate(inB[GetInLane][1])],
           pre' = cur,
           inA' = [inA EXCEPT ![GetInLane] = Shift(inA[GetInLane], FALSE)],
           inB' = [inB EXCEPT ![GetInLane] = Shift(inB[GetInLane], FALSE)],
           Advance(fetch, fetch.failed, FALSE), UNCHANGED <<cur, flash>>
    PROVE  PhaseInv'
<1> SUFFICES ASSUME Running' PROVE PhaseInv'
  BY DEF PhaseInv, InputInv, StepInv, OutInv
<1>1. /\ Running /\ fetch.word = Rom[pc + 1] /\ pc \in 0 .. Len(Rom) - 1
      /\ pc' = pc + 1 /\ stuck' = stuck /\ job' = job
  BY QuietStep DEF LastRaise
<1>2. PICK g \in 0 .. NSlots - 1 :
          pc = 1 + g /\ fetch.word.from = Round!SlotA(g) /\ fetch.word.dest = Round!SlotB(g)
  BY <1>1, Words
<1>3. PICK F \in Nat, E \in Nat, N \in Nat \ {0} :
          F = Round!InputEnd /\ E = Round!StepsEnd /\ N = NSlots /\ F = 2 + N /\ F <= E
  BY RoundNames
<1>4. g \in Nat /\ pc < Round!InputEnd /\ pc' > 1 /\ pc' < Round!InputEnd /\ pc' < Round!StepsEnd /\ Got = g /\ Got' = g + 1 /\ pc > 0
  <2>1. g \in 0 .. N - 1
    BY <1>3
  <2>2. pc' = 2 + g /\ pc = 1 + g
    BY <1>1, <1>2, <2>1
  <2>3. Got = g /\ Got' = g + 1
    BY <2>1, <2>2 DEF Got
  <2> QED
    BY <1>3, <2>1, <2>2, <2>3
<1>5. flash[cur] = Blank /\ Fed /\ Round!Loaded(Column(Buf), job, Got) /\ getinCnt = Got
  BY <1>1, <1>4 DEF PhaseInv, InputInv
<1>6. PICK l \in Lane, r \in 0 .. DIGIT - 1 :
          l = g \div DIGIT /\ r = g % DIGIT /\ Turn(g, l) = r /\ Turn(g + 1, l) = r + 1
          /\ \A m \in Lane : m # l => Turn(g + 1, m) = Turn(g, m)
  BY SlotNumber, TurnNext
<1>7. GetInLane = l
  <2>1. getinCnt = g
    BY <1>4, <1>5
  <2>2. ~(g \div DIGIT >= LANES)
    BY <1>6, GeometryAssumption DEF Lane
  <2> QED
    BY <1>6, <2>1, <2>2 DEF GetInLane
<1>8. /\ inA \in [Lane -> Word] /\ inB \in [Lane -> Word] /\ page \in [Cells -> Byte] /\ cur \in Page
      /\ job \in Jobs /\ job.a[l] \in Word /\ job.b[l] \in Word /\ stuck \in StuckSets
  BY <1>1, JobWords DEF IInv, TypeOK, ControlType, DataType, JobInv
<1>9. \A m \in Lane : Feeds(inA[m], job.a[m], Turn(g, m)) /\ Feeds(inB[m], job.b[m], Turn(g, m))
  BY <1>4, <1>5 DEF Fed
<1>10. /\ inA[l][1] = job.a[l][r + 1] /\ inB[l][1] = job.b[l][r + 1]
       /\ Feeds(Shift(inA[l], FALSE), job.a[l], r + 1) /\ Feeds(Shift(inB[l], FALSE), job.b[l], r + 1)
  <2>1. Feeds(inA[l], job.a[l], r) /\ Feeds(inB[l], job.b[l], r)
    BY <1>6, <1>9
  <2>2. inA[l] \in Word /\ inB[l] \in Word
    BY <1>8
  <2> QED
    BY <1>8, <2>1, <2>2, FeedsNext
<1>11. \A m \in Lane : Feeds(inA'[m], job.a[m], Turn(g + 1, m)) /\ Feeds(inB'[m], job.b[m], Turn(g + 1, m))
  <2>1. TAKE m \in Lane
  <2>2. CASE m = l
    <3>1. inA'[l] = Shift(inA[l], FALSE) /\ inB'[l] = Shift(inB[l], FALSE)
      BY <1>7, <1>8
    <3> QED
      BY <1>6, <1>10, <2>2, <3>1
  <2>3. CASE m # l
    <3>1. inA'[m] = inA[m] /\ inB'[m] = inB[m]
      BY <1>7, <1>8, <2>3
    <3>2. Turn(g + 1, m) = Turn(g, m)
      BY <1>6, <2>3
    <3> QED
      BY <1>9, <3>1, <3>2
  <2> QED
    BY <2>2, <2>3
<1>12. Fed'
  BY <1>1, <1>4, <1>11 DEF Fed
<1>13. fetch.word.from \in Cells /\ fetch.word.dest \in Cells /\ fetch.word.from # fetch.word.dest
  BY <1>2, FetchedOperands, SlotsApart
<1>14. /\ page'[fetch.word.from] = Replicate(job.a[l][r + 1]) /\ page'[fetch.word.dest] = Replicate(job.b[l][r + 1])
       /\ \A c \in Cells : c # fetch.word.from /\ c # fetch.word.dest => page'[c] = Buf[c]
  <2>1. Buf \in [Cells -> Byte]
    BY <1>8, BlankType DEF Buf
  <2>2. page' = [[Buf EXCEPT ![fetch.word.from] = Replicate(job.a[l][r + 1])]
                     EXCEPT ![fetch.word.dest] = Replicate(job.b[l][r + 1])]
    BY <1>7, <1>10 DEF EditBuf, Buf
  <2> QED
    BY <1>13, <2>1, <2>2
<1>15. Buf' = page' /\ Free' = Free
  BY <1>1 DEF Buf, Free
<1>16. PICK buf, new : buf = Column(Buf) /\ new = Column(Buf)'
  OBVIOUS
<1>17. \A c \in Cells : (buf[c] <=> Free \in Buf[c]) /\ (new[c] <=> Free \in page'[c])
  BY <1>15, <1>16 DEF Column
<1>18. Free \in Columns \ (stuck.zero \cup stuck.one)
  BY <1>8, FreeWorks
<1>19. /\ new[Round!SlotA(g)] <=> job.a[l][r + 1]
       /\ new[Round!SlotB(g)] <=> job.b[l][r + 1]
  <2>1. job.a[l][r + 1] \in BOOLEAN /\ job.b[l][r + 1] \in BOOLEAN
    <3>1. r + 1 \in 1 .. DIGIT
      BY GeometryAssumption
    <3> QED
      BY <1>8, <3>1 DEF Word
  <2>2. Free \in Replicate(job.a[l][r + 1]) <=> job.a[l][r + 1]
    BY <1>18, <2>1, FreeBits
  <2>3. Free \in Replicate(job.b[l][r + 1]) <=> job.b[l][r + 1]
    BY <1>18, <2>1, FreeBits
  <2>4. new[fetch.word.from] <=> job.a[l][r + 1]
    BY <1>13, <1>14, <1>17, <2>2
  <2>5. new[fetch.word.dest] <=> job.b[l][r + 1]
    BY <1>13, <1>14, <1>17, <2>3
  <2> QED
    BY <1>2, <2>4, <2>5
<1>20. \A c \in Round!Cell : c # Round!SlotA(g) /\ c # Round!SlotB(g) => (new[c] <=> buf[c])
  BY <1>2, <1>14, <1>17 DEF Generated
<1>21. Round!Loaded(new, job, g + 1)
  <2>1. g \in Round!Slots /\ Round!Loaded(buf, job, g)
    BY <1>4, <1>5, <1>16, RoundNames
  <2>2. /\ new[Round!SlotA(g)] <=> job.a[g \div DIGIT][(g % DIGIT) + 1]
        /\ new[Round!SlotB(g)] <=> job.b[g \div DIGIT][(g % DIGIT) + 1]
    BY <1>6, <1>19
  <2> QED
    BY <1>8, <1>20, <2>1, <2>2, RoundFacts, Round!LoadedNext
<1>22. Round!Loaded(Column(Buf), job, Got)'
  BY <1>1, <1>4, <1>16, <1>21 DEF Round!Loaded
<1>23. InputInv'
  <2>1. getinCnt' = Got'
    BY <1>4, <1>5
  <2>2. flash'[cur'] = Blank /\ pre' = cur'
    BY <1>5
  <2> QED
    BY <1>12, <1>22, <2>1, <2>2 DEF InputInv
<1>24. StepInv' /\ OutInv'
  <2>1. pc' \in Int /\ Round!InputEnd \in Int /\ Round!StepsEnd \in Int
    BY <1>1, <1>3
  <2>2. ~(pc' >= Round!InputEnd) /\ ~(pc' >= Round!StepsEnd)
    BY <1>4, <2>1
  <2> QED
    BY <2>2 DEF StepInv, OutInv
<1> QED
  BY <1>23, <1>24 DEF PhaseInv

LEMMA EditPhase ==
    ASSUME Generated, Tolerable, IInv, PhaseInv, serving,
           NEW fetch \in Fetched, fetch.word.code \in {"MOV", "INV_MOV"},
           page' = EditBuf(fetch.word.dest, IF fetch.word.code = "MOV" THEN page[fetch.word.from]
                                                                    ELSE Inverted(page[fetch.word.from])),
           pre' = cur, Advance(fetch, fetch.failed, FALSE), UNCHANGED <<cur, flash>>
    PROVE  PhaseInv'
<1> SUFFICES ASSUME Running' PROVE PhaseInv'
  BY DEF PhaseInv, InputInv, StepInv, OutInv
<1>1. /\ Running /\ fetch.word = Rom[pc + 1] /\ pc \in 0 .. Len(Rom) - 1
      /\ pc' = pc + 1 /\ stuck' = stuck /\ job' = job
  BY QuietStep DEF LastRaise
<1>2. PICK F \in Nat, E \in Nat : F = Round!InputEnd /\ E = Round!StepsEnd
  BY RoundNames
<1>3. PICK q \in F + 1 .. E : q = pc + 1
  BY <1>1, <1>2, Words
<1>4. pc \in Nat /\ pc >= F /\ pc <= E /\ q - 1 = pc
  <2>1. pc \in Nat
    BY <1>1
  <2> QED
    BY <1>3, <2>1
<1>5. Round!RoundInv /\ pre = cur /\ Round!Shows(Column(page), Content, pc)
  BY <1>1, <1>2, <1>4 DEF PhaseInv, StepInv
<1>6. PICK buf, new, w : buf = Column(page) /\ new = Column(page)' /\ w = Rom[q] /\ w = fetch.word /\ w = Round!Image[q]
  BY <1>1, <1>3 DEF Generated
<1>7. w.from \in Cells /\ w.dest \in Cells /\ page \in [Cells -> Byte] /\ stuck \in StuckSets /\ cur \in Page
  BY <1>6, FetchedOperands DEF IInv, TypeOK, ControlType, DataType
<1>8. Free \in Columns \ (stuck.zero \cup stuck.one) /\ Free' = Free
  BY <1>1, <1>7, FreeWorks DEF Free
<1>9. \A c \in Cells : (buf[c] <=> Free \in page[c]) /\ (new[c] <=> Free \in page'[c])
  BY <1>6, <1>8 DEF Column
<1>10. page' = [page EXCEPT ![w.dest] = IF w.code = "MOV" THEN page[w.from] ELSE Inverted(page[w.from])]
  BY <1>5, <1>6 DEF EditBuf
<1>11. new[w.dest] <=> (buf[w.from] <=> w.code = "MOV")
  <2>1. Free \in page'[w.dest] <=> (Free \in page[w.from] <=> w.code = "MOV")
    <3>1. CASE w.code = "MOV"
      BY <1>7, <1>10, <3>1
    <3>2. CASE w.code # "MOV"
      <4>1. page'[w.dest] = Inverted(page[w.from])
        BY <1>7, <1>10, <3>2
      <4> QED
        BY <1>8, <3>2, <4>1, FreeBits
    <3> QED
      BY <3>1, <3>2
  <2> QED
    BY <1>7, <1>9, <2>1
<1>12. \A c \in Round!Cell : c # w.dest => (new[c] <=> buf[c])
  <2>1. \A c \in Cells : c # w.dest => page'[c] = page[c]
    BY <1>7, <1>10
  <2>2. \A c \in Cells : c # w.dest => (new[c] <=> buf[c])
    BY <1>9, <2>1
  <2> QED
    BY <2>2 DEF Generated
<1>13. Content \in [Round!Cell -> BOOLEAN] /\ Content' = Content
  BY <1>8 DEF Content, Generated
<1>14. Round!Shows(new, Content, q) /\ Round!StepsDone(q) = Round!StepsDone(q - 1)
  <2>1. Round!Shows(buf, Content, q - 1)
    BY <1>4, <1>5, <1>6
  <2>2. q \in Round!InputEnd + 1 .. Round!StepsEnd
    BY <1>2
  <2>3. /\ Round!Image[q].code # "PRG_NAND"
        /\ new[Round!Image[q].dest] <=> (buf[Round!Image[q].from] <=> Round!Image[q].code = "MOV")
        /\ \A c \in Round!Cell : c # Round!Image[q].dest => (new[c] <=> buf[c])
    BY <1>6, <1>11, <1>12
  <2> QED
    BY <1>13, <2>1, <2>2, <2>3, RoundFacts, Round!WriteShows
<1>15. Done(pc') = Done(pc)
  <2>1. Done(q) = Done(q - 1)
    BY <1>14, RoundNames
  <2> QED
    BY <1>1, <1>3, <1>4, <2>1
<1>16. Round!RoundInv'
  BY <1>1, <1>5, <1>13, <1>15, RoundKept
<1>17. Round!Shows(Column(page), Content, pc)'
  BY <1>1, <1>3, <1>6, <1>13, <1>14 DEF Round!Shows
<1>18. StepInv'
  BY <1>16, <1>17 DEF StepInv
<1>19. InputInv'
  <2>1. ~(pc' < Round!InputEnd)
    BY <1>1, <1>2, <1>4
  <2> QED
    BY <2>1 DEF InputInv
<1>20. OutInv'
  <2>1. pc' \in Nat /\ pc' <= Round!StepsEnd
    BY <1>1, <1>2, <1>3
  <2> QED
    BY <2>1, OutFirst
<1> QED
  BY <1>18, <1>19, <1>20 DEF PhaseInv

\* What the page and the buffer hold after a PRG_NAND, in the column that works.
LEMMA ProgramBits ==
    ASSUME IInv, stuck' = stuck, cur' = cur, flash' = Programmed, page' = ReadBack(Programmed),
           Free \in Columns \ (stuck.zero \cup stuck.one), NEW c \in Cells
    PROVE  /\ Content'[c] <=> Content[c] /\ Free \in page[c]
           /\ Column(page)'[c] <=> Content'[c]
<1>1. cur \in Page /\ flash \in [Page -> [Cells -> Byte]] /\ Free' = Free
  BY DEF IInv, TypeOK, DataType, Free
<1>2. flash'[cur'][c] = flash[cur][c] \cap page[c]
  BY <1>1 DEF Programmed
<1>3. page'[c] = Sensed(flash'[cur'][c])
  BY DEF ReadBack
<1>4. Free \in page'[c] <=> Free \in flash'[cur'][c]
  BY <1>3, FreeBits
<1>5. Content'[c] <=> Free \in flash'[cur'][c]
  BY <1>1 DEF Content
<1>6. Content[c] <=> Free \in flash[cur][c]
  BY DEF Content
<1>7. Column(page)'[c] <=> Free \in page'[c]
  BY <1>1 DEF Column
<1> QED
  BY <1>2, <1>4, <1>5, <1>6, <1>7

LEMMA PrgPhase ==
    ASSUME Generated, Tolerable, IInv, JobInv, PhaseInv, serving,
           NEW fetch \in Fetched, fetch.word.code = "PRG_NAND",
           flash' = Programmed, page' = ReadBack(Programmed),
           Advance(fetch, fetch.failed, FALSE), UNCHANGED <<pre, cur>>
    PROVE  PhaseInv'
<1> SUFFICES ASSUME Running' PROVE PhaseInv'
  BY DEF PhaseInv, InputInv, StepInv, OutInv
<1>1. /\ Running /\ fetch.word = Rom[pc + 1] /\ pc \in 0 .. Len(Rom) - 1
      /\ pc' = pc + 1 /\ stuck' = stuck /\ job' = job
  BY QuietStep DEF LastRaise
<1>2. PICK F \in Nat, E \in Nat, N \in Nat \ {0} :
          F = Round!InputEnd /\ E = Round!StepsEnd /\ N = NSlots /\ F <= E
  BY RoundNames
<1>3. F = 2 + N
  BY <1>2, RoundNames
<1>4. PICK q \in F .. E : q = pc + 1
  BY <1>1, <1>2, Words
<1>5. pc \in Nat /\ q - 1 = pc /\ Round!Image[q].code = "PRG_NAND"
  BY <1>1, <1>4 DEF Generated
<1>6. Free \in Columns \ (stuck.zero \cup stuck.one)
  BY FreeWorks DEF IInv, TypeOK, ControlType
<1>7. PICK buf, new, cont, after : buf = Column(page) /\ new = Column(page)' /\ cont = Content /\ after = Content'
  OBVIOUS
<1>8. \A c \in Cells : (after[c] <=> cont[c] /\ buf[c]) /\ (new[c] <=> after[c])
  <2>1. TAKE c \in Cells
  <2>2. (after[c] <=> cont[c] /\ Free \in page[c]) /\ (new[c] <=> after[c])
    BY <1>1, <1>6, <1>7, ProgramBits
  <2>3. buf[c] <=> Free \in page[c]
    BY <1>7 DEF Column
  <2> QED
    BY <2>2, <2>3
<1>9. /\ cont \in [Cells -> BOOLEAN] /\ after \in [Cells -> BOOLEAN] /\ buf \in [Cells -> BOOLEAN]
      /\ Cells = Round!Cell
  BY <1>7 DEF Content, Column, Generated
<1>10. Round!RoundInv' /\ pre' = cur'
  <2>1. CASE q = F
    <3>1. pc > 1 /\ Got = N /\ pc < F
      BY <1>3, <1>4, <1>5, <2>1 DEF Got
    <3>2. /\ flash[cur] = Blank /\ pre = cur /\ Round!Loaded(Column(Buf), job, Got) /\ Buf = page
      BY <1>1, <1>2, <3>1 DEF PhaseInv, InputInv, Buf
    <3>3. job \in Jobs
      BY <1>1 DEF JobInv
    <3>4. Round!Loaded(buf, job, N)
      <4>1. Round!Loaded(Column(page), job, N)
        <5>1. Column(Buf) = Column(page)
          BY <3>2 DEF Column
        <5> QED
          BY <3>1, <3>2, <5>1
      <4> QED
        BY <1>7, <4>1
    <3>5. ASSUME NEW c \in Round!Cell PROVE buf[c] <=> Round!Inputs(job)[c]
      <4>1. PICK g : g = LANES * DIGIT /\ Round!Loaded(buf, job, g)
        BY <1>2, <3>4 DEF NSlots
      <4> QED
        BY <3>3, <4>1, RoundFacts, Round!LoadedAll
    <3>6. ASSUME NEW c \in Cells PROVE cont[c]
      <4>1. Free \in Blank[c]
        BY <1>6, FreeBits
      <4> QED
        BY <1>7, <3>2, <4>1 DEF Content
    <3>7. \A c \in Round!Cell : Content'[c] <=> Round!Inputs(job')[c]
      BY <1>1, <1>7, <1>8, <1>9, <3>5, <3>6
    <3>8. Done(pc') = 1
      <4>1. Round!StepsDone(Round!InputEnd) = 1
        BY RoundFacts, Round!DoneInputs
      <4>2. Done(Round!InputEnd) = 1
        BY <4>1, RoundNames
      <4> QED
        BY <1>1, <1>2, <1>4, <2>1, <4>2
    <3>9. Content' \in [Round!Cell -> BOOLEAN] /\ job' \in Jobs
      BY <1>1, <1>7, <1>9, <3>3
    <3>10. Round!RoundInv'
      BY <3>7, <3>8, <3>9, RoundFacts, Round!LoadedRound
    <3> QED
      BY <3>2, <3>10
  <2>2. CASE q # F
    <3>1. q \in F + 1 .. E /\ pc >= F /\ pc <= E
      BY <1>4, <1>5, <2>2
    <3>2. Round!RoundInv /\ pre = cur /\ Round!Shows(buf, cont, q - 1)
      BY <1>1, <1>2, <1>5, <1>7, <3>1 DEF PhaseInv, StepInv
    <3>3. ASSUME NEW c \in Round!Cell
          PROVE  /\ Round!StepsDone(q - 1) \in 1 .. Round!LastStep - 1
                 /\ Round!StepsDone(q) = Round!StepsDone(q - 1) + 1
                 /\ (cont[c] /\ buf[c]) <=>
                       /\ cont[c]
                       /\ \A k \in DOMAIN Round!Plan[c].writes :
                             Round!Plan[c].writes[k].step = Round!StepsDone(q) =>
                                Round!ReadOf(cont, Round!Plan[c].writes[k].src)
      <4>1. q \in Round!InputEnd + 1 .. Round!StepsEnd
        BY <1>2, <3>1
      <4> QED
        BY <1>5, <3>2, <4>1, RoundFacts, Round!StepShows
    <3>4. \E c : c \in Round!Cell
      BY <1>9, FetchedOperands
    <3>5. Done(pc) \in 1 .. Round!LastStep - 1 /\ Done(pc') = Done(pc) + 1 /\ Done(pc') = Round!StepsDone(q)
      <4>1. Done(q - 1) \in 1 .. Round!LastStep - 1 /\ Done(q) = Done(q - 1) + 1 /\ Done(q) = Round!StepsDone(q)
        BY <3>3, <3>4, RoundNames
      <4> QED
        BY <1>1, <1>4, <1>5, <4>1
    <3>6. Round!ProgramStep
      <4>1. job # NoJob /\ job' = job
        BY <1>1, CpuAssumption DEF JobInv
      <4>2. Round!LastStep \in Nat
        BY RoundFacts, Round!LastStepIs
      <4>3. Done(pc) < Round!LastStep
        BY <3>5, <4>2
      <4>4. ASSUME NEW c \in Round!Cell
            PROVE  Content'[c] = (/\ Content[c]
                                  /\ \A i \in DOMAIN Round!Plan[c].writes :
                                        Round!Plan[c].writes[i].step = Done(pc') => Round!Read(Round!Plan[c].writes[i].src))
        <5>1. \A s : Round!Read(s) = Round!ReadOf(cont, s)
          BY <1>7 DEF Round!Read, Round!ReadOf
        <5>2. after[c] = (/\ cont[c]
                          /\ \A i \in DOMAIN Round!Plan[c].writes :
                                Round!Plan[c].writes[i].step = Done(pc') => Round!ReadOf(cont, Round!Plan[c].writes[i].src))
          BY <1>8, <1>9, <3>3, <3>5
        <5> QED
          BY <1>7, <5>1, <5>2
      <4>5. Content' = [c \in Round!Cell |->
                           /\ Content[c]
                           /\ \A i \in DOMAIN Round!Plan[c].writes :
                                 Round!Plan[c].writes[i].step = Done(pc') => Round!Read(Round!Plan[c].writes[i].src)]
        BY <1>7, <1>9, <4>4
      <4> QED
        BY <3>5, <4>1, <4>3, <4>5 DEF Round!ProgramStep
    <3>7. Round!RoundInv'
      BY <3>2, <3>6, RoundFacts, Round!ProgramStepKeeps
    <3> QED
      BY <3>2, <3>7
  <2> QED
    BY <2>1, <2>2
<1>11. Round!Shows(Column(page), Content, pc)'
  <2>1. q \in Round!InputEnd .. Round!StepsEnd
    BY <1>2
  <2>2. Round!Shows(new, after, q)
    BY <1>5, <1>8, <1>9, <2>1, RoundFacts, Round!ProgramShows
  <2> QED
    BY <1>1, <1>4, <1>7, <2>2 DEF Round!Shows
<1>12. StepInv'
  BY <1>10, <1>11 DEF StepInv
<1>13. InputInv'
  <2>1. ~(pc' < Round!InputEnd)
    BY <1>1, <1>2, <1>4
  <2> QED
    BY <2>1 DEF InputInv
<1>14. OutInv'
  <2>1. pc' \in Nat /\ pc' <= Round!StepsEnd
    BY <1>1, <1>2, <1>4
  <2> QED
    BY <2>1, OutFirst
<1> QED
  BY <1>12, <1>13, <1>14 DEF PhaseInv

-----------------------------------------------------------------------------
(* What the outputs are *)

LEMMA SameAnswer ==
    ASSUME NEW l \in Lane
    PROVE  /\ Subtractor!Answer(job).c[l] = Round!Subtractor!Difference(job.a[l], job.b[l])
           /\ Subtractor!Answer(job).jmp[l] = Round!Subtractor!NonPositive(Subtractor!Answer(job).c[l])
<1>1. \A a, b : Subtractor!Difference(a, b) = Round!Subtractor!Difference(a, b)
  BY Zenon DEF Subtractor!Difference, Round!Subtractor!Difference
<1>2. \A c : Subtractor!NonPositive(c) = Round!Subtractor!NonPositive(c)
  BY Zenon DEF Subtractor!NonPositive, Round!Subtractor!NonPositive
<1>3. /\ Subtractor!Answer(job).c[l] = Subtractor!Difference(job.a[l], job.b[l])
      /\ Subtractor!Answer(job).jmp[l] = Subtractor!NonPositive(Subtractor!Difference(job.a[l], job.b[l]))
  BY DEF Subtractor!Answer, Lane, Subtractor!Lane
<1> QED
  BY <1>1, <1>2, <1>3

LEMMA OutputBits ==
    ASSUME Generated, Round!RoundInv, pc \in Round!StepsEnd .. Len(Rom), NEW l \in Lane
    PROVE  /\ \A i \in 0 .. DIGIT - 1 : Content[Round!Sum(l, i).cell] = Subtractor!Answer(job).c[l][i + 1]
           /\ Content[Round!IsJmp(l).cell] = Subtractor!Answer(job).jmp[l]
<1>1. Done(pc) = Round!LastStep
  <2>1. \A r \in Round!StepsEnd .. Len(Rom) : Round!StepsDone(r) = Round!LastStep
    BY RoundFacts, Round!DoneOutputs DEF Generated
  <2> QED
    BY <2>1, RoundNames
<1>2. PICK d : d = Subtractor!Answer(job).c[l] /\ d = Round!Subtractor!Difference(job.a[l], job.b[l])
  BY SameAnswer
<1>3. /\ [i \in 1 .. DIGIT |-> Round!Read(Round!Sum(l, i - 1))] = d
      /\ Round!Read(Round!IsJmp(l)) = Round!Subtractor!NonPositive(d)
  <2>1. l \in Round!Lane
    BY RoundNames
  <2> QED
    BY <1>1, <1>2, <2>1, RoundFacts, Round!LaneAnswer
<1>4. Content \in [Cells -> BOOLEAN]
  BY DEF Content
<1>5. ASSUME NEW i \in 0 .. DIGIT - 1 PROVE Content[Round!Sum(l, i).cell] = d[i + 1]
  <2>1. d[i + 1] = Round!Read(Round!Sum(l, i))
    <3>1. i + 1 \in 1 .. DIGIT /\ (i + 1) - 1 = i
      BY GeometryAssumption
    <3> QED
      BY <1>3, <3>1
  <2>2. Round!Sum(l, i).inv = FALSE
    BY DEF Round!Sum, Round!X, Round!OrOf, Round!NOT, Round!Sig
  <2>3. Round!Sum(l, i).cell \in Cells
    <3>1. l \in Round!Lane /\ i \in Round!Bits
      BY RoundNames
    <3> QED
      BY <3>1, RoundFacts, Round!LaneCell DEF Generated
  <2> QED
    BY <1>4, <2>1, <2>2, <2>3 DEF Round!Read
<1>6. Content[Round!IsJmp(l).cell] = Round!Read(Round!IsJmp(l))
  <2>1. Round!IsJmp(l).inv = FALSE
    BY DEF Round!IsJmp, Round!Sig
  <2>2. Round!IsJmp(l).cell \in Cells
    <3>1. l \in Round!Lane /\ 0 \in Round!Bits
      BY RoundNames, GeometryAssumption
    <3> QED
      BY <3>1, RoundFacts, Round!LaneCell DEF Generated
  <2> QED
    BY <1>4, <2>1, <2>2 DEF Round!Read
<1> QED
  BY <1>2, <1>3, <1>5, <1>6, SameAnswer

\* What PUSH_OUT and RAISE make of the byte they read.
LEMMA VoteGives ==
    ASSUME Tolerable, IInv, JobInv, VoteTolerates, Running, NEW fetch \in Fetched, fetch.failed = {},
           fetch.word.code \in {"PUSH_OUT", "RAISE"}
    PROVE  majorityVote(page[fetch.word.from]) = Content[fetch.word.from]
<1>1. stuck \in StuckSets
  BY DEF IInv, TypeOK, ControlType
<1>2. /\ Free \in Columns \ (stuck.zero \cup stuck.one)
      /\ Cardinality(stuck.zero) <= 4 /\ Cardinality(stuck.one) <= 3
  BY <1>1, FreeWorks DEF Tolerable
<1>3. serving /\ Healthy
  BY DEF Running, Healthy, JobInv
<1>4. majorityVote(page[fetch.word.from]) <=> Free \in flash[cur][fetch.word.from]
  BY <1>2, <1>3 DEF VoteTolerates
<1>5. fetch.word.from \in Cells
  BY FetchedOperands
<1>6. Content[fetch.word.from] = (Free \in flash[cur][fetch.word.from])
  BY <1>5 DEF Content
<1>7. majorityVote(page[fetch.word.from]) \in BOOLEAN
  BY VoteType
<1> QED
  BY <1>4, <1>6, <1>7

\* Between the steps and the end of the round the page does not change.
LEMMA OutputStep ==
    ASSUME Generated, IInv, PhaseInv, Running, pc >= Round!StepsEnd, pc' = pc + 1, pc + 1 <= Len(Rom),
           stuck' = stuck, job' = job, UNCHANGED <<pre, cur, flash>>
    PROVE  /\ Round!RoundInv /\ pre = cur /\ pc \in Round!StepsEnd .. Len(Rom)
           /\ InputInv' /\ StepInv'
<1>1. PICK F \in Nat, E \in Nat : F = Round!InputEnd /\ E = Round!StepsEnd /\ F <= E /\ Len(Rom) \in Nat /\ pc \in Nat
  BY RoundNames, RomType DEF IInv, TypeOK, ControlType
<1>2. pc >= E /\ pc >= F /\ ~(pc + 1 <= E) /\ ~(pc + 1 < F) /\ pc \in E .. Len(Rom) /\ pc + 1 \in E .. Len(Rom)
  BY <1>1
<1>3. Round!RoundInv /\ pre = cur
  BY <1>1, <1>2 DEF PhaseInv, StepInv
<1>4. Done(pc') = Done(pc)
  <2>1. \A r \in Round!StepsEnd .. Len(Rom) : Round!StepsDone(r) = Round!LastStep
    BY RoundFacts, Round!DoneOutputs DEF Generated
  <2>2. \A r \in E .. Len(Rom) : Done(r) = Round!LastStep
    BY <1>1, <2>1, RoundNames
  <2> QED
    BY <1>2, <2>2
<1>5. Content' = Content
  BY DEF Content, Free
<1>6. Round!RoundInv'
  BY <1>3, <1>4, <1>5, RoundKept
<1>7. StepInv'
  BY <1>1, <1>2, <1>3, <1>6 DEF StepInv
<1>8. InputInv'
  BY <1>1, <1>2 DEF InputInv
<1> QED
  BY <1>1, <1>2, <1>3, <1>7, <1>8

LEMMA AnswerType == ASSUME NEW j \in Jobs PROVE Subtractor!Answer(j) \in [c : [Lane -> Word], jmp : [Lane -> BOOLEAN]]
<1>1. \A a, b : Subtractor!Difference(a, b) \in Word
  BY DEF Subtractor!Difference, Word
<1>2. ASSUME NEW c PROVE Subtractor!NonPositive(c) \in BOOLEAN
  BY DEF Subtractor!NonPositive
<1> QED
  BY <1>1, <1>2 DEF Subtractor!Answer, Subtractor!Lane, Lane

LEMMA PushOutPhase ==
    ASSUME Generated, Tolerable, IInv, JobInv, PhaseInv, VoteTolerates, serving,
           NEW fetch \in Fetched, fetch.word.code = "PUSH_OUT",
           out' = [out EXCEPT ![fetch.word.dest % LANES] =
                                  Shift(out[fetch.word.dest % LANES], majorityVote(page[fetch.word.from]))],
           Advance(fetch, fetch.failed, FALSE), UNCHANGED <<page, pre, cur, flash>>
    PROVE  PhaseInv'
<1> SUFFICES ASSUME Running' PROVE PhaseInv'
  BY DEF PhaseInv, InputInv, StepInv, OutInv
<1>1. /\ Running /\ fetch.word = Rom[pc + 1] /\ fetch.failed = {} /\ pc \in 0 .. Len(Rom) - 1
      /\ pc' = pc + 1 /\ stuck' = stuck /\ job' = job
  BY QuietStep DEF LastRaise
<1>2. PICK g \in 0 .. NSlots - 1 : /\ pc = Round!StepsEnd + g
                                   /\ fetch.word.dest = g \div DIGIT
                                   /\ fetch.word.from = Round!Sum(g \div DIGIT, g % DIGIT).cell
  BY <1>1, Words
<1>3. PICK E \in Nat, N \in Nat \ {0} : E = Round!StepsEnd /\ N = NSlots
  BY RoundNames
<1>4. PICK p \in Nat : p = pc /\ p + 1 <= Len(Rom)
  BY <1>1, RomType
<1>5. p >= E /\ g \in 0 .. N - 1 /\ p - E = g /\ (p + 1) - E = g + 1 /\ (p + 1) - (E + N) <= 0
  <2>1. p = E + g /\ g \in 0 .. N - 1
    BY <1>2, <1>3, <1>4
  <2> QED
    BY <2>1
<1>6. pc >= Round!StepsEnd /\ pc + 1 <= Len(Rom)
  BY <1>3, <1>4, <1>5
<1>7. /\ Round!RoundInv /\ pc \in Round!StepsEnd .. Len(Rom)
      /\ InputInv' /\ StepInv'
  BY <1>1, <1>6, OutputStep
<1>8. PICK l \in Lane, r \in 0 .. DIGIT - 1 :
          l = g \div DIGIT /\ r = g % DIGIT /\ Turn(g, l) = r /\ Turn(g + 1, l) = r + 1
          /\ \A m \in Lane : m # l => Turn(g + 1, m) = Turn(g, m)
  BY SlotNumber, TurnNext
<1>9. fetch.word.dest % LANES = l
  <2>1. l \in 0 .. LANES - 1 /\ LANES \in Nat \ {0}
    BY GeometryAssumption DEF Lane
  <2>2. \A L \in Nat \ {0} : \A x \in 0 .. L - 1 : x % L = x
    OBVIOUS
  <2> QED
    BY <1>2, <1>8, <2>1, <2>2
<1>10. Moved = g /\ Moved' = g + 1
  <2>1. Moved = g
    <3>1. pc - Round!StepsEnd = g /\ g < NSlots
      BY <1>3, <1>4, <1>5
    <3> QED
      BY <3>1 DEF Moved
  <2>2. Moved' = g + 1
    <3>1. pc' - Round!StepsEnd = g + 1 /\ (g + 1 < NSlots \/ g + 1 = NSlots)
      BY <1>1, <1>3, <1>4, <1>5
    <3> QED
      BY <3>1 DEF Moved
  <2> QED
    BY <2>1, <2>2
<1>11. PICK ans : ans = Subtractor!Answer(job)
  OBVIOUS
<1>12. \A m \in Lane : Pushed(out[m], ans.c[m], Turn(g, m))
  BY <1>1, <1>6, <1>10, <1>11 DEF PhaseInv, OutInv
<1>13. PICK v \in BOOLEAN : v = majorityVote(page[fetch.word.from]) /\ v = ans.c[l][r + 1]
  <2>1. majorityVote(page[fetch.word.from]) = Content[fetch.word.from]
    BY <1>1, VoteGives
  <2>2. Content[Round!Sum(l, r).cell] = ans.c[l][r + 1]
    BY <1>7, <1>11, OutputBits
  <2> QED
    BY <1>2, <1>8, <2>1, <2>2, VoteType
<1>14. out \in [Lane -> Word]
  BY DEF IInv, TypeOK, DataType
<1>15. \A m \in Lane : Pushed(out'[m], ans.c[m], Turn(g + 1, m))
  <2>1. TAKE m \in Lane
  <2>2. CASE m = l
    <3>1. out'[l] = Shift(out[l], v)
      BY <1>9, <1>13, <1>14
    <3>2. Pushed(out[l], ans.c[l], r) /\ out[l] \in Word
      BY <1>8, <1>12, <1>14
    <3>3. Pushed(Shift(out[l], v), ans.c[l], r + 1)
      BY <1>13, <3>2, PushedNext
    <3> QED
      BY <1>8, <2>2, <3>1, <3>3
  <2>3. CASE m # l
    <3>1. out'[m] = out[m]
      BY <1>9, <1>14, <2>3
    <3>2. Turn(g + 1, m) = Turn(g, m)
      BY <1>8, <2>3
    <3> QED
      BY <1>12, <3>1, <3>2
  <2> QED
    BY <2>2, <2>3
<1>16. \A m \in Lane : ~(m < pc' - (Round!StepsEnd + NSlots))
  <2>1. pc' - (Round!StepsEnd + NSlots) \in Int /\ pc' - (Round!StepsEnd + NSlots) <= 0
    BY <1>1, <1>3, <1>4, <1>5
  <2> QED
    BY <2>1, GeometryAssumption DEF Lane
<1>17. Subtractor!Answer(job)' = ans
  BY <1>1, <1>11 DEF Subtractor!Answer
<1>18. OutInv'
  BY <1>10, <1>15, <1>16, <1>17 DEF OutInv
<1> QED
  BY <1>7, <1>18 DEF PhaseInv

\* What the RAISEs find and what they store.
LEMMA RaiseStep ==
    ASSUME Generated, Tolerable, IInv, JobInv, PhaseInv, VoteTolerates, Running,
           NEW fetch \in Fetched, fetch.word = Rom[pc + 1], fetch.failed = {}, fetch.word.code = "RAISE",
           isJmp' = [isJmp EXCEPT ![fetch.word.dest % LANES] = majorityVote(page[fetch.word.from])]
    PROVE  \E l \in Lane :
              /\ pc = Round!StepsEnd + NSlots + l
              /\ \A m \in Lane : m <= l => isJmp'[m] = Subtractor!Answer(job).jmp[m]
              /\ \A m \in Lane : Pushed(out[m], Subtractor!Answer(job).c[m], DIGIT)
<1>1. pc \in 0 .. Len(Rom) - 1 /\ isJmp \in [Lane -> BOOLEAN]
  BY DEF IInv, TypeOK, ControlType, DataType
<1>2. PICK l \in Lane : pc = Round!StepsEnd + NSlots + l /\ fetch.word.dest = l /\ fetch.word.from = Round!IsJmp(l).cell
  BY <1>1, Words
<1>3. PICK E \in Nat, N \in Nat \ {0} : E = Round!StepsEnd /\ N = NSlots
  BY RoundNames
<1>4. PICK p \in Nat : p = pc /\ p <= Len(Rom)
  BY <1>1, RomType
<1>5. l \in Nat /\ p >= E /\ p - E >= N /\ p - (E + N) = l
  <2>1. p = E + N + l /\ l \in Nat
    BY <1>2, <1>3, <1>4, GeometryAssumption DEF Lane
  <2> QED
    BY <2>1
<1>6. pc >= Round!StepsEnd /\ pc <= Round!StepsEnd => pc \in Round!StepsEnd .. Len(Rom)
  BY <1>3, <1>4, <1>5
<1>7. pc >= Round!StepsEnd /\ pc \in Round!StepsEnd .. Len(Rom)
  BY <1>3, <1>4, <1>5, RomType
<1>8. Round!RoundInv
  <2>1. pc >= Round!InputEnd
    BY <1>7, <1>3, <1>4, <1>5, RoundNames
  <2> QED
    BY <2>1 DEF PhaseInv, StepInv
<1>9. PICK ans : ans = Subtractor!Answer(job)
  OBVIOUS
<1>10. /\ \A m \in Lane : Pushed(out[m], ans.c[m], Turn(Moved, m))
       /\ \A m \in Lane : m < pc - (Round!StepsEnd + NSlots) => isJmp[m] = ans.jmp[m]
  BY <1>7, <1>9 DEF PhaseInv, OutInv
<1>11. Moved = NSlots
  <2>1. ~(pc - Round!StepsEnd < NSlots)
    BY <1>3, <1>4, <1>5
  <2> QED
    BY <2>1 DEF Moved
<1>12. \A m \in Lane : Pushed(out[m], ans.c[m], DIGIT)
  BY <1>10, <1>11, TurnEnds
<1>13. majorityVote(page[fetch.word.from]) = ans.jmp[l]
  <2>1. majorityVote(page[fetch.word.from]) = Content[fetch.word.from]
    BY VoteGives
  <2>2. Content[Round!IsJmp(l).cell] = ans.jmp[l]
    BY <1>7, <1>8, <1>9, OutputBits
  <2> QED
    BY <1>2, <2>1, <2>2
<1>14. fetch.word.dest % LANES = l
  <2>1. l \in 0 .. LANES - 1 /\ LANES \in Nat \ {0}
    BY GeometryAssumption DEF Lane
  <2>2. \A L \in Nat \ {0} : \A x \in 0 .. L - 1 : x % L = x
    OBVIOUS
  <2> QED
    BY <1>2, <2>1, <2>2
<1>15. \A m \in Lane : m <= l => isJmp'[m] = ans.jmp[m]
  <2>1. TAKE m \in Lane
  <2>2. CASE m = l
    BY <1>1, <1>13, <1>14, <2>2
  <2>3. CASE m # l
    <3>1. isJmp'[m] = isJmp[m]
      BY <1>1, <1>14, <2>3
    <3>2. m \in Nat /\ pc - (Round!StepsEnd + NSlots) = l
      BY <1>3, <1>4, <1>5, GeometryAssumption DEF Lane
    <3>3. m <= l => m < pc - (Round!StepsEnd + NSlots)
      BY <1>5, <2>3, <3>2
    <3> QED
      BY <1>10, <3>1, <3>3
  <2> QED
    BY <2>2, <2>3
<1> QED
  BY <1>2, <1>9, <1>12, <1>15

LEMMA RaisePhase ==
    ASSUME Generated, Tolerable, IInv, JobInv, PhaseInv, VoteTolerates, serving,
           NEW fetch \in Fetched, fetch.word.code = "RAISE", ~LastRaise(fetch.word),
           isJmp' = [isJmp EXCEPT ![fetch.word.dest % LANES] = majorityVote(page[fetch.word.from])],
           Advance(fetch, fetch.failed, FALSE), UNCHANGED <<page, pre, cur, flash, out>>
    PROVE  PhaseInv'
<1> SUFFICES ASSUME Running' PROVE PhaseInv'
  BY DEF PhaseInv, InputInv, StepInv, OutInv
<1>1. /\ Running /\ fetch.word = Rom[pc + 1] /\ fetch.failed = {} /\ pc \in 0 .. Len(Rom) - 1
      /\ pc' = pc + 1 /\ stuck' = stuck /\ job' = job
  BY QuietStep
<1>2. PICK l \in Lane :
          /\ pc = Round!StepsEnd + NSlots + l
          /\ \A m \in Lane : m <= l => isJmp'[m] = Subtractor!Answer(job).jmp[m]
          /\ \A m \in Lane : Pushed(out[m], Subtractor!Answer(job).c[m], DIGIT)
  BY <1>1, RaiseStep
<1>3. PICK E \in Nat, N \in Nat \ {0} : E = Round!StepsEnd /\ N = NSlots
  BY RoundNames
<1>4. PICK p \in Nat : p = pc /\ p + 1 <= Len(Rom)
  BY <1>1, RomType
<1>5. l \in Nat /\ p >= E /\ ~((p + 1) - E < N) /\ (p + 1) - (E + N) = l + 1
  <2>1. p = E + N + l /\ l \in Nat
    BY <1>2, <1>3, <1>4, GeometryAssumption DEF Lane
  <2> QED
    BY <2>1
<1>6. pc >= Round!StepsEnd /\ pc + 1 <= Len(Rom)
  BY <1>3, <1>4, <1>5
<1>7. InputInv' /\ StepInv'
  BY <1>1, <1>6, OutputStep
<1>8. Moved' = NSlots
  <2>1. ~(pc' - Round!StepsEnd < NSlots)
    BY <1>1, <1>3, <1>4, <1>5
  <2> QED
    BY <2>1 DEF Moved
<1>9. \A m \in Lane : m < pc' - (Round!StepsEnd + NSlots) => m <= l
  <2>1. pc' - (Round!StepsEnd + NSlots) = l + 1
    BY <1>1, <1>3, <1>4, <1>5
  <2> QED
    BY <1>5, <2>1, GeometryAssumption DEF Lane
<1>10. PICK ans : ans = Subtractor!Answer(job) /\ ans = Subtractor!Answer(job)'
  BY <1>1 DEF Subtractor!Answer
<1>11. \A m \in Lane : Pushed(out'[m], ans.c[m], Turn(Moved', m))
  BY <1>2, <1>8, <1>10, TurnEnds
<1>12. \A m \in Lane : m < pc' - (Round!StepsEnd + NSlots) => isJmp'[m] = ans.jmp[m]
  BY <1>2, <1>9, <1>10
<1>13. OutInv'
  BY <1>10, <1>11, <1>12 DEF OutInv
<1> QED
  BY <1>7, <1>13 DEF PhaseInv

\* Between rounds the registers of the lanes hold what the Boost branch of
\* process_requests computes for the batch: a round with no failure in it, nor in
\* the round before, answers b - a and its sign for every lane.
AnswerInv == ~serving /\ job # NoJob /\ since = 2 => [c |-> out, jmp |-> isJmp] = Subtractor!Answer(job)

LEMMA RaiseAnswer ==
    ASSUME Generated, Tolerable, IInv, JobInv, PhaseInv, VoteTolerates, serving,
           NEW fetch \in Fetched, fetch.word.code = "RAISE", LastRaise(fetch.word), NextPage(fetch),
           isJmp' = [isJmp EXCEPT ![fetch.word.dest % LANES] = majorityVote(page[fetch.word.from])],
           out' = out
    PROVE  AnswerInv'
<1> SUFFICES ASSUME since' = 2 PROVE [c |-> out, jmp |-> isJmp]' = Subtractor!Answer(job)'
  BY DEF AnswerInv
<1>1. fetch.failed = {} /\ since = 2 /\ job' = job
  <2>1. fetch.failed \in {{}, {"romread"}}
    BY FetchResult DEF IInv
  <2>2. CASE Advance(fetch, fetch.failed, TRUE)
    BY <2>1, <2>2 DEF Advance
  <2>3. CASE Advance(fetch, fetch.failed \cup {"erase"}, TRUE)
    <3>1. fetch.failed # {"romread"}
      <4> SUFFICES ASSUME fetch.failed = {"romread"} PROVE FALSE
        OBVIOUS
      <4>1. "romread" \in fetch.failed \cup {"erase"} /\ "romread" \notin {"erase"} /\ "romread" \notin {}
        OBVIOUS
      <4> QED
        BY <2>3, <4>1 DEF Advance
    <3>2. fetch.failed = {} /\ fetch.failed \cup {"erase"} = {"erase"}
      BY <2>1, <3>1
    <3> QED
      BY <2>3, <3>2 DEF Advance
  <2> QED
    BY <2>2, <2>3 DEF NextPage
<1>2. Running /\ fetch.word = Rom[pc + 1] /\ pc \in 0 .. Len(Rom) - 1
  <2>1. fetch.word.code # "ZERO"
    OBVIOUS
  <2>2. fetch.word = Rom[pc + 1]
    BY <1>1, FetchResult DEF IInv
  <2> QED
    BY <1>1, <2>2 DEF Running, IInv, TypeOK, ControlType
<1>3. PICK l \in Lane :
          /\ pc = Round!StepsEnd + NSlots + l
          /\ \A m \in Lane : m <= l => isJmp'[m] = Subtractor!Answer(job).jmp[m]
          /\ \A m \in Lane : Pushed(out[m], Subtractor!Answer(job).c[m], DIGIT)
  BY <1>1, <1>2, RaiseStep
<1>4. \A m \in Lane : m <= l
  <2>1. pc + 1 = Len(Rom)
    BY <1>2, RomType, RomAssumption
  <2>2. PICK E \in Nat, N \in Nat, R \in Nat, L \in Nat :
            E = Round!StepsEnd /\ N = NSlots /\ R = Len(Rom) /\ L = LANES /\ R = E + N + L
    BY RoundNames, GeometryAssumption
  <2>3. l \in 0 .. L - 1 /\ Lane = 0 .. L - 1
    BY <2>2 DEF Lane
  <2>4. (E + N + l) + 1 = R
    BY <1>3, <2>1, <2>2
  <2>5. l = L - 1
    BY <2>2, <2>3, <2>4
  <2> QED
    BY <2>3, <2>5
<1>5. PICK ans \in [c : [Lane -> Word], jmp : [Lane -> BOOLEAN]] : ans = Subtractor!Answer(job) /\ ans = Subtractor!Answer(job)'
  <2>1. job \in Jobs
    BY <1>2 DEF JobInv
  <2> QED
    BY <1>1, <2>1, AnswerType DEF Subtractor!Answer
<1>6. out \in [Lane -> Word] /\ isJmp \in [Lane -> BOOLEAN]
  BY DEF IInv, TypeOK, DataType
<1>7. out = ans.c
  <2>1. \A m \in Lane : out[m] = ans.c[m]
    BY <1>3, <1>5, <1>6, PushedAll
  <2> QED
    BY <1>5, <1>6, <2>1
<1>8. isJmp' = ans.jmp
  <2>1. \A m \in Lane : isJmp'[m] = ans.jmp[m]
    BY <1>3, <1>4, <1>5
  <2>2. DOMAIN isJmp' = Lane /\ isJmp' = [m \in Lane |-> isJmp'[m]]
    BY <1>6
  <2>3. ans.jmp = [m \in Lane |-> ans.jmp[m]]
    BY <1>5
  <2> QED
    BY <2>1, <2>2, <2>3
<1>9. ans = [c |-> ans.c, jmp |-> ans.jmp]
  BY <1>5
<1> QED
  BY <1>5, <1>7, <1>8, <1>9

\* An instruction that is not the last RAISE gives no answer.
LEMMA NoAnswer ==
    ASSUME IInv, serving, NEW fetch \in Fetched, NEW failed \in SUBSET FaultKinds,
           ~LastRaise(fetch.word), Advance(fetch, fetch.failed \cup failed, FALSE)
    PROVE  AnswerInv'
<1>1. ~(~serving' /\ since' >= 1)
  BY AdvanceQuietly
<1>2. ~(~serving' /\ since' = 2)
  BY <1>1
<1> QED
  BY <1>2 DEF AnswerInv

LEMMA NextPhase ==
    ASSUME Generated, Tolerable, IInv, BufInv, JobInv, VoteTolerates, PhaseInv, AnswerInv, [Next]_vars
    PROVE  PhaseInv' /\ AnswerInv'
<1>1. ASSUME ~Running' PROVE PhaseInv'
  BY <1>1 DEF PhaseInv, InputInv, StepInv, OutInv
<1>2. ASSUME serving' PROVE AnswerInv'
  BY <1>2 DEF AnswerInv
<1>3. ASSUME serving, NEW fetch \in Fetched, fetch.word.code # "RAISE", Advance(fetch, fetch.failed, FALSE)
      PROVE  AnswerInv'
  <2>1. fetch.failed = fetch.failed \cup {} /\ {} \in SUBSET FaultKinds
    OBVIOUS
  <2> QED
    BY <1>3, <2>1, NoAnswer DEF LastRaise
<1>4. ASSUME serving, NEW fetch \in Fetched, NEW failed \in SUBSET FaultKinds, failed # {}, fetch.word.code # "RAISE",
             Advance(fetch, fetch.failed \cup failed, FALSE)
      PROVE  PhaseInv' /\ AnswerInv'
  <2>1. AnswerInv'
    BY <1>4, NoAnswer DEF LastRaise
  <2>2. ~Running'
    BY <1>4 DEF Advance, Running
  <2> QED
    BY <1>1, <2>1, <2>2
<1>5. CASE Start
  <2>1. serving'
    BY <1>5 DEF Start
  <2> QED
    BY <1>2, <1>5, <2>1, StartPhase
<1>6. CASE UNCHANGED vars
  <2>1. /\ UNCHANGED <<pc, page, pre, cur, getinCnt, inA, inB, out, isJmp, flash, stuck, job, serving, since>>
    BY <1>6 DEF vars, regs, device
  <2>2. Content' = Content /\ Free' = Free /\ Column(page)' = Column(page) /\ Column(Buf)' = Column(Buf)
        /\ Got' = Got /\ Moved' = Moved
    BY <2>1 DEF Content, Free, Column, Buf, Got, Moved
  <2>3. InputInv'
    BY <2>1, <2>2 DEF PhaseInv, InputInv, Running, Fed, Round!Loaded
  <2>4. StepInv'
    <3>1. Round!RoundInv => Round!RoundInv'
      BY <2>1, <2>2, RoundKept
    <3> QED
      BY <2>1, <2>2, <3>1 DEF PhaseInv, StepInv, Running, Round!Shows
  <2>5. OutInv'
    BY <2>1, <2>2 DEF PhaseInv, OutInv, Running, Subtractor!Answer
  <2>6. AnswerInv'
    BY <2>1 DEF AnswerInv, Subtractor!Answer
  <2> QED
    BY <2>3, <2>4, <2>5, <2>6 DEF PhaseInv
<1>7. CASE BlankRom
  <2>1. PICK fetch \in Fetched : serving /\ fetch.word.code = "ZERO" /\ Advance(fetch, fetch.failed, FALSE)
    BY <1>7 DEF BlankRom, Executes
  <2>2. ASSUME Running' PROVE FALSE
    <3>1. fetch.word = Rom[pc + 1] /\ pc \in 0 .. Len(Rom) - 1
      BY <2>1, <2>2, QuietStep DEF LastRaise
    <3>2. pc + 1 \in 1 .. Len(Rom)
      BY <3>1, RomType
    <3>3. Rom[pc + 1] \in Instruction
      BY <3>2, RomType
    <3>4. Rom[pc + 1].code # "ZERO"
      BY <3>3 DEF Instruction
    <3> QED
      BY <2>1, <3>1, <3>4
  <2> QED
    BY <1>1, <1>3, <2>1, <2>2
<1>8. CASE Mov
  <2>1. PICK fetch \in Fetched :
            /\ serving /\ fetch.word.code = "MOV" /\ page' = EditBuf(fetch.word.dest, page[fetch.word.from])
            /\ pre' = cur /\ Advance(fetch, fetch.failed, FALSE) /\ UNCHANGED <<cur, flash>>
    BY <1>8 DEF Mov, Executes
  <2>2. PhaseInv'
    BY <2>1, EditPhase
  <2> QED
    BY <1>3, <2>1, <2>2
<1>9. CASE InvMov
  <2>1. PICK fetch \in Fetched :
            /\ serving /\ fetch.word.code = "INV_MOV"
            /\ page' = EditBuf(fetch.word.dest, Inverted(page[fetch.word.from]))
            /\ pre' = cur /\ Advance(fetch, fetch.failed, FALSE) /\ UNCHANGED <<cur, flash>>
    BY <1>9 DEF InvMov, Executes
  <2>2. PhaseInv'
    BY <2>1, EditPhase
  <2> QED
    BY <1>3, <2>1, <2>2
<1>10. CASE CapIn
  <2>1. PICK fetch \in Fetched :
            /\ serving /\ fetch.word.code = "CAP_IN" /\ getinCnt' = 0
            /\ Advance(fetch, fetch.failed, FALSE) /\ UNCHANGED <<page, pre, cur, inA, inB, flash>>
    BY <1>10 DEF CapIn, Executes
  <2>2. PhaseInv'
    BY <2>1, CapInPhase
  <2> QED
    BY <1>3, <2>1, <2>2
<1>11. CASE GetIn
  <2>1. PICK fetch \in Fetched :
            /\ serving /\ fetch.word.code = "GET_IN" /\ getinCnt' = getinCnt + 1
            /\ page' = [EditBuf(fetch.word.from, Replicate(inA[GetInLane][1]))
                           EXCEPT ![fetch.word.dest] = Replicate(inB[GetInLane][1])]
            /\ pre' = cur
            /\ inA' = [inA EXCEPT ![GetInLane] = Shift(inA[GetInLane], FALSE)]
            /\ inB' = [inB EXCEPT ![GetInLane] = Shift(inB[GetInLane], FALSE)]
            /\ Advance(fetch, fetch.failed, FALSE) /\ UNCHANGED <<cur, flash>>
    BY <1>11 DEF GetIn, Executes
  <2>2. PhaseInv'
    BY <2>1, GetInPhase
  <2> QED
    BY <1>3, <2>1, <2>2
<1>12. CASE PrgNand
  <2>1. PICK fetch \in Fetched, failed \in SUBSET (Faults \cap {"write", "read"}) :
            /\ serving /\ fetch.word.code = "PRG_NAND"
            /\ Advance(fetch, fetch.failed \cup failed, FALSE)
            /\ failed = {} => flash' = Programmed /\ page' = ReadBack(flash')
            /\ UNCHANGED <<pre, cur>>
    BY <1>12 DEF PrgNand, Executes
  <2>2. CASE failed = {}
    <3>1. /\ flash' = Programmed /\ page' = ReadBack(Programmed)
          /\ Advance(fetch, fetch.failed, FALSE)
      <4>1. fetch.failed \cup failed = fetch.failed
        BY <2>2
      <4>2. flash' = Programmed /\ page' = ReadBack(flash')
        BY <2>1, <2>2
      <4>3. ReadBack(flash') = ReadBack(Programmed)
        BY <4>2
      <4> QED
        BY <2>1, <4>1, <4>2, <4>3
    <3>2. PhaseInv'
      BY <2>1, <3>1, PrgPhase
    <3> QED
      BY <1>3, <2>1, <3>1, <3>2
  <2>3. CASE failed # {}
    <3>1. failed \in SUBSET FaultKinds
      BY DEF FaultKinds
    <3> QED
      BY <1>4, <2>1, <2>3, <3>1
  <2> QED
    BY <2>2, <2>3
<1>13. CASE PushOut
  <2>1. PICK fetch \in Fetched :
            /\ serving /\ fetch.word.code = "PUSH_OUT"
            /\ out' = [out EXCEPT ![fetch.word.dest % LANES] =
                                      Shift(out[fetch.word.dest % LANES], majorityVote(page[fetch.word.from]))]
            /\ Advance(fetch, fetch.failed, FALSE) /\ UNCHANGED <<page, pre, cur, flash>>
    BY <1>13 DEF PushOut, Executes
  <2>2. PhaseInv'
    BY <2>1, PushOutPhase
  <2> QED
    BY <1>3, <2>1, <2>2
<1>14. CASE Raise
  <2>1. PICK fetch \in Fetched :
            /\ serving /\ fetch.word.code = "RAISE"
            /\ isJmp' = [isJmp EXCEPT ![fetch.word.dest % LANES] = majorityVote(page[fetch.word.from])]
            /\ \/ LastRaise(fetch.word) /\ NextPage(fetch)
               \/ /\ ~LastRaise(fetch.word)
                  /\ Advance(fetch, fetch.failed, FALSE)
                  /\ UNCHANGED <<page, cur, flash, eraseOk>>
            /\ pre' = pre /\ out' = out
    BY <1>14 DEF Raise, Executes
  <2>2. CASE LastRaise(fetch.word) /\ NextPage(fetch)
    <3>1. ~serving'
      BY <2>2 DEF NextPage, Advance
    <3>2. AnswerInv'
      BY <2>1, <2>2, RaiseAnswer
    <3> QED
      BY <1>1, <3>1, <3>2 DEF Running
  <2>3. CASE ~LastRaise(fetch.word) /\ Advance(fetch, fetch.failed, FALSE) /\ UNCHANGED <<page, cur, flash>>
    <3>1. PhaseInv'
      BY <2>1, <2>3, RaisePhase
    <3>2. fetch.failed = fetch.failed \cup {} /\ {} \in SUBSET FaultKinds
      OBVIOUS
    <3>3. AnswerInv'
      BY <2>1, <2>3, <3>2, NoAnswer
    <3> QED
      BY <3>1, <3>3
  <2> QED
    BY <2>1, <2>2, <2>3
<1>15. CASE EraseOp
  <2>1. PICK fetch \in Fetched :
            /\ serving /\ fetch.word.code = "ERASE"
            /\ \/ Advance(fetch, fetch.failed, FALSE)
               \/ Advance(fetch, fetch.failed \cup {"erase"}, FALSE)
    BY <1>15 DEF EraseOp, Executes
  <2>2. CASE Advance(fetch, fetch.failed, FALSE)
    <3>1. ASSUME Running' PROVE FALSE
      <4>1. fetch.word = Rom[pc + 1] /\ pc \in 0 .. Len(Rom) - 1
        BY <2>1, <2>2, <3>1, QuietStep DEF LastRaise
      <4> QED
        BY <2>1, <4>1, Words
    <3> QED
      BY <1>1, <1>3, <2>1, <2>2, <3>1
  <2>3. CASE Advance(fetch, fetch.failed \cup {"erase"}, FALSE)
    <3>1. {"erase"} \in SUBSET FaultKinds /\ {"erase"} # {}
      BY DEF FaultKinds
    <3> QED
      BY <1>4, <2>1, <2>3, <3>1
  <2> QED
    BY <2>1, <2>2, <2>3
<1> QED
  BY <1>5, <1>6, <1>7, <1>8, <1>9, <1>10, <1>11, <1>12, <1>13, <1>14, <1>15 DEF Next, Execute

\* The inductive invariant, relative to IInv and VoteTolerates.
ComputeInv == BufInv /\ JobInv /\ PhaseInv /\ AnswerInv

LEMMA InitCompute == Init => ComputeInv
<1> SUFFICES ASSUME Init PROVE ComputeInv
  OBVIOUS
<1>1. ~serving /\ job = NoJob /\ pre = -1 /\ cur = 0
  BY DEF Init
<1>2. JobInv /\ PhaseInv /\ AnswerInv
  BY <1>1 DEF JobInv, PhaseInv, InputInv, StepInv, OutInv, AnswerInv, Running
<1>3. BufInv
  BY <1>1 DEF BufInv
<1> QED
  BY <1>2, <1>3 DEF ComputeInv
-----------------------------------------------------------------------------
(* What holds of the generated image *)

\* The image reads every cell only after the step that programs it has been read
\* back, so no instruction sees a pending edit of the page buffer (schedule and
\* build_round of ROM.cpp, fetch and edit_buf of cpu.cpp).
THEOREM GeneratedReads == ASSUME Generated PROVE Spec => []ReadsProgrammed
BY ImageReads, ReadersSeeFlash

\* With the generated image the majority vote of PUSH_OUT and RAISE gives what the
\* working columns of the page hold, with at most four columns stuck at 0 and
\* three at 1 (majorityVote of cpu.cpp).
THEOREM GeneratedVotes == ASSUME Generated PROVE Spec => []VoteTolerates
BY ImageReads, VoteIsRight

\* Every phase of a round without failures has computed what FlashRound has by
\* then: the operands are on the page, then the steps' gates, then the outputs are
\* in the registers (execute of cpu.cpp running the image of ROM.cpp).
THEOREM RoundsCompute == ASSUME Generated, Tolerable PROVE Spec => []ComputeInv
<1>1. IInv /\ VoteTolerates /\ ComputeInv /\ [Next]_vars => ComputeInv'
  BY NextBuf, NextJob, NextPhase DEF ComputeInv
<1> QED
  BY <1>1, InitCompute, InvariantHolds, GeneratedVotes, PTL DEF Spec

\* Whatever fails on the way, with up to four columns stuck at 0 and three at 1: a
\* round that had no failure, nor the round before it, leaves b - a and its sign in
\* the registers of every lane (process_requests reads them after the signal).
THEOREM AnswersAreRight == ASSUME Generated, Tolerable PROVE Spec => []AnswerInv
<1>1. ComputeInv => AnswerInv
  BY DEF ComputeInv
<1> QED
  BY <1>1, RoundsCompute, PTL
-----------------------------------------------------------------------------
(* A device without failures *)

LEMMA InitHealthy == ASSUME Faults = {} PROVE Init => Healthy
BY DEF Init, Healthy

LEMMA NextHealthy == ASSUME Faults = {}, IInv, Healthy, [Next]_vars PROVE Healthy'
<1>1. \A fault : ~May(fault)
  BY DEF May
<1>2. \A fetch \in Fetched : fetch.failed = {}
  <2>1. ASSUME NEW fetch \in Fetched PROVE fetch.failed = {}
    <3>1. PICK b \in {Refilled} : fetch = [buffer |-> b, word |-> Decoded(b),
                                           failed |-> IF b = Refilled THEN {} ELSE {"romread"}]
      BY <1>1 DEF Fetched
    <3> QED
      BY <3>1
  <2> QED
    BY <2>1
<1>3. ASSUME NEW fetch \in Fetched, NEW raised, Advance(fetch, fetch.failed, raised) PROVE since' = 2
  BY <1>2, <1>3 DEF Advance, Healthy
<1>4. ~EraseFailed
  BY <1>1 DEF EraseFailed
<1>5. CASE Start
  BY <1>5 DEF Start, Healthy, device
<1>6. CASE UNCHANGED vars
  BY <1>6 DEF vars, device, Healthy
<1>7. CASE BlankRom
  BY <1>3, <1>7 DEF BlankRom, Healthy
<1>8. CASE Mov
  BY <1>3, <1>8 DEF Mov, Healthy
<1>9. CASE InvMov
  BY <1>3, <1>9 DEF InvMov, Healthy
<1>10. CASE CapIn
  BY <1>3, <1>10 DEF CapIn, Healthy
<1>11. CASE GetIn
  BY <1>3, <1>11 DEF GetIn, Healthy
<1>12. CASE PrgNand
  <2>1. PICK fetch \in Fetched, failed \in SUBSET (Faults \cap {"write", "read"}) :
            Advance(fetch, fetch.failed \cup failed, FALSE) /\ eraseOk' = eraseOk
    BY <1>12 DEF PrgNand
  <2>2. fetch.failed \cup failed = fetch.failed
    OBVIOUS
  <2>3. Advance(fetch, fetch.failed, FALSE)
    BY <2>1, <2>2
  <2> QED
    BY <1>3, <2>1, <2>3 DEF Healthy
<1>13. CASE PushOut
  BY <1>3, <1>13 DEF PushOut, Healthy
<1>14. CASE Raise
  BY <1>3, <1>4, <1>14 DEF Raise, NextPage, Erased, Healthy
<1>15. CASE EraseOp
  BY <1>3, <1>4, <1>15 DEF EraseOp, Erased, Healthy
<1> QED
  BY <1>5, <1>6, <1>7, <1>8, <1>9, <1>10, <1>11, <1>12, <1>13, <1>14, <1>15 DEF Next, Execute

\* What Subtractor sees of a step.
LEMMA StepImplements ==
    ASSUME Generated, IInv, ComputeInv, ComputeInv', Healthy', [Next]_vars
    PROVE  [Subtractor!Next]_(Subtractor!vars)
<1> DEFINE Resp == IF serving \/ job = NoJob THEN NoJob ELSE [c |-> out, jmp |-> isJmp]
<1>2. [c |-> out, jmp |-> isJmp] # NoJob
  BY CpuAssumption DEF IInv, TypeOK, DataType
<1>3. CASE Start
  <2>1. ~serving /\ job' \in Jobs /\ serving'
    BY <1>3 DEF Start
  <2>2. job = NoJob \/ Resp # NoJob
    BY <1>2, <2>1
  <2>3. Resp' = NoJob
    BY <2>1
  <2>4. Subtractor!Submit
    BY <2>1, <2>2, <2>3 DEF Subtractor!Submit
  <2> QED
    BY <2>4 DEF Subtractor!Next
<1>4. CASE UNCHANGED vars
  <2>1. UNCHANGED <<job, Resp>>
    BY <1>4 DEF vars, regs
  <2>2. UNCHANGED Subtractor!vars
    BY <2>1 DEF Subtractor!vars
  <2> QED
    BY <2>2
<1>5. CASE Execute
  <2>1. serving /\ job' = job
    BY <1>5 DEF Execute, BlankRom, Mov, InvMov, CapIn, GetIn, PrgNand, PushOut, Raise, EraseOp, NextPage,
                Executes, Advance
  <2>2. job \in Jobs /\ job # NoJob /\ Resp = NoJob
    BY <2>1, CpuAssumption DEF ComputeInv, JobInv
  <2>3. CASE serving'
    <3>1. UNCHANGED <<job, Resp>>
      BY <2>1, <2>2, <2>3
    <3>2. UNCHANGED Subtractor!vars
      BY <3>1 DEF Subtractor!vars
    <3> QED
      BY <3>2
  <2>4. CASE ~serving'
    <3>1. Resp' = [c |-> out, jmp |-> isJmp]'
      BY <2>1, <2>2, <2>4
    <3>2. [c |-> out, jmp |-> isJmp]' = Subtractor!Answer(job)'
      BY <2>1, <2>2, <2>4 DEF ComputeInv, AnswerInv, Healthy
    <3>3. Subtractor!Answer(job)' = Subtractor!Answer(job)
      BY <2>1 DEF Subtractor!Answer
    <3>4. Subtractor!Reply
      BY <2>1, <2>2, <3>1, <3>2, <3>3 DEF Subtractor!Reply
    <3> QED
      BY <3>4 DEF Subtractor!Next
  <2> QED
    BY <2>3, <2>4
<1> QED
  BY <1>3, <1>4, <1>5 DEF Next

\* A device without failures implements the abstract subtractor: every step of the
\* CPU is a submission, an answer that equals the arithmetic of the Boost branch,
\* or invisible.  It is the safety part of RefinesSubtractor.
THEOREM ImplementsSubtractor ==
    ASSUME Generated, Tolerable, Faults = {}
    PROVE  Spec => Subtractor!Init /\ [][Subtractor!Next]_(Subtractor!vars)
<1>1. Init => Subtractor!Init
  BY DEF Init, Subtractor!Init
<1>2. IInv /\ Healthy /\ [Next]_vars => Healthy'
  BY NextHealthy
<1>3. IInv /\ ComputeInv /\ ComputeInv' /\ Healthy' /\ [Next]_vars => [Subtractor!Next]_(Subtractor!vars)
  BY StepImplements
<1> QED
  BY <1>1, <1>2, <1>3, InitHealthy, InvariantHolds, RoundsCompute, PTL DEF Spec

-----------------------------------------------------------------------------
(* Wear levelling: every page was used when they are erased *)

\* The pages before the current one were programmed since the last erase.
Used == \A p \in Page : p < cur => flash[p] # Blank

\* A finished round leaves a 0 on its page: the cell of the constant.
LEMMA RoundUses ==
    ASSUME Generated, Tolerable, IInv, Round!RoundInv, pc \in Round!StepsEnd .. Len(Rom)
    PROVE  flash[cur] # Blank
<1>1. Done(pc) = Round!LastStep
  <2>1. \A r \in Round!StepsEnd .. Len(Rom) : Round!StepsDone(r) = Round!LastStep
    BY RoundFacts, Round!DoneOutputs DEF Generated
  <2> QED
    BY <2>1, RoundNames
<1>2. 0 \in Lane /\ 0 \in Round!Lane
  BY RoundNames, GeometryAssumption DEF Lane
<1>3. ~Round!Read(Round!Zero(0))
  <2>1. Round!Gates
    BY <1>1, RoundFacts, Round!AllGates
  <2> QED
    BY <1>2, <2>1, RoundFacts, Round!ReadZero
<1>4. Round!Zero(0).inv = FALSE /\ Round!Zero(0).cell \in Cells
  <2>1. <<0, "zero", 0, 0, 0>> \in Round!Cell
    BY <1>2, RoundFacts, Round!CellOfFlag
  <2> QED
    BY <2>1 DEF Round!Zero, Round!Sig, Generated
<1>5. PICK c \in Cells : c = Round!Zero(0).cell /\ Content[c] = FALSE
  <2>1. Content \in [Cells -> BOOLEAN]
    BY DEF Content
  <2>2. Content[Round!Zero(0).cell] = FALSE
    BY <1>3, <1>4, <2>1 DEF Round!Read
  <2> QED
    BY <1>4, <2>2
<1>6. Free \notin flash[cur][c]
  BY <1>5 DEF Content
<1>7. Free \in Blank[c]
  BY FreeWorks, FreeBits DEF IInv, TypeOK, ControlType
<1> QED
  BY <1>6, <1>7

\* The last RAISE is the last word of the image, and its page is used up.
LEMMA RaiseUses ==
    ASSUME Generated, Tolerable, IInv, PhaseInv, Running, NEW fetch \in Fetched, fetch.failed = {},
           fetch.word.code = "RAISE"
    PROVE  flash[cur] # Blank
<1>1. fetch.word = Rom[pc + 1] /\ pc \in 0 .. Len(Rom) - 1
  BY FetchResult DEF IInv, TypeOK, ControlType
<1>2. PICK l \in Lane : pc = Round!StepsEnd + NSlots + l
  BY <1>1, Words
<1>3. PICK E \in Nat, N \in Nat \ {0}, F \in Nat : E = Round!StepsEnd /\ N = NSlots /\ F = Round!InputEnd /\ F <= E
  BY RoundNames
<1>4. pc \in Round!StepsEnd .. Len(Rom) /\ pc >= Round!InputEnd
  <2>1. PICK p \in Nat : p = pc /\ p <= Len(Rom)
    BY <1>1, RomType
  <2>2. l \in Nat
    BY GeometryAssumption DEF Lane
  <2>3. p >= E /\ p >= F
    BY <1>2, <1>3, <2>1, <2>2
  <2> QED
    BY <1>3, <2>1, <2>3, RomType
<1>5. Round!RoundInv
  BY <1>4 DEF PhaseInv, StepInv
<1> QED
  BY <1>4, <1>5, RoundUses

\* A step erases pages only when all of them were used, and keeps them used.
LEMMA NextUsed ==
    ASSUME Generated, Tolerable, Faults = {}, IInv, PhaseInv, Healthy, Used, [Next]_vars
    PROVE  /\ Used'
           /\ (\E p \in Page : flash[p] # Blank /\ flash'[p] = Blank) => \A p \in Page : flash[p] # Blank
<1>1. \A fault : ~May(fault)
  BY DEF May
<1>2. \A fetch \in Fetched : fetch.failed = {}
  <2>1. ASSUME NEW fetch \in Fetched PROVE fetch.failed = {}
    <3>1. PICK b \in {Refilled} : fetch = [buffer |-> b, word |-> Decoded(b),
                                           failed |-> IF b = Refilled THEN {} ELSE {"romread"}]
      BY <1>1 DEF Fetched
    <3> QED
      BY <3>1
  <2> QED
    BY <2>1
<1>3. /\ cur \in 0 .. NPages - 1 /\ NPages \in Nat \ {0} /\ Page = 0 .. NPages - 1
      /\ flash \in [Page -> [Cells -> Byte]]
  BY CpuAssumption DEF IInv, TypeOK, DataType, Page
<1>4. ASSUME cur' = cur, flash' = flash
      PROVE  /\ Used'
             /\ (\E p \in Page : flash[p] # Blank /\ flash'[p] = Blank) => \A p \in Page : flash[p] # Blank
  BY <1>4 DEF Used
<1>5. CASE Start \/ UNCHANGED vars
  BY <1>4, <1>5 DEF Start, vars, device
<1>6. CASE BlankRom \/ Mov \/ InvMov \/ CapIn \/ GetIn \/ PushOut
  BY <1>4, <1>6 DEF BlankRom, Mov, InvMov, CapIn, GetIn, PushOut
<1>7. CASE PrgNand
  <2>1. cur' = cur /\ flash' = Programmed
    BY <1>1, <1>7 DEF PrgNand
  <2>2. \A p \in Page : p # cur => flash'[p] = flash[p]
    BY <1>3, <2>1 DEF Programmed
  <2>3. flash'[cur] = Blank => flash[cur] = Blank
    <3> SUFFICES ASSUME flash'[cur] = Blank PROVE flash[cur] = Blank
      OBVIOUS
    <3>1. cur \in Page /\ flash[cur] \in [Cells -> Byte]
      BY <1>3
    <3>2. flash'[cur] = [c \in Cells |-> flash[cur][c] \cap page[c]]
      BY <1>3, <2>1, <3>1 DEF Programmed
    <3>3. ASSUME NEW c \in Cells PROVE flash[cur][c] = Columns
      <4>1. flash[cur][c] \cap page[c] = Columns
        BY <3>2 DEF Blank
      <4>2. flash[cur][c] \subseteq Columns
        BY <3>1 DEF Byte
      <4> QED
        BY <4>1, <4>2
    <3>4. flash[cur] = [c \in Cells |-> flash[cur][c]]
      BY <3>1
    <3> QED
      BY <3>3, <3>4 DEF Blank
  <2>4. \A p \in Page : flash'[p] = Blank => flash[p] = Blank
    BY <2>2, <2>3
  <2>5. Used'
    BY <2>1, <2>4 DEF Used
  <2> QED
    BY <2>4, <2>5
<1>8. CASE EraseOp
  <2>1. PICK fetch \in Fetched : fetch.word.code = "ERASE"
    BY <1>8 DEF EraseOp, Executes
  <2>2. fetch.word = Rom[pc + 1] /\ pc \in 0 .. Len(Rom) - 1
    BY <1>2, <2>1, FetchResult DEF IInv, TypeOK, ControlType
  <2> QED
    BY <2>1, <2>2, Words
<1>9. CASE Raise
  <2>1. PICK fetch \in Fetched :
            /\ serving /\ fetch.word.code = "RAISE"
            /\ \/ cur + 2 <= NPages /\ cur' = cur + 1 /\ flash' = flash
               \/ cur + 2 > NPages /\ Erased
               \/ cur' = cur /\ flash' = flash
    BY <1>1, <1>9 DEF Raise, NextPage, EraseFailed, Executes
  <2>2. flash[cur] # Blank
    BY <1>2, <2>1, RaiseUses DEF Running, Healthy
  <2>3. CASE cur' = cur + 1 /\ flash' = flash
    <3>1. ASSUME NEW p \in Page, p < cur + 1 PROVE p < cur \/ p = cur
      BY <1>3, <3>1
    <3>2. \A p \in Page : p < cur' => flash'[p] # Blank
      BY <2>2, <2>3, <3>1 DEF Used
    <3> QED
      BY <2>3, <3>2 DEF Used
  <2>4. CASE cur + 2 > NPages /\ Erased
    <3>1. ASSUME NEW p \in Page PROVE p < cur \/ p = cur
      BY <1>3, <2>4
    <3>2. \A p \in Page : flash[p] # Blank
      BY <2>2, <3>1 DEF Used
    <3>3. \A p \in Page : ~(p < cur')
      BY <1>3, <2>4 DEF Erased
    <3> QED
      BY <3>2, <3>3 DEF Used
  <2> QED
    BY <1>4, <2>1, <2>3, <2>4
<1> QED
  BY <1>5, <1>6, <1>7, <1>8, <1>9 DEF Next, Execute

\* On a device without failures the calculation region is erased only when every
\* page of it was programmed: a finished round always leaves a 0 on its page, and
\* RAISE erases only on the last page (execute and erase of cpu.cpp).
THEOREM ErasedWhenUsedUp ==
    ASSUME Generated, Tolerable, Faults = {}
    PROVE  Spec => ErasesWhenFull
<1>1. Init => Used
  BY CpuAssumption DEF Init, Used, Page
<1>2. IInv /\ Healthy /\ [Next]_vars => Healthy'
  BY NextHealthy
<1>3. IInv /\ ComputeInv /\ Healthy /\ Used /\ [Next]_vars => Used'
  BY NextUsed DEF ComputeInv
<1>4. IInv /\ ComputeInv /\ Healthy /\ Used /\ [Next]_vars
         => [(\E p \in Page : flash[p] # Blank /\ flash'[p] = Blank) => \A p \in Page : flash[p] # Blank]_flash
  BY NextUsed DEF ComputeInv
<1> QED
  BY <1>1, <1>2, <1>3, <1>4, InitHealthy, InvariantHolds, RoundsCompute, PTL DEF Spec, ErasesWhenFull
=============================================================================
