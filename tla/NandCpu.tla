------------------------------ MODULE NandCpu ------------------------------
(***************************************************************************)
(* The flash computer (src/server/cpu.cpp, include/cpu.hpp) and the    *)
(* loop of process_requests (src/server/server.cpp) that drives it: a      *)
(* microprogram in the ROM region of a NAND device is fetched page by page *)
(* and computes by programming one page of the same device over and over,  *)
(* a program operation being the AND of what the page holds and what is    *)
(* written.  Every round uses a fresh page; all pages are erased together  *)
(* when the last one is used up.                                           *)
(*                                                                         *)
(* The device is NAND_STUB of include/nandInterface.hpp plus the       *)
(* failures whose status cpu.cpp ignores.  Pages are counted from RAM, and *)
(* a cell of Cells stands for the same byte of every page.                 *)
(***************************************************************************)
EXTENDS Geometry, Sequences, FiniteSets

CONSTANTS
    Cells,      \* the bytes of a page that the microprogram uses
    Rom,        \* the microprogram: words [code, dest, from, next]
    NPages,     \* pages of the calculation region, (nandSize - RAM) / PAGE_SIZ
    Jobs,       \* batches [a, b] of one word per lane
    NoJob,      \* no batch was loaded yet
    Faults,     \* device operations that may fail, of FaultKinds
    MaxFaults,  \* bound on the failures of a behaviour
    Partials,   \* the bits that a failed program may leave as they were: cell -> bits
    StuckSets   \* pairs [zero, one] of bit columns that always read 0, or 1

Page == 0 .. NPages - 1
Columns == 0 .. 7                  \* a byte is the set of its 1 bits
Byte == SUBSET Columns
FaultKinds == {"romread", "read", "write", "erase"}

\* What rom_init guarantees of any image: words are executed in order, the
\* last one restarts the round and is the only RAISE of the last lane.
LastRaise(w) == w.code = "RAISE" /\ w.dest % LANES = LANES - 1

Instruction ==
    [code : {"MOV", "INV_MOV", "GET_IN"}, dest : Cells, from : Cells, next : Nat]
    \cup [code : {"CAP_IN", "PRG_NAND", "ERASE"}, dest : Cells, from : Cells, next : Nat]
    \cup [code : {"PUSH_OUT", "RAISE"}, dest : Nat, from : Cells, next : Nat]

ASSUME CpuAssumption ==
    /\ NPages \in Nat \ {0} /\ MaxFaults \in Nat
    /\ Faults \subseteq FaultKinds
    /\ IsFiniteSet(Cells)
    /\ Partials \subseteq [Cells -> Byte]
    /\ StuckSets \subseteq [zero : Byte, one : Byte]
    /\ Jobs \subseteq [a : [Lane -> Word], b : [Lane -> Word]]
    /\ NoJob \notin Jobs \cup [c : [Lane -> Word], jmp : [Lane -> BOOLEAN]]

ASSUME RomAssumption ==
    /\ Rom \in Seq(Instruction)
    /\ Rom # <<>>
    /\ \A i \in 1 .. Len(Rom) : /\ Rom[i].next = i % Len(Rom)
                                /\ LastRaise(Rom[i]) <=> i = Len(Rom)
----------------------------------------------------------------------------
VARIABLES
    pc,         \* address of the next word, in words
    romPage,    \* ROM page held by the buffer rom[], -1 before the first read
    page,       \* the page buffer: cell -> byte
    pre,        \* preOffset, as a page; -1 while it is still the initial 0
    cur,        \* pageOffset, as a page
    getinCnt,   \* GET_INs since CAP_IN
    inA, inB,   \* operand shift registers of the lanes
    out, isJmp, \* result shift registers and flags of the lanes
    signal,     \* the round is complete
    flash,      \* the device's calculation region: page -> cell -> byte
    job,        \* the batch being computed, or the last one
    serving,    \* inside the execution loop of process_requests
    ran,        \* its loop counter
    stuck,      \* bit columns of this device that do not follow the data
    faults,     \* failures so far
    since,      \* rounds started since the last failure inside a round, up to 2, all
                \* of them on erased pages
    eraseOk     \* the last erase of the calculation region did its work

regs == <<getinCnt, inA, inB, out, isJmp>>
device == <<flash, stuck, eraseOk>>
vars == <<pc, romPage, page, pre, cur, regs, signal, device, job, serving, ran, faults, since>>

Blank == [c \in Cells |-> Columns]
ZeroWord == [i \in 1 .. DIGIT |-> FALSE]
----------------------------------------------------------------------------
(* The pieces of cpu.cpp *)

\* 0xff or 0x00: every bit of a byte carries the same value.
Replicate(v) == IF v THEN Columns ELSE {}

\* ~ of a byte.
LogicalNot(byte) == IF byte = {} THEN {0} ELSE {}   \* mutant: ! instead of ~
Inverted(byte) == Columns \ byte

AllVotes(bits) == bits = Columns   \* mutant: compared with 0xff, no vote
MostVotes(bits) == Cardinality(bits) > 4   \* mutant: four of eight are no majority
majorityVote(bits) == Cardinality(bits) > 3

EditBufKeeps(c, v) == [page EXCEPT ![c] = v]   \* mutant: the buffer is never cleared

\* edit_buf: the buffer is cleared when the physical page has moved on.
EditBuf(c, v) == [(IF pre = cur THEN page ELSE Blank) EXCEPT ![c] = v]

\* x >>= 1, the vacated highest bit taking the value v.
Shift(x, v) == Append(Tail(x), v)

\* What the sense amplifiers return for a byte.
Sensed(byte) == (byte \ stuck.zero) \cup stuck.one

May(fault) == fault \in Faults /\ faults < MaxFaults

\* mutant: rom[] starts out as 0xff
DecodedUnset(buffer) ==
    LET i == (buffer * WORDS) + (pc % WORDS)
    IN  IF buffer # -1 /\ i < Len(Rom) THEN Rom[i + 1] ELSE [code |-> "ERASED"]

\* The word at an address of the ROM region.  Past the image the region is
\* erased (all ones decode as an ERASE with no valid successor), and a buffer
\* that no read has filled yet is zero, a MOV of byte 0 onto itself.
Decoded(buffer) ==
    LET i == (buffer * WORDS) + (pc % WORDS)
    IN  IF buffer = -1 THEN [code |-> "ZERO", next |-> 0]
        ELSE IF i < Len(Rom) THEN Rom[i + 1]
        ELSE [code |-> "ERASED"]

RefilledOnce == IF romPage = -1 THEN pc \div WORDS ELSE romPage   \* mutant: read once only

\* fetch: at the start of a ROM page the buffer is refilled; a failed read
\* leaves it as it was and is not noticed.
Refilled == IF pc % WORDS = 0 THEN pc \div WORDS ELSE romPage
Fetched ==
    LET buffers == {Refilled} \cup (IF pc % WORDS = 0 /\ May("romread") THEN {romPage} ELSE {})
    IN  {[buffer |-> b, word |-> Decoded(b), failed |-> IF b = Refilled THEN {} ELSE {"romread"}] :
            b \in buffers}
----------------------------------------------------------------------------
(* execute, one action per opcode, and the loop around it *)

Executes(code, fetch) == serving /\ fetch.word.code = code

\* What every instruction does besides its own effect: the loop counts it and
\* stops at the signal or when it has run as many words as the image has.
\* `failed' is the set of operations that failed in the step.
Advance(fetch, failed, raised) ==
    /\ romPage' = fetch.buffer
    /\ pc' = fetch.word.next
    /\ signal' = raised
    /\ ran' = ran + 1
    /\ serving' = (~raised /\ ran + 1 < Len(Rom))
    /\ faults' = faults + Cardinality(failed)
    /\ faults' <= MaxFaults
    /\ since' = IF failed = {} \/ (raised /\ failed = {"erase"}) THEN since ELSE 0
    /\ UNCHANGED <<job, stuck>>

\* A buffer that was never filled: byte 0 is copied onto itself.
BlankRom == \E fetch \in Fetched :
    /\ Executes("ZERO", fetch)
    /\ Advance(fetch, fetch.failed, FALSE)
    /\ UNCHANGED <<page, pre, cur, regs, flash, eraseOk>>

Mov == \E fetch \in Fetched :
    /\ Executes("MOV", fetch)
    /\ page' = EditBuf(fetch.word.dest, page[fetch.word.from])
    /\ pre' = cur
    /\ Advance(fetch, fetch.failed, FALSE)
    /\ UNCHANGED <<cur, regs, flash, eraseOk>>

InvMov == \E fetch \in Fetched :
    /\ Executes("INV_MOV", fetch)
    /\ page' = EditBuf(fetch.word.dest, Inverted(page[fetch.word.from]))
    /\ pre' = cur
    /\ Advance(fetch, fetch.failed, FALSE)
    /\ UNCHANGED <<cur, regs, flash, eraseOk>>

CapIn == \E fetch \in Fetched :
    /\ Executes("CAP_IN", fetch)
    /\ getinCnt' = 0
    /\ Advance(fetch, fetch.failed, FALSE)
    /\ UNCHANGED <<page, pre, cur, inA, inB, out, isJmp, flash, eraseOk>>


\* The first DIGIT GET_INs after CAP_IN feed from lane 0, and so on.
GetInLane == IF getinCnt \div DIGIT >= LANES THEN LANES - 1 ELSE getinCnt \div DIGIT

GetIn == \E fetch \in Fetched :
    /\ Executes("GET_IN", fetch)
    /\ getinCnt' = getinCnt + 1
    /\ page' = [EditBuf(fetch.word.from, Replicate(inA[GetInLane][1]))
                   EXCEPT ![fetch.word.dest] = Replicate(inB[GetInLane][1])]
    /\ pre' = cur
    /\ inA' = [inA EXCEPT ![GetInLane] = Shift(@, FALSE)]
    /\ inB' = [inB EXCEPT ![GetInLane] = Shift(@, FALSE)]
    /\ Advance(fetch, fetch.failed, FALSE)
    /\ UNCHANGED <<cur, out, isJmp, flash, eraseOk>>

\* write: program the buffer into the page, then read the page back.  Neither
\* status is looked at: a failed program leaves any of its bits as they were,
\* a failed read the buffer.
Programmed == [flash EXCEPT ![cur] = [c \in Cells |-> @[c] \cap page[c]]]
PartlyProgrammed(left) ==
    [flash EXCEPT ![cur] = [c \in Cells |-> @[c] \cap (page[c] \cup left[c])]]
NoReadBack(fl) == page   \* mutant: nand.read is missing
ReadBack(fl) == [c \in Cells |-> Sensed(fl[cur][c])]

PrgNand == \E fetch \in Fetched, failed \in SUBSET (Faults \cap {"write", "read"}) :
    /\ Executes("PRG_NAND", fetch)
    /\ Advance(fetch, fetch.failed \cup failed, FALSE)
    /\ \/ "write" \notin failed /\ flash' = Programmed
       \/ "write" \in failed /\ \E left \in Partials : flash' = PartlyProgrammed(left)
    /\ page' = IF "read" \in failed THEN page ELSE ReadBack(flash')
    /\ UNCHANGED <<pre, cur, regs, eraseOk>>

PushOut == \E fetch \in Fetched :
    /\ Executes("PUSH_OUT", fetch)
    /\ out' = [out EXCEPT ![fetch.word.dest % LANES] =
                              Shift(@, majorityVote(page[fetch.word.from]))]
    /\ Advance(fetch, fetch.failed, FALSE)
    /\ UNCHANGED <<page, pre, cur, getinCnt, inA, inB, isJmp, flash, eraseOk>>

\* erase: all pages of the calculation region at once.  A failure is printed
\* and the computation goes on, on whatever the pages hold: some are erased.
\* mutant: erases the first page only
ErasedFirst == cur' = 0 /\ page' = Blank /\ flash' = [flash EXCEPT ![0] = Blank] /\ eraseOk' = TRUE
Erased == cur' = 0 /\ page' = Blank /\ flash' = [p \in Page |-> Blank] /\ eraseOk' = TRUE
EraseFailed ==
    /\ May("erase") /\ cur' = 0 /\ page' = Blank /\ eraseOk' = FALSE
    /\ \E gone \in SUBSET Page : flash' = [p \in Page |-> IF p \in gone THEN Blank ELSE flash[p]]

\* mutant: erases one page too early
NextPageEarly(fetch) ==
    \/ /\ cur + 2 < NPages
       /\ cur' = cur + 1
       /\ Advance(fetch, fetch.failed, TRUE)
       /\ UNCHANGED <<page, flash, eraseOk>>
    \/ cur + 2 >= NPages /\ Erased /\ Advance(fetch, fetch.failed, TRUE)

\* The last lane's RAISE ends the round and moves on to the next page.
NextPage(fetch) ==
    \/ /\ cur + 2 <= NPages
       /\ cur' = cur + 1
       /\ Advance(fetch, fetch.failed, TRUE)
       /\ UNCHANGED <<page, flash, eraseOk>>
    \/ cur + 2 > NPages /\ Erased /\ Advance(fetch, fetch.failed, TRUE)
    \/ cur + 2 > NPages /\ EraseFailed /\ Advance(fetch, fetch.failed \cup {"erase"}, TRUE)

Raise == \E fetch \in Fetched :
    /\ Executes("RAISE", fetch)
    /\ isJmp' = [isJmp EXCEPT ![fetch.word.dest % LANES] = majorityVote(page[fetch.word.from])]
    /\ \/ LastRaise(fetch.word) /\ NextPage(fetch)
       \/ /\ ~LastRaise(fetch.word)
          /\ Advance(fetch, fetch.failed, FALSE)
          /\ UNCHANGED <<page, cur, flash, eraseOk>>
    /\ UNCHANGED <<pre, getinCnt, inA, inB, out>>

EraseOp == \E fetch \in Fetched :
    /\ Executes("ERASE", fetch)
    /\ \/ Erased /\ Advance(fetch, fetch.failed, FALSE)
       \/ EraseFailed /\ Advance(fetch, fetch.failed \cup {"erase"}, FALSE)
    /\ UNCHANGED <<pre, regs>>
----------------------------------------------------------------------------
\* The CPU as its constructor leaves it.  The erase that ends the constructor
\* may have failed: then some pages hold what an earlier run left there.
Init ==
    /\ pc = 0 /\ romPage = -1 /\ page = Blank /\ pre = -1 /\ cur = 0
    /\ getinCnt = 0
    /\ inA = [l \in Lane |-> ZeroWord] /\ inB = [l \in Lane |-> ZeroWord]
    /\ out = [l \in Lane |-> ZeroWord] /\ isJmp = [l \in Lane |-> FALSE]
    /\ signal = FALSE
    /\ stuck \in StuckSets
    /\ \/ /\ flash = [p \in Page |-> Blank]
          /\ faults = 0 /\ since = 2 /\ eraseOk = TRUE
       \/ /\ "erase" \in Faults /\ MaxFaults > 0
          /\ \E gone \in SUBSET Page :
                flash = [p \in Page |-> IF p \in gone THEN Blank ELSE [c \in Cells |-> {}]]
          /\ faults = 1 /\ since = 0 /\ eraseOk = FALSE
    /\ job = NoJob /\ serving = FALSE /\ ran = 0

\* process_requests loads a batch and enters the execution loop.
Start ==
    /\ ~serving
    /\ job' \in Jobs
    /\ inA' = job'.a /\ inB' = job'.b
    /\ serving' = TRUE /\ ran' = 0
    /\ since' = IF ~eraseOk THEN 0 ELSE IF since < 2 THEN since + 1 ELSE 2
    /\ UNCHANGED <<pc, romPage, page, pre, cur, getinCnt, out, isJmp, signal, device, faults>>

Execute == \/ BlankRom \/ Mov \/ InvMov \/ CapIn \/ GetIn
           \/ PrgNand \/ PushOut \/ Raise \/ EraseOp

Next == Start \/ Execute

\* A worker thread in its loop keeps running.
Spec == Init /\ [][Next]_vars /\ WF_vars(Execute)
----------------------------------------------------------------------------
(* Properties *)

\* What fetch and the loop move, and what the instructions do.
ControlType ==
    /\ pc \in 0 .. Len(Rom) - 1
    /\ romPage \in -1 .. (Len(Rom) - 1) \div WORDS
    /\ signal \in BOOLEAN /\ serving \in BOOLEAN
    /\ job \in Jobs \cup {NoJob}
    /\ ran \in 0 .. Len(Rom)
    /\ stuck \in StuckSets
    /\ faults \in 0 .. MaxFaults /\ since \in 0 .. 2
DataType ==
    /\ page \in [Cells -> Byte]
    /\ pre \in -1 .. NPages - 1
    /\ cur \in Page
    /\ getinCnt \in Nat
    /\ inA \in [Lane -> Word] /\ inB \in [Lane -> Word] /\ out \in [Lane -> Word]
    /\ isJmp \in [Lane -> BOOLEAN]
    /\ flash \in [Page -> [Cells -> Byte]]
    /\ eraseOk \in BOOLEAN
TypeOK == ControlType /\ DataType

Healthy == since = 2 /\ eraseOk

\* Between rounds the program is back at its start, the next round's page is
\* inside the device and no page from it on has been programmed since the
\* last erase: a round never computes on the remains of another (the wrap of
\* RAISE, the erase it triggers, the loop bound of process_requests).
FreshPages ==
    ~serving /\ Healthy => pc = 0 /\ \A p \in cur .. NPages - 1 : flash[p] = Blank

\* The device is erased only when every page was used (wear levelling).
ErasesWhenFull ==
    [][(\E p \in Page : flash[p] # Blank /\ flash'[p] = Blank)
            => \A p \in Page : flash[p] # Blank]_flash

\* Why FreshPages holds of every image and whatever fails.  The buffer holds
\* the page of the next word or is about to be refilled ...
PageLoaded == romPage = pc \div WORDS \/ pc % WORDS = 0
\* ... pages past the current one are erased ...
BlankAhead == eraseOk => \A p \in Page : p > cur => flash[p] = Blank
\* ... and a round with no failure before its end has executed at most the
\* words before pc, so that it reaches the RAISE that resets pc.
InStep == serving => /\ ran < Len(Rom)
                     /\ since >= 1 => ran <= pc
                     /\ since = 2 => ran = pc
AtRest == ~serving /\ since >= 1 => pc = 0 /\ (eraseOk => flash[cur] = Blank)

IInv == TypeOK /\ PageLoaded /\ BlankAhead /\ InStep /\ AtRest

\* read() sees only the page buffer, so a cell may be copied or pushed out
\* only when the buffer shows what was programmed, not a pending edit or the
\* buffer of another page (the step assignment of schedule(), edit_buf).
Readers == {"MOV", "INV_MOV", "PUSH_OUT", "RAISE"}
Edited(w) == CASE w.code = "GET_IN"            -> {w.dest, w.from}
               [] w.code \in {"MOV", "INV_MOV"} -> {w.dest}
               [] OTHER                        -> {}

\* After the first r words of a round on a page that it has edited, the cell was
\* programmed and not edited since.
Shown(c, r) ==
    \E e \in 1 .. r :
       /\ Edited(Rom[e]) # {} /\ \A k \in e .. r : Rom[k].code # "ERASE"
       /\ \E q \in e + 1 .. r : Rom[q].code = "PRG_NAND" /\ \A k \in q .. r : c \notin Edited(Rom[k])

\* The microprogram respects that: no cell is read in the step that writes it.
ReadsAfterProgram ==
    \A i \in 1 .. Len(Rom) : Rom[i].code \in Readers => Shown(Rom[i].from, i - 1)

ReadsProgrammed ==
    serving /\ Healthy =>
        \A fetch \in Fetched :
            fetch.failed = {} /\ fetch.word.code \in Readers =>
                page[fetch.word.from] = Sensed(flash[cur][fetch.word.from])

\* majorityVote gives what the columns that work hold, for a byte of the page as
\* it was programmed, as long as at most four columns always read 0 and three 1.
VoteTolerates ==
    serving /\ Healthy /\ Cardinality(stuck.zero) <= 4 /\ Cardinality(stuck.one) <= 3 =>
        \A fetch \in Fetched, i \in Columns \ (stuck.zero \cup stuck.one) :
            LET w == fetch.word IN
            fetch.failed = {} /\ w.code \in {"PUSH_OUT", "RAISE"} =>
                (majorityVote(page[w.from]) <=> i \in flash[cur][w.from])

\* All bits of a byte that are not stuck agree: MOV, INV_MOV and the AND of
\* a program work on eight copies of the same computation.
Agree(byte) == \A i, j \in Columns \ (stuck.zero \cup stuck.one) : i \in byte <=> j \in byte
\* A failed program may leave them apart, in the page and in the buffer that is
\* read back from it: a round that no failure disturbs starts on a blank page, so
\* that they agree again from the first program on, and never use what is left.
ReplicasAgree ==
    serving /\ Healthy => /\ \A c \in Cells : Agree(flash[cur][c])
                          /\ pre = cur => \A c \in Cells : Agree(page[c])

\* ... provided that the microprogram edits the buffer before it programs it.
ProgramsAfterEdit ==
    \A i \in 1 .. Len(Rom) : Rom[i].code = "PRG_NAND" => \E e \in 1 .. i - 1 : Edited(Rom[e]) # {}

\* Whatever failed before, no word past the image is decoded: the word fetched is
\* one of the image, or the MOV of byte 0 onto itself that a buffer decodes to
\* which no read has filled yet.
FetchesImage == serving => \A fetch \in Fetched : fetch.word.code # "ERASED"

\* What the server loop sees: no answer while the round runs, then the
\* registers of the lanes.
Subtractor == INSTANCE LaneSubtractor WITH
    NoResp <- NoJob,
    resp <- IF serving \/ job = NoJob THEN NoJob ELSE [c |-> out, jmp |-> isJmp]

\* A device without failures is indistinguishable from the arithmetic of the
\* Boost branch, and every batch is answered.
RefinesSubtractor == Subtractor!Spec
============================================================================
