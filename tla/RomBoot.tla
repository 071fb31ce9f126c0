------------------------------ MODULE RomBoot ------------------------------
(***************************************************************************)
(* The start of a CPU (the constructor in cpu.hpp) on the spidev driver:   *)
(* read the ROM region, erase it if it holds something else, write the     *)
(* image, read it back, erase the calculation area.  Power may fail and    *)
(* the process may be killed at any step; whoever runs the server starts   *)
(* it again, on the flash as it was left.                                  *)
(***************************************************************************)
EXTENDS SpiFlash, Sequences

CONSTANTS ROM_PAGES,       \* pages of the ROM region; RAM starts behind it
          Image,           \* page -> bits: what rom_init() and the packing loop give
          InitialRoms      \* what the ROM region may hold before the first start

VARIABLES host,     \* what the constructor is doing: the call it waits for
          answers   \* of the two reads of the ROM region since the start

vars == <<spiVars, host, answers>>

RomPage == 0 .. ROM_PAGES - 1

\* The ROM region fits every bundle and leaves room for the calculation area.
ASSUME RomFits == /\ ROM_PAGES \in Nat \ {0}
                  /\ Image \in [RomPage -> SUBSET Bit] /\ InitialRoms \subseteq [RomPage -> SUBSET Bit]
                  /\ \A bundle \in Bundles : ROM_PAGES < bundle[1] * bundle[2]

\* mutant: the calculation area starts one page too early
CalcPageEarly == {p \in LogicalPage : p >= ROM_PAGES - 1}

CalcPage == LogicalPage \ RomPage
Blank == [p \in RomPage |-> {}]
RomRegion == [p \in RomPage |-> pages[p]]
Returned == drv.op = "idle"
----------------------------------------------------------------------------
\* What new uint8_t[ROM_SIZE] may hold: fresh zero pages, or the memory that
\* the constructor of another CPU has freed, with the image in it.
Uninitialised == {[p \in RomPage |-> Bit], Image}

Init == \E bundle \in Bundles, rom \in InitialRoms :
          /\ chip = [k \in 0 .. bundle[1] - 1 |->
                       NewChip([p \in 0 .. bundle[2] - 1 |->
                                  LET page == p * bundle[1] + k IN
                                  IF page \in RomPage THEN rom[page] ELSE Bit])]
          /\ drv = IdleDrv /\ buffer \in Uninitialised
          /\ trouble = 0 /\ unseen = 0
          /\ host = "down" /\ answers = <<>>

DriverStep == host # "down" /\ Driver /\ UNCHANGED <<host, answers>>
ChipStep == /\ \E k \in Chip : ChipDone(k) \/ ChipFails(k)
            /\ UNCHANGED <<host, answers>>

\* The constructor goes on to its next call, or exits.
Then(step) == host' = step /\ UNCHANGED <<chip, buffer, trouble, unseen>>
Exit == Then("down") /\ UNCHANGED <<drv, answers>>

\* A new process.  A program or an erase that a killed one left running has
\* long ended by then.
Start == /\ host = "down" /\ \A k \in Chip : Free(k)
         /\ host' = "started" /\ answers' = <<>>
         /\ drv' = IdleDrv /\ unseen' = 0 /\ buffer' \in Uninitialised
         /\ UNCHANGED <<chip, trouble>>

OpenDevice == /\ host = "started"
              /\ Call("open", "9Fh", 0, 0, <<>>)
              /\ Then("open") /\ UNCHANGED answers

\* nandInterface exits when the device cannot be opened.
FirstRead == /\ host = "open" /\ Returned
             /\ IF drv.answer = "failed" THEN Exit
                ELSE CallRead(0, ROM_PAGES) /\ Then("first_read") /\ UNCHANGED answers

\* mutant: old data is taken for a blank region
NeverErases == buffer # buffer

\* mutant: any data but a blank region is old data
AnyData == buffer # Blank

\* The answer of the read is not looked at: the buffer is compared as it is.
HoldsOldData == buffer # Image /\ buffer # Blank
EraseOrWrite == /\ host = "first_read" /\ Returned
                /\ answers' = <<drv.answer>>
                /\ IF HoldsOldData THEN CallErase(0, ROM_PAGES) /\ Then("rom_erase")
                                   ELSE CallWrite(0, ROM_PAGES, Image) /\ Then("rom_write")

AfterErase == /\ host = "rom_erase" /\ Returned
              /\ IF drv.answer = "failed" THEN Exit
                 ELSE CallWrite(0, ROM_PAGES, Image) /\ Then("rom_write") /\ UNCHANGED answers

ReadBack == /\ host = "rom_write" /\ Returned
            /\ CallRead(0, ROM_PAGES) /\ Then("read_back") /\ UNCHANGED answers

\* mutant: the image read back is not compared
NoVerify == buffer = buffer

Verified == buffer = Image
Verify == /\ host = "read_back" /\ Returned
          /\ IF ~Verified THEN Exit
             ELSE /\ answers' = Append(answers, drv.answer)
                  /\ CallErase(ROM_PAGES, n * CHIP_PAGES - ROM_PAGES) /\ Then("calc_erase")

\* A failed erase of the calculation area is printed and no more.
Run == /\ host = "calc_erase" /\ Returned
       /\ Then("running") /\ UNCHANGED <<drv, answers>>

\* What the program of a CPU that runs does to the flash: a PRG_NAND programs one
\* page of the calculation area, the RAISE that has used up the last one erases
\* them all and drops the answer.  Which page comes when is NandCpu's; reads, which
\* change no cell, are left out.
Compute == /\ host \in {"running", "computing"} /\ Returned
           /\ \/ \E p \in CalcPage : CallWrite(p, 1, [q \in {p} |-> Bit])
              \/ CallErase(ROM_PAGES, n * CHIP_PAGES - ROM_PAGES)
           /\ Then("computing") /\ UNCHANGED answers

PowerFails ==
    /\ host # "down" /\ Trouble
    /\ \E left \in [Chip -> UNION {CutShort(chip[k]) : k \in Chip}] :
          /\ \A k \in Chip : left[k] \in CutShort(chip[k])
          /\ chip' = [k \in Chip |-> NewChip(left[k])]
    /\ host' = "down" /\ drv' = IdleDrv /\ answers' = <<>>
    /\ UNCHANGED <<buffer, unseen>>

Killed == /\ host # "down" /\ Trouble
          /\ host' = "down"
          /\ UNCHANGED <<chip, drv, buffer, unseen, answers>>

Constructor == \/ OpenDevice \/ FirstRead \/ EraseOrWrite \/ AfterErase
               \/ ReadBack \/ Verify \/ Run

Next == \/ DriverStep \/ Start \/ Constructor \/ Compute \/ PowerFails \/ Killed \/ ChipStep

Spec == /\ Init /\ [][Next]_vars
        /\ WF_vars(DriverStep) /\ WF_vars(Constructor)
        /\ WF_vars(ChipStep)
----------------------------------------------------------------------------
TypeOK == SpiTypeOK /\ answers \in {<<>>} \cup {<<a>> : a \in {"ok", "failed"}} \cup ({"ok", "failed"} \X {"ok", "failed"})

\* The final guard: a CPU that runs has its image in the flash, although the
\* answers of the reads and of the write are ignored, as long as the read back
\* answered "ok" and no fault went unseen.  (FinalGuard shows that the answer of
\* the read back matters: a good first read is not enough.)
BootedSound == host = "running" /\ unseen = 0 /\ answers[2] = "ok" => RomRegion = Image

\* The comment at the comparison: a ROM that does not read back as written
\* stops the start (the final guard).  Here even with a good first read.
FinalGuard == host = "running" /\ unseen = 0 /\ answers[1] = "ok" => RomRegion = Image

\* What NandCpu starts from: a CPU runs on a blank calculation area, unless the
\* erase has said "failed", which is printed and no more.  It says so only after
\* a fault, or where the area is no whole number of groups.
CalcRefused == ROM_PAGES % groupSize # 0 \/ (n * CHIP_PAGES - ROM_PAGES) % groupSize # 0
CalcFresh == host = "running" /\ unseen = 0 =>
                \/ \A p \in CalcPage : pages[p] = {}
                \/ drv.answer = "failed" /\ (trouble > 0 \/ CalcRefused)

\* Old data is lost to an erase of its own region only, also when an erase fails,
\* is cut short or left running: the ROM region to the one that follows the first
\* read, the calculation area to those that follow the verification.  A first
\* read that was good never asks for an erase of the image (a restart with the
\* same ROM wears nothing out); one that failed may.
LosesBits(p) == ~(pages[p] \subseteq pages'[p])
OwnErase(p) == /\ drv.op = "erase"
               /\ IF p \in RomPage THEN drv.end = ROM_PAGES /\ host \in {"rom_erase", "down"}
                                   ELSE drv.pos >= ROM_PAGES /\ host \in {"calc_erase", "computing", "down"}
ErasesOnlyOldData ==
    [][unseen' = 0 =>
         /\ host = "first_read" /\ host' = "rom_erase" /\ answers' = <<"ok">> /\ unseen = 0 => RomRegion # Image
         /\ \A p \in LogicalPage : LosesBits(p) => OwnErase(p)]_vars

\* A CPU that runs never touches its ROM region, whatever cuts its programs and
\* its erases short.
RomStays == [][(host \in {"running", "computing"} /\ unseen' = 0) => (RomRegion' = RomRegion)]_vars

\* A start that meets no further fault ends with the CPU running, whatever
\* faults and crashes have left in the flash: the ROM region repairs itself.
\* Erase needs the region to be a whole number of groups of n blocks.
Undisturbed == trouble = MaxTrouble
WholeGroups == (ROM_PAGES \div BLOCK_PAGES) % n = 0
SelfRepairs == (host = "started" /\ Undisturbed /\ WholeGroups) ~> (host = "running")

RefinesDevice == Device!Spec
============================================================================
