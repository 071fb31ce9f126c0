------------------------------ MODULE SpiFlash ------------------------------
(***************************************************************************)
(* W25NSpiFlashDevice: one logical NAND made of one or more W25N chips     *)
(* behind spidev.  Logical page p is physical page p \div n of chip p % n. *)
(* Every SPI message is a step; a chip works on its own between messages.  *)
(* Callers use whole pages, so columns are left out.                       *)
(***************************************************************************)
EXTENDS W25nChip, FiniteSets

CONSTANTS Bit,           \* the bits of a page
          Bundles,       \* <<chips, pages of each>> of the bundles to open
          MaxTrouble     \* bound on faults and crashes together

ASSUME SpiGeometry == /\ MaxTrouble \in Nat
                      /\ Bundles \subseteq (Nat \ {0}) \X (Nat \ {0})
                      /\ \A bundle \in Bundles : bundle[2] % BLOCK_PAGES = 0

VARIABLES chip,     \* chip -> its cells and registers
          drv,      \* the operation the driver is in
          buffer,   \* the caller's read buffer: page -> bits
          trouble,  \* faults of the hardware and crashes so far
          unseen    \* faults since the process started that no return value shows

spiVars == <<chip, drv, buffer, trouble, unseen>>

Chip == DOMAIN chip
n == Cardinality(Chip)
CHIP_PAGES == Cardinality(DOMAIN chip[0].cells)
LogicalPage == 0 .. n * CHIP_PAGES - 1
chipIndexOf(page) == page % n
physPageOf(page) == page \div n
groupSize == BLOCK_PAGES * n
pages == [p \in LogicalPage |-> chip[chipIndexOf(p)].cells[physPageOf(p)]]

\* One more fault or crash.
Trouble == trouble < MaxTrouble /\ trouble' = trouble + 1

NoPage == -1
IdleDrv == [op |-> "idle", at |-> "idle", pos |-> 0, end |-> 0, idx |-> 0, ok |-> TRUE,
            data |-> <<>>, pendingPage |-> <<>>, answer |-> "none"]
----------------------------------------------------------------------------
Free(k) == chip[k].busy = "no"

\* One message to chip k, or a transfer that fails.  It is taken not to have reached
\* the chip: an ioctl that says it failed after all bits were clocked is left out.
Send(k, sent, after) ==
    /\ sent \in BOOLEAN
    /\ chip' = IF sent /\ Free(k) THEN [chip EXCEPT ![k] = after] ELSE chip
    /\ IF sent THEN UNCHANGED trouble ELSE Trouble

Overlooked(sent) == unseen' = IF sent THEN unseen ELSE unseen + 1

\* The chip ends what it is doing: as asked, or with P-FAIL or E-FAIL.
ChipDone(k) == /\ ~Free(k)
               /\ chip' = [chip EXCEPT ![k] = Completed(@)]
               /\ UNCHANGED <<drv, buffer, trouble, unseen>>

ChipFails(k) ==
    /\ chip[k].busy \in {"program", "erase"} /\ Trouble
    /\ \E cells \in CutShort(chip[k]) :
          chip' = [chip EXCEPT ![k] = [Ended(@, cells) EXCEPT !.fail = TRUE]]
    /\ UNCHANGED <<drv, buffer, unseen>>
----------------------------------------------------------------------------
\* The calls.  Every operation starts at its first step with nothing pending.
Call(op, at, first, length, data) ==
    drv' = [IdleDrv EXCEPT !.op = op, !.at = at, !.pos = first, !.end = first + length,
                           !.data = data, !.pendingPage = [k \in Chip |-> NoPage]]
CallRead(first, length) == Call("read", "13h", first, length, <<>>)
CallWrite(first, length, data) == Call("write", "slot", first, length, data)

\* Erase works on groups of one block of every chip, and refuses the rest.
CallErase(first, length) ==
    IF first % groupSize # 0 \/ length % groupSize # 0
    THEN drv' = [IdleDrv EXCEPT !.answer = "failed"]
    ELSE Call("erase", "06h", first, length, <<>>)

Answer(ok) == drv' = [IdleDrv EXCEPT !.answer = IF ok THEN "ok" ELSE "failed"]
At(op, step) == drv.op = op /\ drv.at = step
Goto(step) == drv' = [drv EXCEPT !.at = step]

\* open(): check the id, unprotect and switch ECC off, chip after chip.  An id
\* that cannot be read stays zero; a status that cannot be read is whatever
\* the variable held.
OpenSteps == <<"9Fh", "A0_write", "A0_check", "B0_read", "B0_write", "B0_check">>
NextOpenStep(step) == OpenSteps[(CHOOSE i \in DOMAIN OpenSteps : OpenSteps[i] = step) + 1]

\* mutant: the status read back after the unprotect is not compared
UncheckedUnprotect(k, sent, garbage) ==
    CASE drv.at = "9Fh" -> sent [] drv.at = "B0_check" -> IF sent THEN ~chip[k].ecc ELSE garbage [] OTHER -> TRUE

OpenStepFine(k, sent, garbage) ==
    CASE drv.at = "9Fh"      -> sent
      [] drv.at = "A0_check" -> IF sent THEN ~chip[k].protected ELSE garbage
      [] drv.at = "B0_check" -> IF sent THEN ~chip[k].ecc ELSE garbage
      [] OTHER               -> TRUE

\* The registers are reduced to the bits that matter later, protection and ECC:
\* when the read of B0h before "B0_write" is lost, the other bits of a byte never
\* read are written back with them.  The loss counts as unseen.
Open ==
    /\ drv.op = "open"
    /\ \E sent \in BOOLEAN, garbage \in BOOLEAN :
         LET k == drv.idx IN
         /\ Send(k, sent, CASE drv.at = "A0_write" -> [chip[k] EXCEPT !.protected = FALSE]
                            [] drv.at = "B0_write" -> [chip[k] EXCEPT !.ecc = FALSE]
                            [] OTHER               -> chip[k])
         /\ Overlooked((sent \/ drv.at = "9Fh"))
         /\ IF ~OpenStepFine(k, sent, garbage) THEN Answer(FALSE)
            ELSE IF drv.at # "B0_check" THEN Goto(NextOpenStep(drv.at))
            ELSE IF k + 1 \in Chip THEN drv' = [drv EXCEPT !.idx = k + 1, !.at = "9Fh"]
            ELSE Answer(TRUE)
    /\ UNCHANGED buffer
----------------------------------------------------------------------------
\* The results a wait for chip k may have.  A status that cannot be read is an
\* uninitialised byte: it may say ready too early, or failed for no reason.
\* A time-out needs the chip to be busy all along.
WaitEnds(k, result) ==
    \/ /\ Free(k)
       /\ result = IF chip[k].fail THEN "failed" ELSE "ready"
       /\ UNCHANGED <<trouble, unseen>>
    \/ /\ result = "timeout" => ~Free(k)
       /\ Trouble /\ unseen' = unseen + 1

\* page_read() and read_buf() of each page; a failed transfer of 13h is not
\* looked at, a failed transfer of the data is.
\* mutant: the loop reads one page too many
ReadsBeyond == drv.pos <= drv.end

MoreToRead == drv.pos < drv.end

ReadDone == /\ At("read", "13h") /\ ~MoreToRead
            /\ Answer(TRUE)
            /\ UNCHANGED <<chip, buffer, trouble, unseen>>

PageRead ==
    /\ At("read", "13h") /\ MoreToRead
    /\ LET k == chipIndexOf(drv.pos) IN
         \E sent \in BOOLEAN : /\ Send(k, sent, Reading(chip[k], physPageOf(drv.pos)))
                               /\ Overlooked(sent)
    /\ Goto("poll")
    /\ UNCHANGED buffer

PageReadWait ==
    /\ At("read", "poll")
    /\ \E result \in {"ready", "failed", "timeout"} :
          /\ WaitEnds(chipIndexOf(drv.pos), result)
          /\ IF result = "timeout" THEN Answer(FALSE) ELSE Goto("03h")
    /\ UNCHANGED <<chip, buffer>>

ReadBuf ==
    /\ At("read", "03h")
    /\ LET k == chipIndexOf(drv.pos) IN
         \E sent \in BOOLEAN :
            /\ Send(k, sent, chip[k])
            /\ IF ~sent
               THEN Answer(FALSE) /\ UNCHANGED buffer
               ELSE /\ buffer' = [buffer EXCEPT ![drv.pos] = chip[k].buf]
                    /\ drv' = [drv EXCEPT !.pos = @ + 1, !.at = "13h"]
    /\ UNCHANGED unseen
----------------------------------------------------------------------------
Pending == {k \in Chip : drv.pendingPage[k] # NoPage}
Wait(k) == drv' = [drv EXCEPT !.at = "poll", !.idx = k]

\* mutant: the next load does not wait for the program the chip is in
NextPageNoWait ==
    /\ At("write", "slot")
    /\ IF drv.pos < drv.end /\ drv.ok
       THEN drv' = [drv EXCEPT !.at = "06h", !.idx = chipIndexOf(drv.pos)]
       ELSE IF Pending # {} THEN Wait(CHOOSE k \in Pending : \A j \in Pending : k <= j)
            ELSE Answer(drv.ok)
    /\ UNCHANGED <<chip, buffer, trouble, unseen>>

\* The head of the write loop: wait for this page's chip if it still programs
\* an earlier page, and at the end for all chips in turn.
NextPage ==
    /\ At("write", "slot")
    /\ IF drv.pos < drv.end /\ drv.ok
       THEN IF chipIndexOf(drv.pos) \in Pending THEN Wait(chipIndexOf(drv.pos))
            ELSE drv' = [drv EXCEPT !.at = "06h", !.idx = chipIndexOf(drv.pos)]
       ELSE IF Pending # {} THEN Wait(CHOOSE k \in Pending : \A j \in Pending : k <= j)
            ELSE Answer(drv.ok)
    /\ UNCHANGED <<chip, buffer, trouble, unseen>>

\* mutant: the last waits overwrite what an earlier one found
waitChipForgets ==
    /\ At("write", "poll")
    /\ \E result \in {"ready", "failed", "timeout"} :
          /\ WaitEnds(drv.idx, result)
          /\ drv' = [drv EXCEPT !.at = "slot", !.ok = result = "ready",
                                !.pendingPage[drv.idx] = NoPage]
    /\ UNCHANGED <<chip, buffer>>

waitChip ==
    /\ At("write", "poll")
    /\ \E result \in {"ready", "failed", "timeout"} :
          /\ WaitEnds(drv.idx, result)
          /\ drv' = [drv EXCEPT !.at = "slot", !.ok = @ /\ result = "ready",
                                !.pendingPage[drv.idx] = NoPage]
    /\ UNCHANGED <<chip, buffer>>

\* write_enable() of a load or an erase: nobody looks at its result.
WriteEnable ==
    /\ drv.op \in {"write", "erase"} /\ drv.at = "06h"
    /\ \E sent \in BOOLEAN : Send(drv.idx, sent, Latched(chip[drv.idx])) /\ Overlooked(sent)
    /\ Goto(IF drv.op = "write" THEN "02h" ELSE "D8h")
    /\ UNCHANGED buffer

ProgramLoad ==
    /\ At("write", "02h")
    /\ \E sent \in BOOLEAN :
          /\ Send(drv.idx, sent, Loaded(chip[drv.idx], drv.data[drv.pos]))
          /\ drv' = IF sent THEN [drv EXCEPT !.at = "10h"]
                            ELSE [drv EXCEPT !.at = "slot", !.ok = FALSE]
    /\ UNCHANGED <<buffer, unseen>>

\* The program is started and left to run while other chips are served.
ProgramIssue ==
    /\ At("write", "10h")
    /\ LET k == drv.idx   page == physPageOf(drv.pos) IN
         \E sent \in BOOLEAN :
            /\ Send(k, sent, Started(chip[k], "program", page))
            /\ drv' = IF sent THEN [drv EXCEPT !.at = "slot", !.pos = @ + 1, !.pendingPage[k] = page]
                              ELSE [drv EXCEPT !.at = "slot", !.ok = FALSE]
    /\ UNCHANGED <<buffer, unseen>>
----------------------------------------------------------------------------
\* One block of every chip, then the next group.  The first failure ends the
\* operation and leaves the rest unerased.
BlockErase ==
    /\ At("erase", "D8h")
    /\ \E sent \in BOOLEAN : /\ Send(drv.idx, sent, Started(chip[drv.idx], "erase", physPageOf(drv.pos)))
                             /\ Overlooked(sent)
    /\ Goto("poll")
    /\ UNCHANGED buffer

\* mutant: E-FAIL is not looked at
BlockEraseWaitTrusts ==
    /\ At("erase", "poll")
    /\ \E result \in {"ready", "failed", "timeout"} :
          /\ WaitEnds(drv.idx, result)
          /\ IF result = "timeout" THEN Answer(FALSE)
             ELSE IF drv.idx + 1 \in Chip THEN drv' = [drv EXCEPT !.at = "06h", !.idx = @ + 1]
             ELSE IF drv.pos + groupSize < drv.end
                  THEN drv' = [drv EXCEPT !.at = "06h", !.idx = 0, !.pos = @ + groupSize]
             ELSE Answer(TRUE)
    /\ UNCHANGED <<chip, buffer>>

BlockEraseWait ==
    /\ At("erase", "poll")
    /\ \E result \in {"ready", "failed", "timeout"} :
          /\ WaitEnds(drv.idx, result)
          /\ IF result # "ready" THEN Answer(FALSE)
             ELSE IF drv.idx + 1 \in Chip THEN drv' = [drv EXCEPT !.at = "06h", !.idx = @ + 1]
             ELSE IF drv.pos + groupSize < drv.end
                  THEN drv' = [drv EXCEPT !.at = "06h", !.idx = 0, !.pos = @ + groupSize]
             ELSE Answer(TRUE)
    /\ UNCHANGED <<chip, buffer>>

Driver == \/ Open
          \/ ReadDone \/ PageRead \/ PageReadWait \/ ReadBuf
          \/ NextPage \/ waitChip \/ WriteEnable \/ ProgramLoad \/ ProgramIssue
          \/ BlockErase \/ BlockEraseWait
----------------------------------------------------------------------------
SpiTypeOK ==
    /\ \A k \in Chip : /\ chip[k].cells \in [0 .. CHIP_PAGES - 1 -> SUBSET Bit]
                       /\ chip[k].buf \subseteq Bit
                       /\ chip[k].busy \in {"no", "program", "erase", "read"}
    /\ drv.op \in {"idle", "open", "read", "write", "erase"}
    /\ drv.answer \in {"none", "ok", "failed"} /\ drv.pos \in 0 .. drv.end
    /\ trouble \in 0 .. MaxTrouble /\ unseen \in 0 .. trouble

\* The driver talks to a chip that works only to ask for its status, unless a
\* wait was given up: the commands in between would be lost without a trace
\* (the write loop's comment: a chip takes one write at a time).
NeverDisturbs ==
    unseen = 0 =>
      /\ drv.at \in {"13h", "03h"} => Free(chipIndexOf(drv.pos))
      /\ drv.at \in {"06h", "02h", "10h", "D8h"} => Free(drv.idx)
      /\ drv.op = "idle" => \A k \in Chip : Free(k)

\* A chip is read, programmed or erased only when open() has unprotected it
\* and switched its ECC off, though open() ignores what the transfers return:
\* one lost message is always noticed.
OpensUnlocked ==
    unseen <= 1 /\ drv.op \in {"read", "write", "erase"} =>
        \A k \in Chip : ~chip[k].protected /\ ~chip[k].ecc

\* The logical device: chips, round robin and pending programs hidden.
ToDo == CASE drv.op = "read"  -> drv.pos .. drv.end - 1
          [] drv.op = "write" -> drv.pos .. drv.end - 1
                                 \cup {p \in 0 .. drv.pos - 1 :
                                         LET k == chipIndexOf(p) IN
                                         drv.pendingPage[k] = physPageOf(p) /\ chip[k].busy = "program"}
          [] drv.op = "erase" -> {p \in drv.pos .. drv.end - 1 :
                                    \/ p >= drv.pos + groupSize
                                    \/ chipIndexOf(p) > drv.idx
                                    \/ chipIndexOf(p) = drv.idx /\ ~(drv.at = "poll" /\ Free(drv.idx))}
          [] OTHER -> {}
Failed == \/ ~drv.ok
          \/ drv.op = "write" /\ \E k \in Pending : chip[k].fail
          \/ drv.op = "erase" /\ drv.at = "poll" /\ chip[drv.idx].fail
Device == INSTANCE FlashDevice WITH
             op <- [kind |-> drv.op, todo |-> ToDo, data |-> drv.data, failed |-> Failed,
                    answer |-> drv.answer],
             broken <- unseen > 0
=============================================================================
