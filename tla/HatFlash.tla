------------------------------ MODULE HatFlash ------------------------------
(***************************************************************************)
(* W25NFlashDevice: the two chips of the HAT, each driven by the thread of *)
(* its own CPU through a PIO state machine.  The busses are independent    *)
(* but for the quad data load, whose wide OUT writes all output latches in *)
(* a span of GPIO pins; a shared mutex keeps the other chip quiet then.    *)
(* A message is two steps, CS down and CS up, so that messages overlap.    *)
(***************************************************************************)
EXTENDS W25nChip, FiniteSets

CONSTANTS Device,        \* the chips: "u2", "u3"
          Pins,          \* device -> [clk, io0, io1, io2, io3], GPIO numbers
          QTX_SPAN,      \* pins that one OUT of the quad program writes
          NumPages,      \* pages of a chip
          Calls,         \* device -> the calls its CPU makes: <<operation, first page, pages>>
          Bit,           \* the bits of a page; every write programs all of them
          MaxTrouble     \* bound on the faults of the hardware

ASSUME HatGeometry == NumPages \in Nat /\ NumPages % BLOCK_PAGES = 0 /\ MaxTrouble \in Nat

\* Calls stay inside the chip; an erase is of whole blocks.
ASSUME HatCalls ==
    /\ "none" \notin Device
    /\ \A d \in Device : \A call \in Calls[d] :
          /\ call[1] \in {"read", "write", "erase"}
          /\ call[2] \in Nat /\ call[3] \in Nat \ {0} /\ call[2] + call[3] <= NumPages
          /\ call[1] = "erase" => call[2] % BLOCK_PAGES = 0 /\ call[3] % BLOCK_PAGES = 0

VARIABLES chip,     \* device -> the flash chip behind it
          cpu,      \* device -> the operation its thread is in
          buffer,   \* device -> what its last read has brought
          mode,     \* device -> the driver's idea of the program its SM runs
          sm,       \* device -> the program it really runs
          cs,       \* device -> "high" or "low"
          low,      \* devices whose /WP or /HOLD latch may be low
          opened,   \* devices that are registered in g_devs
          writer,   \* the device that holds the bus mutex exclusively, or None
          readers,  \* the devices that hold it shared
          trouble,  \* faults so far
          unseen    \* device -> a wait has timed out on a chip that works on

vars == <<chip, cpu, buffer, mode, sm, cs, low, opened, writer, readers, trouble, unseen>>

None == "none"
IdleCpu == [op |-> "idle", at |-> "idle", pos |-> 0, end |-> 0, answer |-> "none"]
Data == [p \in 0 .. NumPages - 1 |-> Bit]

Span(d) == Pins[d].io3 .. Pins[d].io3 + QTX_SPAN - 1
Trouble == trouble < MaxTrouble /\ trouble' = trouble + 1
----------------------------------------------------------------------------
Init == /\ chip = [d \in Device |-> NewChip([p \in 0 .. NumPages - 1 |-> {}])]
        /\ cpu = [d \in Device |-> IdleCpu]
        /\ buffer = [d \in Device |-> [p \in 0 .. NumPages - 1 |-> {}]]
        /\ mode = [d \in Device |-> "none"] /\ sm = [d \in Device |-> "off"]
        /\ cs = [d \in Device |-> "high"] /\ low = Device /\ opened = {}
        /\ writer = None /\ readers = {}
        /\ trouble = 0 /\ unseen = [d \in Device |-> FALSE]

Goto(d, step) == cpu' = [cpu EXCEPT ![d].at = step]
Answer(d, ok) == cpu' = [cpu EXCEPT ![d] = [IdleCpu EXCEPT !.answer = IF ok THEN "ok" ELSE "failed"]]
At(d, op, step) == cpu[d].op = op /\ cpu[d].at = step
BusUnchanged == UNCHANGED <<mode, sm, cs, low, opened>>
LockUnchanged == UNCHANGED <<writer, readers>>
ChipsUnchanged == UNCHANGED <<chip, buffer, trouble, unseen>>

\* w25n_open(): the SM runs the full duplex program, /WP and /HOLD are high, and
\* the device is in the registry.
Registered(d) ==
    /\ opened' = opened \cup {d} /\ low' = low \ {d}
    /\ mode' = [mode EXCEPT ![d] = "fdx"] /\ sm' = [sm EXCEPT ![d] = "fdx"]

Unlocked(c) == [c EXCEPT !.protected = FALSE, !.ecc = FALSE]

\* open().  The CPUs are made one after the other, so nothing else is under way;
\* CPUs that are made already may have run.
Open(d) ==
    /\ d \notin opened /\ \A e \in Device : cpu[e].op = "idle"
    /\ Registered(d)
    /\ chip' = [chip EXCEPT ![d] = Unlocked(@)]
    /\ UNCHANGED <<cpu, buffer, cs, trouble, unseen>> /\ LockUnchanged

\* A CPU calls read(), write() or erase().
FirstStep(op) == CASE op = "write" -> "exclusive" [] OTHER -> "shared"
Call(d) ==
    /\ d \in opened /\ cpu[d].op = "idle"
    /\ \E call \in Calls[d] :
          cpu' = [cpu EXCEPT ![d] = [IdleCpu EXCEPT !.op = call[1], !.at = FirstStep(call[1]),
                                                    !.pos = call[2], !.end = call[2] + call[3]]]
    /\ ChipsUnchanged /\ BusUnchanged /\ LockUnchanged

\* The mutex.  Read and erase hold it shared, a write holds it exclusively for
\* the data load of a page and shared for its program.
FirstMessage(op) == CASE op = "read" -> "13h" [] op = "write" -> "10h" [] op = "erase" -> "06h"

\* mutant: the data load takes the mutex shared, like everything else
LockLoadShared(d) ==
    /\ cpu[d].at = "exclusive" /\ writer = None
    /\ readers' = readers \cup {d} /\ UNCHANGED writer
    /\ Goto(d, "06h")
    /\ ChipsUnchanged /\ BusUnchanged

LockExclusive(d) ==
    /\ cpu[d].at = "exclusive" /\ writer = None /\ readers = {}
    /\ writer' = d /\ UNCHANGED readers
    /\ Goto(d, "06h")
    /\ ChipsUnchanged /\ BusUnchanged

LockShared(d) ==
    /\ cpu[d].at = "shared" /\ writer = None
    /\ readers' = readers \cup {d} /\ UNCHANGED writer
    /\ Goto(d, FirstMessage(cpu[d].op))
    /\ ChipsUnchanged /\ BusUnchanged

\* The end of a guard's scope, and what follows it.
Release(d) == writer' = (IF writer = d THEN None ELSE writer) /\ readers' = readers \ {d}
----------------------------------------------------------------------------
Message == {"06h", "32h", "10h", "D8h", "13h", "03h", "0Fh"}
Free(d) == chip[d].busy = "no"

\* rx_bulk() stops the SM in the middle of its program.
ModeReset(d) == [mode EXCEPT ![d] = "none"]

\* Every message starts in full duplex: enter_mode(), then CS down.
Select(d) ==
    /\ cpu[d].at \in Message /\ cs[d] = "high"
    /\ cs' = [cs EXCEPT ![d] = "low"]
    /\ mode' = [mode EXCEPT ![d] = "fdx"]
    /\ sm' = IF mode[d] = "fdx" THEN sm ELSE [sm EXCEPT ![d] = "fdx"]
    /\ UNCHANGED <<cpu, low, opened>> /\ ChipsUnchanged /\ LockUnchanged

Deselect(d) == cs[d] = "low" /\ cs' = [cs EXCEPT ![d] = "high"]
Reaches(d, after) == chip' = IF Free(d) THEN [chip EXCEPT ![d] = after] ELSE chip

\* A message without data: write enable, execute, erase, page read.
Command(d) ==
    /\ Deselect(d)
    /\ LET c == chip[d]   pos == cpu[d].pos IN
       \/ /\ cpu[d].at = "06h" /\ Reaches(d, Latched(c))
          /\ Goto(d, IF cpu[d].op = "write" THEN "32h" ELSE "D8h")
       \/ cpu[d].at = "10h" /\ Reaches(d, Started(c, "program", pos)) /\ Goto(d, "0Fh")
       \/ cpu[d].at = "D8h" /\ Reaches(d, Started(c, "erase", pos)) /\ Goto(d, "0Fh")
       \/ cpu[d].at = "13h" /\ Reaches(d, Reading(c, pos)) /\ Goto(d, "0Fh")
    /\ UNCHANGED <<mode, sm, low, opened, buffer, trouble, unseen>> /\ LockUnchanged

\* The wide OUT toggles the sender's own pins; the others' are sent as ones if
\* they are registered.
Toggled(d) == {d} \cup {e \in Device \ opened : {Pins[e].io2, Pins[e].io3} \cap Span(d) # {}}

\* load_data(), first the header, then the data at four bits a clock.
QuadData(d) ==
    /\ cpu[d].at = "32h" /\ cs[d] = "low"
    /\ mode' = [mode EXCEPT ![d] = "qtx"] /\ sm' = [sm EXCEPT ![d] = "qtx"]
    /\ low' = low \cup Toggled(d)
    /\ Goto(d, "data")
    /\ UNCHANGED <<cs, opened>> /\ ChipsUnchanged /\ LockUnchanged

\* mutant: only the sender's own latches are restored, and not after a failure
RestoredOwn(d, ok) == IF ok THEN low \ {d} ELSE low

\* restore_wp_hold(): the latches of all registered devices.
Restored(d, ok) == low \ opened

\* The transfer ends well or not; either way CS goes up, the latches go up after
\* it, and the exclusive lock is given back.  One step: while the lock is held no
\* other thread has a message between the two.
QuadDone(d) ==
    /\ cpu[d].at = "data" /\ Deselect(d)
    /\ \E ok \in BOOLEAN :
          /\ IF ok THEN UNCHANGED trouble ELSE Trouble
          /\ IF ok THEN Reaches(d, Loaded(chip[d], Data[cpu[d].pos])) ELSE UNCHANGED chip
          /\ low' = Restored(d, ok)
          /\ IF ok THEN Goto(d, "shared") ELSE Answer(d, FALSE)
    /\ Release(d)
    /\ UNCHANGED <<mode, sm, opened, buffer, unseen>>

\* mutant: the loop forgets to count the page it has done
AdvanceNot(d, done) == cpu' = [cpu EXCEPT ![d].at = "next"]

Advance(d, done) == cpu' = [cpu EXCEPT ![d].pos = @ + done, ![d].at = "next"]

\* read_buf(): the header in full duplex, the data by the rx program.
ReadBuf(d) ==
    /\ cpu[d].at = "03h" /\ Deselect(d)
    /\ mode' = ModeReset(d) /\ sm' = [sm EXCEPT ![d] = "off"]
    /\ \E ok \in BOOLEAN :
          /\ IF ok THEN UNCHANGED trouble ELSE Trouble
          /\ IF ok /\ Free(d) THEN buffer' = [buffer EXCEPT ![d][cpu[d].pos] = chip[d].buf]
                              ELSE UNCHANGED buffer
          /\ IF ok THEN Advance(d, 1) /\ LockUnchanged
                   ELSE Answer(d, FALSE) /\ Release(d)
    /\ UNCHANGED <<chip, low, opened, unseen>>

\* mutant: an erase looks at the bit of the program
ProgramBitOnly(d) == chip[d].fail /\ cpu[d].op = "write"

\* P-FAIL of a program, E-FAIL of an erase.
ReportedFailed(d) == chip[d].fail

\* wait_busy(): a status that says busy is read again, until time is up.
Poll(d) ==
    /\ cpu[d].at = "0Fh" /\ Deselect(d)
    /\ \/ /\ ~Free(d)
          /\ UNCHANGED <<cpu, trouble, unseen>> /\ LockUnchanged
       \/ /\ ~Free(d) /\ Trouble
          /\ unseen' = [unseen EXCEPT ![d] = TRUE]
          /\ Answer(d, FALSE) /\ Release(d)
       \/ /\ Free(d)
          /\ UNCHANGED <<trouble, unseen>>
          /\ IF cpu[d].op = "read" THEN Goto(d, "03h") /\ LockUnchanged
             ELSE IF ReportedFailed(d) THEN Answer(d, FALSE) /\ Release(d)
             ELSE IF cpu[d].op = "erase"
                  THEN Advance(d, BLOCK_PAGES) /\ LockUnchanged
             ELSE Advance(d, 1) /\ Release(d)
    /\ UNCHANGED <<chip, buffer, mode, sm, low, opened>>

\* mutant: the loop runs once too often
MoreThanAll(d) == cpu[d].pos <= cpu[d].end

MoreToDo(d) == cpu[d].pos < cpu[d].end

\* The head of the loops: another page or block, or done.
NextPart(d) ==
    /\ cpu[d].at = "next"
    /\ IF MoreToDo(d)
       THEN /\ Goto(d, IF cpu[d].op = "write" THEN "exclusive" ELSE FirstMessage(cpu[d].op))
            /\ LockUnchanged
       ELSE Answer(d, TRUE) /\ Release(d)
    /\ ChipsUnchanged /\ BusUnchanged
----------------------------------------------------------------------------
ChipStep(d) ==
    /\ ~Free(d)
    /\ \/ chip' = [chip EXCEPT ![d] = Completed(@)] /\ UNCHANGED trouble
       \/ /\ chip[d].busy # "read" /\ Trouble
          /\ \E cells \in CutShort(chip[d]) :
                chip' = [chip EXCEPT ![d] = [Ended(@, cells) EXCEPT !.fail = TRUE]]
    /\ UNCHANGED <<cpu, buffer, unseen>> /\ BusUnchanged /\ LockUnchanged

Lock(d) == LockExclusive(d) \/ LockShared(d)
Thread(d) == \/ Select(d) \/ Command(d) \/ QuadData(d) \/ QuadDone(d)
             \/ ReadBuf(d) \/ Poll(d) \/ NextPart(d)

Next == \E d \in Device : Open(d) \/ Call(d) \/ Lock(d) \/ Thread(d) \/ ChipStep(d)

Spec == /\ Init /\ [][Next]_vars
        /\ \A d \in Device : WF_vars(Thread(d)) /\ WF_vars(ChipStep(d)) /\ SF_vars(Lock(d))
----------------------------------------------------------------------------
Sending(d) == cpu[d].at = "data"

TypeOK == /\ \A d \in Device : /\ chip[d].cells \in [0 .. NumPages - 1 -> SUBSET Bit]
                               /\ cpu[d].pos \in 0 .. cpu[d].end
                               /\ mode[d] \in {"none", "fdx", "qtx"}
                               /\ sm[d] \in {"off", "fdx", "qtx"}
                               /\ cs[d] \in {"high", "low"}
          /\ low \subseteq Device /\ readers \subseteq opened
          /\ writer \in opened \cup {None}

\* A message reaches its own chip and no other: a quad send never writes the
\* clock or data latch of a chip that is in the middle of a message (the lock
\* comment in W25NFlashDevice.hpp), and the other messages are sent by the full
\* duplex program, whatever the last operation left in the SM and in mode.
NoGarble == \A d \in Device :
    /\ Sending(d) => \A e \in Device \ {d} :
                        {Pins[e].clk, Pins[e].io0} \cap Span(d) # {} => cs[e] = "high"
    /\ cs[d] = "low" => sm[d] = IF Sending(d) THEN "qtx" ELSE "fdx"

\* /WP and /HOLD of a chip in use are high, but for the sender's own, which are
\* data lines then: also after a failed transfer, and for a chip opened late.
HoldHigh == \A d \in opened : d \in low => Sending(d)

\* Every operation comes to its answer: nobody waits for the mutex for ever.
OperationsEnd == \A d \in Device : (cpu[d].op # "idle") ~> (cpu[d].op = "idle")

\* Each chip is the device that its CPU expects, whatever the other one does.
ToDo(d) == CASE cpu[d].op = "idle"  -> {}
             [] cpu[d].at = "0Fh" /\ Free(d) /\ cpu[d].op = "write" -> cpu[d].pos + 1 .. cpu[d].end - 1
             [] cpu[d].at = "0Fh" /\ Free(d) /\ cpu[d].op = "erase" -> cpu[d].pos + BLOCK_PAGES .. cpu[d].end - 1
             [] OTHER -> cpu[d].pos .. cpu[d].end - 1
AsDevice(d) == INSTANCE FlashDevice WITH
    pages <- chip[d].cells, buffer <- buffer[d], broken <- unseen[d],
    op <- [kind |-> cpu[d].op, todo |-> ToDo(d), data |-> Data, answer |-> cpu[d].answer,
           failed |-> cpu[d].op \in {"write", "erase"} /\ cpu[d].at = "0Fh" /\ chip[d].fail]
DeviceStep(d) == [AsDevice(d)!Next]_(AsDevice(d)!vars)
RefinesDevices == /\ \A d \in Device : AsDevice(d)!Init
                  /\ [][\A d \in Device : DeviceStep(d)]_vars
=============================================================================
