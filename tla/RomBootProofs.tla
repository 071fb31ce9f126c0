--------------------------- MODULE RomBootProofs ---------------------------
(***************************************************************************)
(* Theorems about RomBoot on the spidev driver, for every bundle of chips, *)
(* image, region, earlier content and number of faults and crashes.  The   *)
(* invariant BootInv fixes the size of the opened bundle and has four      *)
(* parts: TypeInv (types, and every operation at one of its steps),        *)
(* FreeInv (which chips may be at work), UnlockInv (what open() knows of   *)
(* its chips) and PlaceInv (where the operations are).  What the           *)
(* calls leave in the flash, and the device that they implement, come      *)
(* after it with invariants of their own.                                  *)
(***************************************************************************)
EXTENDS RomBoot, FiniteSetTheorems, SequenceTheorems, WellFoundedInduction, TLAPS

ChipRecord(P) ==
    [cells : [0 .. P - 1 -> SUBSET Bit], buf : SUBSET Bit, wel : BOOLEAN,
     busy : {"no", "program", "erase", "read"}, target : 0 .. P - 1,
     fail : BOOLEAN, protected : BOOLEAN, ecc : BOOLEAN]

Steps == {"idle", "9Fh", "A0_write", "A0_check", "B0_read", "B0_write", "B0_check",
          "13h", "03h", "slot", "06h", "02h", "10h", "D8h", "poll"}
OnePage(p) == [q \in {p} |-> Bit]
Contents(N, P) == {<<>>, Image} \cup {OnePage(p) : p \in ROM_PAGES .. N * P - 1}

DrvRecord(N, P) ==
    [op : {"idle", "open", "read", "write", "erase"}, at : Steps, pos : Nat, end : Nat,
     idx : 0 .. N - 1, ok : BOOLEAN, data : Contents(N, P),
     pendingPage : {<<>>} \cup [0 .. N - 1 -> -1 .. P - 1],
     answer : {"none", "ok", "failed"}]

LEMMA SizesOf ==
    ASSUME NEW N \in Nat \ {0}, NEW P \in Nat \ {0}, chip \in [0 .. N - 1 -> ChipRecord(P)]
    PROVE  /\ Chip = 0 .. N - 1 /\ n = N /\ CHIP_PAGES = P
<1>1. Chip = 0 .. N - 1 /\ 0 \in Chip
  BY DEF Chip
<1>2. DOMAIN chip[0].cells = 0 .. P - 1
  BY <1>1 DEF ChipRecord
<1>3. \A m \in Nat \ {0} : Cardinality(0 .. m - 1) = m
  BY FS_Interval
<1> QED
  BY <1>1, <1>2, <1>3 DEF n, CHIP_PAGES

LEMMA IdleIs ==
    ASSUME NEW N \in Nat \ {0}, NEW P \in Nat \ {0}
    PROVE  IdleDrv \in DrvRecord(N, P)
BY DEF IdleDrv, DrvRecord, Steps, Contents

LEMMA AnswerIs ==
    ASSUME NEW N \in Nat \ {0}, NEW P \in Nat \ {0}, NEW ok \in BOOLEAN, Answer(ok)
    PROVE  /\ drv' \in DrvRecord(N, P)
           /\ drv'.op = "idle" /\ drv'.at = "idle" /\ drv'.pos = 0 /\ drv'.end = 0
           /\ drv'.answer \in {"ok", "failed"}
           /\ drv'.answer = "ok" <=> ok
<1>1. IdleDrv \in DrvRecord(N, P)
  BY IdleIs
<1>2. drv' = [IdleDrv EXCEPT !.answer = IF ok THEN "ok" ELSE "failed"]
  BY DEF Answer
<1>3. drv' \in DrvRecord(N, P)
  BY <1>1, <1>2 DEF DrvRecord
<1>4. /\ drv'.op = "idle" /\ drv'.at = "idle" /\ drv'.pos = 0 /\ drv'.end = 0
      /\ drv'.answer = IF ok THEN "ok" ELSE "failed"
  BY <1>2 DEF IdleDrv
<1> QED
  BY <1>3, <1>4

\* The driver at the first step of a call.
Begun(N, P, op, at, first, length, data) ==
    /\ drv' \in DrvRecord(N, P)
    /\ drv'.op = op /\ drv'.at = at /\ drv'.pos = first /\ drv'.end = first + length
    /\ drv'.data = data /\ drv'.idx = 0 /\ drv'.ok = TRUE
    /\ drv'.pendingPage = [k \in 0 .. N - 1 |-> NoPage]

LEMMA CallIs ==
    ASSUME NEW N \in Nat \ {0}, NEW P \in Nat \ {0}, Chip = 0 .. N - 1,
           NEW op \in {"open", "read", "write", "erase"}, NEW at \in Steps, NEW first, NEW length,
           first \in Nat, length \in Nat,
           NEW data \in Contents(N, P), Call(op, at, first, length, data)
    PROVE  Begun(N, P, op, at, first, length, data)
<1> DEFINE pending == [k \in Chip |-> NoPage]
           end == first + length
<1>1. IdleDrv \in DrvRecord(N, P) /\ pending \in [0 .. N - 1 -> -1 .. P - 1] /\ end \in Nat
  BY IdleIs DEF NoPage
<1> HIDE DEF pending, end
<1>2. drv' = [IdleDrv EXCEPT !.op = op, !.at = at, !.pos = first, !.end = end,
                             !.data = data, !.pendingPage = pending]
  BY DEF Call, pending, end
<1>3. drv' \in DrvRecord(N, P)
  BY <1>1, <1>2 DEF DrvRecord
<1>4. /\ drv'.op = op /\ drv'.at = at /\ drv'.pos = first /\ drv'.end = end
      /\ drv'.data = data /\ drv'.pendingPage = pending
  BY <1>2 DEF IdleDrv
<1>5. drv'.idx = 0 /\ drv'.ok = TRUE
  BY <1>2 DEF IdleDrv
<1> QED
  BY <1>3, <1>4, <1>5 DEF Begun, pending, end

LEMMA PageParts ==
    ASSUME NEW N \in Nat \ {0}, NEW P \in Nat \ {0}, NEW p \in Nat, p < N * P
    PROVE  p % N \in 0 .. N - 1 /\ p \div N \in 0 .. P - 1 /\ p = ((p \div N) * N) + (p % N)
<1>1. p \div N \in Nat /\ p % N \in 0 .. N - 1 /\ p = ((p \div N) * N) + (p % N)
  OBVIOUS
<1> DEFINE q == p \div N
<1>2. q * N <= p /\ q * N \in Nat /\ N * P \in Nat
  BY <1>1
<1>3. N * q < N * P
  BY <1>1, <1>2
<1>4. \A m \in Nat : N * m < N * P => m < P
  OBVIOUS
<1> QED
  BY <1>1, <1>3, <1>4

LEMMA ChipMessages ==
    ASSUME NEW P \in Nat \ {0}, NEW c \in ChipRecord(P)
    PROVE  /\ /\ Latched(c) \in ChipRecord(P) /\ Latched(c).busy = c.busy
              /\ Latched(c).protected = c.protected /\ Latched(c).ecc = c.ecc
           /\ \A content \in SUBSET Bit :
                 /\ Loaded(c, content) \in ChipRecord(P) /\ Loaded(c, content).busy = c.busy
                 /\ Loaded(c, content).protected = c.protected /\ Loaded(c, content).ecc = c.ecc
           /\ \A page \in 0 .. P - 1 :
                 /\ Reading(c, page) \in ChipRecord(P)
                 /\ Reading(c, page).protected = c.protected /\ Reading(c, page).ecc = c.ecc
                 /\ \A what \in {"program", "erase"} :
                       /\ Started(c, what, page) \in ChipRecord(P)
                       /\ Started(c, what, page).protected = c.protected /\ Started(c, what, page).ecc = c.ecc
<1>1. Latched(c) \in ChipRecord(P) /\ Latched(c).busy = c.busy
      /\ Latched(c).protected = c.protected /\ Latched(c).ecc = c.ecc
  BY DEF Latched, ChipRecord
<1>2. ASSUME NEW content \in SUBSET Bit
      PROVE  /\ Loaded(c, content) \in ChipRecord(P) /\ Loaded(c, content).busy = c.busy
             /\ Loaded(c, content).protected = c.protected /\ Loaded(c, content).ecc = c.ecc
  BY DEF Loaded, ChipRecord
<1>3. ASSUME NEW page \in 0 .. P - 1
      PROVE  /\ Reading(c, page) \in ChipRecord(P)
             /\ Reading(c, page).protected = c.protected /\ Reading(c, page).ecc = c.ecc
  BY DEF Reading, ChipRecord
<1>4. ASSUME NEW page \in 0 .. P - 1, NEW what \in {"program", "erase"}
      PROVE  /\ Started(c, what, page) \in ChipRecord(P)
             /\ Started(c, what, page).protected = c.protected /\ Started(c, what, page).ecc = c.ecc
  BY DEF Started, ChipRecord
<1> QED
  BY <1>1, <1>2, <1>3, <1>4

LEMMA EndedIs ==
    ASSUME NEW P \in Nat \ {0}, NEW c \in ChipRecord(P), NEW cells \in [0 .. P - 1 -> SUBSET Bit]
    PROVE  /\ Ended(c, cells) \in ChipRecord(P) /\ Ended(c, cells).busy = "no"
           /\ Ended(c, cells).protected = c.protected /\ Ended(c, cells).ecc = c.ecc
           /\ Ended(c, cells).cells = cells
BY DEF Ended, ChipRecord

LEMMA FailedIs ==
    ASSUME NEW P \in Nat \ {0}, NEW c \in ChipRecord(P)
    PROVE  /\ [c EXCEPT !.fail = TRUE] \in ChipRecord(P)
           /\ [c EXCEPT !.fail = TRUE].busy = c.busy
           /\ [c EXCEPT !.fail = TRUE].cells = c.cells
           /\ [c EXCEPT !.fail = TRUE].protected = c.protected
           /\ [c EXCEPT !.fail = TRUE].ecc = c.ecc
BY DEF ChipRecord

LEMMA ErasedIs ==
    ASSUME NEW P \in Nat \ {0}, NEW c \in ChipRecord(P), NEW gone
    PROVE  Erased(c, gone) \in [0 .. P - 1 -> SUBSET Bit]
BY DEF Erased, ChipRecord

LEMMA ProgrammedIs ==
    ASSUME NEW P \in Nat \ {0}, NEW c \in ChipRecord(P), NEW part \in SUBSET c.buf
    PROVE  [c.cells EXCEPT ![c.target] = @ \cup part] \in [0 .. P - 1 -> SUBSET Bit]
<1>1. /\ c.cells \in [0 .. P - 1 -> SUBSET Bit] /\ c.target \in 0 .. P - 1 /\ c.buf \in SUBSET Bit
  BY DEF ChipRecord
<1> QED
  BY <1>1

LEMMA CutIs ==
    ASSUME NEW P \in Nat \ {0}, NEW c \in ChipRecord(P), NEW cells \in CutShort(c)
    PROVE  cells \in [0 .. P - 1 -> SUBSET Bit]
<1>1. c.busy \in {"no", "program", "erase", "read"} /\ c.cells \in [0 .. P - 1 -> SUBSET Bit]
  BY DEF ChipRecord
<1>2. CASE c.busy = "program"
  <2>1. PICK part \in SUBSET c.buf : cells = [c.cells EXCEPT ![c.target] = @ \cup part]
    BY <1>2 DEF CutShort
  <2> QED
    BY <2>1, ProgrammedIs
<1>3. CASE c.busy = "erase"
  BY <1>3, ErasedIs DEF CutShort
<1>4. CASE c.busy \in {"no", "read"}
  BY <1>1, <1>4 DEF CutShort
<1> QED
  BY <1>1, <1>2, <1>3, <1>4

LEMMA CompletedIs ==
    ASSUME NEW P \in Nat \ {0}, NEW c \in ChipRecord(P), c.busy # "no"
    PROVE  /\ Completed(c) \in ChipRecord(P) /\ Completed(c).busy = "no"
           /\ Completed(c).protected = c.protected /\ Completed(c).ecc = c.ecc
<1>1. /\ c.cells \in [0 .. P - 1 -> SUBSET Bit] /\ c.target \in 0 .. P - 1
      /\ c.busy \in {"program", "erase", "read"} /\ c.protected \in BOOLEAN
  BY DEF ChipRecord
<1>2. CASE c.busy = "read"
  <2> DEFINE content == c.cells[c.target]
  <2>1. content \in SUBSET Bit
    BY <1>1
  <2>2. Completed(c) = [c EXCEPT !.buf = content, !.busy = "no"]
    BY <1>2 DEF Completed
  <2> HIDE DEF content
  <2> QED
    BY <2>1, <2>2 DEF ChipRecord
<1>3. CASE c.busy # "read" /\ c.protected
  <2>1. Completed(c) = [Ended(c, c.cells) EXCEPT !.fail = TRUE]
    BY <1>3 DEF Completed
  <2> QED
    BY <1>1, <2>1, EndedIs, FailedIs
<1>4. CASE c.busy # "read" /\ ~c.protected
  <2> DEFINE cells == IF c.busy = "program" THEN [c.cells EXCEPT ![c.target] = @ \cup c.buf]
                                            ELSE Erased(c, Block(c, c.target))
  <2>1. cells \in [0 .. P - 1 -> SUBSET Bit]
    <3>1. [c.cells EXCEPT ![c.target] = @ \cup c.buf] \in [0 .. P - 1 -> SUBSET Bit]
      BY ProgrammedIs
    <3>2. Erased(c, Block(c, c.target)) \in [0 .. P - 1 -> SUBSET Bit]
      BY ErasedIs
    <3> QED
      BY <3>1, <3>2
  <2>2. Completed(c) = Ended(c, cells)
    BY <1>4, Zenon DEF Completed
  <2>3. \A e \in [0 .. P - 1 -> SUBSET Bit] :
           /\ Ended(c, e) \in ChipRecord(P) /\ Ended(c, e).busy = "no"
           /\ Ended(c, e).protected = c.protected /\ Ended(c, e).ecc = c.ecc
    BY EndedIs
  <2> HIDE DEF cells
  <2> QED
    BY <2>1, <2>2, <2>3
<1> QED
  BY <1>1, <1>2, <1>3, <1>4

LEMMA NewChipIs ==
    ASSUME NEW P \in Nat \ {0}, NEW cells \in [0 .. P - 1 -> SUBSET Bit]
    PROVE  /\ NewChip(cells) \in ChipRecord(P) /\ NewChip(cells).busy = "no" /\ NewChip(cells).cells = cells
           /\ ~NewChip(cells).fail
BY DEF NewChip, ChipRecord

LEMMA SendIs ==
    ASSUME NEW N \in Nat \ {0}, NEW P \in Nat \ {0}, chip \in [0 .. N - 1 -> ChipRecord(P)],
           NEW k \in 0 .. N - 1, NEW sent, NEW after \in ChipRecord(P), Send(k, sent, after)
    PROVE  /\ sent \in BOOLEAN
           /\ chip' \in [0 .. N - 1 -> ChipRecord(P)]
           /\ \A j \in 0 .. N - 1 : j # k => chip'[j] = chip[j]
           /\ chip'[k] = IF sent /\ Free(k) THEN after ELSE chip[k]
           /\ IF sent THEN trouble' = trouble ELSE trouble < MaxTrouble /\ trouble' = trouble + 1
BY DEF Send, Trouble
-----------------------------------------------------------------------------
(* Types *)

OpenAt == {"9Fh", "A0_write", "A0_check", "B0_read", "B0_write", "B0_check"}

\* Every operation of the driver at one of its steps, inside the device.
DrvInv(N, P) ==
    /\ drv \in DrvRecord(N, P)
    /\ drv.pos <= drv.end /\ drv.end <= N * P
    /\ drv.op = "idle"  => drv.at = "idle"
    /\ drv.op = "open"  => drv.at \in OpenAt
    /\ drv.op = "read"  => drv.at \in {"13h", "poll", "03h"} /\ (drv.at # "13h" => drv.pos < drv.end)
    /\ drv.op = "write" => /\ drv.at \in {"slot", "poll", "06h", "02h", "10h"}
                           /\ drv.pendingPage \in [0 .. N - 1 -> -1 .. P - 1]
                           /\ \A p \in drv.pos .. drv.end - 1 : drv.data[p] \in SUBSET Bit
                           /\ drv.at \in {"06h", "02h", "10h"} =>
                                 /\ drv.pos < drv.end /\ drv.idx = drv.pos % N
                                 /\ drv.pendingPage[drv.idx] = NoPage
    /\ drv.op = "erase" => drv.at \in {"06h", "D8h", "poll"} /\ drv.pos < drv.end

TroubleInv == trouble \in 0 .. MaxTrouble /\ unseen \in 0 .. trouble

Answered == host \notin {"down", "started"} /\ drv.op = "idle"
HostInv ==
    /\ host \in {"down", "started", "open", "first_read", "rom_erase", "rom_write", "read_back",
                 "calc_erase", "running", "computing"}
    /\ host = "started" => drv.op = "idle"
    /\ drv.op = "open" => host \in {"open", "down"}
    /\ Answered => drv.answer \in {"ok", "failed"}
    /\ host \in {"started", "open", "first_read"} => answers = <<>>
    /\ host \in {"rom_erase", "rom_write", "read_back"} => answers \in {<<a>> : a \in {"ok", "failed"}}
    /\ answers \in {<<>>} \cup {<<a>> : a \in {"ok", "failed"}} \cup ({"ok", "failed"} \X {"ok", "failed"})

TypeInv(N, P) == /\ chip \in [0 .. N - 1 -> ChipRecord(P)]
                 /\ DrvInv(N, P) /\ TroubleInv /\ HostInv

\* What a step of the driver leaves.
Stepped(N, P) == /\ chip' \in [0 .. N - 1 -> ChipRecord(P)]
                 /\ DrvInv(N, P)' /\ TroubleInv'
                 /\ drv'.op = drv.op \/ (drv'.op = "idle" /\ drv'.answer \in {"ok", "failed"})

LEMMA AnswerKeeps ==
    ASSUME NEW N \in Nat \ {0}, NEW P \in Nat \ {0}, TypeInv(N, P), NEW ok \in BOOLEAN, Answer(ok)
    PROVE  DrvInv(N, P)' /\ drv'.op = "idle" /\ drv'.answer \in {"ok", "failed"}
<1>1. /\ drv' \in DrvRecord(N, P)
      /\ drv'.op = "idle" /\ drv'.at = "idle" /\ drv'.pos = 0 /\ drv'.end = 0
      /\ drv'.answer \in {"ok", "failed"}
  BY AnswerIs
<1>2. N * P \in Nat
  OBVIOUS
<1> QED
  BY <1>1, <1>2 DEF DrvInv

LEMMA GotoIs ==
    ASSUME NEW N \in Nat \ {0}, NEW P \in Nat \ {0}, TypeInv(N, P), NEW step \in Steps, Goto(step)
    PROVE  /\ drv' \in DrvRecord(N, P)
           /\ drv'.at = step /\ drv'.op = drv.op /\ drv'.pos = drv.pos /\ drv'.end = drv.end
           /\ drv'.idx = drv.idx /\ drv'.data = drv.data /\ drv'.pendingPage = drv.pendingPage
           /\ drv'.ok = drv.ok /\ drv'.answer = drv.answer
<1>1. drv \in DrvRecord(N, P)
  BY DEF TypeInv, DrvInv
<1> QED
  BY <1>1 DEF Goto, DrvRecord

LEMMA WaitIs ==
    ASSUME TroubleInv, NEW k, NEW result, WaitEnds(k, result)
    PROVE  /\ TroubleInv'
           /\ unseen' = 0 => unseen = 0 /\ Free(k) /\ result # "timeout"
           /\ unseen <= unseen'
BY SpiGeometry DEF WaitEnds, TroubleInv, Trouble

LEMMA OverlookedIs ==
    ASSUME NEW sent \in BOOLEAN, NEW noticed \in BOOLEAN, TroubleInv, Overlooked(noticed),
           IF sent THEN trouble' = trouble ELSE trouble < MaxTrouble /\ trouble' = trouble + 1,
           sent => noticed
    PROVE  TroubleInv' /\ unseen <= unseen' /\ (unseen' = unseen => noticed)
BY SpiGeometry DEF Overlooked, TroubleInv

LEMMA ReadKeepsTypes ==
    ASSUME NEW N \in Nat \ {0}, NEW P \in Nat \ {0}, TypeInv(N, P),
           ReadDone \/ PageRead \/ PageReadWait \/ ReadBuf
    PROVE  Stepped(N, P)
<1>1. /\ drv \in DrvRecord(N, P) /\ chip \in [0 .. N - 1 -> ChipRecord(P)] /\ n = N
      /\ drv.pos \in Nat /\ drv.end \in Nat /\ TroubleInv
  BY SizesOf DEF TypeInv, DrvInv, DrvRecord
<1>2. CASE ReadDone
  BY <1>1, <1>2, AnswerKeeps DEF ReadDone, Stepped, TroubleInv
<1>3. CASE PageRead
  <2>1. drv.op = "read" /\ drv.at = "13h" /\ drv.pos < drv.end /\ drv.pos < N * P
    BY <1>1, <1>3 DEF PageRead, At, MoreToRead, TypeInv, DrvInv
  <2>2. chipIndexOf(drv.pos) \in 0 .. N - 1 /\ physPageOf(drv.pos) \in 0 .. P - 1
    BY <1>1, <2>1, PageParts DEF chipIndexOf, physPageOf
  <2>3. chip' \in [0 .. N - 1 -> ChipRecord(P)] /\ TroubleInv'
    <3>1. PICK sent \in BOOLEAN : /\ Send(chipIndexOf(drv.pos), sent, Reading(chip[chipIndexOf(drv.pos)], physPageOf(drv.pos)))
                                  /\ Overlooked(sent)
      BY <1>3 DEF PageRead
    <3>2. Reading(chip[chipIndexOf(drv.pos)], physPageOf(drv.pos)) \in ChipRecord(P)
      BY <1>1, <2>2, ChipMessages
    <3>3. /\ chip' \in [0 .. N - 1 -> ChipRecord(P)]
          /\ IF sent THEN trouble' = trouble ELSE trouble < MaxTrouble /\ trouble' = trouble + 1
      BY <1>1, <2>2, <3>1, <3>2, SendIs
    <3> QED
      BY <1>1, <3>1, <3>3, OverlookedIs
  <2>4. Goto("poll") /\ "poll" \in Steps
    BY <1>3 DEF PageRead, Steps
  <2>5. DrvInv(N, P)' /\ drv'.op = drv.op
    BY <2>1, <2>4, GotoIs DEF TypeInv, DrvInv
  <2> QED
    BY <2>3, <2>5 DEF Stepped
<1>4. CASE PageReadWait
  <2>1. PICK result \in {"ready", "failed", "timeout"} :
            /\ WaitEnds(chipIndexOf(drv.pos), result)
            /\ IF result = "timeout" THEN Answer(FALSE) ELSE Goto("03h")
    BY <1>4 DEF PageReadWait
  <2>2. TroubleInv' /\ chip' = chip
    BY <1>1, <1>4, <2>1, WaitIs DEF PageReadWait
  <2>3. drv.op = "read" /\ drv.at = "poll" /\ drv.pos < drv.end
    BY <1>4 DEF PageReadWait, At, TypeInv, DrvInv
  <2>4. CASE Answer(FALSE)
    BY <1>1, <2>2, <2>4, AnswerKeeps DEF Stepped
  <2>5. CASE Goto("03h")
    <3>1. "03h" \in Steps
      BY DEF Steps
    <3>2. DrvInv(N, P)' /\ drv'.op = drv.op
      BY <2>3, <2>5, <3>1, GotoIs DEF TypeInv, DrvInv
    <3> QED
      BY <1>1, <2>2, <3>2 DEF Stepped
  <2> QED
    BY <2>1, <2>4, <2>5
<1>5. CASE ReadBuf
  <2>1. drv.op = "read" /\ drv.at = "03h" /\ drv.pos < drv.end /\ drv.pos < N * P
    BY <1>1, <1>5 DEF ReadBuf, At, TypeInv, DrvInv
  <2>2. chipIndexOf(drv.pos) \in 0 .. N - 1
    BY <1>1, <2>1, PageParts DEF chipIndexOf
  <2>3. PICK sent \in BOOLEAN : /\ Send(chipIndexOf(drv.pos), sent, chip[chipIndexOf(drv.pos)])
                                /\ ~sent => Answer(FALSE)
                                /\ sent => drv' = [drv EXCEPT !.pos = @ + 1, !.at = "13h"]
    BY <1>5 DEF ReadBuf
  <2>4. /\ chip' \in [0 .. N - 1 -> ChipRecord(P)]
        /\ IF sent THEN trouble' = trouble ELSE trouble < MaxTrouble /\ trouble' = trouble + 1
    BY <1>1, <2>2, <2>3, SendIs
  <2>5. TroubleInv'
    BY <1>1, <1>5, <2>4, SpiGeometry DEF ReadBuf, TroubleInv
  <2>6. CASE sent
    <3> DEFINE next == drv.pos + 1
    <3>1. next \in Nat /\ "13h" \in Steps
      BY <1>1 DEF Steps
    <3>2. drv' = [drv EXCEPT !.pos = next, !.at = "13h"]
      BY <2>3, <2>6
    <3> HIDE DEF next
    <3>3. drv' \in DrvRecord(N, P) /\ drv'.op = drv.op /\ drv'.at = "13h" /\ drv'.pos = next /\ drv'.end = drv.end
      BY <1>1, <3>1, <3>2 DEF DrvRecord
    <3>4. drv'.pos = drv.pos + 1
      BY <3>3 DEF next
    <3>5. DrvInv(N, P)'
      BY <1>1, <2>1, <3>3, <3>4 DEF TypeInv, DrvInv
    <3> QED
      BY <2>1, <2>4, <2>5, <3>3, <3>5 DEF Stepped
  <2> QED
    BY <2>3, <2>4, <2>5, <2>6, AnswerKeeps DEF Stepped
<1> QED
  BY <1>2, <1>3, <1>4, <1>5

LEMMA OpenOrder ==
    /\ NextOpenStep("9Fh") = "A0_write" /\ NextOpenStep("A0_write") = "A0_check"
    /\ NextOpenStep("A0_check") = "B0_read" /\ NextOpenStep("B0_read") = "B0_write"
    /\ NextOpenStep("B0_write") = "B0_check"
<1>1. /\ DOMAIN OpenSteps = 1 .. 6
      /\ OpenSteps[1] = "9Fh" /\ OpenSteps[2] = "A0_write" /\ OpenSteps[3] = "A0_check"
      /\ OpenSteps[4] = "B0_read" /\ OpenSteps[5] = "B0_write" /\ OpenSteps[6] = "B0_check"
  BY DEF OpenSteps
<1>2. \A i \in 1 .. 6 : i = 1 \/ i = 2 \/ i = 3 \/ i = 4 \/ i = 5 \/ i = 6
  OBVIOUS
<1>3. ASSUME NEW i \in 1 .. 5 PROVE NextOpenStep(OpenSteps[i]) = OpenSteps[i + 1]
  <2>1. \A j \in DOMAIN OpenSteps : OpenSteps[j] = OpenSteps[i] => j = i
    BY <1>1, <1>2
  <2>2. (CHOOSE j \in DOMAIN OpenSteps : OpenSteps[j] = OpenSteps[i]) = i
    BY <1>1, <2>1
  <2> QED
    BY <2>2 DEF NextOpenStep
<1> QED
  BY <1>1, <1>3

\* One message of open(), as seen by the chip and by the driver.
OpenSends(k, sent, garbage) ==
    /\ Send(k, sent, CASE drv.at = "A0_write" -> [chip[k] EXCEPT !.protected = FALSE]
                       [] drv.at = "B0_write" -> [chip[k] EXCEPT !.ecc = FALSE]
                       [] OTHER               -> chip[k])
    /\ Overlooked((sent \/ drv.at = "9Fh"))
    /\ IF ~OpenStepFine(k, sent, garbage) THEN Answer(FALSE)
       ELSE IF drv.at # "B0_check" THEN Goto(NextOpenStep(drv.at))
       ELSE IF k + 1 \in Chip THEN drv' = [drv EXCEPT !.idx = k + 1, !.at = "9Fh"]
       ELSE Answer(TRUE)

LEMMA OpenIs ==
    ASSUME NEW N \in Nat \ {0}, NEW P \in Nat \ {0}, TypeInv(N, P), drv.op = "open",
           NEW sent \in BOOLEAN, NEW garbage \in BOOLEAN, OpenSends(drv.idx, sent, garbage)
    PROVE  /\ chip' \in [0 .. N - 1 -> ChipRecord(P)] /\ TroubleInv'
           /\ unseen <= unseen' /\ (unseen' = unseen => sent \/ drv.at = "9Fh")
           /\ \A j \in 0 .. N - 1 : chip'[j].busy = chip[j].busy
           /\ \A j \in 0 .. N - 1 \ {drv.idx} : chip'[j] = chip[j]
           /\ sent /\ Free(drv.idx) /\ drv.at = "A0_write" => ~chip'[drv.idx].protected
           /\ sent /\ Free(drv.idx) /\ drv.at = "B0_write" => ~chip'[drv.idx].ecc
           /\ ~chip[drv.idx].protected => ~chip'[drv.idx].protected
           /\ ~chip[drv.idx].ecc => ~chip'[drv.idx].ecc
<1> DEFINE k == drv.idx
           after == CASE drv.at = "A0_write" -> [chip[k] EXCEPT !.protected = FALSE]
                      [] drv.at = "B0_write" -> [chip[k] EXCEPT !.ecc = FALSE]
                      [] OTHER               -> chip[k]
<1>1. k \in 0 .. N - 1 /\ chip \in [0 .. N - 1 -> ChipRecord(P)] /\ chip[k] \in ChipRecord(P) /\ TroubleInv
  BY DEF TypeInv, DrvInv, DrvRecord
<1>2. /\ after \in ChipRecord(P) /\ after.busy = chip[k].busy
      /\ drv.at = "A0_write" => ~after.protected
      /\ drv.at = "B0_write" => ~after.ecc
      /\ ~chip[k].protected => ~after.protected
      /\ ~chip[k].ecc => ~after.ecc
  <2>1. CASE drv.at = "A0_write"
    BY <1>1, <2>1 DEF ChipRecord
  <2>2. CASE drv.at = "B0_write"
    BY <1>1, <2>2 DEF ChipRecord
  <2>3. CASE drv.at \notin {"A0_write", "B0_write"}
    <3>1. after = chip[k]
      BY <2>3
    <3> QED
      BY <1>1, <2>3, <3>1
  <2> QED
    BY <2>1, <2>2, <2>3
<1> HIDE DEF after
<1>3. Send(k, sent, after) /\ Overlooked((sent \/ drv.at = "9Fh"))
  BY DEF OpenSends, after
<1>4. /\ chip' \in [0 .. N - 1 -> ChipRecord(P)]
      /\ \A j \in 0 .. N - 1 : j # k => chip'[j] = chip[j]
      /\ chip'[k] = IF sent /\ Free(k) THEN after ELSE chip[k]
      /\ IF sent THEN trouble' = trouble ELSE trouble < MaxTrouble /\ trouble' = trouble + 1
  <2>1. after \in ChipRecord(P)
    BY <1>2
  <2>2. Send(k, sent, after)
    BY <1>3
  <2> HIDE DEF k
  <2> QED
    BY <1>1, <2>1, <2>2, SendIs
<1>5. TroubleInv' /\ unseen <= unseen' /\ (unseen' = unseen => sent \/ drv.at = "9Fh")
  BY <1>1, <1>3, <1>4, OverlookedIs
<1> QED
  BY <1>1, <1>2, <1>4, <1>5

LEMMA OpenMoves ==
    ASSUME NEW N \in Nat \ {0}, NEW P \in Nat \ {0}, TypeInv(N, P), drv.op = "open",
           NEW sent \in BOOLEAN, NEW garbage \in BOOLEAN, OpenSends(drv.idx, sent, garbage)
    PROVE  /\ DrvInv(N, P)'
           /\ \/ drv'.op = "idle" /\ drv'.answer = "failed"
              \/ /\ OpenStepFine(drv.idx, sent, garbage) /\ drv.at # "B0_check"
                 /\ drv'.op = "open" /\ drv'.at = NextOpenStep(drv.at) /\ drv'.idx = drv.idx
              \/ /\ OpenStepFine(drv.idx, sent, garbage) /\ drv.at = "B0_check"
                 /\ drv'.op = "open" /\ drv'.at = "9Fh" /\ drv'.idx = drv.idx + 1
              \/ /\ OpenStepFine(drv.idx, sent, garbage) /\ drv.at = "B0_check"
                 /\ drv'.op = "idle" /\ drv'.answer = "ok" /\ drv.idx = N - 1
<1>1. /\ drv \in DrvRecord(N, P) /\ drv.at \in OpenAt /\ drv.idx \in 0 .. N - 1 /\ Chip = 0 .. N - 1
      /\ drv.pos \in Nat /\ drv.end \in Nat /\ drv.pos <= drv.end /\ drv.end <= N * P /\ N * P \in Nat
  BY SizesOf DEF TypeInv, DrvInv, DrvRecord
<1>2. CASE Answer(FALSE)
  <2>1. drv'.op = "idle" /\ drv'.answer = "failed" /\ DrvInv(N, P)'
    BY <1>2, AnswerIs, AnswerKeeps
  <2> QED
    BY <2>1
<1>3. CASE OpenStepFine(drv.idx, sent, garbage) /\ drv.at # "B0_check" /\ Goto(NextOpenStep(drv.at))
  <2>1. NextOpenStep(drv.at) \in OpenAt /\ NextOpenStep(drv.at) \in Steps
    BY <1>1, <1>3, OpenOrder DEF OpenAt, Steps
  <2>2. /\ drv' \in DrvRecord(N, P) /\ drv'.at = NextOpenStep(drv.at) /\ drv'.op = "open"
        /\ drv'.pos = drv.pos /\ drv'.end = drv.end /\ drv'.idx = drv.idx
    BY <1>3, <2>1, GotoIs
  <2>3. DrvInv(N, P)'
    BY <1>1, <2>1, <2>2 DEF DrvInv
  <2> QED
    BY <1>3, <2>2, <2>3
<1>4. CASE /\ OpenStepFine(drv.idx, sent, garbage) /\ drv.at = "B0_check" /\ drv.idx + 1 \in Chip
           /\ drv' = [drv EXCEPT !.idx = drv.idx + 1, !.at = "9Fh"]
  <2> DEFINE next == drv.idx + 1
  <2>1. next \in 0 .. N - 1 /\ "9Fh" \in Steps
    BY <1>1, <1>4 DEF Steps
  <2>2. drv' = [drv EXCEPT !.idx = next, !.at = "9Fh"]
    BY <1>4
  <2> HIDE DEF next
  <2>3. /\ drv' \in DrvRecord(N, P) /\ drv'.op = drv.op /\ drv'.at = "9Fh" /\ drv'.idx = next
        /\ drv'.pos = drv.pos /\ drv'.end = drv.end
    BY <1>1, <2>1, <2>2 DEF DrvRecord
  <2>4. DrvInv(N, P)'
    BY <1>1, <2>3 DEF DrvInv, OpenAt
  <2> QED
    BY <1>4, <2>3, <2>4 DEF next
<1>5. CASE OpenStepFine(drv.idx, sent, garbage) /\ drv.at = "B0_check" /\ drv.idx + 1 \notin Chip /\ Answer(TRUE)
  <2>1. drv'.op = "idle" /\ drv'.answer = "ok" /\ DrvInv(N, P)'
    BY <1>5, AnswerIs, AnswerKeeps
  <2>2. drv.idx + 1 \notin 0 .. N - 1
    BY <1>1, <1>5
  <2>3. drv.idx = N - 1
    BY <1>1, <2>2
  <2> QED
    BY <1>5, <2>1, <2>3
<1> QED
  BY <1>2, <1>3, <1>4, <1>5 DEF OpenSends

LEMMA OpenKeepsTypes ==
    ASSUME NEW N \in Nat \ {0}, NEW P \in Nat \ {0}, TypeInv(N, P), Open
    PROVE  Stepped(N, P)
<1>1. drv.op = "open" /\ \E sent \in BOOLEAN, garbage \in BOOLEAN : OpenSends(drv.idx, sent, garbage)
  BY Zenon DEF Open, OpenSends
<1> QED
  BY <1>1, OpenIs, OpenMoves DEF Stepped

\* The first chip that is still to be waited for.
LEMMA FirstIn == ASSUME NEW T \in SUBSET Nat, T # {} PROVE (CHOOSE k \in T : \A j \in T : k <= j) \in T
<1>1. PICK x \in T : \A y \in T : <<y, x>> \notin OpToRel(<, Nat)
  BY NatLessThanWellFounded, WFMin, Zenon
<1>2. ASSUME NEW y \in T PROVE x <= y
  <2>1. <<y, x>> \in Nat \X Nat /\ <<y, x>>[1] = y /\ <<y, x>>[2] = x
    OBVIOUS
  <2>2. ~(y < x)
    BY <1>1, <2>1, Zenon DEF OpToRel
  <2> QED
    BY <2>2
<1> QED
  BY <1>2

LEMMA NextPageIs ==
    ASSUME NEW N \in Nat \ {0}, NEW P \in Nat \ {0}, TypeInv(N, P), NextPage
    PROVE  /\ DrvInv(N, P)'
           /\ \/ drv'.op = "idle" /\ drv'.answer \in {"ok", "failed"} /\ Pending = {}
              \/ /\ drv'.op = "write" /\ drv'.at \in {"06h", "poll"}
                 /\ drv'.pendingPage = drv.pendingPage
           /\ drv'.op = "write" => drv'.pos = drv.pos /\ drv'.end = drv.end
<1>1. /\ drv \in DrvRecord(N, P) /\ Chip = 0 .. N - 1 /\ n = N
      /\ drv.op = "write" /\ drv.at = "slot"
      /\ drv.pos \in Nat /\ drv.end \in Nat /\ drv.pos <= drv.end /\ drv.end <= N * P /\ N * P \in Nat
      /\ drv.pendingPage \in [0 .. N - 1 -> -1 .. P - 1] /\ drv.ok \in BOOLEAN
  BY SizesOf DEF NextPage, At, TypeInv, DrvInv, DrvRecord
<1>2. ASSUME NEW k \in Pending, Wait(k)
      PROVE  /\ DrvInv(N, P)' /\ drv'.op = "write" /\ drv'.at = "poll"
             /\ drv'.pendingPage = drv.pendingPage /\ drv'.pos = drv.pos /\ drv'.end = drv.end
  <2>1. k \in 0 .. N - 1 /\ "poll" \in Steps
    BY <1>1 DEF Pending, Steps
  <2>2. /\ drv' \in DrvRecord(N, P) /\ drv'.op = drv.op /\ drv'.at = "poll"
        /\ drv'.pos = drv.pos /\ drv'.end = drv.end
        /\ drv'.data = drv.data /\ drv'.pendingPage = drv.pendingPage
    BY <1>1, <1>2, <2>1 DEF Wait, DrvRecord
  <2> QED
    BY <1>1, <2>2 DEF TypeInv, DrvInv
<1>3. CASE drv.pos < drv.end /\ drv.ok /\ chipIndexOf(drv.pos) \in Pending
  BY <1>2, <1>3 DEF NextPage
<1>4. CASE drv.pos < drv.end /\ drv.ok /\ chipIndexOf(drv.pos) \notin Pending
  <2> DEFINE k == chipIndexOf(drv.pos)
  <2>1. k \in 0 .. N - 1 /\ k = drv.pos % N
    <3>1. drv.pos < N * P
      BY <1>1, <1>4
    <3> QED
      BY <1>1, <3>1, PageParts DEF chipIndexOf
  <2>2. drv.pendingPage[k] = NoPage /\ "06h" \in Steps
    BY <1>1, <1>4, <2>1 DEF Pending, Steps
  <2>3. drv' = [drv EXCEPT !.at = "06h", !.idx = k]
    BY <1>4 DEF NextPage
  <2> HIDE DEF k
  <2>4. /\ drv' \in DrvRecord(N, P) /\ drv'.op = drv.op /\ drv'.at = "06h" /\ drv'.idx = k
        /\ drv'.pos = drv.pos /\ drv'.end = drv.end
        /\ drv'.data = drv.data /\ drv'.pendingPage = drv.pendingPage
    BY <1>1, <2>1, <2>2, <2>3 DEF DrvRecord
  <2>5. DrvInv(N, P)'
    BY <1>1, <1>4, <2>1, <2>2, <2>4 DEF TypeInv, DrvInv
  <2> QED
    BY <1>1, <2>4, <2>5
<1>5. CASE ~(drv.pos < drv.end /\ drv.ok) /\ Pending # {}
  <2>1. Pending \in SUBSET Nat
    BY <1>1 DEF Pending
  <2> DEFINE k == CHOOSE k \in Pending : \A j \in Pending : k <= j
  <2>2. k \in Pending
    BY <1>5, <2>1, FirstIn
  <2>3. Wait(k)
    BY <1>5 DEF NextPage
  <2> HIDE DEF k
  <2> QED
    BY <1>2, <2>2, <2>3
<1>6. CASE ~(drv.pos < drv.end /\ drv.ok) /\ Pending = {}
  <2>1. Answer(drv.ok)
    BY <1>6 DEF NextPage
  <2> QED
    BY <1>1, <1>6, <2>1, AnswerKeeps
<1> QED
  BY <1>3, <1>4, <1>5, <1>6

LEMMA WaitChipIs ==
    ASSUME NEW N \in Nat \ {0}, NEW P \in Nat \ {0}, TypeInv(N, P), waitChip
    PROVE  /\ DrvInv(N, P)' /\ TroubleInv' /\ chip' = chip
           /\ unseen <= unseen' /\ (unseen' = 0 => Free(drv.idx))
           /\ drv'.op = "write" /\ drv'.at = "slot" /\ drv'.pos = drv.pos /\ drv'.end = drv.end
           /\ \A k \in 0 .. N - 1 : k # drv.idx => drv'.pendingPage[k] = drv.pendingPage[k]
           /\ \A k \in 0 .. N - 1 : drv'.pendingPage[k] \in {NoPage, drv.pendingPage[k]}
<1>1. /\ drv \in DrvRecord(N, P) /\ drv.op = "write" /\ drv.at = "poll"
      /\ drv.pendingPage \in [0 .. N - 1 -> -1 .. P - 1] /\ drv.idx \in 0 .. N - 1 /\ TroubleInv
      /\ drv.pos \in Nat /\ drv.end \in Nat /\ drv.pos <= drv.end /\ drv.end <= N * P
  BY DEF waitChip, At, TypeInv, DrvInv, DrvRecord
<1>2. PICK result : /\ WaitEnds(drv.idx, result)
                    /\ drv' = [drv EXCEPT !.at = "slot", !.ok = @ /\ result = "ready",
                                          !.pendingPage[drv.idx] = NoPage]
  BY DEF waitChip
<1> DEFINE ok == drv.ok /\ result = "ready"
           pending == [drv.pendingPage EXCEPT ![drv.idx] = NoPage]
<1>3. ok \in BOOLEAN
  OBVIOUS
<1>4. pending \in [0 .. N - 1 -> -1 .. P - 1]
  BY <1>1 DEF NoPage
<1>5. /\ \A k \in 0 .. N - 1 : k # drv.idx => pending[k] = drv.pendingPage[k]
      /\ \A k \in 0 .. N - 1 : pending[k] \in {NoPage, drv.pendingPage[k]}
  BY <1>1
<1>6. drv' = [drv EXCEPT !.at = "slot", !.ok = ok, !.pendingPage = pending]
  BY <1>1, <1>2
<1> HIDE DEF ok, pending
<1>7. "slot" \in Steps
  BY DEF Steps
<1>8. /\ drv' \in DrvRecord(N, P) /\ drv'.op = drv.op /\ drv'.at = "slot"
      /\ drv'.pos = drv.pos /\ drv'.end = drv.end
      /\ drv'.data = drv.data /\ drv'.pendingPage = pending
  BY <1>1, <1>3, <1>4, <1>6, <1>7 DEF DrvRecord
<1>9. DrvInv(N, P)'
  BY <1>1, <1>4, <1>8 DEF TypeInv, DrvInv
<1>10. TroubleInv' /\ unseen <= unseen' /\ (unseen' = 0 => Free(drv.idx)) /\ chip' = chip
  BY <1>1, <1>2, WaitIs DEF waitChip
<1> QED
  BY <1>1, <1>5, <1>8, <1>9, <1>10

LEMMA WriteEnableIs ==
    ASSUME NEW N \in Nat \ {0}, NEW P \in Nat \ {0}, TypeInv(N, P), WriteEnable
    PROVE  /\ Stepped(N, P) /\ unseen <= unseen'
           /\ drv.op \in {"write", "erase"} /\ drv.at = "06h"
           /\ drv'.op = drv.op /\ drv'.at = IF drv.op = "write" THEN "02h" ELSE "D8h"
           /\ drv'.idx = drv.idx /\ drv'.pendingPage = drv.pendingPage
           /\ \A k \in 0 .. N - 1 : /\ chip'[k].busy = chip[k].busy
                                    /\ chip'[k].protected = chip[k].protected /\ chip'[k].ecc = chip[k].ecc
<1>1. /\ drv \in DrvRecord(N, P) /\ drv.op \in {"write", "erase"} /\ drv.at = "06h"
      /\ drv.idx \in 0 .. N - 1 /\ TroubleInv /\ chip \in [0 .. N - 1 -> ChipRecord(P)]
  BY DEF WriteEnable, TypeInv, DrvInv, DrvRecord
<1>2. PICK sent \in BOOLEAN : Send(drv.idx, sent, Latched(chip[drv.idx])) /\ Overlooked(sent)
  BY DEF WriteEnable
<1>3. /\ Latched(chip[drv.idx]) \in ChipRecord(P) /\ Latched(chip[drv.idx]).busy = chip[drv.idx].busy
      /\ Latched(chip[drv.idx]).protected = chip[drv.idx].protected
      /\ Latched(chip[drv.idx]).ecc = chip[drv.idx].ecc
  BY <1>1, ChipMessages
<1>4. /\ chip' \in [0 .. N - 1 -> ChipRecord(P)]
      /\ \A j \in 0 .. N - 1 : j # drv.idx => chip'[j] = chip[j]
      /\ chip'[drv.idx] = IF sent /\ Free(drv.idx) THEN Latched(chip[drv.idx]) ELSE chip[drv.idx]
      /\ IF sent THEN trouble' = trouble ELSE trouble < MaxTrouble /\ trouble' = trouble + 1
  BY <1>1, <1>2, <1>3, SendIs
<1>5. TroubleInv' /\ unseen <= unseen'
  BY <1>1, <1>2, <1>4, OverlookedIs
<1> DEFINE step == IF drv.op = "write" THEN "02h" ELSE "D8h"
<1>6. step \in Steps /\ Goto(step)
  BY DEF WriteEnable, Steps
<1> HIDE DEF step
<1>7. /\ drv' \in DrvRecord(N, P)
      /\ drv'.at = step /\ drv'.op = drv.op /\ drv'.pos = drv.pos /\ drv'.end = drv.end
      /\ drv'.idx = drv.idx /\ drv'.data = drv.data /\ drv'.pendingPage = drv.pendingPage
  BY <1>6, GotoIs
<1>8. DrvInv(N, P)'
  BY <1>1, <1>7 DEF TypeInv, DrvInv, step
<1>9. \A k \in 0 .. N - 1 : /\ chip'[k].busy = chip[k].busy
                            /\ chip'[k].protected = chip[k].protected /\ chip'[k].ecc = chip[k].ecc
  BY <1>3, <1>4
<1> QED
  BY <1>1, <1>4, <1>5, <1>7, <1>8, <1>9 DEF Stepped, step

LEMMA ProgramLoadIs ==
    ASSUME NEW N \in Nat \ {0}, NEW P \in Nat \ {0}, TypeInv(N, P), ProgramLoad
    PROVE  /\ Stepped(N, P) /\ unseen' = unseen
           /\ drv.op = "write" /\ drv.at = "02h" /\ drv'.op = "write" /\ drv'.at \in {"10h", "slot"}
           /\ drv'.idx = drv.idx /\ drv'.pendingPage = drv.pendingPage
           /\ \A k \in 0 .. N - 1 : /\ chip'[k].busy = chip[k].busy
                                    /\ chip'[k].protected = chip[k].protected /\ chip'[k].ecc = chip[k].ecc
<1>1. /\ drv \in DrvRecord(N, P) /\ drv.op = "write" /\ drv.at = "02h"
      /\ drv.idx \in 0 .. N - 1 /\ TroubleInv /\ chip \in [0 .. N - 1 -> ChipRecord(P)] /\ unseen' = unseen
      /\ drv.pos \in Nat /\ drv.end \in Nat /\ drv.pos < drv.end
  BY DEF ProgramLoad, At, TypeInv, DrvInv, DrvRecord
<1> DEFINE content == drv.data[drv.pos]
<1>2. content \in SUBSET Bit
  <2>1. drv.pos \in drv.pos .. drv.end - 1
    BY <1>1
  <2> QED
    BY <1>1, <2>1 DEF TypeInv, DrvInv
<1>3. PICK sent \in BOOLEAN :
          /\ Send(drv.idx, sent, Loaded(chip[drv.idx], content))
          /\ drv' = IF sent THEN [drv EXCEPT !.at = "10h"]
                            ELSE [drv EXCEPT !.at = "slot", !.ok = FALSE]
  BY DEF ProgramLoad
<1> HIDE DEF content
<1> DEFINE after == Loaded(chip[drv.idx], content)
<1>4. /\ after \in ChipRecord(P) /\ after.busy = chip[drv.idx].busy
      /\ after.protected = chip[drv.idx].protected /\ after.ecc = chip[drv.idx].ecc
  <2>1. chip[drv.idx] \in ChipRecord(P)
    BY <1>1
  <2> QED
    BY <1>2, <2>1, ChipMessages
<1>5. Send(drv.idx, sent, after)
  BY <1>3
<1> HIDE DEF after
<1>6. /\ chip' \in [0 .. N - 1 -> ChipRecord(P)]
      /\ \A j \in 0 .. N - 1 : j # drv.idx => chip'[j] = chip[j]
      /\ chip'[drv.idx] = IF sent /\ Free(drv.idx) THEN after ELSE chip[drv.idx]
      /\ IF sent THEN trouble' = trouble ELSE trouble < MaxTrouble /\ trouble' = trouble + 1
  BY <1>1, <1>4, <1>5, SendIs
<1>7. TroubleInv'
  BY <1>1, <1>6, SpiGeometry DEF TroubleInv
<1>8. "10h" \in Steps /\ "slot" \in Steps
  BY DEF Steps
<1>9. /\ drv' \in DrvRecord(N, P) /\ drv'.at \in {"10h", "slot"} /\ drv'.op = drv.op
       /\ drv'.pos = drv.pos /\ drv'.end = drv.end /\ drv'.idx = drv.idx
       /\ drv'.data = drv.data /\ drv'.pendingPage = drv.pendingPage
  <2>1. CASE sent
    BY <1>1, <1>3, <1>8, <2>1 DEF DrvRecord
  <2>2. CASE ~sent
    BY <1>1, <1>3, <1>8, <2>2 DEF DrvRecord
  <2> QED
    BY <2>1, <2>2
<1>10. DrvInv(N, P)'
  BY <1>1, <1>9 DEF TypeInv, DrvInv
<1>11. \A k \in 0 .. N - 1 : /\ chip'[k].busy = chip[k].busy
                             /\ chip'[k].protected = chip[k].protected /\ chip'[k].ecc = chip[k].ecc
  BY <1>4, <1>6
<1> QED
  BY <1>1, <1>6, <1>7, <1>9, <1>10, <1>11 DEF Stepped

LEMMA ProgramIssueIs ==
    ASSUME NEW N \in Nat \ {0}, NEW P \in Nat \ {0}, TypeInv(N, P), ProgramIssue
    PROVE  /\ Stepped(N, P) /\ unseen' = unseen
           /\ drv.op = "write" /\ drv.at = "10h" /\ drv'.op = "write" /\ drv'.at = "slot"
           /\ \A k \in 0 .. N - 1 : k # drv.idx => drv'.pendingPage[k] = drv.pendingPage[k]
           /\ \/ /\ drv'.pendingPage[drv.idx] = physPageOf(drv.pos) /\ physPageOf(drv.pos) \in 0 .. P - 1
                 /\ chip'[drv.idx] \in {chip[drv.idx], Started(chip[drv.idx], "program", physPageOf(drv.pos))}
              \/ drv'.pendingPage[drv.idx] = drv.pendingPage[drv.idx] /\ chip'[drv.idx] = chip[drv.idx]
           /\ \A k \in 0 .. N - 1 : k # drv.idx => chip'[k] = chip[k]
           /\ \A k \in 0 .. N - 1 : chip'[k].protected = chip[k].protected /\ chip'[k].ecc = chip[k].ecc
<1>1. /\ drv \in DrvRecord(N, P) /\ drv.op = "write" /\ drv.at = "10h"
      /\ drv.idx \in 0 .. N - 1 /\ TroubleInv /\ chip \in [0 .. N - 1 -> ChipRecord(P)] /\ unseen' = unseen
      /\ drv.pos \in Nat /\ drv.end \in Nat /\ drv.pos < drv.end /\ drv.end <= N * P /\ n = N
      /\ drv.pendingPage \in [0 .. N - 1 -> -1 .. P - 1]
  BY SizesOf DEF ProgramIssue, At, TypeInv, DrvInv, DrvRecord
<1> DEFINE page == physPageOf(drv.pos)
<1>2. page \in 0 .. P - 1
  <2>1. drv.pos < N * P
    BY <1>1
  <2> QED
    BY <1>1, <2>1, PageParts DEF physPageOf
<1>3. PICK sent \in BOOLEAN :
          /\ Send(drv.idx, sent, Started(chip[drv.idx], "program", page))
          /\ drv' = IF sent THEN [drv EXCEPT !.at = "slot", !.pos = @ + 1, !.pendingPage[drv.idx] = page]
                            ELSE [drv EXCEPT !.at = "slot", !.ok = FALSE]
  BY DEF ProgramIssue
<1> HIDE DEF page
<1> DEFINE after == Started(chip[drv.idx], "program", page)
<1>4. /\ after \in ChipRecord(P)
      /\ after.protected = chip[drv.idx].protected /\ after.ecc = chip[drv.idx].ecc
  <2>1. chip[drv.idx] \in ChipRecord(P)
    BY <1>1
  <2> QED
    BY <1>2, <2>1, ChipMessages
<1>5. Send(drv.idx, sent, after)
  BY <1>3
<1> HIDE DEF after
<1>6. /\ chip' \in [0 .. N - 1 -> ChipRecord(P)]
      /\ \A j \in 0 .. N - 1 : j # drv.idx => chip'[j] = chip[j]
      /\ chip'[drv.idx] = IF sent /\ Free(drv.idx) THEN after ELSE chip[drv.idx]
      /\ IF sent THEN trouble' = trouble ELSE trouble < MaxTrouble /\ trouble' = trouble + 1
  <2>1. chip \in [0 .. N - 1 -> ChipRecord(P)] /\ drv.idx \in 0 .. N - 1 /\ after \in ChipRecord(P)
    BY <1>1, <1>4
  <2> QED
    BY <1>5, <2>1, SendIs
<1>7. TroubleInv'
  BY <1>1, <1>6, SpiGeometry, SMTT(30) DEF TroubleInv
<1>8. "slot" \in Steps
  BY DEF Steps
<1>9. \A k \in 0 .. N - 1 : chip'[k].protected = chip[k].protected /\ chip'[k].ecc = chip[k].ecc
  BY <1>4, <1>6
<1>10. CASE ~sent
  <2>1. /\ drv' \in DrvRecord(N, P) /\ drv'.at = "slot" /\ drv'.op = drv.op
        /\ drv'.pos = drv.pos /\ drv'.end = drv.end
        /\ drv'.data = drv.data /\ drv'.pendingPage = drv.pendingPage
    BY <1>1, <1>3, <1>8, <1>10 DEF DrvRecord
  <2>2. DrvInv(N, P)'
    BY <1>1, <2>1 DEF TypeInv, DrvInv
  <2> QED
    BY <1>1, <1>6, <1>7, <1>9, <1>10, <2>1, <2>2 DEF Stepped
<1>11. CASE sent
  <2> DEFINE next == drv.pos + 1
             pending == [drv.pendingPage EXCEPT ![drv.idx] = page]
  <2>1. drv' = [drv EXCEPT !.at = "slot", !.pos = next, !.pendingPage = pending]
    BY <1>1, <1>3, <1>11
  <2>2. /\ next \in Nat /\ pending \in [0 .. N - 1 -> -1 .. P - 1] /\ pending[drv.idx] = page
        /\ \A k \in 0 .. N - 1 : k # drv.idx => pending[k] = drv.pendingPage[k]
    <3>1. next \in Nat
      BY <1>1
    <3>2. page \in -1 .. P - 1
      BY <1>2
    <3> QED
      BY <1>1, <3>1, <3>2
  <2> HIDE DEF next, pending
  <2>3. /\ drv' \in DrvRecord(N, P) /\ drv'.at = "slot" /\ drv'.op = drv.op
        /\ drv'.pos = next /\ drv'.end = drv.end
        /\ drv'.data = drv.data /\ drv'.pendingPage = pending
    BY <1>1, <1>8, <2>1, <2>2 DEF DrvRecord
  <2>4. next <= drv.end /\ \A p \in next .. drv.end - 1 : p \in drv.pos .. drv.end - 1
    BY <1>1 DEF next
  <2>5. DrvInv(N, P)'
    BY <1>1, <2>2, <2>3, <2>4 DEF TypeInv, DrvInv
  <2> QED
    BY <1>1, <1>2, <1>6, <1>7, <1>9, <2>2, <2>3, <2>5 DEF Stepped, page, after
<1> QED
  BY <1>10, <1>11

LEMMA BlockEraseIs ==
    ASSUME NEW N \in Nat \ {0}, NEW P \in Nat \ {0}, TypeInv(N, P), BlockErase
    PROVE  /\ Stepped(N, P) /\ unseen <= unseen'
           /\ drv.op = "erase" /\ drv.at = "D8h" /\ drv'.op = "erase" /\ drv'.at = "poll" /\ drv'.idx = drv.idx
           /\ \A k \in 0 .. N - 1 : k # drv.idx => chip'[k] = chip[k]
           /\ \A k \in 0 .. N - 1 : chip'[k].protected = chip[k].protected /\ chip'[k].ecc = chip[k].ecc
<1>1. /\ drv \in DrvRecord(N, P) /\ drv.op = "erase" /\ drv.at = "D8h"
      /\ drv.idx \in 0 .. N - 1 /\ TroubleInv /\ chip \in [0 .. N - 1 -> ChipRecord(P)]
      /\ drv.pos \in Nat /\ drv.end \in Nat /\ drv.pos < drv.end /\ drv.end <= N * P /\ n = N
  BY SizesOf DEF BlockErase, At, TypeInv, DrvInv, DrvRecord
<1> DEFINE page == physPageOf(drv.pos)
           after == Started(chip[drv.idx], "erase", page)
<1>2. page \in 0 .. P - 1
  <2>1. drv.pos < N * P
    BY <1>1
  <2> QED
    BY <1>1, <2>1, PageParts DEF physPageOf
<1>3. PICK sent \in BOOLEAN : Send(drv.idx, sent, after) /\ Overlooked(sent)
  BY DEF BlockErase
<1> HIDE DEF page
<1>4. /\ after \in ChipRecord(P)
      /\ after.protected = chip[drv.idx].protected /\ after.ecc = chip[drv.idx].ecc
  <2>1. chip[drv.idx] \in ChipRecord(P)
    BY <1>1
  <2> QED
    BY <1>2, <2>1, ChipMessages
<1> HIDE DEF after
<1>5. /\ chip' \in [0 .. N - 1 -> ChipRecord(P)]
      /\ \A j \in 0 .. N - 1 : j # drv.idx => chip'[j] = chip[j]
      /\ chip'[drv.idx] = IF sent /\ Free(drv.idx) THEN after ELSE chip[drv.idx]
      /\ IF sent THEN trouble' = trouble ELSE trouble < MaxTrouble /\ trouble' = trouble + 1
  <2>1. chip \in [0 .. N - 1 -> ChipRecord(P)] /\ drv.idx \in 0 .. N - 1 /\ after \in ChipRecord(P)
    BY <1>1, <1>4
  <2> QED
    BY <1>3, <2>1, SendIs
<1>6. TroubleInv' /\ unseen <= unseen'
  BY <1>1, <1>3, <1>5, OverlookedIs
<1>7. "poll" \in Steps /\ Goto("poll")
  BY DEF Steps, BlockErase
<1>8. /\ drv' \in DrvRecord(N, P)
      /\ drv'.at = "poll" /\ drv'.op = drv.op /\ drv'.pos = drv.pos /\ drv'.end = drv.end
      /\ drv'.idx = drv.idx
  BY <1>7, GotoIs
<1>9. DrvInv(N, P)'
  BY <1>1, <1>8 DEF TypeInv, DrvInv
<1>10. \A k \in 0 .. N - 1 : chip'[k].protected = chip[k].protected /\ chip'[k].ecc = chip[k].ecc
  BY <1>4, <1>5
<1> QED
  BY <1>1, <1>5, <1>6, <1>8, <1>9, <1>10 DEF Stepped

LEMMA BlockEraseWaitIs ==
    ASSUME NEW N \in Nat \ {0}, NEW P \in Nat \ {0}, TypeInv(N, P), BlockEraseWait
    PROVE  /\ Stepped(N, P) /\ unseen <= unseen' /\ chip' = chip
           /\ unseen' = 0 => Free(drv.idx)
           /\ drv.op = "erase" /\ drv.at = "poll" /\ drv'.at \in {"06h", "idle"}
           /\ drv'.op = "erase" => drv.pos <= drv'.pos /\ drv'.end = drv.end
<1>1. /\ drv \in DrvRecord(N, P) /\ drv.op = "erase" /\ drv.at = "poll"
      /\ drv.idx \in 0 .. N - 1 /\ TroubleInv /\ chip \in [0 .. N - 1 -> ChipRecord(P)]
      /\ drv.pos \in Nat /\ drv.end \in Nat /\ drv.pos < drv.end /\ drv.end <= N * P
      /\ n = N /\ Chip = 0 .. N - 1
  BY SizesOf DEF BlockEraseWait, At, TypeInv, DrvInv, DrvRecord
<1>2. PICK result \in {"ready", "failed", "timeout"} :
          /\ WaitEnds(drv.idx, result)
          /\ \/ Answer(FALSE) \/ Answer(TRUE)
             \/ drv.idx + 1 \in Chip /\ drv' = [drv EXCEPT !.at = "06h", !.idx = @ + 1]
             \/ drv.pos + groupSize < drv.end /\ drv' = [drv EXCEPT !.at = "06h", !.idx = 0, !.pos = @ + groupSize]
  BY DEF BlockEraseWait
<1>3. TroubleInv' /\ unseen <= unseen' /\ (unseen' = 0 => Free(drv.idx)) /\ chip' = chip
  BY <1>1, <1>2, WaitIs DEF BlockEraseWait
<1>4. "06h" \in Steps
  BY DEF Steps
<1>5. ASSUME NEW ok \in BOOLEAN, Answer(ok)
      PROVE  DrvInv(N, P)' /\ drv'.op = "idle" /\ drv'.answer \in {"ok", "failed"} /\ drv'.at = "idle"
  BY <1>5, AnswerKeeps, AnswerIs
<1>6. CASE drv.idx + 1 \in Chip /\ drv' = [drv EXCEPT !.at = "06h", !.idx = @ + 1]
  <2> DEFINE next == drv.idx + 1
  <2>1. next \in 0 .. N - 1 /\ drv' = [drv EXCEPT !.at = "06h", !.idx = next]
    BY <1>1, <1>6
  <2> HIDE DEF next
  <2>2. /\ drv' \in DrvRecord(N, P) /\ drv'.op = drv.op /\ drv'.at = "06h"
        /\ drv'.pos = drv.pos /\ drv'.end = drv.end
    BY <1>1, <1>4, <2>1 DEF DrvRecord
  <2>3. DrvInv(N, P)'
    BY <1>1, <2>2 DEF TypeInv, DrvInv
  <2> QED
    BY <1>1, <1>3, <2>2, <2>3 DEF Stepped
<1>7. CASE drv.pos + groupSize < drv.end /\ drv' = [drv EXCEPT !.at = "06h", !.idx = 0, !.pos = @ + groupSize]
  <2> DEFINE next == drv.pos + groupSize
  <2>1. groupSize \in Nat
    BY <1>1, ChipGeometry DEF groupSize
  <2>2. /\ next \in Nat /\ next < drv.end /\ drv.pos <= next /\ 0 \in 0 .. N - 1
        /\ drv' = [drv EXCEPT !.at = "06h", !.idx = 0, !.pos = next]
    BY <1>1, <1>7, <2>1
  <2> HIDE DEF next
  <2>3. /\ drv' \in DrvRecord(N, P) /\ drv'.op = drv.op /\ drv'.at = "06h"
        /\ drv'.pos = next /\ drv'.end = drv.end
    BY <1>1, <1>4, <2>2 DEF DrvRecord
  <2>4. DrvInv(N, P)'
    BY <1>1, <2>2, <2>3 DEF TypeInv, DrvInv
  <2> QED
    BY <1>1, <1>3, <2>2, <2>3, <2>4 DEF Stepped
<1>8. CASE Answer(FALSE) \/ Answer(TRUE)
  BY <1>1, <1>3, <1>5, <1>8 DEF Stepped
<1> QED
  BY <1>2, <1>6, <1>7, <1>8

LEMMA DriverKeepsTypes ==
    ASSUME NEW N \in Nat \ {0}, NEW P \in Nat \ {0}, TypeInv(N, P), Driver
    PROVE  Stepped(N, P) /\ drv.op # "idle"
<1>1. CASE Open
  BY <1>1, OpenKeepsTypes DEF Open
<1>2. CASE ReadDone \/ PageRead \/ PageReadWait \/ ReadBuf
  BY <1>2, ReadKeepsTypes DEF ReadDone, PageRead, PageReadWait, ReadBuf, At
<1>3. CASE NextPage
  <2>1. /\ drv.op = "write" /\ UNCHANGED <<chip, trouble, unseen>>
        /\ chip \in [0 .. N - 1 -> ChipRecord(P)] /\ TroubleInv
    BY <1>3 DEF NextPage, At, TypeInv
  <2> QED
    BY <1>3, <2>1, NextPageIs DEF Stepped, TroubleInv
<1>4. CASE waitChip
  <2>1. drv.op = "write" /\ chip \in [0 .. N - 1 -> ChipRecord(P)]
    BY <1>4 DEF waitChip, At, TypeInv
  <2> QED
    BY <1>4, <2>1, WaitChipIs DEF Stepped
<1>5. CASE WriteEnable
  BY <1>5, WriteEnableIs
<1>6. CASE ProgramLoad \/ ProgramIssue
  BY <1>6, ProgramLoadIs, ProgramIssueIs
<1>7. CASE BlockErase \/ BlockEraseWait
  BY <1>7, BlockEraseIs, BlockEraseWaitIs
<1> QED
  BY <1>1, <1>2, <1>3, <1>4, <1>5, <1>6, <1>7 DEF Driver

LEMMA EraseCallIs ==
    ASSUME NEW N \in Nat \ {0}, NEW P \in Nat \ {0}, ROM_PAGES < N * P, TypeInv(N, P), NEW first, NEW length,
           first \in Nat, length \in Nat, first + length <= N * P, length > 0, CallErase(first, length)
    PROVE  /\ DrvInv(N, P)'
           /\ \/ drv'.op = "erase" /\ drv'.at = "06h" /\ drv'.pos = first /\ drv'.end = first + length
              \/ drv'.op = "idle" /\ drv'.answer = "failed"
<1>1. Chip = 0 .. N - 1 /\ N * P \in Nat /\ "06h" \in Steps /\ <<>> \in Contents(N, P)
  BY SizesOf DEF TypeInv, Steps, Contents
<1>2. CASE drv' = [IdleDrv EXCEPT !.answer = "failed"]
  <2>1. Answer(FALSE)
    BY <1>2 DEF Answer
  <2> QED
    BY <2>1, AnswerIs, AnswerKeeps
<1>3. CASE Call("erase", "06h", first, length, <<>>)
  <2>1. Begun(N, P, "erase", "06h", first, length, <<>>)
    BY <1>1, <1>3, CallIs
  <2> QED
    BY <1>1, <2>1 DEF Begun, DrvInv
<1> QED
  BY <1>2, <1>3 DEF CallErase

LEMMA CallKeeps ==
    ASSUME NEW N \in Nat \ {0}, NEW P \in Nat \ {0}, ROM_PAGES < N * P, TypeInv(N, P)
    PROVE  /\ Call("open", "9Fh", 0, 0, <<>>) => DrvInv(N, P)' /\ drv'.op = "open" /\ drv'.at = "9Fh" /\ drv'.idx = 0
           /\ CallRead(0, ROM_PAGES) => DrvInv(N, P)' /\ drv'.op = "read" /\ drv'.at = "13h"
           /\ CallWrite(0, ROM_PAGES, Image) => DrvInv(N, P)' /\ drv'.op = "write" /\ drv'.at = "slot"
           /\ \A p \in ROM_PAGES .. N * P - 1 :
                 CallWrite(p, 1, OnePage(p)) => /\ DrvInv(N, P)' /\ drv'.op = "write" /\ drv'.at = "slot"
                                                /\ drv'.pos = p /\ drv'.end = p + 1
                                                /\ drv'.pendingPage = [k \in 0 .. N - 1 |-> NoPage]
           /\ \A first, length \in Nat : first + length <= N * P /\ length > 0 /\ CallErase(first, length) =>
                 /\ DrvInv(N, P)'
                 /\ \/ drv'.op = "erase" /\ drv'.at = "06h"
                    \/ drv'.op = "idle" /\ drv'.answer = "failed"
<1>1. /\ Chip = 0 .. N - 1 /\ N * P \in Nat /\ ROM_PAGES \in Nat \ {0}
      /\ "9Fh" \in Steps /\ "13h" \in Steps /\ "slot" \in Steps /\ "06h" \in Steps
  BY SizesOf, RomFits DEF TypeInv, Steps
<1>2. <<>> \in Contents(N, P) /\ Image \in Contents(N, P) /\ \A p \in ROM_PAGES .. N * P - 1 : OnePage(p) \in Contents(N, P)
  BY DEF Contents
<1>3. ASSUME Call("open", "9Fh", 0, 0, <<>>)
      PROVE  DrvInv(N, P)' /\ drv'.op = "open" /\ drv'.at = "9Fh" /\ drv'.idx = 0
  <2>1. Begun(N, P, "open", "9Fh", 0, 0, <<>>)
    BY <1>1, <1>2, <1>3, CallIs
  <2> QED
    BY <1>1, <2>1 DEF Begun, DrvInv, OpenAt
<1>4. ASSUME CallRead(0, ROM_PAGES)
      PROVE  DrvInv(N, P)' /\ drv'.op = "read" /\ drv'.at = "13h"
  <2>1. Begun(N, P, "read", "13h", 0, ROM_PAGES, <<>>)
    <3>1. Call("read", "13h", 0, ROM_PAGES, <<>>)
      BY <1>4 DEF CallRead
    <3>2. ROM_PAGES \in Nat /\ 0 \in Nat /\ Chip = 0 .. N - 1 /\ "13h" \in Steps /\ <<>> \in Contents(N, P)
      BY <1>1, <1>2
    <3> QED
      BY <3>1, <3>2, CallIs
  <2> QED
    BY <1>1, <2>1 DEF Begun, DrvInv
<1>5. ASSUME NEW first, NEW length, NEW data \in Contents(N, P),
             first \in Nat /\ length \in Nat, first + length <= N * P,
             \A p \in first .. first + length - 1 : data[p] \in SUBSET Bit, CallWrite(first, length, data)
      PROVE  /\ DrvInv(N, P)' /\ drv'.op = "write" /\ drv'.at = "slot"
             /\ drv'.pos = first /\ drv'.end = first + length
             /\ drv'.pendingPage = [k \in 0 .. N - 1 |-> NoPage]
  <2>1. Begun(N, P, "write", "slot", first, length, data)
    <3>1. Call("write", "slot", first, length, data)
      BY <1>5 DEF CallWrite
    <3>2. Chip = 0 .. N - 1 /\ "slot" \in Steps /\ first \in Nat /\ length \in Nat /\ data \in Contents(N, P)
      BY <1>1, <1>5
    <3> QED
      BY <3>1, <3>2, CallIs
  <2>2. drv'.pendingPage \in [0 .. N - 1 -> -1 .. P - 1]
    BY <2>1 DEF Begun, NoPage
  <2> QED
    BY <1>1, <1>5, <2>1, <2>2 DEF Begun, DrvInv
<1>6. ASSUME CallWrite(0, ROM_PAGES, Image)
      PROVE  DrvInv(N, P)' /\ drv'.op = "write" /\ drv'.at = "slot"
  <2>1. 0 + ROM_PAGES <= N * P /\ \A p \in 0 .. 0 + ROM_PAGES - 1 : Image[p] \in SUBSET Bit
    BY <1>1, RomFits DEF RomPage
  <2> QED
    BY <1>1, <1>2, <1>5, <1>6, <2>1
<1>7. ASSUME NEW p \in ROM_PAGES .. N * P - 1, CallWrite(p, 1, OnePage(p))
      PROVE  /\ DrvInv(N, P)' /\ drv'.op = "write" /\ drv'.at = "slot"
             /\ drv'.pos = p /\ drv'.end = p + 1
             /\ drv'.pendingPage = [k \in 0 .. N - 1 |-> NoPage]
  <2>1. p \in Nat /\ p + 1 <= N * P /\ \A q \in p .. p + 1 - 1 : q = p
    BY <1>1
  <2>2. OnePage(p)[p] = Bit
    BY DEF OnePage
  <2> QED
    BY <1>2, <1>5, <1>7, <2>1, <2>2
<1>8. ASSUME NEW first, NEW length, first \in Nat /\ length \in Nat,
             first + length <= N * P, length > 0, CallErase(first, length)
      PROVE  /\ DrvInv(N, P)'
             /\ \/ drv'.op = "erase" /\ drv'.at = "06h"
                \/ drv'.op = "idle" /\ drv'.answer = "failed"
  BY <1>8, EraseCallIs
<1> QED
  BY <1>3, <1>4, <1>6, <1>7, <1>8

\* The program calls the driver for a page, or for all pages, behind the ROM region.
LEMMA ComputeIs ==
    ASSUME NEW N \in Nat \ {0}, NEW P \in Nat \ {0}, ROM_PAGES < N * P, TypeInv(N, P), Compute
    PROVE  /\ DrvInv(N, P)' /\ drv'.op \in {"idle", "write", "erase"}
           /\ drv'.op = "idle"  => drv'.answer = "failed"
           /\ drv'.op = "write" => ROM_PAGES <= drv'.pos /\ drv'.pendingPage = [k \in 0 .. N - 1 |-> NoPage]
           /\ drv'.op = "erase" => drv'.pos = ROM_PAGES
<1>1. /\ n = N /\ CHIP_PAGES = P /\ N * P \in Nat /\ ROM_PAGES \in Nat
      /\ N * P - ROM_PAGES \in Nat /\ N * P - ROM_PAGES > 0 /\ ROM_PAGES + (N * P - ROM_PAGES) <= N * P
  BY SizesOf, RomFits DEF TypeInv
<1>2. CASE \E p \in CalcPage : CallWrite(p, 1, [q \in {p} |-> Bit])
  <2>1. PICK p \in CalcPage : CallWrite(p, 1, [q \in {p} |-> Bit])
    BY <1>2
  <2>2. p \in ROM_PAGES .. N * P - 1 /\ CallWrite(p, 1, OnePage(p))
    BY <1>1, <2>1 DEF CalcPage, LogicalPage, RomPage, OnePage
  <2>3. DrvInv(N, P)' /\ drv'.op = "write" /\ drv'.pos = p /\ drv'.pendingPage = [k \in 0 .. N - 1 |-> NoPage]
    BY <2>2, CallKeeps
  <2> QED
    BY <2>2, <2>3
<1>3. CASE CallErase(ROM_PAGES, n * CHIP_PAGES - ROM_PAGES)
  <2>1. CallErase(ROM_PAGES, N * P - ROM_PAGES)
    BY <1>1, <1>3
  <2>2. /\ DrvInv(N, P)'
        /\ \/ drv'.op = "erase" /\ drv'.pos = ROM_PAGES
           \/ drv'.op = "idle" /\ drv'.answer = "failed"
    BY <1>1, <2>1, EraseCallIs
  <2> QED
    BY <2>2
<1> QED
  BY <1>2, <1>3 DEF Compute

LEMMA ChipStepIs ==
    ASSUME NEW N \in Nat \ {0}, NEW P \in Nat \ {0}, TypeInv(N, P), ChipStep
    PROVE  /\ TypeInv(N, P)' /\ UNCHANGED <<drv, unseen, host, answers>>
           /\ \A k \in 0 .. N - 1 : /\ chip'[k].busy \in {"no", chip[k].busy}
                                    /\ chip'[k].protected = chip[k].protected /\ chip'[k].ecc = chip[k].ecc
<1>1. chip \in [0 .. N - 1 -> ChipRecord(P)] /\ Chip = 0 .. N - 1 /\ TroubleInv /\ DrvInv(N, P) /\ HostInv
  BY SizesOf DEF TypeInv
<1>2. PICK k \in Chip : ChipDone(k) \/ ChipFails(k)
  BY DEF ChipStep
<1>3. chip[k] \in ChipRecord(P)
  BY <1>1
<1>4. PICK after \in ChipRecord(P) : /\ chip' = [chip EXCEPT ![k] = after] /\ after.busy = "no"
                                     /\ after.protected = chip[k].protected /\ after.ecc = chip[k].ecc
  <2>1. CASE ChipDone(k)
    BY <1>3, <2>1, CompletedIs DEF ChipDone, Free
  <2>2. CASE ChipFails(k)
    <3>1. PICK cells \in CutShort(chip[k]) : chip' = [chip EXCEPT ![k] = [Ended(@, cells) EXCEPT !.fail = TRUE]]
      BY <2>2 DEF ChipFails
    <3>2. cells \in [0 .. P - 1 -> SUBSET Bit]
      BY <1>3, CutIs
    <3> DEFINE ended == Ended(chip[k], cells)
    <3>3. /\ ended \in ChipRecord(P) /\ ended.busy = "no"
          /\ ended.protected = chip[k].protected /\ ended.ecc = chip[k].ecc
      BY <1>3, <3>2, EndedIs
    <3>4. chip' = [chip EXCEPT ![k] = [ended EXCEPT !.fail = TRUE]]
      BY <1>1, <3>1
    <3> HIDE DEF ended
    <3>5. /\ [ended EXCEPT !.fail = TRUE] \in ChipRecord(P) /\ [ended EXCEPT !.fail = TRUE].busy = "no"
          /\ [ended EXCEPT !.fail = TRUE].protected = chip[k].protected
          /\ [ended EXCEPT !.fail = TRUE].ecc = chip[k].ecc
      BY <3>3, FailedIs
    <3> QED
      BY <3>4, <3>5
  <2> QED
    BY <1>2, <2>1, <2>2
<1>5. chip' \in [0 .. N - 1 -> ChipRecord(P)]
      /\ \A j \in 0 .. N - 1 : /\ chip'[j].busy \in {"no", chip[j].busy}
                               /\ chip'[j].protected = chip[j].protected /\ chip'[j].ecc = chip[j].ecc
  BY <1>1, <1>4
<1>6. TroubleInv' /\ UNCHANGED <<drv, buffer, unseen, host, answers>>
  BY <1>1, <1>2, SpiGeometry DEF ChipStep, ChipDone, ChipFails, Trouble, TroubleInv
<1>7. DrvInv(N, P)' /\ HostInv'
  BY <1>1, <1>6 DEF DrvInv, HostInv, Answered
<1> QED
  BY <1>5, <1>6, <1>7 DEF TypeInv

LEMMA TwoAnswers == ASSUME NEW S, NEW a \in S, NEW b \in S PROVE Append(<<a>>, b) = <<a, b>>
<1>1. <<a>> \in Seq(S) /\ Len(<<a>>) = 1 /\ <<a, b>> \in Seq(S) /\ Len(<<a, b>>) = 2
  OBVIOUS
<1>2. Append(<<a>>, b) \in Seq(S) /\ Len(Append(<<a>>, b)) = 2
  BY <1>1
<1>3. Append(<<a>>, b)[1] = a /\ Append(<<a>>, b)[2] = b
  BY <1>1
<1>4. \A i \in 1 .. 2 : Append(<<a>>, b)[i] = <<a, b>>[i]
  <2>1. \A i \in 1 .. 2 : i = 1 \/ i = 2
    OBVIOUS
  <2> QED
    BY <1>3, <2>1
<1> QED
  BY <1>1, <1>2, <1>4, SeqEqual

\* Power fails: the chips lose what is not in their cells.
LEMMA PowerFailsIs ==
    ASSUME NEW N \in Nat \ {0}, NEW P \in Nat \ {0}, TypeInv(N, P), PowerFails
    PROVE  /\ chip' \in [0 .. N - 1 -> ChipRecord(P)] /\ \A k \in 0 .. N - 1 : chip'[k].busy = "no"
           /\ \A k \in 0 .. N - 1 : chip'[k].cells \in CutShort(chip[k])
<1>1. chip \in [0 .. N - 1 -> ChipRecord(P)] /\ Chip = 0 .. N - 1
  BY SizesOf DEF TypeInv
<1>2. PICK left : /\ \A k \in Chip : left[k] \in CutShort(chip[k])
                  /\ chip' = [k \in Chip |-> NewChip(left[k])]
  BY DEF PowerFails
<1>3. ASSUME NEW k \in 0 .. N - 1
      PROVE  chip'[k] \in ChipRecord(P) /\ chip'[k].busy = "no" /\ chip'[k].cells \in CutShort(chip[k])
  <2>1. chip[k] \in ChipRecord(P) /\ left[k] \in CutShort(chip[k]) /\ chip'[k] = NewChip(left[k])
    BY <1>1, <1>2, <1>3
  <2>2. left[k] \in [0 .. P - 1 -> SUBSET Bit]
    BY <2>1, CutIs
  <2> QED
    BY <2>1, <2>2, NewChipIs
<1> QED
  BY <1>1, <1>2, <1>3

LEMMA StepKeepsTypes ==
    ASSUME NEW N \in Nat \ {0}, NEW P \in Nat \ {0}, ROM_PAGES < N * P, TypeInv(N, P), [Next]_vars
    PROVE  TypeInv(N, P)'
<1>1. /\ chip \in [0 .. N - 1 -> ChipRecord(P)] /\ DrvInv(N, P) /\ TroubleInv /\ HostInv
      /\ Chip = 0 .. N - 1 /\ n = N /\ CHIP_PAGES = P /\ N * P \in Nat
      /\ drv.answer \in {"none", "ok", "failed"} /\ ROM_PAGES \in Nat /\ 0 \in Nat
  BY SizesOf, RomFits, SMTT(30) DEF TypeInv, DrvInv, DrvRecord
<1>2. CASE DriverStep
  <2>1. Stepped(N, P) /\ drv.op # "idle" /\ host # "down" /\ UNCHANGED <<host, answers>>
    BY <1>2, DriverKeepsTypes DEF DriverStep
  <2>2. HostInv'
    BY <1>1, <2>1 DEF HostInv, Answered, Stepped
  <2> QED
    BY <2>1, <2>2 DEF TypeInv, Stepped
<1>3. CASE ChipStep
  BY <1>3, ChipStepIs
<1>4. CASE Start
  <2>1. DrvInv(N, P)' /\ drv'.op = "idle"
    <3>1. drv' = IdleDrv
      BY <1>4 DEF Start
    <3>2. drv' \in DrvRecord(N, P) /\ drv'.op = "idle" /\ drv'.at = "idle" /\ drv'.pos = 0 /\ drv'.end = 0
      BY <3>1, IdleIs DEF IdleDrv
    <3> QED
      BY <1>1, <3>2 DEF DrvInv
  <2>2. TroubleInv' /\ UNCHANGED chip
    BY <1>1, <1>4 DEF Start, TroubleInv
  <2>3. HostInv'
    BY <1>4, <2>1 DEF Start, HostInv, Answered
  <2> QED
    BY <1>1, <2>1, <2>2, <2>3 DEF TypeInv
<1>5. ASSUME NEW step, Then(step) PROVE UNCHANGED chip /\ TroubleInv' /\ host' = step
  BY <1>1, <1>5 DEF Then, TroubleInv
<1>6. ASSUME Exit PROVE TypeInv(N, P)'
  <2>1. UNCHANGED <<chip, drv, answers>> /\ TroubleInv' /\ host' = "down"
    BY <1>5, <1>6 DEF Exit
  <2>2. DrvInv(N, P)'
    BY <1>1, <2>1 DEF DrvInv
  <2>3. HostInv'
    BY <1>1, <2>1 DEF HostInv, Answered
  <2> QED
    BY <1>1, <2>1, <2>2, <2>3 DEF TypeInv
<1>7. CASE OpenDevice
  <2>1. DrvInv(N, P)' /\ drv'.op = "open"
    BY <1>7, CallKeeps DEF OpenDevice
  <2>2. UNCHANGED <<chip, answers>> /\ TroubleInv' /\ host' = "open" /\ host = "started"
    BY <1>5, <1>7 DEF OpenDevice
  <2>3. HostInv'
    BY <1>1, <2>1, <2>2 DEF HostInv, Answered
  <2> QED
    BY <1>1, <2>1, <2>2, <2>3 DEF TypeInv
<1>8. CASE FirstRead
  <2>1. CASE Exit
    BY <1>6, <2>1
  <2>2. CASE CallRead(0, ROM_PAGES) /\ Then("first_read") /\ UNCHANGED answers
    <3>1. DrvInv(N, P)' /\ drv'.op = "read"
      BY <2>2, CallKeeps
    <3>2. UNCHANGED <<chip, answers>> /\ TroubleInv' /\ host' = "first_read" /\ host = "open"
      BY <1>5, <1>8, <2>2 DEF FirstRead
    <3>3. HostInv'
      BY <1>1, <3>1, <3>2 DEF HostInv, Answered
    <3> QED
      BY <1>1, <3>1, <3>2, <3>3 DEF TypeInv
  <2> QED
    BY <1>8, <2>1, <2>2 DEF FirstRead
<1>9. CASE EraseOrWrite
  <2>1. /\ host = "first_read" /\ drv.op = "idle" /\ drv.answer \in {"ok", "failed"}
        /\ answers' = <<drv.answer>> /\ answers' \in {<<a>> : a \in {"ok", "failed"}}
    BY <1>1, <1>9 DEF EraseOrWrite, Returned, HostInv, Answered
  <2>2. /\ DrvInv(N, P)' /\ drv'.op \in {"idle", "write", "erase"}
        /\ drv'.op = "idle" => drv'.answer = "failed"
    <3>1. 0 + ROM_PAGES <= N * P /\ ROM_PAGES > 0
      BY <1>1, RomFits
    <3>2. CASE CallErase(0, ROM_PAGES)
      BY <1>1, <3>1, <3>2, CallKeeps
    <3>3. CASE CallWrite(0, ROM_PAGES, Image)
      BY <3>3, CallKeeps
    <3> QED
      BY <1>9, <3>2, <3>3 DEF EraseOrWrite
  <2>3. UNCHANGED chip /\ TroubleInv' /\ host' \in {"rom_erase", "rom_write"}
    BY <1>5, <1>9 DEF EraseOrWrite
  <2>4. HostInv'
    BY <1>1, <2>1, <2>2, <2>3 DEF HostInv, Answered
  <2> QED
    BY <1>1, <2>2, <2>3, <2>4 DEF TypeInv
<1>10. CASE AfterErase
  <2>1. CASE Exit
    BY <1>6, <2>1
  <2>2. CASE CallWrite(0, ROM_PAGES, Image) /\ Then("rom_write") /\ UNCHANGED answers
    <3>1. DrvInv(N, P)' /\ drv'.op = "write"
      BY <2>2, CallKeeps
    <3>2. UNCHANGED <<chip, answers>> /\ TroubleInv' /\ host' = "rom_write" /\ host = "rom_erase"
      BY <1>5, <1>10, <2>2 DEF AfterErase
    <3>3. HostInv'
      BY <1>1, <3>1, <3>2 DEF HostInv, Answered
    <3> QED
      BY <1>1, <3>1, <3>2, <3>3 DEF TypeInv
  <2> QED
    BY <1>10, <2>1, <2>2 DEF AfterErase
<1>11. CASE ReadBack
  <2>1. DrvInv(N, P)' /\ drv'.op = "read"
    BY <1>11, CallKeeps DEF ReadBack
  <2>2. UNCHANGED <<chip, answers>> /\ TroubleInv' /\ host' = "read_back" /\ host = "rom_write"
    BY <1>5, <1>11 DEF ReadBack
  <2>3. HostInv'
    BY <1>1, <2>1, <2>2 DEF HostInv, Answered
  <2> QED
    BY <1>1, <2>1, <2>2, <2>3 DEF TypeInv
<1>12. CASE Verify
  <2>1. CASE Exit
    BY <1>6, <2>1
  <2>2. CASE /\ answers' = Append(answers, drv.answer)
             /\ CallErase(ROM_PAGES, n * CHIP_PAGES - ROM_PAGES) /\ Then("calc_erase")
    <3>1. host = "read_back" /\ drv.op = "idle" /\ drv.answer \in {"ok", "failed"}
      BY <1>1, <1>12 DEF Verify, Returned, HostInv, Answered
    <3>2. answers' \in {"ok", "failed"} \X {"ok", "failed"}
      <4>1. PICK a \in {"ok", "failed"} : answers = <<a>>
        BY <1>1, <3>1 DEF HostInv
      <4>2. answers' = Append(<<a>>, drv.answer)
        BY <2>2, <4>1
      <4>3. answers' = <<a, drv.answer>>
        BY <3>1, <4>2, TwoAnswers
      <4> QED
        BY <3>1, <4>3
    <3>3. CallErase(ROM_PAGES, N * P - ROM_PAGES) /\ N * P - ROM_PAGES \in Nat /\ N * P - ROM_PAGES > 0
          /\ ROM_PAGES + (N * P - ROM_PAGES) <= N * P
      BY <1>1, <2>2
    <3>4. /\ DrvInv(N, P)' /\ drv'.op \in {"idle", "erase"}
          /\ drv'.op = "idle" => drv'.answer = "failed"
      BY <1>1, <3>3, CallKeeps
    <3>5. UNCHANGED chip /\ TroubleInv' /\ host' = "calc_erase"
      BY <1>5, <2>2
    <3>6. HostInv'
      BY <1>1, <3>1, <3>2, <3>4, <3>5 DEF HostInv, Answered
    <3> QED
      BY <1>1, <3>4, <3>5, <3>6 DEF TypeInv
  <2> QED
    BY <1>12, <2>1, <2>2 DEF Verify
<1>13. CASE Run
  <2>1. UNCHANGED <<chip, drv, answers>> /\ TroubleInv' /\ host' = "running" /\ host = "calc_erase"
    BY <1>5, <1>13 DEF Run
  <2>2. DrvInv(N, P)'
    BY <1>1, <2>1 DEF DrvInv
  <2>3. HostInv'
    BY <1>1, <2>1 DEF HostInv, Answered
  <2> QED
    BY <1>1, <2>1, <2>2, <2>3 DEF TypeInv
<1>14. CASE Compute
  <2>1. DrvInv(N, P)' /\ drv'.op \in {"idle", "write", "erase"} /\ (drv'.op = "idle" => drv'.answer = "failed")
    BY <1>14, ComputeIs
  <2>2. UNCHANGED <<chip, answers>> /\ TroubleInv' /\ host' = "computing" /\ host \in {"running", "computing"}
    BY <1>5, <1>14 DEF Compute
  <2>3. HostInv'
    BY <1>1, <2>1, <2>2 DEF HostInv, Answered
  <2> QED
    BY <1>1, <2>1, <2>2, <2>3 DEF TypeInv
<1>15. CASE PowerFails
  <2>1. DrvInv(N, P)' /\ drv'.op = "idle"
    <3>1. drv' = IdleDrv
      BY <1>15 DEF PowerFails
    <3>2. drv' \in DrvRecord(N, P) /\ drv'.op = "idle" /\ drv'.at = "idle" /\ drv'.pos = 0 /\ drv'.end = 0
      BY <3>1, IdleIs DEF IdleDrv
    <3> QED
      BY <1>1, <3>2 DEF DrvInv
  <2>2. TroubleInv' /\ host' = "down" /\ answers' = <<>>
    BY <1>1, <1>15, SpiGeometry DEF PowerFails, TroubleInv, Trouble
  <2>3. HostInv'
    BY <2>1, <2>2 DEF HostInv, Answered
  <2> QED
    BY <1>15, <2>1, <2>2, <2>3, PowerFailsIs DEF TypeInv
<1>16. CASE Killed
  <2>1. UNCHANGED <<chip, drv, answers>> /\ TroubleInv' /\ host' = "down"
    BY <1>1, <1>16, SpiGeometry DEF Killed, TroubleInv, Trouble
  <2>2. DrvInv(N, P)'
    BY <1>1, <2>1 DEF DrvInv
  <2>3. HostInv'
    BY <1>1, <2>1 DEF HostInv, Answered
  <2> QED
    BY <1>1, <2>1, <2>2, <2>3 DEF TypeInv
<1>17. CASE UNCHANGED vars
  BY <1>17 DEF vars, spiVars, TypeInv, DrvInv, TroubleInv, HostInv, Answered
<1> QED
  BY <1>2, <1>3, <1>4, <1>7, <1>8, <1>9, <1>10, <1>11, <1>12, <1>13, <1>14, <1>15, <1>16, <1>17
     DEF Next, Constructor

LEMMA InitTypes ==
    ASSUME Init
    PROVE  \E N, P \in Nat \ {0} : /\ ROM_PAGES < N * P /\ TypeInv(N, P)
                                   /\ \A k \in 0 .. N - 1 : Free(k) /\ ~chip[k].fail
<1>1. PICK bundle \in Bundles, rom \in InitialRoms :
          chip = [k \in 0 .. bundle[1] - 1 |->
                    NewChip([p \in 0 .. bundle[2] - 1 |->
                               LET page == p * bundle[1] + k IN
                               IF page \in RomPage THEN rom[page] ELSE Bit])]
  BY DEF Init
<1> DEFINE N == bundle[1]   P == bundle[2]
           cells(k) == [p \in 0 .. P - 1 |-> LET page == p * N + k IN
                                             IF page \in RomPage THEN rom[page] ELSE Bit]
<1>2. N \in Nat \ {0} /\ P \in Nat \ {0} /\ ROM_PAGES < N * P
  BY SpiGeometry, RomFits
<1>3. \A k \in 0 .. N - 1 : cells(k) \in [0 .. P - 1 -> SUBSET Bit]
  BY RomFits
<1>4. chip = [k \in 0 .. N - 1 |-> NewChip(cells(k))]
  BY <1>1
<1> HIDE DEF N, P, cells
<1>5. chip \in [0 .. N - 1 -> ChipRecord(P)] /\ \A k \in 0 .. N - 1 : Free(k) /\ ~chip[k].fail
  BY <1>2, <1>3, <1>4, NewChipIs DEF Free
<1>6. DrvInv(N, P) /\ drv.op = "idle"
  <2>1. drv = IdleDrv
    BY DEF Init
  <2>2. drv \in DrvRecord(N, P) /\ drv.op = "idle" /\ drv.at = "idle" /\ drv.pos = 0 /\ drv.end = 0
    BY <1>2, <2>1, IdleIs DEF IdleDrv
  <2>3. N * P \in Nat
    BY <1>2
  <2> QED
    BY <2>2, <2>3 DEF DrvInv
<1>7. TroubleInv /\ HostInv
  BY <1>6, SpiGeometry DEF Init, TroubleInv, HostInv, Answered
<1> QED
  BY <1>2, <1>5, <1>6, <1>7 DEF TypeInv
-----------------------------------------------------------------------------
(* The driver waits for its chips *)

\* Which chips may be at work, given where the driver is.
FreeInv(N) ==
    /\ host = "started" \/ drv.op = "open" => \A k \in 0 .. N - 1 : Free(k)
    /\ unseen = 0 =>
         /\ drv.op = "idle"  => \A k \in 0 .. N - 1 : Free(k)
         /\ drv.op = "read"  => \A k \in 0 .. N - 1 : Free(k) \/ (drv.at = "poll" /\ k = drv.pos % N)
         /\ drv.op = "write" => \A k \in 0 .. N - 1 : Free(k) \/ drv.pendingPage[k] # NoPage
         /\ drv.op = "erase" => \A k \in 0 .. N - 1 : Free(k) \/ (drv.at = "poll" /\ k = drv.idx)

LEMMA ReadIs ==
    ASSUME NEW N \in Nat \ {0}, NEW P \in Nat \ {0}, TypeInv(N, P),
           ReadDone \/ PageRead \/ PageReadWait \/ ReadBuf
    PROVE  /\ unseen <= unseen' /\ drv.op = "read"
           /\ \A k \in 0 .. N - 1 : chip'[k].protected = chip[k].protected /\ chip'[k].ecc = chip[k].ecc
           /\ \/ /\ \A k \in 0 .. N - 1 : chip'[k] = chip[k]
                 /\ drv.at # "poll" \/ (unseen' = 0 => Free(drv.pos % N))
              \/ /\ \A k \in 0 .. N - 1 : k # drv.pos % N => chip'[k] = chip[k]
                 /\ drv.at = "13h" /\ drv'.op = "read" /\ drv'.at = "poll" /\ drv'.pos = drv.pos
<1>1. /\ drv \in DrvRecord(N, P) /\ chip \in [0 .. N - 1 -> ChipRecord(P)] /\ n = N
      /\ drv.pos \in Nat /\ drv.end \in Nat /\ drv.end <= N * P /\ TroubleInv
      /\ drv.op = "read" /\ (drv.at # "13h" => drv.pos < drv.end)
  BY SizesOf DEF TypeInv, DrvInv, DrvRecord, ReadDone, PageRead, PageReadWait, ReadBuf, At
<1>2. drv.pos < drv.end => chipIndexOf(drv.pos) \in 0 .. N - 1 /\ physPageOf(drv.pos) \in 0 .. P - 1
                           /\ chipIndexOf(drv.pos) = drv.pos % N
  <2>1. drv.pos < drv.end => drv.pos < N * P
    BY <1>1
  <2> QED
    BY <1>1, <2>1, PageParts DEF chipIndexOf, physPageOf
<1>3. CASE ReadDone
  BY <1>1, <1>3 DEF ReadDone, At, TroubleInv
<1>4. CASE PageRead
  <2>1. drv.at = "13h" /\ drv.pos < drv.end
    BY <1>4 DEF PageRead, At, MoreToRead
  <2> DEFINE k == chipIndexOf(drv.pos)
             after == Reading(chip[k], physPageOf(drv.pos))
  <2>2. PICK sent \in BOOLEAN : Send(k, sent, after) /\ Overlooked(sent)
    BY <1>4 DEF PageRead
  <2>3. k \in 0 .. N - 1 /\ k = drv.pos % N /\ chip[k] \in ChipRecord(P)
    BY <1>1, <1>2, <2>1
  <2>4. after \in ChipRecord(P) /\ after.protected = chip[k].protected /\ after.ecc = chip[k].ecc
    BY <1>2, <2>1, <2>3, ChipMessages
  <2> HIDE DEF k, after
  <2>5. /\ \A j \in 0 .. N - 1 : j # k => chip'[j] = chip[j]
        /\ chip'[k] = IF sent /\ Free(k) THEN after ELSE chip[k]
        /\ IF sent THEN trouble' = trouble ELSE trouble < MaxTrouble /\ trouble' = trouble + 1
    BY <1>1, <2>2, <2>3, <2>4, SendIs
  <2>6. unseen <= unseen'
    BY <1>1, <2>2, <2>5, OverlookedIs
  <2>7. "poll" \in Steps /\ Goto("poll")
    BY <1>4 DEF PageRead, Steps
  <2>8. drv'.op = "read" /\ drv'.at = "poll" /\ drv'.pos = drv.pos
    BY <1>1, <2>7, GotoIs
  <2> QED
    BY <1>1, <2>1, <2>3, <2>4, <2>5, <2>6, <2>8
<1>5. CASE PageReadWait
  <2>1. drv.at = "poll" /\ chip' = chip /\ \E result : WaitEnds(chipIndexOf(drv.pos), result)
    BY <1>5 DEF PageReadWait, At
  <2>2. unseen <= unseen' /\ (unseen' = 0 => Free(chipIndexOf(drv.pos)))
    BY <1>1, <2>1, WaitIs
  <2> QED
    BY <1>1, <1>2, <2>1, <2>2
<1>6. CASE ReadBuf
  <2>1. drv.at = "03h" /\ drv.pos < drv.end /\ unseen' = unseen
    BY <1>1, <1>6 DEF ReadBuf, At
  <2>2. PICK sent \in BOOLEAN : Send(chipIndexOf(drv.pos), sent, chip[chipIndexOf(drv.pos)])
    BY <1>6 DEF ReadBuf
  <2>3. chipIndexOf(drv.pos) \in 0 .. N - 1 /\ chip[chipIndexOf(drv.pos)] \in ChipRecord(P)
    BY <1>1, <1>2, <2>1
  <2>4. \A j \in 0 .. N - 1 : chip'[j] = chip[j]
    BY <1>1, <2>2, <2>3, SendIs
  <2> QED
    BY <1>1, <2>1, <2>4 DEF TroubleInv
<1> QED
  BY <1>3, <1>4, <1>5, <1>6

LEMMA DriverKeepsFree ==
    ASSUME NEW N \in Nat \ {0}, NEW P \in Nat \ {0}, TypeInv(N, P), FreeInv(N), Driver, UNCHANGED host
    PROVE  FreeInv(N)'
<1>1. /\ Stepped(N, P) /\ drv.op # "idle" /\ host # "started" /\ unseen \in Nat /\ unseen' \in Nat
      /\ drv.idx \in 0 .. N - 1
  <2>1. Stepped(N, P)
    BY DriverKeepsTypes
  <2>2. drv.op # "idle"
    BY DEF Driver, Open, ReadDone, PageRead, PageReadWait, ReadBuf, NextPage, waitChip, WriteEnable,
           ProgramLoad, ProgramIssue, BlockErase, BlockEraseWait, At
  <2>3. unseen \in Nat /\ unseen' \in Nat
    BY <2>1, SpiGeometry DEF TypeInv, Stepped, TroubleInv
  <2> QED
    BY <2>1, <2>2, <2>3 DEF TypeInv, HostInv, DrvInv, DrvRecord
<1>2. CASE Open
  <2>1. drv.op = "open" /\ \E sent \in BOOLEAN, garbage \in BOOLEAN : OpenSends(drv.idx, sent, garbage)
    BY <1>2, Zenon DEF Open, OpenSends
  <2>2. \A k \in 0 .. N - 1 : chip'[k].busy = "no"
    BY <2>1, OpenIs DEF FreeInv, Free
  <2> QED
    BY <2>2 DEF FreeInv, Free
<1>3. CASE ReadDone \/ PageRead \/ PageReadWait \/ ReadBuf
  <2>1. /\ drv.op = "read" /\ unseen <= unseen'
        /\ \/ /\ \A k \in 0 .. N - 1 : chip'[k] = chip[k]
              /\ drv.at # "poll" \/ (unseen' = 0 => Free(drv.pos % N))
           \/ /\ \A k \in 0 .. N - 1 : k # drv.pos % N => chip'[k] = chip[k]
              /\ drv.at = "13h" /\ drv'.op = "read" /\ drv'.at = "poll" /\ drv'.pos = drv.pos
    BY <1>3, ReadIs
  <2>2. drv'.op \in {"idle", "read"}
    BY <1>1, <2>1 DEF Stepped
  <2> QED
    BY <1>1, <2>1, <2>2 DEF FreeInv, Free
<1>4. CASE NextPage
  <2>1. drv.op = "write" /\ UNCHANGED <<chip, unseen>>
    BY <1>4 DEF NextPage, At
  <2>2. \/ drv'.op = "idle" /\ Pending = {}
        \/ drv'.op = "write" /\ drv'.pendingPage = drv.pendingPage
    BY <1>4, NextPageIs
  <2>3. Chip = 0 .. N - 1
    BY SizesOf DEF TypeInv
  <2> QED
    BY <1>1, <2>1, <2>2, <2>3 DEF FreeInv, Free, Pending
<1>5. CASE waitChip
  <2>1. drv.op = "write"
    BY <1>5 DEF waitChip, At
  <2> QED
    BY <1>1, <1>5, <2>1, WaitChipIs DEF FreeInv, Free
<1>6. CASE WriteEnable \/ ProgramLoad
  <2>1. /\ drv.op \in {"write", "erase"} /\ drv'.op = drv.op /\ drv'.pendingPage = drv.pendingPage
        /\ drv.at \in {"06h", "02h"} /\ unseen <= unseen'
        /\ \A k \in 0 .. N - 1 : chip'[k].busy = chip[k].busy
    BY <1>1, <1>6, WriteEnableIs, ProgramLoadIs
  <2> QED
    BY <1>1, <2>1 DEF FreeInv, Free
<1>7. CASE ProgramIssue
  <2>1. /\ drv.op = "write" /\ drv'.op = "write" /\ unseen' = unseen
        /\ \A k \in 0 .. N - 1 : k # drv.idx => drv'.pendingPage[k] = drv.pendingPage[k] /\ chip'[k] = chip[k]
        /\ \/ drv'.pendingPage[drv.idx] # NoPage
           \/ drv'.pendingPage[drv.idx] = drv.pendingPage[drv.idx] /\ chip'[drv.idx] = chip[drv.idx]
    BY <1>7, ProgramIssueIs DEF NoPage
  <2> QED
    BY <1>1, <2>1 DEF FreeInv, Free
<1>8. CASE BlockErase
  BY <1>1, <1>8, BlockEraseIs DEF FreeInv, Free
<1>9. CASE BlockEraseWait
  <2>1. /\ drv.op = "erase" /\ unseen <= unseen' /\ chip' = chip /\ (unseen' = 0 => Free(drv.idx))
        /\ drv'.op \in {"idle", "erase"}
    BY <1>1, <1>9, BlockEraseWaitIs DEF Stepped
  <2> QED
    BY <1>1, <2>1 DEF FreeInv, Free
<1> QED
  BY <1>2, <1>3, <1>4, <1>5, <1>6, <1>7, <1>8, <1>9 DEF Driver

LEMMA StepKeepsFree ==
    ASSUME NEW N \in Nat \ {0}, NEW P \in Nat \ {0}, ROM_PAGES < N * P, TypeInv(N, P), FreeInv(N), [Next]_vars
    PROVE  FreeInv(N)'
<1>1. Chip = 0 .. N - 1 /\ unseen \in Nat
  BY SizesOf DEF TypeInv, TroubleInv
<1>2. CASE DriverStep
  BY <1>2, DriverKeepsFree DEF DriverStep
<1>3. CASE ChipStep
  <2>1. /\ UNCHANGED <<drv, unseen, host>>
        /\ \A k \in 0 .. N - 1 : chip'[k].busy \in {"no", chip[k].busy}
    BY <1>3, ChipStepIs
  <2> QED
    BY <2>1 DEF FreeInv, Free
<1>4. CASE Start
  BY <1>1, <1>4 DEF Start, FreeInv, Free
<1>5. CASE Constructor \/ Compute
  <2>1. UNCHANGED <<chip, unseen>> /\ host # "down" /\ drv.op = "idle" /\ host' # "started"
    BY <1>5 DEF Constructor, OpenDevice, FirstRead, EraseOrWrite, AfterErase, ReadBack, Verify, Run, Compute,
                Then, Exit, Returned, TypeInv, HostInv
  <2>2. CASE host = "started"
    BY <2>1, <2>2 DEF FreeInv, Free
  <2>3. CASE host # "started"
    <3>1. drv'.op # "open"
      <4>1. \A first, length \in Nat : first + length <= N * P /\ length > 0 /\ CallErase(first, length) =>
               drv'.op # "open"
        BY CallKeeps
      <4>2. ROM_PAGES \in Nat /\ ROM_PAGES > 0 /\ N * P \in Nat /\ n = N /\ CHIP_PAGES = P
        BY RomFits, SizesOf DEF TypeInv
      <4>3. 0 \in Nat /\ 0 + ROM_PAGES <= N * P /\ N * P - ROM_PAGES \in Nat /\ N * P - ROM_PAGES > 0
            /\ ROM_PAGES + (N * P - ROM_PAGES) <= N * P
        BY <4>2
      <4>4. CallErase(0, ROM_PAGES) \/ CallErase(ROM_PAGES, n * CHIP_PAGES - ROM_PAGES) => drv'.op # "open"
        BY <4>1, <4>2, <4>3
      <4>5. CallRead(0, ROM_PAGES) \/ CallWrite(0, ROM_PAGES, Image) => drv'.op # "open"
        BY CallKeeps
      <4>6. ASSUME Compute PROVE drv'.op # "open"
        BY <4>6, ComputeIs
      <4> QED
        BY <1>5, <2>1, <2>3, <4>4, <4>5, <4>6
           DEF Constructor, OpenDevice, FirstRead, EraseOrWrite, AfterErase, ReadBack, Verify, Run, Exit
    <3> QED
      BY <1>1, <2>1, <3>1 DEF FreeInv, Free
  <2> QED
    BY <2>2, <2>3
<1>6. CASE PowerFails
  <2>1. \A k \in 0 .. N - 1 : chip'[k].busy = "no"
    BY <1>6, PowerFailsIs
  <2> QED
    BY <2>1 DEF FreeInv, Free
<1>7. CASE Killed
  BY <1>7 DEF Killed, FreeInv, Free
<1>8. CASE UNCHANGED vars
  BY <1>8 DEF vars, spiVars, FreeInv, Free
<1> QED
  BY <1>2, <1>3, <1>4, <1>5, <1>6, <1>7, <1>8 DEF Next

-----------------------------------------------------------------------------
(* The chips are unlocked before they are used *)

Unlocked(k) == ~chip[k].protected /\ ~chip[k].ecc

\* What open() knows of its chips at each of its steps, with at most one message
\* lost without a trace; afterwards nothing but a power failure locks a chip.
UnlockInv(N) ==
    unseen <= 1 =>
      /\ drv.op = "open" =>
           /\ \A j \in 0 .. N - 1 : j < drv.idx => Unlocked(j)
           /\ drv.at = "A0_check" /\ unseen = 0 => ~chip[drv.idx].protected
           /\ drv.at \in {"B0_read", "B0_write", "B0_check"} => ~chip[drv.idx].protected
           /\ drv.at = "B0_check" /\ unseen = 0 => ~chip[drv.idx].ecc
      /\ drv.op \in {"read", "write", "erase"} => \A k \in 0 .. N - 1 : Unlocked(k)
      /\ Answered /\ ~(host = "open" /\ drv.answer = "failed") => \A k \in 0 .. N - 1 : Unlocked(k)

LEMMA WorkKeepsLocks ==
    ASSUME NEW N \in Nat \ {0}, NEW P \in Nat \ {0}, TypeInv(N, P), Driver, drv.op # "open"
    PROVE  /\ unseen <= unseen'
           /\ \A k \in 0 .. N - 1 : chip'[k].protected = chip[k].protected /\ chip'[k].ecc = chip[k].ecc
<1>1. unseen \in Nat
  BY DEF TypeInv, TroubleInv
<1>2. CASE ReadDone \/ PageRead \/ PageReadWait \/ ReadBuf
  BY <1>2, ReadIs
<1>3. CASE NextPage
  BY <1>1, <1>3 DEF NextPage
<1>4. CASE waitChip
  BY <1>4, WaitChipIs
<1>5. CASE WriteEnable
  BY <1>5, WriteEnableIs
<1>6. CASE ProgramLoad
  BY <1>1, <1>6, ProgramLoadIs
<1>7. CASE ProgramIssue
  BY <1>1, <1>7, ProgramIssueIs
<1>8. CASE BlockErase
  BY <1>8, BlockEraseIs
<1>9. CASE BlockEraseWait
  BY <1>9, BlockEraseWaitIs
<1> QED
  BY <1>2, <1>3, <1>4, <1>5, <1>6, <1>7, <1>8, <1>9 DEF Driver, Open

LEMMA OpenUnlocks ==
    ASSUME NEW N \in Nat \ {0}, NEW P \in Nat \ {0}, TypeInv(N, P), FreeInv(N), UnlockInv(N),
           Open, host = "open", UNCHANGED host
    PROVE  UnlockInv(N)'
<1>1. drv.op = "open" /\ \E sent \in BOOLEAN, garbage \in BOOLEAN : OpenSends(drv.idx, sent, garbage)
  BY Zenon DEF Open, OpenSends
<1>2. PICK sent \in BOOLEAN, garbage \in BOOLEAN : OpenSends(drv.idx, sent, garbage)
  BY <1>1
<1> DEFINE k == drv.idx
           fine == OpenStepFine(k, sent, garbage)
<1>3. /\ k \in 0 .. N - 1 /\ drv.at \in OpenAt /\ unseen \in Nat /\ unseen' \in Nat
      /\ Free(k)
  <2>1. TroubleInv'
    BY <1>1, <1>2, OpenIs
  <2>2. k \in 0 .. N - 1 /\ drv.at \in OpenAt
    BY <1>1 DEF TypeInv, DrvInv, DrvRecord
  <2>3. Free(k)
    BY <1>1, <2>2 DEF FreeInv
  <2>4. unseen \in Nat /\ unseen' \in Nat
    BY <2>1, SpiGeometry DEF TypeInv, TroubleInv
  <2> QED
    BY <2>2, <2>3, <2>4
<1>4. /\ unseen <= unseen' /\ (unseen' = unseen => sent \/ drv.at = "9Fh")
      /\ \A j \in 0 .. N - 1 : j # k => chip'[j] = chip[j]
      /\ sent /\ drv.at = "A0_write" => ~chip'[k].protected
      /\ sent /\ drv.at = "B0_write" => ~chip'[k].ecc
      /\ ~chip[k].protected => ~chip'[k].protected
      /\ ~chip[k].ecc => ~chip'[k].ecc
  BY <1>1, <1>2, <1>3, OpenIs
<1>5. /\ fine /\ sent /\ drv.at = "A0_check" => ~chip[k].protected
      /\ fine /\ sent /\ drv.at = "B0_check" => ~chip[k].ecc
  BY DEF OpenStepFine
<1>6. \/ drv'.op = "idle" /\ drv'.answer = "failed"
      \/ fine /\ drv.at # "B0_check" /\ drv'.op = "open" /\ drv'.at = NextOpenStep(drv.at) /\ drv'.idx = k
      \/ fine /\ drv.at = "B0_check" /\ drv'.op = "open" /\ drv'.at = "9Fh" /\ drv'.idx = k + 1
      \/ fine /\ drv.at = "B0_check" /\ drv'.op = "idle" /\ drv'.answer = "ok" /\ k = N - 1
  BY <1>1, <1>2, OpenMoves
<1> HIDE DEF k, fine
<1>7. SUFFICES ASSUME unseen' <= 1 PROVE UnlockInv(N)'
  BY DEF UnlockInv
<1>8. /\ unseen <= 1
      /\ \A j \in 0 .. N - 1 : j < k => Unlocked(j)
      /\ drv.at = "A0_check" /\ unseen = 0 => ~chip[k].protected
      /\ drv.at \in {"B0_read", "B0_write", "B0_check"} => ~chip[k].protected
      /\ drv.at = "B0_check" /\ unseen = 0 => ~chip[k].ecc
  BY <1>1, <1>3, <1>4, <1>7 DEF UnlockInv, k
<1>9. \A j \in 0 .. N - 1 : j < k => Unlocked(j)'
  BY <1>3, <1>4, <1>8 DEF Unlocked
<1>10. sent \/ drv.at = "9Fh" \/ (unseen = 0 /\ unseen' = 1)
  BY <1>3, <1>4, <1>7
<1>11. fine /\ drv.at = "B0_check" => ~chip'[k].protected /\ ~chip'[k].ecc
  BY <1>4, <1>5, <1>8, <1>10
<1>12. CASE drv'.op = "idle" /\ drv'.answer = "failed"
  BY <1>12 DEF UnlockInv, Answered
<1>13. CASE /\ fine /\ drv.at # "B0_check" /\ drv'.op = "open"
            /\ drv'.at = NextOpenStep(drv.at) /\ drv'.idx = k
  <2>1. \/ drv.at = "9Fh" /\ drv'.at = "A0_write"
        \/ drv.at = "A0_write" /\ drv'.at = "A0_check"
        \/ drv.at = "A0_check" /\ drv'.at = "B0_read"
        \/ drv.at = "B0_read" /\ drv'.at = "B0_write"
        \/ drv.at = "B0_write" /\ drv'.at = "B0_check"
    BY <1>3, <1>13, OpenOrder DEF OpenAt
  <2>2. drv'.at = "A0_check" /\ unseen' = 0 => ~chip'[k].protected
    BY <1>3, <1>4, <1>10, <2>1
  <2>3. drv'.at \in {"B0_read", "B0_write", "B0_check"} => ~chip'[k].protected
    BY <1>4, <1>5, <1>8, <1>10, <1>13, <2>1
  <2>4. drv'.at = "B0_check" /\ unseen' = 0 => ~chip'[k].ecc
    BY <1>3, <1>4, <1>10, <2>1
  <2> QED
    BY <1>9, <1>13, <2>2, <2>3, <2>4 DEF UnlockInv, Answered
<1>14. CASE fine /\ drv.at = "B0_check" /\ drv'.op = "open" /\ drv'.at = "9Fh" /\ drv'.idx = k + 1
  <2>1. \A j \in 0 .. N - 1 : j < drv'.idx => Unlocked(j)'
    BY <1>3, <1>9, <1>11, <1>14 DEF Unlocked
  <2> QED
    BY <1>14, <2>1 DEF UnlockInv, Answered
<1>15. CASE fine /\ drv.at = "B0_check" /\ drv'.op = "idle" /\ drv'.answer = "ok" /\ k = N - 1
  <2>1. \A j \in 0 .. N - 1 : Unlocked(j)'
    BY <1>3, <1>9, <1>11, <1>15 DEF Unlocked
  <2> QED
    BY <1>15, <2>1 DEF UnlockInv, Answered
<1> QED
  BY <1>6, <1>12, <1>13, <1>14, <1>15

LEMMA StepKeepsUnlocked ==
    ASSUME NEW N \in Nat \ {0}, NEW P \in Nat \ {0}, TypeInv(N, P), FreeInv(N),
           UnlockInv(N), [Next]_vars
    PROVE  UnlockInv(N)'
<1>1. unseen \in Nat /\ HostInv /\ drv.op \in {"idle", "open", "read", "write", "erase"}
  BY DEF TypeInv, TroubleInv, DrvInv, DrvRecord
<1>2. CASE DriverStep /\ drv.op = "open"
  <2>1. Open /\ host = "open" /\ UNCHANGED host
    BY <1>1, <1>2 DEF DriverStep, Driver, Open, ReadDone, PageRead, PageReadWait, ReadBuf, NextPage, waitChip,
                      WriteEnable, ProgramLoad, ProgramIssue, BlockErase, BlockEraseWait, At, HostInv
  <2> QED
    BY <2>1, OpenUnlocks
<1>3. CASE DriverStep /\ drv.op # "open"
  <2>1. /\ unseen <= unseen' /\ UNCHANGED host
        /\ \A k \in 0 .. N - 1 : chip'[k].protected = chip[k].protected /\ chip'[k].ecc = chip[k].ecc
    BY <1>3, WorkKeepsLocks DEF DriverStep
  <2>2. Stepped(N, P) /\ drv.op # "idle"
    BY <1>3, DriverKeepsTypes DEF DriverStep
  <2>3. drv.op \in {"read", "write", "erase"} /\ drv'.op # "open" /\ unseen' \in Nat
    <3>1. unseen' \in Nat
      BY <2>2, SpiGeometry DEF Stepped, TroubleInv
    <3> QED
      BY <1>1, <1>3, <2>2, <3>1 DEF Stepped
  <2>4. unseen' <= 1 => \A k \in 0 .. N - 1 : Unlocked(k)'
    BY <1>1, <2>1, <2>3 DEF UnlockInv, Unlocked
  <2> QED
    BY <2>3, <2>4 DEF UnlockInv
<1>4. CASE ChipStep
  <2>1. /\ UNCHANGED <<drv, unseen, host>>
        /\ \A k \in 0 .. N - 1 : chip'[k].protected = chip[k].protected /\ chip'[k].ecc = chip[k].ecc
    BY <1>4, ChipStepIs
  <2>2. drv.idx \in 0 .. N - 1
    BY DEF TypeInv, DrvInv, DrvRecord
  <2> QED
    BY <2>1, <2>2 DEF UnlockInv, Unlocked, Answered
<1>5. CASE Start
  <2>1. host' = "started" /\ drv'.op = "idle"
    BY <1>5 DEF Start, IdleDrv
  <2> QED
    BY <2>1 DEF UnlockInv, Answered
<1>6. CASE OpenDevice
  <2>1. drv'.op = "open" /\ drv'.at = "9Fh" /\ drv'.idx = 0
    BY <1>6 DEF OpenDevice, Call, IdleDrv
  <2> QED
    BY <2>1 DEF UnlockInv, Answered
<1>7. CASE FirstRead /\ drv.answer = "failed"
  <2>1. drv'.op = "idle" /\ host' = "down"
    BY <1>7 DEF FirstRead, Exit, Then, Returned
  <2> QED
    BY <2>1 DEF UnlockInv, Answered
<1>8. CASE \/ FirstRead /\ drv.answer # "failed"
           \/ EraseOrWrite \/ AfterErase \/ ReadBack \/ Verify \/ Run \/ Compute
  <2>1. UNCHANGED <<chip, unseen>> /\ Answered /\ ~(host = "open" /\ drv.answer = "failed")
    BY <1>8 DEF FirstRead, EraseOrWrite, AfterErase, ReadBack, Verify, Run, Compute, Then, Exit, Returned, Answered
  <2>2. drv'.op # "open"
    BY <1>8 DEF FirstRead, EraseOrWrite, AfterErase, ReadBack, Verify, Run, Compute, Then, Exit, Returned,
                CallRead, CallWrite, CallErase, Call, IdleDrv
  <2>3. unseen' <= 1 => \A k \in 0 .. N - 1 : Unlocked(k)'
    BY <2>1 DEF UnlockInv, Unlocked
  <2> QED
    BY <2>2, <2>3 DEF UnlockInv
<1>9. CASE PowerFails
  <2>1. drv'.op = "idle" /\ host' = "down"
    BY <1>9 DEF PowerFails, IdleDrv
  <2> QED
    BY <2>1 DEF UnlockInv, Answered
<1>10. CASE Killed
  BY <1>10 DEF Killed, UnlockInv, Unlocked, Answered
<1>11. CASE UNCHANGED vars
  BY <1>11 DEF vars, spiVars, UnlockInv, Unlocked, Answered
<1> QED
  BY <1>2, <1>3, <1>4, <1>5, <1>6, <1>7, <1>8, <1>9, <1>10, <1>11 DEF Next, Constructor
-----------------------------------------------------------------------------
(* Where the operations are *)

\* An erase is that of the ROM region or one behind it, each under the call that
\* asked for it; a CPU that runs writes behind the region only.
Runs == host \in {"running", "computing"}
PlaceInv(N) ==
    /\ drv.op = "erase" => \/ drv.end = ROM_PAGES /\ host \in {"rom_erase", "down"}
                           \/ ROM_PAGES <= drv.pos /\ host \in {"calc_erase", "computing", "down"}
    /\ drv.op = "write" /\ Runs =>
         /\ ROM_PAGES <= drv.pos
         /\ \A k \in 0 .. N - 1 : drv.pendingPage[k] # NoPage => ROM_PAGES <= (drv.pendingPage[k] * N) + k

\* One step of the driver: an operation goes upwards, and waits for pages it has
\* been at.
LEMMA DriverMoves ==
    ASSUME NEW N \in Nat \ {0}, NEW P \in Nat \ {0}, TypeInv(N, P), Driver, drv.op \in {"write", "erase"}
    PROVE  \/ drv'.op = "idle"
           \/ /\ drv'.op = drv.op /\ drv'.end = drv.end
              /\ drv.pos <= drv'.pos
              /\ drv.op = "write" => \A k \in 0 .. N - 1 : drv'.pendingPage[k] # NoPage =>
                    drv'.pendingPage[k] = drv.pendingPage[k] \/ (drv'.pendingPage[k] * N) + k = drv.pos
<1>1. /\ drv \in DrvRecord(N, P) /\ drv.pos \in Nat /\ drv.end \in Nat /\ drv.end <= N * P /\ n = N /\ N * P \in Nat
      /\ drv.idx \in 0 .. N - 1 /\ groupSize = BLOCK_PAGES * N /\ BLOCK_PAGES \in Nat \ {0}
  BY SizesOf, ChipGeometry DEF TypeInv, DrvInv, DrvRecord, groupSize
<1>2. drv.op = "write" => drv.pendingPage \in [0 .. N - 1 -> -1 .. P - 1]
  BY DEF TypeInv, DrvInv
<1>3. CASE NextPage
  <2>1. \/ drv'.op = "idle"
        \/ drv'.op = "write" /\ drv'.pendingPage = drv.pendingPage /\ drv'.pos = drv.pos /\ drv'.end = drv.end
    BY <1>3, NextPageIs
  <2>2. drv.op = "write"
    BY <1>3 DEF NextPage, At
  <2> QED
    BY <1>1, <2>1, <2>2
<1>4. CASE waitChip
  <2>1. PICK result \in {"ready", "failed", "timeout"} :
           drv' = [drv EXCEPT !.at = "slot", !.ok = @ /\ result = "ready", !.pendingPage[drv.idx] = NoPage]
    BY <1>4 DEF waitChip
  <2>2. drv.op = "write"
    BY <1>4 DEF waitChip, At
  <2>3. drv'.op = drv.op /\ drv'.end = drv.end /\ drv'.pos = drv.pos
        /\ drv'.pendingPage = [drv.pendingPage EXCEPT ![drv.idx] = NoPage]
    BY <1>1, <2>1 DEF DrvRecord
  <2> QED
    BY <1>1, <1>2, <2>2, <2>3
<1>5. CASE WriteEnable
  BY <1>1, <1>5 DEF WriteEnable, Goto, DrvRecord
<1>6. CASE ProgramLoad
  BY <1>1, <1>6 DEF ProgramLoad, DrvRecord
<1>7. CASE ProgramIssue
  <2>1. drv.op = "write" /\ drv.at = "10h"
    BY <1>7 DEF ProgramIssue, At
  <2>2. drv.pos < drv.end /\ drv.idx = drv.pos % N
    BY <2>1 DEF TypeInv, DrvInv
  <2> DEFINE page == physPageOf(drv.pos)
  <2>3. page \in 0 .. P - 1 /\ (page * N) + drv.idx = drv.pos
    <3>1. drv.pos < N * P
      BY <1>1, <2>2
    <3>2. drv.pos \div N \in 0 .. P - 1 /\ drv.pos = ((drv.pos \div N) * N) + (drv.pos % N)
      BY <1>1, <3>1, PageParts
    <3> QED
      BY <1>1, <2>2, <3>2 DEF physPageOf
  <2>4. \/ drv' = [drv EXCEPT !.at = "slot", !.pos = @ + 1, !.pendingPage[drv.idx] = page]
        \/ drv' = [drv EXCEPT !.at = "slot", !.ok = FALSE]
    BY <1>7 DEF ProgramIssue
  <2> HIDE DEF page
  <2>5. /\ drv'.op = drv.op /\ drv'.end = drv.end
        /\ \/ drv'.pos = drv.pos + 1 /\ drv'.pendingPage = [drv.pendingPage EXCEPT ![drv.idx] = page]
           \/ drv'.pos = drv.pos /\ drv'.pendingPage = drv.pendingPage
    BY <1>1, <2>4 DEF DrvRecord
  <2>6. ASSUME NEW k \in 0 .. N - 1, drv'.pendingPage[k] # NoPage
        PROVE  drv'.pendingPage[k] = drv.pendingPage[k] \/ (drv'.pendingPage[k] * N) + k = drv.pos
    BY <1>1, <1>2, <2>1, <2>3, <2>5
  <2> QED
    BY <1>1, <2>5, <2>6
<1>8. CASE BlockErase
  BY <1>1, <1>8 DEF BlockErase, Goto, DrvRecord, At
<1>9. CASE BlockEraseWait
  <2>1. Stepped(N, P) /\ (drv'.op = "erase" => drv.pos <= drv'.pos /\ drv'.end = drv.end) /\ drv.op = "erase"
    BY <1>9, BlockEraseWaitIs
  <2> QED
    BY <2>1 DEF Stepped
<1> QED
  BY <1>3, <1>4, <1>5, <1>6, <1>7, <1>8, <1>9 DEF Driver, Open, ReadDone, PageRead, PageReadWait, ReadBuf, At

LEMMA StepKeepsPlace ==
    ASSUME NEW N \in Nat \ {0}, NEW P \in Nat \ {0}, ROM_PAGES < N * P, TypeInv(N, P), TypeInv(N, P)',
           PlaceInv(N), [Next]_vars
    PROVE  PlaceInv(N)'
<1>1. /\ drv.op \in {"idle", "open", "read", "write", "erase"} /\ drv.pos \in Nat /\ drv'.pos \in Nat
      /\ ROM_PAGES \in Nat /\ ROM_PAGES > 0 /\ n = N /\ CHIP_PAGES = P /\ N * P \in Nat
  <2>1. drv \in DrvRecord(N, P) /\ drv' \in DrvRecord(N, P) /\ chip \in [0 .. N - 1 -> ChipRecord(P)]
    BY DEF TypeInv, DrvInv
  <2>2. drv.op \in {"idle", "open", "read", "write", "erase"} /\ drv.pos \in Nat
    BY <2>1 DEF DrvRecord
  <2>3. drv'.pos \in Nat
    BY <2>1 DEF DrvRecord
  <2>4. n = N /\ CHIP_PAGES = P
    BY <2>1, SizesOf
  <2>5. ROM_PAGES \in Nat /\ ROM_PAGES > 0 /\ N * P \in Nat
    BY RomFits
  <2> QED
    BY <2>2, <2>3, <2>4, <2>5
<1>2. CASE DriverStep
  <2>1. Driver /\ host' = host
    BY <1>2 DEF DriverStep
  <2>2. CASE drv.op \in {"write", "erase"}
    BY <1>1, <2>1, <2>2, DriverMoves DEF PlaceInv, Runs
  <2>3. CASE drv.op \notin {"write", "erase"}
    <3>1. drv'.op \in {drv.op, "idle"}
      BY <2>1, DriverKeepsTypes DEF Stepped
    <3> QED
      BY <2>3, <3>1 DEF PlaceInv
  <2> QED
    BY <2>2, <2>3
<1>3. CASE ChipStep
  BY <1>3, ChipStepIs DEF PlaceInv, Runs
<1>4. CASE Start \/ PowerFails
  BY <1>4 DEF Start, PowerFails, IdleDrv, PlaceInv
<1>5. CASE OpenDevice \/ FirstRead \/ ReadBack \/ Run
  BY <1>5 DEF OpenDevice, FirstRead, ReadBack, Run, Exit, Then, Returned, CallRead, Call, IdleDrv, PlaceInv, Runs
<1>6. CASE EraseOrWrite \/ AfterErase
  <2>1. CASE Exit
    BY <1>6, <2>1 DEF EraseOrWrite, AfterErase, Exit, Returned, PlaceInv
  <2>2. CASE CallErase(0, ROM_PAGES) /\ Then("rom_erase")
    <3>1. CallErase(0, ROM_PAGES) /\ 0 \in Nat /\ ROM_PAGES \in Nat /\ 0 + ROM_PAGES <= N * P /\ 0 + ROM_PAGES = ROM_PAGES
      BY <1>1, <2>2
    <3>2. drv'.op = "idle" \/ (drv'.op = "erase" /\ drv'.end = 0 + ROM_PAGES)
      BY <1>1, <3>1, EraseCallIs
    <3> QED
      BY <2>2, <3>1, <3>2 DEF PlaceInv, Then
  <2>3. CASE CallWrite(0, ROM_PAGES, Image) /\ Then("rom_write")
    BY <2>3 DEF CallWrite, Call, IdleDrv, Then, PlaceInv, Runs
  <2> QED
    BY <1>6, <2>1, <2>2, <2>3 DEF EraseOrWrite, AfterErase
<1>7. CASE Verify
  <2>1. CASE Exit
    BY <1>7, <2>1 DEF Verify, Exit, Returned, PlaceInv
  <2>2. CASE CallErase(ROM_PAGES, n * CHIP_PAGES - ROM_PAGES) /\ Then("calc_erase")
    <3>1. CallErase(ROM_PAGES, N * P - ROM_PAGES) /\ N * P - ROM_PAGES \in Nat /\ N * P - ROM_PAGES > 0
          /\ ROM_PAGES + (N * P - ROM_PAGES) <= N * P
      BY <1>1, <2>2
    <3>2. drv'.op = "idle" \/ (drv'.op = "erase" /\ drv'.pos = ROM_PAGES)
      BY <1>1, <3>1, EraseCallIs
    <3> QED
      BY <1>1, <2>2, <3>2 DEF PlaceInv, Then
  <2> QED
    BY <1>7, <2>1, <2>2 DEF Verify
<1>8. CASE Compute
  <2>1. host' = "computing"
    BY <1>8 DEF Compute, Then
  <2>2. /\ drv'.op = "write" => ROM_PAGES <= drv'.pos /\ drv'.pendingPage = [k \in 0 .. N - 1 |-> NoPage]
        /\ drv'.op = "erase" => drv'.pos = ROM_PAGES
    BY <1>8, ComputeIs
  <2> QED
    BY <1>1, <2>1, <2>2 DEF PlaceInv
<1>9. CASE Killed
  BY <1>9 DEF Killed, PlaceInv, Runs
<1>10. CASE UNCHANGED vars
  BY <1>10 DEF vars, spiVars, PlaceInv, Runs
<1> QED
  BY <1>2, <1>3, <1>4, <1>5, <1>6, <1>7, <1>8, <1>9, <1>10 DEF Next, Constructor
-----------------------------------------------------------------------------
(* The theorems *)
\* The size of the bundle that was opened is a parameter of the invariant.
Sized(N, P) == ROM_PAGES < N * P /\ TypeInv(N, P) /\ FreeInv(N) /\ UnlockInv(N) /\ PlaceInv(N)
BootInv == \E N, P \in Nat \ {0} : Sized(N, P)

LEMMA BootInvHolds == Spec => []BootInv
<1>1. Init => BootInv
  <2> SUFFICES ASSUME Init PROVE BootInv
    OBVIOUS
  <2>1. PICK N \in Nat \ {0}, P \in Nat \ {0} :
           ROM_PAGES < N * P /\ TypeInv(N, P) /\ \A k \in 0 .. N - 1 : Free(k) /\ ~chip[k].fail
    BY InitTypes
  <2>2. FreeInv(N)
    BY <2>1 DEF FreeInv
  <2>3. UnlockInv(N) /\ PlaceInv(N)
    BY DEF Init, IdleDrv, UnlockInv, Answered, PlaceInv
  <2> QED
    BY <2>1, <2>2, <2>3 DEF BootInv, Sized
<1>2. BootInv /\ [Next]_vars => BootInv'
  <2> SUFFICES ASSUME BootInv, [Next]_vars PROVE BootInv'
    OBVIOUS
  <2>1. PICK N \in Nat \ {0}, P \in Nat \ {0} : Sized(N, P)
    BY DEF BootInv
  <2>2. TypeInv(N, P)' /\ FreeInv(N)' /\ UnlockInv(N)' /\ PlaceInv(N)'
    BY <2>1, StepKeepsTypes, StepKeepsFree, StepKeepsUnlocked, StepKeepsPlace DEF Sized
  <2>3. Sized(N, P)'
    BY <2>1, <2>2 DEF Sized
  <2> QED
    BY <2>3 DEF BootInv
<1> QED
  BY <1>1, <1>2, PTL DEF Spec

\* Every chip, the driver and the constructor keep their types, whatever bundle
\* is opened and wherever faults, power failures and kills strike.
THEOREM TypeCorrect == Spec => []TypeOK
<1>1. BootInv => TypeOK
  <2> SUFFICES ASSUME BootInv PROVE TypeOK
    OBVIOUS
  <2>1. PICK N \in Nat \ {0}, P \in Nat \ {0} : Sized(N, P)
    BY DEF BootInv
  <2>2. chip \in [0 .. N - 1 -> ChipRecord(P)] /\ Chip = 0 .. N - 1 /\ CHIP_PAGES = P
    BY <2>1, SizesOf DEF Sized, TypeInv
  <2>3. \A k \in Chip : /\ chip[k].cells \in [0 .. CHIP_PAGES - 1 -> SUBSET Bit]
                        /\ chip[k].buf \subseteq Bit
                        /\ chip[k].busy \in {"no", "program", "erase", "read"}
    BY <2>2 DEF ChipRecord
  <2>4. /\ drv.op \in {"idle", "open", "read", "write", "erase"}
        /\ drv.answer \in {"none", "ok", "failed"} /\ drv.pos \in 0 .. drv.end
    BY <2>1 DEF Sized, TypeInv, DrvInv, DrvRecord
  <2> QED
    BY <2>1, <2>3, <2>4 DEF Sized, TypeInv, TroubleInv, HostInv, TypeOK, SpiTypeOK
<1> QED
  BY <1>1, BootInvHolds, PTL

\* Reads, write enables, loads, executes and block erases (W25NSpiFlashDevice.hpp
\* and w25n_spidev.c) reach a chip only when its last program or erase has ended,
\* for every number of chips and every order of completions: the pending pages
\* of a write are waited for before their chip is used again and before the
\* write returns.
THEOREM ChipsAreWaitedFor == Spec => []NeverDisturbs
<1>1. BootInv => NeverDisturbs
  <2> SUFFICES ASSUME BootInv, unseen = 0
               PROVE  /\ drv.at \in {"13h", "03h"} => Free(chipIndexOf(drv.pos))
                      /\ drv.at \in {"06h", "02h", "10h", "D8h"} => Free(drv.idx)
                      /\ drv.op = "idle" => \A k \in Chip : Free(k)
    BY DEF NeverDisturbs
  <2>1. PICK N \in Nat \ {0}, P \in Nat \ {0} : Sized(N, P)
    BY DEF BootInv
  <2>2. Chip = 0 .. N - 1 /\ n = N /\ DrvInv(N, P) /\ FreeInv(N)
    BY <2>1, SizesOf DEF Sized, TypeInv
  <2>3. /\ drv.op \in {"idle", "open", "read", "write", "erase"}
        /\ drv.pos \in Nat /\ drv.idx \in 0 .. N - 1
    BY <2>2 DEF DrvInv, DrvRecord
  <2>4. ASSUME drv.at \in {"13h", "03h"} PROVE Free(chipIndexOf(drv.pos))
    <3>1. drv.op = "read"
      BY <2>2, <2>3, <2>4 DEF DrvInv, OpenAt
    <3>2. chipIndexOf(drv.pos) \in 0 .. N - 1
      BY <2>2, <2>3 DEF chipIndexOf
    <3> QED
      BY <2>2, <2>4, <3>1, <3>2 DEF FreeInv
  <2>5. ASSUME drv.at \in {"06h", "02h", "10h", "D8h"} PROVE Free(drv.idx)
    <3>1. (drv.op = "write" /\ drv.pendingPage[drv.idx] = NoPage) \/ drv.op = "erase"
      BY <2>2, <2>3, <2>5 DEF DrvInv, OpenAt
    <3> QED
      BY <2>2, <2>3, <2>5, <3>1 DEF FreeInv
  <2> QED
    BY <2>2, <2>4, <2>5 DEF FreeInv
<1> QED
  BY <1>1, BootInvHolds, PTL

\* open() (W25NSpiFlashDevice.hpp, w25n_spidev.c) ignores what its transfers
\* return, yet one lost message is always noticed: no chip of any bundle is read,
\* programmed or erased while it is protected or its ECC is on.
THEOREM ChipsAreUnlocked == Spec => []OpensUnlocked
<1>1. BootInv => OpensUnlocked
  <2> SUFFICES ASSUME BootInv, unseen <= 1, drv.op \in {"read", "write", "erase"}
               PROVE  \A k \in Chip : ~chip[k].protected /\ ~chip[k].ecc
    BY DEF OpensUnlocked
  <2>1. PICK N \in Nat \ {0}, P \in Nat \ {0} : Sized(N, P)
    BY DEF BootInv
  <2>2. Chip = 0 .. N - 1
    BY <2>1, SizesOf DEF Sized, TypeInv
  <2> QED
    BY <2>1, <2>2 DEF Sized, UnlockInv, Unlocked
<1> QED
  BY <1>1, BootInvHolds, PTL
----------------------------------------------------------------------------
(***************************************************************************)
(* What a start of the CPU leaves in the flash, for every bundle of chips, *)
(* image, region, earlier content and number of faults and crashes: a CPU  *)
(* runs on its image, and on a blank calculation area unless the erase has *)
(* said that it failed.  BootInv is extended by ContentInv, which follows  *)
(* the content through the calls of the constructor: ReadInv (the buffer   *)
(* is what the cells hold), SoundInv (the region holds the image) and      *)
(* EraseInv (how far the calculation area is blank), and by FaultInv       *)
(* (without a fault only a refused erase fails).                           *)
(*                                                                         *)
(* The second part shows that the driver under the constructor implements  *)
(* FlashDevice.  DutyInv says that the chips do what the driver believes   *)
(* they do; one lemma per operation maps its steps, those of the chips,    *)
(* power failures and starts to steps of the device or to none.  What only *)
(* an operation of the device can change follows at the end: whose erase a *)
(* page loses bits to, and that a CPU that runs keeps its ROM region.      *)
(***************************************************************************)

\* Page p of the logical device: page p \div N of chip p % N.
Cell(N, p) == chip[p % N].cells[p \div N]

\* The caller's buffer, and the call that each state of the constructor waits for.
CallInv ==
    /\ buffer \in [RomPage -> SUBSET Bit]
    /\ drv.op = "read" => drv.end = ROM_PAGES
    /\ host \in {"first_read", "read_back"} => drv.op \in {"idle", "read"}
    /\ host = "calc_erase" => drv.op \in {"idle", "erase"}
    /\ host = "running" => drv.op = "idle"

\* A read brings the cells: each page comes to the caller's buffer by way of the
\* page buffer of its chip, and "ok" means that all of them did.
Fetched(N) ==
    LET c == chip[drv.pos % N] IN
    \/ c.busy = "read" /\ c.target = drv.pos \div N
    \/ c.busy = "no" /\ c.buf = c.cells[drv.pos \div N]

ReadInv(N) ==
    unseen = 0 =>
      /\ drv.op = "read" => \A p \in RomPage : p < drv.pos => buffer[p] = Cell(N, p)
      /\ drv.op = "read" /\ drv.at \in {"poll", "03h"} => Fetched(N)
      /\ host \in {"first_read", "read_back"} /\ drv.op = "idle" /\ drv.answer = "ok" =>
           \A p \in RomPage : buffer[p] = Cell(N, p)

\* Past the comparison the region holds the image, if the second read was good.
Settled == unseen = 0 /\ host \in {"calc_erase", "running"}
SoundInv(N) == Settled /\ answers[2] = "ok" => \A p \in RomPage : Cell(N, p) = Image[p]

\* The erase of the calculation area is at a border of blocks, and a block that it
\* has waited for is blank or its chip says that it failed.
Border(N) == ROM_PAGES <= drv.pos /\ drv.pos % N = 0 /\ (drv.pos \div N) % BLOCK_PAGES = 0
InBlock(first, q) == first <= q /\ q < first + BLOCK_PAGES
BlockErased(N, P) ==
    LET c == chip[drv.idx]   first == drv.pos \div N IN
    \/ c.busy = "erase" /\ c.target = first
    \/ c.busy = "no" /\ (c.fail \/ \A q \in 0 .. P - 1 : InBlock(first, q) => c.cells[q] = {})

\* The pages that the erase has been over.
Passed(N, j, q) == \/ drv.op = "idle"
                   \/ q < drv.pos \div N
                   \/ j < drv.idx /\ q < (drv.pos \div N) + BLOCK_PAGES
Blanked(N, P) ==
    \A j \in 0 .. N - 1, q \in 0 .. P - 1 : ROM_PAGES <= (q * N) + j /\ Passed(N, j, q) => chip[j].cells[q] = {}

EraseInv(N, P) ==
    Settled =>
      /\ drv.op = "erase" => Border(N) /\ drv.end = N * P
      /\ drv.op = "erase" /\ drv.at = "D8h" => chip[drv.idx].wel
      /\ drv.op = "erase" /\ drv.at = "poll" => BlockErased(N, P)
      /\ drv.op = "erase" \/ drv.answer = "ok" => Blanked(N, P)

ContentInv(N, P) == CallInv /\ ReadInv(N) /\ SoundInv(N) /\ EraseInv(N, P)
-----------------------------------------------------------------------------
(* Pages and blocks *)

LEMMA PageOf ==
    ASSUME NEW N \in Nat \ {0}, NEW q \in Nat, NEW j \in 0 .. N - 1
    PROVE  ((q * N) + j) % N = j /\ ((q * N) + j) \div N = q
<1> DEFINE p == (q * N) + j
<1>1. p \in Nat /\ p \div N \in Nat /\ p % N \in 0 .. N - 1 /\ p = ((p \div N) * N) + (p % N)
  OBVIOUS
<1>2. \A a, b \in Nat, r, s \in 0 .. N - 1 : (a * N) + r = (b * N) + s => a = b /\ r = s
  <2> TAKE a \in Nat, b \in Nat, r \in 0 .. N - 1, s \in 0 .. N - 1
  <2>1. CASE a < b
    <3>1. (a + 1) * N <= b * N
      BY <2>1
    <3> QED
      BY <2>1, <3>1
  <2>2. CASE b < a
    <3>1. (b + 1) * N <= a * N
      BY <2>2
    <3> QED
      BY <2>2, <3>1
  <2>3. CASE a = b
    BY <2>3
  <2> QED
    BY <2>1, <2>2, <2>3
<1>3. (q * N) + j = ((p \div N) * N) + (p % N)
  BY <1>1
<1> HIDE DEF p
<1>4. q = p \div N /\ j = p % N
  BY <1>1, <1>2, <1>3
<1> QED
  BY <1>4 DEF p

\* The pages of the block that starts at a.
LEMMA BlockOf ==
    ASSUME NEW B \in Nat \ {0}, NEW a \in Nat, a % B = 0, NEW q \in Nat
    PROVE  q \div B = a \div B <=> a <= q /\ q < a + B
<1>1. PICK m \in Nat : a = m * B /\ a \div B = m
  <2>1. a \div B \in Nat /\ a % B \in 0 .. B - 1 /\ a = ((a \div B) * B) + (a % B)
    OBVIOUS
  <2> QED
    BY <2>1
<1>2. q \div B \in Nat /\ q % B \in 0 .. B - 1 /\ q = ((q \div B) * B) + (q % B)
  OBVIOUS
<1>3. PICK r \in Nat, s \in 0 .. B - 1 : q = (r * B) + s /\ q \div B = r
  BY <1>2
<1>4. CASE r = m
  BY <1>1, <1>3, <1>4
<1>5. CASE r < m
  <2>1. (r + 1) * B <= m * B
    BY <1>5
  <2> QED
    BY <1>1, <1>3, <1>5, <2>1
<1>6. CASE r > m
  <2>1. (m + 1) * B <= r * B
    BY <1>6
  <2> QED
    BY <1>1, <1>3, <1>6, <2>1
<1> QED
  BY <1>4, <1>5, <1>6

LEMMA Multiple == ASSUME NEW B \in Nat \ {0}, NEW a \in Nat, a % B = 0 PROVE \E m \in Nat : a = m * B
<1>1. a \div B \in Nat /\ a = ((a \div B) * B) + (a % B)
  OBVIOUS
<1>2. PICK m \in Nat : a = (m * B) + 0
  BY <1>1
<1>3. a = m * B
  BY <1>2
<1> QED
  BY <1>3

\* A multiple of the group size is at a border of blocks, and so is the next group.
LEMMA GroupBorder ==
    ASSUME NEW N \in Nat \ {0}, NEW B \in Nat \ {0}, NEW a \in Nat
    PROVE  /\ a % (B * N) = 0 => a % N = 0 /\ (a \div N) % B = 0
           /\ a % N = 0 /\ (a \div N) % B = 0 =>
                /\ (a + (B * N)) % N = 0 /\ (a + (B * N)) \div N = (a \div N) + B
                /\ ((a + (B * N)) \div N) % B = 0
<1>0. 0 \in 0 .. N - 1 /\ \A x \in Nat : x = x + 0
  OBVIOUS
<1>1. \A x \in Nat : (x * N) % N = 0 /\ (x * N) \div N = x
  <2> TAKE x \in Nat
  <2>1. ((x * N) + 0) % N = 0 /\ ((x * N) + 0) \div N = x
    BY <1>0, PageOf
  <2>2. (x * N) + 0 = x * N
    OBVIOUS
  <2> QED
    BY <2>1, <2>2
<1>2. \A x \in Nat : (x * B) % B = 0
  OBVIOUS
<1>3. ASSUME a % (B * N) = 0 PROVE a % N = 0 /\ (a \div N) % B = 0
  <2>1. PICK G \in Nat \ {0} : G = B * N
    <3>1. \A x, y \in Nat \ {0} : x * y \in Nat \ {0}
      OBVIOUS
    <3> QED
      BY <3>1
  <2>2. a % G = 0
    BY <1>3, <2>1
  <2>3. PICK m \in Nat : a = m * G
    BY <2>2, Multiple
  <2>4. a = (m * B) * N /\ m * B \in Nat
    BY <2>1, <2>3
  <2>5. PICK x \in Nat : x = m * B /\ a = x * N
    BY <2>4
  <2>6. a % N = 0 /\ a \div N = x
    BY <1>1, <2>5
  <2> QED
    BY <1>2, <2>5, <2>6
<1>4. ASSUME a % N = 0, (a \div N) % B = 0
      PROVE  /\ (a + (B * N)) % N = 0 /\ (a + (B * N)) \div N = (a \div N) + B
             /\ ((a + (B * N)) \div N) % B = 0
  <2>1. a \div N \in Nat /\ a = ((a \div N) * N) + (a % N)
    OBVIOUS
  <2>2. PICK x \in Nat : x = a \div N /\ a = x * N /\ x % B = 0
    BY <1>4, <2>1
  <2>3. a + (B * N) = (x + B) * N /\ x + B \in Nat
    BY <2>2
  <2>4. (a + (B * N)) % N = 0 /\ (a + (B * N)) \div N = x + B
    BY <1>1, <2>3
  <2>5. (x + B) % B = 0
    <3>2. PICK y \in Nat : x = y * B
      BY <2>2, Multiple
    <3>3. x + B = (y + 1) * B /\ y + 1 \in Nat
      BY <3>2
    <3> QED
      BY <1>2, <3>3
  <2> QED
    BY <2>2, <2>4, <2>5
<1> QED
  BY <1>3, <1>4
-----------------------------------------------------------------------------
(* The chips *)

\* A read leaves the cells and brings the page to the page buffer.
LEMMA ReadEnds ==
    ASSUME NEW P \in Nat \ {0}, NEW c \in ChipRecord(P), c.busy = "read"
    PROVE  /\ Completed(c).busy = "no" /\ Completed(c).cells = c.cells
           /\ Completed(c).buf = c.cells[c.target]
BY DEF Completed, ChipRecord

\* An erase of an unprotected chip blanks its block; cut short, it blanks pages of
\* the block only.
LEMMA EraseEnds ==
    ASSUME NEW P \in Nat \ {0}, NEW c \in ChipRecord(P), c.busy = "erase", c.target % BLOCK_PAGES = 0
    PROVE  /\ ~c.protected => \A q \in 0 .. P - 1 :
                 Completed(c).cells[q] = IF InBlock(c.target, q) THEN {} ELSE c.cells[q]
           /\ \A cells \in CutShort(c) : \A q \in 0 .. P - 1 : /\ c.cells[q] = {} => cells[q] = {}
                                                               /\ ~InBlock(c.target, q) => cells[q] = c.cells[q]
<1>1. c.cells \in [0 .. P - 1 -> SUBSET Bit] /\ DOMAIN c.cells = 0 .. P - 1 /\ c.target \in 0 .. P - 1
  BY DEF ChipRecord
<1>2. \A q \in 0 .. P - 1 : q \in Block(c, c.target) <=> InBlock(c.target, q)
  <2> TAKE q \in 0 .. P - 1
  <2>1. q \in Nat /\ c.target \in Nat
    BY <1>1
  <2>2. q \div BLOCK_PAGES = c.target \div BLOCK_PAGES <=> c.target <= q /\ q < c.target + BLOCK_PAGES
    BY <2>1, ChipGeometry, BlockOf
  <2> QED
    BY <1>1, <2>2 DEF Block, InBlock
<1>3. ASSUME ~c.protected, NEW q \in 0 .. P - 1
      PROVE  Completed(c).cells[q] = IF InBlock(c.target, q) THEN {} ELSE c.cells[q]
  <2>1. PICK cells : cells = Erased(c, Block(c, c.target))
    OBVIOUS
  <2>2. Completed(c) = Ended(c, cells)
    BY <1>3, <2>1 DEF Completed
  <2>3. cells \in [0 .. P - 1 -> SUBSET Bit]
    BY <2>1, ErasedIs
  <2>4. Completed(c).cells = cells
    BY <2>2, <2>3, EndedIs
  <2> QED
    BY <1>1, <1>2, <2>1, <2>4 DEF Erased
<1>4. ASSUME NEW cells \in CutShort(c), NEW q \in 0 .. P - 1
      PROVE  (c.cells[q] = {} => cells[q] = {}) /\ (~InBlock(c.target, q) => cells[q] = c.cells[q])
  <2>1. PICK gone \in SUBSET Block(c, c.target) : cells = Erased(c, gone)
    BY DEF CutShort
  <2> QED
    BY <1>1, <1>2, <2>1 DEF Erased
<1> QED
  BY <1>3, <1>4

\* A step of a chip that is at work.
LEMMA ChipEnds ==
    ASSUME NEW N \in Nat \ {0}, NEW P \in Nat \ {0}, TypeInv(N, P), ChipStep
    PROVE  \E k \in 0 .. N - 1 :
             /\ ~Free(k) /\ chip'[k].busy = "no" /\ \A j \in 0 .. N - 1 : j # k => chip'[j] = chip[j]
             /\ \/ chip'[k] = Completed(chip[k])
                \/ chip[k].busy # "read" /\ chip'[k].fail /\ chip'[k].cells \in CutShort(chip[k])
<1>1. chip \in [0 .. N - 1 -> ChipRecord(P)] /\ Chip = 0 .. N - 1
  BY SizesOf DEF TypeInv
<1>2. PICK k \in 0 .. N - 1 : ChipDone(k) \/ ChipFails(k)
  BY <1>1 DEF ChipStep
<1>3. chip[k] \in ChipRecord(P)
  BY <1>1
<1>4. CASE ChipDone(k)
  BY <1>1, <1>3, <1>4, CompletedIs DEF ChipDone, Free
<1>5. CASE ChipFails(k)
  <2>1. PICK cells \in CutShort(chip[k]) : chip' = [chip EXCEPT ![k] = [Ended(chip[k], cells) EXCEPT !.fail = TRUE]]
    BY <1>1, <1>5 DEF ChipFails
  <2>2. cells \in [0 .. P - 1 -> SUBSET Bit]
    BY <1>3, CutIs
  <2>3. PICK ended \in ChipRecord(P) : ended = Ended(chip[k], cells) /\ ended.busy = "no" /\ ended.cells = cells
    BY <1>3, <2>2, EndedIs
  <2>4. chip'[k] = [ended EXCEPT !.fail = TRUE] /\ \A j \in 0 .. N - 1 : j # k => chip'[j] = chip[j]
    BY <1>1, <2>1, <2>3
  <2>5. chip'[k].busy = "no" /\ chip'[k].cells = cells /\ chip'[k].fail
    BY <2>3, <2>4 DEF ChipRecord
  <2> QED
    BY <1>5, <2>4, <2>5 DEF ChipFails, Free
<1> QED
  BY <1>2, <1>4, <1>5

\* A message that gets lost without a trace shows in unseen.
LEMMA SeenSent ==
    ASSUME NEW sent \in BOOLEAN, TroubleInv, Overlooked(sent), unseen' = 0
    PROVE  sent /\ unseen = 0
BY SpiGeometry DEF Overlooked, TroubleInv
-----------------------------------------------------------------------------
(* A read *)

LEMMA ReadKeepsContent ==
    ASSUME NEW N \in Nat \ {0}, NEW P \in Nat \ {0}, ROM_PAGES < N * P, TypeInv(N, P), FreeInv(N),
           ContentInv(N, P), drv.op = "read", Driver, UNCHANGED <<host, answers>>
    PROVE  ContentInv(N, P)'
<1>1. /\ chip \in [0 .. N - 1 -> ChipRecord(P)] /\ drv \in DrvRecord(N, P) /\ n = N /\ TroubleInv
      /\ drv.pos \in Nat /\ drv.end \in Nat /\ drv.end = ROM_PAGES /\ N * P \in Nat /\ ROM_PAGES \in Nat
      /\ drv.at \in {"13h", "poll", "03h"} /\ (drv.at # "13h" => drv.pos < drv.end)
      /\ buffer \in [RomPage -> SUBSET Bit]
  BY SizesOf, RomFits DEF TypeInv, DrvInv, DrvRecord, ContentInv, CallInv
<1>2. host \notin {"calc_erase", "running"} /\ ~Settled'
  BY DEF ContentInv, CallInv, Settled
<1>3. SoundInv(N)' /\ EraseInv(N, P)'
  BY <1>2 DEF SoundInv, EraseInv
<1>4. SUFFICES CallInv' /\ ReadInv(N)'
  BY <1>3 DEF ContentInv
<1>5. ReadDone \/ PageRead \/ PageReadWait \/ ReadBuf
  BY DEF Driver, Open, NextPage, waitChip, WriteEnable, ProgramLoad, ProgramIssue, BlockErase, BlockEraseWait, At
<1>6. drv.pos < drv.end => /\ drv.pos % N \in 0 .. N - 1 /\ drv.pos \div N \in 0 .. P - 1
                           /\ chip[drv.pos % N] \in ChipRecord(P) /\ drv.pos \in RomPage
  <2>1. drv.pos < drv.end => drv.pos < N * P /\ drv.pos \in RomPage
    BY <1>1 DEF RomPage
  <2> QED
    BY <1>1, <2>1, PageParts
<1>7. unseen = 0 => /\ \A p \in RomPage : p < drv.pos => buffer[p] = Cell(N, p)
                    /\ drv.at \in {"poll", "03h"} => Fetched(N)
  BY DEF ContentInv, ReadInv
<1>8. ASSUME Answer(FALSE), buffer' = buffer PROVE CallInv' /\ ReadInv(N)'
  <2>1. drv'.op = "idle" /\ drv'.answer # "ok"
    BY <1>8, AnswerIs
  <2> QED
    BY <1>1, <1>2, <1>8, <2>1 DEF CallInv, ReadInv
<1>9. CASE ReadDone
  <2>1. ~(drv.pos < drv.end) /\ Answer(TRUE) /\ UNCHANGED <<chip, buffer, unseen>>
    BY <1>9 DEF ReadDone, MoreToRead
  <2>2. drv'.op = "idle" /\ drv'.answer = "ok"
    BY <2>1, AnswerIs
  <2>3. \A p \in RomPage : p < drv.pos
    BY <1>1, <2>1 DEF RomPage
  <2> QED
    BY <1>1, <1>2, <1>7, <2>1, <2>2, <2>3 DEF CallInv, ReadInv, Cell
<1>10. CASE PageRead
  <2>1. drv.pos < drv.end /\ drv.at = "13h" /\ Goto("poll") /\ "poll" \in Steps /\ buffer' = buffer
    BY <1>10 DEF PageRead, MoreToRead, At, Steps
  <2>2. /\ drv'.at = "poll" /\ drv'.op = "read" /\ drv'.pos = drv.pos /\ drv'.end = drv.end
    BY <2>1, GotoIs
  <2>3. CallInv'
    BY <1>1, <1>2, <2>1, <2>2 DEF CallInv
  <2>4. ASSUME unseen' = 0 PROVE ReadInv(N)'
    <3> DEFINE there == chipIndexOf(drv.pos)
    <3>a. PICK sent \in BOOLEAN : Send(there, sent, Reading(chip[there], physPageOf(drv.pos))) /\ Overlooked(sent)
      BY <1>10 DEF PageRead
    <3>b. there = drv.pos % N /\ physPageOf(drv.pos) = drv.pos \div N
      BY <1>1 DEF chipIndexOf, physPageOf
    <3> HIDE DEF there
    <3>1. PICK k, page, after :
             /\ k = drv.pos % N /\ page = drv.pos \div N /\ after = Reading(chip[k], page)
             /\ Send(k, sent, after)
      BY <3>a, <3>b
    <3>2. sent /\ unseen = 0
      BY <1>1, <2>4, <3>a, SeenSent
    <3>3. k \in 0 .. N - 1 /\ page \in 0 .. P - 1 /\ chip[k] \in ChipRecord(P)
      BY <1>6, <2>1, <3>1
    <3>4. Free(k)
      BY <2>1, <3>2, <3>3 DEF FreeInv
    <3>5. after \in ChipRecord(P) /\ after.cells = chip[k].cells /\ after.busy = "read" /\ after.target = page
      BY <3>1, <3>3 DEF Reading, ChipRecord
    <3>6. chip'[k] = after /\ \A j \in 0 .. N - 1 : j # k => chip'[j] = chip[j]
      <4>1. chip' = [chip EXCEPT ![k] = after]
        BY <3>1, <3>2, <3>4 DEF Send
      <4> QED
        BY <1>1, <3>3, <4>1
    <3>7. \A p \in RomPage : Cell(N, p)' = Cell(N, p)
      <4>1. \A p \in RomPage : p % N \in 0 .. N - 1
        BY <1>1 DEF RomPage
      <4> QED
        BY <3>5, <3>6, <4>1 DEF Cell
    <3>8. Fetched(N)'
      BY <2>2, <3>1, <3>5, <3>6 DEF Fetched
    <3> QED
      BY <1>7, <2>1, <2>2, <3>2, <3>7, <3>8 DEF ReadInv
  <2> QED
    BY <2>3, <2>4 DEF ReadInv
<1>11. CASE PageReadWait
  <2>1. PICK result \in {"ready", "failed", "timeout"} :
            /\ WaitEnds(chipIndexOf(drv.pos), result)
            /\ IF result = "timeout" THEN Answer(FALSE) ELSE Goto("03h")
    BY <1>11 DEF PageReadWait
  <2>2. drv.at = "poll" /\ UNCHANGED <<chip, buffer>> /\ "03h" \in Steps
    BY <1>11 DEF PageReadWait, At, Steps
  <2>3. CASE Answer(FALSE)
    BY <1>8, <2>2, <2>3
  <2>4. CASE Goto("03h")
    <3>1. /\ drv'.at = "03h" /\ drv'.op = "read" /\ drv'.pos = drv.pos /\ drv'.end = drv.end
      BY <2>2, <2>4, GotoIs
    <3>2. unseen' = 0 => unseen = 0
      BY <1>1, <2>1, WaitIs
    <3>3. ReadInv(N)'
      BY <1>7, <2>2, <3>1, <3>2 DEF ReadInv, Fetched, Cell
    <3> QED
      BY <1>1, <1>2, <2>2, <3>1, <3>3 DEF CallInv
  <2> QED
    BY <2>1, <2>3, <2>4
<1>12. CASE ReadBuf
  <2>1. drv.at = "03h" /\ drv.pos < drv.end /\ unseen' = unseen
    BY <1>1, <1>12 DEF ReadBuf, At
  <2> DEFINE there == chipIndexOf(drv.pos)
  <2>a. PICK sent \in BOOLEAN :
          /\ Send(there, sent, chip[there])
          /\ ~sent => Answer(FALSE) /\ UNCHANGED buffer
          /\ sent => /\ buffer' = [buffer EXCEPT ![drv.pos] = chip[there].buf]
                     /\ drv' = [drv EXCEPT !.pos = drv.pos + 1, !.at = "13h"]
    BY <1>12 DEF ReadBuf
  <2>b. there = drv.pos % N
    BY <1>1 DEF chipIndexOf
  <2> HIDE DEF there
  <2>2. PICK k, after :
          /\ k = drv.pos % N /\ after = chip[k] /\ Send(k, sent, after)
          /\ ~sent => Answer(FALSE) /\ UNCHANGED buffer
          /\ sent => /\ buffer' = [buffer EXCEPT ![drv.pos] = chip[k].buf]
                     /\ drv' = [drv EXCEPT !.pos = drv.pos + 1, !.at = "13h"]
    BY <2>a, <2>b
  <2>3. k \in 0 .. N - 1 /\ chip[k] \in ChipRecord(P) /\ chip[k].buf \in SUBSET Bit /\ drv.pos \in RomPage
    BY <1>6, <2>1, <2>2 DEF ChipRecord
  <2>4. \A j \in 0 .. N - 1 : chip'[j] = chip[j]
    <3>1. chip' = chip \/ chip' = [chip EXCEPT ![k] = after]
      BY <2>2 DEF Send
    <3> QED
      BY <1>1, <2>2, <2>3, <3>1
  <2>5. CASE sent
    <3>1. drv'.op = "read" /\ drv'.at = "13h" /\ drv'.pos = drv.pos + 1 /\ drv'.end = drv.end
      BY <1>1, <2>2, <2>5 DEF DrvRecord
    <3>2. buffer' \in [RomPage -> SUBSET Bit]
      BY <1>1, <2>2, <2>3, <2>5
    <3>3. CallInv'
      BY <1>1, <1>2, <3>1, <3>2 DEF CallInv
    <3>4. ASSUME unseen' = 0, NEW p \in RomPage, p < drv.pos + 1 PROVE buffer'[p] = Cell(N, p)'
      <4>1. Cell(N, p)' = Cell(N, p)
        <5>1. p % N \in 0 .. N - 1
          BY <1>1 DEF RomPage
        <5> QED
          BY <2>4, <5>1 DEF Cell
      <4>2. CASE p = drv.pos
        <5>1. Free(k)
          BY <2>1, <2>3, <3>4 DEF FreeInv
        <5>2. chip[k].buf = Cell(N, p)
          BY <1>7, <2>1, <2>2, <3>4, <4>2, <5>1 DEF Fetched, Free, Cell
        <5>3. buffer'[p] = chip[k].buf
          BY <1>1, <2>2, <2>5, <4>2
        <5> QED
          BY <4>1, <5>2, <5>3
      <4>3. CASE p # drv.pos
        <5>1. p < drv.pos /\ p \in Nat
          BY <1>1, <3>4, <4>3 DEF RomPage
        <5>2. buffer'[p] = buffer[p]
          BY <1>1, <2>2, <2>5, <4>3
        <5> QED
          BY <1>7, <2>1, <3>4, <4>1, <5>1, <5>2
      <4> QED
        BY <4>2, <4>3
    <3> QED
      BY <3>1, <3>3, <3>4 DEF ReadInv
  <2> QED
    BY <1>8, <2>2, <2>5
<1> QED
  BY <1>5, <1>9, <1>10, <1>11, <1>12
-----------------------------------------------------------------------------
(* An erase *)

LEMMA EraseWaits ==
    ASSUME NEW N \in Nat \ {0}, NEW P \in Nat \ {0}, TypeInv(N, P), EraseInv(N, P), Settled, Settled',
           drv.op = "erase", BlockEraseWait, UNCHANGED <<host, answers>>
    PROVE  EraseInv(N, P)'
<1>1. /\ chip \in [0 .. N - 1 -> ChipRecord(P)] /\ drv \in DrvRecord(N, P) /\ Chip = 0 .. N - 1
      /\ drv.pos \in Nat /\ drv.end \in Nat /\ drv.idx \in 0 .. N - 1 /\ drv.at = "poll"
      /\ N * P \in Nat /\ ROM_PAGES \in Nat /\ drv.end = N * P /\ drv.pos < drv.end
      /\ groupSize = BLOCK_PAGES * N /\ groupSize \in Nat /\ chip' = chip /\ "06h" \in Steps
      /\ unseen \in Nat /\ unseen = 0 /\ unseen' = 0
  <2>1. \A x \in Nat, y \in Nat : x * y \in Nat
    OBVIOUS
  <2> QED
    BY <2>1, SizesOf, RomFits, ChipGeometry
    DEF TypeInv, DrvInv, DrvRecord, TroubleInv, BlockEraseWait, At, EraseInv, Settled, groupSize, Steps
<1>2. Border(N) /\ BlockErased(N, P) /\ Blanked(N, P)
  BY <1>1 DEF EraseInv
<1>3. PICK first \in Nat : first = drv.pos \div N /\ drv.pos = first * N
  <2>0. \A x \in Nat : x \div N \in Nat /\ x = ((x \div N) * N) + (x % N)
    OBVIOUS
  <2>1. drv.pos \div N \in Nat /\ drv.pos = ((drv.pos \div N) * N) + (drv.pos % N)
    BY <1>1, <2>0
  <2>2. PICK f \in Nat : f = drv.pos \div N /\ drv.pos = (f * N) + (drv.pos % N)
    BY <2>1
  <2> QED
    BY <1>2, <2>2 DEF Border
<1>4. PICK result \in {"ready", "failed"} :
          /\ Free(drv.idx) /\ (result = "ready" => ~chip[drv.idx].fail)
          /\ IF result # "ready" THEN Answer(FALSE)
             ELSE IF drv.idx + 1 \in Chip THEN drv' = [drv EXCEPT !.at = "06h", !.idx = drv.idx + 1]
             ELSE IF drv.pos + groupSize < drv.end
                  THEN drv' = [drv EXCEPT !.at = "06h", !.idx = 0, !.pos = drv.pos + groupSize]
             ELSE Answer(TRUE)
  <2>1. PICK result \in {"ready", "failed", "timeout"} :
          /\ WaitEnds(drv.idx, result)
          /\ IF result # "ready" THEN Answer(FALSE)
             ELSE IF drv.idx + 1 \in Chip THEN drv' = [drv EXCEPT !.at = "06h", !.idx = drv.idx + 1]
             ELSE IF drv.pos + groupSize < drv.end
                  THEN drv' = [drv EXCEPT !.at = "06h", !.idx = 0, !.pos = drv.pos + groupSize]
             ELSE Answer(TRUE)
    BY DEF BlockEraseWait
  <2>2. Free(drv.idx) /\ result = IF chip[drv.idx].fail THEN "failed" ELSE "ready"
    BY <1>1, <2>1 DEF WaitEnds
  <2> QED
    BY <2>1, <2>2
<1>5. CASE result = "failed"
  <2>1. drv'.op = "idle" /\ drv'.answer # "ok"
    BY <1>4, <1>5, AnswerIs
  <2> QED
    BY <2>1 DEF EraseInv
<1>6. CASE result = "ready"
  <2>1. \A q \in 0 .. P - 1 : InBlock(first, q) => chip[drv.idx].cells[q] = {}
    BY <1>2, <1>3, <1>4, <1>6 DEF BlockErased, Free
  <2>2. ASSUME NEW j \in 0 .. N - 1, NEW q \in 0 .. P - 1, ROM_PAGES <= (q * N) + j,
               j < drv.idx + 1, q < first + BLOCK_PAGES
        PROVE  chip[j].cells[q] = {}
    <3>1. CASE j < drv.idx \/ q < first
      BY <1>2, <1>3, <2>2, <3>1 DEF Blanked, Passed
    <3>2. CASE j = drv.idx /\ first <= q
      BY <2>1, <2>2, <3>2 DEF InBlock
    <3>3. (j < drv.idx \/ j = drv.idx) /\ (q < first \/ first <= q)
      <4>1. \A i \in 0 .. N - 1 : j < i + 1 => j < i \/ j = i
        OBVIOUS
      <4>2. j < drv.idx \/ j = drv.idx
        BY <1>1, <2>2, <4>1
      <4>3. q < first \/ first <= q
        OBVIOUS
      <4> QED
        BY <4>2, <4>3
    <3> QED
      BY <3>1, <3>2, <3>3
  <2>3. ASSUME NEW j \in 0 .. N - 1, NEW q \in 0 .. P - 1, ROM_PAGES <= (q * N) + j, q < first
        PROVE  chip[j].cells[q] = {}
    BY <1>2, <1>3, <2>3 DEF Blanked, Passed
  <2>4. CASE drv.idx + 1 \in Chip
    <3>1. drv' = [drv EXCEPT !.at = "06h", !.idx = drv.idx + 1]
      BY <1>4, <1>6, <2>4
    <3>2. /\ drv'.op = "erase" /\ drv'.at = "06h" /\ drv'.idx = drv.idx + 1
          /\ drv'.pos = drv.pos /\ drv'.end = drv.end
      BY <1>1, <3>1 DEF DrvRecord
    <3>3. Border(N)'
      BY <1>2, <3>2 DEF Border
    <3>4. Blanked(N, P)'
      BY <1>1, <1>3, <2>2, <2>3, <3>2 DEF Blanked, Passed
    <3> QED
      BY <1>1, <3>2, <3>3, <3>4 DEF EraseInv
  <2>5. CASE drv.idx + 1 \notin Chip
    <3>1. drv.idx = N - 1
      BY <1>1, <2>5
    <3>2. ASSUME NEW j \in 0 .. N - 1, NEW q \in 0 .. P - 1, ROM_PAGES <= (q * N) + j, q < first + BLOCK_PAGES
          PROVE  chip[j].cells[q] = {}
      BY <2>2, <3>1, <3>2
    <3>3. CASE drv.pos + groupSize < drv.end
      <4>1. PICK next : next = drv.pos + (BLOCK_PAGES * N) /\ drv' = [drv EXCEPT !.at = "06h", !.idx = 0, !.pos = next]
        BY <1>1, <1>4, <1>6, <2>5, <3>3
      <4>2. /\ drv'.op = "erase" /\ drv'.at = "06h" /\ drv'.idx = 0 /\ drv'.pos = next /\ drv'.end = drv.end
        BY <1>1, <4>1 DEF DrvRecord
      <4>3. next % N = 0 /\ next \div N = first + BLOCK_PAGES /\ (next \div N) % BLOCK_PAGES = 0
        BY <1>1, <1>2, <1>3, <4>1, GroupBorder, ChipGeometry, SMTT(30) DEF Border
      <4>4. ROM_PAGES <= next
        BY <1>1, <1>2, <4>1 DEF Border
      <4>5. Border(N)'
        BY <4>2, <4>3, <4>4 DEF Border
      <4>6. Blanked(N, P)'
        <5>1. ASSUME NEW j \in 0 .. N - 1, NEW q \in 0 .. P - 1, ROM_PAGES <= (q * N) + j, Passed(N, j, q)'
              PROVE  q < first + BLOCK_PAGES
          BY <4>2, <4>3, <5>1 DEF Passed
        <5> QED
          BY <1>1, <3>2, <5>1 DEF Blanked
      <4> QED
        BY <1>1, <4>2, <4>5, <4>6 DEF EraseInv
    <3>4. CASE ~(drv.pos + groupSize < drv.end)
      <4>1. drv'.op = "idle" /\ drv'.answer = "ok"
        BY <1>4, <1>6, <2>5, <3>4, AnswerIs
      <4>2. P <= first + BLOCK_PAGES
        <5>1. N * P <= (first * N) + (BLOCK_PAGES * N)
          BY <1>1, <1>3, <3>4
        <5>2. N * P <= N * (first + BLOCK_PAGES)
          BY <5>1, ChipGeometry
        <5>3. \A x, y \in Nat : N * x <= N * y => x <= y
          OBVIOUS
        <5>4. first + BLOCK_PAGES \in Nat
          BY ChipGeometry
        <5> QED
          BY <5>2, <5>3, <5>4
      <4>3. Blanked(N, P)'
        <5>1. \A q \in 0 .. P - 1 : q < first + BLOCK_PAGES
          BY <4>2, ChipGeometry
        <5> QED
          BY <1>1, <3>2, <5>1 DEF Blanked
      <4> QED
        BY <4>1, <4>3 DEF EraseInv
    <3> QED
      BY <3>3, <3>4
  <2> QED
    BY <2>4, <2>5
<1> QED
  BY <1>4, <1>5, <1>6

\* A message that leaves the cells, in the middle of an erase.
LEMMA SameCells ==
    ASSUME NEW N \in Nat \ {0}, NEW P \in Nat \ {0}, Blanked(N, P), \A j \in 0 .. N - 1 : chip'[j].cells = chip[j].cells,
           drv'.op = drv.op, drv'.pos = drv.pos, drv'.idx = drv.idx
    PROVE  Blanked(N, P)'
BY DEF Blanked, Passed

LEMMA EraseKeepsContent ==
    ASSUME NEW N \in Nat \ {0}, NEW P \in Nat \ {0}, ROM_PAGES < N * P, TypeInv(N, P), FreeInv(N),
           ContentInv(N, P), drv.op = "erase", host # "down", Driver, UNCHANGED <<host, answers>>
    PROVE  ContentInv(N, P)'
<1>1. /\ chip \in [0 .. N - 1 -> ChipRecord(P)] /\ drv \in DrvRecord(N, P) /\ n = N /\ TroubleInv
      /\ drv.pos \in Nat /\ drv.end \in Nat /\ drv.idx \in 0 .. N - 1 /\ drv.pos < N * P
      /\ drv.at \in {"06h", "D8h", "poll"} /\ buffer \in [RomPage -> SUBSET Bit]
      /\ host \notin {"first_read", "read_back", "running"} /\ N * P \in Nat /\ drv.end <= N * P /\ drv.pos < drv.end
  BY SizesOf DEF TypeInv, DrvInv, DrvRecord, ContentInv, CallInv
<1>2. WriteEnable \/ BlockErase \/ BlockEraseWait
  BY DEF Driver, Open, ReadDone, PageRead, PageReadWait, ReadBuf, NextPage, waitChip, ProgramLoad, ProgramIssue, At
<1>3. Stepped(N, P) /\ buffer' = buffer
  BY <1>2, DriverKeepsTypes DEF WriteEnable, BlockErase, BlockEraseWait
<1>4. drv'.op \in {"erase", "idle"}
  BY <1>3 DEF Stepped
<1>5. CallInv' /\ ReadInv(N)'
  BY <1>1, <1>3, <1>4 DEF CallInv, ReadInv
<1>6. SUFFICES ASSUME Settled' PROVE SoundInv(N)' /\ EraseInv(N, P)'
  BY <1>5 DEF ContentInv, SoundInv, EraseInv
<1>7. unseen \in Nat /\ unseen' = 0
  BY <1>1, <1>6 DEF TroubleInv, Settled
<1>8. ASSUME unseen = 0 PROVE Settled /\ SoundInv(N) /\ EraseInv(N, P)
  BY <1>6, <1>8 DEF ContentInv, Settled
<1>9. ASSUME unseen = 0, \A j \in 0 .. N - 1 : chip'[j].cells = chip[j].cells PROVE SoundInv(N)'
  <2>1. \A p \in RomPage : p % N \in 0 .. N - 1
    BY RomFits DEF RomPage
  <2> QED
    BY <1>6, <1>8, <1>9, <2>1 DEF SoundInv, Cell
<1>10. CASE BlockEraseWait
  <2>1. unseen = 0 /\ chip' = chip
    BY <1>1, <1>7, <1>10, BlockEraseWaitIs DEF TroubleInv
  <2> QED
    BY <1>6, <1>8, <1>9, <1>10, <2>1, EraseWaits
<1>11. CASE WriteEnable
  <2>1. PICK after : after = Latched(chip[drv.idx])
    OBVIOUS
  <2>2. PICK sent \in BOOLEAN : Send(drv.idx, sent, after) /\ Overlooked(sent)
    BY <1>11, <2>1 DEF WriteEnable
  <2>3. drv.at = "06h" /\ Goto("D8h") /\ "D8h" \in Steps
    BY <1>11 DEF WriteEnable, Steps
  <2>4. sent /\ unseen = 0
    BY <1>1, <1>7, <2>2, SeenSent
  <2>5. Free(drv.idx)
    BY <1>1, <2>3, <2>4 DEF FreeInv
  <2>6. chip' = [chip EXCEPT ![drv.idx] = after]
    BY <2>2, <2>4, <2>5 DEF Send
  <2>7. chip[drv.idx] \in ChipRecord(P)
    BY <1>1
  <2>8. after.wel /\ after.cells = chip[drv.idx].cells
    BY <2>1, <2>7 DEF Latched, ChipRecord
  <2>9. /\ drv'.at = "D8h" /\ drv'.op = "erase" /\ drv'.pos = drv.pos /\ drv'.end = drv.end /\ drv'.idx = drv.idx
    BY <2>3, GotoIs
  <2>10. \A j \in 0 .. N - 1 : chip'[j].cells = chip[j].cells
    BY <1>1, <2>6, <2>8
  <2>11. Border(N) /\ drv.end = N * P /\ Blanked(N, P)
    BY <1>8, <2>4 DEF EraseInv
  <2>12. Border(N)' /\ Blanked(N, P)'
    BY <2>9, <2>10, <2>11, SameCells DEF Border
  <2>13. chip'[drv'.idx].wel
    BY <1>1, <2>6, <2>8, <2>9
  <2>14. EraseInv(N, P)'
    BY <2>9, <2>11, <2>12, <2>13 DEF EraseInv
  <2> QED
    BY <1>9, <2>4, <2>10, <2>14
<1>12. CASE BlockErase
  <2>1. PICK after : after = Started(chip[drv.idx], "erase", drv.pos \div N)
    OBVIOUS
  <2>2. PICK sent \in BOOLEAN : Send(drv.idx, sent, after) /\ Overlooked(sent)
    BY <1>1, <1>12, <2>1 DEF BlockErase, physPageOf
  <2>3. drv.at = "D8h" /\ Goto("poll") /\ "poll" \in Steps
    BY <1>12 DEF BlockErase, At, Steps
  <2>4. sent /\ unseen = 0
    BY <1>1, <1>7, <2>2, SeenSent
  <2>5. Free(drv.idx)
    BY <1>1, <2>3, <2>4 DEF FreeInv
  <2>6. chip' = [chip EXCEPT ![drv.idx] = after]
    BY <2>2, <2>4, <2>5 DEF Send
  <2>7. chip[drv.idx] \in ChipRecord(P) /\ chip[drv.idx].wel
    BY <1>1, <1>8, <2>3, <2>4 DEF EraseInv
  <2>8. after.busy = "erase" /\ after.target = drv.pos \div N /\ after.cells = chip[drv.idx].cells
    BY <2>1, <2>7 DEF Started, ChipRecord
  <2>9. /\ drv'.at = "poll" /\ drv'.op = "erase" /\ drv'.pos = drv.pos /\ drv'.end = drv.end /\ drv'.idx = drv.idx
    BY <1>1, <2>3, GotoIs
  <2>10. \A j \in 0 .. N - 1 : chip'[j].cells = chip[j].cells
    BY <1>1, <2>6, <2>8
  <2>11. Border(N) /\ drv.end = N * P /\ Blanked(N, P)
    BY <1>8, <2>4 DEF EraseInv
  <2>12. Border(N)' /\ Blanked(N, P)'
    BY <2>9, <2>10, <2>11, SameCells DEF Border
  <2>13. BlockErased(N, P)'
    BY <1>1, <2>6, <2>8, <2>9 DEF BlockErased
  <2>14. EraseInv(N, P)'
    BY <2>9, <2>11, <2>12, <2>13 DEF EraseInv
  <2> QED
    BY <1>9, <2>4, <2>10, <2>14
<1> QED
  BY <1>2, <1>10, <1>11, <1>12
-----------------------------------------------------------------------------
(* A chip ends what it does *)

\* The pages of the region are not in the blocks of the calculation area.
LEMMA RomBelow ==
    ASSUME NEW N \in Nat \ {0}, NEW first \in Nat, NEW p \in RomPage, ROM_PAGES <= first * N
    PROVE  p % N \in 0 .. N - 1 /\ p \div N \in Nat /\ p \div N < first
<1>1. ROM_PAGES \in Nat /\ p \in Nat /\ p < first * N
  <2>1. first * N \in Nat
    OBVIOUS
  <2> QED
    BY <2>1, RomFits DEF RomPage
<1>2. p \div N \in Nat /\ p % N \in 0 .. N - 1 /\ p = ((p \div N) * N) + (p % N)
  BY <1>1
<1>3. PICK q \in Nat, r \in 0 .. N - 1 : q = p \div N /\ p = (q * N) + r
  BY <1>2
<1>4. q < first
  <2>1. ASSUME first <= q PROVE FALSE
    <3>1. first * N <= q * N
      BY <2>1
    <3> QED
      BY <1>1, <1>3, <3>1
  <2> QED
    BY <2>1
<1> QED
  BY <1>2, <1>3, <1>4

LEMMA ChipKeepsContent ==
    ASSUME NEW N \in Nat \ {0}, NEW P \in Nat \ {0}, ROM_PAGES < N * P, TypeInv(N, P), FreeInv(N), UnlockInv(N),
           ContentInv(N, P), ChipStep
    PROVE  ContentInv(N, P)'
<1>1. /\ UNCHANGED <<drv, buffer, unseen, host, answers>> /\ unseen \in Nat
      /\ chip \in [0 .. N - 1 -> ChipRecord(P)] /\ drv \in DrvRecord(N, P) /\ drv.pos \in Nat
      /\ drv.idx \in 0 .. N - 1
  <2>1. UNCHANGED <<drv, unseen, host, answers>>
    BY ChipStepIs
  <2>2. UNCHANGED buffer
    BY DEF ChipStep, ChipDone, ChipFails
  <2> QED
    BY <2>1, <2>2 DEF TypeInv, TroubleInv, DrvInv, DrvRecord
<1>2. CallInv'
  BY <1>1 DEF ContentInv, CallInv
<1>3. CASE unseen # 0
  BY <1>1, <1>2, <1>3 DEF ContentInv, ReadInv, SoundInv, EraseInv, Settled
<1>4. CASE unseen = 0
  <2>1. PICK k \in 0 .. N - 1 :
             /\ ~Free(k) /\ chip'[k].busy = "no" /\ \A j \in 0 .. N - 1 : j # k => chip'[j] = chip[j]
             /\ \/ chip'[k] = Completed(chip[k])
                \/ chip[k].busy # "read" /\ chip'[k].fail /\ chip'[k].cells \in CutShort(chip[k])
    BY ChipEnds
  <2>2. drv.op \in {"open", "read", "write", "erase"} /\ chip[k] \in ChipRecord(P) /\ chip[k].busy # "no"
    BY <1>1, <1>4, <2>1 DEF FreeInv, DrvRecord, Free
  <2>3. drv.op # "erase" => ~Settled'
    BY <1>1, <2>2 DEF Settled, ContentInv, CallInv
  <2>4. CASE drv.op \in {"open", "write"}
    BY <1>1, <1>2, <2>3, <2>4 DEF ContentInv, ReadInv, SoundInv, EraseInv
  <2>5. CASE drv.op = "read"
    <3>1. drv.at = "poll" /\ k = drv.pos % N
      BY <1>4, <2>1, <2>5 DEF FreeInv
    <3>2. chip[k].busy = "read" /\ chip[k].target = drv.pos \div N
      BY <1>4, <2>2, <2>5, <3>1 DEF ContentInv, ReadInv, Fetched
    <3>3. chip'[k].busy = "no" /\ chip'[k].cells = chip[k].cells /\ chip'[k].buf = chip[k].cells[chip[k].target]
      BY <2>1, <2>2, <3>2, ReadEnds
    <3>4. Fetched(N)'
      BY <1>1, <3>1, <3>2, <3>3 DEF Fetched
    <3>5. \A p \in RomPage : Cell(N, p)' = Cell(N, p)
      <4>1. \A p \in RomPage : p % N \in 0 .. N - 1
        BY RomFits DEF RomPage
      <4> QED
        BY <2>1, <3>3, <4>1 DEF Cell
    <3>6. ReadInv(N)'
      BY <1>1, <1>4, <2>5, <3>4, <3>5 DEF ContentInv, ReadInv
    <3> QED
      BY <1>2, <2>3, <2>5, <3>6 DEF ContentInv, SoundInv, EraseInv
  <2>6. CASE drv.op = "erase"
    <3>1. ReadInv(N)'
      BY <1>1, <2>6 DEF ReadInv
    <3>2. SUFFICES ASSUME Settled PROVE SoundInv(N)' /\ EraseInv(N, P)'
      BY <1>1, <1>2, <3>1 DEF ContentInv, SoundInv, EraseInv, Settled
    <3>3. k = drv.idx /\ drv.at = "poll" /\ Unlocked(k)
      BY <1>4, <2>1, <2>6 DEF FreeInv, UnlockInv
    <3>4. Border(N) /\ drv.end = N * P /\ BlockErased(N, P) /\ Blanked(N, P)
      BY <2>6, <3>2, <3>3 DEF ContentInv, EraseInv
    <3>5. PICK first \in Nat : first = drv.pos \div N /\ drv.pos = first * N
      <4>1. \A x \in Nat : x \div N \in Nat /\ x = ((x \div N) * N) + (x % N)
        OBVIOUS
      <4>2. PICK f \in Nat : f = drv.pos \div N /\ drv.pos = (f * N) + (drv.pos % N)
        BY <1>1, <4>1
      <4> QED
        BY <3>4, <4>2 DEF Border
    <3>6. chip[k].busy = "erase" /\ chip[k].target = first /\ first % BLOCK_PAGES = 0
      BY <2>2, <3>3, <3>4, <3>5 DEF BlockErased, Border
    <3>7. /\ \A q \in 0 .. P - 1 : /\ chip[k].cells[q] = {} => chip'[k].cells[q] = {}
                                   /\ ~InBlock(first, q) => chip'[k].cells[q] = chip[k].cells[q]
          /\ chip'[k].fail \/ \A q \in 0 .. P - 1 : InBlock(first, q) => chip'[k].cells[q] = {}
      <4>1. CASE chip'[k] = Completed(chip[k])
        <5>1. \A q \in 0 .. P - 1 : chip'[k].cells[q] = IF InBlock(first, q) THEN {} ELSE chip[k].cells[q]
          BY <2>2, <3>3, <3>6, <4>1, EraseEnds DEF Unlocked
        <5> QED
          BY <5>1
      <4>2. CASE chip'[k].fail /\ chip'[k].cells \in CutShort(chip[k])
        BY <2>2, <3>6, <4>2, EraseEnds
      <4> QED
        BY <2>1, <4>1, <4>2
    <3>8. BlockErased(N, P)'
      BY <1>1, <2>1, <3>3, <3>5, <3>7 DEF BlockErased
    <3>9. Blanked(N, P)'
      <4>1. ASSUME NEW j \in 0 .. N - 1, NEW q \in 0 .. P - 1, chip[j].cells[q] = {} PROVE chip'[j].cells[q] = {}
        BY <2>1, <3>7, <4>1
      <4> QED
        BY <1>1, <3>4, <4>1 DEF Blanked, Passed
    <3>10. SoundInv(N)'
      <4>1. ASSUME NEW p \in RomPage PROVE Cell(N, p)' = Cell(N, p)
        <5>1. p % N \in 0 .. N - 1 /\ p \div N \in Nat /\ p \div N < first
          BY <3>4, <3>5, RomBelow DEF Border
        <5>2. p \div N \in 0 .. P - 1 /\ ~InBlock(first, p \div N)
          <6>1. p \in Nat /\ p < N * P
            <7>1. N * P \in Nat
              OBVIOUS
            <7> QED
              BY <7>1, RomFits DEF RomPage
          <6> QED
            BY <5>1, <6>1, PageParts DEF InBlock
        <5>3. chip'[p % N].cells[p \div N] = chip[p % N].cells[p \div N]
          BY <2>1, <3>7, <5>1, <5>2
        <5> QED
          BY <5>3 DEF Cell
      <4> QED
        BY <1>1, <4>1 DEF ContentInv, SoundInv, Settled
    <3>11. EraseInv(N, P)'
      BY <1>1, <3>3, <3>4, <3>8, <3>9 DEF EraseInv, Border
    <3> QED
      BY <3>10, <3>11
  <2> QED
    BY <2>2, <2>4, <2>5, <2>6
<1> QED
  BY <1>3, <1>4
-----------------------------------------------------------------------------
(* The constructor *)

\* Where nothing is read or settled, only the types are left of the invariant.
Elsewhere(N, P) ==
    /\ buffer' \in [RomPage -> SUBSET Bit]
    /\ host' \notin {"first_read", "read_back", "calc_erase", "running"}
    /\ drv'.op # "read"

LEMMA ElsewhereKeeps ==
    ASSUME NEW N, NEW P, Elsewhere(N, P) PROVE ContentInv(N, P)'
BY DEF Elsewhere, ContentInv, CallInv, ReadInv, SoundInv, EraseInv, Settled

LEMMA DriverKeepsContent ==
    ASSUME NEW N \in Nat \ {0}, NEW P \in Nat \ {0}, ROM_PAGES < N * P, TypeInv(N, P), FreeInv(N),
           ContentInv(N, P), DriverStep
    PROVE  ContentInv(N, P)'
<1>1. Driver /\ host # "down" /\ UNCHANGED <<host, answers>>
  BY DEF DriverStep
<1>2. Stepped(N, P) /\ drv.op # "idle"
  BY <1>1, DriverKeepsTypes
<1>3. drv.op \in {"idle", "open", "read", "write", "erase"}
  BY DEF TypeInv, DrvInv, DrvRecord
<1>4. CASE drv.op = "read"
  BY <1>1, <1>4, ReadKeepsContent
<1>5. CASE drv.op = "erase"
  BY <1>1, <1>5, EraseKeepsContent
<1>6. CASE drv.op \in {"open", "write"}
  <2>1. buffer' = buffer
    BY <1>1, <1>6 DEF Driver, Open, ReadDone, PageRead, PageReadWait, ReadBuf, NextPage, waitChip,
                      WriteEnable, ProgramLoad, ProgramIssue, BlockErase, BlockEraseWait, At
  <2>2. Elsewhere(N, P)
    BY <1>1, <1>2, <1>6, <2>1 DEF Elsewhere, Stepped, ContentInv, CallInv
  <2> QED
    BY <2>2, ElsewhereKeeps
<1> QED
  BY <1>2, <1>3, <1>4, <1>5, <1>6

\* A call of read: nothing is in the buffer yet.
LEMMA ReadBegins ==
    ASSUME NEW N \in Nat \ {0}, NEW P \in Nat \ {0}, ROM_PAGES < N * P, TypeInv(N, P), CallInv,
           CallRead(0, ROM_PAGES), buffer' = buffer, host' \in {"first_read", "read_back"}
    PROVE  ContentInv(N, P)'
<1>1. Begun(N, P, "read", "13h", 0, ROM_PAGES, <<>>)
  <2>1. /\ ROM_PAGES \in Nat /\ 0 \in Nat /\ Chip = 0 .. N - 1 /\ "13h" \in Steps /\ <<>> \in Contents(N, P)
        /\ Call("read", "13h", 0, ROM_PAGES, <<>>)
    BY SizesOf, RomFits DEF TypeInv, Steps, Contents, CallRead
  <2> QED
    BY <2>1, CallIs
<1>2. drv'.op = "read" /\ drv'.at = "13h" /\ drv'.pos = 0 /\ drv'.end = ROM_PAGES
  BY <1>1, RomFits DEF Begun
<1>3. CallInv'
  BY <1>2 DEF CallInv
<1>4. ReadInv(N)'
  BY <1>2 DEF ReadInv, RomPage
<1> QED
  BY <1>3, <1>4 DEF ContentInv, SoundInv, EraseInv, Settled

\* The erase of the calculation area is refused, or begins at its first group.
LEMMA CalcEraseBegins ==
    ASSUME NEW N \in Nat \ {0}, NEW P \in Nat \ {0}, ROM_PAGES < N * P, TypeInv(N, P),
           CallErase(ROM_PAGES, n * CHIP_PAGES - ROM_PAGES), chip' = chip
    PROVE  drv'.op \in {"idle", "erase"} /\ EraseInv(N, P)'
<1>1. /\ Chip = 0 .. N - 1 /\ n = N /\ CHIP_PAGES = P /\ N * P \in Nat /\ ROM_PAGES \in Nat
      /\ "06h" \in Steps /\ <<>> \in Contents(N, P)
  BY SizesOf, RomFits DEF TypeInv, Steps, Contents
<1>2. CASE drv' = [IdleDrv EXCEPT !.answer = "failed"]
  <2>1. Answer(FALSE)
    BY <1>2 DEF Answer
  <2>2. drv'.op = "idle" /\ drv'.answer # "ok"
    BY <2>1, AnswerIs
  <2> QED
    BY <2>2 DEF EraseInv
<1>3. CASE ROM_PAGES % groupSize = 0 /\ Call("erase", "06h", ROM_PAGES, n * CHIP_PAGES - ROM_PAGES, <<>>)
  <2>1. PICK length \in Nat : length = n * CHIP_PAGES - ROM_PAGES /\ ROM_PAGES + length = N * P
    BY <1>1
  <2>2. Begun(N, P, "erase", "06h", ROM_PAGES, length, <<>>)
    <3>1. Call("erase", "06h", ROM_PAGES, length, <<>>)
      BY <1>3, <2>1
    <3> QED
      BY <1>1, <3>1, CallIs
  <2>3. drv'.op = "erase" /\ drv'.at = "06h" /\ drv'.pos = ROM_PAGES /\ drv'.end = N * P /\ drv'.idx = 0
    BY <2>1, <2>2 DEF Begun
  <2>4. ROM_PAGES % N = 0 /\ (ROM_PAGES \div N) % BLOCK_PAGES = 0
    <3>1. ROM_PAGES % (BLOCK_PAGES * N) = 0
      BY <1>1, <1>3 DEF groupSize
    <3>2. \A a \in Nat : a % (BLOCK_PAGES * N) = 0 => a % N = 0 /\ (a \div N) % BLOCK_PAGES = 0
      BY GroupBorder, ChipGeometry
    <3> QED
      BY <1>1, <3>1, <3>2
  <2>5. PICK first \in Nat : first = ROM_PAGES \div N /\ ROM_PAGES = first * N
    <3>1. \A x \in Nat : x \div N \in Nat /\ x = ((x \div N) * N) + (x % N)
      OBVIOUS
    <3>2. PICK f \in Nat : f = ROM_PAGES \div N /\ ROM_PAGES = (f * N) + (ROM_PAGES % N)
      BY <1>1, <3>1
    <3> QED
      BY <2>4, <3>2
  <2>6. Border(N)'
    BY <1>1, <2>3, <2>4 DEF Border
  <2>7. ASSUME NEW j \in 0 .. N - 1, NEW q \in 0 .. P - 1, ROM_PAGES <= (q * N) + j, q < first PROVE FALSE
    <3>1. (q + 1) * N <= first * N
      BY <2>5, <2>7
    <3>2. (q + 1) * N = (q * N) + N /\ (q * N) \in Nat
      OBVIOUS
    <3> QED
      BY <2>5, <2>7, <3>1, <3>2
  <2>8. Blanked(N, P)'
    BY <2>3, <2>5, <2>7 DEF Blanked, Passed
  <2> QED
    BY <2>3, <2>6, <2>8 DEF EraseInv
<1> QED
  BY <1>2, <1>3 DEF CallErase

LEMMA VerifyKeepsContent ==
    ASSUME NEW N \in Nat \ {0}, NEW P \in Nat \ {0}, ROM_PAGES < N * P, TypeInv(N, P),
           ContentInv(N, P), Verify
    PROVE  ContentInv(N, P)'
<1>1. /\ host = "read_back" /\ drv.op = "idle" /\ drv.answer \in {"ok", "failed"}
      /\ answers \in {<<a>> : a \in {"ok", "failed"}} /\ buffer \in [RomPage -> SUBSET Bit]
  BY DEF Verify, Returned, TypeInv, HostInv, Answered, ContentInv, CallInv
<1>2. CASE ~Verified
  <2>1. host' = "down" /\ UNCHANGED <<drv, buffer>>
    BY <1>2 DEF Verify, Exit, Then
  <2> QED
    BY <1>1, <2>1, ElsewhereKeeps DEF Elsewhere
<1>3. CASE Verified
  <2>1. /\ buffer = Image /\ answers' = Append(answers, drv.answer) /\ host' = "calc_erase"
        /\ CallErase(ROM_PAGES, n * CHIP_PAGES - ROM_PAGES) /\ UNCHANGED <<chip, buffer, unseen>>
    BY <1>3 DEF Verify, Then, Verified
  <2>2. answers'[2] = drv.answer
    <3>1. PICK a \in {"ok", "failed"} : answers = <<a>>
      BY <1>1
    <3>2. Append(<<a>>, drv.answer) = <<a, drv.answer>>
      BY <1>1, TwoAnswers
    <3> QED
      BY <2>1, <3>1, <3>2
  <2>3. drv'.op \in {"idle", "erase"} /\ EraseInv(N, P)'
    BY <2>1, CalcEraseBegins
  <2>4. CallInv'
    BY <1>1, <2>1, <2>3 DEF CallInv
  <2>5. ReadInv(N)'
    BY <2>1, <2>3 DEF ReadInv
  <2>6. SoundInv(N)'
    <3>1. ASSUME unseen' = 0, answers'[2] = "ok", NEW p \in RomPage PROVE Cell(N, p)' = Image[p]
      <4>1. buffer[p] = Cell(N, p)
        BY <1>1, <2>1, <2>2, <3>1 DEF ContentInv, ReadInv
      <4> QED
        BY <2>1, <4>1 DEF Cell
    <3> QED
      BY <3>1 DEF SoundInv, Settled
  <2> QED
    BY <2>3, <2>4, <2>5, <2>6 DEF ContentInv
<1> QED
  BY <1>2, <1>3

LEMMA StepKeepsContent ==
    ASSUME NEW N \in Nat \ {0}, NEW P \in Nat \ {0}, ROM_PAGES < N * P, TypeInv(N, P), FreeInv(N), UnlockInv(N),
           ContentInv(N, P), [Next]_vars
    PROVE  ContentInv(N, P)'
<1>1. buffer \in [RomPage -> SUBSET Bit] /\ CallInv
  BY DEF ContentInv, CallInv
<1>2. CASE DriverStep
  BY <1>2, DriverKeepsContent
<1>3. CASE ChipStep
  BY <1>3, ChipKeepsContent
<1>4. CASE Start
  <2>1. Uninitialised \subseteq [RomPage -> SUBSET Bit]
    BY RomFits DEF Uninitialised
  <2>2. host' = "started" /\ drv' = IdleDrv /\ buffer' \in Uninitialised
    BY <1>4 DEF Start
  <2> QED
    BY <2>1, <2>2, ElsewhereKeeps DEF Elsewhere, IdleDrv
<1>5. CASE OpenDevice
  <2>1. host' = "open" /\ buffer' = buffer /\ Call("open", "9Fh", 0, 0, <<>>)
    BY <1>5 DEF OpenDevice, Then
  <2>2. drv'.op = "open"
    BY <2>1, CallKeeps
  <2> QED
    BY <1>1, <2>1, <2>2, ElsewhereKeeps DEF Elsewhere
<1>6. CASE FirstRead
  <2>1. CASE CallRead(0, ROM_PAGES) /\ Then("first_read")
    BY <1>1, <2>1, ReadBegins DEF Then
  <2>2. CASE Exit
    <3>1. host' = "down" /\ buffer' = buffer /\ drv'.op = "idle"
      BY <1>6, <2>2 DEF Exit, Then, FirstRead, Returned
    <3> QED
      BY <1>1, <3>1, ElsewhereKeeps DEF Elsewhere
  <2> QED
    BY <1>6, <2>1, <2>2 DEF FirstRead
<1>7. CASE EraseOrWrite \/ AfterErase
  <2>1. ROM_PAGES \in Nat /\ 0 + ROM_PAGES <= N * P /\ ROM_PAGES > 0 /\ 0 \in Nat
    BY RomFits
  <2>2. CASE host' = "down"
    <3>1. buffer' = buffer /\ drv'.op = "idle"
      BY <1>7, <2>2 DEF EraseOrWrite, AfterErase, Exit, Then, Returned
    <3> QED
      BY <1>1, <2>2, <3>1, ElsewhereKeeps DEF Elsewhere
  <2>3. CASE CallErase(0, ROM_PAGES) /\ Then("rom_erase")
    <3>1. drv'.op \in {"erase", "idle"}
      BY <2>1, <2>3, CallKeeps
    <3> QED
      BY <1>1, <2>3, <3>1, ElsewhereKeeps DEF Elsewhere, Then
  <2>4. CASE CallWrite(0, ROM_PAGES, Image) /\ Then("rom_write")
    <3>1. drv'.op = "write"
      BY <2>4, CallKeeps
    <3> QED
      BY <1>1, <2>4, <3>1, ElsewhereKeeps DEF Elsewhere, Then
  <2> QED
    BY <1>7, <2>2, <2>3, <2>4 DEF EraseOrWrite, AfterErase, Exit, Then
<1>8. CASE ReadBack
  BY <1>1, <1>8, ReadBegins DEF ReadBack, Then
<1>9. CASE Verify
  BY <1>9, VerifyKeepsContent
<1>10. CASE Run
  <2>1. host = "calc_erase" /\ host' = "running" /\ drv.op = "idle" /\ UNCHANGED <<chip, drv, buffer, unseen, answers>>
    BY <1>10 DEF Run, Then, Returned
  <2> QED
    BY <2>1 DEF ContentInv, CallInv, ReadInv, SoundInv, EraseInv, Settled, Blanked, Passed, Cell
<1>11. CASE Compute
  <2>1. host' = "computing" /\ buffer' = buffer
    BY <1>11 DEF Compute, Then
  <2>2. drv'.op # "read"
    BY <1>11, ComputeIs
  <2> QED
    BY <1>1, <2>1, <2>2, ElsewhereKeeps DEF Elsewhere
<1>12. CASE PowerFails
  <2>1. host' = "down" /\ buffer' = buffer /\ drv' = IdleDrv
    BY <1>12 DEF PowerFails
  <2> QED
    BY <1>1, <2>1, ElsewhereKeeps DEF Elsewhere, IdleDrv
<1>13. CASE Killed
  <2>1. host' = "down" /\ UNCHANGED <<chip, drv, buffer, unseen>>
    BY <1>13 DEF Killed
  <2> QED
    BY <2>1 DEF ContentInv, CallInv, ReadInv, SoundInv, EraseInv, Settled, Fetched, Cell
<1>14. CASE UNCHANGED vars
  BY <1>14 DEF vars, spiVars, ContentInv, CallInv, ReadInv, SoundInv, EraseInv, Settled, Fetched, Cell, Border,
               BlockErased, Blanked, Passed
<1> QED
  BY <1>2, <1>3, <1>4, <1>5, <1>6, <1>7, <1>8, <1>9, <1>10, <1>11, <1>12, <1>13, <1>14 DEF Next, Constructor
-----------------------------------------------------------------------------
(* Failures *)

\* Without a fault no chip fails, and the erase of the calculation area is done
\* or refused.
Refused(N, P) == ROM_PAGES % (BLOCK_PAGES * N) # 0 \/ (N * P - ROM_PAGES) % (BLOCK_PAGES * N) # 0
FaultInv(N, P) ==
    trouble = 0 =>
      /\ \A k \in 0 .. N - 1 : ~chip[k].fail
      /\ host \in {"calc_erase", "running"} /\ drv.op = "idle" => drv.answer = "ok" \/ Refused(N, P)

\* No message makes a chip fail, and nothing but the status of a failed chip or a
\* fault ends an erase early.
LEMMA DriverFaults ==
    ASSUME NEW N \in Nat \ {0}, NEW P \in Nat \ {0}, TypeInv(N, P), Driver
    PROVE  /\ trouble <= trouble'
           /\ \A k \in 0 .. N - 1 : chip'[k].fail => chip[k].fail
           /\ drv.op = "erase" /\ drv'.op = "idle" =>
                drv'.answer = "ok" \/ trouble < trouble' \/ \E k \in 0 .. N - 1 : chip[k].fail
<1>1. /\ chip \in [0 .. N - 1 -> ChipRecord(P)] /\ drv \in DrvRecord(N, P) /\ drv.idx \in 0 .. N - 1
      /\ trouble \in Nat /\ n = N
  BY SizesOf, SpiGeometry DEF TypeInv, DrvInv, DrvRecord, TroubleInv
<1>2. ASSUME NEW k \in 0 .. N - 1, NEW sent, NEW after, Send(k, sent, after), after.fail => chip[k].fail
      PROVE  trouble <= trouble' /\ \A j \in 0 .. N - 1 : chip'[j].fail => chip[j].fail
  BY <1>1, <1>2 DEF Send, Trouble
<1>3. ASSUME NEW c \in ChipRecord(P)
      PROVE  /\ Latched(c).fail => c.fail
             /\ \A content : Loaded(c, content).fail => c.fail
             /\ \A page : Reading(c, page).fail => c.fail
             /\ \A what, page : Started(c, what, page).fail => c.fail
             /\ [c EXCEPT !.protected = FALSE].fail => c.fail
             /\ [c EXCEPT !.ecc = FALSE].fail => c.fail
  BY <1>3 DEF Latched, Loaded, Reading, Started, ChipRecord
<1>4. CASE Open
  <2>1. PICK sent \in BOOLEAN : Send(drv.idx, sent,
           CASE drv.at = "A0_write" -> [chip[drv.idx] EXCEPT !.protected = FALSE]
             [] drv.at = "B0_write" -> [chip[drv.idx] EXCEPT !.ecc = FALSE]
             [] OTHER               -> chip[drv.idx])
    BY <1>4 DEF Open
  <2>2. drv.op = "open"
    BY <1>4 DEF Open
  <2> DEFINE after == CASE drv.at = "A0_write" -> [chip[drv.idx] EXCEPT !.protected = FALSE]
                        [] drv.at = "B0_write" -> [chip[drv.idx] EXCEPT !.ecc = FALSE]
                        [] OTHER               -> chip[drv.idx]
  <2>3. after.fail => chip[drv.idx].fail
    BY <1>1, <1>3
  <2> HIDE DEF after
  <2> QED
    BY <1>1, <1>2, <2>1, <2>2, <2>3 DEF after
<1>5. CASE PageRead
  <2>1. drv.pos % N \in 0 .. N - 1
    BY <1>1 DEF DrvRecord
  <2>2. PICK sent \in BOOLEAN : Send(drv.pos % N, sent, Reading(chip[drv.pos % N], physPageOf(drv.pos)))
    BY <1>1, <1>5 DEF PageRead, chipIndexOf
  <2>3. Reading(chip[drv.pos % N], physPageOf(drv.pos)).fail => chip[drv.pos % N].fail
    BY <1>1, <1>3, <2>1
  <2> QED
    BY <1>2, <1>5, <2>1, <2>2, <2>3 DEF PageRead, At
<1>6. CASE ReadBuf
  <2>1. drv.pos % N \in 0 .. N - 1
    BY <1>1 DEF DrvRecord
  <2>2. PICK sent \in BOOLEAN : Send(drv.pos % N, sent, chip[drv.pos % N])
    BY <1>1, <1>6 DEF ReadBuf, chipIndexOf
  <2> QED
    BY <1>2, <1>6, <2>1, <2>2 DEF ReadBuf, At
<1>7. CASE WriteEnable
  <2>1. PICK sent \in BOOLEAN : Send(drv.idx, sent, Latched(chip[drv.idx]))
    BY <1>7 DEF WriteEnable
  <2>2. drv'.op = drv.op
    BY <1>1, <1>7 DEF WriteEnable, Goto, DrvRecord
  <2> QED
    BY <1>1, <1>2, <1>3, <1>7, <2>1, <2>2 DEF WriteEnable
<1>8. CASE ProgramLoad
  <2>1. PICK sent \in BOOLEAN : Send(drv.idx, sent, Loaded(chip[drv.idx], drv.data[drv.pos]))
    BY <1>8 DEF ProgramLoad
  <2> QED
    BY <1>1, <1>2, <1>3, <1>8, <2>1 DEF ProgramLoad, At
<1>9. CASE ProgramIssue
  <2>1. PICK sent \in BOOLEAN : Send(drv.idx, sent, Started(chip[drv.idx], "program", physPageOf(drv.pos)))
    BY <1>9 DEF ProgramIssue
  <2> QED
    BY <1>1, <1>2, <1>3, <1>9, <2>1 DEF ProgramIssue, At
<1>10. CASE BlockErase
  <2>1. PICK sent \in BOOLEAN : Send(drv.idx, sent, Started(chip[drv.idx], "erase", physPageOf(drv.pos)))
    BY <1>10 DEF BlockErase
  <2>2. drv'.op = drv.op
    BY <1>1, <1>10 DEF BlockErase, Goto, DrvRecord
  <2> QED
    BY <1>1, <1>2, <1>3, <1>10, <2>1, <2>2 DEF BlockErase, At
<1>11. CASE ReadDone \/ NextPage
  <2>1. drv.op \in {"read", "write"} /\ UNCHANGED <<chip, trouble>>
    BY <1>11 DEF ReadDone, NextPage, At
  <2> QED
    BY <1>1, <2>1
<1>12. CASE PageReadWait
  BY <1>1, <1>12 DEF PageReadWait, WaitEnds, Trouble, At
<1>13. CASE waitChip
  BY <1>1, <1>13 DEF waitChip, WaitEnds, Trouble, At
<1>14. CASE BlockEraseWait
  <2>1. PICK result \in {"ready", "failed", "timeout"} :
           /\ WaitEnds(drv.idx, result)
           /\ result = "ready" => drv'.op = drv.op \/ Answer(TRUE)
    BY <1>1, <1>14 DEF BlockEraseWait, DrvRecord
  <2>2. chip' = chip /\ drv.op = "erase"
    BY <1>14 DEF BlockEraseWait, At
  <2>3. Answer(TRUE) => drv'.answer = "ok"
    BY DEF Answer, IdleDrv
  <2>4. \/ trouble' = trouble /\ result = IF chip[drv.idx].fail THEN "failed" ELSE "ready"
        \/ trouble' = trouble + 1
    BY <2>1 DEF WaitEnds, Trouble
  <2>5. drv'.op = "idle" /\ result = "ready" => drv'.answer = "ok"
    BY <2>1, <2>2, <2>3
  <2>6. drv'.op = "idle" => drv'.answer = "ok" \/ trouble < trouble' \/ chip[drv.idx].fail
    BY <1>1, <2>4, <2>5
  <2>7. trouble <= trouble'
    BY <1>1, <2>4
  <2> QED
    BY <1>1, <2>2, <2>6, <2>7
<1> QED
  BY <1>4, <1>5, <1>6, <1>7, <1>8, <1>9, <1>10, <1>11, <1>12, <1>13, <1>14 DEF Driver

\* An unprotected chip ends what it does without failing.
LEMMA CompletedWell ==
    ASSUME NEW P \in Nat \ {0}, NEW c \in ChipRecord(P), ~c.protected, ~c.fail
    PROVE  ~Completed(c).fail
<1>1. CASE c.busy = "read"
  BY <1>1 DEF Completed, ChipRecord
<1>2. CASE c.busy # "read"
  <2>1. PICK cells : Completed(c) = Ended(c, cells)
    BY <1>2 DEF Completed
  <2> QED
    BY <2>1 DEF Ended, ChipRecord
<1> QED
  BY <1>1, <1>2

LEMMA StepKeepsFaults ==
    ASSUME NEW N \in Nat \ {0}, NEW P \in Nat \ {0}, ROM_PAGES < N * P, TypeInv(N, P), FreeInv(N), UnlockInv(N),
           CallInv, FaultInv(N, P), [Next]_vars
    PROVE  FaultInv(N, P)'
<1>1. /\ trouble \in Nat /\ (trouble = 0 => unseen = 0) /\ n = N /\ CHIP_PAGES = P /\ Chip = 0 .. N - 1
      /\ chip \in [0 .. N - 1 -> ChipRecord(P)] /\ drv.op \in {"idle", "open", "read", "write", "erase"}
  BY SizesOf, SpiGeometry DEF TypeInv, TroubleInv, DrvInv, DrvRecord
<1>2. CASE DriverStep
  <2>1. /\ trouble <= trouble' /\ \A k \in 0 .. N - 1 : chip'[k].fail => chip[k].fail
        /\ drv.op = "erase" /\ drv'.op = "idle" =>
             drv'.answer = "ok" \/ trouble < trouble' \/ \E k \in 0 .. N - 1 : chip[k].fail
    BY <1>2, DriverFaults DEF DriverStep
  <2>2. trouble' \in Nat /\ drv.op # "idle" /\ drv'.op \in {drv.op, "idle"} /\ host' = host
    BY <1>2, DriverKeepsTypes, SpiGeometry DEF DriverStep, Stepped, TroubleInv
  <2>3. host \in {"calc_erase", "running"} => drv.op \in {"idle", "erase"}
    BY DEF CallInv
  <2> QED
    BY <1>1, <2>1, <2>2, <2>3 DEF FaultInv
<1>3. CASE ChipStep
  <2>1. PICK k \in 0 .. N - 1 : ChipDone(k) \/ ChipFails(k)
    BY <1>1, <1>3 DEF ChipStep
  <2>2. CASE ChipFails(k)
    BY <1>1, <2>2 DEF ChipFails, Trouble, FaultInv
  <2>3. CASE ChipDone(k)
    <3>1. chip' = [chip EXCEPT ![k] = Completed(chip[k])] /\ ~Free(k) /\ UNCHANGED <<trouble, drv, host>>
      BY <1>3, <2>3 DEF ChipDone, ChipStep
    <3>2. trouble = 0 => Unlocked(k)
      BY <1>1, <3>1 DEF FreeInv, UnlockInv
    <3>3. trouble = 0 => ~Completed(chip[k]).fail
      BY <1>1, <3>2, CompletedWell DEF FaultInv, Unlocked
    <3> QED
      BY <1>1, <3>1, <3>3 DEF FaultInv
  <2> QED
    BY <2>1, <2>2, <2>3
<1>4. CASE PowerFails \/ Killed
  BY <1>1, <1>4 DEF PowerFails, Killed, Trouble, FaultInv
<1>5. CASE Verify
  <2>1. UNCHANGED <<chip, trouble>> /\ (host' = "calc_erase" => CallErase(ROM_PAGES, n * CHIP_PAGES - ROM_PAGES))
        /\ host' \in {"down", "calc_erase"}
    BY <1>5 DEF Verify, Then, Exit
  <2>2. CallErase(ROM_PAGES, N * P - ROM_PAGES) /\ drv'.op = "idle" => Refused(N, P)
    BY <1>1 DEF CallErase, Call, IdleDrv, Refused, groupSize
  <2> QED
    BY <1>1, <2>1, <2>2 DEF FaultInv
<1>6. CASE Start \/ Compute \/ (Constructor /\ ~Verify)
  BY <1>6 DEF Start, Compute, Constructor, OpenDevice, FirstRead, EraseOrWrite, AfterErase, ReadBack, Run, Then, Exit,
              Returned, FaultInv
<1>7. CASE UNCHANGED vars
  BY <1>7 DEF vars, spiVars, FaultInv
<1> QED
  BY <1>2, <1>3, <1>4, <1>5, <1>6, <1>7 DEF Next
-----------------------------------------------------------------------------
BootContent == \E N, P \in Nat \ {0} : Sized(N, P) /\ ContentInv(N, P) /\ FaultInv(N, P)

LEMMA InitContent == ASSUME Init PROVE BootContent
<1>1. PICK N \in Nat \ {0}, P \in Nat \ {0} :
         ROM_PAGES < N * P /\ TypeInv(N, P) /\ \A k \in 0 .. N - 1 : Free(k) /\ ~chip[k].fail
  BY InitTypes
<1>2. Sized(N, P)
  <2>1. host = "down" /\ drv.op = "idle"
    BY DEF Init, IdleDrv
  <2> QED
    BY <1>1, <2>1 DEF Sized, FreeInv, UnlockInv, Answered, PlaceInv
<1>3. ContentInv(N, P) /\ FaultInv(N, P)
  <2>1. Uninitialised \subseteq [RomPage -> SUBSET Bit]
    BY RomFits DEF Uninitialised
  <2>2. buffer \in [RomPage -> SUBSET Bit] /\ drv.op = "idle" /\ host = "down"
    BY <2>1 DEF Init, IdleDrv
  <2> QED
    BY <1>1, <2>2 DEF ContentInv, CallInv, ReadInv, SoundInv, EraseInv, Settled, FaultInv
<1> QED
  BY <1>2, <1>3 DEF BootContent

LEMMA BootContentHolds == Spec => []BootContent
<1>1. Init => BootContent
  BY InitContent
<1>2. BootContent /\ [Next]_vars => BootContent'
  <2> SUFFICES ASSUME BootContent, [Next]_vars PROVE BootContent'
    OBVIOUS
  <2>1. PICK N \in Nat \ {0}, P \in Nat \ {0} : Sized(N, P) /\ ContentInv(N, P) /\ FaultInv(N, P)
    BY DEF BootContent
  <2>2. ROM_PAGES < N * P /\ TypeInv(N, P) /\ FreeInv(N) /\ UnlockInv(N) /\ PlaceInv(N)
    BY <2>1 DEF Sized
  <2>3. TypeInv(N, P)' /\ FreeInv(N)' /\ UnlockInv(N)' /\ PlaceInv(N)'
    BY <2>2, StepKeepsTypes, StepKeepsFree, StepKeepsUnlocked, StepKeepsPlace
  <2>4. ContentInv(N, P)'
    BY <2>1, <2>2, StepKeepsContent
  <2>5. Sized(N, P)'
    BY <2>2, <2>3 DEF Sized
  <2>6. FaultInv(N, P)'
    BY <2>1, <2>2, StepKeepsFaults DEF ContentInv
  <2> QED
    BY <2>4, <2>5, <2>6 DEF BootContent
<1> QED
  BY <1>1, <1>2, PTL DEF Spec

\* The pages of the logical device and the cells of its chips.
LEMMA PagesAre ==
    ASSUME NEW N \in Nat \ {0}, NEW P \in Nat \ {0}, ROM_PAGES < N * P, TypeInv(N, P)
    PROVE  /\ LogicalPage = 0 .. N * P - 1 /\ RomPage \subseteq LogicalPage
           /\ \A p \in LogicalPage : pages[p] = Cell(N, p)
<1>1. n = N /\ CHIP_PAGES = P /\ N * P \in Nat /\ ROM_PAGES \in Nat
  BY SizesOf, RomFits DEF TypeInv
<1> QED
  BY <1>1 DEF LogicalPage, RomPage, pages, Cell, chipIndexOf, physPageOf

\* cpu.hpp compares what it reads back and ignores the answers of the driver.  Even
\* so a CPU that runs has its image in the flash, whatever was there before, if the
\* second read was good and every fault showed: the write is not trusted.
THEOREM RunsOnItsImage == Spec => []BootedSound
<1>1. BootContent => BootedSound
  <2> SUFFICES ASSUME BootContent, host = "running", unseen = 0, answers[2] = "ok" PROVE RomRegion = Image
    BY DEF BootedSound
  <2>1. PICK N \in Nat \ {0}, P \in Nat \ {0} : Sized(N, P) /\ ContentInv(N, P)
    BY DEF BootContent
  <2>2. \A p \in RomPage : Cell(N, p) = Image[p]
    BY <2>1 DEF ContentInv, SoundInv, Settled
  <2>3. \A p \in RomPage : pages[p] = Image[p]
    BY <2>1, <2>2, PagesAre DEF Sized
  <2> QED
    BY <2>3, RomFits DEF RomRegion
<1> QED
  BY <1>1, BootContentHolds, PTL

\* The erase of W25NSpiFlashDevice.hpp goes over the groups of blocks and stops at
\* the first that fails, and CPU::erase only prints that it did.  A CPU that runs on
\* an area that is not blank has got "failed" for an answer, and that takes a fault
\* or an area that is no whole number of groups: without either, whatever the number
\* of chips and of blocks, every page of the area is blank.
THEOREM CalculationAreaBlank == Spec => []CalcFresh
<1>1. BootContent => CalcFresh
  <2> SUFFICES ASSUME BootContent, host = "running", unseen = 0
               PROVE  \/ \A p \in CalcPage : pages[p] = {}
                      \/ drv.answer = "failed" /\ (trouble > 0 \/ CalcRefused)
    BY DEF CalcFresh
  <2>1. PICK N \in Nat \ {0}, P \in Nat \ {0} : Sized(N, P) /\ ContentInv(N, P) /\ FaultInv(N, P)
    BY DEF BootContent
  <2>2. drv.op = "idle" /\ drv.answer \in {"ok", "failed"}
    BY <2>1 DEF Sized, TypeInv, HostInv, Answered, ContentInv, CallInv
  <2>3. ASSUME drv.answer = "ok", NEW p \in CalcPage PROVE pages[p] = {}
    <3>1. /\ p \in LogicalPage /\ pages[p] = Cell(N, p) /\ N * P \in Nat
          /\ p \in Nat /\ p < N * P /\ ROM_PAGES <= p
      <4>1. LogicalPage = 0 .. N * P - 1 /\ \A x \in LogicalPage : pages[x] = Cell(N, x)
        BY <2>1, PagesAre DEF Sized
      <4> QED
        BY <4>1, RomFits DEF CalcPage, RomPage
    <3>2. Blanked(N, P)
      BY <2>1, <2>2, <2>3 DEF ContentInv, EraseInv, Settled
    <3>3. PICK j \in 0 .. N - 1, q \in 0 .. P - 1 : j = p % N /\ q = p \div N /\ p = (q * N) + j
      BY <3>1, PageParts
    <3>4. chip[j].cells[q] = {}
      BY <2>2, <3>1, <3>2, <3>3 DEF Blanked, Passed
    <3> QED
      BY <3>1, <3>3, <3>4 DEF Cell
  <2>4. ASSUME drv.answer = "failed" PROVE trouble > 0 \/ CalcRefused
    <3>1. n = N /\ CHIP_PAGES = P /\ trouble \in Nat
      BY <2>1, SizesOf, SpiGeometry DEF Sized, TypeInv, TroubleInv
    <3>2. trouble = 0 => Refused(N, P)
      BY <2>1, <2>2, <2>4 DEF FaultInv
    <3> QED
      BY <3>1, <3>2 DEF CalcRefused, Refused, groupSize
  <2> QED
    BY <2>2, <2>3, <2>4
<1> QED
  BY <1>1, BootContentHolds, PTL
-----------------------------------------------------------------------------
(* The device that the constructor sees *)

\* The pages of the operation that are not done, for N chips.
Programs(N, p) == drv.pendingPage[p % N] = p \div N /\ chip[p % N].busy = "program"
Unerased(N, p) == \/ p >= drv.pos + (BLOCK_PAGES * N)
                  \/ p % N > drv.idx
                  \/ p % N = drv.idx /\ ~(drv.at = "poll" /\ Free(drv.idx))
Left(N) == CASE drv.op = "read"  -> drv.pos .. drv.end - 1
             [] drv.op = "write" -> drv.pos .. drv.end - 1 \cup {p \in 0 .. drv.pos - 1 : Programs(N, p)}
             [] drv.op = "erase" -> {p \in drv.pos .. drv.end - 1 : Unerased(N, p)}
             [] OTHER -> {}

\* The chips do what the driver believes, as long as every fault shows.
DutyInv(N) ==
    unseen = 0 =>
      /\ drv.op # "write" => drv.ok
      /\ \A k \in 0 .. N - 1 : chip[k].busy \in {"program", "erase"} => ~chip[k].fail
      /\ drv.op = "write" =>
           /\ drv.at \in {"02h", "10h"} => chip[drv.idx].wel
           /\ drv.at = "10h" => chip[drv.idx].buf = drv.data[drv.pos]
           /\ \A k \in 0 .. N - 1 :
                /\ drv.pendingPage[k] # NoPage => (drv.pendingPage[k] * N) + k < drv.pos
                /\ ~Free(k) => /\ chip[k].busy = "program" /\ chip[k].target = drv.pendingPage[k]
                               /\ chip[k].buf = drv.data[(chip[k].target * N) + k]
      /\ drv.op = "erase" =>
           /\ drv.pos % (BLOCK_PAGES * N) = 0 /\ drv.end % (BLOCK_PAGES * N) = 0
           /\ drv.at = "D8h" => chip[drv.idx].wel
           /\ drv.at = "poll" /\ ~Free(drv.idx) => chip[drv.idx].busy = "erase" /\ chip[drv.idx].target = drv.pos \div N

DeviceStep == [Device!Next]_(Device!vars)

\* A step of a program that no fault has escaped.
Seen(N, P) == /\ ROM_PAGES < N * P /\ TypeInv(N, P) /\ TypeInv(N, P)' /\ FreeInv(N) /\ FreeInv(N)'
              /\ ContentInv(N, P) /\ ContentInv(N, P)' /\ DutyInv(N)
              /\ unseen = 0 /\ unseen' = 0

LEMMA SizesNext ==
    ASSUME NEW N \in Nat \ {0}, NEW P \in Nat \ {0}, chip' \in [0 .. N - 1 -> ChipRecord(P)]
    PROVE  Chip' = 0 .. N - 1 /\ n' = N /\ CHIP_PAGES' = P
<1>1. Chip' = 0 .. N - 1 /\ 0 \in Chip'
  BY DEF Chip
<1>2. DOMAIN chip'[0].cells = 0 .. P - 1
  BY <1>1 DEF ChipRecord
<1>3. \A m \in Nat \ {0} : Cardinality(0 .. m - 1) = m
  BY FS_Interval
<1> QED
  BY <1>1, <1>2, <1>3 DEF n, CHIP_PAGES

LEMMA DeviceIs ==
    ASSUME NEW N \in Nat \ {0}, NEW P \in Nat \ {0}, TypeInv(N, P), TypeInv(N, P)'
    PROVE  /\ pages = [p \in 0 .. N * P - 1 |-> Cell(N, p)]
           /\ pages' = [p \in 0 .. N * P - 1 |-> Cell(N, p)']
           /\ ToDo = Left(N) /\ ToDo' = Left(N)'
<1>1. n = N /\ CHIP_PAGES = P /\ n' = N /\ CHIP_PAGES' = P
  BY SizesOf, SizesNext DEF TypeInv
<1>2. pages = [p \in 0 .. N * P - 1 |-> Cell(N, p)] /\ pages' = [p \in 0 .. N * P - 1 |-> Cell(N, p)']
  BY <1>1 DEF pages, LogicalPage, chipIndexOf, physPageOf, Cell
<1>3. ToDo = Left(N)
  BY <1>1, Zenon DEF ToDo, Left, Programs, Unerased, chipIndexOf, physPageOf, groupSize
<1>4. ToDo' = Left(N)'
  BY <1>1, Zenon DEF ToDo, Left, Programs, Unerased, chipIndexOf, physPageOf, groupSize
<1> QED
  BY <1>2, <1>3, <1>4

CellsStay(N, P) == \A p \in 0 .. N * P - 1 : Cell(N, p)' = Cell(N, p)
SamePages(N, P) == CellsStay(N, P) /\ buffer' = buffer

LEMMA Stutters ==
    ASSUME NEW N \in Nat \ {0}, NEW P \in Nat \ {0}, Seen(N, P), SamePages(N, P), drv'.op = drv.op, drv'.data = drv.data,
           drv'.answer = drv.answer, Left(N)' = Left(N), Failed' <=> Failed
    PROVE  DeviceStep
<1>1. pages' = pages /\ ToDo' = ToDo
  BY DeviceIs DEF Seen, SamePages, CellsStay
<1> QED
  BY <1>1 DEF DeviceStep, Device!vars, Seen, SamePages

LEMMA Breaks ==
    ASSUME NEW N \in Nat \ {0}, NEW P \in Nat \ {0}, TypeInv(N, P)', unseen' # 0
    PROVE  DeviceStep
<1>1. unseen' > 0
  BY SpiGeometry DEF TypeInv, TroubleInv
<1> QED
  BY <1>1 DEF DeviceStep, Device!Next, Device!Break

LEMMA Begins ==
    ASSUME NEW N \in Nat \ {0}, NEW P \in Nat \ {0}, Seen(N, P), SamePages(N, P), drv.op = "idle",
           drv'.op # "idle" \/ drv'.answer = "failed", ~Failed'
    PROVE  DeviceStep
<1>1. pages' = pages
  BY DeviceIs DEF Seen, SamePages, CellsStay
<1>2. CASE drv'.op # "idle"
  BY <1>1, <1>2 DEF DeviceStep, Device!Next, Device!Begin, Device!Idle, Seen, SamePages
<1>3. CASE drv'.op = "idle"
  BY <1>1, <1>3 DEF DeviceStep, Device!Next, Device!Refuse, Device!Idle, Seen, SamePages
<1> QED
  BY <1>2, <1>3

LEMMA Ends ==
    ASSUME NEW N \in Nat \ {0}, NEW P \in Nat \ {0}, Seen(N, P), SamePages(N, P), drv.op # "idle", drv'.op = "idle",
           drv'.answer = "ok" => Left(N) = {} /\ ~Failed
    PROVE  DeviceStep
<1>1. pages' = pages /\ ToDo = Left(N)
  BY DeviceIs DEF Seen, SamePages, CellsStay
<1>2. Device!End
  BY <1>1 DEF Device!End, Device!Idle, Seen, SamePages
<1> QED
  BY <1>2 DEF DeviceStep, Device!Next

\* The pages of an operation that stops half-way.
HalfDone(N, P) ==
    \A p \in 0 .. N * P - 1 : /\ Cell(N, p)' # Cell(N, p) => p \in Left(N)
                              /\ p \in Left(N) => Device!Partial(p, Cell(N, p)')

LEMMA HalfDoneIs ==
    ASSUME NEW N \in Nat \ {0}, NEW P \in Nat \ {0}, TypeInv(N, P), TypeInv(N, P)',
           HalfDone(N, P), Left(N) \subseteq 0 .. N * P - 1
    PROVE  Device!OnlyIn(ToDo) /\ \A p \in ToDo : Device!Partial(p, pages'[p])
<1>1. /\ pages = [p \in 0 .. N * P - 1 |-> Cell(N, p)]
      /\ pages' = [p \in 0 .. N * P - 1 |-> Cell(N, p)'] /\ ToDo = Left(N)
  BY DeviceIs
<1>2. DOMAIN pages' = DOMAIN pages /\ DOMAIN pages = 0 .. N * P - 1
  BY <1>1
<1>3. \A p \in 0 .. N * P - 1 : pages[p] = Cell(N, p) /\ pages'[p] = Cell(N, p)'
  BY <1>1
<1>4. Device!OnlyIn(ToDo)
  BY <1>1, <1>2, <1>3 DEF Device!OnlyIn, HalfDone
<1>5. \A p \in ToDo : Device!Partial(p, pages'[p])
  BY <1>1, <1>3 DEF HalfDone
<1> QED
  BY <1>4, <1>5

LEMMA Spoils ==
    ASSUME NEW N \in Nat \ {0}, NEW P \in Nat \ {0}, Seen(N, P), HalfDone(N, P), Left(N) \subseteq 0 .. N * P - 1,
           drv.op # "idle", drv'.op = drv.op, Failed', buffer' = buffer
    PROVE  DeviceStep
<1>1. Device!OnlyIn(ToDo) /\ \A p \in ToDo : Device!Partial(p, pages'[p])
  BY HalfDoneIs DEF Seen
<1>2. Device!Spoil
  BY <1>1 DEF Device!Spoil, Device!Idle, Seen
<1> QED
  BY <1>2 DEF DeviceStep, Device!Next

LEMMA Aborts ==
    ASSUME NEW N \in Nat \ {0}, NEW P \in Nat \ {0}, TypeInv(N, P), TypeInv(N, P)',
           HalfDone(N, P), Left(N) \subseteq 0 .. N * P - 1,
           drv'.op = "idle", drv'.answer = "none"
    PROVE  DeviceStep
<1>1. Device!OnlyIn(ToDo) /\ \A p \in ToDo : Device!Partial(p, pages'[p])
  BY HalfDoneIs
<1>2. Device!Abort
  BY <1>1 DEF Device!Abort
<1> QED
  BY <1>2 DEF DeviceStep, Device!Next

LEMMA Advances ==
    ASSUME NEW N \in Nat \ {0}, NEW P \in Nat \ {0}, Seen(N, P), NEW done \in SUBSET Left(N), done # {},
           drv'.op = drv.op, drv'.data = drv.data, Failed' <=> Failed, Left(N)' = Left(N) \ done,
           \/ /\ drv.op = "write" /\ buffer' = buffer
              /\ \A p \in 0 .. N * P - 1 :
                    Cell(N, p)' = IF p \in done THEN Cell(N, p) \cup drv.data[p] ELSE Cell(N, p)
           \/ /\ drv.op = "erase" /\ buffer' = buffer
              /\ \A p \in 0 .. N * P - 1 : Cell(N, p)' = IF p \in done THEN {} ELSE Cell(N, p)
           \/ /\ drv.op = "read" /\ CellsStay(N, P) /\ done \subseteq 0 .. N * P - 1
              /\ buffer' = [p \in DOMAIN buffer |-> IF p \in done THEN Cell(N, p) ELSE buffer[p]]
    PROVE  DeviceStep
<1>1. /\ pages = [p \in 0 .. N * P - 1 |-> Cell(N, p)]
      /\ pages' = [p \in 0 .. N * P - 1 |-> Cell(N, p)'] /\ ToDo = Left(N) /\ ToDo' = Left(N)'
  BY DeviceIs DEF Seen
<1>2. DOMAIN pages = 0 .. N * P - 1 /\ \A p \in 0 .. N * P - 1 : pages[p] = Cell(N, p)
  BY <1>1
<1>3. ToDo \ ToDo' = done /\ ToDo' \subseteq ToDo /\ ToDo' # ToDo
  BY <1>1
<1>4. /\ drv.op = "write" => pages' = [p \in DOMAIN pages |-> IF p \in done THEN pages[p] \cup drv.data[p] ELSE pages[p]]
      /\ drv.op = "erase" => pages' = [p \in DOMAIN pages |-> IF p \in done THEN {} ELSE pages[p]]
      /\ drv.op = "read" => pages' = pages
  BY <1>1, <1>2 DEF CellsStay
<1>5. drv.op = "read" => buffer' = [p \in DOMAIN buffer |-> IF p \in done THEN pages[p] ELSE buffer[p]]
  BY <1>2
<1>6. drv.op \in {"write", "erase", "read"} /\ (drv.op # "read" => buffer' = buffer)
  OBVIOUS
<1>7. Device!Advance
  BY <1>3, <1>4, <1>5, <1>6 DEF Device!Advance, Seen
<1> QED
  BY <1>7 DEF DeviceStep, Device!Next

LEMMA PartialIs ==
    ASSUME NEW N \in Nat \ {0}, NEW P \in Nat \ {0}, TypeInv(N, P), NEW p \in 0 .. N * P - 1, NEW content
    PROVE  Device!Partial(p, content) <=>
             CASE drv.op = "write" -> Cell(N, p) \subseteq content /\ content \subseteq Cell(N, p) \cup drv.data[p]
               [] drv.op = "erase" -> content \subseteq Cell(N, p)
               [] OTHER            -> content = Cell(N, p)
<1>1. n = N /\ CHIP_PAGES = P
  BY SizesOf DEF TypeInv
<1>2. pages[p] = Cell(N, p)
  BY <1>1 DEF pages, LogicalPage, chipIndexOf, physPageOf, Cell
<1> QED
  BY <1>2 DEF Device!Partial

LEMMA LeftIn ==
    ASSUME NEW N \in Nat \ {0}, NEW P \in Nat \ {0}, TypeInv(N, P)
    PROVE  /\ Left(N) \subseteq 0 .. N * P - 1
           /\ drv.op \in {"idle", "open"} => Left(N) = {}
<1>1. /\ drv.pos \in Nat /\ drv.end \in Nat /\ drv.pos <= drv.end /\ drv.end <= N * P /\ N * P \in Nat
  BY DEF TypeInv, DrvInv, DrvRecord
<1>2. drv.pos .. drv.end - 1 \subseteq 0 .. N * P - 1 /\ 0 .. drv.pos - 1 \subseteq 0 .. N * P - 1
  BY <1>1
<1> QED
  BY <1>2 DEF Left

LEMMA CellsKept ==
    ASSUME NEW N \in Nat \ {0}, NEW P \in Nat \ {0}, \A k \in 0 .. N - 1 : chip'[k].cells = chip[k].cells
    PROVE  CellsStay(N, P)
<1>1. \A p \in 0 .. N * P - 1 : p % N \in 0 .. N - 1
  OBVIOUS
<1> QED
  BY <1>1 DEF CellsStay, Cell

\* A fault that shows and leaves the pages alone.
LEMMA SpoilsNothing ==
    ASSUME NEW N \in Nat \ {0}, NEW P \in Nat \ {0}, Seen(N, P), SamePages(N, P),
           drv.op # "idle", drv'.op = drv.op, Failed'
    PROVE  DeviceStep
<1>1. TypeInv(N, P) /\ Left(N) \subseteq 0 .. N * P - 1
  BY LeftIn DEF Seen
<1>2. HalfDone(N, P)
  <2> SUFFICES ASSUME NEW p \in 0 .. N * P - 1 PROVE Device!Partial(p, Cell(N, p)')
    BY DEF HalfDone, SamePages, CellsStay
  <2>1. Cell(N, p)' = Cell(N, p)
    BY DEF SamePages, CellsStay
  <2> QED
    BY <1>1, <2>1, PartialIs
<1> QED
  BY <1>1, <1>2, Spoils DEF SamePages

\* The driver answers.
LEMMA IdleDuty ==
    ASSUME NEW N \in Nat \ {0}, FreeInv(N)', unseen' = 0 => drv'.op = "idle" /\ drv'.ok
    PROVE  DutyInv(N)'
BY DEF DutyInv, FreeInv, Free

LEMMA AnswersDevice ==
    ASSUME NEW N \in Nat \ {0}, NEW P \in Nat \ {0}, Seen(N, P), SamePages(N, P), drv.op # "idle",
           NEW ok \in BOOLEAN, Answer(ok), ok => Left(N) = {} /\ ~Failed
    PROVE  DutyInv(N)' /\ DeviceStep
<1>1. drv'.op = "idle" /\ (drv'.answer = "ok" <=> ok)
  BY AnswerIs
<1>2. drv'.ok
  BY DEF Answer, IdleDrv
<1> QED
  BY <1>1, <1>2, IdleDuty, Ends DEF Seen

LEMMA ReadsDevice ==
    ASSUME NEW N \in Nat \ {0}, NEW P \in Nat \ {0}, Seen(N, P), drv.op = "read", Driver
    PROVE  DutyInv(N)' /\ DeviceStep
<1>1. /\ chip \in [0 .. N - 1 -> ChipRecord(P)] /\ drv \in DrvRecord(N, P) /\ n = N /\ TroubleInv
      /\ drv.pos \in Nat /\ drv.end \in Nat /\ drv.end = ROM_PAGES /\ N * P \in Nat /\ ROM_PAGES \in Nat
      /\ drv.at \in {"13h", "poll", "03h"} /\ (drv.at # "13h" => drv.pos < drv.end) /\ drv.end <= N * P
      /\ buffer \in [RomPage -> SUBSET Bit] /\ TypeInv(N, P) /\ unseen = 0 /\ unseen' = 0
      /\ \A k \in 0 .. N - 1 : chip[k] \in ChipRecord(P)
  <2>1. TypeInv(N, P) /\ unseen = 0 /\ unseen' = 0 /\ CallInv
    BY DEF Seen, ContentInv
  <2>2. /\ chip \in [0 .. N - 1 -> ChipRecord(P)] /\ drv \in DrvRecord(N, P) /\ n = N /\ TroubleInv
        /\ drv.at \in {"13h", "poll", "03h"} /\ (drv.at # "13h" => drv.pos < drv.end) /\ drv.end <= N * P
    BY <2>1, SizesOf DEF TypeInv, DrvInv
  <2>3. drv.pos \in Nat /\ drv.end \in Nat /\ N * P \in Nat
    BY <2>2 DEF DrvRecord
  <2>4. ROM_PAGES \in Nat /\ drv.end = ROM_PAGES /\ buffer \in [RomPage -> SUBSET Bit]
    BY <2>1, RomFits DEF CallInv
  <2> QED
    BY <2>1, <2>2, <2>3, <2>4
<1>2. ReadDone \/ PageRead \/ PageReadWait \/ ReadBuf
  BY DEF Driver, Open, NextPage, waitChip, WriteEnable, ProgramLoad, ProgramIssue, BlockErase, BlockEraseWait, At
<1>3. drv.ok /\ \A k \in 0 .. N - 1 : chip[k].busy \in {"program", "erase"} => ~chip[k].fail
  BY <1>1 DEF Seen, DutyInv
<1>4. ~Failed /\ Left(N) = drv.pos .. drv.end - 1
  BY <1>3 DEF Failed, Left
<1>5. drv.pos < drv.end => drv.pos % N \in 0 .. N - 1 /\ drv.pos \div N \in 0 .. P - 1 /\ drv.pos \in RomPage
  <2>1. drv.pos < drv.end => drv.pos < N * P /\ drv.pos \in RomPage
    BY <1>1 DEF RomPage
  <2> QED
    BY <1>1, <2>1, PageParts
<1>6. ASSUME NEW step \in Steps, Goto(step), buffer' = buffer,
             \A k \in 0 .. N - 1 : /\ chip'[k].cells = chip[k].cells
                                   /\ chip'[k].busy \in {"program", "erase"} => ~chip'[k].fail
      PROVE  DutyInv(N)' /\ DeviceStep
  <2>1. /\ drv'.op = "read" /\ drv'.pos = drv.pos /\ drv'.end = drv.end
        /\ drv'.data = drv.data /\ drv'.ok = drv.ok /\ drv'.answer = drv.answer
    BY <1>1, <1>6, GotoIs
  <2>2. DutyInv(N)'
    BY <1>3, <1>6, <2>1 DEF DutyInv
  <2>3. SamePages(N, P)
    BY <1>6, CellsKept DEF SamePages
  <2>4. ~Failed' /\ Left(N)' = drv.pos .. drv.end - 1
    BY <1>3, <2>1 DEF Failed, Left
  <2> QED
    BY <1>4, <2>1, <2>2, <2>3, <2>4, Stutters
<1>7. ASSUME UNCHANGED <<chip, buffer>> PROVE SamePages(N, P)
  BY <1>7, CellsKept DEF SamePages
<1>8. CASE ReadDone
  <2>1. UNCHANGED <<chip, buffer>> /\ Answer(TRUE) /\ ~(drv.pos < drv.end)
    BY <1>8 DEF ReadDone, MoreToRead
  <2>2. Left(N) = {}
    BY <1>1, <1>4, <2>1
  <2> QED
    BY <1>4, <1>7, <2>1, <2>2, AnswersDevice
<1>9. CASE PageRead
  <2>1. drv.pos < drv.end /\ Goto("poll") /\ "poll" \in Steps /\ buffer' = buffer
    BY <1>9 DEF PageRead, MoreToRead, Steps
  <2> DEFINE k == chipIndexOf(drv.pos)   page == physPageOf(drv.pos)
  <2>2. PICK sent \in BOOLEAN : Send(k, sent, Reading(chip[k], page))
    BY <1>9 DEF PageRead
  <2>3. k \in 0 .. N - 1 /\ page \in 0 .. P - 1 /\ chip[k] \in ChipRecord(P)
    BY <1>1, <1>5, <2>1 DEF chipIndexOf, physPageOf
  <2> HIDE DEF k, page
  <2> DEFINE after == Reading(chip[k], page)
  <2>4. after \in ChipRecord(P) /\ after.cells = chip[k].cells /\ after.busy = "read"
    BY <2>3 DEF Reading, ChipRecord
  <2>5. Send(k, sent, after)
    BY <2>2
  <2> HIDE DEF after
  <2>6. /\ \A j \in 0 .. N - 1 : j # k => chip'[j] = chip[j]
        /\ chip'[k] \in {after, chip[k]}
    BY <1>1, <2>3, <2>4, <2>5, SendIs
  <2>7. \A j \in 0 .. N - 1 : /\ chip'[j].cells = chip[j].cells
                              /\ chip'[j].busy \in {"program", "erase"} => ~chip'[j].fail
    BY <1>3, <2>4, <2>6
  <2> QED
    BY <1>6, <2>1, <2>7
<1>10. CASE PageReadWait
  <2>1. UNCHANGED <<chip, buffer>> /\ (Answer(FALSE) \/ Goto("03h")) /\ "03h" \in Steps
    BY <1>10 DEF PageReadWait, Steps
  <2>2. CASE Answer(FALSE)
    BY <1>1, <1>7, <2>1, <2>2, AnswersDevice
  <2>3. CASE Goto("03h")
    BY <1>3, <1>6, <2>1, <2>3
  <2> QED
    BY <2>1, <2>2, <2>3
<1>11. CASE ReadBuf
  <2>1. drv.pos < drv.end /\ drv.at = "03h"
    BY <1>1, <1>11 DEF ReadBuf, At
  <2> DEFINE k == chipIndexOf(drv.pos)
  <2>2. PICK sent \in BOOLEAN :
          /\ Send(k, sent, chip[k])
          /\ ~sent => Answer(FALSE) /\ buffer' = buffer
          /\ sent => /\ buffer' = [buffer EXCEPT ![drv.pos] = chip[k].buf]
                     /\ drv' = [drv EXCEPT !.pos = @ + 1, !.at = "13h"]
    BY <1>11 DEF ReadBuf
  <2>3. k = drv.pos % N /\ k \in 0 .. N - 1 /\ chip[k] \in ChipRecord(P)
    BY <1>1, <1>5, <2>1 DEF chipIndexOf
  <2> HIDE DEF k
  <2>4. \A j \in 0 .. N - 1 : chip'[j] = chip[j]
    <3> DEFINE after == chip[k]
    <3>1. Send(k, sent, after) /\ after \in ChipRecord(P) /\ after = chip[k]
      BY <2>2, <2>3
    <3> HIDE DEF after
    <3> QED
      BY <1>1, <2>3, <3>1, SendIs
  <2>5. CellsStay(N, P)
    BY <2>4, CellsKept
  <2>6. CASE ~sent
    BY <1>1, <2>2, <2>5, <2>6, AnswersDevice DEF SamePages
  <2>7. CASE sent
    <3>1. chip[k].buf = Cell(N, drv.pos)
      <4>1. Free(k)
        BY <1>1, <2>1, <2>3 DEF Seen, FreeInv
      <4>2. Fetched(N)
        BY <1>1, <2>1 DEF Seen, ContentInv, ReadInv
      <4> QED
        BY <2>3, <4>1, <4>2 DEF Fetched, Free, Cell
    <3> DEFINE next == drv.pos + 1   done == {drv.pos}
    <3>2. drv' = [drv EXCEPT !.pos = next, !.at = "13h"]
      BY <2>2, <2>7
    <3>3. next \in Nat
      BY <1>1
    <3> HIDE DEF next
    <3>4. /\ drv'.op = "read" /\ drv'.pos = next /\ drv'.end = drv.end
          /\ drv'.data = drv.data /\ drv'.ok = drv.ok /\ drv'.answer = drv.answer
      BY <1>1, <3>2 DEF DrvRecord
    <3>5. DutyInv(N)'
      BY <1>3, <2>4, <3>4 DEF DutyInv
    <3>6. ~Failed' /\ Left(N)' = next .. drv.end - 1
      BY <1>3, <3>4 DEF Failed, Left
    <3>7. done \subseteq Left(N) /\ done # {} /\ Left(N)' = Left(N) \ done /\ done \subseteq 0 .. N * P - 1
      BY <1>1, <1>4, <2>1, <3>6 DEF next
    <3>8. buffer' = [p \in DOMAIN buffer |-> IF p \in done THEN Cell(N, p) ELSE buffer[p]]
      BY <1>1, <2>2, <2>7, <3>1
    <3> HIDE DEF done
    <3>9. DeviceStep
      BY <1>1, <1>4, <2>5, <3>4, <3>6, <3>7, <3>8, Advances
    <3> QED
      BY <3>5, <3>9
  <2> QED
    BY <2>6, <2>7
<1> QED
  BY <1>2, <1>8, <1>9, <1>10, <1>11

LEMMA OpensDevice ==
    ASSUME NEW N \in Nat \ {0}, NEW P \in Nat \ {0}, Seen(N, P), drv.op = "open", Driver
    PROVE  DutyInv(N)' /\ DeviceStep
<1>1. /\ chip \in [0 .. N - 1 -> ChipRecord(P)] /\ drv \in DrvRecord(N, P) /\ TypeInv(N, P)
      /\ drv.at \in OpenAt /\ drv.idx \in 0 .. N - 1 /\ Chip = 0 .. N - 1 /\ unseen = 0 /\ unseen' = 0
      /\ \A k \in 0 .. N - 1 : chip[k] \in ChipRecord(P)
  BY SizesOf DEF TypeInv, DrvInv, DrvRecord, Seen
<1>2. Open
  BY DEF Driver, ReadDone, PageRead, PageReadWait, ReadBuf, NextPage, waitChip, WriteEnable, ProgramLoad, ProgramIssue,
         BlockErase, BlockEraseWait, At
<1>3. PICK sent \in BOOLEAN, garbage \in BOOLEAN : OpenSends(drv.idx, sent, garbage)
  BY <1>2, Zenon DEF Open, OpenSends
<1>4. drv.ok /\ \A k \in 0 .. N - 1 : Free(k)
  BY <1>1 DEF Seen, DutyInv, FreeInv
<1>5. ~Failed /\ Left(N) = {}
  BY <1>4 DEF Failed, Left
<1>6. \A k \in 0 .. N - 1 : chip'[k].cells = chip[k].cells
  <2> DEFINE k == drv.idx
             after == CASE drv.at = "A0_write" -> [chip[k] EXCEPT !.protected = FALSE]
                        [] drv.at = "B0_write" -> [chip[k] EXCEPT !.ecc = FALSE]
                        [] OTHER               -> chip[k]
  <2>1. after \in ChipRecord(P) /\ after.cells = chip[k].cells
    BY <1>1 DEF ChipRecord
  <2>2. Send(k, sent, after)
    BY <1>3 DEF OpenSends
  <2>3. k \in 0 .. N - 1
    BY <1>1
  <2> HIDE DEF k, after
  <2> QED
    BY <1>1, <2>1, <2>2, <2>3, SendIs
<1>7. SamePages(N, P)
  BY <1>2, <1>6, CellsKept DEF SamePages, Open
<1>8. ASSUME drv'.op = "open", drv'.ok = drv.ok, drv'.data = drv.data, drv'.answer = drv.answer
      PROVE  DutyInv(N)' /\ DeviceStep
  <2>1. \A k \in 0 .. N - 1 : chip'[k].busy = "no"
    BY <1>8 DEF Seen, FreeInv, Free
  <2>2. DutyInv(N)'
    BY <1>4, <1>8, <2>1 DEF DutyInv
  <2>3. ~Failed' /\ Left(N)' = {}
    BY <1>4, <1>8 DEF Failed, Left
  <2> QED
    BY <1>5, <1>7, <1>8, <2>2, <2>3, Stutters
<1>9. CASE Answer(FALSE) \/ Answer(TRUE)
  BY <1>1, <1>5, <1>7, <1>9, AnswersDevice
<1>10. CASE drv.at # "B0_check" /\ Goto(NextOpenStep(drv.at))
  <2>1. NextOpenStep(drv.at) \in Steps
    BY <1>1, <1>10, OpenOrder DEF OpenAt, Steps
  <2> QED
    BY <1>1, <1>8, <1>10, <2>1, GotoIs
<1>11. CASE drv' = [drv EXCEPT !.idx = drv.idx + 1, !.at = "9Fh"]
  <2> DEFINE next == drv.idx + 1
  <2>1. drv' = [drv EXCEPT !.idx = next, !.at = "9Fh"]
    BY <1>11
  <2> HIDE DEF next
  <2>2. drv'.op = "open" /\ drv'.ok = drv.ok /\ drv'.data = drv.data /\ drv'.answer = drv.answer
    BY <1>1, <2>1 DEF DrvRecord
  <2> QED
    BY <1>8, <2>2
<1> QED
  BY <1>3, <1>9, <1>10, <1>11 DEF OpenSends

\* A message that sets the latch.
LEMMA Enables ==
    ASSUME NEW N \in Nat \ {0}, NEW P \in Nat \ {0}, Seen(N, P), WriteEnable
    PROVE  /\ SamePages(N, P) /\ chip'[drv.idx].wel /\ Free(drv.idx)
           /\ \A k \in 0 .. N - 1 :
                 /\ chip'[k].busy = chip[k].busy /\ chip'[k].target = chip[k].target
                 /\ chip'[k].buf = chip[k].buf /\ chip'[k].fail = chip[k].fail
           /\ drv.at = "06h" /\ drv'.at = IF drv.op = "write" THEN "02h" ELSE "D8h"
           /\ drv'.op = drv.op /\ drv'.pos = drv.pos /\ drv'.end = drv.end /\ drv'.idx = drv.idx
           /\ drv'.data = drv.data /\ drv'.ok = drv.ok /\ drv'.answer = drv.answer
           /\ drv'.pendingPage = drv.pendingPage
<1>1. /\ chip \in [0 .. N - 1 -> ChipRecord(P)] /\ TypeInv(N, P) /\ drv.idx \in 0 .. N - 1
      /\ drv.op \in {"write", "erase"} /\ drv.at = "06h" /\ unseen = 0 /\ unseen' = 0 /\ TroubleInv
      /\ \A k \in 0 .. N - 1 : chip[k] \in ChipRecord(P)
  BY DEF TypeInv, DrvInv, DrvRecord, Seen, WriteEnable
<1> DEFINE k == drv.idx   after == Latched(chip[k])
<1>2. Free(k)
  BY <1>1 DEF Seen, FreeInv, TypeInv, DrvInv
<1>3. PICK sent \in BOOLEAN : Send(k, sent, after) /\ Overlooked(sent)
  BY DEF WriteEnable
<1>4. sent
  BY <1>1, <1>3, SeenSent
<1>5. /\ after \in ChipRecord(P) /\ after.wel /\ after.busy = chip[k].busy /\ after.target = chip[k].target
      /\ after.buf = chip[k].buf /\ after.fail = chip[k].fail /\ after.cells = chip[k].cells
  BY <1>1 DEF Latched, ChipRecord
<1>6. k \in 0 .. N - 1
  BY <1>1
<1> HIDE DEF k, after
<1>7. (\A j \in 0 .. N - 1 : j # k => chip'[j] = chip[j]) /\ chip'[k] = after
  BY <1>1, <1>2, <1>3, <1>4, <1>5, <1>6, SendIs
<1>8. /\ chip'[k].wel
      /\ \A j \in 0 .. N - 1 : /\ chip'[j].busy = chip[j].busy /\ chip'[j].target = chip[j].target
                               /\ chip'[j].buf = chip[j].buf /\ chip'[j].fail = chip[j].fail
                               /\ chip'[j].cells = chip[j].cells
  BY <1>5, <1>7
<1>9. SamePages(N, P)
  BY <1>8, CellsKept DEF SamePages, WriteEnable
<1> DEFINE step == IF drv.op = "write" THEN "02h" ELSE "D8h"
<1>10. step \in Steps /\ Goto(step)
  BY DEF WriteEnable, Steps
<1> HIDE DEF step
<1>11. /\ drv'.at = step /\ drv'.op = drv.op /\ drv'.pos = drv.pos /\ drv'.end = drv.end
       /\ drv'.idx = drv.idx /\ drv'.data = drv.data /\ drv'.pendingPage = drv.pendingPage
       /\ drv'.ok = drv.ok /\ drv'.answer = drv.answer
  BY <1>1, <1>10, GotoIs
<1> QED
  BY <1>1, <1>2, <1>8, <1>9, <1>11 DEF k, step

\* The next group, and the pages of a group.
LEMMA Groups ==
    ASSUME NEW B \in Nat \ {0}, NEW a \in Nat, NEW b \in Nat, a % B = 0, b % B = 0, a < b
    PROVE  a + B <= b /\ (a + B) % B = 0
<1>1. PICK q \in Nat : a = q * B
  BY Multiple
<1>2. PICK r \in Nat : b = r * B
  BY Multiple
<1>3. PICK k \in Nat : k = q + 1
  OBVIOUS
<1>4. a + B = k * B /\ (k * B) % B = 0
  BY <1>1, <1>3
<1>5. q * B < r * B
  BY <1>1, <1>2
<1>6. q < r
  BY <1>5
<1>7. k * B <= r * B
  BY <1>3, <1>6
<1> QED
  BY <1>2, <1>4, <1>7

LEMMA RowOf ==
    ASSUME NEW N \in Nat \ {0}, NEW a \in Nat, NEW q \in Nat, NEW j \in 0 .. N - 1
    PROVE  a <= q <=> a * N <= (q * N) + j
<1>1. CASE a <= q
  <2>1. a * N <= q * N
    BY <1>1
  <2> QED
    BY <1>1, <2>1
<1>2. CASE q + 1 <= a
  <2>1. (q + 1) * N <= a * N
    BY <1>2
  <2> QED
    BY <1>2, <2>1
<1> QED
  BY <1>1, <1>2

LEMMA GroupPages ==
    ASSUME NEW N \in Nat \ {0}, NEW pos \in Nat, pos % (BLOCK_PAGES * N) = 0, NEW p \in Nat
    PROVE  /\ InBlock(pos \div N, p \div N) <=> pos <= p /\ p < pos + (BLOCK_PAGES * N)
           /\ pos % N = 0 /\ (pos \div N) % BLOCK_PAGES = 0
<1>1. BLOCK_PAGES \in Nat \ {0}
  BY ChipGeometry
<1>2. pos % N = 0 /\ (pos \div N) % BLOCK_PAGES = 0
  BY <1>1, GroupBorder
<1>3. PICK a \in Nat : a = pos \div N /\ pos = a * N
  <2>1. pos \div N \in Nat /\ pos = ((pos \div N) * N) + (pos % N)
    OBVIOUS
  <2> QED
    BY <1>2, <2>1
<1>4. PICK q \in Nat, j \in 0 .. N - 1 : q = p \div N /\ p = (q * N) + j
  OBVIOUS
<1>5. a <= q <=> pos <= p
  BY <1>3, <1>4, RowOf
<1>6. a + BLOCK_PAGES <= q <=> pos + (BLOCK_PAGES * N) <= p
  <2>1. (a + BLOCK_PAGES) * N = pos + (BLOCK_PAGES * N)
    BY <1>1, <1>3
  <2>2. a + BLOCK_PAGES \in Nat
    BY <1>1
  <2>3. a + BLOCK_PAGES <= q <=> (a + BLOCK_PAGES) * N <= (q * N) + j
    BY <2>2, RowOf
  <2> QED
    BY <1>4, <2>1, <2>3
<1>7. pos + (BLOCK_PAGES * N) \in Nat
  BY <1>1
<1> QED
  BY <1>1, <1>2, <1>3, <1>4, <1>5, <1>6, <1>7 DEF InBlock

\* Where an erase is: at the first page of a group, with the chips before idx done.
LEMMA EraseFacts ==
    ASSUME NEW N \in Nat \ {0}, NEW P \in Nat \ {0}, Seen(N, P), drv.op = "erase"
    PROVE  /\ chip \in [0 .. N - 1 -> ChipRecord(P)] /\ drv \in DrvRecord(N, P) /\ TypeInv(N, P)
           /\ n = N /\ Chip = 0 .. N - 1 /\ unseen = 0 /\ unseen' = 0 /\ TroubleInv
           /\ drv.idx \in 0 .. N - 1 /\ drv.pos \in Nat /\ drv.end \in Nat /\ drv.pos < drv.end /\ drv.end <= N * P
           /\ N * P \in Nat /\ BLOCK_PAGES * N \in Nat \ {0} /\ groupSize = BLOCK_PAGES * N
           /\ drv.at \in {"06h", "D8h", "poll"} /\ drv.ok
           /\ drv.pos % (BLOCK_PAGES * N) = 0 /\ drv.end % (BLOCK_PAGES * N) = 0
           /\ drv.pos + (BLOCK_PAGES * N) <= drv.end
           /\ \A k \in 0 .. N - 1 : /\ chip[k] \in ChipRecord(P)
                                    /\ Free(k) \/ (drv.at = "poll" /\ k = drv.idx /\ ~chip[k].fail)
<1>1. /\ TypeInv(N, P) /\ FreeInv(N) /\ DutyInv(N) /\ unseen = 0 /\ unseen' = 0
  BY DEF Seen
<1>2. /\ chip \in [0 .. N - 1 -> ChipRecord(P)] /\ drv \in DrvRecord(N, P) /\ n = N /\ Chip = 0 .. N - 1 /\ TroubleInv
      /\ drv.at \in {"06h", "D8h", "poll"} /\ drv.pos < drv.end /\ drv.end <= N * P
  BY <1>1, SizesOf DEF TypeInv, DrvInv
<1>3. drv.idx \in 0 .. N - 1 /\ drv.pos \in Nat /\ drv.end \in Nat
  BY <1>2 DEF DrvRecord
<1>4. /\ drv.ok /\ drv.pos % (BLOCK_PAGES * N) = 0 /\ drv.end % (BLOCK_PAGES * N) = 0
      /\ drv.at = "poll" /\ ~Free(drv.idx) => chip[drv.idx].busy = "erase"
      /\ \A k \in 0 .. N - 1 : chip[k].busy \in {"program", "erase"} => ~chip[k].fail
  BY <1>1 DEF DutyInv
<1>5. \A k \in 0 .. N - 1 : /\ chip[k] \in ChipRecord(P)
                            /\ Free(k) \/ (drv.at = "poll" /\ k = drv.idx /\ ~chip[k].fail)
  BY <1>1, <1>2, <1>3, <1>4 DEF FreeInv
<1>6. N * P \in Nat /\ BLOCK_PAGES * N \in Nat \ {0} /\ groupSize = BLOCK_PAGES * N
  <2>1. \A x, y \in Nat \ {0} : x * y \in Nat \ {0}
    OBVIOUS
  <2> QED
    BY <1>2, <2>1, ChipGeometry DEF groupSize
<1>7. drv.pos + (BLOCK_PAGES * N) <= drv.end
  BY <1>2, <1>3, <1>4, <1>6, Groups
<1> QED
  BY <1>1, <1>2, <1>3, <1>4, <1>5, <1>6, <1>7

LEMMA ErasesDevice ==
    ASSUME NEW N \in Nat \ {0}, NEW P \in Nat \ {0}, Seen(N, P), drv.op = "erase", Driver
    PROVE  DutyInv(N)' /\ DeviceStep
<1> DEFINE G == BLOCK_PAGES * N
<1>1. /\ chip \in [0 .. N - 1 -> ChipRecord(P)] /\ drv \in DrvRecord(N, P) /\ TypeInv(N, P)
      /\ n = N /\ Chip = 0 .. N - 1 /\ unseen = 0 /\ unseen' = 0 /\ TroubleInv
      /\ drv.idx \in 0 .. N - 1 /\ drv.pos \in Nat /\ drv.end \in Nat /\ drv.pos < drv.end /\ drv.end <= N * P
      /\ N * P \in Nat /\ G \in Nat \ {0} /\ groupSize = G
      /\ drv.at \in {"06h", "D8h", "poll"} /\ drv.ok
      /\ drv.pos % G = 0 /\ drv.end % G = 0 /\ drv.pos + G <= drv.end
      /\ \A k \in 0 .. N - 1 : /\ chip[k] \in ChipRecord(P)
                               /\ Free(k) \/ (drv.at = "poll" /\ k = drv.idx /\ ~chip[k].fail)
  BY EraseFacts
<1> HIDE DEF G
<1>2. WriteEnable \/ BlockErase \/ BlockEraseWait
  BY DEF Driver, Open, ReadDone, PageRead, PageReadWait, ReadBuf, NextPage, waitChip, ProgramLoad, ProgramIssue, At
<1>3. CASE WriteEnable
  <2>1. /\ SamePages(N, P) /\ chip'[drv.idx].wel
        /\ \A k \in 0 .. N - 1 : chip'[k].busy = chip[k].busy
        /\ drv.at = "06h" /\ drv'.at = "D8h"
        /\ drv'.op = "erase" /\ drv'.pos = drv.pos /\ drv'.end = drv.end /\ drv'.idx = drv.idx
        /\ drv'.data = drv.data /\ drv'.ok = drv.ok /\ drv'.answer = drv.answer
    BY <1>3, Enables
  <2>2. \A k \in 0 .. N - 1 : chip'[k].busy = "no"
    BY <1>1, <2>1 DEF Free
  <2>3. DutyInv(N)'
    BY <1>1, <2>1, <2>2 DEF DutyInv, G
  <2>4. ~Failed /\ ~Failed' /\ Left(N)' = Left(N)
    BY <1>1, <2>1 DEF Failed, Left, Unerased
  <2> QED
    BY <2>1, <2>3, <2>4, Stutters
<1>4. CASE BlockErase
  <2> DEFINE k == drv.idx   page == physPageOf(drv.pos)   after == Started(chip[k], "erase", page)
  <2>1. PICK sent \in BOOLEAN : Send(k, sent, after) /\ Overlooked(sent)
    BY <1>4 DEF BlockErase
  <2>2. sent /\ drv.at = "D8h" /\ Goto("poll") /\ "poll" \in Steps /\ buffer' = buffer
    BY <1>1, <1>4, <2>1, SeenSent DEF BlockErase, At, Steps
  <2>3. page = drv.pos \div N /\ page \in 0 .. P - 1
    <3>1. drv.pos < N * P
      BY <1>1
    <3> QED
      BY <1>1, <3>1, PageParts DEF physPageOf
  <2>4. chip[k].wel /\ Free(k) /\ k \in 0 .. N - 1 /\ chip[k] \in ChipRecord(P)
    BY <1>1, <2>2 DEF Seen, DutyInv
  <2> HIDE DEF k, page
  <2>5. after \in ChipRecord(P) /\ after.busy = "erase" /\ after.target = page /\ ~after.fail /\ after.cells = chip[k].cells
    BY <2>3, <2>4 DEF Started, ChipRecord
  <2> HIDE DEF after
  <2>6. (\A j \in 0 .. N - 1 : j # k => chip'[j] = chip[j]) /\ chip'[k] = after
    <3>1. Send(k, sent, after) /\ after \in ChipRecord(P) /\ k \in 0 .. N - 1 /\ chip \in [0 .. N - 1 -> ChipRecord(P)]
      BY <1>1, <2>1, <2>4, <2>5
    <3>2. /\ \A j \in 0 .. N - 1 : j # k => chip'[j] = chip[j]
          /\ chip'[k] = IF sent /\ Free(k) THEN after ELSE chip[k]
      BY <3>1, SendIs
    <3> QED
      BY <2>2, <2>4, <3>2
  <2>7. SamePages(N, P)
    <3>1. \A j \in 0 .. N - 1 : chip'[j].cells = chip[j].cells
      BY <2>5, <2>6
    <3> QED
      BY <2>2, <3>1, CellsKept DEF SamePages
  <2>8. /\ drv'.at = "poll" /\ drv'.op = "erase" /\ drv'.pos = drv.pos /\ drv'.end = drv.end
        /\ drv'.idx = drv.idx /\ drv'.data = drv.data /\ drv'.ok = drv.ok /\ drv'.answer = drv.answer
    BY <1>1, <2>2, GotoIs
  <2>9. DutyInv(N)'
    <3>1. \A j \in 0 .. N - 1 : chip'[j].busy \in {"program", "erase"} => ~chip'[j].fail
      BY <1>1, <2>2, <2>5, <2>6 DEF Free
    <3>2. chip'[drv'.idx].busy = "erase" /\ chip'[drv'.idx].target = drv'.pos \div N
      BY <2>3, <2>5, <2>6, <2>8 DEF k
    <3> QED
      BY <1>1, <2>8, <3>1, <3>2 DEF DutyInv, G
  <2>10. ~Failed /\ ~Failed' /\ Left(N)' = Left(N)
    <3>1. ~Failed /\ ~Failed'
      BY <1>1, <2>2, <2>5, <2>6, <2>8 DEF Failed, k
    <3>2. chip'[drv.idx].busy # "no"
      BY <2>5, <2>6 DEF k
    <3> QED
      BY <2>2, <2>8, <3>1, <3>2 DEF Left, Unerased, G, Free
  <2> QED
    BY <2>7, <2>8, <2>9, <2>10, Stutters
<1>5. CASE BlockEraseWait
  <2>1. PICK result \in {"ready", "failed", "timeout"} :
          /\ WaitEnds(drv.idx, result)
          /\ IF result # "ready" THEN Answer(FALSE)
             ELSE IF drv.idx + 1 \in Chip THEN drv' = [drv EXCEPT !.at = "06h", !.idx = @ + 1]
             ELSE IF drv.pos + groupSize < drv.end
                  THEN drv' = [drv EXCEPT !.at = "06h", !.idx = 0, !.pos = @ + groupSize]
             ELSE Answer(TRUE)
    BY <1>5 DEF BlockEraseWait
  <2>2. drv.at = "poll" /\ SamePages(N, P) /\ chip' = chip
    BY <1>5, CellsKept DEF BlockEraseWait, At, SamePages
  <2>3. Free(drv.idx) /\ (result = "ready" => ~chip[drv.idx].fail)
    BY <1>1, <2>1, SpiGeometry DEF WaitEnds, TroubleInv, Trouble
  <2>4. \A k \in 0 .. N - 1 : chip[k].busy = "no"
    BY <1>1, <2>3 DEF Free
  <2>5. result = "ready" => ~Failed
    BY <1>1, <2>3 DEF Failed
  <2>6. Left(N) = {p \in drv.pos .. drv.end - 1 : p >= drv.pos + G \/ p % N > drv.idx}
    BY <1>1, <2>2, <2>3 DEF Left, Unerased, G
  <2>7. CASE result # "ready"
    BY <1>1, <2>1, <2>2, <2>7, AnswersDevice
  <2>8. CASE result = "ready" /\ drv.idx + 1 \in Chip
    <3> DEFINE next == drv.idx + 1
    <3>1. drv' = [drv EXCEPT !.at = "06h", !.idx = next]
      BY <2>1, <2>8
    <3> HIDE DEF next
    <3>2. /\ drv'.at = "06h" /\ drv'.op = "erase" /\ drv'.pos = drv.pos /\ drv'.end = drv.end
          /\ drv'.idx = next /\ drv'.data = drv.data /\ drv'.ok = drv.ok /\ drv'.answer = drv.answer
      BY <1>1, <3>1 DEF DrvRecord
    <3>3. DutyInv(N)'
      BY <1>1, <2>2, <2>4, <3>2 DEF DutyInv, G
    <3>4. ~Failed'
      BY <1>1, <3>2 DEF Failed
    <3>5. Left(N)' = {p \in drv.pos .. drv.end - 1 : p >= drv.pos + G \/ p % N > next \/ p % N = next}
      BY <3>2 DEF Left, Unerased, G
    <3>6. \A p \in drv.pos .. drv.end - 1 : p % N \in 0 .. N - 1
      BY <1>1
    <3>7. \A p \in drv.pos .. drv.end - 1 : p % N > drv.idx <=> p % N > next \/ p % N = next
      BY <1>1, <3>6 DEF next
    <3>8. Left(N)' = Left(N)
      BY <2>6, <3>5, <3>7
    <3> QED
      BY <2>2, <2>5, <2>8, <3>2, <3>3, <3>4, <3>8, Stutters
  <2>9. ASSUME drv.idx + 1 \notin Chip
        PROVE  Left(N) = {p \in drv.pos .. drv.end - 1 : p >= drv.pos + G}
    <3>1. drv.idx + 1 \notin 0 .. N - 1
      BY <1>1, <2>9
    <3>2. drv.idx = N - 1
      BY <1>1, <3>1
    <3>3. \A p \in drv.pos .. drv.end - 1 : p % N \in 0 .. N - 1
      BY <1>1
    <3>4. \A p \in drv.pos .. drv.end - 1 : ~(p % N > drv.idx)
      BY <3>2, <3>3
    <3> QED
      BY <2>6, <3>4
  <2>10. CASE result = "ready" /\ drv.idx + 1 \notin Chip /\ drv.pos + groupSize < drv.end
    <3> DEFINE next == drv.pos + G
    <3>1. drv' = [drv EXCEPT !.at = "06h", !.idx = 0, !.pos = next] /\ next < drv.end
      BY <1>1, <2>1, <2>10
    <3>2. next \in Nat /\ next % G = 0
      <4>1. /\ drv.pos \in Nat /\ drv.end \in Nat /\ drv.pos % G = 0 /\ drv.end % G = 0 /\ drv.pos < drv.end
            /\ G \in Nat \ {0}
        BY <1>1
      <4>2. (drv.pos + G) % G = 0
        BY <4>1, Groups, Zenon
      <4> QED
        BY <4>1, <4>2
    <3> HIDE DEF next
    <3>3. /\ drv'.at = "06h" /\ drv'.op = "erase" /\ drv'.pos = next /\ drv'.end = drv.end
          /\ drv'.idx = 0 /\ drv'.data = drv.data /\ drv'.ok = drv.ok /\ drv'.answer = drv.answer
      BY <1>1, <3>1 DEF DrvRecord
    <3>4. DutyInv(N)'
      BY <1>1, <2>2, <2>4, <3>2, <3>3 DEF DutyInv, G
    <3>5. ~Failed'
      BY <1>1, <3>3 DEF Failed
    <3>6. Left(N)' = {p \in next .. drv.end - 1 : p >= next + G \/ p % N > 0 \/ p % N = 0}
      BY <3>3 DEF Left, Unerased, G
    <3>7. \A p \in next .. drv.end - 1 : p % N \in 0 .. N - 1
      BY <1>1, <3>2
    <3>8. Left(N)' = next .. drv.end - 1
      BY <3>6, <3>7
    <3>9. Left(N) = next .. drv.end - 1
      <4>1. Left(N) = {p \in drv.pos .. drv.end - 1 : p >= next}
        BY <2>9, <2>10 DEF next
      <4>2. drv.pos \in Nat /\ drv.end \in Nat /\ drv.pos <= next /\ next \in Nat
        BY <1>1, <3>2 DEF next
      <4> QED
        BY <4>1, <4>2
    <3> QED
      BY <2>2, <2>5, <2>10, <3>3, <3>4, <3>5, <3>8, <3>9, Stutters
  <2>11. CASE result = "ready" /\ drv.idx + 1 \notin Chip /\ ~(drv.pos + groupSize < drv.end)
    <3>1. Left(N) = {}
      BY <1>1, <2>9, <2>11
    <3> QED
      BY <1>1, <2>1, <2>2, <2>5, <2>11, <3>1, AnswersDevice
  <2> QED
    BY <2>7, <2>8, <2>10, <2>11
<1> QED
  BY <1>2, <1>3, <1>4, <1>5

\* What a chip that is at work does.
LEMMA BusyIs ==
    ASSUME NEW N \in Nat \ {0}, NEW P \in Nat \ {0}, Seen(N, P), NEW k \in 0 .. N - 1, ~Free(k)
    PROVE  /\ chip[k].busy \in {"program", "erase"} => ~chip[k].fail
           /\ \/ drv.op = "read" /\ drv.at = "poll" /\ chip[k].busy = "read"
              \/ /\ drv.op = "write" /\ chip[k].busy = "program" /\ drv.pendingPage[k] = chip[k].target
                 /\ chip[k].buf = drv.data[(chip[k].target * N) + k] /\ (chip[k].target * N) + k < drv.pos
              \/ /\ drv.op = "erase" /\ drv.at = "poll" /\ k = drv.idx
                 /\ chip[k].busy = "erase" /\ chip[k].target = drv.pos \div N
<1>1. /\ TypeInv(N, P) /\ FreeInv(N) /\ DutyInv(N) /\ unseen = 0 /\ ReadInv(N)
      /\ drv.op \in {"idle", "open", "read", "write", "erase"} /\ chip[k] \in ChipRecord(P)
  BY DEF Seen, ContentInv, TypeInv, DrvInv, DrvRecord
<1>2. chip[k].busy \in {"program", "erase"} => ~chip[k].fail
  BY <1>1 DEF DutyInv
<1>3. drv.op \in {"read", "write", "erase"}
  BY <1>1 DEF FreeInv
<1>4. CASE drv.op = "read"
  <2>1. drv.at = "poll" /\ k = drv.pos % N
    BY <1>1, <1>4 DEF FreeInv
  <2>2. Fetched(N)
    BY <1>1, <1>4, <2>1 DEF ReadInv
  <2> QED
    BY <1>2, <1>4, <2>1, <2>2 DEF Fetched, Free
<1>5. CASE drv.op = "write"
  <2>1. /\ chip[k].busy = "program" /\ chip[k].target = drv.pendingPage[k]
        /\ chip[k].buf = drv.data[(chip[k].target * N) + k]
        /\ drv.pendingPage[k] # NoPage => (drv.pendingPage[k] * N) + k < drv.pos
    BY <1>1, <1>5 DEF DutyInv
  <2>2. chip[k].target \in 0 .. P - 1
    BY <1>1 DEF ChipRecord
  <2>3. drv.pendingPage[k] # NoPage
    BY <2>1, <2>2 DEF NoPage
  <2> QED
    BY <1>2, <1>5, <2>1, <2>3
<1>6. CASE drv.op = "erase"
  <2>1. drv.at = "poll" /\ k = drv.idx
    BY <1>1, <1>6 DEF FreeInv
  <2> QED
    BY <1>1, <1>2, <1>6, <2>1 DEF DutyInv
<1> QED
  BY <1>3, <1>4, <1>5, <1>6

\* The pages of the block that a chip erases are pages of the erase.
LEMMA ErasePages ==
    ASSUME NEW N \in Nat \ {0}, NEW P \in Nat \ {0}, Seen(N, P), drv.op = "erase",
           NEW p \in 0 .. N * P - 1, InBlock(drv.pos \div N, p \div N)
    PROVE  /\ p \in drv.pos .. drv.end - 1 /\ ~(p >= drv.pos + (BLOCK_PAGES * N))
           /\ p % N = drv.idx /\ ~Free(drv.idx) => p \in Left(N)
<1>1. /\ drv.pos \in Nat /\ drv.end \in Nat /\ drv.pos + (BLOCK_PAGES * N) <= drv.end
      /\ drv.pos % (BLOCK_PAGES * N) = 0 /\ BLOCK_PAGES * N \in Nat
  BY EraseFacts
<1>2. drv.pos <= p /\ p < drv.pos + (BLOCK_PAGES * N)
  BY <1>1, GroupPages
<1>3. p \in drv.pos .. drv.end - 1 /\ ~(p >= drv.pos + (BLOCK_PAGES * N))
  BY <1>1, <1>2
<1> QED
  BY <1>3 DEF Left, Unerased

\* Whatever is cut short, only pages of the operation are touched, and only as the
\* operation would.
LEMMA CutHalfDone ==
    ASSUME NEW N \in Nat \ {0}, NEW P \in Nat \ {0}, Seen(N, P),
           \A k \in 0 .. N - 1 : chip'[k].cells = chip[k].cells \/ chip'[k].cells \in CutShort(chip[k])
    PROVE  HalfDone(N, P)
<1> SUFFICES ASSUME NEW p \in 0 .. N * P - 1
             PROVE  /\ Cell(N, p)' # Cell(N, p) => p \in Left(N)
                    /\ p \in Left(N) => Device!Partial(p, Cell(N, p)')
  BY DEF HalfDone
<1> DEFINE k == p % N   q == p \div N
<1>1. /\ TypeInv(N, P) /\ chip \in [0 .. N - 1 -> ChipRecord(P)] /\ p \in Nat /\ p < N * P
      /\ drv.pos \in Nat
  <2>1. N * P \in Nat
    OBVIOUS
  <2>2. p \in Nat /\ p < N * P
    BY <2>1
  <2> QED
    BY <2>2 DEF Seen, TypeInv, DrvInv, DrvRecord
<1>2. k \in 0 .. N - 1 /\ q \in 0 .. P - 1 /\ p = (q * N) + k
  BY <1>1, PageParts
<1>3. /\ chip[k] \in ChipRecord(P) /\ chip[k].cells \in [0 .. P - 1 -> SUBSET Bit]
      /\ chip[k].busy \in {"no", "program", "erase", "read"} /\ chip[k].target \in 0 .. P - 1
  BY <1>1, <1>2 DEF ChipRecord
<1>4. Cell(N, p) = chip[k].cells[q] /\ Cell(N, p)' = chip'[k].cells[q]
  BY DEF Cell
<1> HIDE DEF k, q
<1>5. CASE chip'[k].cells[q] = chip[k].cells[q]
  BY <1>1, <1>4, <1>5, PartialIs
<1>6. ASSUME chip'[k].cells[q] # chip[k].cells[q]
      PROVE  p \in Left(N) /\ Device!Partial(p, Cell(N, p)')
  <2>1. chip'[k].cells \in CutShort(chip[k])
    BY <1>2, <1>6
  <2>2. chip[k].busy \in {"program", "erase"}
    BY <1>3, <1>6, <2>1 DEF CutShort
  <2>3. ~Free(k)
    BY <2>2 DEF Free
  <2>4. CASE chip[k].busy = "program"
    <3>1. /\ drv.op = "write" /\ drv.pendingPage[k] = chip[k].target
          /\ chip[k].buf = drv.data[(chip[k].target * N) + k] /\ (chip[k].target * N) + k < drv.pos
      BY <1>2, <2>3, <2>4, BusyIs
    <3>2. PICK part \in SUBSET chip[k].buf : chip'[k].cells = [chip[k].cells EXCEPT ![chip[k].target] = @ \cup part]
      BY <2>1, <2>4 DEF CutShort
    <3>3. q = chip[k].target /\ chip'[k].cells[q] = chip[k].cells[q] \cup part
      BY <1>2, <1>3, <1>6, <3>2
    <3>4. chip[k].buf = drv.data[p] /\ p < drv.pos
      BY <1>2, <3>1, <3>3
    <3>5. p \in Left(N)
      BY <1>1, <2>4, <3>1, <3>3, <3>4 DEF Left, Programs, k, q
    <3>6. /\ Cell(N, p) \subseteq Cell(N, p)'
          /\ Cell(N, p)' \subseteq Cell(N, p) \cup drv.data[p]
      BY <1>4, <3>3, <3>4
    <3> QED
      BY <1>1, <3>1, <3>5, <3>6, PartialIs
  <2>5. CASE chip[k].busy = "erase"
    <3>1. drv.op = "erase" /\ k = drv.idx /\ chip[k].target = drv.pos \div N
      BY <1>2, <2>3, <2>5, BusyIs
    <3>2. drv.pos % (BLOCK_PAGES * N) = 0 /\ chip[k].target % BLOCK_PAGES = 0
      <4>1. drv.pos % (BLOCK_PAGES * N) = 0
        BY <3>1, EraseFacts
      <4> QED
        BY <1>1, <3>1, <4>1, GroupPages
    <3>3. PICK gone \in SUBSET Block(chip[k], chip[k].target) : chip'[k].cells = Erased(chip[k], gone)
      BY <2>1, <2>5 DEF CutShort
    <3>4. q \in gone /\ chip'[k].cells[q] = {}
      BY <1>2, <1>3, <1>6, <3>3 DEF Erased
    <3>5. InBlock(chip[k].target, q)
      <4>1. q \div BLOCK_PAGES = chip[k].target \div BLOCK_PAGES
        BY <3>3, <3>4 DEF Block
      <4>2. q \in Nat /\ chip[k].target \in Nat
        BY <1>2, <1>3
      <4> QED
        BY <3>2, <4>1, <4>2, ChipGeometry, BlockOf DEF InBlock
    <3>6. p \in Left(N)
      BY <2>3, <3>1, <3>5, ErasePages DEF k, q
    <3>7. Cell(N, p)' \subseteq Cell(N, p)
      BY <1>4, <3>4
    <3> QED
      BY <1>1, <3>1, <3>6, <3>7, PartialIs
  <2> QED
    BY <2>2, <2>4, <2>5
<1> QED
  BY <1>4, <1>5, <1>6

\* A chip ends an erase: its pages of the group are done.
LEMMA EraseAdvances ==
    ASSUME NEW N \in Nat \ {0}, NEW P \in Nat \ {0}, Seen(N, P), drv.op = "erase", UNCHANGED <<drv, buffer>>,
           NEW k \in 0 .. N - 1, ~Free(k), ~chip[k].protected, chip'[k] = Completed(chip[k]),
           \A j \in 0 .. N - 1 : j # k => chip'[j] = chip[j]
    PROVE  DeviceStep
<1> DEFINE G == BLOCK_PAGES * N
           done == {p \in 0 .. N * P - 1 : p % N = k /\ InBlock(drv.pos \div N, p \div N)}
<1>1. /\ TypeInv(N, P) /\ TypeInv(N, P)' /\ chip \in [0 .. N - 1 -> ChipRecord(P)] /\ drv.pos \in Nat /\ drv.end \in Nat
      /\ drv.pos < drv.end /\ drv.end <= N * P /\ N * P \in Nat /\ G \in Nat \ {0} /\ drv.pos + G <= drv.end
      /\ drv.pos % G = 0 /\ drv.ok /\ chip[k] \in ChipRecord(P)
  BY EraseFacts DEF Seen
<1>2. /\ drv.at = "poll" /\ k = drv.idx /\ chip[k].busy = "erase" /\ chip[k].target = drv.pos \div N
      /\ ~chip[k].fail
  BY BusyIs
<1>3. drv.pos % N = 0 /\ (drv.pos \div N) % BLOCK_PAGES = 0
  BY <1>1, GroupPages
<1>4. chip'[k].busy = "no" /\ ~chip'[k].fail
  BY <1>1, <1>2 DEF Completed, Ended, ChipRecord
<1>5. \A q \in 0 .. P - 1 : chip'[k].cells[q] = IF InBlock(drv.pos \div N, q) THEN {} ELSE chip[k].cells[q]
  <2>1. chip[k].target % BLOCK_PAGES = 0 /\ chip[k] \in ChipRecord(P) /\ chip[k].busy = "erase"
    BY <1>1, <1>2, <1>3
  <2>2. \A q \in 0 .. P - 1 :
           Completed(chip[k]).cells[q] = IF InBlock(chip[k].target, q) THEN {} ELSE chip[k].cells[q]
    BY <2>1, EraseEnds
  <2> QED
    BY <1>2, <2>2
<1>6. \A p \in 0 .. N * P - 1 : p \in Nat /\ p % N \in 0 .. N - 1 /\ p \div N \in 0 .. P - 1
  <2> TAKE p \in 0 .. N * P - 1
  <2>1. p \in Nat /\ p < N * P
    BY <1>1
  <2> QED
    BY <2>1, PageParts
<1>7. \A p \in 0 .. N * P - 1 : Cell(N, p)' = IF p \in done THEN {} ELSE Cell(N, p)
  BY <1>5, <1>6 DEF Cell
<1>8. ~Failed /\ ~Failed'
  BY <1>1, <1>2, <1>4 DEF Failed
<1>9. \A p \in 0 .. N * P - 1 : p \in done => p \in Left(N) /\ ~(p >= drv.pos + G)
  <2> TAKE p \in 0 .. N * P - 1
  <2> HAVE p \in done
  <2>1. InBlock(drv.pos \div N, p \div N) /\ p % N = drv.idx /\ ~Free(drv.idx)
    BY <1>2
  <2> QED
    BY <2>1, ErasePages
<1>10. \A p \in drv.pos .. drv.end - 1 : ~(p >= drv.pos + G) => InBlock(drv.pos \div N, p \div N)
  <2> TAKE p \in drv.pos .. drv.end - 1
  <2>1. p \in Nat /\ drv.pos <= p /\ (~(p >= drv.pos + G) => p < drv.pos + G)
    BY <1>1
  <2> QED
    BY <1>1, <2>1, GroupPages
<1>11. Left(N) = {p \in drv.pos .. drv.end - 1 : p >= drv.pos + G \/ p % N > k \/ p % N = k}
  BY <1>2 DEF Left, Unerased
<1>12. Left(N)' = {p \in drv.pos .. drv.end - 1 : p >= drv.pos + G \/ p % N > k}
  BY <1>2, <1>4 DEF Left, Unerased, Free
<1>13. drv.pos .. drv.end - 1 \subseteq 0 .. N * P - 1
  BY <1>1
<1>14. \A p \in drv.pos .. drv.end - 1 : p % N \in 0 .. N - 1
  BY <1>6, <1>13
<1> HIDE DEF G
<1>15. Left(N)' = Left(N) \ done
  <2>1. ASSUME NEW p \in Left(N)' PROVE p \in Left(N) /\ p \notin done
    <3>1. p \in drv.pos .. drv.end - 1 /\ (p >= drv.pos + G \/ p % N > k) /\ p % N \in 0 .. N - 1
      BY <1>12, <1>14, <2>1
    <3>2. p % N > k => p % N # k
      BY <3>1
    <3> QED
      BY <1>9, <1>11, <1>13, <3>1, <3>2
  <2>2. ASSUME NEW p \in Left(N), p \notin done PROVE p \in Left(N)'
    BY <1>10, <1>11, <1>12, <1>13, <2>2
  <2> QED
    BY <2>1, <2>2
<1>16. done \subseteq Left(N) /\ done # {}
  <2>1. ((drv.pos \div N) * N) + k \in done
    <3>1. drv.pos \div N \in Nat /\ drv.pos = (drv.pos \div N) * N
      <4>1. \A x \in Nat : x \div N \in Nat /\ x = ((x \div N) * N) + (x % N)
        OBVIOUS
      <4>2. PICK a \in Nat : a = drv.pos \div N /\ drv.pos = (a * N) + 0
        BY <1>1, <1>3, <4>1
      <4>3. drv.pos = a * N
        BY <4>2
      <4> QED
        BY <4>2, <4>3
    <3>2. PICK a \in Nat, p \in Int : a = drv.pos \div N /\ p = (a * N) + k /\ drv.pos = a * N
      BY <3>1
    <3>3. p % N = k /\ p \div N = a
      BY <3>2, PageOf
    <3>4. p \in Nat /\ p >= drv.pos /\ InBlock(a, a)
      <4>1. a * N \in Nat /\ p = (a * N) + k /\ k \in Nat
        BY <3>2
      <4>2. p \in Nat /\ p >= a * N
        BY <4>1
      <4> QED
        BY <3>2, <4>2, ChipGeometry DEF InBlock
    <3>5. p < drv.pos + G
      <4>1. InBlock(drv.pos \div N, p \div N)
        BY <3>2, <3>3, <3>4
      <4> QED
        BY <1>1, <3>4, <4>1, GroupPages DEF G
    <3>6. p \in 0 .. N * P - 1
      BY <1>1, <3>4, <3>5
    <3> QED
      BY <3>2, <3>3, <3>4, <3>6
  <2> QED
    BY <1>9, <2>1
<1> HIDE DEF done
<1> QED
  BY <1>7, <1>8, <1>15, <1>16, Advances

LEMMA WriteFacts ==
    ASSUME NEW N \in Nat \ {0}, NEW P \in Nat \ {0}, Seen(N, P), drv.op = "write"
    PROVE  /\ chip \in [0 .. N - 1 -> ChipRecord(P)] /\ chip' \in [0 .. N - 1 -> ChipRecord(P)]
           /\ drv \in DrvRecord(N, P) /\ TypeInv(N, P)
           /\ n = N /\ Chip = 0 .. N - 1 /\ Chip' = 0 .. N - 1 /\ unseen = 0 /\ unseen' = 0 /\ TroubleInv
           /\ drv.idx \in 0 .. N - 1 /\ drv.pos \in Nat /\ drv.end \in Nat /\ drv.pos <= drv.end /\ drv.end <= N * P
           /\ N * P \in Nat /\ drv.ok \in BOOLEAN
           /\ drv.at \in {"slot", "poll", "06h", "02h", "10h"}
           /\ drv.pendingPage \in [0 .. N - 1 -> -1 .. P - 1]
           /\ drv.at \in {"06h", "02h", "10h"} => /\ drv.pos < drv.end /\ drv.idx = drv.pos % N
                                                  /\ drv.pendingPage[drv.idx] = NoPage /\ Free(drv.idx)
           /\ drv.at \in {"02h", "10h"} => chip[drv.idx].wel
           /\ drv.at = "10h" => chip[drv.idx].buf = drv.data[drv.pos]
           /\ \A k \in 0 .. N - 1 :
                /\ chip[k] \in ChipRecord(P)
                /\ chip[k].busy \in {"program", "erase"} => ~chip[k].fail
                /\ drv.pendingPage[k] # NoPage => (drv.pendingPage[k] * N) + k < drv.pos
                /\ ~Free(k) => /\ chip[k].busy = "program" /\ chip[k].target = drv.pendingPage[k]
                               /\ chip[k].buf = drv.data[(chip[k].target * N) + k]
<1>1. /\ TypeInv(N, P) /\ TypeInv(N, P)' /\ FreeInv(N) /\ DutyInv(N) /\ unseen = 0 /\ unseen' = 0
  BY DEF Seen
<1>2. /\ chip \in [0 .. N - 1 -> ChipRecord(P)] /\ chip' \in [0 .. N - 1 -> ChipRecord(P)]
      /\ drv \in DrvRecord(N, P) /\ n = N /\ Chip = 0 .. N - 1 /\ Chip' = 0 .. N - 1 /\ TroubleInv
      /\ drv.at \in {"slot", "poll", "06h", "02h", "10h"} /\ drv.pos <= drv.end /\ drv.end <= N * P
      /\ drv.pendingPage \in [0 .. N - 1 -> -1 .. P - 1]
      /\ drv.at \in {"06h", "02h", "10h"} => /\ drv.pos < drv.end /\ drv.idx = drv.pos % N
                                             /\ drv.pendingPage[drv.idx] = NoPage
  BY <1>1, SizesOf, SizesNext DEF TypeInv, DrvInv
<1>3. drv.idx \in 0 .. N - 1 /\ drv.pos \in Nat /\ drv.end \in Nat /\ drv.ok \in BOOLEAN /\ N * P \in Nat
  BY <1>2 DEF DrvRecord
<1>4. drv.at \in {"06h", "02h", "10h"} => Free(drv.idx)
  BY <1>1, <1>2, <1>3 DEF FreeInv
<1>5. /\ drv.at \in {"02h", "10h"} => chip[drv.idx].wel
      /\ drv.at = "10h" => chip[drv.idx].buf = drv.data[drv.pos]
      /\ \A k \in 0 .. N - 1 :
           /\ chip[k].busy \in {"program", "erase"} => ~chip[k].fail
           /\ drv.pendingPage[k] # NoPage => (drv.pendingPage[k] * N) + k < drv.pos
           /\ ~Free(k) => /\ chip[k].busy = "program" /\ chip[k].target = drv.pendingPage[k]
                          /\ chip[k].buf = drv.data[(chip[k].target * N) + k]
  BY <1>1 DEF DutyInv
<1>6. \A k \in 0 .. N - 1 : chip[k] \in ChipRecord(P)
  BY <1>2
<1> QED
  BY <1>1, <1>2, <1>3, <1>4, <1>5, <1>6

LEMMA PagesBelow ==
    ASSUME NEW N \in Nat \ {0}, NEW a \in Nat
    PROVE  \A p \in 0 .. a - 1 : p \in Nat /\ p % N \in 0 .. N - 1 /\ p \div N \in Nat
OBVIOUS

LEMMA FailsAlike ==
    ASSUME NEW N \in Nat \ {0}, Chip = 0 .. N - 1, Chip' = 0 .. N - 1,
           drv.op = "write", drv'.op = "write", drv'.ok = drv.ok,
           \A k \in 0 .. N - 1 : drv'.pendingPage[k] # NoPage /\ chip'[k].fail <=> drv.pendingPage[k] # NoPage /\ chip[k].fail
    PROVE  Failed' <=> Failed
BY DEF Failed, Pending

\* A step that moves on in the write and leaves the chips alone.
LEMMA WriteMoves ==
    ASSUME NEW N \in Nat \ {0}, NEW P \in Nat \ {0}, Seen(N, P), drv.op = "write", UNCHANGED <<chip, buffer>>,
           drv'.op = "write", drv'.at \in {"slot", "poll", "06h"}, drv'.pos = drv.pos, drv'.end = drv.end,
           drv'.data = drv.data, drv'.ok = drv.ok, drv'.answer = drv.answer,
           \A k \in 0 .. N - 1 : \/ drv'.pendingPage[k] = drv.pendingPage[k]
                                 \/ drv'.pendingPage[k] = NoPage /\ Free(k) /\ ~chip[k].fail
    PROVE  DutyInv(N)' /\ DeviceStep
<1>1. /\ Chip = 0 .. N - 1 /\ Chip' = 0 .. N - 1 /\ drv.pos \in Nat /\ N * P \in Nat
      /\ \A k \in 0 .. N - 1 :
           /\ chip[k].busy \in {"program", "erase"} => ~chip[k].fail
           /\ drv.pendingPage[k] # NoPage => (drv.pendingPage[k] * N) + k < drv.pos
           /\ ~Free(k) => /\ chip[k].busy = "program" /\ chip[k].target = drv.pendingPage[k]
                          /\ chip[k].buf = drv.data[(chip[k].target * N) + k]
  BY WriteFacts
<1>2. DutyInv(N)'
  BY <1>1 DEF DutyInv, Free
<1>3. SamePages(N, P)
  BY CellsKept DEF SamePages
<1>4. \A p \in 0 .. drv.pos - 1 : p % N \in 0 .. N - 1 /\ p \div N \in Nat
  BY <1>1, PagesBelow
<1>5. \A p \in 0 .. drv.pos - 1 : Programs(N, p)' <=> Programs(N, p)
  BY <1>4 DEF Programs, Free, NoPage
<1>6. Left(N)' = Left(N)
  BY <1>5 DEF Left
<1>7. Failed' <=> Failed
  <2>1. \A k \in 0 .. N - 1 : drv'.pendingPage[k] # NoPage /\ chip[k].fail <=> drv.pendingPage[k] # NoPage /\ chip[k].fail
    OBVIOUS
  <2> QED
    BY <1>1, <2>1, FailsAlike
<1> QED
  BY <1>2, <1>3, <1>6, <1>7, Stutters

\* A load or an execute that does not reach its chip ends the write.
LEMMA WriteStops ==
    ASSUME NEW N \in Nat \ {0}, NEW P \in Nat \ {0}, Seen(N, P), drv.op = "write", UNCHANGED <<chip, buffer>>,
           drv' = [drv EXCEPT !.at = "slot", !.ok = FALSE]
    PROVE  DutyInv(N)' /\ DeviceStep
<1>1. /\ drv \in DrvRecord(N, P) /\ drv.op = "write"
      /\ \A k \in 0 .. N - 1 :
           /\ chip[k].busy \in {"program", "erase"} => ~chip[k].fail
           /\ drv.pendingPage[k] # NoPage => (drv.pendingPage[k] * N) + k < drv.pos
           /\ ~Free(k) => /\ chip[k].busy = "program" /\ chip[k].target = drv.pendingPage[k]
                          /\ chip[k].buf = drv.data[(chip[k].target * N) + k]
  BY WriteFacts
<1>2. /\ drv'.op = "write" /\ drv'.at = "slot" /\ drv'.pos = drv.pos /\ drv'.data = drv.data
      /\ ~drv'.ok /\ drv'.pendingPage = drv.pendingPage
  BY <1>1 DEF DrvRecord
<1>3. DutyInv(N)'
  BY <1>1, <1>2 DEF DutyInv, Free
<1>4. Failed' /\ SamePages(N, P)
  BY <1>2, CellsKept DEF Failed, SamePages
<1> QED
  BY <1>2, <1>3, <1>4, SpoilsNothing

LEMMA WritesDevice ==
    ASSUME NEW N \in Nat \ {0}, NEW P \in Nat \ {0}, Seen(N, P), drv.op = "write", Driver
    PROVE  DutyInv(N)' /\ DeviceStep
<1>1. /\ chip \in [0 .. N - 1 -> ChipRecord(P)] /\ drv \in DrvRecord(N, P) /\ TypeInv(N, P)
      /\ n = N /\ Chip = 0 .. N - 1 /\ Chip' = 0 .. N - 1 /\ unseen = 0 /\ unseen' = 0 /\ TroubleInv
      /\ drv.idx \in 0 .. N - 1 /\ drv.pos \in Nat /\ drv.end \in Nat /\ drv.pos <= drv.end /\ drv.end <= N * P
      /\ N * P \in Nat /\ drv.ok \in BOOLEAN
      /\ drv.pendingPage \in [0 .. N - 1 -> -1 .. P - 1]
      /\ drv.at \in {"06h", "02h", "10h"} => /\ drv.pos < drv.end /\ drv.idx = drv.pos % N
                                             /\ drv.pendingPage[drv.idx] = NoPage /\ Free(drv.idx)
      /\ drv.at \in {"02h", "10h"} => chip[drv.idx].wel
      /\ drv.at = "10h" => chip[drv.idx].buf = drv.data[drv.pos]
      /\ \A k \in 0 .. N - 1 : chip[k] \in ChipRecord(P)
  BY WriteFacts
<1>2. \A k \in 0 .. N - 1 :
           /\ chip[k].busy \in {"program", "erase"} => ~chip[k].fail
           /\ drv.pendingPage[k] # NoPage => (drv.pendingPage[k] * N) + k < drv.pos
           /\ ~Free(k) => /\ chip[k].busy = "program" /\ chip[k].target = drv.pendingPage[k]
                          /\ chip[k].buf = drv.data[(chip[k].target * N) + k]
  BY WriteFacts
<1>3. NextPage \/ waitChip \/ WriteEnable \/ ProgramLoad \/ ProgramIssue
  BY DEF Driver, Open, ReadDone, PageRead, PageReadWait, ReadBuf, BlockErase, BlockEraseWait, At
<1>4. CASE NextPage
  <2>1. UNCHANGED <<chip, buffer>>
    BY <1>4 DEF NextPage
  <2>2. ASSUME NEW k, NEW step \in {"poll", "06h"}, drv' = [drv EXCEPT !.at = step, !.idx = k]
        PROVE  DutyInv(N)' /\ DeviceStep
    <3>1. /\ drv'.op = "write" /\ drv'.at = step /\ drv'.pos = drv.pos /\ drv'.end = drv.end
          /\ drv'.data = drv.data /\ drv'.ok = drv.ok /\ drv'.answer = drv.answer
          /\ drv'.pendingPage = drv.pendingPage
      BY <1>1, <2>2 DEF DrvRecord
    <3> QED
      BY <2>1, <3>1, WriteMoves
  <2>3. CASE Pending = {} /\ ~(drv.pos < drv.end /\ drv.ok) /\ Answer(drv.ok)
    <3>1. drv.ok => ~Failed
      BY <2>3 DEF Failed
    <3>2. drv.ok => Left(N) = {}
      <4>1. \A k \in 0 .. N - 1 : drv.pendingPage[k] = NoPage
        BY <1>1, <2>3 DEF Pending
      <4>2. \A p \in 0 .. drv.pos - 1 : p % N \in 0 .. N - 1 /\ p \div N \in Nat
        BY <1>1, PagesBelow
      <4>3. \A p \in 0 .. drv.pos - 1 : ~Programs(N, p)
        BY <4>1, <4>2 DEF Programs, NoPage
      <4>4. drv.ok => drv.pos .. drv.end - 1 = {}
        BY <1>1, <2>3
      <4> QED
        BY <4>3, <4>4 DEF Left
    <3>3. SamePages(N, P)
      BY <2>1, CellsKept DEF SamePages
    <3> QED
      BY <1>1, <2>3, <3>1, <3>2, <3>3, AnswersDevice
  <2> QED
    BY <1>4, <2>2, <2>3 DEF NextPage, Wait
<1>5. CASE waitChip
  <2>1. PICK result \in {"ready", "failed", "timeout"} :
          /\ WaitEnds(drv.idx, result)
          /\ drv' = [drv EXCEPT !.at = "slot", !.ok = @ /\ result = "ready", !.pendingPage[drv.idx] = NoPage]
    BY <1>5 DEF waitChip
  <2>2. UNCHANGED <<chip, buffer>>
    BY <1>5 DEF waitChip
  <2>3. Free(drv.idx) /\ (result = "ready" => ~chip[drv.idx].fail)
    BY <1>1, <2>1, SpiGeometry DEF WaitEnds, TroubleInv, Trouble
  <2> DEFINE ok == drv.ok /\ result = "ready"
             pending == [drv.pendingPage EXCEPT ![drv.idx] = NoPage]
  <2>4. drv' = [drv EXCEPT !.at = "slot", !.ok = ok, !.pendingPage = pending]
    BY <1>1, <2>1
  <2>5. \A k \in 0 .. N - 1 : pending[k] = IF k = drv.idx THEN NoPage ELSE drv.pendingPage[k]
    BY <1>1
  <2> HIDE DEF ok, pending
  <2>6. /\ drv'.op = "write" /\ drv'.at = "slot" /\ drv'.pos = drv.pos /\ drv'.end = drv.end
        /\ drv'.data = drv.data /\ drv'.ok = ok /\ drv'.answer = drv.answer
        /\ drv'.pendingPage = pending
    BY <1>1, <2>4 DEF DrvRecord
  <2>7. CASE result = "ready"
    <3>1. ok = drv.ok
      BY <1>1, <2>7 DEF ok
    <3> QED
      BY <2>2, <2>3, <2>5, <2>6, <2>7, <3>1, WriteMoves
  <2>8. CASE result # "ready"
    <3>1. ~drv'.ok
      BY <2>6, <2>8 DEF ok
    <3>2. Failed' /\ SamePages(N, P)
      BY <2>2, <3>1, CellsKept DEF Failed, SamePages
    <3>3. DutyInv(N)'
      <4>1. \A k \in 0 .. N - 1 :
              /\ drv'.pendingPage[k] # NoPage => (drv'.pendingPage[k] * N) + k < drv.pos
              /\ chip[k].busy # "no" => drv'.pendingPage[k] = drv.pendingPage[k]
        BY <1>2, <2>3, <2>5, <2>6 DEF Free
      <4> QED
        BY <1>2, <2>2, <2>6, <4>1 DEF DutyInv, Free
    <3> QED
      BY <2>6, <3>2, <3>3, SpoilsNothing
  <2> QED
    BY <2>7, <2>8
<1>6. CASE WriteEnable
  <2>1. /\ SamePages(N, P) /\ chip'[drv.idx].wel
        /\ \A k \in 0 .. N - 1 :
              /\ chip'[k].busy = chip[k].busy /\ chip'[k].target = chip[k].target
              /\ chip'[k].buf = chip[k].buf /\ chip'[k].fail = chip[k].fail
        /\ drv.at = "06h" /\ drv'.at = "02h"
        /\ drv'.op = "write" /\ drv'.pos = drv.pos /\ drv'.end = drv.end /\ drv'.idx = drv.idx
        /\ drv'.data = drv.data /\ drv'.ok = drv.ok /\ drv'.answer = drv.answer
        /\ drv'.pendingPage = drv.pendingPage
    BY <1>6, Enables
  <2>2. DutyInv(N)'
    BY <1>2, <2>1 DEF DutyInv, Free
  <2>3. \A p \in 0 .. drv.pos - 1 : p % N \in 0 .. N - 1
    BY <1>1, PagesBelow
  <2>4. Left(N)' = Left(N)
    BY <2>1, <2>3 DEF Left, Programs
  <2>5. Failed' <=> Failed
    BY <1>1, <2>1, FailsAlike
  <2> QED
    BY <2>1, <2>2, <2>4, <2>5, Stutters
<1>7. CASE ProgramLoad
  <2> DEFINE k == drv.idx   content == drv.data[drv.pos]   after == Loaded(chip[k], content)
  <2>1. PICK sent \in BOOLEAN :
          /\ Send(k, sent, after)
          /\ drv' = IF sent THEN [drv EXCEPT !.at = "10h"] ELSE [drv EXCEPT !.at = "slot", !.ok = FALSE]
    BY <1>7 DEF ProgramLoad
  <2>2. drv.at = "02h" /\ drv.pos < drv.end /\ buffer' = buffer
    BY <1>1, <1>7 DEF ProgramLoad, At
  <2>3. content \in SUBSET Bit
    <3>1. drv.pos \in drv.pos .. drv.end - 1
      BY <1>1, <2>2
    <3> QED
      BY <1>1, <3>1 DEF TypeInv, DrvInv
  <2>4. chip[k].wel /\ Free(k) /\ k \in 0 .. N - 1 /\ chip[k] \in ChipRecord(P)
    BY <1>1, <2>2
  <2> HIDE DEF content
  <2>5. /\ after \in ChipRecord(P) /\ after.wel /\ after.busy = chip[k].busy /\ after.target = chip[k].target
        /\ after.buf = content /\ after.fail = chip[k].fail /\ after.cells = chip[k].cells
    BY <2>3, <2>4 DEF Loaded, ChipRecord
  <2> HIDE DEF k, after
  <2>6. /\ \A j \in 0 .. N - 1 : j # k => chip'[j] = chip[j]
        /\ chip'[k] = IF sent /\ Free(k) THEN after ELSE chip[k]
    <3>1. Send(k, sent, after) /\ after \in ChipRecord(P) /\ k \in 0 .. N - 1 /\ chip \in [0 .. N - 1 -> ChipRecord(P)]
      BY <1>1, <2>1, <2>4, <2>5
    <3> QED
      BY <3>1, SendIs
  <2>7. CASE ~sent
    <3>1. chip' = chip
      BY <2>1, <2>7 DEF Send
    <3> QED
      BY <2>1, <2>2, <2>7, <3>1, WriteStops
  <2>8. CASE sent
    <3>1. Goto("10h") /\ "10h" \in Steps
      BY <2>1, <2>8 DEF Goto, Steps
    <3>2. /\ drv'.at = "10h" /\ drv'.op = "write" /\ drv'.pos = drv.pos /\ drv'.end = drv.end /\ drv'.idx = k
          /\ drv'.data = drv.data /\ drv'.ok = drv.ok /\ drv'.answer = drv.answer
          /\ drv'.pendingPage = drv.pendingPage
      BY <1>1, <3>1, GotoIs DEF k
    <3>3. chip'[k] = after
      BY <2>4, <2>6, <2>8
    <3>4. \A j \in 0 .. N - 1 : /\ chip'[j].busy = chip[j].busy /\ chip'[j].target = chip[j].target
                                /\ chip'[j].fail = chip[j].fail /\ chip'[j].cells = chip[j].cells
                                /\ ~Free(j) => chip'[j].buf = chip[j].buf
      BY <2>4, <2>5, <2>6, <3>3
    <3>5. chip'[drv'.idx].wel /\ chip'[drv'.idx].buf = drv'.data[drv'.pos]
      BY <2>5, <3>2, <3>3 DEF content
    <3>6. DutyInv(N)'
      BY <1>2, <3>2, <3>4, <3>5 DEF DutyInv, Free
    <3>7. SamePages(N, P)
      BY <2>2, <3>4, CellsKept DEF SamePages
    <3>8. \A p \in 0 .. drv.pos - 1 : p % N \in 0 .. N - 1
      BY <1>1, PagesBelow
    <3>9. Left(N)' = Left(N)
      BY <3>2, <3>4, <3>8 DEF Left, Programs
    <3>10. Failed' <=> Failed
      BY <1>1, <3>2, <3>4, FailsAlike
    <3> QED
      BY <3>2, <3>6, <3>7, <3>9, <3>10, Stutters
  <2> QED
    BY <2>7, <2>8
<1>8. CASE ProgramIssue
  <2> DEFINE k == drv.idx   page == physPageOf(drv.pos)   after == Started(chip[k], "program", page)
  <2>1. PICK sent \in BOOLEAN :
          /\ Send(k, sent, after)
          /\ drv' = IF sent THEN [drv EXCEPT !.at = "slot", !.pos = @ + 1, !.pendingPage[k] = page]
                            ELSE [drv EXCEPT !.at = "slot", !.ok = FALSE]
    BY <1>8 DEF ProgramIssue
  <2>2. drv.at = "10h" /\ drv.pos < drv.end /\ buffer' = buffer /\ drv.pos < N * P
    BY <1>1, <1>8 DEF ProgramIssue, At
  <2>3. page = drv.pos \div N /\ page \in 0 .. P - 1 /\ drv.pos = (page * N) + k
    BY <1>1, <2>2, PageParts DEF physPageOf
  <2>4. /\ chip[k].wel /\ Free(k) /\ k \in 0 .. N - 1 /\ chip[k] \in ChipRecord(P)
        /\ chip[k].buf = drv.data[drv.pos] /\ drv.pendingPage[k] = NoPage /\ k = drv.pos % N
    BY <1>1, <2>2
  <2> HIDE DEF page
  <2>5. /\ after \in ChipRecord(P) /\ after.busy = "program" /\ after.target = page /\ ~after.fail
        /\ after.buf = chip[k].buf /\ after.cells = chip[k].cells
    BY <2>3, <2>4 DEF Started, ChipRecord
  <2> HIDE DEF k, after
  <2>6. /\ \A j \in 0 .. N - 1 : j # k => chip'[j] = chip[j]
        /\ chip'[k] = IF sent /\ Free(k) THEN after ELSE chip[k]
    <3>1. Send(k, sent, after) /\ after \in ChipRecord(P) /\ k \in 0 .. N - 1 /\ chip \in [0 .. N - 1 -> ChipRecord(P)]
      BY <1>1, <2>1, <2>4, <2>5
    <3> QED
      BY <3>1, SendIs
  <2>7. CASE ~sent
    <3>1. chip' = chip
      BY <2>1, <2>7 DEF Send
    <3> QED
      BY <2>1, <2>2, <2>7, <3>1, WriteStops
  <2>8. CASE sent
    <3> DEFINE next == drv.pos + 1   pending == [drv.pendingPage EXCEPT ![k] = page]
    <3>1. drv' = [drv EXCEPT !.at = "slot", !.pos = next, !.pendingPage = pending]
      BY <1>1, <2>1, <2>8
    <3>2. \A j \in 0 .. N - 1 : pending[j] = IF j = k THEN page ELSE drv.pendingPage[j]
      BY <1>1
    <3>3. next \in Nat /\ drv.pos < next /\ next <= drv.end
      <4>1. drv.pos \in Nat /\ drv.end \in Nat /\ drv.pos < drv.end
        BY <1>1, <2>2
      <4> QED
        BY <4>1
    <3> HIDE DEF next, pending
    <3>4. /\ drv'.at = "slot" /\ drv'.op = "write" /\ drv'.pos = next /\ drv'.end = drv.end
          /\ drv'.data = drv.data /\ drv'.ok = drv.ok /\ drv'.answer = drv.answer
          /\ drv'.pendingPage = pending
      BY <1>1, <3>1 DEF DrvRecord
    <3>5. chip'[k] = after
      BY <2>4, <2>6, <2>8
    <3>6. DutyInv(N)'
      <4>1. \A j \in 0 .. N - 1 : chip'[j].busy \in {"program", "erase"} => ~chip'[j].fail
        BY <1>2, <2>5, <2>6, <3>5
      <4>2. \A j \in 0 .. N - 1 : pending[j] # NoPage => (pending[j] * N) + j < next
        <5> TAKE j \in 0 .. N - 1
        <5>1. CASE j = k
          BY <2>3, <3>2, <3>3, <5>1
        <5>2. CASE j # k
          <6>1. ASSUME pending[j] # NoPage PROVE (pending[j] * N) + j < next
            <7>1. (drv.pendingPage[j] * N) + j < drv.pos /\ pending[j] = drv.pendingPage[j]
              BY <1>2, <3>2, <5>2, <6>1
            <7>2. drv.pendingPage[j] \in Int /\ j \in Int
              BY <1>1
            <7>3. (drv.pendingPage[j] * N) + j \in Int
              BY <7>2
            <7> DEFINE x == (drv.pendingPage[j] * N) + j
            <7>4. x \in Int /\ x < drv.pos /\ drv.pos \in Nat /\ next \in Nat /\ drv.pos < next
              BY <1>1, <3>3, <7>1, <7>3
            <7> HIDE DEF x
            <7>5. x < next
              BY <7>4
            <7> QED
              BY <7>1, <7>5 DEF x
          <6> QED
            BY <6>1
        <5> QED
          BY <5>1, <5>2
      <4>3. \A j \in 0 .. N - 1 : chip'[j].busy # "no" =>
                /\ chip'[j].busy = "program" /\ chip'[j].target = pending[j]
                /\ chip'[j].buf = drv.data[(chip'[j].target * N) + j]
        <5> TAKE j \in 0 .. N - 1
        <5>1. CASE j = k
          BY <2>3, <2>4, <2>5, <3>2, <3>5, <5>1
        <5>2. CASE j # k
          BY <1>2, <2>6, <3>2, <5>2 DEF Free
        <5> QED
          BY <5>1, <5>2
      <4> QED
        BY <3>4, <4>1, <4>2, <4>3 DEF DutyInv, Free
    <3>7. SamePages(N, P)
      <4>1. \A j \in 0 .. N - 1 : chip'[j].cells = chip[j].cells
        BY <2>5, <2>6, <3>5
      <4> QED
        BY <2>2, <4>1, CellsKept DEF SamePages
    <3>8. Left(N)' = Left(N)
      <4>1. /\ Left(N) = drv.pos .. drv.end - 1 \cup {p \in 0 .. drv.pos - 1 : Programs(N, p)}
            /\ Left(N)' = next .. drv.end - 1 \cup {p \in 0 .. next - 1 : Programs(N, p)'}
        BY <3>4 DEF Left
      <4>2. \A p : p = drv.pos => Programs(N, p)'
        <5>1. pending[k] = page /\ chip'[k].busy = "program"
          BY <2>4, <2>5, <3>2, <3>5
        <5> QED
          BY <2>3, <2>4, <3>4, <5>1 DEF Programs
      <4>3. \A p \in 0 .. drv.pos - 1 : Programs(N, p)' <=> Programs(N, p)
        <5> TAKE p \in 0 .. drv.pos - 1
        <5>1. p % N \in 0 .. N - 1 /\ p \in Nat /\ p # drv.pos /\ p < N * P
          <6>1. drv.pos \in Nat /\ N * P \in Nat /\ drv.pos < N * P
            BY <1>1, <2>2
          <6>2. p \in Nat /\ p < drv.pos /\ p < N * P
            BY <6>1
          <6> QED
            BY <6>1, <6>2, PagesBelow
        <5>2. p = ((p \div N) * N) + (p % N)
          BY <5>1, PageParts
        <5>3. CASE p % N = k
          <6>1. p \div N # page
            BY <2>3, <5>1, <5>2, <5>3
          <6> QED
            BY <2>4, <3>2, <3>4, <5>3, <6>1 DEF Programs, Free
        <5>4. CASE p % N # k
          BY <2>6, <3>2, <3>4, <5>1, <5>4 DEF Programs
        <5> QED
          BY <5>3, <5>4
      <4>4. /\ drv.pos .. drv.end - 1 = next .. drv.end - 1 \cup {drv.pos}
            /\ 0 .. next - 1 = (0 .. drv.pos - 1) \cup {drv.pos}
        <5>1. drv.pos \in Nat /\ drv.end \in Nat /\ drv.pos < drv.end /\ next = drv.pos + 1
          BY <1>1, <2>2 DEF next
        <5> QED
          BY <5>1
      <4>5. {p \in 0 .. next - 1 : Programs(N, p)'} = {p \in 0 .. drv.pos - 1 : Programs(N, p)} \cup {drv.pos}
        <5> DEFINE below == 0 .. drv.pos - 1   upto == 0 .. next - 1
        <5>1. upto = below \cup {drv.pos} /\ \A p \in below : Programs(N, p)' <=> Programs(N, p)
          BY <4>3, <4>4
        <5> HIDE DEF below, upto
        <5>2. {p \in upto : Programs(N, p)'} = {p \in below : Programs(N, p)} \cup {drv.pos}
          <6>1. drv.pos \in upto
            BY <5>1
          <6>2. \A p \in upto : Programs(N, p)' <=> p = drv.pos \/ (p \in below /\ Programs(N, p))
            BY <4>2, <5>1
          <6> QED
            BY <5>1, <6>1, <6>2
        <5> QED
          BY <5>2 DEF below, upto
      <4> QED
        BY <4>1, <4>4, <4>5
    <3>9. Failed' <=> Failed
      <4>1. \A j \in 0 .. N - 1 : pending[j] # NoPage /\ chip'[j].fail
                                    <=> drv.pendingPage[j] # NoPage /\ chip[j].fail
        BY <2>4, <2>5, <2>6, <3>2, <3>5
      <4> QED
        BY <1>1, <3>4, <4>1 DEF Failed, Pending
    <3> QED
      BY <3>4, <3>6, <3>7, <3>8, <3>9, Stutters
  <2> QED
    BY <2>7, <2>8
<1> QED
  BY <1>3, <1>4, <1>5, <1>6, <1>7, <1>8

\* A chip ends a program: its page is done.
LEMMA ProgramAdvances ==
    ASSUME NEW N \in Nat \ {0}, NEW P \in Nat \ {0}, Seen(N, P), drv.op = "write", UNCHANGED <<drv, buffer>>,
           NEW k \in 0 .. N - 1, ~Free(k), ~chip[k].protected, chip'[k] = Completed(chip[k]),
           \A j \in 0 .. N - 1 : j # k => chip'[j] = chip[j]
    PROVE  DeviceStep
<1>1. /\ chip \in [0 .. N - 1 -> ChipRecord(P)] /\ Chip = 0 .. N - 1 /\ Chip' = 0 .. N - 1 /\ chip[k] \in ChipRecord(P)
      /\ drv.pos \in Nat /\ drv.end \in Nat /\ drv.pos <= drv.end /\ drv.end <= N * P /\ N * P \in Nat
  BY WriteFacts
<1> DEFINE target == chip[k].target
<1>2. /\ chip[k].busy = "program" /\ drv.pendingPage[k] = target /\ ~chip[k].fail
      /\ chip[k].buf = drv.data[(target * N) + k] /\ (target * N) + k < drv.pos
  BY BusyIs
<1>3. target \in 0 .. P - 1 /\ target \in Nat /\ chip[k].cells \in [0 .. P - 1 -> SUBSET Bit]
  BY <1>1 DEF ChipRecord
<1> HIDE DEF target
<1>4. PICK here \in Nat : here = (target * N) + k
  <2>1. target * N \in Nat /\ k \in Nat
    BY <1>3
  <2>2. (target * N) + k \in Nat
    BY <2>1
  <2> QED
    BY <2>2
<1>5. here % N = k /\ here \div N = target
  BY <1>3, <1>4, PageOf
<1>6. here \in 0 .. N * P - 1 /\ here \in 0 .. drv.pos - 1
  <2>1. here < drv.pos
    BY <1>2, <1>4
  <2> QED
    BY <1>1, <2>1
<1>7. \A p \in 0 .. N * P - 1 : p % N \in 0 .. N - 1 /\ p \div N \in 0 .. P - 1 /\ (p % N = k /\ p \div N = target => p = here)
  <2> TAKE p \in 0 .. N * P - 1
  <2>1. p \in Nat /\ p < N * P
    BY <1>1
  <2> QED
    BY <1>4, <2>1, PageParts
<1>8. /\ chip'[k].cells = [chip[k].cells EXCEPT ![target] = @ \cup chip[k].buf]
      /\ chip'[k].busy = "no" /\ ~chip'[k].fail
  BY <1>1, <1>2 DEF Completed, Ended, ChipRecord, target
<1>9. \A q \in 0 .. P - 1 : chip'[k].cells[q] = IF q = target THEN chip[k].cells[q] \cup chip[k].buf ELSE chip[k].cells[q]
  BY <1>3, <1>8
<1> DEFINE done == {here}
<1>10. \A p \in 0 .. N * P - 1 : Cell(N, p)' = IF p \in done THEN Cell(N, p) \cup drv.data[p] ELSE Cell(N, p)
  <2> TAKE p \in 0 .. N * P - 1
  <2>1. CASE p = here
    BY <1>2, <1>3, <1>4, <1>5, <1>9, <2>1 DEF Cell
  <2>2. CASE p # here /\ p % N = k
    BY <1>7, <1>9, <2>2 DEF Cell
  <2>3. CASE p % N # k
    BY <1>5, <1>7, <2>3 DEF Cell
  <2> QED
    BY <2>1, <2>2, <2>3
<1>11. \A p \in 0 .. drv.pos - 1 : p \in 0 .. N * P - 1
  BY <1>1
<1>12. \A p \in 0 .. drv.pos - 1 : /\ Programs(N, p)' <=> Programs(N, p) /\ p # here
                                   /\ p = here => Programs(N, p)
  <2> TAKE p \in 0 .. drv.pos - 1
  <2>1. p \in 0 .. N * P - 1
    BY <1>11
  <2>2. CASE p % N = k
    BY <1>2, <1>5, <1>7, <1>8, <2>1, <2>2 DEF Programs
  <2>3. CASE p % N # k
    BY <1>5, <1>7, <2>1, <2>3 DEF Programs
  <2> QED
    BY <2>2, <2>3
<1>13. here \notin drv.pos .. drv.end - 1
  BY <1>1, <1>6
<1>14. /\ Left(N) = drv.pos .. drv.end - 1 \cup {p \in 0 .. drv.pos - 1 : Programs(N, p)}
       /\ Left(N)' = drv.pos .. drv.end - 1 \cup {p \in 0 .. drv.pos - 1 : Programs(N, p)'}
  BY DEF Left
<1>15. Left(N)' = Left(N) \ done /\ done \subseteq Left(N)
  BY <1>6, <1>12, <1>13, <1>14
<1>16. Failed' <=> Failed
  <2>1. \A j \in 0 .. N - 1 : drv'.pendingPage[j] # NoPage /\ chip'[j].fail <=> drv.pendingPage[j] # NoPage /\ chip[j].fail
    BY <1>2, <1>8
  <2> QED
    BY <1>1, <2>1, FailsAlike
<1>17. done # {}
  OBVIOUS
<1> HIDE DEF done
<1> QED
  BY <1>10, <1>15, <1>16, <1>17, Advances

LEMMA ChipsDevice ==
    ASSUME NEW N \in Nat \ {0}, NEW P \in Nat \ {0}, Seen(N, P), ChipStep
    PROVE  DutyInv(N)' /\ DeviceStep
<1>1. TypeInv(N, P) /\ TypeInv(N, P)' /\ DutyInv(N) /\ FreeInv(N) /\ unseen = 0 /\ UNCHANGED <<drv, buffer>>
  BY DEF Seen, ChipStep, ChipDone, ChipFails
<1>2. PICK k \in 0 .. N - 1 :
        /\ ~Free(k) /\ chip'[k].busy = "no" /\ \A j \in 0 .. N - 1 : j # k => chip'[j] = chip[j]
        /\ \/ chip'[k] = Completed(chip[k])
           \/ chip[k].busy # "read" /\ chip'[k].fail /\ chip'[k].cells \in CutShort(chip[k])
  BY <1>1, ChipEnds
<1>3. chip[k] \in ChipRecord(P) /\ drv.idx \in 0 .. N - 1
  BY <1>1 DEF TypeInv, DrvInv, DrvRecord
<1>4. \/ drv.op = "read" /\ drv.at = "poll" /\ chip[k].busy = "read"
      \/ drv.op = "write" /\ chip[k].busy = "program" /\ drv.pendingPage[k] = chip[k].target
      \/ drv.op = "erase" /\ drv.at = "poll" /\ k = drv.idx /\ chip[k].busy = "erase"
  BY <1>1, <1>2, BusyIs
<1>5. DutyInv(N)'
  <2>1. \A j \in 0 .. N - 1 : chip'[j].busy # "no" => chip'[j] = chip[j]
    BY <1>2
  <2>2. drv.at \in {"02h", "10h"} /\ drv.op = "write" => chip'[drv.idx] = chip[drv.idx]
    <3>1. drv.at \in {"02h", "10h"} /\ drv.op = "write" => Free(drv.idx)
      BY <1>1, WriteFacts
    <3> QED
      BY <1>2, <1>3, <3>1
  <2>3. CASE drv.op = "read"
    BY <1>1, <2>1, <2>3 DEF DutyInv
  <2>4. CASE drv.op = "write"
    BY <1>1, <2>1, <2>2, <2>4 DEF DutyInv, Free
  <2>5. CASE drv.op = "erase" /\ drv.at = "poll"
    BY <1>1, <1>3, <2>1, <2>5 DEF DutyInv, Free
  <2> QED
    BY <1>4, <2>3, <2>4, <2>5
<1>6. ASSUME chip'[k].fail, drv.op # "read" PROVE Failed'
  <2>1. Chip' = 0 .. N - 1
    BY <1>1, SizesNext DEF TypeInv
  <2>2. CASE drv.op = "write"
    <3>1. chip[k].target \in 0 .. P - 1
      BY <1>3 DEF ChipRecord
    <3>2. drv.pendingPage[k] # NoPage
      BY <1>4, <2>2, <3>1 DEF NoPage
    <3> QED
      BY <1>1, <1>6, <2>1, <2>2, <3>2 DEF Failed, Pending
  <2>3. CASE drv.op = "erase"
    BY <1>1, <1>4, <1>6, <2>3 DEF Failed
  <2> QED
    BY <1>4, <1>6, <2>2, <2>3
<1>7. CASE chip'[k] = Completed(chip[k]) /\ drv.op = "read"
  <2>1. chip'[k].cells = chip[k].cells
    BY <1>3, <1>4, <1>7, ReadEnds
  <2>2. \A j \in 0 .. N - 1 : chip'[j].cells = chip[j].cells
    BY <1>2, <2>1
  <2>3. SamePages(N, P)
    BY <1>1, <2>2, CellsKept DEF SamePages
  <2>4. Left(N)' = Left(N) /\ (Failed' <=> Failed)
    BY <1>1, <1>7 DEF Left, Failed
  <2> QED
    BY <1>1, <1>5, <2>3, <2>4, Stutters
<1>8. CASE chip'[k] = Completed(chip[k]) /\ drv.op # "read" /\ chip[k].protected
  <2>1. chip'[k].cells = chip[k].cells /\ chip'[k].fail
    BY <1>3, <1>4, <1>8 DEF Completed, Ended, ChipRecord
  <2>2. \A j \in 0 .. N - 1 : chip'[j].cells = chip[j].cells
    BY <1>2, <2>1
  <2>3. SamePages(N, P)
    BY <1>1, <2>2, CellsKept DEF SamePages
  <2> QED
    BY <1>1, <1>4, <1>5, <1>6, <1>8, <2>1, <2>3, SpoilsNothing
<1>9. CASE chip'[k] = Completed(chip[k]) /\ drv.op # "read" /\ ~chip[k].protected
  <2>1. CASE drv.op = "write"
    BY <1>1, <1>2, <1>5, <1>9, <2>1, ProgramAdvances
  <2>2. CASE drv.op = "erase"
    BY <1>1, <1>2, <1>5, <1>9, <2>2, EraseAdvances
  <2> QED
    BY <1>4, <1>9, <2>1, <2>2
<1>10. CASE chip[k].busy # "read" /\ chip'[k].fail /\ chip'[k].cells \in CutShort(chip[k])
  <2>1. \A j \in 0 .. N - 1 : chip'[j].cells = chip[j].cells \/ chip'[j].cells \in CutShort(chip[j])
    BY <1>2, <1>10
  <2>2. HalfDone(N, P) /\ Left(N) \subseteq 0 .. N * P - 1
    BY <1>1, <2>1, CutHalfDone, LeftIn
  <2>3. Failed' /\ drv.op # "idle"
    BY <1>4, <1>6, <1>10
  <2> QED
    BY <1>1, <1>5, <2>2, <2>3, Spoils
<1> QED
  BY <1>2, <1>7, <1>8, <1>9, <1>10
-----------------------------------------------------------------------------
\* The calls of the constructor and of the program.
LEMMA BeginsDevice ==
    ASSUME NEW N \in Nat \ {0}, NEW P \in Nat \ {0}, Seen(N, P), drv.op = "idle", UNCHANGED <<chip, buffer>>,
           NEW op \in {"open", "read", "write", "erase"}, NEW at \in {"9Fh", "13h", "slot", "06h"},
           NEW first \in Nat, NEW length \in Nat, NEW data, Begun(N, P, op, at, first, length, data),
           op = "write" => at = "slot",
           op = "erase" => first % (BLOCK_PAGES * N) = 0 /\ (first + length) % (BLOCK_PAGES * N) = 0
    PROVE  DutyInv(N)' /\ DeviceStep
<1>1. /\ drv'.op = op /\ drv'.at = at /\ drv'.pos = first /\ drv'.end = first + length /\ drv'.ok
      /\ \A k \in 0 .. N - 1 : drv'.pendingPage[k] = NoPage
  BY DEF Begun
<1>2. \A k \in 0 .. N - 1 : chip'[k].busy = "no"
  BY DEF Seen, FreeInv, Free
<1>3. DutyInv(N)'
  BY <1>1, <1>2 DEF DutyInv, Free
<1>4. ~Failed'
  <2>1. Chip' = 0 .. N - 1
    BY SizesNext DEF Seen, TypeInv
  <2> QED
    BY <1>1, <2>1 DEF Failed, Pending
<1>5. SamePages(N, P)
  BY CellsKept DEF SamePages
<1> QED
  BY <1>1, <1>3, <1>4, <1>5, Begins

LEMMA RefusesDevice ==
    ASSUME NEW N \in Nat \ {0}, NEW P \in Nat \ {0}, Seen(N, P), drv.op = "idle", UNCHANGED <<chip, buffer>>,
           drv' = [IdleDrv EXCEPT !.answer = "failed"]
    PROVE  DutyInv(N)' /\ DeviceStep
<1>1. drv'.op = "idle" /\ drv'.ok /\ drv'.answer = "failed"
  BY DEF IdleDrv
<1>2. DutyInv(N)'
  BY <1>1, IdleDuty DEF Seen
<1>3. ~Failed'
  BY <1>1 DEF Failed
<1>4. SamePages(N, P)
  BY CellsKept DEF SamePages
<1> QED
  BY <1>1, <1>2, <1>3, <1>4, Begins

LEMMA SumOfGroups ==
    ASSUME NEW B \in Nat \ {0}, NEW a \in Nat, NEW b \in Nat, a % B = 0, b % B = 0
    PROVE  (a + b) % B = 0
<1>1. PICK q \in Nat : a = q * B
  BY Multiple
<1>2. PICK r \in Nat : b = r * B
  BY Multiple
<1>3. PICK k \in Nat : k = q + r
  OBVIOUS
<1>4. a + b = k * B
  BY <1>1, <1>2, <1>3
<1>5. (k * B) % B = 0
  OBVIOUS
<1> QED
  BY <1>4, <1>5

LEMMA EraseCallsDevice ==
    ASSUME NEW N \in Nat \ {0}, NEW P \in Nat \ {0}, Seen(N, P), drv.op = "idle", UNCHANGED <<chip, buffer>>,
           NEW first \in Nat, NEW length \in Nat, CallErase(first, length)
    PROVE  DutyInv(N)' /\ DeviceStep
<1>1. Chip = 0 .. N - 1 /\ groupSize = BLOCK_PAGES * N /\ "06h" \in Steps /\ <<>> \in Contents(N, P)
  BY SizesOf DEF Seen, TypeInv, groupSize, Steps, Contents
<1>2. CASE drv' = [IdleDrv EXCEPT !.answer = "failed"]
  BY <1>2, RefusesDevice
<1>3. CASE first % groupSize = 0 /\ length % groupSize = 0 /\ Call("erase", "06h", first, length, <<>>)
  <2>1. Begun(N, P, "erase", "06h", first, length, <<>>)
    BY <1>1, <1>3, CallIs
  <2>2. BLOCK_PAGES * N \in Nat \ {0}
    <3>1. \A x, y \in Nat \ {0} : x * y \in Nat \ {0}
      OBVIOUS
    <3> QED
      BY <3>1, ChipGeometry
  <2>3. first % (BLOCK_PAGES * N) = 0 /\ length % (BLOCK_PAGES * N) = 0
    BY <1>1, <1>3
  <2>4. (first + length) % (BLOCK_PAGES * N) = 0
    <3> DEFINE G == BLOCK_PAGES * N
    <3>1. G \in Nat \ {0} /\ first % G = 0 /\ length % G = 0
      BY <2>2, <2>3
    <3> HIDE DEF G
    <3>2. (first + length) % G = 0
      BY <3>1, SumOfGroups
    <3> QED
      BY <3>2 DEF G
  <2> QED
    BY <2>1, <2>3, <2>4, BeginsDevice
<1> QED
  BY <1>2, <1>3 DEF CallErase

LEMMA RegionCallsDevice ==
    ASSUME NEW N \in Nat \ {0}, NEW P \in Nat \ {0}, Seen(N, P), drv.op = "idle", UNCHANGED <<chip, buffer>>,
           \/ Call("open", "9Fh", 0, 0, <<>>)
           \/ CallRead(0, ROM_PAGES)
           \/ CallWrite(0, ROM_PAGES, Image)
           \/ CallErase(0, ROM_PAGES)
           \/ \E p \in CalcPage : CallWrite(p, 1, OnePage(p))
    PROVE  DutyInv(N)' /\ DeviceStep
<1>1. /\ Chip = 0 .. N - 1 /\ n = N /\ CHIP_PAGES = P /\ N * P \in Nat /\ ROM_PAGES \in Nat /\ 0 \in Nat /\ 1 \in Nat
      /\ {"9Fh", "13h", "slot"} \subseteq Steps /\ <<>> \in Contents(N, P) /\ Image \in Contents(N, P)
  BY SizesOf, RomFits DEF Seen, TypeInv, Steps, Contents
<1>2. CASE Call("open", "9Fh", 0, 0, <<>>)
  <2>1. Begun(N, P, "open", "9Fh", 0, 0, <<>>)
    BY <1>1, <1>2, CallIs
  <2> QED
    BY <1>1, <2>1, BeginsDevice
<1>3. CASE CallRead(0, ROM_PAGES)
  <2>1. Begun(N, P, "read", "13h", 0, ROM_PAGES, <<>>)
    BY <1>1, <1>3, CallIs DEF CallRead
  <2> QED
    BY <1>1, <2>1, BeginsDevice
<1>4. CASE CallWrite(0, ROM_PAGES, Image)
  <2>1. Begun(N, P, "write", "slot", 0, ROM_PAGES, Image)
    BY <1>1, <1>4, CallIs DEF CallWrite
  <2> QED
    BY <1>1, <2>1, BeginsDevice
<1>5. CASE CallErase(0, ROM_PAGES)
  BY <1>1, <1>5, EraseCallsDevice
<1>6. CASE \E p \in CalcPage : CallWrite(p, 1, OnePage(p))
  <2>1. PICK p \in CalcPage : CallWrite(p, 1, OnePage(p))
    BY <1>6
  <2>2. p \in ROM_PAGES .. N * P - 1 /\ p \in Nat
    BY <1>1 DEF CalcPage, LogicalPage, RomPage
  <2>3. OnePage(p) \in Contents(N, P)
    BY <2>2 DEF Contents
  <2>4. Begun(N, P, "write", "slot", p, 1, OnePage(p))
    BY <1>1, <2>1, <2>2, <2>3, CallIs DEF CallWrite
  <2> QED
    BY <1>1, <2>2, <2>4, BeginsDevice
<1> QED
  BY <1>2, <1>3, <1>4, <1>5, <1>6

LEMMA SameDevice ==
    ASSUME NEW N \in Nat \ {0}, NEW P \in Nat \ {0}, Seen(N, P), UNCHANGED <<chip, drv, buffer>>
    PROVE  DutyInv(N)' /\ DeviceStep
<1>1. DutyInv(N)'
  BY DEF Seen, DutyInv, Free
<1>2. SamePages(N, P)
  BY CellsKept DEF SamePages
<1>3. Left(N)' = Left(N) /\ (Failed' <=> Failed)
  BY DEF Left, Programs, Unerased, Free, Failed, Pending, Chip
<1> QED
  BY <1>1, <1>2, <1>3, Stutters

LEMMA HostDevice ==
    ASSUME NEW N \in Nat \ {0}, NEW P \in Nat \ {0}, Seen(N, P), Constructor \/ Compute
    PROVE  DutyInv(N)' /\ DeviceStep
<1>1. TypeInv(N, P) /\ ROM_PAGES < N * P /\ UNCHANGED <<chip, buffer>>
  BY DEF Seen, Constructor, Compute, OpenDevice, FirstRead, EraseOrWrite, AfterErase, ReadBack, Verify, Run, Then, Exit
<1>2. drv.op = "idle"
  BY <1>1 DEF Constructor, Compute, OpenDevice, FirstRead, EraseOrWrite, AfterErase, ReadBack, Verify, Run,
              Returned, TypeInv, HostInv
<1>3. CASE UNCHANGED drv
  BY <1>1, <1>3, SameDevice
<1>4. CASE CallErase(ROM_PAGES, n * CHIP_PAGES - ROM_PAGES)
  <2>1. n = N /\ CHIP_PAGES = P /\ ROM_PAGES \in Nat /\ N * P \in Nat
    BY <1>1, SizesOf, RomFits DEF TypeInv
  <2>2. PICK length \in Nat : length = n * CHIP_PAGES - ROM_PAGES
    BY <1>1, <2>1
  <2> QED
    BY <1>1, <1>2, <1>4, <2>1, <2>2, EraseCallsDevice
<1>5. CASE \/ Call("open", "9Fh", 0, 0, <<>>)
           \/ CallRead(0, ROM_PAGES)
           \/ CallWrite(0, ROM_PAGES, Image)
           \/ CallErase(0, ROM_PAGES)
           \/ \E p \in CalcPage : CallWrite(p, 1, OnePage(p))
  BY <1>1, <1>2, <1>5, RegionCallsDevice
<1>6. \/ UNCHANGED drv
      \/ CallErase(ROM_PAGES, n * CHIP_PAGES - ROM_PAGES)
      \/ Call("open", "9Fh", 0, 0, <<>>)
      \/ CallRead(0, ROM_PAGES)
      \/ CallWrite(0, ROM_PAGES, Image)
      \/ CallErase(0, ROM_PAGES)
      \/ \E p \in CalcPage : CallWrite(p, 1, OnePage(p))
  BY DEF Constructor, Compute, OpenDevice, FirstRead, EraseOrWrite, AfterErase, ReadBack, Verify, Run, Exit, OnePage
<1> QED
  BY <1>3, <1>4, <1>5, <1>6

\* Power fails, or a new process starts: what was going on is given up.
LEMMA AbortsDevice ==
    ASSUME NEW N \in Nat \ {0}, NEW P \in Nat \ {0}, TypeInv(N, P), TypeInv(N, P)', FreeInv(N)',
           Start \/ (PowerFails /\ Seen(N, P))
    PROVE  DutyInv(N)' /\ DeviceStep
<1>1. drv'.op = "idle" /\ drv'.ok /\ drv'.answer = "none"
  BY DEF Start, PowerFails, IdleDrv
<1>2. DutyInv(N)'
  BY <1>1, IdleDuty
<1>3. Left(N) \subseteq 0 .. N * P - 1
  BY LeftIn
<1>4. CASE Start
  <2>1. CellsStay(N, P)
    BY <1>4, CellsKept DEF Start
  <2>2. ASSUME NEW p \in 0 .. N * P - 1 PROVE Device!Partial(p, Cell(N, p)')
    <3>1. Cell(N, p)' = Cell(N, p)
      BY <2>1 DEF CellsStay
    <3> QED
      BY <3>1, PartialIs
  <2>3. HalfDone(N, P)
    BY <2>1, <2>2 DEF HalfDone, CellsStay
  <2> QED
    BY <1>1, <1>2, <1>3, <2>3, Aborts
<1>5. CASE PowerFails /\ Seen(N, P)
  <2>1. HalfDone(N, P)
    BY <1>5, PowerFailsIs, CutHalfDone
  <2> QED
    BY <1>1, <1>2, <1>3, <2>1, Aborts
<1> QED
  BY <1>4, <1>5

LEMMA UnseenGrows ==
    ASSUME NEW N \in Nat \ {0}, NEW P \in Nat \ {0}, TypeInv(N, P), [Next]_vars, ~Start
    PROVE  unseen <= unseen'
<1>1. unseen \in Nat
  BY SpiGeometry DEF TypeInv, TroubleInv
<1>2. CASE DriverStep
  <2>1. CASE drv.op = "open"
    <3>1. Open
      BY <1>2, <2>1 DEF DriverStep, Driver, ReadDone, PageRead, PageReadWait, ReadBuf, NextPage, waitChip, WriteEnable,
                        ProgramLoad, ProgramIssue, BlockErase, BlockEraseWait, At
    <3>2. PICK noticed : Overlooked(noticed)
      BY <3>1 DEF Open
    <3> QED
      BY <1>1, <3>2 DEF Overlooked
  <2> QED
    BY <1>2, <2>1, WorkKeepsLocks DEF DriverStep
<1>3. CASE ChipStep
  BY <1>1, <1>3 DEF ChipStep, ChipDone, ChipFails
<1>4. CASE Constructor \/ Compute
  BY <1>1, <1>4 DEF Constructor, Compute, OpenDevice, FirstRead, EraseOrWrite, AfterErase, ReadBack, Verify, Run, Then, Exit
<1>5. CASE PowerFails \/ Killed
  BY <1>1, <1>5 DEF PowerFails, Killed
<1>6. CASE UNCHANGED vars
  BY <1>1, <1>6 DEF vars, spiVars
<1> QED
  BY <1>2, <1>3, <1>4, <1>5, <1>6 DEF Next

LEMMA StepIsDevice ==
    ASSUME NEW N \in Nat \ {0}, NEW P \in Nat \ {0}, ROM_PAGES < N * P, TypeInv(N, P), TypeInv(N, P)',
           FreeInv(N), FreeInv(N)', ContentInv(N, P), ContentInv(N, P)', DutyInv(N), [Next]_vars
    PROVE  DutyInv(N)' /\ DeviceStep
<1>1. CASE unseen' # 0
  BY <1>1, Breaks DEF DutyInv
<1>2. CASE Start
  BY <1>2, AbortsDevice
<1>3. CASE unseen' = 0 /\ ~Start
  <2>1. unseen = 0
    <3>1. unseen <= unseen' /\ unseen \in Nat
      BY <1>3, UnseenGrows, SpiGeometry DEF TypeInv, TroubleInv
    <3> QED
      BY <1>3, <3>1
  <2>2. Seen(N, P)
    BY <1>3, <2>1 DEF Seen
  <2>3. CASE DriverStep
    <3>1. Driver
      BY <2>3 DEF DriverStep
    <3>2. drv.op \in {"open", "read", "write", "erase"}
      BY <3>1 DEF Driver, Open, ReadDone, PageRead, PageReadWait, ReadBuf, NextPage, waitChip, WriteEnable,
                  ProgramLoad, ProgramIssue, BlockErase, BlockEraseWait, At
    <3> QED
      BY <2>2, <3>1, <3>2, OpensDevice, ReadsDevice, WritesDevice, ErasesDevice
  <2>4. CASE ChipStep
    BY <2>2, <2>4, ChipsDevice
  <2>5. CASE Constructor \/ Compute
    BY <2>2, <2>5, HostDevice
  <2>6. CASE PowerFails
    BY <2>2, <2>6, AbortsDevice
  <2>7. CASE Killed \/ UNCHANGED vars
    BY <2>2, <2>7, SameDevice DEF Killed, vars, spiVars
  <2> QED
    BY <1>3, <2>3, <2>4, <2>5, <2>6, <2>7 DEF Next
<1> QED
  BY <1>1, <1>2, <1>3

BootDevice == \E N, P \in Nat \ {0} : Sized(N, P) /\ ContentInv(N, P) /\ DutyInv(N)

LEMMA BootStep == ASSUME BootDevice, [Next]_vars PROVE BootDevice' /\ DeviceStep
<1>1. PICK N \in Nat \ {0}, P \in Nat \ {0} : Sized(N, P) /\ ContentInv(N, P) /\ DutyInv(N)
  BY DEF BootDevice
<1>2. ROM_PAGES < N * P /\ TypeInv(N, P) /\ FreeInv(N) /\ UnlockInv(N) /\ PlaceInv(N)
  BY <1>1 DEF Sized
<1>3. TypeInv(N, P)' /\ FreeInv(N)' /\ UnlockInv(N)' /\ PlaceInv(N)'
  BY <1>2, StepKeepsTypes, StepKeepsFree, StepKeepsUnlocked, StepKeepsPlace
<1>4. ContentInv(N, P)'
  BY <1>1, <1>2, StepKeepsContent
<1>5. Sized(N, P)'
  BY <1>2, <1>3 DEF Sized
<1>6. DutyInv(N)' /\ DeviceStep
  BY <1>1, <1>2, <1>3, <1>4, StepIsDevice
<1> QED
  BY <1>4, <1>5, <1>6 DEF BootDevice

LEMMA BootDeviceHolds == Spec => []BootDevice /\ Device!Init
<1>1. Init => BootDevice /\ Device!Init
  <2> SUFFICES ASSUME Init PROVE BootDevice /\ Device!Init
    OBVIOUS
  <2>1. PICK N \in Nat \ {0}, P \in Nat \ {0} : Sized(N, P) /\ ContentInv(N, P)
    BY InitContent DEF BootContent
  <2>2. unseen = 0 /\ drv.op = "idle" /\ drv.ok /\ drv.answer = "none"
    BY DEF Init, IdleDrv
  <2>3. DutyInv(N)
    BY <2>1, <2>2 DEF Sized, FreeInv, DutyInv, Free
  <2>4. Device!Init
    BY <2>2 DEF Device!Init, Device!Idle
  <2> QED
    BY <2>1, <2>3, <2>4 DEF BootDevice
<1>2. BootDevice /\ [Next]_vars => BootDevice'
  BY BootStep
<1> QED
  BY <1>1, <1>2, PTL DEF Spec

\* SpiFlash under the constructor is the device of FlashDevice, for every bundle of
\* chips, image and number of faults and crashes: a page is programmed or erased only
\* by an operation it belongs to, an operation cut short leaves at most its own pages
\* half done, and "ok" means that every page is done and no chip failed, although the
\* programs of several chips overlap and are waited for out of order.
THEOREM ImplementsDevice == Spec => RefinesDevice
<1>1. BootDevice /\ [Next]_vars => [Device!Next]_(Device!vars)
  BY BootStep DEF DeviceStep
<1> QED
  BY <1>1, BootDeviceHolds, PTL DEF Spec, RefinesDevice, Device!Spec

\* A page that changes is one of the operation's, and only an erase loses bits.
LEMMA ChangesAre ==
    ASSUME DeviceStep, unseen' = 0, NEW p \in DOMAIN pages, pages'[p] # pages[p]
    PROVE  p \in ToDo /\ (drv.op = "erase" \/ (drv.op = "write" /\ pages[p] \subseteq pages'[p]))
<1>1. CASE Device!Advance
  BY <1>1 DEF Device!Advance
<1>2. CASE Device!Spoil \/ Device!Abort
  <2>1. p \in ToDo /\ Device!Partial(p, pages'[p])
    BY <1>2 DEF Device!Spoil, Device!Abort, Device!OnlyIn
  <2> QED
    BY <2>1 DEF Device!Partial
<1>3. CASE Device!Begin \/ Device!Refuse \/ Device!End \/ UNCHANGED Device!vars
  BY <1>3 DEF Device!Begin, Device!Refuse, Device!End, Device!vars
<1>4. ~Device!Break
  BY DEF Device!Break
<1> QED
  BY <1>1, <1>2, <1>3, <1>4 DEF DeviceStep, Device!Next

\* Where a page that changes is.
LEMMA PlaceOfChange ==
    ASSUME NEW N \in Nat \ {0}, NEW P \in Nat \ {0}, Sized(N, P), [Next]_vars, DeviceStep, unseen' = 0,
           NEW p \in LogicalPage, pages'[p] # pages[p]
    PROVE  \/ drv.op = "erase" /\ OwnErase(p)
           \/ /\ drv.op = "write" /\ pages[p] \subseteq pages'[p]
              /\ Runs => p \notin RomPage
<1>1. /\ ROM_PAGES \in Nat /\ ROM_PAGES < N * P /\ TypeInv(N, P) /\ PlaceInv(N) /\ n = N /\ CHIP_PAGES = P
      /\ N * P \in Nat /\ LogicalPage = 0 .. N * P - 1 /\ DOMAIN pages = LogicalPage
      /\ drv.pos \in Nat /\ drv.end \in Nat
  <2>1. ROM_PAGES \in Nat /\ ROM_PAGES < N * P /\ TypeInv(N, P) /\ PlaceInv(N) /\ N * P \in Nat
    BY RomFits DEF Sized
  <2>2. n = N /\ CHIP_PAGES = P
    BY <2>1, SizesOf DEF TypeInv
  <2>3. drv.pos \in Nat /\ drv.end \in Nat
    BY <2>1 DEF TypeInv, DrvInv, DrvRecord
  <2> QED
    BY <2>1, <2>2, <2>3 DEF LogicalPage, pages
<1>2. p \in ToDo /\ (drv.op = "erase" \/ (drv.op = "write" /\ pages[p] \subseteq pages'[p]))
  BY <1>1, ChangesAre
<1>3. TypeInv(N, P)'
  BY <1>1, StepKeepsTypes
<1>4. p \in Left(N)
  BY <1>1, <1>2, <1>3, DeviceIs
<1>5. CASE drv.op = "erase"
  <2>1. drv.pos <= p /\ p < drv.end
    BY <1>1, <1>4, <1>5 DEF Left
  <2> QED
    BY <1>1, <1>5, <2>1 DEF PlaceInv, OwnErase, RomPage
<1>6. CASE drv.op = "write" /\ Runs
  <2>1. drv.pos <= p \/ Programs(N, p)
    BY <1>1, <1>4, <1>6 DEF Left
  <2>2. CASE Programs(N, p)
    <3>1. p % N \in 0 .. N - 1 /\ p \div N \in 0 .. P - 1 /\ p = ((p \div N) * N) + (p % N)
      <4>1. p \in Nat /\ p < N * P
        BY <1>1
      <4> QED
        BY <4>1, PageParts
    <3>2. drv.pendingPage[p % N] # NoPage
      BY <2>2, <3>1 DEF Programs, NoPage
    <3>3. ROM_PAGES <= p
      BY <1>1, <1>6, <2>2, <3>1, <3>2 DEF PlaceInv, Programs
    <3> QED
      BY <1>1, <1>2, <1>6, <3>3 DEF RomPage
  <2> QED
    BY <1>1, <1>2, <1>6, <2>1, <2>2 DEF PlaceInv, RomPage
<1> QED
  BY <1>2, <1>5, <1>6

\* A CPU that runs (cpu.hpp; PRG_NAND and the erase of the last RAISE in cpu.cpp)
\* never changes a page of its ROM region: no program of the calculation area and no
\* erase of it lands there, whatever the number of chips, and neither one that fails
\* nor a power failure in the middle of one, as long as every fault shows in a return
\* value.
THEOREM RomIsKept == Spec => RomStays
<1>1. BootDevice /\ [Next]_vars
        => [(host \in {"running", "computing"} /\ unseen' = 0) => (RomRegion' = RomRegion)]_vars
  <2> SUFFICES ASSUME BootDevice, [Next]_vars, host \in {"running", "computing"}, unseen' = 0
               PROVE  RomRegion' = RomRegion
    OBVIOUS
  <2>1. PICK N \in Nat \ {0}, P \in Nat \ {0} : Sized(N, P)
    BY DEF BootDevice
  <2>2. RomPage \subseteq LogicalPage
    BY <2>1, PagesAre DEF Sized
  <2>3. ASSUME NEW p \in RomPage PROVE pages'[p] = pages[p]
    BY <2>1, <2>2, BootStep, PlaceOfChange DEF OwnErase, Runs
  <2> QED
    BY <2>3 DEF RomRegion
<1> QED
  BY <1>1, BootDeviceHolds, PTL DEF RomStays, Spec

\* The erases of cpu.hpp and CPU::erase: only the one before the image is written
\* takes bits from the ROM region, and only those of the calculation area from that
\* area, also when they fail, are cut short by a power failure or left running by a
\* killed process.  The first of them is not asked for when the first read was good
\* and showed the image, so a restart wears nothing out.  All this as long as every
\* fault shows in a return value.
THEOREM OnlyOldDataErased == Spec => ErasesOnlyOldData
<1>1. BootContent /\ BootDevice /\ [Next]_vars
        => [unseen' = 0 =>
             /\ host = "first_read" /\ host' = "rom_erase" /\ answers' = <<"ok">> /\ unseen = 0 => RomRegion # Image
             /\ \A p \in LogicalPage : LosesBits(p) => OwnErase(p)]_vars
  <2> SUFFICES ASSUME BootContent, BootDevice, [Next]_vars, unseen' = 0
               PROVE  /\ host = "first_read" /\ host' = "rom_erase" /\ answers' = <<"ok">> /\ unseen = 0
                           => RomRegion # Image
                      /\ \A p \in LogicalPage : LosesBits(p) => OwnErase(p)
    OBVIOUS
  <2>1. ASSUME host = "first_read", host' = "rom_erase", answers' = <<"ok">>, unseen = 0 PROVE RomRegion # Image
    <3>1. PICK N \in Nat \ {0}, P \in Nat \ {0} : Sized(N, P) /\ ContentInv(N, P)
      BY DEF BootContent
    <3>2. EraseOrWrite
      BY <2>1 DEF Next, Constructor, DriverStep, ChipStep, Start, OpenDevice, FirstRead, AfterErase, ReadBack, Verify,
                  Run, Compute, PowerFails, Killed, Then, Exit, vars
    <3>3. drv.op = "idle" /\ drv.answer = "ok" /\ buffer # Image
      BY <2>1, <3>2 DEF EraseOrWrite, Returned, HoldsOldData, Then
    <3>4. \A p \in RomPage : buffer[p] = pages[p]
      BY <2>1, <3>1, <3>3, PagesAre DEF ContentInv, ReadInv, Sized
    <3>5. buffer \in [RomPage -> SUBSET Bit]
      BY <3>1 DEF ContentInv, CallInv
    <3>6. buffer = RomRegion
      BY <3>4, <3>5 DEF RomRegion
    <3> QED
      BY <3>3, <3>6
  <2>2. ASSUME NEW p \in LogicalPage, LosesBits(p) PROVE OwnErase(p)
    <3>1. PICK N \in Nat \ {0}, P \in Nat \ {0} : Sized(N, P)
      BY DEF BootDevice
    <3>2. pages'[p] # pages[p] /\ ~(pages[p] \subseteq pages'[p])
      BY <2>2 DEF LosesBits
    <3> QED
      BY <3>1, <3>2, BootStep, PlaceOfChange
  <2> QED
    BY <2>1, <2>2
<1> QED
  BY <1>1, BootContentHolds, BootDeviceHolds, PTL DEF ErasesOnlyOldData, Spec
=============================================================================
