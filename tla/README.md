# Verification of HsqOverNand

HsqOverNand runs a subleq machine whose subtraction is computed *inside NAND
flash*. A program operation of a flash page is the AND of what the page holds and
what is written, and data can be written inverted; that is enough for any Boolean
function. The server generates a microprogram for one round of subtractions, stores
it in the first blocks of the flash device and executes it by programming pages.
Clients ask for subtractions over UDP.

This directory holds TLA+ models of that program, TLC configurations that check
them, and TLAPS proofs. Paths below are relative to the repository root.

## 1. The system

| component | code | state it keeps | operations |
|---|---|---|---|
| ROM generator | `src/server/ROM.cpp`, `include/ROM.hpp` | a netlist of cells with their writes; the address counters `romAddr`, `calcAddr` | `build_lane` wires a borrow look-ahead subtractor, `schedule` gives every write a step, `build_round`/`rom_init` emit the words |
| flash CPU | `src/server/cpu.cpp`, `include/cpu.hpp` | `pc`, ROM buffer, page buffer, page offset, GET_IN counter, shift registers, `signal`; the flash device | the constructor writes and verifies the ROM; `fetch`, `execute` (8 opcodes), `erase`, `edit_buf`, `write` |
| server loop | `src/server/server.cpp:206-403` | one socket shared by all workers, a batch per worker, the table of recent clients, the Boost switch | `worker_func` waits, `process_requests` fills the lanes, runs a round (or subtracts directly when Boost is on) and answers |
| server lifecycle, GUI | `src/server/server.cpp:21-204, 405-631` | running flags, two threads, the picture `mtd_data` | detect devices, start and stop, toggle Boost |
| UDP client | `include/client.hpp` | a socket per thread | `flashClient`: send, wait, repeat, give up, drop old answers |
| device interface and drivers | `include/nandInterface.hpp`, `include/MTDFlashDevice.hpp`, `include/W25NSpiFlashDevice.hpp` with `src/spi`, `include/W25NFlashDevice.hpp` with `src/qspi` | chips, pending programs, bus locks | `read`, `write`, `erase`, `size` |
| subleq interpreter | `src/subleq/subleq.cpp` | memory, `pc`, keyboard buffer | one subleq per call of `flashClient`; console I/O; Ctrl-C |
| libraries, tools, programs | `vendor/piolib`, `src/server/gpio*`, `hsq64.patch`, `hsq_src`, `hw`, `test` | | third-party code, a patch of an external compiler, drawings and hardware tests |

How they interact. A client thread sends `(a, b)` to UDP port 8080. Every device has
a CPU and a worker thread; all workers `select` on the same non-blocking socket and
race for the datagrams. A worker takes up to `LANES` requests into one round, loads
the operands into its CPU's registers, calls `execute(fetch())` until the CPU raises
`signal`, and answers each request to the address it came from. Requests carry no
number, so a client can only take the next datagram that arrives for the answer.

What is hard: the order in which workers take datagrams and answers arrive; retries
of requests that are still being computed; lost datagrams; the wait for a full batch;
device operations whose failure status nobody looks at; power failures between
the erase and the end of the ROM write; two threads that share pins; a signal handler
that jumps out of a call; the wrap of the page
register and the erase it triggers; the step schedule, since a CPU reads only its page
buffer and a write that comes a step too early is not noticed by anyone; bits of the
device that do not follow the data and have to be outvoted.

What makes each component correct:

- *generator*: the netlist subtracts; the schedule reads complete cells only, programs
  a cell once per step, is as short as the wiring allows and rejects exactly the loops;
- *CPU*: it computes only with its image in the flash, wherever earlier starts broke
  off, and a restart with the same image erases nothing; whatever the image does on
  paper the CPU does on the device; a round never computes on the remains of another;
  the device is erased only when it is full; a failure spoils a bounded number of
  answers; stuck columns do not spoil any;
- *drivers*: a call that answers "ok" has done all of its work, a failed one has
  touched nothing but its own pages; a chip that works is left alone; the two chips
  of the HAT do not disturb each other and nobody waits for the bus for ever;
- *server loop*: no request is lost by the server, taken twice or answered to someone
  else; a worker never waits for ever; the tracker counts the clients of the last
  second, each one once;
- *client*: each call returns its own answer, or the process gives up, and only after
  all its attempts;
- *interpreter*: a program cannot tell the remote subtraction from a local one.

## 2. Modules

```
Geometry -- LaneSubtractor*        <-- FlashRound, NandCpu
BorrowNetlist -- RomImage -+- FlashRound -+- MCFlashRound     (one page)
                           |              +- FlashRoundProofs (+ RomImageProofs)
                           +- MCNandCpu ---- NandCpu -- MCNandCpuTiny
                           |                   +------- NandCpuProofs (+ FlashRoundProofs)
                           +- RomWiring -+-- RomSchedule
                           |             +-- MCRomSchedule
                           |             +-- RomScheduleProofs (+ RomImageProofs)
                           +- RomImageProofs
FlashDevice*                       <-- SpiFlash, HatFlash (each chip)
W25nChip -+- SpiFlash -- RomBoot -+- MCRomBoot
          |                       +- RomBootProofs
          +- HatFlash -+- MCHatFlash
                       +- HatFlashProofs
RemoteSubtract*                    <-- FlashService
ClientTracker -- FlashService -+- MCFlashService
                               +- FlashServiceProofs
SubleqMachine*                     <-- SubleqVm -+- MCSubleqVm
                                                 +- SubleqVmProofs
```

`*` marks abstract specifications and `<--` the modules shown to implement them.

| module | models |
|---|---|
| `Geometry` | the compile-time parameters DIGIT, LANES, PAGE_SIZ (`include/ROM.hpp`) |
| `BorrowNetlist` | `build_lane` and the `Netlist` builders: every cell, in creation order (`CellOrder`) and by role (`Cell`), and what is wired to it. A word is a function from bit to BOOLEAN, so 64-bit arithmetic is exact |
| `RomImage` | `schedule` as a function of the netlist, and the words `build_round` and `rom_init` emit, in order |
| `RomSchedule` | `schedule` as the loop the code runs: first scan, work list, notification of readers, final assert; on any netlist |
| `RomWiring` | the netlist of `build_lane` in the form `RomSchedule` takes: cells by number, each with the numbers of its sources |
| `LaneSubtractor` | *abstract*: a batch goes in, `b - a` and `<= 0` come out of every lane; the arithmetic is that of the Boost branch |
| `FlashRound` | one round on a page: load the operands, then one action per program operation, then read out |
| `NandCpu` | the CPU and the execution loop of `process_requests`, one action per opcode |
| `FlashDevice` | *abstract*: what `nandInterface` promises: one operation at a time, its pages done in any order, an answer |
| `W25nChip` | the flash chip as the two drivers use it (external): write enable, page buffer, program, erase, page read, P-FAIL and E-FAIL |
| `SpiFlash` | `W25NSpiFlashDevice` with `w25n_spidev.c`: several chips as one device, one action per SPI message |
| `RomBoot` | the constructor of the CPU on `SpiFlash`, with power failures, kills and restarts |
| `HatFlash` | `W25NFlashDevice` with `w25n_pio.c`: two chips, the bus mutex, PIO modes, chip selects and the /WP and /HOLD latches |
| `RemoteSubtract` | *abstract*: a call returns its own answer or gives up |
| `ClientTracker` | `touch` as operators on the table |
| `FlashService` | `flashClient` in every client thread, `worker_func`/`process_requests` in every worker, and the network between them |
| `SubleqMachine` | *abstract*: one step per instruction on the machine's own memory |
| `SubleqVm` | the loop of the interpreter, `flashClient` and the signal handler |
| `...Proofs` | theorems, section 4 |
| `MC...` | values of the constants for TLC |

**NandCpu and the code.** `pc` counts words (the code: bytes). `romPage` is the ROM
page in the buffer `rom[]`, -1 while the buffer is still zero-filled. `page` is
`page[]` reduced to the bytes the program uses, a byte being the set of its one bits.
`cur` and `pre` are `pageOffset` and `preOffset` as page numbers; -1 is the initial 0
of `preOffset`, which is no page of the calculation region. `flash` holds that region.
`serving` and `ran` are the loop of `process_requests` and its counter. Each opcode
is an action that fetches (refilling the buffer at the start of a ROM page),
does what the `case` does, calls included (`write` programs *and* reads back; the last
RAISE moves on to the next page *and* erases when there is none), and
advances `pc`, the loop counter and `signal`. `faults`, `since`, `eraseOk` and `stuck`
are not in the code: they describe the device and what failed so far. An operation that fails
may still do a part of its work: a failed program leaves some bits of the page unprogrammed (`Partials`
lists which, none to all), a failed erase leaves some pages as they were, a failed read leaves the buffer; the program
and the read back of one PRG_NAND may both fail. Columns that follow the data can come apart this way,
so `ReplicasAgree` speaks of rounds that no failure disturbs, which start on a blank page.

**SpiFlash, RomBoot and the code.** A page is a set of programmed bits. `drv` is the
call of the driver: the operation, the message it sends next (`"13h"`, `"06h"`, ...), the
page it has come to, the chip it talks to, `pendingPage` as in the code, and the answer.
Each message may fail in transfer; what the code does with the result differs from message to message
and is modelled so: `page_read` and `write_enable` ignore it, a status that cannot
be read is an uninitialised byte, a failed load ends the write. Chips finish on
their own (`ChipDone`, `ChipFails`). `host` is the call the constructor waits for;
its buffer is `new uint8_t[ROM_SIZE]`, uninitialised, hence zero or the image that an
earlier CPU's constructor has left on the heap. `Compute` is what the CPU does to the flash when it runs: it programs a page of
the calculation area or erases that area when it wraps. `PowerFails` leaves an interrupted program or erase
half done; `Killed` lets the chip finish. `unseen` counts the faults that no return value shows;
the properties that a blind driver cannot keep are stated for `unseen = 0`.
Two simplifications: a transfer that fails is taken not to have reached the chip (an `ioctl` that reports
a failure after all bits were clocked is left out), and of the registers only protection and ECC are kept. When the read of
B0h is lost, `w25n_spidev.c:126-128` writes the other bits back from a byte never read; the model counts this as unseen and has no such bits.
The status of `W25nChip` has one fail bit for P-FAIL and E-FAIL; `ReportedFailed` of `HatFlash` is where the driver picks the one that the operation can set.

**HatFlash and the code.** A message is two steps, CS down and CS up. `mode` is the driver's
belief about the program of its state machine and `sm` the truth. `writer` and `readers`
are the `shared_mutex`. `QuadData` is the send whose wide OUT writes a span of 22 pins:
`low` says whose /WP and /HOLD latches it may leave low, `Restored` is `restore_wp_hold`.
CS up and the restore at the end of such a send are two steps of the code and one of `QuadDone`: the exclusive lock is held over both.
`MCPins` are the pins of HAT version 4.

**FlashService and the code.** A datagram is `<<client, call, attempt>>`: the code
sends only `(a, b)`; the numbers are there for the properties, and no action reads
them. `at` and `wat` say between which two system calls a thread is, so that all interleavings of
system calls are covered: a worker that `select` has woken may find the socket
empty, in `First` as well as in `Join`. `Linger`, `Join` and `Depart` are the wait for
a companion: `Depart` is enabled at any time because the deadline of 500 us may pass at any
point. A lost datagram, a failed `sendto` of the server (after its internal repeats) and
a failed `sendto` of the client all count against `MaxLosses`. `ent` is the table of
`ClientTracker`, and `recent`, which the code does not have, the set of clients really seen;
`Forget` is a second passing without a request. `Fail` is a `select` that fails: the worker leaves its loop for
good, and the others go on. `Close` closes the socket when the last one has left; after it
`main` spins in `while (1) {}` (`server.cpp:628`) and clients give up.

**SubleqVm and the code.** `at` is where the loop may block: nowhere, at the keyboard,
in `flashClient`. `Input` calls `sigsetjmp` *after* the key has been read, as the code does;
`jmpbuf` keeps the locals of then. `Sigint` continues at that point from wherever the loop is.
The standard leaves locals that changed since `sigsetjmp` indeterminate: `Locals` says which of their
two values the compiler has kept. `status = "undefined"` stands for an access out of bounds
or a jump through a buffer never filled.

## 3. Runs

| run | instance | shows |
|---|---|---|
| `FlashRound` | the shipped geometry: 64 bits, 2 lanes, 1748 cells, 2048-byte pages; all pairs of 5 words | `CompleteCellsHold`: a cell that is complete according to the schedule holds the AND of its inputs for the rest of the round; `RefinesSubtractor`: each round subtracts, and ends |
| `NandCpu` | 16 bits, 2 lanes, 996 words over 4 ROM pages, 2 calculation pages, 2 batches, no stuck column or 4 stuck at 0 and 3 stuck at 1 | `RefinesSubtractor`: the CPU is indistinguishable from the Boost branch; `ErasesWhenFull` |
| `NandCpuTiny` | a 15-word program with all 8 opcodes over 5 ROM pages, 2 failures, programs and erases among them that do a part of their work, stuck columns, 4 batches | the inductive invariant `IInv` of the proofs and what follows from it; `ReadsProgrammed`; `VoteTolerates`: four columns at 0 and three at 1 are outvoted, the most `majorityVote` can bear; `TinyRoundCorrect`: a failure spoils at most the answers of its round and the next |
| `RomSchedule` | all netlists of 4 cells with fan-in up to 2, 2 and 3 (chains, diamonds, a source read twice, loops), and the 434 cells of the 16-bit netlist | `SourcesFirst`, `Feasible`, `Earliest`, `LoopFound`, `Ends`; `MatchesImage`: the loop yields the schedule from which `RomImage` builds the image |
| `RomBoot` | bundles of 1, 2 and 3 chips of 6, 4 and 2 pages, blocks of 2 pages, a ROM of 4 pages, 4 contents to start from, 2 faults or crashes at any message | `NeverDisturbs`, `OpensUnlocked`: one lost message never leaves a chip locked; `BootedSound`: a CPU runs with its image if the read back said ok; `CalcFresh`: on a blank calculation area, unless the erase said "failed", which takes a fault or a size that no erase fits; `ErasesOnlyOldData`: bits are lost to an erase of their own region only, and a good first read never has the image erased; `RomStays`; `SelfRepairs`; `RefinesDevice` |
| `RomBootGuard` | the same | *violated*: `FinalGuard`, see section 6 |
| `HatFlash` | the real pins, 2 chips of 2 pages, reads, writes and an erase that overlap, 1 fault | `NoGarble`, `HoldHigh`, `OperationsEnd`, `RefinesDevices` |
| `FlashServiceCrowded` | 2 clients of which one calls twice, 1 or 2 workers of which one may fail, a table of 1 slot, 1 retry, 2 losses | `RefinesRpc` with liveness, `GivesUpLate` |
| `FlashServiceRetries` | 2 clients, 1 or 2 workers, the Boost switch, timeouts at any time, 1 loss | `OwnAnswers`, `TakenOnce`, `CountsClients` (two clients never overflow the two slots; the full table is the theorem `CountsAreRight`'s), and `TypeOK`: the batch never outgrows its array |
| `FlashServiceStale` | 1 client, 1 worker, 2 calls, a timeout at any time | *violated*: `FreshAnswer`, see section 6 |
| `SubleqVm` | 5-bit words, 14 words of memory, a table from word 10; 5 programs and 343 single instructions; Ctrl-C at an armed prompt, locals kept | `RefinesMachine` |
| `SubleqInterrupted` | the same, Ctrl-C at any time | *violated*: `OwnResult`, see section 6 |

**Bounds.** `FlashRound` is the shipped size: only the operands are sampled (0, -1, the
smallest number, alternating bits, bits in different blocks of every level). `NandCpu`
uses 16 bits, for which the netlist has a single super group; the 64-bit wiring is
`FlashRound`'s, and the CPU treats a longer word no differently. Two calculation pages are the smallest device that both
advances and wraps, and runs go on for ever over them, so that every page is reused.
Four cells suffice for a write that overtakes another, a source read twice, and loops of
length 1 to 3. In `RomBoot` the ROM spans two blocks, so that a crash can come between two erases; one bit
per page tells blank, right and wrong; two faults are what it takes to pass the final check, or to
be hit again while repairing. In `HatFlash` a block is one page, so that a write and an erase of two pages run through their
loops, and each operation of a chip meets a quad send of the other. In `FlashService` a queue is bounded by clients x calls x
attempts; one worker and two clients make the worker crowded, two losses exhaust the
attempts of a call; two workers race for a datagram; with one slot the second client is counted but
not remembered. In `SubleqVm` 5 bits let a difference
overflow, and the operands of single instructions are every special value and both sides of every limit. The bounds are `MaxCalls`,
`MaxRetries` (the code's default is 5), `MaxLosses`, `MaxFaults`, `MaxTrouble`, `Calls`, `Programs`.

**Deadlock** is checked except where the system may stop: in `FlashService` clients make finitely many
calls and the server may be closed, `RomSchedule` returns, a subleq program halts.

**Fairness.** `NandCpu`: a worker inside its loop keeps executing (weak fairness of
`Execute`); nobody has to send another batch. `FlashService`: weak fairness of each
client's and each worker's steps, since threads are scheduled and `SO_RCVTIMEO` expires, of `Depart`, since
the deadline passes however many requests arrive, and of `Close`. Calls, losses, failures and clicks are never forced. With
`Spurious = FALSE` a timeout fires only when the answer is no longer on its way: 3
seconds against rounds of milliseconds. `RomSchedule`: the loop keeps running. `RomBoot`: weak
fairness of the driver, the constructor and the chips; nobody has to start the server, and nothing has to fail.
`HatFlash`: weak fairness of the threads and the chips, strong fairness of taking the mutex, because the
C library's lock hands over to a waiting writer when the last reader leaves and to
readers after it. With the two threads of the server it needs no more than that: while one waits to write, the other is the only reader, and each
of its unlocks is that of the last reader. `SubleqVm`: weak fairness of the loop and the server, none of keys and signals.

Each property has been tried against a changed definition that a plausible
bug would produce (the operators marked `mutant` in the modules, listed in
`PROJECT.json`) and fails there.

## 4. Proofs

Eight modules hold theorems. TLC evaluates the named assumptions they rest on in every run. Of the
invariants that the runs check only one is not a theorem: it is about a test image (see *Only model-checked*).

### RomImageProofs

The netlist and its schedule, for every word length that the
`static_assert` of `build_lane` allows (`NetlistAssumption`: 16, 32, 48 or 64 bits) and any number of lanes:

| theorem | says |
|---|---|
| `EveryCellScheduled` | `Schedule` gives every cell a step, and each input is written in a step after the one that completes its source |

*Argument.* (1) *The netlist has no loop.* `Level` numbers the gates; `NetlistFed` says that each is fed by gates of lower
levels, of which there are fewer than the passes of `Schedule`. (2) *The schedule is what it should be.* `Schedule`
and `Steps` are recursive functions over intervals; `Recursion` unfolds such a function by the smallest counterexample,
`Climb` is the induction that needs. `Settled` is what a set of scheduled cells satisfies: closed under sources,
each write after the completion of its source and after the write before it. A pass keeps it and settles one level more.
(3) *The order of creation has all cells.* `CellsListed`, used for the words and for the numbering of `RomWiring`.

### FlashRoundProofs

The circuit and the page it is programmed into, for the same word lengths, any number of lanes and all operands:

| theorem | says |
|---|---|
| `TypeCorrect` | `TypeOK`: no round programs past its last step (no run lists it beside its proof) |
| `CellsHold` | `CompleteCellsHold`: what is complete stays what it is |
| `ImplementsSubtractor` | every step of a round is a step of `LaneSubtractor` or leaves it as it is: the answers are `b - a` and `b - a <= 0`, lane by lane |
| `ImageRuns` | the words emitted for the circuit are what `NandCpu` assumes of its ROM (`RomAssumption`) |

*Argument.* (1) *The page.* `RoundInv` is inductive: a cell is the AND of its inputs over the writes of the steps that were
programmed; it holds because a write of step `s` reads a cell that is complete before `s` (`GateOf` for complete cells).
(2) *The circuit computes.* When all cells are complete, the signals of one lane satisfy the equations of the
netlist. `LookAhead` proves that borrow look-ahead over four blocks is the ripple through them; it is
used three times, for bits, groups and super groups (`ReadGroup`), and `ReadBorrows` concludes that every
borrow is the one of the ripple subtractor; `LaneAnswer` compares sum bits and flag with `LaneSubtractor`.
(3) *The words.* By `CellsListed` the emission visits every cell. `ImageLayout` says which word stands where, `MiddleWord`
that a word between operands and outputs writes one signal of the next step or programs that step, all of whose signals have
been written, and `ReadsRecent` that a cell is read only after the step that completes it was programmed.

### RomScheduleProofs

The loop of `schedule()`, for every netlist, circular ones included (`ScheduleAssumption`: writes name cells):

| theorem | says |
|---|---|
| `TypeCorrect` | `TypeOK` |
| `SourcesComeFirst` | `SourcesFirst`: a cell is placed after all its sources |
| `ScheduleFeasible` | `Feasible`: each write gets a step after its source is complete, no two writes of a cell the same step |
| `DepthMinimal` | `Earliest`: no order of the writes of a cell completes it earlier |
| `LoopsFound` | `LoopFound`: the final assert fires for circular netlists and for no others |
| `ScheduleIsImage` | `MatchesImage`: on the netlist of `build_lane` the loop finds the schedule from which `RomImage` builds the image, with the same step for every write |
| `CircuitReturns` | on that netlist the assert never fires |

*Argument.* None of them is inductive alone. `IInv` adds what the counters mean: `WaitInv` says that
`pend[c]` is the number of writes of `c` whose source has not been announced to it, and that it is zero exactly for
the cells that are or have been in the work list; `QueueInv`, that no cell is in the list twice; `ToldInv`, that `done` counts the cells that have
announced themselves. When the list is empty and cells are left, each of them waits for another one left, which is a loop; when all were announced, all are placed.
`DepthMinimal` is an exchange argument without exchanges: in any order of `r` writes some write stands at or after position `k` whose source is complete no earlier than
that of the `k`-th in sorted order (a pigeonhole), and from there on both orders take at least a step a write.
`ScheduleIsImage` compares two orders of work: the loop places a cell when its last source announces itself, the function `Schedule` all cells that are ready in one pass.
`TimedInv` says of a placed cell that its completion and its steps are what the placing computes from the completions of its sources, whenever it was placed;
`PassesAgree` goes over the passes and finds the same numbers in both, because the place of a write after the sort of the loop (`Turn`)
is its rank in the function (`Rank`): equals stay in wiring order in both. With `EveryCellScheduled` and `LoopsFound` this ties the
image to the code's own loop. For `CircuitReturns`, a cell of lowest `Level` among those left over would wait for one of lower level.

### NandCpuProofs

Proved for every geometry, device size, set
of batches, pattern of failures and stuck columns, and every image that satisfies `RomAssumption`
(words follow one another, the last one goes back to the first and is the only RAISE of
the last lane, which is what `rom_init` emits):

| theorem | says |
|---|---|
| `TypeCorrect` | `TypeOK`: in particular `pc` stays inside the image and `cur` inside the device |
| `InvariantHolds` | `IInv`, the inductive invariant |
| `RoundsStartFresh` | `FreshPages`: between undisturbed rounds the program is at its start and every page from the current one on is erased |
| `FetchesStayInImage` | `FetchesImage`: no fetch ever decodes a word past the image, whatever failed |
| `ReplicasStayEqual` | `ReplicasAgree`, for every image with `ReadsAfterProgram` and `ProgramsAfterEdit`: in a round that no failure disturbs the columns that are not stuck agree in every byte of the page and its buffer, whatever earlier failures left there |
| `ReadersSeeFlash` | `ReadsProgrammed`, for every image with `ReadsAfterProgram`: what MOV, INV_MOV, PUSH_OUT and RAISE read is in the flash |
| `VoteIsRight` | `VoteTolerates`, for every image that satisfies both: up to four columns stuck at 0 and three at 1 do not change what PUSH_OUT and RAISE take from a byte |

and for the image that `ROM.cpp` generates (`Generated`: the netlist has one of the allowed word lengths, `Rom` is `Image`), on any device with at most
four columns stuck at 0 and three at 1 (`Tolerable`):

| theorem | says |
|---|---|
| `ImageReads` | the image satisfies `ReadsAfterProgram` and `ProgramsAfterEdit` |
| `GeneratedReads`, `GeneratedVotes` | `ReadsProgrammed` and `VoteTolerates`, with no hypothesis left on the image |
| `RoundsCompute` | `ComputeInv`: at every word of an undisturbed round buffer, page and registers hold what `FlashRound` has computed by then |
| `AnswersAreRight` | `AnswerInv`: whatever failed before, an undisturbed round that follows an undisturbed round leaves `b - a` and `b - a <= 0` in the registers of every lane |
| `ImplementsSubtractor` | without device failures (`Faults = {}`) every instruction is a step of `LaneSubtractor` or leaves it as it is |
| `ErasedWhenUsedUp` | `ErasesWhenFull`, without device failures: a page is erased only when all pages were programmed |

These are the end of a chain: netlist, schedule, words, instructions, and the pages they are programmed on give `b - a`.

*Argument.* `FreshPages` is not inductive: that the program is back at its start after a round
depends on the whole round. `IInv` adds to the types
(1) `PageLoaded`: the ROM buffer holds the page of `pc`, or `pc` is at the start of a
page and the next fetch refills it, or repeats an old page that is in the image too;
(2) `BlankAhead`: pages past the current one are erased unless an erase failed;
(3) `InStep`: in a round without failures the loop counter equals `pc`, and in the round
after one it is at most `pc`, so that the loop bound of `process_requests` cannot cut
the round off before the last RAISE;
(4) `AtRest`: between rounds `pc` is 0 and the current page is erased.
One lemma per opcode shows that it keeps `IInv`; all of them rest on `AdvanceControl`,
which treats what instructions have in common, on `FetchResult`, on
lemmas on quotients and remainders, and on `NextPageKeepsIInv` for the wrap.
`ReplicasAgree` is about rounds that no failure disturbs, since a failed program leaves columns apart. `BufInv` says that from a good erase to the next edit buffer and pages are blank
in the columns that work; `IInv` has the page of such a round blank, and its buffer is that of another page until the first edit. `AgreeInv` goes on from there: GET_IN writes 0xff or 0x00, MOV copies, INV_MOV complements, a
program intersects and `Sensed` changes stuck columns only; it needs `ReadInv` (below), because the buffer of another page may have its columns apart
and must not be read, and `ProgramsAfterEdit`, because it must not be programmed.
`ReadersSeeFlash` needs a hypothesis on the image: each cell that is read was programmed after its last edit, on a page
that the round has edited (without an edit the buffer would still be the one of the page before). `schedule()` sees to it (`ImageReads`); the runs `NandCpu` and `NandCpuTiny` assert it
of their images (`ReadsAfterProgram`, `ProgramsAfterEdit`). `ReadInv` then goes over the words already executed in the round.
`VoteIsRight` joins the two: the buffer shows what `Sensed` makes of the flash, and there the columns that work
agree. With at most four columns at 0 a 1 leaves four bits set, with at most three at 1 a 0 sets no more than
three (`VoteOutvotes`), and `majorityVote` compares with three: one more stuck column on either side tips the vote.

`RoundsCompute` follows one column that works (`Free`; `Tolerable` leaves one) and compares it with `Round`, the `FlashRound` of the same batch after as
many program operations as the words up to `pc` contain (`Done`). `ComputeInv` is inductive relative to `IInv` and `VoteTolerates`. `BufInv` is the one above. `JobInv`: a round that runs has a batch, and without a
failure an erased page. `PhaseInv` has a part for each section of the image: the operand bits written so far and those still in the shift registers (`InputInv`), the signals of the step being written over the page of the
steps before (`StepInv`), and the bits and flags already pushed out (`OutInv`). A MOV writes the AND of the step because its source is complete in `Round`; PRG_NAND
makes the page the next state of `Round`; PUSH_OUT and RAISE vote for what column `Free` holds. `AnswerInv` is what the last RAISE leaves. The registers say `NoJob` before the first batch,
which `CpuAssumption` keeps apart from batches and answers. `ErasedWhenUsedUp` adds that on a finished page the constant `zero` is 0 (`RoundUses`), so that
pages before the current one are not blank (`Used`).

### RomBootProofs

For every bundle of chips, ROM size, image, earlier content and number of faults and crashes
(`SpiGeometry`: a chip is a whole number of blocks; `RomFits`: the region is smaller than each device):

| theorem | says |
|---|---|
| `TypeCorrect` | `TypeOK` of chips, driver and constructor, wherever a power failure or a kill strikes |
| `ChipsAreWaitedFor` | `NeverDisturbs`: a chip that programs or erases is only asked for its status |
| `ChipsAreUnlocked` | `OpensUnlocked`: one lost message of `open()` never leaves a chip locked |

*Argument.* `BootInv` fixes the size of the bundle that was opened and has four parts. `TypeInv` ties the position
of a call to the message it sends next. `FreeInv` says which chips may be at work in each
operation: in a write those with a pending page, in a read or erase the one polled, none between operations;
`NeverDisturbs` follows because a write polls the pending page of a chip before it turns to
that chip again and all of them before it returns. `UnlockInv` says what `open()`
has achieved chip by chip. `PlaceInv` says where operations are: an erase is that of the ROM region or one behind it, each under the call that
asked for it, and a CPU that runs writes behind the region only, pending pages included. That pages `k` and `k + n` are on
the same chip rests on lemmas on quotients and remainders.

What a start leaves in the flash, and what the driver under it is, with the same assumptions:

| theorem | says |
|---|---|
| `RunsOnItsImage` | `BootedSound`: a CPU that runs has its image, whatever was there before, if the read back succeeded |
| `CalculationAreaBlank` | `CalcFresh`: and a blank calculation area, or the answer "failed", which takes a fault or an area that is no whole number of erase groups |
| `RomIsKept` | `RomStays`: a CPU that runs never changes its ROM region, by a program or by the erase at the wrap |
| `OnlyOldDataErased` | `ErasesOnlyOldData`: a page loses bits to an erase of its own region only, and a good first read never has the image erased |
| `ImplementsDevice` | `RefinesDevice`: the bundle of chips behind the driver is one `FlashDevice`, whatever fails and wherever power or process end |

*Argument.* `ContentInv` follows the content through the calls on top of `BootInv`. `ReadInv`: the pages read so far are in
the caller's buffer and the one being read is in its chip's page buffer or on its way there. `SoundInv`: from the comparison on the region
is the image, which the erase of the calculation area keeps because it starts at a border of blocks behind it. `EraseInv`: the blocks that were waited for are blank, or their chip says
that it failed, which ends the operation. `FaultInv`: without a fault no chip has failed, so the erase of the calculation area has said "ok" or was refused.

The refinement needs `DutyInv`: while every fault shows, a chip at work programs or erases the page that the driver
believes it does, with the data of that page; the write enable latch is set when a load, a program or an erase is sent; a failed program keeps its page pending until
it was waited for. A logical page is done when its chip ends, so the pages of a write are done in any order (`Programs`: the pages sent and
not yet done); a page of an erase is done with its whole block (`GroupPages`: block `pos / n` of chip `idx` holds exactly the pages of the group with remainder `idx`). `CutHalfDone` says once for
P-FAIL, E-FAIL and power failures that a chip cut short touches only pages still to be done, and each only as the operation would. A fault that does not show (`unseen`) breaks the device, as
the abstract one allows. `RomIsKept` and `OnlyOldDataErased` follow from the refinement and `PlaceInv`: a page that changes is one of the pages of the
operation that is on, only an erase takes bits away (`ChangesAre`), and `PlaceInv` says which region that operation is in (`PlaceOfChange`).

### HatFlashProofs

For any number of chips, wiring, span of the wide OUT, calls and faults (`HatCalls`: calls stay inside the chip):

| theorem | says |
|---|---|
| `MessagesStayWhole` | `NoGarble`: a message reaches its own chip only, under the PIO program it needs |
| `LatchesStayHigh` | `HoldHigh`: no latch of a chip in use is left low, but by the sender |
| `TypeCorrect` | `TypeOK`: a call stays within its pages |
| `ImplementsDevices` | `RefinesDevices`: each chip is a `FlashDevice` of its own, whatever the other thread does |

*Argument.* `BusInv` ties the mutex to the steps: a thread is the writer, or one of the readers, exactly when it
is at a step between the lock and the unlock. Chip select is low only in such a step, and a thread in a quad send is
the writer, so no other chip is in a message; every exclusive section restores the latches before it ends.
`HatInv` adds for each device `OwnData`: what its chip is at follows from the step of its own thread, a chip that works has the page or block
of the current position for target, and the answer "ok" is given only when the chip reported no failure. With it each step of
a thread or a chip is a step of its own `FlashDevice` and a stutter of the others; the geometry assumptions (`HatGeometry`, `ChipGeometry`) make an erase a whole number of blocks.

### FlashServiceProofs

For any number of clients, workers, lanes, attempts, losses and slots of the tracker, with timeouts at any time
(`NamesApart`: no client is a worker):

| theorem | says |
|---|---|
| `TypeCorrect` | `TypeOK`: in particular a batch never outgrows its array |
| `AnswersAreOwn` | `OwnAnswers`: no answer goes to a client that did not ask |
| `CountsAreRight` | `CountsClients`: the tracker counts the clients of the last second, each one once, and all while it has room |
| `RequestsTakenOnce` | `TakenOnce`: no request is at two places, or twice at one |

and with a timer that is long enough (`~Spurious`: it fires only when the answer is no longer on its way):

| theorem | says |
|---|---|
| `RetriesSuffice` | `GivesUpLate`: a client gives up only after more losses than it may repeat, or when no worker is left |
| `PatientAnswersFresh` | `FreshAnswer`: no call takes an answer to an earlier one |
| `PatientKeepsPromise` | each step of the service is a step of `RemoteSubtract` or leaves it as it is |

*Argument.* `TakenOnce` is about the queues of the server, of each worker and of each client. `FlowInv` says that they hold no
datagram twice, neither within a queue nor across two, and that each was sent in a call and attempt its client has reached; so
the one it sends next is new. Every step appends a new datagram or moves one from a head to a tail.
The hypothesis `~Spurious` cannot be dropped: the run `FlashServiceStale` shows what an early timeout does to `FreshAnswer`. Under it
`PatientInv` says that at most one datagram of each client is under way, the one of its current attempt (`PatienceInv`), and that each attempt before it was
lost or fell to a worker that is gone (`LossInv`).
`CountsClients` rests on facts on the table: `touch` overwrites at most one entry, and where there is a free or expired slot none that counts.

### SubleqVmProofs

For every word width, memory size, program and keyboard input (`MachineSizes`: addresses are
words; `Inputs`: memory and characters are words), wherever Ctrl-C strikes and whatever the jump leaves in the locals:

| theorem | says |
|---|---|
| `ImplementsMachine` | each step is a step of `SubleqMachine` or leaves it as it is, except `StrayJump`, a jump of Ctrl-C that is no input to the waiting instruction, and `OthersAnswer`, a return with the answer to another instruction |

with Ctrl-C at an armed prompt only (`SignalAt = "prompt"`):

| theorem | says |
|---|---|
| `TypeCorrect` | `TypeOK`: `pc`, `b` and the memory stay in their ranges, whatever program runs |
| `ResultsAreOwn` | `OwnResult`, which Ctrl-C at any time breaks (`SubleqInterrupted`) |

and if in addition the locals survive the jump (`Locals = {"current"}`), which C does not promise:

| theorem | says |
|---|---|
| `PromptImplementsMachine` | each step is a step of `SubleqMachine` or leaves it as it is |

*Argument.* `CoreInv` holds without a restriction: memory, requests and answers are words, each answer is the right one to the request it carries,
and while the loop waits `pc` and `b` are those of a checked instruction (after a jump they are any numbers). `StepSimulates` goes over the actions with no more than that.
`VmInv` is for Ctrl-C at an armed prompt. It says that while the loop waits for an answer either its own request is on the way or the answer to it has come, and nothing else;
that `pc` and `b` are words; and that a filled `jmpbuf` points to a checked instruction. With it neither of the two exceptions occurs.
`ExecuteIs` lists the branches of one turn of the loop. That a wrapped difference is a word needs
that 2^m doubles with m, which is derived from the number of subsets of a set (`TwoPowers`).

### Only model-checked

- Liveness (contained in `RefinesSubtractor`, `RefinesRpc` and `RefinesMachine`; `Ends`, `SelfRepairs`, `OperationsEnd`) and everything
  with ENABLED: out of the prover's reach. Of the refinements with a liveness half the theorems state the safety half.
- `TinyRoundCorrect`: about one test program, which has the opcodes the generated image does not use; `AnswersAreRight` is its counterpart for the image.

No module with a theorem uses a RECURSIVE operator. Recursive functions over an interval of numbers can be
unfolded at each number, and an invariant of such a function follows by its smallest counterexample (`Climb`).

## 5. Hazards

`PROJECT.json` lists the places where this code could go wrong in a way tests would
hardly reach, each at its line, with the properties that cover it. Facts about the code that came
up on the way and that no property states:

- With two chips behind one device the ROM region, five blocks of 128 KB, is no multiple of the
  erase group: such a CPU can never replace an old ROM (`SelfRepairs` asks for `WholeGroups`). The server uses
  one chip per CPU; only `src/spi/test_pipeline.cpp` builds bundles.
- The repository's `README.md` says that a change of the ROM layout needs a reload of the device; the constructor repairs
  the region by itself.
- `src/qspi/w25n_pio.c:33` says the library is used by a single thread; the wrapper runs two and
  takes a mutex around it, which is what `NoGarble` checks.
- A first Ctrl-C before any completed input jumps through a buffer of zeros (`"undefined"` in `SubleqVm`), and the locals of the
  loop are indeterminate after the jump.
- The subtraction the interpreter keeps in comments jumps by the stored word, the remote one by the difference; they
  differ for words of the table, which keep their value.

## 6. Disagreements between comments and code

*Old answers* (`FlashServiceStale`). `include/client.hpp:127-129` says that answers left over after a timeout and retry are
read and discarded, because the next call would otherwise take one for its own. The loop
that follows (`include/client.hpp:130-139`) discards what *has arrived*. When a
timeout fires while the first attempt is still being computed, the answer to the
retry arrives after the loop has ended, and the next call returns it. Without such a timeout the promise holds (`RefinesRpc`).

*The final guard* (`RomBootGuard`). `include/cpu.hpp:67` calls the comparison after the read back the final
guard. The results of the write (`:65`) and of the read back (`:68`) are ignored, and the read goes into the buffer
that still holds what the first read brought. If the write of a page fails and the read
back fails at that page too, old bytes are compared, and where they equal the image the CPU
starts without it. As long as the read back succeeds the guard holds (`BootedSound`).

*Ctrl-C* (`SubleqInterrupted`). The handler (`src/subleq/subleq.cpp:171`) jumps out of `flashClient` too. The
answer of the interrupted subtraction is still to come, and the next instruction takes it for its own,
although the comment at `:371` has the server compute the subtraction of the instruction. With Ctrl-C only at a
prompt the interpreter is a subleq machine (`RefinesMachine`).

## 7. Not modelled, and plan

Left out of the modelled parts:

- the shadow copy `mtd_data` for the picture, datagrams of a wrong size (no client of the repository
  sends any), errors in creating a socket (the process exits before its first request);
- SPI driver: the factory bad-block query and `set_speed` (called by a benchmark and a test only), `probe`, columns (all
  callers use whole pages);
- HAT driver: failures of `open` (the process exits), the switches for loads without quad mode and for DMA reads,
  `quad_read_buf` (not called by the wrapper), `close`, and what happens inside a PIO program, clock by clock;
- interpreter: trace, dump and terminal modes, which print or configure.

Left out altogether: `MTDFlashDevice` (one system call per operation, no state of its own), GPIO, LED and PIO libraries (third
party), GTK code and the image thread (compiled out by `#undef EN_GUI`), the command-line test of the
client, the compiler patch and the programs in `hsq_src`.

Next: `NandCpu` on `FlashDevice` instead of its own atomic device, for failures in the middle of an operation.
