----------------------------- MODULE RomImage -----------------------------
(***************************************************************************)
(* The microprogram of one round, as build_round and rom_init              *)
(* (src/server/ROM.cpp) leave it in the ROM region of every flash device:  *)
(* the netlist of BorrowNetlist with a step given to every write, emitted  *)
(* step by step with one PRG_NAND after each.  RomSchedule has the same    *)
(* scheduler as a state machine, one loop iteration at a time; here it is  *)
(* a function, so that the image is a constant other modules can be given. *)
(*                                                                         *)
(* Cells stand for their addresses.                                        *)
(***************************************************************************)
EXTENDS BorrowNetlist

MaxOf(m, n) == IF m > n THEN m ELSE n

\* `settled' maps each scheduled cell to [complete, writes].

At(settled, src) == settled[src.cell].complete
Rank(settled, ins, i) ==
    Cardinality({j \in DOMAIN ins : \/ At(settled, ins[j]) < At(settled, ins[i])
                                    \/ At(settled, ins[j]) = At(settled, ins[i]) /\ j <= i})

\* std::stable_sort of the writes of a cell by their sources' completion.
Sorted(settled, ins) ==
    [k \in DOMAIN ins |-> ins[CHOOSE i \in DOMAIN ins : Rank(settled, ins, i) = k]]

\* mutant: a source is read in the step that completes it
StepsEarly(settled, ins) ==
    LET step[k \in 0 .. Len(ins)] ==
            IF k = 0 THEN 1 ELSE MaxOf(At(settled, ins[k]), step[k - 1] + 1)
    IN  step

\* Each write takes the first step after its source is complete and the
\* write before it is done.
Steps(settled, ins) ==
    LET step[k \in 0 .. Len(ins)] ==
            IF k = 0 THEN 1 ELSE MaxOf(At(settled, ins[k]), step[k - 1]) + 1
    IN  step

Placed(ins, steps) ==
    [complete |-> steps[Len(ins)],
     writes   |-> [k \in DOMAIN ins |-> [src |-> ins[k], step |-> steps[k]]]]
PlacedAfter(settled, ins) == Placed(ins, Steps(settled, ins))

\* No path of the netlist is longer than its three levels of look-ahead and
\* the flags allow; 40 passes are more than the 64-bit circuit needs.
Passes == 40

\* Each pass schedules the cells whose sources the passes before scheduled.
Schedule ==
    LET cells == Cell
        after[n \in 0 .. Passes] ==
            IF n = 0 THEN [c \in InputCells |-> [complete |-> 1, writes |-> <<>>]]
            ELSE LET settled == after[n - 1]
                     ready == {c \in cells \ DOMAIN settled :
                                \A src \in Range(InsOf(c)) : src.cell \in DOMAIN settled}
                 IN  [c \in DOMAIN settled \cup ready |->
                         IF c \in ready THEN PlacedAfter(settled, Sorted(settled, InsOf(c))) ELSE settled[c]]
    IN  after[Passes]

Depth(schedule) == CHOOSE s \in {schedule[c].complete : c \in DOMAIN schedule} :
                       \A c \in DOMAIN schedule : schedule[c].complete <= s
----------------------------------------------------------------------------
Op(code, dest, from) == [code |-> code, dest |-> dest, from |-> from]

PageBase == A(0, 0).cell
Program == <<Op("PRG_NAND", PageBase, PageBase)>>

\* The writes of one step, in the order in which the code visits the cells.
WriteOp(c, w) == Op(IF w.src.inv THEN "INV_MOV" ELSE "MOV", c, w.src.cell)
OpsAt(schedule, c, s) ==
    LET writes == schedule[c].writes
    IN  FlattenSeq([k \in DOMAIN writes |-> IF writes[k].step = s THEN <<WriteOp(c, writes[k])>> ELSE <<>>])
StepOps(schedule, order, s) ==
    FlattenSeq([i \in DOMAIN order |-> OpsAt(schedule, order[i], s)]) \o Program

GetIns(l) == [i \in 1 .. DIGIT |-> Op("GET_IN", B(l, i - 1).cell, A(l, i - 1).cell)]
PushOuts(l) == [i \in 1 .. DIGIT |-> Op("PUSH_OUT", l, Sum(l, i - 1).cell)]
Raises == [l \in 1 .. LANES |-> Op("RAISE", l - 1, IsJmp(l - 1).cell)]

RoundOps(schedule, order) ==
    <<Op("CAP_IN", PageBase, PageBase)>>
    \o Upto(GetIns, LANES) \o Program
    \o FlattenSeq([s \in 1 .. Depth(schedule) - 1 |-> StepOps(schedule, order, s + 1)])
    \o Upto(PushOuts, LANES) \o Raises

\* Every word names its successor; the last one restarts the round.
Linked(ops) ==
    [i \in DOMAIN ops |-> [code |-> ops[i].code, dest |-> ops[i].dest,
                           from |-> ops[i].from, next |-> i % Len(ops)]]
Image == Linked(RoundOps(Schedule, CellOrder))

\* The asserts of schedule and build_round: no combinational loop, only positive
\* cells are pushed out, and the round fits the page (read() only ever sees the
\* page buffer).
ImageAssumption ==
    /\ Range(CellOrder) = Cell /\ DOMAIN Schedule = Cell
    /\ \A l \in Lane : ~IsJmp(l).inv /\ \A i \in Bits : ~Sum(l, i).inv
    /\ Len(CellOrder) <= PAGE_SIZ
============================================================================
