------------------------- MODULE FlashRoundProofs -------------------------
(***************************************************************************)
(* The round that programs the netlist of ROM.cpp into a page, the words   *)
(* it leaves there and the steps of the image, for every word length the   *)
(* build accepts, any number of lanes and all operands.                    *)
(***************************************************************************)
EXTENDS FlashRound, RomImageProofs

\* Depth is the step that completes the last cell.
LEMMA LastStepIs == LastStep \in Nat \ {0} /\ \A c \in Cell : Plan[c].complete <= LastStep
<1> DEFINE Times == {Schedule[c].complete : c \in DOMAIN Schedule}
           Uppers == {b \in Nat : \A c \in Cell : Schedule[c].complete <= b}
<1>1. DOMAIN Schedule = Cell /\ \A c \in Cell : Schedule[c].complete \in Nat \ {0}
  BY ScheduleSettled DEF Settled, Entry
<1>2. PICK b \in Uppers : \A d \in Uppers : b <= d
  <2>1. Uppers # {} /\ Uppers \in SUBSET Nat
    BY CompleteBounded
  <2> HIDE DEF Uppers
  <2> QED
    BY <2>1, Smallest
<1>3. PICK a \in Cell : TRUE
  <2>1. PICK l \in Lane : TRUE
    BY GeometryAssumption DEF Lane
  <2>2. 0 \in Bits
    BY Widths DEF Bits
  <2> QED
    BY <2>2, CellOfBit
<1>4. b \in Nat /\ b # 0
  BY <1>1, <1>2, <1>3
<1>5. \E c \in Cell : Schedule[c].complete = b
  <2>1. SUFFICES ASSUME \A c \in Cell : Schedule[c].complete # b PROVE FALSE
    OBVIOUS
  <2>2. \A c \in Cell : Schedule[c].complete <= b - 1
    BY <1>1, <1>2, <2>1
  <2>3. b - 1 \in Uppers
    BY <1>4, <2>2
  <2>4. b <= b - 1
    BY <1>2, <2>3
  <2> QED
    BY <1>4, <2>4
<1>6. \E s \in Times : \A c \in DOMAIN Schedule : Schedule[c].complete <= s
  BY <1>1, <1>2, <1>5
<1>7. LastStep = CHOOSE s \in Times : \A c \in DOMAIN Schedule : Schedule[c].complete <= s
  BY DEF LastStep, Plan, Depth
<1>8. LastStep \in Times /\ \A c \in DOMAIN Schedule : Schedule[c].complete <= LastStep
  <2> HIDE DEF Times
  <2> QED
    BY <1>6, <1>7
<1> QED
  BY <1>1, <1>8 DEF Plan
----------------------------------------------------------------------------
(* The round                                                               *)

\* Every write whose step is over has been programmed into its cell, read
\* from a source that has not changed since.
PageInv == programs > 0 =>
    \A c \in Cell : content[c] <=> /\ Inputs(job)[c]
                                   /\ \A k \in DOMAIN Plan[c].writes :
                                         Plan[c].writes[k].step <= programs => Read(Plan[c].writes[k].src)
FlowInv == /\ job \in Jobs \cup {NoJob} /\ programs \in 0 .. LastStep
           /\ programs > 0 => job \in Jobs
           /\ job # NoJob => programs > 0
           /\ resp # NoResp => programs = LastStep
AnswerType == resp # NoResp => resp.c \in [Lane -> Word] /\ resp.jmp \in [Lane -> BOOLEAN]
RoundInv == FlowInv /\ content \in [Cell -> BOOLEAN] /\ PageInv /\ AnswerType

LEMMA InputTypes == ASSUME NEW j \in Jobs PROVE Inputs(j) \in [Cell -> BOOLEAN]
<1>1. j.a \in [Lane -> Word] /\ j.b \in [Lane -> Word]
  BY RoundAssumption
<1>2. ASSUME NEW c \in Cell PROVE j.a[c[1]][c[4] + 1] \in BOOLEAN /\ j.b[c[1]][c[4] + 1] \in BOOLEAN
  <2>1. c[1] \in Lane /\ c[4] \in Bits
    BY CellNamed DEF Named
  <2>2. c[4] + 1 \in 1 .. DIGIT
    BY <2>1, Widths DEF Bits
  <2> QED
    BY <1>1, <2>1, <2>2 DEF Word
<1> QED
  BY <1>2 DEF Inputs

\* A write of a cell: its source is complete before, the cell not before it.
LEMMA WriteOf ==
    ASSUME NEW c \in Cell, NEW k \in DOMAIN Plan[c].writes
    PROVE  LET w == Plan[c].writes[k]
           IN  /\ w.src \in Source /\ w.src.cell \in Cell /\ w.step \in Nat
               /\ Plan[w.src.cell].complete \in Nat /\ Plan[w.src.cell].complete < w.step
               /\ Plan[c].complete \in Nat /\ w.step <= Plan[c].complete
<1>1. PICK w : w = Plan[c].writes[k]
  OBVIOUS
<1>2. DOMAIN Plan = Cell /\ Plan \in [Cell -> Entry] /\ InTime(Plan, c)
  BY ScheduleSettled DEF Plan, Settled
<1>3. w \in [src : Source, step : Nat]
  <2>1. Plan[c].writes \in Seq([src : Source, step : Nat])
    BY <1>2 DEF Entry
  <2>2. \A T : \A xs \in Seq(T) : \A i \in DOMAIN xs : xs[i] \in T
    OBVIOUS
  <2> QED
    BY <1>1, <2>1, <2>2
<1>4. w.src.cell \in Cell /\ Plan[w.src.cell].complete < w.step /\ w.step <= Plan[c].complete
  BY <1>1, <1>2 DEF InTime
<1>5. Plan[w.src.cell].complete \in Nat /\ Plan[c].complete \in Nat
  BY <1>2, <1>4 DEF Entry
<1> QED
  BY <1>1, <1>3, <1>4, <1>5

LEMMA RoundInit == Init => RoundInv
<1> SUFFICES ASSUME Init PROVE RoundInv
  OBVIOUS
<1>1. LastStep \in Nat \ {0}
  BY LastStepIs
<1> QED
  BY <1>1 DEF Init, RoundInv, FlowInv, PageInv, AnswerType

LEMMA LoadStep == RoundInv /\ Load => RoundInv'
<1> SUFFICES ASSUME RoundInv, Load PROVE RoundInv'
  OBVIOUS
<1>1. job' \in Jobs /\ resp' = NoResp /\ programs' = 1 /\ content' = Inputs(job')
  BY DEF Load
<1>2. LastStep \in Nat \ {0}
  BY LastStepIs
<1>3. FlowInv'
  BY <1>1, <1>2 DEF FlowInv, LastStep, Plan
<1>4. content' \in [Cell -> BOOLEAN]
  BY <1>1, InputTypes
<1>5. PageInv'
  <2>1. ASSUME NEW c \in Cell, NEW k \in DOMAIN Plan[c].writes PROVE ~(Plan[c].writes[k].step <= programs')
    <3>1. PICK s \in Source : s = Plan[c].writes[k].src /\ s.cell \in Cell
                              /\ Plan[s.cell].complete < Plan[c].writes[k].step /\ Plan[c].writes[k].step \in Nat
      BY WriteOf
    <3>2. Plan[s.cell].complete \in Nat \ {0}
      BY <3>1, ScheduleSettled DEF Plan, Settled, Entry
    <3> QED
      BY <1>1, <3>1, <3>2
  <2>2. \A c \in Cell : content'[c] = Inputs(job')[c]
    BY <1>1
  <2> QED
    BY <1>4, <2>1, <2>2 DEF PageInv
<1>6. AnswerType'
  BY <1>1 DEF AnswerType
<1> QED
  BY <1>3, <1>4, <1>5, <1>6 DEF RoundInv

\* A program operation leaves the cells that are complete as they are.
LEMMA CompleteStays ==
    ASSUME RoundInv, ProgramStep, NEW c \in Cell, Plan[c].complete <= programs
    PROVE  content'[c] = content[c]
<1>1. programs \in Nat /\ programs' = programs + 1 /\ content \in [Cell -> BOOLEAN]
  BY LastStepIs DEF RoundInv, FlowInv, ProgramStep
<1>2. content'[c] = (/\ content[c]
                     /\ \A i \in DOMAIN Plan[c].writes :
                           Plan[c].writes[i].step = programs' => Read(Plan[c].writes[i].src))
  BY DEF ProgramStep
<1>3. ASSUME NEW i \in DOMAIN Plan[c].writes PROVE Plan[c].writes[i].step # programs'
  <2>1. Plan[c].writes[i].step <= Plan[c].complete /\ Plan[c].writes[i].step \in Nat /\ Plan[c].complete \in Nat
    BY WriteOf
  <2> QED
    BY <1>1, <2>1
<1> QED
  BY <1>1, <1>2, <1>3

LEMMA ProgramStepKeeps == RoundInv /\ ProgramStep => RoundInv'
<1> SUFFICES ASSUME RoundInv, ProgramStep PROVE RoundInv'
  OBVIOUS
<1>1. /\ job # NoJob /\ resp = NoResp /\ programs < LastStep /\ programs' = programs + 1
      /\ UNCHANGED <<job, resp>>
  BY DEF ProgramStep
<1>2. LastStep \in Nat /\ programs \in Nat \ {0} /\ job \in Jobs /\ content \in [Cell -> BOOLEAN]
  BY <1>1, LastStepIs DEF RoundInv, FlowInv
<1>3. FlowInv'
  BY <1>1, <1>2 DEF RoundInv, FlowInv, LastStep, Plan
<1>4. \A c \in Cell : content'[c] = (/\ content[c]
                                     /\ \A i \in DOMAIN Plan[c].writes :
                                           Plan[c].writes[i].step = programs' => Read(Plan[c].writes[i].src))
  BY DEF ProgramStep
<1>5. content' \in [Cell -> BOOLEAN]
  BY DEF ProgramStep
<1>6. AnswerType'
  BY <1>1 DEF AnswerType
<1>7. PageInv'
  <2>1. SUFFICES ASSUME NEW c \in Cell
                 PROVE  content'[c] <=> /\ Inputs(job)[c]
                                        /\ \A k \in DOMAIN Plan[c].writes :
                                              Plan[c].writes[k].step <= programs' => Read(Plan[c].writes[k].src)'
    BY <1>1 DEF PageInv
  <2>2. content[c] <=> /\ Inputs(job)[c]
                       /\ \A k \in DOMAIN Plan[c].writes :
                             Plan[c].writes[k].step <= programs => Read(Plan[c].writes[k].src)
    BY <1>2 DEF RoundInv, PageInv
  <2>3. ASSUME NEW k \in DOMAIN Plan[c].writes, Plan[c].writes[k].step <= programs'
        PROVE  Read(Plan[c].writes[k].src)' = Read(Plan[c].writes[k].src)
    <3>1. PICK s \in Source : s = Plan[c].writes[k].src /\ s.cell \in Cell
                              /\ Plan[s.cell].complete \in Nat /\ Plan[s.cell].complete < Plan[c].writes[k].step
                              /\ Plan[c].writes[k].step \in Nat
      BY WriteOf
    <3>2. Plan[s.cell].complete <= programs
      BY <1>1, <1>2, <2>3, <3>1
    <3>3. content'[s.cell] = content[s.cell]
      BY <3>1, <3>2, CompleteStays
    <3> QED
      BY <3>1, <3>3 DEF Read
  <2>4. \A k \in DOMAIN Plan[c].writes : Plan[c].writes[k].step <= programs'
            <=> Plan[c].writes[k].step <= programs \/ Plan[c].writes[k].step = programs'
    <3> TAKE k \in DOMAIN Plan[c].writes
    <3>1. Plan[c].writes[k].step \in Nat
      BY WriteOf
    <3> QED
      BY <1>1, <1>2, <3>1
  <2> QED
    BY <1>4, <2>2, <2>3, <2>4
<1> QED
  BY <1>3, <1>5, <1>6, <1>7 DEF RoundInv

LEMMA PushKeeps == RoundInv /\ PushAndRaise => RoundInv'
<1> SUFFICES ASSUME RoundInv, PushAndRaise PROVE RoundInv'
  OBVIOUS
<1>1. /\ job' = job /\ programs' = programs /\ content' = content /\ programs = LastStep
      /\ resp' = [c   |-> [l \in Lane |-> [i \in 1 .. DIGIT |-> Read(Sum(l, i - 1))]],
                  jmp |-> [l \in Lane |-> Read(IsJmp(l))]]
  BY DEF PushAndRaise
<1>2. LastStep' = LastStep /\ LastStep \in Nat
  BY LastStepIs DEF LastStep, Plan
<1>3. FlowInv'
  BY <1>1, <1>2 DEF RoundInv, FlowInv
<1>4. content' \in [Cell -> BOOLEAN] /\ PageInv'
  BY <1>1 DEF RoundInv, PageInv, Read, Plan
<1>5. \A s : Read(s) \in BOOLEAN
  BY DEF Read
<1>6. AnswerType'
  <2>1. resp'.c = [l \in Lane |-> [i \in 1 .. DIGIT |-> Read(Sum(l, i - 1))]]
    BY <1>1
  <2>2. resp'.jmp = [l \in Lane |-> Read(IsJmp(l))]
    BY <1>1
  <2>3. [l \in Lane |-> [i \in 1 .. DIGIT |-> Read(Sum(l, i - 1))]] \in [Lane -> Word]
    BY <1>5 DEF Word
  <2>4. [l \in Lane |-> Read(IsJmp(l))] \in [Lane -> BOOLEAN]
    BY <1>5
  <2> QED
    BY <2>1, <2>2, <2>3, <2>4 DEF AnswerType
<1> QED
  BY <1>3, <1>4, <1>6 DEF RoundInv

LEMMA RoundStutter == RoundInv /\ UNCHANGED vars => RoundInv'
<1> SUFFICES ASSUME RoundInv, UNCHANGED vars PROVE RoundInv'
  OBVIOUS
<1>1. job' = job /\ resp' = resp /\ programs' = programs /\ content' = content
  BY DEF vars
<1>2. FlowInv' /\ AnswerType'
  BY <1>1 DEF RoundInv, FlowInv, AnswerType, LastStep, Plan
<1>3. content' \in [Cell -> BOOLEAN] /\ PageInv'
  BY <1>1 DEF RoundInv, PageInv, Read, Plan
<1> QED
  BY <1>2, <1>3 DEF RoundInv

LEMMA RoundInvHolds == Spec => []RoundInv
<1>1. RoundInv /\ [Next]_vars => RoundInv'
  BY LoadStep, ProgramStepKeeps, PushKeeps, RoundStutter DEF Next
<1> QED
  BY <1>1, RoundInit, PTL DEF Spec

\* Types, and that a round never runs past the step that completes its last
\* cell (the loop over the steps in build_round).
THEOREM TypeCorrect == Spec => []TypeOK
<1>1. RoundInv => TypeOK
  BY DEF RoundInv, FlowInv, AnswerType, TypeOK
<1> QED
  BY <1>1, RoundInvHolds, PTL

\* What a complete cell holds.
GateHolds(c) == content[c] <=> \A i \in DOMAIN InsOf(c) : Read(InsOf(c)[i])

LEMMA GateOf ==
    ASSUME RoundInv, programs > 0, NEW c \in Cell, InsOf(c) # <<>>, Plan[c].complete <= programs
    PROVE  GateHolds(c)
<1>1. programs \in Nat
  BY LastStepIs DEF RoundInv, FlowInv
<1>2. Inputs(job)[c] = TRUE
  <2>1. ~(c[2] \in {"a", "b"})
    BY DEF InsOf
  <2> QED
    BY <2>1 DEF Inputs
<1>3. \A k \in DOMAIN Plan[c].writes : Plan[c].writes[k].step <= programs
  <2> TAKE k \in DOMAIN Plan[c].writes
  <2>1. Plan[c].writes[k].step <= Plan[c].complete /\ Plan[c].writes[k].step \in Nat /\ Plan[c].complete \in Nat
    BY WriteOf
  <2> QED
    BY <1>1, <2>1
<1>4. content[c] <=> \A k \in DOMAIN Plan[c].writes : Read(Plan[c].writes[k].src)
  BY <1>2, <1>3 DEF RoundInv, PageInv
<1>5. /\ \A k \in DOMAIN Plan[c].writes : \E i \in DOMAIN InsOf(c) : Plan[c].writes[k].src = InsOf(c)[i]
      /\ \A i \in DOMAIN InsOf(c) : \E k \in DOMAIN Plan[c].writes : Plan[c].writes[k].src = InsOf(c)[i]
  BY ScheduleSettled DEF Plan, Settled, InTime
<1>6. (\A k \in DOMAIN Plan[c].writes : Read(Plan[c].writes[k].src)) <=> \A i \in DOMAIN InsOf(c) : Read(InsOf(c)[i])
  BY <1>5
<1> QED
  BY <1>4, <1>6 DEF GateHolds

\* The two constraints in the comment on schedule(): a cell that is complete
\* holds the AND of all its inputs, however many steps are programmed later.
THEOREM CellsHold == Spec => []CompleteCellsHold
<1>1. RoundInv => CompleteCellsHold
  <2>1. SUFFICES ASSUME RoundInv, programs > 0, NEW c \in Cell, Plan[c].complete <= programs, InsOf(c) # <<>>
                 PROVE  content[c] <=> \A i \in DOMAIN InsOf(c) : Read(InsOf(c)[i])
    BY DEF CompleteCellsHold
  <2> QED
    BY <2>1, GateOf DEF GateHolds
<1> QED
  BY <1>1, RoundInvHolds, PTL
----------------------------------------------------------------------------
(* The circuit: what the signals read when every cell is complete          *)

Gates == content \in [Cell -> BOOLEAN] /\ \A c \in Cell : InsOf(c) # <<>> => GateHolds(c)
AllRead(xs) == \A m \in DOMAIN xs : Read(xs[m])
SomeRead(xs) == \E m \in DOMAIN xs : Read(xs[m])

LEMMA ReadNot == ASSUME Gates, NEW s \in Source PROVE Read(NOT(s)) <=> ~Read(s)
<1>1. NOT(s).cell = s.cell /\ NOT(s).inv = ~s.inv /\ s.cell \in Cell /\ s.inv \in BOOLEAN
  BY DEF NOT, Source
<1>2. content[s.cell] \in BOOLEAN
  BY <1>1 DEF Gates
<1> QED
  BY <1>1, <1>2 DEF Read

LEMMA ReadCell ==
    ASSUME Gates, NEW c \in Cell
    PROVE  /\ Sig(c) \in Source /\ OrOf(c) \in Source
           /\ Read(Sig(c)) <=> content[c]
           /\ Read(OrOf(c)) <=> ~content[c]
<1>1. Sig(c) \in Source /\ Sig(c).cell = c /\ Sig(c).inv = FALSE
  BY DEF Sig, Source
<1>2. content[c] \in BOOLEAN
  BY DEF Gates
<1>3. Read(Sig(c)) <=> content[c]
  BY <1>1, <1>2 DEF Read
<1>4. OrOf(c) \in Source
  BY <1>1 DEF OrOf, NOT, Source
<1>5. Read(OrOf(c)) <=> ~Read(Sig(c))
  BY <1>1, ReadNot DEF OrOf
<1> QED
  BY <1>1, <1>3, <1>4, <1>5

LEMMA ReadAnd ==
    ASSUME Gates, NEW c \in Cell, NEW xs, InsOf(c) = xs, xs # <<>>
    PROVE  Read(Sig(c)) <=> AllRead(xs)
<1>1. GateHolds(c)
  BY DEF Gates
<1> QED
  BY <1>1, ReadCell DEF GateHolds, AllRead

LEMMA ReadOr ==
    ASSUME Gates, NEW c \in Cell, NEW xs \in Seq(Source), InsOf(c) = OrIns(xs), xs # <<>>
    PROVE  Read(OrOf(c)) <=> SomeRead(xs)
<1>1. Len(xs) \in Nat \ {0} /\ DOMAIN xs = 1 .. Len(xs) /\ \A m \in DOMAIN xs : xs[m] \in Source
  OBVIOUS
<1>2. DOMAIN OrIns(xs) = DOMAIN xs /\ \A m \in DOMAIN xs : OrIns(xs)[m] = NOT(xs[m])
  BY <1>1 DEF OrIns
<1>3. OrIns(xs) # <<>>
  BY <1>1, <1>2
<1>4. GateHolds(c)
  BY <1>3 DEF Gates
<1>5. content[c] <=> \A m \in DOMAIN xs : Read(NOT(xs[m]))
  BY <1>2, <1>4 DEF GateHolds
<1>6. \A m \in DOMAIN xs : Read(NOT(xs[m])) <=> ~Read(xs[m])
  BY <1>1, ReadNot
<1> QED
  BY <1>5, <1>6, ReadCell DEF SomeRead

\* XOR as the code wires it: a cell of each AND and their NOR.
LEMMA ReadXor ==
    ASSUME Gates, NEW hi \in Cell, NEW lo \in Cell, NEW x \in Cell, NEW p \in Source, NEW q \in Source,
           InsOf(hi) = HiIns(p, q), InsOf(lo) = LoIns(p, q), InsOf(x) = XorIns(hi, lo)
    PROVE  Read(NOT(OrOf(x))) <=> (Read(p) <=> ~Read(q))
<1>1. Read(Sig(hi)) <=> (Read(p) /\ Read(q))
  <2>1. Read(Sig(hi)) <=> AllRead(<<p, q>>)
    BY ReadAnd DEF HiIns
  <2> QED
    BY <2>1 DEF AllRead
<1>2. Read(Sig(lo)) <=> (~Read(p) /\ ~Read(q))
  <2>1. Read(Sig(lo)) <=> AllRead(<<NOT(p), NOT(q)>>)
    BY ReadAnd DEF LoIns
  <2>2. AllRead(<<NOT(p), NOT(q)>>) <=> Read(NOT(p)) /\ Read(NOT(q))
    BY DEF AllRead
  <2> QED
    BY <2>1, <2>2, ReadNot
<1>3. Read(OrOf(x)) <=> (Read(Sig(hi)) \/ Read(Sig(lo)))
  <2>1. PICK xs : xs = <<Sig(hi), Sig(lo)>>
    OBVIOUS
  <2>2. xs \in Seq(Source) /\ xs # <<>>
    BY <2>1, ReadCell
  <2>3. Read(OrOf(x)) <=> SomeRead(xs)
    BY <2>1, <2>2, ReadOr DEF XorIns
  <2> QED
    BY <2>1, <2>3 DEF SomeRead
<1>4. Read(NOT(OrOf(x))) <=> ~Read(OrOf(x))
  BY ReadCell, ReadNot
<1> QED
  BY <1>1, <1>2, <1>3, <1>4

\* Half subtractor.
LEMMA ReadBit ==
    ASSUME Gates, NEW l \in Lane, NEW i \in Bits
    PROVE  /\ Read(X(l, i)) <=> (Read(A(l, i)) <=> ~Read(B(l, i)))
           /\ Read(P(l, 0, i)) <=> (Read(A(l, i)) <=> Read(B(l, i)))
           /\ Read(G(l, 0, i)) <=> (Read(A(l, i)) /\ ~Read(B(l, i)))
<1>1. A(l, i) \in Source /\ B(l, i) \in Source /\ X(l, i) \in Source
  BY BitSignals DEF Below
<1>2. /\ <<l, "hi", 0, i, 0>> \in Cell /\ <<l, "lo", 0, i, 0>> \in Cell
      /\ <<l, "x", 0, i, 0>> \in Cell /\ <<l, "g", 0, i, 0>> \in Cell
  BY CellOfBit
<1>3. Read(X(l, i)) <=> (Read(A(l, i)) <=> ~Read(B(l, i)))
  <2>1. InsOf(<<l, "hi", 0, i, 0>>) = HiIns(A(l, i), B(l, i))
    BY DEF InsOf
  <2>2. InsOf(<<l, "lo", 0, i, 0>>) = LoIns(A(l, i), B(l, i))
    BY DEF InsOf
  <2>3. InsOf(<<l, "x", 0, i, 0>>) = XorIns(<<l, "hi", 0, i, 0>>, <<l, "lo", 0, i, 0>>)
    BY DEF InsOf
  <2> QED
    BY <1>1, <1>2, <2>1, <2>2, <2>3, ReadXor DEF X
<1>4. Read(P(l, 0, i)) <=> ~Read(X(l, i))
  BY <1>1, ReadNot DEF P
<1>5. Read(G(l, 0, i)) <=> (Read(A(l, i)) /\ ~Read(B(l, i)))
  <2>1. InsOf(<<l, "g", 0, i, 0>>) = <<A(l, i), NOT(B(l, i))>>
    BY DEF InsOf
  <2>2. Read(Sig(<<l, "g", 0, i, 0>>)) <=> AllRead(<<A(l, i), NOT(B(l, i))>>)
    BY <1>2, <2>1, ReadAnd
  <2>3. AllRead(<<A(l, i), NOT(B(l, i))>>) <=> Read(A(l, i)) /\ Read(NOT(B(l, i)))
    BY DEF AllRead
  <2> QED
    BY <1>1, <2>2, <2>3, ReadNot DEF G
<1> QED
  BY <1>3, <1>4, <1>5

LEMMA ReadZero == ASSUME Gates, NEW l \in Lane PROVE ~Read(Zero(l))
<1>1. <<l, "zero", 0, 0, 0>> \in Cell
  BY CellOfFlag
<1>2. InsOf(<<l, "zero", 0, 0, 0>>) = <<B(l, 0), NOT(B(l, 0))>>
  BY DEF InsOf
<1>3. Read(Sig(<<l, "zero", 0, 0, 0>>)) <=> AllRead(<<B(l, 0), NOT(B(l, 0))>>)
  BY <1>1, <1>2, ReadAnd
<1>4. AllRead(<<B(l, 0), NOT(B(l, 0))>>) <=> Read(B(l, 0)) /\ Read(NOT(B(l, 0)))
  BY DEF AllRead
<1>5. B(l, 0) \in Source
  <2>1. 0 \in Bits
    BY Widths DEF Bits
  <2> QED
    BY <2>1, BitSignals DEF Below
<1> QED
  BY <1>3, <1>4, <1>5, ReadNot DEF Zero

\* Blocks base + lo .. base + hi of a level all pass a borrow on; one of the blocks
\* base .. base + top - 1 generates a borrow and those above it pass it on.
PassOn(l, n, base, lo, hi) == \A q \in lo .. hi : Read(P(l, n, base + q))
Arises(l, n, base, top) == \E j \in 0 .. top - 1 : Read(G(l, n, base + j)) /\ PassOn(l, n, base, j + 1, top - 1)

LEMMA ReadTerm ==
    ASSUME NEW l, NEW n, NEW base, NEW top \in Nat, NEW j \in 0 .. top - 1, NEW xs, IsTerm(xs, l, n, base, top, j)
    PROVE  AllRead(xs) <=> Read(G(l, n, base + j)) /\ PassOn(l, n, base, j + 1, top - 1)
<1>1. DOMAIN xs = 1 .. top - j
  BY DEF IsTerm, Fed
<1>2. \A m \in 1 .. top - j : xs[m] = IF m = top - j THEN G(l, n, base + j) ELSE P(l, n, base + (top - m))
  BY DEF IsTerm
<1>3. ASSUME AllRead(xs) PROVE Read(G(l, n, base + j)) /\ PassOn(l, n, base, j + 1, top - 1)
  <2>1. top - j \in 1 .. top - j
    OBVIOUS
  <2>2. Read(G(l, n, base + j))
    BY <1>1, <1>2, <1>3, <2>1 DEF AllRead
  <2>3. ASSUME NEW q \in j + 1 .. top - 1 PROVE Read(P(l, n, base + q))
    <3>1. PICK m \in 1 .. top - j : m = top - q /\ m # top - j /\ top - m = q
      OBVIOUS
    <3>2. xs[m] = P(l, n, base + q) /\ m \in DOMAIN xs
      BY <1>1, <1>2, <3>1
    <3> QED
      BY <1>3, <3>2 DEF AllRead
  <2> QED
    BY <2>2, <2>3 DEF PassOn
<1>4. ASSUME Read(G(l, n, base + j)), PassOn(l, n, base, j + 1, top - 1) PROVE AllRead(xs)
  <2>1. SUFFICES ASSUME NEW m \in 1 .. top - j PROVE Read(xs[m])
    BY <1>1 DEF AllRead
  <2>2. CASE m = top - j
    BY <1>2, <1>4, <2>2
  <2>3. CASE m # top - j
    <3>1. top - m \in j + 1 .. top - 1
      BY <2>3
    <3>2. Read(P(l, n, base + (top - m)))
      BY <1>4, <3>1 DEF PassOn
    <3> QED
      BY <1>2, <2>3, <3>2
  <2> QED
    BY <2>2, <2>3
<1> QED
  BY <1>3, <1>4

LEMMA ReadRun ==
    ASSUME NEW l, NEW n, NEW base, NEW top \in Nat, NEW xs, IsRun(xs, l, n, base, top - 1, 0)
    PROVE  (\A m \in 1 .. top : Read(xs[m])) <=> PassOn(l, n, base, 0, top - 1)
<1>1. \A m \in 1 .. top : xs[m] = P(l, n, base + (top - m))
  <2>1. (top - 1) - 0 + 1 = top /\ \A m \in 1 .. top : (top - 1) - m + 1 = top - m
    OBVIOUS
  <2> QED
    BY <2>1 DEF IsRun
<1>2. ASSUME NEW q \in 0 .. top - 1 PROVE top - q \in 1 .. top /\ top - (top - q) = q
  OBVIOUS
<1>3. ASSUME NEW m \in 1 .. top PROVE top - m \in 0 .. top - 1
  OBVIOUS
<1> QED
  BY <1>1, <1>2, <1>3 DEF PassOn

LEMMA ReadAndOf ==
    ASSUME Gates, NEW c, NEW xs \in Seq(Source), xs # <<>>, Len(xs) = 1 \/ (c \in Cell /\ InsOf(c) = xs)
    PROVE  Read(AndOf(c, xs)) <=> AllRead(xs)
<1>1. CASE Len(xs) = 1
  BY <1>1 DEF AndOf, AllRead
<1>2. CASE Len(xs) # 1
  BY <1>2, ReadAnd DEF AndOf
<1> QED
  BY <1>1, <1>2

\* Generate and propagate of a block of four.
LEMMA ReadGroup ==
    ASSUME Gates, NEW l \in Lane, NEW n \in {1, 2}, NEW k \in Blocks(n), NEW h \in {0, 1}, h = n - 1
    PROVE  /\ Read(G(l, n, k)) <=> Arises(l, h, 4 * k, 4)
           /\ Read(P(l, n, k)) <=> PassOn(l, h, 4 * k, 0, 3)
<1>1. k \in Nat /\ \A q \in 0 .. 3 : (4 * k) + q \in Blocks(h)
  BY BlockNat, Child
<1>2. PICK base \in Int : base = 4 * k
  BY <1>1
<1>3. Siblings(h, base, 4)
  BY <1>1, <1>2 DEF Siblings
<1>4. /\ \A j \in 0 .. 2 : <<l, "gt", n, k, j>> \in Cell
      /\ <<l, "gg", n, k, 0>> \in Cell /\ <<l, "gp", n, k, 0>> \in Cell
  BY CellOfGroup
<1>5. PICK terms : terms = ClaGroupTerms(l, n, k)
  OBVIOUS
<1>6. terms \in Seq(Source) /\ terms # <<>> /\ DOMAIN terms = 1 .. 4
  <2>1. Listed(terms, 4, (2 * n) + 2)
    BY <1>5, GroupTermsFed
  <2>2. DOMAIN terms = 1 .. 4
    BY <2>1 DEF Listed
  <2> QED
    BY <2>1, <2>2, ListFed DEF Fed
<1>7. ASSUME NEW m \in 1 .. 4, NEW j \in 0 .. 3, j = 4 - m
      PROVE  Read(terms[m]) <=> (Read(G(l, h, base + j)) /\ PassOn(l, h, base, j + 1, 3))
  <2>1. PICK xs : xs = TermIns(l, h, base, 4, j)
    OBVIOUS
  <2>2. j \in 0 .. 4 - 1 /\ 4 \in Nat /\ 4 - 1 = 3
    OBVIOUS
  <2>3. IsTerm(xs, l, h, base, 4, j)
    BY <1>3, <2>1, <2>2, TermIs
  <2>4. xs \in Seq(Source) /\ xs # <<>> /\ Len(xs) = 4 - j
    BY <2>3 DEF IsTerm, Fed
  <2>5. Len(xs) = 1 \/ (<<l, "gt", n, k, j>> \in Cell /\ InsOf(<<l, "gt", n, k, j>>) = xs)
    <3>1. InsOf(<<l, "gt", n, k, j>>) = TermIns(l, n - 1, 4 * k, 4, j)
      BY DEF InsOf
    <3>2. CASE j = 3
      BY <2>4, <3>2
    <3>3. CASE j # 3
      <4>1. j \in 0 .. 2
        BY <3>3
      <4> QED
        BY <1>2, <1>4, <2>1, <3>1, <4>1
    <3> QED
      BY <3>2, <3>3
  <2>6. Read(AndOf(<<l, "gt", n, k, j>>, xs)) <=> AllRead(xs)
    BY <2>4, <2>5, ReadAndOf
  <2>7. AllRead(xs) <=> Read(G(l, h, base + j)) /\ PassOn(l, h, base, j + 1, 4 - 1)
    BY <2>2, <2>3, ReadTerm
  <2>8. terms[m] = AndOf(<<l, "gt", n, k, j>>, xs)
    BY <1>2, <1>5, <1>7, <2>1 DEF ClaGroupTerms
  <2> QED
    BY <2>2, <2>6, <2>7, <2>8
<1>8. Read(OrOf(<<l, "gg", n, k, 0>>)) <=> SomeRead(terms)
  <2>1. InsOf(<<l, "gg", n, k, 0>>) = OrIns(terms)
    BY <1>5 DEF InsOf
  <2> QED
    BY <1>4, <1>6, <2>1, ReadOr
<1>9. SomeRead(terms) <=> Arises(l, h, base, 4)
  <2>1. \A m \in 1 .. 4 : 4 - m \in 0 .. 3
    OBVIOUS
  <2>2. \A j \in 0 .. 3 : 4 - j \in 1 .. 4 /\ j = 4 - (4 - j)
    OBVIOUS
  <2>3. 4 - 1 = 3
    OBVIOUS
  <2> QED
    BY <1>6, <1>7, <2>1, <2>2, <2>3 DEF SomeRead, Arises
<1>10. Read(G(l, n, k)) <=> Arises(l, h, 4 * k, 4)
  BY <1>2, <1>8, <1>9 DEF G
<1>11. Read(P(l, n, k)) <=> PassOn(l, h, 4 * k, 0, 3)
  <2>1. PICK xs : xs = PRun(l, h, base, 4 - 1, 0)
    OBVIOUS
  <2>2. IsRun(xs, l, h, base, 4 - 1, 0) /\ Fed(xs, (2 * h) + 3)
    BY <1>3, <2>1, RunOfBlocks
  <2>3. xs # <<>> /\ DOMAIN xs = 1 .. 4
    BY <2>2 DEF IsRun, Fed
  <2>4. InsOf(<<l, "gp", n, k, 0>>) = xs
    <3>1. InsOf(<<l, "gp", n, k, 0>>) = PRun(l, n - 1, 4 * k, 3, 0) /\ 4 - 1 = 3
      BY DEF InsOf
    <3> QED
      BY <1>2, <2>1, <3>1
  <2>5. Read(Sig(<<l, "gp", n, k, 0>>)) <=> AllRead(xs)
    BY <1>4, <2>3, <2>4, ReadAnd
  <2>6. 4 \in Nat /\ 4 - 1 = 3
    OBVIOUS
  <2>7. (\A m \in 1 .. 4 : Read(xs[m])) <=> PassOn(l, h, base, 0, 4 - 1)
    BY <2>2, <2>6, ReadRun
  <2>8. P(l, n, k) = Sig(<<l, "gp", n, k, 0>>)
    BY DEF P
  <2> QED
    BY <1>2, <2>3, <2>5, <2>6, <2>7, <2>8 DEF AllRead
<1> QED
  BY <1>10, <1>11

\* Borrow out of the blocks below block i of its four, given the borrow into them.
LEMMA ReadBorrow ==
    ASSUME Gates, NEW l \in Lane, NEW n \in {0, 1, 2}, NEW i \in Blocks(n), NEW u \in 1 .. 3, u = i % 4,
           NEW base \in Nat, base = i - u
    PROVE  Read(OrOf(<<l, "bo", n, i, 0>>)) <=> \/ Arises(l, n, base, u)
                                                \/ PassOn(l, n, base, 0, u - 1) /\ Read(BorIn(l, n, i))
<1>1. i % 4 # 0 /\ \A q \in 0 .. u : base + q \in Blocks(n)
  <2>1. \A q \in 0 .. i % 4 : i - (i % 4) + q \in Blocks(n)
    BY PlaceInBlock
  <2> QED
    BY <2>1
<1>2. Siblings(n, base, u)
  BY <1>1 DEF Siblings
<1>3. /\ <<l, "bo", n, i, 0>> \in Cell /\ <<l, "bt", n, i, -1>> \in Cell
      /\ \A j \in -1 .. u - 2 : <<l, "bt", n, i, j>> \in Cell
  <2>1. \A j \in -1 .. (i % 4) - 2 : <<l, "bt", n, i, j>> \in Cell
    BY <1>1, CellOfBorrow
  <2>2. <<l, "bo", n, i, 0>> \in Cell
    BY <1>1, CellOfBorrow
  <2>3. -1 \in -1 .. (i % 4) - 2
    OBVIOUS
  <2> QED
    BY <2>1, <2>2, <2>3
<1>4. PICK terms : terms = ClaBorrowTerms(l, n, i)
  OBVIOUS
<1>5. terms \in Seq(Source) /\ terms # <<>> /\ DOMAIN terms = 1 .. u + 1
  <2>1. Listed(terms, u + 1, 12 - (2 * n))
    BY <1>1, <1>4, BorrowTermsFed
  <2>2. DOMAIN terms = 1 .. u + 1
    BY <2>1 DEF Listed
  <2> QED
    BY <2>1, <2>2, ListFed DEF Fed
<1>6. terms = [m \in 1 .. u + 1 |-> IF m <= u THEN AndOf(<<l, "bt", n, i, u - m>>, TermIns(l, n, base, u, u - m))
                                              ELSE Sig(<<l, "bt", n, i, -1>>)]
  BY <1>4 DEF ClaBorrowTerms
<1>7. ASSUME NEW m \in 1 .. u, NEW j \in 0 .. u - 1, j = u - m
      PROVE  Read(terms[m]) <=> (Read(G(l, n, base + j)) /\ PassOn(l, n, base, j + 1, u - 1))
  <2>1. PICK xs : xs = TermIns(l, n, base, u, j)
    OBVIOUS
  <2>3. IsTerm(xs, l, n, base, u, j)
    BY <1>2, <2>1, TermIs
  <2>4. xs \in Seq(Source) /\ xs # <<>> /\ Len(xs) = u - j
    BY <2>3 DEF IsTerm, Fed
  <2>5. Len(xs) = 1 \/ (<<l, "bt", n, i, j>> \in Cell /\ InsOf(<<l, "bt", n, i, j>>) = xs)
    <3>2. CASE j = u - 1
      BY <2>4, <3>2
    <3>3. CASE j # u - 1
      <4>1. j \in -1 .. u - 2 /\ j # -1
        BY <3>3
      <4>2. InsOf(<<l, "bt", n, i, j>>) = TermIns(l, n, i - (i % 4), i % 4, j)
        BY <4>1 DEF InsOf
      <4> QED
        BY <1>3, <2>1, <4>1, <4>2
    <3> QED
      BY <3>2, <3>3
  <2>6. Read(AndOf(<<l, "bt", n, i, j>>, xs)) <=> AllRead(xs)
    BY <2>4, <2>5, ReadAndOf
  <2>7. AllRead(xs) <=> Read(G(l, n, base + j)) /\ PassOn(l, n, base, j + 1, u - 1)
    BY <2>3, ReadTerm
  <2>8. terms[m] = AndOf(<<l, "bt", n, i, j>>, xs)
    BY <1>6, <1>7, <2>1
  <2> QED
    BY <2>6, <2>7, <2>8
<1>8. Read(terms[u + 1]) <=> PassOn(l, n, base, 0, u - 1) /\ Read(BorIn(l, n, i))
  <2>1. terms[u + 1] = Sig(<<l, "bt", n, i, -1>>)
    BY <1>6
  <2>2. PICK run : run = PRun(l, n, base, u - 1, 0)
    OBVIOUS
  <2>3. InsOf(<<l, "bt", n, i, -1>>) = Append(run, BorIn(l, n, i))
    BY <2>2 DEF InsOf
  <2>4. IsRun(run, l, n, base, u - 1, 0)
    BY <1>2, <2>2, RunOfBlocks
  <2>5. run \in Seq(Source) /\ Len(run) = u /\ DOMAIN run = 1 .. u
    BY <2>4 DEF IsRun
  <2>6. (\A m \in 1 .. u : Read(run[m])) <=> PassOn(l, n, base, 0, u - 1)
    BY <2>4, ReadRun
  <2>7. BorIn(l, n, i) \in Source
    <3>1. CASE n = 2
      BY <3>1, BorrowSignals DEF BorIn, Below
    <3>2. CASE n = 1
      BY <3>2, BorrowSignals, Parent DEF BorIn, Below
    <3>3. CASE n = 0
      BY <3>3, BorrowSignals, Parent DEF BorIn, Below
    <3> QED
      BY <3>1, <3>2, <3>3
  <2>8. PICK xs : xs = Append(run, BorIn(l, n, i))
    OBVIOUS
  <2>9. /\ xs \in Seq(Source) /\ Len(xs) = u + 1 /\ xs[u + 1] = BorIn(l, n, i)
        /\ \A m \in 1 .. u : xs[m] = run[m]
    BY <2>5, <2>7, <2>8, AppendProperties
  <2>10. DOMAIN xs = 1 .. u + 1 /\ xs # <<>> /\ \A m \in 1 .. u + 1 : m \in 1 .. u \/ m = u + 1
    BY <2>9
  <2>11. AllRead(xs) <=> (\A m \in 1 .. u : Read(run[m])) /\ Read(BorIn(l, n, i))
    BY <2>9, <2>10 DEF AllRead
  <2>12. Read(Sig(<<l, "bt", n, i, -1>>)) <=> AllRead(xs)
    BY <1>3, <2>3, <2>8, <2>10, ReadAnd
  <2> QED
    BY <2>1, <2>6, <2>11, <2>12
<1>9. Read(OrOf(<<l, "bo", n, i, 0>>)) <=> SomeRead(terms)
  <2>1. InsOf(<<l, "bo", n, i, 0>>) = OrIns(terms)
    BY <1>4 DEF InsOf
  <2> QED
    BY <1>3, <1>5, <2>1, ReadOr
<1>10. SomeRead(terms) <=> (\E m \in 1 .. u : Read(terms[m])) \/ Read(terms[u + 1])
  <2>1. \A m \in 1 .. u + 1 : m \in 1 .. u \/ m = u + 1
    OBVIOUS
  <2>2. u + 1 \in 1 .. u + 1 /\ \A m \in 1 .. u : m \in 1 .. u + 1
    OBVIOUS
  <2> QED
    BY <1>5, <2>1, <2>2 DEF SomeRead
<1>11. (\E m \in 1 .. u : Read(terms[m])) <=> Arises(l, n, base, u)
  <2>1. \A m \in 1 .. u : u - m \in 0 .. u - 1
    OBVIOUS
  <2>2. \A j \in 0 .. u - 1 : u - j \in 1 .. u /\ j = u - (u - j)
    OBVIOUS
  <2> QED
    BY <1>7, <2>1, <2>2 DEF Arises
<1> QED
  BY <1>8, <1>9, <1>10, <1>11

(* The borrow of the subtraction, bit by bit and block by block *)

Size(n) == CASE n = 0 -> 1 [] n = 1 -> 4 [] n = 2 -> 16
\* br is the borrow into bit i; Into is the borrow into block i of a level.
Into(br, n, i) == br[Size(n) * i]
Ripples(br, l, n) ==
    \A i \in Blocks(n) : Into(br, n, i + 1) <=> Read(G(l, n, i)) \/ (Read(P(l, n, i)) /\ Into(br, n, i))

\* Look-ahead over neighbouring blocks gives what the borrow rippling through them gives.
LEMMA LookAhead ==
    ASSUME NEW br, NEW l, NEW n \in {0, 1, 2}, Ripples(br, l, n), NEW base, NEW top, Siblings(n, base, top)
    PROVE  Into(br, n, base + top)
               <=> Arises(l, n, base, top) \/ (PassOn(l, n, base, 0, top - 1) /\ Into(br, n, base))
<1>1. base \in Int /\ top \in Nat \ {0} /\ \A q \in 0 .. top - 1 : base + q \in Blocks(n)
  BY DEF Siblings
<1> DEFINE Fine(t) == Into(br, n, base + t)
                        <=> Arises(l, n, base, t) \/ (PassOn(l, n, base, 0, t - 1) /\ Into(br, n, base))
           H == {t \in 0 .. top : Fine(t)}
<1>2. 0 \in H
  <2>1. 0 .. 0 - 1 = {} /\ base + 0 = base /\ 0 \in 0 .. top
    BY <1>1
  <2>2. ~Arises(l, n, base, 0) /\ PassOn(l, n, base, 0, 0 - 1)
    BY <2>1 DEF Arises, PassOn
  <2> QED
    BY <2>1, <2>2
<1>3. ASSUME NEW t \in 1 .. top, t - 1 \in H PROVE t \in H
  <2>1. PICK s \in 0 .. top - 1 : s = t - 1 /\ t = s + 1 /\ t - 1 = s /\ base + t = (base + s) + 1
    BY <1>1
  <2>2. Into(br, n, base + s)
           <=> Arises(l, n, base, s) \/ (PassOn(l, n, base, 0, s - 1) /\ Into(br, n, base))
    BY <1>3, <2>1
  <2>3. Into(br, n, base + t) <=> Read(G(l, n, base + s)) \/ (Read(P(l, n, base + s)) /\ Into(br, n, base + s))
    BY <1>1, <2>1 DEF Ripples
  <2>4. PassOn(l, n, base, 0, t - 1) <=> (PassOn(l, n, base, 0, s - 1) /\ Read(P(l, n, base + s)))
    <3>1. \A q \in 0 .. t - 1 : q \in 0 .. s - 1 \/ q = s
      BY <2>1
    <3>2. s \in 0 .. t - 1 /\ \A q \in 0 .. s - 1 : q \in 0 .. t - 1
      BY <2>1
    <3> QED
      BY <3>1, <3>2 DEF PassOn
  <2>5. \A j \in 0 .. s - 1 : PassOn(l, n, base, j + 1, t - 1)
                                <=> (PassOn(l, n, base, j + 1, s - 1) /\ Read(P(l, n, base + s)))
    <3> TAKE j \in 0 .. s - 1
    <3>1. \A q \in j + 1 .. t - 1 : q \in j + 1 .. s - 1 \/ q = s
      BY <2>1
    <3>2. s \in j + 1 .. t - 1 /\ \A q \in j + 1 .. s - 1 : q \in j + 1 .. t - 1
      BY <2>1
    <3> QED
      BY <3>1, <3>2 DEF PassOn
  <2>6. PassOn(l, n, base, s + 1, t - 1)
    BY <2>1 DEF PassOn
  <2>7. \A j \in 0 .. t - 1 : j \in 0 .. s - 1 \/ j = s
    BY <2>1
  <2>8. s \in 0 .. t - 1 /\ \A j \in 0 .. s - 1 : j \in 0 .. t - 1
    BY <2>1
  <2>9. Arises(l, n, base, t) <=> Read(G(l, n, base + s)) \/ (Arises(l, n, base, s) /\ Read(P(l, n, base + s)))
    BY <2>5, <2>6, <2>7, <2>8 DEF Arises
  <2>10. Fine(t)
    BY <2>2, <2>3, <2>4, <2>9
  <2> QED
    BY <2>10
<1>4. top \in H
  <2>1. \A t \in 0 .. top : t \in H
    <3> HIDE DEF H
    <3> QED
      BY <1>1, <1>2, <1>3, Climb
  <2>2. top \in 0 .. top
    BY <1>1
  <2> HIDE DEF H
  <2> QED
    BY <2>1, <2>2
<1> QED
  BY <1>4

LEMMA RippleUp ==
    ASSUME Gates, NEW l \in Lane, NEW br, NEW n \in {1, 2}, NEW h \in {0, 1}, h = n - 1, Ripples(br, l, h)
    PROVE  Ripples(br, l, n)
<1>1. SUFFICES ASSUME NEW k \in Blocks(n)
               PROVE  Into(br, n, k + 1) <=> Read(G(l, n, k)) \/ (Read(P(l, n, k)) /\ Into(br, n, k))
  BY DEF Ripples
<1>2. k \in Nat /\ \A q \in 0 .. 3 : (4 * k) + q \in Blocks(h)
  BY BlockNat, Child
<1>3. PICK base \in Int : base = 4 * k
  BY <1>2
<1>4. Siblings(h, base, 4)
  BY <1>2, <1>3 DEF Siblings
<1>5. Into(br, h, base + 4) <=> Arises(l, h, base, 4) \/ (PassOn(l, h, base, 0, 4 - 1) /\ Into(br, h, base))
  BY <1>4, LookAhead
<1>6. Into(br, h, base + 4) = Into(br, n, k + 1) /\ Into(br, h, base) = Into(br, n, k)
  <2>1. CASE n = 1
    <3>1. Size(h) * (base + 4) = Size(n) * (k + 1) /\ Size(h) * base = Size(n) * k
      BY <1>2, <1>3, <2>1 DEF Size
    <3> QED
      BY <3>1 DEF Into
  <2>2. CASE n = 2
    <3>1. Size(h) * (base + 4) = Size(n) * (k + 1) /\ Size(h) * base = Size(n) * k
      BY <1>2, <1>3, <2>2 DEF Size
    <3> QED
      BY <3>1 DEF Into
  <2> QED
    BY <2>1, <2>2
<1>7. (Read(G(l, n, k)) <=> Arises(l, h, base, 4)) /\ (Read(P(l, n, k)) <=> PassOn(l, h, base, 0, 3))
  BY <1>3, ReadGroup
<1>8. 4 - 1 = 3
  OBVIOUS
<1> QED
  BY <1>5, <1>6, <1>7, <1>8

\* Every borrow signal reads the borrow into its block.
LEMMA ReadBorrows ==
    ASSUME Gates, NEW l \in Lane, NEW br, Ripples(br, l, 0), ~br[0]
    PROVE  \A i \in Bits : Read(Bor(l, i)) <=> br[i]
<1>1. Ripples(br, l, 1) /\ Ripples(br, l, 2)
  <2>1. Ripples(br, l, 1)
    BY RippleUp
  <2>2. 1 = 2 - 1
    OBVIOUS
  <2> QED
    BY <2>1, <2>2, RippleUp
<1>2. \A n \in {0, 1, 2} : Ripples(br, l, n)
  BY <1>1
<1>3. ASSUME NEW n \in {0, 1, 2}, NEW i \in Blocks(n), i % 4 # 0, Read(BorIn(l, n, i)) <=> Into(br, n, i - (i % 4))
      PROVE  Read(OrOf(<<l, "bo", n, i, 0>>)) <=> Into(br, n, i)
  <2>1. i % 4 \in 0 .. 3 /\ i - (i % 4) \in Nat /\ i \in Nat /\ \A q \in 0 .. i % 4 : i - (i % 4) + q \in Blocks(n)
    BY PlaceInBlock
  <2>2. PICK u \in 1 .. 3 : u = i % 4
    BY <1>3, <2>1
  <2>3. PICK base \in Nat : base = i - u /\ base + u = i
    BY <2>1, <2>2
  <2>4. Siblings(n, base, u)
    BY <2>1, <2>2, <2>3 DEF Siblings
  <2>5. Read(OrOf(<<l, "bo", n, i, 0>>))
            <=> Arises(l, n, base, u) \/ (PassOn(l, n, base, 0, u - 1) /\ Read(BorIn(l, n, i)))
    BY <2>2, <2>3, ReadBorrow
  <2>6. Into(br, n, base + u) <=> Arises(l, n, base, u) \/ (PassOn(l, n, base, 0, u - 1) /\ Into(br, n, base))
    BY <1>2, <2>4, LookAhead
  <2> QED
    BY <1>3, <2>2, <2>3, <2>5, <2>6
<1>4. ASSUME NEW n \in {0, 1, 2} PROVE ~Into(br, n, 0)
  BY DEF Into, Size
<1>5. ASSUME NEW s \in Blocks(2) PROVE Read(BSup(l, s)) <=> Into(br, 2, s)
  <2>1. CASE s = 0
    BY <1>4, <2>1, ReadZero DEF BSup
  <2>2. CASE s # 0
    <3>1. s % 4 # 0 /\ s - (s % 4) = 0
      <4>1. \A t \in 0 .. 3 : t # 0 => t % 4 # 0 /\ t - (t % 4) = 0
        OBVIOUS
      <4>2. Blocks(2) \subseteq 0 .. 3
        BY Widths DEF Blocks
      <4> QED
        BY <2>2, <4>1, <4>2
    <3>2. ~Read(BorIn(l, 2, s))
      BY ReadZero DEF BorIn
    <3>3. Read(OrOf(<<l, "bo", 2, s, 0>>)) <=> Into(br, 2, s)
      BY <1>3, <1>4, <3>1, <3>2
    <3> QED
      BY <2>2, <3>3 DEF BSup
  <2> QED
    BY <2>1, <2>2
<1>6. ASSUME NEW n \in {0, 1}, NEW i \in Blocks(n)
      PROVE  /\ i \div 4 \in Blocks(n + 1) /\ Into(br, n + 1, i \div 4) = Into(br, n, i - (i % 4))
             /\ i % 4 = 0 => i - (i % 4) = i
  <2>1. i \in Nat /\ i - (i % 4) = 4 * (i \div 4) /\ i % 4 \in Nat
    BY PlaceInBlock
  <2>2. i \div 4 \in Nat
    BY <2>1
  <2>3. PICK q \in Nat : q = i \div 4
    BY <2>2
  <2>4. PICK d \in Nat : d = i - (i % 4) /\ d = 4 * q
    BY <2>1, <2>3
  <2>5. Size(n + 1) * q = Size(n) * d
    <3>1. CASE n = 0
      BY <2>4, <3>1 DEF Size
    <3>2. CASE n = 1
      BY <2>4, <3>2 DEF Size
    <3> QED
      BY <3>1, <3>2
  <2>6. Into(br, n + 1, q) = Into(br, n, d)
    BY <2>5 DEF Into
  <2> QED
    BY <2>1, <2>3, <2>4, <2>6, Parent
<1>7. ASSUME NEW k \in Blocks(1) PROVE Read(BGrp(l, k)) <=> Into(br, 1, k)
  <2>1. /\ k \div 4 \in Blocks(2) /\ Into(br, 2, k \div 4) = Into(br, 1, k - (k % 4))
        /\ k % 4 = 0 => k - (k % 4) = k
    <3>1. 1 + 1 = 2
      OBVIOUS
    <3> QED
      BY <1>6, <3>1
  <2>2. Read(BSup(l, k \div 4)) <=> Into(br, 1, k - (k % 4))
    BY <1>5, <2>1
  <2>3. CASE k % 4 = 0
    BY <2>1, <2>2, <2>3 DEF BGrp
  <2>4. CASE k % 4 # 0
    <3>1. BorIn(l, 1, k) = BSup(l, k \div 4)
      BY DEF BorIn
    <3>2. Read(OrOf(<<l, "bo", 1, k, 0>>)) <=> Into(br, 1, k)
      BY <1>3, <2>2, <2>4, <3>1
    <3> QED
      BY <2>4, <3>2 DEF BGrp
  <2> QED
    BY <2>3, <2>4
<1>8. ASSUME NEW i \in Blocks(0) PROVE Read(Bor(l, i)) <=> Into(br, 0, i)
  <2>1. /\ i \div 4 \in Blocks(1) /\ Into(br, 1, i \div 4) = Into(br, 0, i - (i % 4))
        /\ i % 4 = 0 => i - (i % 4) = i
    <3>1. 0 + 1 = 1
      OBVIOUS
    <3> QED
      BY <1>6, <3>1
  <2>2. Read(BGrp(l, i \div 4)) <=> Into(br, 0, i - (i % 4))
    BY <1>7, <2>1
  <2>3. CASE i % 4 = 0
    BY <2>1, <2>2, <2>3 DEF Bor
  <2>4. CASE i % 4 # 0
    <3>1. BorIn(l, 0, i) = BGrp(l, i \div 4)
      BY DEF BorIn
    <3>2. Read(OrOf(<<l, "bo", 0, i, 0>>)) <=> Into(br, 0, i)
      BY <1>3, <2>2, <2>4, <3>1
    <3> QED
      BY <2>4, <3>2 DEF Bor
  <2> QED
    BY <2>3, <2>4
<1>9. ASSUME NEW i \in Bits PROVE i \in Blocks(0) /\ Into(br, 0, i) = br[i]
  <2>1. i \in Blocks(0) /\ i \in Nat
    BY BlockNat
  <2>2. 1 * i = i
    BY <2>1
  <2> QED
    BY <2>1, <2>2 DEF Into, Size
<1> QED
  BY <1>8, <1>9

LEMMA ReadSum ==
    ASSUME Gates, NEW l \in Lane, NEW br, Ripples(br, l, 0), ~br[0], NEW i \in Bits
    PROVE  Read(Sum(l, i)) <=> (Read(X(l, i)) <=> ~br[i])
<1>1. CASE i = 0
  BY <1>1 DEF Sum
<1>2. CASE i # 0
  <2>1. <<l, "shi", 0, i, 0>> \in Cell /\ <<l, "slo", 0, i, 0>> \in Cell /\ <<l, "s", 0, i, 0>> \in Cell
    BY <1>2, CellOfBit
  <2>2. InsOf(<<l, "shi", 0, i, 0>>) = HiIns(X(l, i), Bor(l, i))
    BY DEF InsOf
  <2>3. InsOf(<<l, "slo", 0, i, 0>>) = LoIns(X(l, i), Bor(l, i))
    BY DEF InsOf
  <2>4. InsOf(<<l, "s", 0, i, 0>>) = XorIns(<<l, "shi", 0, i, 0>>, <<l, "slo", 0, i, 0>>)
    BY DEF InsOf
  <2>5. X(l, i) \in Source /\ Bor(l, i) \in Source
    <3>1. i \in Blocks(0)
      BY BlockNat
    <3> QED
      BY <3>1, BitSignals, BorrowSignals DEF Below
  <2>6. Read(NOT(OrOf(<<l, "s", 0, i, 0>>))) <=> (Read(X(l, i)) <=> ~Read(Bor(l, i)))
    BY <2>1, <2>2, <2>3, <2>4, <2>5, ReadXor
  <2>7. Read(Bor(l, i)) <=> br[i]
    BY ReadBorrows
  <2> QED
    BY <1>2, <2>6, <2>7 DEF Sum
<1> QED
  BY <1>1, <1>2

\* The flag: the sign bit, or no bit at all.
LEMMA ReadFlag ==
    ASSUME Gates, NEW l \in Lane
    PROVE  Read(IsJmp(l)) <=> Read(Sum(l, DIGIT - 1)) \/ \A i \in Bits : ~Read(Sum(l, i))
<1>1. PICK w \in Nat \ {0} : DIGIT \div 8 = w /\ DIGIT = 8 * w
  <2>1. PICK h \in 1 .. 4 : h = DIGIT \div 16 /\ DIGIT = 16 * h /\ DIGIT \div 8 = 2 * h
    BY Widths
  <2>2. 2 * h \in Nat \ {0} /\ 16 * h = 8 * (2 * h)
    OBVIOUS
  <2> QED
    BY <2>1, <2>2
<1>2. \A i \in Bits : Sum(l, i) \in Source
  BY SumSignals DEF Below
<1>3. /\ \A m \in 0 .. w - 1 : <<l, "acc", 0, m, 0>> \in Cell
      /\ <<l, "allz", 0, 0, 0>> \in Cell /\ <<l, "jor", 0, 0, 0>> \in Cell /\ <<l, "jmp", 0, 0, 0>> \in Cell
  BY <1>1, CellOfFlag
<1>4. ASSUME NEW m \in 0 .. w - 1
      PROVE  Read(Sig(<<l, "acc", 0, m, 0>>)) <=> \A q \in 1 .. 8 : ~Read(Sum(l, (8 * m) + q - 1))
  <2>1. PICK xs : xs = [q \in 1 .. 8 |-> NOT(Sum(l, (8 * m) + q - 1))]
    OBVIOUS
  <2>2. InsOf(<<l, "acc", 0, m, 0>>) = xs
    BY <2>1 DEF InsOf
  <2>3. DOMAIN xs = 1 .. 8 /\ xs # <<>>
    BY <2>1
  <2>4. Read(Sig(<<l, "acc", 0, m, 0>>)) <=> AllRead(xs)
    BY <1>3, <2>2, <2>3, ReadAnd
  <2>5. ASSUME NEW q \in 1 .. 8 PROVE Read(xs[q]) <=> ~Read(Sum(l, (8 * m) + q - 1))
    <3>1. (8 * m) + q - 1 \in Bits
      BY <1>1 DEF Bits
    <3> QED
      BY <1>2, <2>1, <3>1, ReadNot
  <2> QED
    BY <2>3, <2>4, <2>5 DEF AllRead
<1>5. Read(Sig(<<l, "allz", 0, 0, 0>>)) <=> \A i \in Bits : ~Read(Sum(l, i))
  <2>1. PICK xs : xs = [m \in 1 .. w |-> Sig(<<l, "acc", 0, m - 1, 0>>)]
    OBVIOUS
  <2>2. InsOf(<<l, "allz", 0, 0, 0>>) = xs
    BY <1>1, <2>1 DEF InsOf
  <2>3. DOMAIN xs = 1 .. w /\ xs # <<>>
    BY <2>1
  <2>4. Read(Sig(<<l, "allz", 0, 0, 0>>)) <=> AllRead(xs)
    BY <1>3, <2>2, <2>3, ReadAnd
  <2>5. ASSUME AllRead(xs), NEW i \in Bits PROVE ~Read(Sum(l, i))
    <3>1. i \in Nat /\ i < 8 * w
      BY <1>1 DEF Bits
    <3>2. PICK m \in Nat, q \in 1 .. 8 : i = (8 * m) + q - 1 /\ m < w
      <4>1. i = (8 * (i \div 8)) + (i % 8) /\ i \div 8 \in Nat /\ i % 8 \in 0 .. 7
        BY <3>1
      <4>2. PICK m \in Nat : m = i \div 8
        BY <4>1
      <4>3. PICK r \in 0 .. 7 : r = i % 8
        BY <4>1
      <4>4. i = (8 * m) + (r + 1) - 1 /\ m < w /\ r + 1 \in 1 .. 8
        BY <3>1, <4>1, <4>2, <4>3
      <4> QED
        BY <4>4
    <3>3. m + 1 \in 1 .. w /\ m \in 0 .. w - 1 /\ (m + 1) - 1 = m
      BY <3>2
    <3>4. Read(Sig(<<l, "acc", 0, m, 0>>))
      BY <2>1, <2>3, <2>5, <3>3 DEF AllRead
    <3> QED
      BY <1>4, <3>2, <3>3, <3>4
  <2>6. ASSUME \A i \in Bits : ~Read(Sum(l, i)), NEW m \in 1 .. w PROVE Read(xs[m])
    <3>1. PICK k \in 0 .. w - 1 : k = m - 1
      OBVIOUS
    <3>2. \A q \in 1 .. 8 : (8 * k) + q - 1 \in Bits
      BY <1>1 DEF Bits
    <3>3. Read(Sig(<<l, "acc", 0, k, 0>>))
      BY <1>4, <2>6, <3>2
    <3> QED
      BY <2>1, <3>1, <3>3
  <2> QED
    BY <2>3, <2>4, <2>5, <2>6 DEF AllRead
<1>6. Read(OrOf(<<l, "jor", 0, 0, 0>>)) <=> Read(Sig(<<l, "allz", 0, 0, 0>>)) \/ Read(Sum(l, DIGIT - 1))
  <2>1. PICK xs : xs = <<Sig(<<l, "allz", 0, 0, 0>>), Sum(l, DIGIT - 1)>>
    OBVIOUS
  <2>2. DIGIT - 1 \in Bits
    BY Widths DEF Bits
  <2>3. xs \in Seq(Source) /\ xs # <<>>
    BY <1>2, <1>3, <2>1, <2>2, ReadCell
  <2>4. InsOf(<<l, "jor", 0, 0, 0>>) = OrIns(xs)
    BY <2>1 DEF InsOf
  <2>5. Read(OrOf(<<l, "jor", 0, 0, 0>>)) <=> SomeRead(xs)
    BY <1>3, <2>3, <2>4, ReadOr
  <2> QED
    BY <2>1, <2>5 DEF SomeRead
<1>7. Read(IsJmp(l)) <=> Read(OrOf(<<l, "jor", 0, 0, 0>>))
  <2>1. InsOf(<<l, "jmp", 0, 0, 0>>) = <<OrOf(<<l, "jor", 0, 0, 0>>)>>
    BY DEF InsOf
  <2>2. Read(Sig(<<l, "jmp", 0, 0, 0>>)) <=> AllRead(<<OrOf(<<l, "jor", 0, 0, 0>>)>>)
    BY <1>3, <2>1, ReadAnd
  <2> QED
    BY <2>2 DEF AllRead, IsJmp
<1> QED
  BY <1>5, <1>6, <1>7

(* The answer                                                              *)

\* The borrows of b - a, the borrow into the lowest bit first.
Borrows(br, a, b) == /\ br \in [0 .. DIGIT -> BOOLEAN] /\ br[0] = FALSE
                     /\ \A i \in 1 .. DIGIT : br[i] = IF a[i] = b[i] THEN br[i - 1] ELSE a[i]

LEMMA DifferenceIs ==
    ASSUME NEW a \in Word, NEW b \in Word
    PROVE  \E br : /\ Borrows(br, a, b)
                   /\ Subtractor!Difference(a, b) = [i \in 1 .. DIGIT |-> (a[i] # b[i]) # br[i - 1]]
<1> DEFINE Looped(u) == u = [i \in 0 .. DIGIT |->
                              IF i = 0 THEN FALSE
                              ELSE LET in == u[i - 1] IN IF a[i] = b[i] THEN in ELSE a[i]]
<1>0. DIGIT \in Nat /\ \A i \in 1 .. DIGIT : a[i] \in BOOLEAN /\ b[i] \in BOOLEAN
  BY Widths DEF Word
<1>1. \E u : Looped(u)
  <2>1. PICK F : F = [p \in (1 .. DIGIT) \X BOOLEAN |-> IF a[p[1]] = b[p[1]] THEN p[2] ELSE a[p[1]]]
    OBVIOUS
  <2>2. \A i \in 1 .. DIGIT : \A x \in BOOLEAN : F[<<i, x>>] = IF a[i] = b[i] THEN x ELSE a[i]
    BY <2>1
  <2>3. F \in [(1 .. DIGIT) \X BOOLEAN -> BOOLEAN]
    BY <1>0, <2>1
  <2>4. PICK U, first : U = BOOLEAN /\ first = FALSE
    OBVIOUS
  <2>5. first \in U /\ F \in [(1 .. DIGIT) \X U -> U]
    BY <2>3, <2>4
  <2>6. PICK f : Unfolds(f, F, first, U, DIGIT)
    BY <1>0, <2>5, Recursion
  <2>7. f \in [0 .. DIGIT -> BOOLEAN] /\ f[0] = FALSE /\ \A i \in 1 .. DIGIT : f[i] = F[<<i, f[i - 1]>>]
    BY <2>4, <2>6 DEF Unfolds
  <2>8. ASSUME NEW i \in 0 .. DIGIT PROVE f[i] = IF i = 0 THEN FALSE ELSE IF a[i] = b[i] THEN f[i - 1] ELSE a[i]
    <3>1. CASE i = 0
      BY <2>7, <3>1
    <3>2. CASE i # 0
      <4>1. i \in 1 .. DIGIT /\ i - 1 \in 0 .. DIGIT
        BY <1>0, <3>2
      <4>2. f[i - 1] \in BOOLEAN /\ f[i] = F[<<i, f[i - 1]>>]
        BY <2>7, <4>1
      <4> QED
        BY <2>2, <3>2, <4>1, <4>2
    <3> QED
      BY <3>1, <3>2
  <2>9. f = [i \in 0 .. DIGIT |-> f[i]]
    BY <2>7
  <2>10. Looped(f)
    BY <2>8, <2>9
  <2> QED
    BY <2>10
<1>2. PICK br : br = (CHOOSE u : Looped(u)) /\ Looped(br)
  <2> HIDE DEF Looped
  <2> QED
    BY <1>1, Zenon
<1>3. Subtractor!Difference(a, b) = [i \in 1 .. DIGIT |-> (a[i] # b[i]) # br[i - 1]]
  <2>1. Subtractor!Difference(a, b) = [i \in 1 .. DIGIT |-> (a[i] # b[i]) # (CHOOSE u : Looped(u))[i - 1]]
    BY DEF Subtractor!Difference
  <2> HIDE DEF Looped
  <2> QED
    BY <1>2, <2>1, Zenon
<1>11. /\ \A i \in 0 .. DIGIT : br[i] = IF i = 0 THEN FALSE ELSE IF a[i] = b[i] THEN br[i - 1] ELSE a[i]
       /\ br = [i \in 0 .. DIGIT |-> br[i]]
  BY <1>2, Zenon
<1>12. 0 \in 0 .. DIGIT /\ \A i \in 1 .. DIGIT : i \in 0 .. DIGIT /\ i # 0
  BY <1>0
<1>4. br[0] = FALSE /\ br = [i \in 0 .. DIGIT |-> br[i]]
  BY <1>11, <1>12, Zenon
<1>5. \A i \in 1 .. DIGIT : br[i] = IF a[i] = b[i] THEN br[i - 1] ELSE a[i]
  BY <1>11, <1>12, Zenon
<1> DEFINE H == {i \in 0 .. DIGIT : br[i] \in BOOLEAN}
<1>6. 0 \in H
  <2>1. br[0] \in BOOLEAN
    BY <1>4
  <2> QED
    BY <1>12, <2>1
<1>7. ASSUME NEW i \in 1 .. DIGIT, i - 1 \in H PROVE i \in H
  <2>1. i \in 0 .. DIGIT
    BY <1>0
  <2>2. br[i] = br[i - 1] \/ br[i] = a[i]
    BY <1>5
  <2> QED
    BY <1>0, <1>7, <2>1, <2>2
<1>8. \A i \in 0 .. DIGIT : i \in H
  <2> HIDE DEF H
  <2> QED
    BY <1>0, <1>6, <1>7, Climb
<1>9. br \in [0 .. DIGIT -> BOOLEAN]
  BY <1>4, <1>8
<1>10. Borrows(br, a, b)
  BY <1>4, <1>5, <1>9 DEF Borrows
<1> QED
  BY <1>3, <1>10

\* The operand bits are still in their cells.
LEMMA ReadInputs ==
    ASSUME RoundInv, programs > 0, NEW l \in Lane, NEW i \in Bits
    PROVE  (Read(A(l, i)) <=> job.a[l][i + 1]) /\ (Read(B(l, i)) <=> job.b[l][i + 1])
<1>1. \A c \in Cell : InsOf(c) = <<>> => (content[c] <=> Inputs(job)[c])
  <2>1. ASSUME NEW c \in Cell, InsOf(c) = <<>>, NEW k \in DOMAIN Plan[c].writes PROVE FALSE
    <3>1. \E m \in DOMAIN InsOf(c) : Plan[c].writes[k].src = InsOf(c)[m]
      BY ScheduleSettled DEF Plan, Settled, InTime
    <3> QED
      BY <2>1, <3>1
  <2> QED
    BY <2>1 DEF RoundInv, PageInv
<1>2. <<l, "a", 0, i, 0>> \in Cell /\ <<l, "b", 0, i, 0>> \in Cell
  BY CellOfBit
<1>3. InsOf(<<l, "a", 0, i, 0>>) = <<>> /\ InsOf(<<l, "b", 0, i, 0>>) = <<>>
  BY DEF InsOf
<1>4. Inputs(job)[<<l, "a", 0, i, 0>>] = job.a[l][i + 1] /\ Inputs(job)[<<l, "b", 0, i, 0>>] = job.b[l][i + 1]
  BY <1>2 DEF Inputs
<1>5. job.a[l][i + 1] \in BOOLEAN /\ job.b[l][i + 1] \in BOOLEAN /\ content \in [Cell -> BOOLEAN]
  <2>1. job.a \in [Lane -> Word] /\ job.b \in [Lane -> Word]
    BY RoundAssumption DEF RoundInv, FlowInv
  <2>2. i + 1 \in 1 .. DIGIT
    BY Widths DEF Bits
  <2> QED
    BY <2>1, <2>2 DEF Word, RoundInv
<1>6. content[<<l, "a", 0, i, 0>>] <=> job.a[l][i + 1]
  BY <1>1, <1>2, <1>3, <1>4
<1>7. content[<<l, "b", 0, i, 0>>] <=> job.b[l][i + 1]
  BY <1>1, <1>2, <1>3, <1>4
<1>8. content[<<l, "a", 0, i, 0>>] \in BOOLEAN /\ content[<<l, "b", 0, i, 0>>] \in BOOLEAN
  BY <1>2, <1>5
<1>9. A(l, i).cell = <<l, "a", 0, i, 0>> /\ A(l, i).inv = FALSE
      /\ B(l, i).cell = <<l, "b", 0, i, 0>> /\ B(l, i).inv = FALSE
  BY DEF A, B, Sig
<1> QED
  BY <1>6, <1>7, <1>8, <1>9 DEF Read

LEMMA AllGates == ASSUME RoundInv, programs = LastStep PROVE Gates /\ programs > 0
<1>1. programs > 0 /\ \A c \in Cell : Plan[c].complete <= programs
  BY LastStepIs
<1> QED
  BY <1>1, GateOf DEF Gates, RoundInv

\* The borrows of the operands ripple through the half subtractors of a lane.
LEMMA BorrowsRipple ==
    ASSUME RoundInv, Gates, programs > 0, NEW l \in Lane, NEW br, Borrows(br, job.a[l], job.b[l])
    PROVE  Ripples(br, l, 0) /\ ~br[0]
<1>1. SUFFICES ASSUME NEW i \in Blocks(0)
               PROVE  Into(br, 0, i + 1) <=> Read(G(l, 0, i)) \/ (Read(P(l, 0, i)) /\ Into(br, 0, i))
  BY DEF Ripples, Borrows
<1>2. i \in Bits /\ i \in Nat /\ i + 1 \in 1 .. DIGIT /\ i \in 0 .. DIGIT /\ i + 1 \in 0 .. DIGIT /\ (i + 1) - 1 = i
  BY BlockNat, Widths DEF Bits
<1>3. Into(br, 0, i + 1) = br[i + 1] /\ Into(br, 0, i) = br[i]
  <2>1. 1 * (i + 1) = i + 1 /\ 1 * i = i
    BY <1>2
  <2> QED
    BY <2>1 DEF Into, Size
<1>4. PICK u, v : u = job.a[l][i + 1] /\ v = job.b[l][i + 1]
  OBVIOUS
<1>5. u \in BOOLEAN /\ v \in BOOLEAN
  <2>1. job.a \in [Lane -> Word] /\ job.b \in [Lane -> Word]
    BY RoundAssumption DEF RoundInv, FlowInv
  <2> QED
    BY <1>2, <1>4, <2>1 DEF Word
<1>6. br[i + 1] = IF u = v THEN br[i] ELSE u
  BY <1>2, <1>4 DEF Borrows
<1>7. br[i] \in BOOLEAN /\ br[i + 1] \in BOOLEAN
  BY <1>2 DEF Borrows
<1>8. (Read(G(l, 0, i)) <=> (u /\ ~v)) /\ (Read(P(l, 0, i)) <=> (u <=> v))
  BY <1>2, <1>4, ReadInputs, ReadBit
<1>9. (u = v) <=> (u <=> v)
  BY <1>5
<1>10. br[i + 1] <=> (u /\ ~v) \/ ((u <=> v) /\ br[i])
  BY <1>5, <1>6, <1>7, <1>9
<1> QED
  BY <1>3, <1>8, <1>10

\* What the PUSH_OUTs and RAISEs of a lane read when the last step is done.
LEMMA LaneAnswer ==
    ASSUME RoundInv, programs = LastStep, NEW l \in Lane, NEW d, d = Subtractor!Difference(job.a[l], job.b[l])
    PROVE  /\ [i \in 1 .. DIGIT |-> Read(Sum(l, i - 1))] = d
           /\ Read(IsJmp(l)) = Subtractor!NonPositive(d)
<1>1. Gates /\ programs > 0
  BY AllGates
<1>2. job.a[l] \in Word /\ job.b[l] \in Word
  BY <1>1, RoundAssumption DEF RoundInv, FlowInv
<1>3. PICK a, b : a = job.a[l] /\ b = job.b[l]
  OBVIOUS
<1>13. a \in Word /\ b \in Word /\ d = Subtractor!Difference(a, b)
  BY <1>2, <1>3
<1>14. PICK br : /\ Borrows(br, a, b)
                 /\ Subtractor!Difference(a, b) = [i \in 1 .. DIGIT |-> (a[i] # b[i]) # br[i - 1]]
  BY <1>13, DifferenceIs
<1>4. Borrows(br, a, b) /\ d = [i \in 1 .. DIGIT |-> (a[i] # b[i]) # br[i - 1]]
  BY <1>13, <1>14
<1>5. Ripples(br, l, 0) /\ ~br[0]
  BY <1>1, <1>3, <1>4, BorrowsRipple
<1>6. ASSUME NEW i \in 1 .. DIGIT PROVE Read(Sum(l, i - 1)) = d[i]
  <2>1. PICK h \in Bits : h = i - 1 /\ h + 1 = i
    BY Widths DEF Bits
  <2>2. Read(Sum(l, h)) <=> (Read(X(l, h)) <=> ~br[h])
    BY <1>1, <1>5, ReadSum
  <2>3. Read(X(l, h)) <=> (a[i] <=> ~b[i])
    BY <1>1, <1>3, <2>1, ReadBit, ReadInputs
  <2>4. d[i] = ((a[i] # b[i]) # br[h])
    BY <1>4, <2>1
  <2>5. a[i] \in BOOLEAN /\ b[i] \in BOOLEAN
    BY <1>2, <1>3 DEF Word
  <2>6. br[h] \in BOOLEAN
    <3>1. h \in 0 .. DIGIT
      BY Widths DEF Bits
    <3> QED
      BY <1>4, <3>1 DEF Borrows
  <2>7. (a[i] # b[i]) <=> (a[i] <=> ~b[i])
    BY <2>5
  <2>8. ((a[i] # b[i]) # br[h]) <=> ((a[i] # b[i]) <=> ~br[h])
    BY <2>6
  <2>9. Read(Sum(l, h)) <=> d[i]
    BY <2>2, <2>3, <2>4, <2>7, <2>8
  <2>10. Read(Sum(l, h)) \in BOOLEAN /\ d[i] \in BOOLEAN
    BY <2>4 DEF Read
  <2> QED
    BY <2>1, <2>9, <2>10
<1>7. [i \in 1 .. DIGIT |-> Read(Sum(l, i - 1))] = d
  BY <1>4, <1>6
<1>8. Read(IsJmp(l)) <=> Read(Sum(l, DIGIT - 1)) \/ \A i \in Bits : ~Read(Sum(l, i))
  BY <1>1, ReadFlag
<1>9. DIGIT \in 1 .. DIGIT /\ (\A i \in 1 .. DIGIT : i - 1 \in Bits)
      /\ \A h \in Bits : h + 1 \in 1 .. DIGIT /\ (h + 1) - 1 = h
  BY Widths DEF Bits
<1>10. Read(IsJmp(l)) <=> d[DIGIT] \/ \A i \in 1 .. DIGIT : ~d[i]
  BY <1>6, <1>8, <1>9
<1>11. Read(IsJmp(l)) \in BOOLEAN /\ Subtractor!NonPositive(d) \in BOOLEAN
  BY DEF Read, Subtractor!NonPositive
<1>12. Read(IsJmp(l)) <=> Subtractor!NonPositive(d)
  BY <1>10 DEF Subtractor!NonPositive
<1> QED
  BY <1>7, <1>11, <1>12

LEMMA AnswerIs ==
    ASSUME RoundInv, PushAndRaise
    PROVE  resp' = Subtractor!Answer(job)
<1>1. /\ programs = LastStep
      /\ resp' = [c   |-> [l \in Lane |-> [i \in 1 .. DIGIT |-> Read(Sum(l, i - 1))]],
                  jmp |-> [l \in Lane |-> Read(IsJmp(l))]]
  BY DEF PushAndRaise
<1>2. \A l \in Lane : /\ [i \in 1 .. DIGIT |-> Read(Sum(l, i - 1))] = Subtractor!Difference(job.a[l], job.b[l])
                      /\ Read(IsJmp(l)) = Subtractor!NonPositive(Subtractor!Difference(job.a[l], job.b[l]))
  BY <1>1, LaneAnswer
<1>3. [l \in Lane |-> [i \in 1 .. DIGIT |-> Read(Sum(l, i - 1))]]
          = [l \in Lane |-> Subtractor!Difference(job.a[l], job.b[l])]
  BY <1>2
<1>4. [l \in Lane |-> Read(IsJmp(l))]
          = [l \in Lane |-> Subtractor!NonPositive(Subtractor!Difference(job.a[l], job.b[l]))]
  BY <1>2
<1>5. Subtractor!Answer(job) =
          [c   |-> [l \in Lane |-> Subtractor!Difference(job.a[l], job.b[l])],
           jmp |-> [l \in Lane |-> Subtractor!NonPositive(Subtractor!Difference(job.a[l], job.b[l]))]]
  BY DEF Subtractor!Answer, Subtractor!Lane, Lane
<1> QED
  BY <1>1, <1>3, <1>4, <1>5, Zenon

\* The netlist of build_lane, programmed step by step in the order schedule()
\* gives it, is a subtractor: for every word length, any number of lanes and
\* all operands a batch gets b - a and the flag b - a <= 0, lane by lane.
THEOREM ImplementsSubtractor == Spec => Subtractor!Init /\ [][Subtractor!Next]_(Subtractor!vars)
<1>1. Init => Subtractor!Init
  BY DEF Init, Subtractor!Init
<1>2. RoundInv /\ [Next]_vars => [Subtractor!Next]_(Subtractor!vars)
  <2>1. SUFFICES ASSUME RoundInv, [Next]_vars PROVE [Subtractor!Next]_(Subtractor!vars)
    OBVIOUS
  <2>2. CASE Load
    BY <2>2 DEF Load, Subtractor!Next, Subtractor!Submit
  <2>3. CASE ProgramStep
    BY <2>3 DEF ProgramStep, Subtractor!vars
  <2>4. CASE PushAndRaise
    <3>1. resp' = Subtractor!Answer(job) /\ job # NoJob /\ resp = NoResp /\ job' = job
      BY <2>1, <2>4, AnswerIs DEF PushAndRaise
    <3> QED
      BY <3>1 DEF Subtractor!Next, Subtractor!Reply
  <2>5. CASE UNCHANGED vars
    BY <2>5 DEF vars, Subtractor!vars
  <2> QED
    BY <2>1, <2>2, <2>3, <2>4, <2>5 DEF Next
<1> QED
  BY <1>1, <1>2, RoundInvHolds, PTL DEF Spec
----------------------------------------------------------------------------
(***************************************************************************)
(* The words of the image.                                                 *)
(***************************************************************************)
\* The writes of a cell in one step, and those of all cells.
WritesOf(c, s) == {WriteOp(c, Plan[c].writes[k]) : k \in {j \in DOMAIN Plan[c].writes : Plan[c].writes[j].step = s}}
WritesAt(s) == UNION {WritesOf(c, s) : c \in Cell}

LEMMA WritesDomain == ASSUME NEW c \in Cell PROVE Len(Plan[c].writes) \in Nat /\ DOMAIN Plan[c].writes = 1 .. Len(Plan[c].writes)
<1>1. Plan \in [Cell -> Entry]
  BY ScheduleSettled DEF Plan, Settled
<1>2. Plan[c].writes \in Seq([src : Source, step : Nat])
  BY <1>1 DEF Entry
<1> QED
  BY <1>2, LenProperties

LEMMA CellWrites == ASSUME NEW c \in Cell, NEW s PROVE Lists(OpsAt(Plan, c, s), WritesOf(c, s))
<1>1. PICK ws, n : ws = Plan[c].writes /\ n = Len(ws)
  OBVIOUS
<1>2. n \in Nat /\ DOMAIN ws = 1 .. n
  BY <1>1, WritesDomain
<1>3. PICK f, S : /\ f = [k \in 1 .. n |-> IF ws[k].step = s THEN <<WriteOp(c, ws[k])>> ELSE <<>>]
                  /\ S = [k \in 1 .. n |-> IF ws[k].step = s THEN {WriteOp(c, ws[k])} ELSE {}]
  OBVIOUS
<1>4. \A k \in 1 .. n : Lists(f[k], S[k])
  BY <1>3, ListsPair
<1>5. DOMAIN f = 1 .. n /\ f = [k \in 1 .. n |-> f[k]]
  BY <1>3
<1>6. \A k \in 1 .. n : S[k] \subseteq WritesOf(c, s)
  BY <1>1, <1>2, <1>3 DEF WritesOf
<1>7. ASSUME NEW x \in WritesOf(c, s) PROVE \E k \in 1 .. n : x \in S[k]
  <2>1. PICK k \in 1 .. n : ws[k].step = s /\ x = WriteOp(c, ws[k])
    BY <1>1, <1>2 DEF WritesOf
  <2> QED
    BY <1>3, <2>1
<1>8. Lists(FlattenSeq(f), WritesOf(c, s))
  BY <1>2, <1>4, <1>5, <1>6, <1>7, ListsFlat
<1>9. OpsAt(Plan, c, s) = FlattenSeq(f)
  BY <1>1, <1>2, <1>3 DEF OpsAt
<1> QED
  BY <1>8, <1>9

PRG == Op("PRG_NAND", PageBase, PageBase)

LEMMA StepWords ==
    ASSUME NEW s
    PROVE  \E xs : Lists(xs, WritesAt(s)) /\ StepOps(Plan, CellOrder, s) = xs \o <<PRG>>
<1>1. PICK n \in Nat : n = Len(CellOrder) /\ DOMAIN CellOrder = 1 .. n /\ \A i \in 1 .. n : CellOrder[i] \in Cell
  BY CellsListed, LenProperties DEF Lists
<1>2. PICK f, S : f = [i \in 1 .. n |-> OpsAt(Plan, CellOrder[i], s)] /\ S = [i \in 1 .. n |-> WritesOf(CellOrder[i], s)]
  OBVIOUS
<1>3. \A i \in 1 .. n : Lists(f[i], S[i])
  BY <1>1, <1>2, CellWrites
<1>4. DOMAIN f = 1 .. n /\ f = [i \in 1 .. n |-> f[i]]
  BY <1>2
<1>5. \A i \in 1 .. n : S[i] \subseteq WritesAt(s)
  BY <1>1, <1>2 DEF WritesAt
<1>6. ASSUME NEW x \in WritesAt(s) PROVE \E i \in 1 .. n : x \in S[i]
  <2>1. PICK c \in Cell : x \in WritesOf(c, s)
    BY DEF WritesAt
  <2>2. PICK i \in 1 .. n : CellOrder[i] = c
    BY <1>1, CellsListed DEF Lists
  <2> QED
    BY <1>2, <2>1, <2>2
<1>7. Lists(FlattenSeq(f), WritesAt(s))
  BY <1>3, <1>4, <1>5, <1>6, ListsFlat
<1>8. StepOps(Plan, CellOrder, s) = FlattenSeq(f) \o <<PRG>>
  BY <1>1, <1>2 DEF StepOps, Program, PRG
<1> QED
  BY <1>7, <1>8

\* The parts of a concatenation.
LEMMA Halves ==
    ASSUME NEW U, NEW xs, NEW ys, NEW zs, xs \in Seq(U), ys \in Seq(U), zs = xs \o ys
    PROVE  /\ zs \in Seq(U) /\ Len(xs) \in Nat /\ Len(ys) \in Nat /\ Len(zs) = Len(xs) + Len(ys)
           /\ \A i \in 1 .. Len(xs) : zs[i] = xs[i]
           /\ \A i \in 1 .. Len(ys) : zs[Len(xs) + i] = ys[i]
<1>1. PICK m \in Nat, n \in Nat : m = Len(xs) /\ n = Len(ys)
  OBVIOUS
<1>2. /\ zs \in Seq(U) /\ Len(zs) = m + n
      /\ \A i \in 1 .. m + n : zs[i] = IF i <= m THEN xs[i] ELSE ys[i - m]
  BY <1>1, ConcatProperties
<1>3. \A i \in 1 .. m : i \in 1 .. m + n /\ i <= m
  OBVIOUS
<1>4. \A i \in 1 .. n : m + i \in 1 .. m + n /\ ~(m + i <= m) /\ (m + i) - m = i
  OBVIOUS
<1> QED
  BY <1>1, <1>2, <1>3, <1>4

LEMMA Division ==
    /\ DIGIT \in Nat \ {0} /\ LANES \in Nat \ {0} /\ LANES * DIGIT \in Nat \ {0}
    /\ \A g \in 0 .. (LANES * DIGIT) - 1 :
          g \div DIGIT \in Lane /\ g % DIGIT \in Bits /\ g = ((g \div DIGIT) * DIGIT) + (g % DIGIT)
<1>1. DIGIT \in Nat \ {0} /\ LANES \in Nat \ {0}
  BY GeometryAssumption
<1>2. PICK D, L : D = DIGIT /\ L = LANES /\ D \in Nat \ {0} /\ L \in Nat \ {0}
  BY <1>1
<1>3. L * D \in Nat \ {0}
  BY <1>2
<1>4. ASSUME NEW g \in 0 .. (L * D) - 1
      PROVE  g \div D \in 0 .. L - 1 /\ g % D \in 0 .. D - 1 /\ g = ((g \div D) * D) + (g % D)
  <2>1. g \in Nat /\ g < L * D
    BY <1>3
  <2>2. g \div D \in Nat /\ g % D \in 0 .. D - 1 /\ g = ((g \div D) * D) + (g % D)
    BY <1>2, <2>1
  <2>3. ASSUME g \div D >= L PROVE FALSE
    <3>1. (g \div D) * D >= L * D
      BY <1>2, <2>2, <2>3
    <3> QED
      BY <1>2, <1>3, <2>1, <2>2, <3>1
  <2> QED
    BY <1>2, <2>2, <2>3
<1> QED
  BY <1>2, <1>3, <1>4 DEF Lane, Bits

\* One part per lane, one word per bit.
LEMMA LanesFlat ==
    ASSUME NEW U, NEW f, f \in [1 .. LANES -> Seq(U)], \A j \in 1 .. LANES : Len(f[j]) = DIGIT
    PROVE  /\ FlattenSeq(f) \in Seq(U) /\ Len(FlattenSeq(f)) = LANES * DIGIT
           /\ \A g \in 0 .. (LANES * DIGIT) - 1 : FlattenSeq(f)[g + 1] = f[(g \div DIGIT) + 1][(g % DIGIT) + 1]
<1>1. LANES \in Nat /\ DIGIT \in Nat
  BY Division
<1>2. PICK xs, off : xs = FlattenSeq(f) /\ Joins(xs, f, LANES, U, off)
  BY <1>1, Flattened
<1>3. /\ off[0] = 0 /\ xs \in Seq(U) /\ Len(xs) = off[LANES] /\ off \in [0 .. LANES -> Nat]
      /\ \A j \in 1 .. LANES : off[j] = off[j - 1] + DIGIT
      /\ \A j \in 1 .. LANES : \A i \in 1 .. DIGIT : xs[off[j - 1] + i] = f[j][i]
  BY <1>2 DEF Joins
<1> DEFINE H == {j \in 0 .. LANES : off[j] = j * DIGIT}
<1>4. 0 \in H
  BY <1>1, <1>3
<1>5. ASSUME NEW j \in 1 .. LANES, j - 1 \in H PROVE j \in H
  <2>1. off[j] = ((j - 1) * DIGIT) + DIGIT
    BY <1>3, <1>5
  <2>2. ((j - 1) * DIGIT) + DIGIT = j * DIGIT
    BY <1>1
  <2> QED
    BY <2>1, <2>2
<1>6. \A j \in 0 .. LANES : j \in H
  <2> HIDE DEF H
  <2> QED
    BY <1>1, <1>4, <1>5, Climb
<1>7. ASSUME NEW g \in 0 .. (LANES * DIGIT) - 1
      PROVE  xs[g + 1] = f[(g \div DIGIT) + 1][(g % DIGIT) + 1]
  <2>1. PICK q, r : q = g \div DIGIT /\ r = g % DIGIT /\ q \in 0 .. LANES - 1 /\ r \in 0 .. DIGIT - 1
                    /\ g = (q * DIGIT) + r
    BY Division DEF Lane, Bits
  <2>2. q + 1 \in 1 .. LANES /\ (q + 1) - 1 = q /\ r + 1 \in 1 .. DIGIT /\ q \in 0 .. LANES
    BY <1>1, <2>1
  <2>3. xs[off[q] + (r + 1)] = f[q + 1][r + 1]
    BY <1>3, <2>2
  <2>4. PICK m \in Nat : m = q * DIGIT
    <3>1. \A a, b \in Nat : a * b \in Nat
      OBVIOUS
    <3>2. q \in Nat
      BY <1>1, <2>1
    <3> QED
      BY <1>1, <3>1, <3>2
  <2>5. off[q] = m /\ g = m + r /\ r \in Nat
    <3>1. q \in H
      BY <1>6, <2>2
    <3>2. off[q] = q * DIGIT
      BY <3>1
    <3>3. r \in Nat
      BY <1>1, <2>1
    <3> QED
      BY <2>1, <2>4, <3>2, <3>3
  <2>6. off[q] + (r + 1) = g + 1
    BY <2>5
  <2> QED
    BY <2>1, <2>3, <2>6
<1>8. off[LANES] = LANES * DIGIT
  BY <1>1, <1>6
<1> QED
  BY <1>2, <1>3, <1>7, <1>8

Codes == {"CAP_IN", "GET_IN", "PRG_NAND", "MOV", "INV_MOV", "PUSH_OUT", "RAISE"}
Targets(code) == IF code \in {"PUSH_OUT", "RAISE"} THEN Lane ELSE Cell
OpSet == {op \in [code : Codes, dest : Cell \cup Lane, from : Cell] : op.dest \in Targets(op.code)}
WordSet == [code : Codes, dest : Cell \cup Lane, from : Cell, next : Nat]

LEMMA OpType ==
    ASSUME NEW code \in Codes, NEW dest \in Targets(code), NEW from \in Cell
    PROVE  /\ Op(code, dest, from) \in OpSet
           /\ Op(code, dest, from).code = code /\ Op(code, dest, from).dest = dest /\ Op(code, dest, from).from = from
BY DEF Op, OpSet, Targets

LEMMA LaneCell ==
    ASSUME NEW l \in Lane, NEW i \in Bits
    PROVE  A(l, i).cell \in Cell /\ B(l, i).cell \in Cell /\ Sum(l, i).cell \in Cell /\ IsJmp(l).cell \in Cell
           /\ PageBase \in Cell
<1>1. Below(A(l, i), 1) /\ Below(B(l, i), 1) /\ Below(Sum(l, i), 15)
  BY BitSignals, SumSignals
<1>2. <<l, "jmp", 0, 0, 0>> \in Cell
  BY CellOfFlag
<1>3. 0 \in Lane /\ 0 \in Bits
  BY Division DEF Lane, Bits
<1>4. Below(A(0, 0), 1)
  BY <1>3, BitSignals
<1> QED
  BY <1>1, <1>2, <1>4 DEF Below, Source, IsJmp, Sig, PageBase

Slots == 0 .. (LANES * DIGIT) - 1
SlotOp(code, g) ==
    LET l == g \div DIGIT  i == g % DIGIT
    IN  IF code = "GET_IN" THEN Op("GET_IN", B(l, i).cell, A(l, i).cell) ELSE Op("PUSH_OUT", l, Sum(l, i).cell)

LEMMA InputWords ==
    /\ Upto(GetIns, LANES) \in Seq(OpSet) /\ Len(Upto(GetIns, LANES)) = LANES * DIGIT
    /\ \A g \in Slots : Upto(GetIns, LANES)[g + 1] = SlotOp("GET_IN", g)
<1>1. PICK f : f = [j \in 1 .. LANES |-> GetIns(j - 1)]
  OBVIOUS
<1>2. DIGIT \in Nat /\ LANES \in Nat /\ Lane = 0 .. LANES - 1 /\ Bits = 0 .. DIGIT - 1
  BY Division DEF Lane, Bits
<1>3. ASSUME NEW j \in 1 .. LANES PROVE f[j] \in Seq(OpSet) /\ Len(f[j]) = DIGIT
  <2>1. j - 1 \in Lane /\ f[j] = [i \in 1 .. DIGIT |-> Op("GET_IN", B(j - 1, i - 1).cell, A(j - 1, i - 1).cell)]
    BY <1>1, <1>2 DEF GetIns
  <2>2. \A i \in 1 .. DIGIT : i - 1 \in Bits
    BY <1>2
  <2>3. \A i \in 1 .. DIGIT : Op("GET_IN", B(j - 1, i - 1).cell, A(j - 1, i - 1).cell) \in OpSet
    BY <2>1, <2>2, LaneCell, OpType DEF Codes, Targets
  <2>4. f[j] \in [1 .. DIGIT -> OpSet]
    BY <2>1, <2>3
  <2>5. f[j] \in Seq(OpSet)
    BY <1>2, <2>4, IsASeq
  <2> QED
    BY <1>2, <2>4, <2>5, LenProperties
<1>4. f \in [1 .. LANES -> Seq(OpSet)]
  BY <1>1, <1>3
<1>5. Upto(GetIns, LANES) = FlattenSeq(f)
  BY <1>1 DEF Upto
<1>6. ASSUME NEW g \in Slots PROVE f[(g \div DIGIT) + 1][(g % DIGIT) + 1] = SlotOp("GET_IN", g)
  <2>1. PICK q, r : q = g \div DIGIT /\ r = g % DIGIT /\ q \in 0 .. LANES - 1 /\ r \in 0 .. DIGIT - 1
    BY Division DEF Slots, Lane, Bits
  <2>2. q + 1 \in 1 .. LANES /\ (q + 1) - 1 = q /\ r + 1 \in 1 .. DIGIT /\ (r + 1) - 1 = r
    BY <1>2, <2>1
  <2>3. f[q + 1] = GetIns(q)
    BY <1>1, <2>2
  <2>4. f[q + 1][r + 1] = Op("GET_IN", B(q, r).cell, A(q, r).cell)
    BY <2>2, <2>3 DEF GetIns
  <2> QED
    BY <2>1, <2>4 DEF SlotOp
<1>7. /\ FlattenSeq(f) \in Seq(OpSet) /\ Len(FlattenSeq(f)) = LANES * DIGIT
      /\ \A g \in Slots : FlattenSeq(f)[g + 1] = f[(g \div DIGIT) + 1][(g % DIGIT) + 1]
  BY <1>3, <1>4, LanesFlat DEF Slots
<1> QED
  BY <1>5, <1>6, <1>7, Zenon

LEMMA OutputWords ==
    /\ Upto(PushOuts, LANES) \in Seq(OpSet) /\ Len(Upto(PushOuts, LANES)) = LANES * DIGIT
    /\ \A g \in Slots : Upto(PushOuts, LANES)[g + 1] = SlotOp("PUSH_OUT", g)
<1>1. PICK f : f = [j \in 1 .. LANES |-> PushOuts(j - 1)]
  OBVIOUS
<1>2. DIGIT \in Nat /\ LANES \in Nat /\ Lane = 0 .. LANES - 1 /\ Bits = 0 .. DIGIT - 1
  BY Division DEF Lane, Bits
<1>3. ASSUME NEW j \in 1 .. LANES PROVE f[j] \in Seq(OpSet) /\ Len(f[j]) = DIGIT
  <2>1. j - 1 \in Lane /\ f[j] = [i \in 1 .. DIGIT |-> Op("PUSH_OUT", j - 1, Sum(j - 1, i - 1).cell)]
    BY <1>1, <1>2 DEF PushOuts
  <2>2. \A i \in 1 .. DIGIT : i - 1 \in Bits
    BY <1>2
  <2>3. \A i \in 1 .. DIGIT : Op("PUSH_OUT", j - 1, Sum(j - 1, i - 1).cell) \in OpSet
    BY <2>1, <2>2, LaneCell, OpType DEF Codes, Targets
  <2>4. f[j] \in [1 .. DIGIT -> OpSet]
    BY <2>1, <2>3
  <2>5. f[j] \in Seq(OpSet)
    BY <1>2, <2>4, IsASeq
  <2> QED
    BY <1>2, <2>4, <2>5, LenProperties
<1>4. f \in [1 .. LANES -> Seq(OpSet)]
  BY <1>1, <1>3
<1>5. Upto(PushOuts, LANES) = FlattenSeq(f)
  BY <1>1 DEF Upto
<1>6. ASSUME NEW g \in Slots PROVE f[(g \div DIGIT) + 1][(g % DIGIT) + 1] = SlotOp("PUSH_OUT", g)
  <2>1. PICK q, r : q = g \div DIGIT /\ r = g % DIGIT /\ q \in 0 .. LANES - 1 /\ r \in 0 .. DIGIT - 1
    BY Division DEF Slots, Lane, Bits
  <2>2. q + 1 \in 1 .. LANES /\ (q + 1) - 1 = q /\ r + 1 \in 1 .. DIGIT /\ (r + 1) - 1 = r
    BY <1>2, <2>1
  <2>3. f[q + 1] = PushOuts(q)
    BY <1>1, <2>2
  <2>4. f[q + 1][r + 1] = Op("PUSH_OUT", q, Sum(q, r).cell)
    BY <2>2, <2>3 DEF PushOuts
  <2> QED
    BY <2>1, <2>4 DEF SlotOp
<1>7. /\ FlattenSeq(f) \in Seq(OpSet) /\ Len(FlattenSeq(f)) = LANES * DIGIT
      /\ \A g \in Slots : FlattenSeq(f)[g + 1] = f[(g \div DIGIT) + 1][(g % DIGIT) + 1]
  BY <1>3, <1>4, LanesFlat DEF Slots
<1> QED
  BY <1>5, <1>6, <1>7, Zenon

LEMMA RaiseWords ==
    Raises \in Seq(OpSet) /\ Len(Raises) = LANES /\ \A l \in Lane : Raises[l + 1] = Op("RAISE", l, IsJmp(l).cell)
<1>1. LANES \in Nat /\ Lane = 0 .. LANES - 1 /\ 0 \in Bits
  BY Division DEF Lane, Bits
<1>2. ASSUME NEW j \in 1 .. LANES PROVE j - 1 \in Lane /\ Op("RAISE", j - 1, IsJmp(j - 1).cell) \in OpSet
  <2>1. j - 1 \in Lane
    BY <1>1
  <2>2. IsJmp(j - 1).cell \in Cell
    BY <1>1, <2>1, LaneCell
  <2> QED
    BY <2>1, <2>2, OpType DEF Codes, Targets
<1>3. Raises \in [1 .. LANES -> OpSet]
  BY <1>2 DEF Raises
<1>4. Raises \in Seq(OpSet)
  BY <1>1, <1>3, IsASeq
<1>5. Len(Raises) = LANES
  BY <1>1, <1>3, <1>4, LenProperties
<1>6. \A l \in Lane : l + 1 \in 1 .. LANES /\ (l + 1) - 1 = l
  BY <1>1
<1> QED
  BY <1>4, <1>5, <1>6 DEF Raises

\* The words of the steps after the first, one step after the other.
StepParts == [s \in 1 .. LastStep - 1 |-> StepOps(Plan, CellOrder, s + 1)]
Middle == FlattenSeq(StepParts)

\* Word numbers: InputEnd programs the inputs, the steps end at StepsEnd.
InputEnd == 2 + (LANES * DIGIT)
StepsEnd == InputEnd + Len(Middle)

LEMMA WriteType == ASSUME NEW s, NEW x \in WritesAt(s) PROVE x \in OpSet /\ x.code \in {"MOV", "INV_MOV"}
<1>1. PICK c \in Cell : x \in WritesOf(c, s)
  BY DEF WritesAt
<1>2. PICK k \in DOMAIN Plan[c].writes : x = WriteOp(c, Plan[c].writes[k])
  BY <1>1 DEF WritesOf
<1>3. Plan[c].writes[k].src.cell \in Cell
  BY WriteOf
<1>4. PICK code \in {"MOV", "INV_MOV"} : x = Op(code, c, Plan[c].writes[k].src.cell)
  BY <1>2 DEF WriteOp
<1>5. code \in Codes
  BY DEF Codes
<1> QED
  BY <1>3, <1>4, <1>5, OpType DEF Targets

LEMMA PRGType == PRG \in OpSet /\ PRG.code = "PRG_NAND"
<1>1. 0 \in Lane /\ 0 \in Bits
  BY Division DEF Lane, Bits
<1> QED
  BY <1>1, LaneCell, OpType DEF PRG, Codes, Targets

LEMMA StepSplit ==
    ASSUME NEW s
    PROVE  \E xs, n : /\ n \in Nat /\ Lists(xs, WritesAt(s)) /\ Len(xs) = n
                      /\ StepOps(Plan, CellOrder, s) \in Seq(OpSet) /\ Len(StepOps(Plan, CellOrder, s)) = n + 1
                      /\ \A i \in 1 .. n : StepOps(Plan, CellOrder, s)[i] = xs[i]
                      /\ StepOps(Plan, CellOrder, s)[n + 1] = PRG
<1>1. PICK xs : Lists(xs, WritesAt(s)) /\ StepOps(Plan, CellOrder, s) = xs \o <<PRG>>
  BY StepWords
<1>2. xs \in Seq(WritesAt(s)) /\ WritesAt(s) \subseteq OpSet
  BY <1>1, WriteType DEF Lists
<1>3. xs \in Seq(OpSet)
  BY <1>2
<1>4. <<PRG>> \in Seq(OpSet) /\ Len(<<PRG>>) = 1 /\ <<PRG>>[1] = PRG
  BY PRGType
<1>5. PICK zs : zs = StepOps(Plan, CellOrder, s) /\ zs = xs \o <<PRG>>
  BY <1>1
<1>6. /\ zs \in Seq(OpSet) /\ Len(xs) \in Nat /\ Len(zs) = Len(xs) + 1
      /\ \A i \in 1 .. Len(xs) : zs[i] = xs[i]
      /\ \A i \in 1 .. 1 : zs[Len(xs) + i] = <<PRG>>[i]
  BY <1>3, <1>4, <1>5, Halves
<1>7. 1 \in 1 .. 1
  OBVIOUS
<1>8. zs[Len(xs) + 1] = PRG
  BY <1>4, <1>6, <1>7
<1> QED
  BY <1>1, <1>4, <1>5, <1>6, <1>8

LEMMA MiddleJoins ==
    /\ LastStep - 1 \in Nat /\ Middle \in Seq(OpSet) /\ Len(Middle) \in Nat
    /\ \E off : Joins(Middle, StepParts, LastStep - 1, OpSet, off)
<1>1. LastStep - 1 \in Nat
  BY LastStepIs
<1>2. \A s \in 1 .. LastStep - 1 : StepOps(Plan, CellOrder, s + 1) \in Seq(OpSet)
  BY StepSplit
<1>3. StepParts \in [1 .. LastStep - 1 -> Seq(OpSet)]
  BY <1>2 DEF StepParts
<1>4. \E off : Joins(Middle, StepParts, LastStep - 1, OpSet, off)
  BY <1>1, <1>3, Flattened DEF Middle
<1>5. Middle \in Seq(OpSet)
  BY <1>4 DEF Joins
<1> QED
  BY <1>1, <1>4, <1>5, LenProperties

LEMMA OpsLayout ==
    ASSUME NEW ops, ops = RoundOps(Schedule, CellOrder)
    PROVE
        /\ ops \in Seq(OpSet) /\ Len(ops) = StepsEnd + (LANES * DIGIT) + LANES
        /\ ops[1].code = "CAP_IN" /\ ops[InputEnd] = PRG
        /\ \A g \in Slots : ops[2 + g] = SlotOp("GET_IN", g)
        /\ \A x \in 1 .. Len(Middle) : ops[InputEnd + x] = Middle[x]
        /\ \A g \in Slots : ops[StepsEnd + 1 + g] = SlotOp("PUSH_OUT", g)
        /\ \A l \in Lane : ops[StepsEnd + (LANES * DIGIT) + 1 + l] = Op("RAISE", l, IsJmp(l).cell)
<1>1. PICK cap, gets, prg, mid, puts, raises :
          /\ cap = <<Op("CAP_IN", PageBase, PageBase)>> /\ gets = Upto(GetIns, LANES) /\ prg = <<PRG>>
          /\ mid = Middle /\ puts = Upto(PushOuts, LANES) /\ raises = Raises
  OBVIOUS
<1>2. RoundOps(Schedule, CellOrder) = ((((cap \o gets) \o prg) \o mid) \o puts) \o raises
  <2>1. Program = prg
    BY <1>1 DEF Program, PRG
  <2>2. FlattenSeq([s \in 1 .. Depth(Schedule) - 1 |-> StepOps(Schedule, CellOrder, s + 1)]) = mid
    BY <1>1 DEF Middle, StepParts, LastStep, Plan
  <2> QED
    BY <1>1, <2>1, <2>2, Zenon DEF RoundOps
<1>3. PICK N \in Nat \ {0}, L \in Nat \ {0}, M \in Nat :
          /\ N = LANES * DIGIT /\ L = LANES /\ M = Len(Middle) /\ InputEnd = 2 + N /\ StepsEnd = 2 + N + M
          /\ Slots = 0 .. N - 1 /\ Lane = 0 .. L - 1
  BY Division, MiddleJoins DEF InputEnd, StepsEnd, Slots, Lane
<1>4. /\ cap \in Seq(OpSet) /\ Len(cap) = 1 /\ cap[1].code = "CAP_IN"
      /\ prg \in Seq(OpSet) /\ Len(prg) = 1 /\ prg[1] = PRG
  <2>1. 0 \in Lane /\ 0 \in Bits
    BY Division DEF Lane, Bits
  <2>2. Op("CAP_IN", PageBase, PageBase) \in OpSet /\ Op("CAP_IN", PageBase, PageBase).code = "CAP_IN"
    BY <2>1, LaneCell, OpType DEF Codes, Targets
  <2> QED
    BY <1>1, <2>2, PRGType
<1>5. /\ gets \in Seq(OpSet) /\ Len(gets) = N /\ \A g \in 0 .. N - 1 : gets[g + 1] = SlotOp("GET_IN", g)
      /\ puts \in Seq(OpSet) /\ Len(puts) = N /\ \A g \in 0 .. N - 1 : puts[g + 1] = SlotOp("PUSH_OUT", g)
      /\ raises \in Seq(OpSet) /\ Len(raises) = L /\ \A l \in 0 .. L - 1 : raises[l + 1] = Op("RAISE", l, IsJmp(l).cell)
      /\ mid \in Seq(OpSet) /\ Len(mid) = M
  BY <1>1, <1>3, InputWords, OutputWords, RaiseWords, MiddleJoins, Zenon
<1>6. PICK y1, y2, y3, y4, y5 : /\ y1 = cap \o gets /\ y2 = y1 \o prg /\ y3 = y2 \o mid
                                /\ y4 = y3 \o puts /\ y5 = y4 \o raises
  OBVIOUS
<1>7. /\ y1 \in Seq(OpSet) /\ Len(y1) = 1 + N /\ (\A i \in 1 .. 1 : y1[i] = cap[i])
      /\ \A i \in 1 .. N : y1[(1) + i] = gets[i]
  <2>1. cap \in Seq(OpSet) /\ gets \in Seq(OpSet) /\ y1 = cap \o gets
    BY <1>4, <1>5, <1>6
  <2>3. Len(cap) = 1 /\ Len(gets) = N
    BY <1>4, <1>5, <1>6
  <2>2. /\ y1 \in Seq(OpSet) /\ Len(y1) = Len(cap) + Len(gets) /\ (\A i \in 1 .. Len(cap) : y1[i] = cap[i])
        /\ \A i \in 1 .. Len(gets) : y1[Len(cap) + i] = gets[i]
    BY <2>1, Halves
  <2> QED
    BY <2>2, <2>3
<1>8. /\ y2 \in Seq(OpSet) /\ Len(y2) = 2 + N /\ (\A i \in 1 .. 1 + N : y2[i] = y1[i])
      /\ \A i \in 1 .. 1 : y2[(1 + N) + i] = prg[i]
  <2>1. y1 \in Seq(OpSet) /\ prg \in Seq(OpSet) /\ y2 = y1 \o prg
    BY <1>4, <1>6, <1>7
  <2>3. Len(y1) = 1 + N /\ Len(prg) = 1
    BY <1>4, <1>6, <1>7
  <2>2. /\ y2 \in Seq(OpSet) /\ Len(y2) = Len(y1) + Len(prg) /\ (\A i \in 1 .. Len(y1) : y2[i] = y1[i])
        /\ \A i \in 1 .. Len(prg) : y2[Len(y1) + i] = prg[i]
    BY <2>1, Halves
  <2> QED
    BY <2>2, <2>3
<1>9. /\ y3 \in Seq(OpSet) /\ Len(y3) = 2 + N + M /\ (\A i \in 1 .. 2 + N : y3[i] = y2[i])
      /\ \A i \in 1 .. M : y3[(2 + N) + i] = mid[i]
  <2>1. y2 \in Seq(OpSet) /\ mid \in Seq(OpSet) /\ y3 = y2 \o mid
    BY <1>5, <1>6, <1>8
  <2>3. Len(y2) = 2 + N /\ Len(mid) = M
    BY <1>5, <1>6, <1>8
  <2>2. /\ y3 \in Seq(OpSet) /\ Len(y3) = Len(y2) + Len(mid) /\ (\A i \in 1 .. Len(y2) : y3[i] = y2[i])
        /\ \A i \in 1 .. Len(mid) : y3[Len(y2) + i] = mid[i]
    BY <2>1, Halves
  <2> QED
    BY <2>2, <2>3
<1>10. /\ y4 \in Seq(OpSet) /\ Len(y4) = 2 + N + M + N /\ (\A i \in 1 .. 2 + N + M : y4[i] = y3[i])
      /\ \A i \in 1 .. N : y4[(2 + N + M) + i] = puts[i]
  <2>1. y3 \in Seq(OpSet) /\ puts \in Seq(OpSet) /\ y4 = y3 \o puts
    BY <1>5, <1>6, <1>9
  <2>3. Len(y3) = 2 + N + M /\ Len(puts) = N
    BY <1>5, <1>6, <1>9
  <2>2. /\ y4 \in Seq(OpSet) /\ Len(y4) = Len(y3) + Len(puts) /\ (\A i \in 1 .. Len(y3) : y4[i] = y3[i])
        /\ \A i \in 1 .. Len(puts) : y4[Len(y3) + i] = puts[i]
    BY <2>1, Halves
  <2> QED
    BY <2>2, <2>3
<1>11. /\ y5 \in Seq(OpSet) /\ Len(y5) = 2 + N + M + N + L /\ (\A i \in 1 .. 2 + N + M + N : y5[i] = y4[i])
      /\ \A i \in 1 .. L : y5[(2 + N + M + N) + i] = raises[i]
  <2>1. y4 \in Seq(OpSet) /\ raises \in Seq(OpSet) /\ y5 = y4 \o raises
    BY <1>5, <1>6, <1>10
  <2>3. Len(y4) = 2 + N + M + N /\ Len(raises) = L
    BY <1>5, <1>6, <1>10
  <2>2. /\ y5 \in Seq(OpSet) /\ Len(y5) = Len(y4) + Len(raises) /\ (\A i \in 1 .. Len(y4) : y5[i] = y4[i])
        /\ \A i \in 1 .. Len(raises) : y5[Len(y4) + i] = raises[i]
    BY <2>1, Halves
  <2> QED
    BY <2>2, <2>3
<1>18. y2[2 + N] = PRG
  <2>1. (1 + N) + 1 = 2 + N /\ 1 \in 1 .. 1
    OBVIOUS
  <2> QED
    BY <1>4, <1>8, <2>1
<1>12. y5[1].code = "CAP_IN" /\ y5[2 + N] = PRG
  <2>1. 1 \in 1 .. 1 /\ 1 \in 1 .. 1 + N /\ 1 \in 1 .. 2 + N /\ 1 \in 1 .. 2 + N + M /\ 1 \in 1 .. 2 + N + M + N
    OBVIOUS
  <2>2. 2 + N \in 1 .. 2 + N /\ 2 + N \in 1 .. 2 + N + M /\ 2 + N \in 1 .. 2 + N + M + N
    OBVIOUS
  <2>3. y5[1] = y4[1] /\ y4[1] = y3[1] /\ y3[1] = y2[1] /\ y2[1] = y1[1] /\ y1[1] = cap[1]
    BY <1>7, <1>8, <1>9, <1>10, <1>11, <2>1
  <2>4. y5[2 + N] = y4[2 + N] /\ y4[2 + N] = y3[2 + N] /\ y3[2 + N] = y2[2 + N]
    BY <1>9, <1>10, <1>11, <2>2
  <2> QED
    BY <1>4, <1>18, <2>3, <2>4
<1>13. ASSUME NEW g \in 0 .. N - 1 PROVE y5[2 + g] = SlotOp("GET_IN", g)
  <2>1. PICK j \in 1 .. N : j = g + 1 /\ 2 + g = 1 + j /\ 1 + j \in 1 .. 1 + N /\ 1 + j \in 1 .. 2 + N
        /\ 1 + j \in 1 .. 2 + N + M /\ 1 + j \in 1 .. 2 + N + M + N
    OBVIOUS
  <2>2. y5[1 + j] = y4[1 + j] /\ y4[1 + j] = y3[1 + j] /\ y3[1 + j] = y2[1 + j] /\ y2[1 + j] = y1[1 + j]
    BY <1>8, <1>9, <1>10, <1>11, <2>1
  <2>3. y1[1 + j] = gets[j]
    BY <1>7
  <2>4. gets[j] = SlotOp("GET_IN", g)
    BY <1>5, <2>1
  <2> QED
    BY <2>1, <2>2, <2>3, <2>4
<1>14. ASSUME NEW x \in 1 .. M PROVE y5[2 + N + x] = Middle[x]
  <2>1. 2 + N + x \in 1 .. 2 + N + M /\ 2 + N + x \in 1 .. 2 + N + M + N
    OBVIOUS
  <2>2. y5[2 + N + x] = y4[2 + N + x] /\ y4[2 + N + x] = y3[2 + N + x] /\ y3[2 + N + x] = mid[x]
    BY <1>9, <1>10, <1>11, <2>1
  <2> QED
    BY <1>1, <2>2
<1>15. ASSUME NEW g \in 0 .. N - 1 PROVE y5[2 + N + M + 1 + g] = SlotOp("PUSH_OUT", g)
  <2>1. PICK j \in 1 .. N : j = g + 1 /\ 2 + N + M + j = 2 + N + M + 1 + g /\ 2 + N + M + j \in 1 .. 2 + N + M + N
    OBVIOUS
  <2>2. y4[2 + N + M + j] = puts[j] /\ y5[2 + N + M + j] = y4[2 + N + M + j]
    BY <1>10, <1>11, <2>1
  <2>3. puts[j] = SlotOp("PUSH_OUT", g)
    BY <1>5, <2>1
  <2> QED
    BY <2>1, <2>2, <2>3
<1>16. ASSUME NEW l \in 0 .. L - 1 PROVE y5[2 + N + M + N + 1 + l] = Op("RAISE", l, IsJmp(l).cell)
  <2>1. PICK j \in 1 .. L : j = l + 1 /\ 2 + N + M + N + j = 2 + N + M + N + 1 + l
    OBVIOUS
  <2>2. y5[2 + N + M + N + j] = raises[j]
    BY <1>11
  <2>3. raises[j] = Op("RAISE", l, IsJmp(l).cell)
    BY <1>5, <2>1
  <2> QED
    BY <2>1, <2>2, <2>3
<1>17. y5 = RoundOps(Schedule, CellOrder)
  BY <1>2, <1>6, Zenon
<1> QED
  BY <1>3, <1>12, <1>13, <1>14, <1>15, <1>16, <1>17, <1>11

Same(w, op) == w.code = op.code /\ w.dest = op.dest /\ w.from = op.from

\* Where the words of a round are: CAP_IN, the operands and their program
\* operation, the steps, then what is read out lane by lane.
LEMMA ImageLayout ==
    /\ Len(Image) = StepsEnd + (LANES * DIGIT) + LANES
    /\ StepsEnd \in Nat /\ InputEnd \in Nat /\ InputEnd <= StepsEnd
    /\ Image \in Seq(WordSet)
    /\ \A i \in 1 .. Len(Image) : Image[i].next = i % Len(Image) /\ Image[i].code \in Codes
                                  /\ Image[i].dest \in Targets(Image[i].code) /\ Image[i].from \in Cell
    /\ Image[1].code = "CAP_IN" /\ Same(Image[InputEnd], PRG)
    /\ \A g \in Slots : Same(Image[2 + g], SlotOp("GET_IN", g))
    /\ \A x \in 1 .. Len(Middle) : Same(Image[InputEnd + x], Middle[x])
    /\ \A g \in Slots : Same(Image[StepsEnd + 1 + g], SlotOp("PUSH_OUT", g))
    /\ \A l \in Lane : Same(Image[StepsEnd + (LANES * DIGIT) + 1 + l], Op("RAISE", l, IsJmp(l).cell))
<1>1. PICK ops, n : ops = RoundOps(Schedule, CellOrder) /\ n = Len(ops)
  OBVIOUS
<1>2. PICK N \in Nat \ {0}, L \in Nat \ {0}, M \in Nat :
          /\ N = LANES * DIGIT /\ L = LANES /\ M = Len(Middle) /\ InputEnd = 2 + N /\ StepsEnd = 2 + N + M
          /\ Slots = 0 .. N - 1 /\ Lane = 0 .. L - 1
  BY Division, MiddleJoins DEF InputEnd, StepsEnd, Slots, Lane
<1>3. /\ ops \in Seq(OpSet) /\ n = StepsEnd + N + L /\ n \in Nat
      /\ ops[1].code = "CAP_IN" /\ ops[InputEnd] = PRG
      /\ \A g \in Slots : ops[2 + g] = SlotOp("GET_IN", g)
      /\ \A x \in 1 .. M : ops[InputEnd + x] = Middle[x]
      /\ \A g \in Slots : ops[StepsEnd + 1 + g] = SlotOp("PUSH_OUT", g)
      /\ \A l \in Lane : ops[StepsEnd + N + 1 + l] = Op("RAISE", l, IsJmp(l).cell)
  <2>1. Len(ops) = StepsEnd + (LANES * DIGIT) + LANES
    BY <1>1, OpsLayout
  <2>2. n = StepsEnd + N + L /\ n \in Nat
    BY <1>1, <1>2, <2>1
  <2>3. /\ ops \in Seq(OpSet) /\ ops[1].code = "CAP_IN" /\ ops[InputEnd] = PRG
        /\ \A g \in Slots : ops[2 + g] = SlotOp("GET_IN", g)
        /\ \A x \in 1 .. Len(Middle) : ops[InputEnd + x] = Middle[x]
        /\ \A g \in Slots : ops[StepsEnd + 1 + g] = SlotOp("PUSH_OUT", g)
        /\ \A l \in Lane : ops[StepsEnd + (LANES * DIGIT) + 1 + l] = Op("RAISE", l, IsJmp(l).cell)
    BY <1>1, OpsLayout, Zenon
  <2>4. M = Len(Middle) /\ N = LANES * DIGIT
    BY <1>2
  <2>5. \A x \in 1 .. M : ops[InputEnd + x] = Middle[x]
    BY <2>3, <2>4, Zenon
  <2>6. \A l \in Lane : ops[StepsEnd + N + 1 + l] = Op("RAISE", l, IsJmp(l).cell)
    BY <2>3, <2>4, Zenon
  <2> QED
    BY <2>2, <2>3, <2>5, <2>6, SMT
<1>4. DOMAIN ops = 1 .. n /\ \A i \in 1 .. n : ops[i] \in OpSet
  <2>1. DOMAIN ops = 1 .. Len(ops) /\ \A i \in 1 .. Len(ops) : ops[i] \in OpSet
    BY <1>3, LenProperties
  <2> QED
    BY <1>1, <2>1, Zenon
<1>5. PICK im : im = Image /\ im = [i \in 1 .. n |-> [code |-> ops[i].code, dest |-> ops[i].dest,
                                                     from |-> ops[i].from, next |-> i % n]]
  BY <1>1, <1>4 DEF Image, Linked
<1>6. \A i \in 1 .. n : /\ Same(im[i], ops[i]) /\ im[i].next = i % n /\ im[i].code \in Codes
                        /\ im[i].dest \in Targets(im[i].code) /\ im[i].from \in Cell /\ im[i] \in WordSet
  <2> TAKE i \in 1 .. n
  <2>1. im[i] = [code |-> ops[i].code, dest |-> ops[i].dest, from |-> ops[i].from, next |-> i % n]
    BY <1>5
  <2>2. /\ ops[i].code \in Codes /\ ops[i].dest \in Cell \cup Lane /\ ops[i].from \in Cell
        /\ ops[i].dest \in Targets(ops[i].code)
    BY <1>4 DEF OpSet
  <2>3. i % n \in Nat
    BY <1>3
  <2> QED
    BY <2>1, <2>2, <2>3 DEF Same, WordSet
<1>7. Len(im) = n /\ im \in Seq(WordSet)
  <2>2. im \in [1 .. n -> WordSet]
    BY <1>5, <1>6
  <2>3. im \in Seq(WordSet)
    BY <1>3, <2>2, IsASeq
  <2> QED
    BY <1>3, <2>2, <2>3, LenProperties
<1>8. /\ 1 \in 1 .. n /\ InputEnd \in 1 .. n
      /\ \A g \in Slots : 2 + g \in 1 .. n /\ StepsEnd + 1 + g \in 1 .. n
      /\ \A x \in 1 .. M : InputEnd + x \in 1 .. n
      /\ \A l \in Lane : StepsEnd + N + 1 + l \in 1 .. n
  <2>1. PICK F, E : F = InputEnd /\ E = StepsEnd /\ F = 2 + N /\ E = 2 + N + M /\ n = E + N + L
    BY <1>2, <1>3
  <2>2. 1 \in 1 .. n /\ F \in 1 .. n
    BY <2>1
  <2>3. \A g \in 0 .. N - 1 : 2 + g \in 1 .. n /\ E + 1 + g \in 1 .. n
    BY <2>1
  <2>4. \A x \in 1 .. M : F + x \in 1 .. n
    BY <2>1
  <2>5. \A l \in 0 .. L - 1 : E + N + 1 + l \in 1 .. n
    BY <2>1
  <2>6. \A g \in Slots : 2 + g \in 1 .. n /\ StepsEnd + 1 + g \in 1 .. n
    BY <1>2, <2>1, <2>3
  <2>7. \A x \in 1 .. M : InputEnd + x \in 1 .. n
    BY <2>1, <2>4
  <2>8. \A l \in Lane : StepsEnd + N + 1 + l \in 1 .. n
    BY <1>2, <2>1, <2>5
  <2>9. 1 \in 1 .. n /\ InputEnd \in 1 .. n
    BY <2>1, <2>2
  <2> QED
    BY <2>6, <2>7, <2>8, <2>9, Zenon
<1>9. StepsEnd \in Nat /\ InputEnd \in Nat /\ InputEnd <= StepsEnd
  <2>1. 2 + N \in Nat /\ 2 + N + M \in Nat /\ 2 + N <= 2 + N + M
    OBVIOUS
  <2> QED
    BY <1>2, <2>1
<1>10. /\ im[1].code = "CAP_IN" /\ Same(im[InputEnd], PRG)
       /\ \A g \in Slots : Same(im[2 + g], SlotOp("GET_IN", g))
       /\ \A x \in 1 .. M : Same(im[InputEnd + x], Middle[x])
       /\ \A g \in Slots : Same(im[StepsEnd + 1 + g], SlotOp("PUSH_OUT", g))
       /\ \A l \in Lane : Same(im[StepsEnd + N + 1 + l], Op("RAISE", l, IsJmp(l).cell))
  <2>1. ASSUME NEW i \in 1 .. n, NEW op, ops[i] = op PROVE Same(im[i], op)
    BY <1>6, <2>1
  <2>2. im[1].code = "CAP_IN"
    BY <1>3, <1>6, <1>8 DEF Same
  <2> QED
    BY <1>3, <1>8, <2>1, <2>2, Zenon
<1> QED
  BY <1>2, <1>3, <1>5, <1>6, <1>7, <1>9, <1>10

\* How many program operations the first r words are.
StepsDone(r) == Cardinality({k \in 1 .. r : Image[k].code = "PRG_NAND"})

LEMMA DoneFirst == StepsDone(0) = 0
<1>1. {k \in 1 .. 0 : Image[k].code = "PRG_NAND"} = {}
  OBVIOUS
<1> QED
  BY <1>1, FS_EmptySet DEF StepsDone

LEMMA DoneNext ==
    ASSUME NEW r \in Nat
    PROVE  /\ StepsDone(r) \in Nat
           /\ Image[r + 1].code = "PRG_NAND" => StepsDone(r + 1) = StepsDone(r) + 1
           /\ Image[r + 1].code # "PRG_NAND" => StepsDone(r + 1) = StepsDone(r)
<1>1. PICK Y, U : /\ Y = {k \in 1 .. r : Image[k].code = "PRG_NAND"}
                  /\ U = {k \in 1 .. r + 1 : Image[k].code = "PRG_NAND"}
  OBVIOUS
<1>2. IsFiniteSet(Y) /\ r + 1 \notin Y
  <2>1. IsFiniteSet(1 .. r)
    BY FS_Interval
  <2>2. Y \subseteq 1 .. r
    BY <1>1
  <2> QED
    BY <1>1, <2>1, <2>2, FS_Subset
<1>3. Cardinality(Y) \in Nat /\ Cardinality(Y \cup {r + 1}) = Cardinality(Y) + 1
  BY <1>2, FS_CardinalityType, FS_AddElement
<1>4. Image[r + 1].code = "PRG_NAND" => U = Y \cup {r + 1}
  BY <1>1
<1>5. Image[r + 1].code # "PRG_NAND" => U = Y
  BY <1>1
<1> QED
  BY <1>1, <1>3, <1>4, <1>5 DEF StepsDone

\* Words that program nothing.
LEMMA DoneStays ==
    ASSUME NEW r \in Nat, NEW n \in Nat, \A k \in 1 .. n : Image[r + k].code # "PRG_NAND"
    PROVE  \A k \in 0 .. n : StepsDone(r + k) = StepsDone(r)
<1> DEFINE H == {k \in 0 .. n : StepsDone(r + k) = StepsDone(r)}
<1>1. 0 \in H
  BY DoneNext
<1>2. ASSUME NEW k \in 1 .. n, k - 1 \in H PROVE k \in H
  <2>1. PICK m \in Nat : m = r + (k - 1) /\ m + 1 = r + k
    OBVIOUS
  <2>2. StepsDone(m + 1) = StepsDone(m)
    BY <2>1, DoneNext
  <2> QED
    BY <1>2, <2>1, <2>2
<1>3. \A k \in 0 .. n : k \in H
  <2> HIDE DEF H
  <2> QED
    BY <1>1, <1>2, Climb
<1> QED
  BY <1>3

LEMMA DoneInputs == (\A r \in 0 .. InputEnd - 1 : StepsDone(r) = 0) /\ StepsDone(InputEnd) = 1 /\ InputEnd \in Nat \ {0}
<1>1. PICK N \in Nat \ {0}, F \in Nat : N = LANES * DIGIT /\ F = 1 + N /\ InputEnd = F + 1 /\ Slots = 0 .. N - 1
  BY Division DEF InputEnd, Slots
<1>2. ASSUME NEW k \in 1 .. F PROVE Image[0 + k].code # "PRG_NAND"
  <2>1. CASE k = 1
    BY <2>1, ImageLayout
  <2>2. CASE k # 1
    <3>1. PICK g \in Slots : k = 2 + g
      <4>1. k - 2 \in 0 .. N - 1 /\ k = 2 + (k - 2)
        BY <1>1, <2>2
      <4> QED
        BY <1>1, <4>1
    <3>2. Image[k].code = "GET_IN"
      <4>1. Image[2 + g].code = SlotOp("GET_IN", g).code
        BY ImageLayout DEF Same
      <4> QED
        BY <3>1, <4>1 DEF SlotOp, Op
    <3> QED
      BY <3>2
  <2> QED
    BY <2>1, <2>2
<1>3. \A k \in 0 .. F : StepsDone(0 + k) = StepsDone(0)
  BY <1>2, DoneStays
<1>4. \A k \in 0 .. F : StepsDone(k) = 0
  BY <1>3, DoneFirst
<1>5. Image[F + 1].code = "PRG_NAND"
  BY <1>1, ImageLayout, PRGType DEF Same
<1>6. StepsDone(F) = 0 /\ StepsDone(F + 1) = 1
  <2>1. F \in 0 .. F /\ 0 + 1 = 1
    OBVIOUS
  <2>2. StepsDone(F) = 0
    BY <1>4, <2>1
  <2>3. StepsDone(F + 1) = StepsDone(F) + 1
    BY <1>5, DoneNext
  <2> QED
    BY <2>1, <2>2, <2>3
<1>7. InputEnd - 1 = F
  BY <1>1
<1> QED
  BY <1>1, <1>4, <1>6, <1>7

\* Part j of the middle holds the words of step j + 1; n of them are writes.
IsPart(r, n, j) ==
    /\ \A i \in 1 .. n : \E x \in WritesAt(j + 1) : Same(Image[r + i], x)
    /\ \A x \in WritesAt(j + 1) : \E i \in 1 .. n : Same(Image[r + i], x)
    /\ Same(Image[r + n + 1], PRG)

LEMMA PartWords ==
    ASSUME NEW off, Joins(Middle, StepParts, LastStep - 1, OpSet, off), NEW j \in 1 .. LastStep - 1
    PROVE  \E r \in Nat, n \in Nat : /\ InputEnd + off[j - 1] = r /\ InputEnd + off[j] = r + n + 1
                                     /\ Len(StepParts[j]) = n + 1 /\ IsPart(r, n, j)
<1>1. LastStep - 1 \in Nat /\ j - 1 \in 0 .. LastStep - 1 /\ j \in 0 .. LastStep - 1
  BY MiddleJoins
<1>2. PICK xs, n : /\ n \in Nat /\ Lists(xs, WritesAt(j + 1)) /\ Len(xs) = n
                   /\ Len(StepOps(Plan, CellOrder, j + 1)) = n + 1
                   /\ \A i \in 1 .. n : StepOps(Plan, CellOrder, j + 1)[i] = xs[i]
                   /\ StepOps(Plan, CellOrder, j + 1)[n + 1] = PRG
  BY StepSplit
<1>3. PICK part : part = StepParts[j] /\ part = StepOps(Plan, CellOrder, j + 1)
  BY DEF StepParts
<1>4. Len(part) = n + 1 /\ (\A i \in 1 .. n : part[i] = xs[i]) /\ part[n + 1] = PRG
  BY <1>2, <1>3
<1>5. PICK b \in Nat, e \in Nat, F \in Nat : b = off[j - 1] /\ e = off[j] /\ F = InputEnd
  BY <1>1, ImageLayout DEF Joins
<1>6. /\ e = b + Len(part)
      /\ \A i \in 1 .. Len(part) : b + i \in 1 .. Len(Middle) /\ Middle[b + i] = part[i]
  BY <1>3, <1>5 DEF Joins
<1>7. e = b + (n + 1)
  BY <1>4, <1>6
<1>8. PICK r \in Nat : r = F + b
  OBVIOUS
<1>9. F + e = r + n + 1
  BY <1>2, <1>7, <1>8
<1>10. ASSUME NEW i \in 1 .. n + 1 PROVE Same(Image[r + i], part[i])
  <2>1. b + i \in 1 .. Len(Middle) /\ Middle[b + i] = part[i]
    BY <1>4, <1>6
  <2>2. Same(Image[F + (b + i)], part[i])
    BY <1>5, <2>1, ImageLayout
  <2>3. F + (b + i) = r + i
    BY <1>2, <1>8
  <2> QED
    BY <2>2, <2>3
<1>11. ASSUME NEW i \in 1 .. n PROVE Same(Image[r + i], xs[i]) /\ xs[i] \in WritesAt(j + 1)
  <2>1. i \in 1 .. n + 1
    BY <1>2
  <2> QED
    BY <1>2, <1>4, <1>10, <2>1 DEF Lists
<1>12. Same(Image[r + n + 1], PRG)
  <2>1. n + 1 \in 1 .. n + 1 /\ r + (n + 1) = r + n + 1
    BY <1>2
  <2> QED
    BY <1>4, <1>10, <2>1
<1>13. ASSUME NEW x \in WritesAt(j + 1) PROVE \E i \in 1 .. n : Same(Image[r + i], x)
  <2>1. PICK i \in 1 .. n : xs[i] = x
    BY <1>2 DEF Lists
  <2> QED
    BY <1>11, <2>1
<1>14. IsPart(r, n, j)
  BY <1>11, <1>12, <1>13 DEF IsPart
<1>15. Len(StepParts[j]) = n + 1
  BY <1>3, <1>4
<1> QED
  BY <1>2, <1>5, <1>8, <1>9, <1>14, <1>15

LEMMA PartQuiet ==
    ASSUME NEW r \in Nat, NEW n \in Nat, IsPart(r, n, StepsDone(r))
    PROVE  (\A k \in 0 .. n : StepsDone(r + k) = StepsDone(r)) /\ StepsDone(r + n + 1) = StepsDone(r) + 1
<1>1. \A k \in 1 .. n : Image[r + k].code # "PRG_NAND"
  BY WriteType DEF IsPart, Same
<1>2. \A k \in 0 .. n : StepsDone(r + k) = StepsDone(r)
  BY <1>1, DoneStays
<1>3. PICK m \in Nat : m = r + n
  OBVIOUS
<1>4. Image[m + 1].code = "PRG_NAND"
  BY <1>3, PRGType DEF IsPart, Same
<1>5. StepsDone(m + 1) = StepsDone(m) + 1
  BY <1>4, DoneNext
<1> QED
  BY <1>2, <1>3, <1>5

\* The words of a part are those after as many program operations as its number.
LEMMA PartDone ==
    ASSUME NEW off, Joins(Middle, StepParts, LastStep - 1, OpSet, off)
    PROVE  \A j \in 0 .. LastStep - 1 : StepsDone(InputEnd + off[j]) = j + 1
<1> DEFINE H == {j \in 0 .. LastStep - 1 : StepsDone(InputEnd + off[j]) = j + 1}
<1>1. LastStep - 1 \in Nat /\ InputEnd \in Nat
  BY MiddleJoins, ImageLayout
<1>2. 0 \in H
  <2>1. off[0] = 0 /\ InputEnd + 0 = InputEnd /\ 0 \in 0 .. LastStep - 1
    BY <1>1 DEF Joins
  <2>2. StepsDone(InputEnd) = 1
    BY DoneInputs
  <2>3. StepsDone(InputEnd + off[0]) = 0 + 1
    BY <2>1, <2>2
  <2> QED
    BY <2>1, <2>3
<1>3. ASSUME NEW j \in 1 .. LastStep - 1, j - 1 \in H PROVE j \in H
  <2>1. PICK r \in Nat, n \in Nat : /\ InputEnd + off[j - 1] = r /\ InputEnd + off[j] = r + n + 1 /\ IsPart(r, n, j)
    BY PartWords
  <2>2. StepsDone(r) = j
    <3>1. StepsDone(InputEnd + off[j - 1]) = (j - 1) + 1
      BY <1>3
    <3> QED
      BY <2>1, <3>1
  <2>3. IsPart(r, n, StepsDone(r))
    BY <2>1, <2>2
  <2>4. StepsDone(r + n + 1) = StepsDone(r) + 1
    BY <2>3, PartQuiet
  <2> QED
    BY <2>1, <2>2, <2>4
<1>4. \A j \in 0 .. LastStep - 1 : j \in H
  <2> HIDE DEF H
  <2> QED
    BY <1>1, <1>2, <1>3, Climb
<1> QED
  BY <1>4

\* A word between the inputs and the outputs writes one signal of the next step
\* or programs that step, which has been written completely.
LEMMA MiddleWord ==
    ASSUME NEW p \in InputEnd + 1 .. StepsEnd
    PROVE  /\ StepsDone(p - 1) \in 1 .. LastStep - 1
           /\ \/ /\ Same(Image[p], PRG) /\ StepsDone(p) = StepsDone(p - 1) + 1
                 /\ \A x \in WritesAt(StepsDone(p - 1) + 1) :
                       \E q \in InputEnd + 1 .. p - 1 : StepsDone(q) = StepsDone(p - 1) /\ Same(Image[q], x)
              \/ /\ \E x \in WritesAt(StepsDone(p - 1) + 1) : Same(Image[p], x)
                 /\ StepsDone(p) = StepsDone(p - 1)
<1>1. PICK off : Joins(Middle, StepParts, LastStep - 1, OpSet, off)
  BY MiddleJoins
<1>2. PICK F \in Nat, M \in Nat : F = InputEnd /\ M = Len(Middle) /\ StepsEnd = F + M
  BY MiddleJoins, ImageLayout DEF StepsEnd
<1>3. PICK y \in 1 .. M : p = F + y
  <2>1. p - F \in 1 .. M /\ p = F + (p - F)
    BY <1>2
  <2> QED
    BY <2>1
<1>4. PICK j \in 1 .. LastStep - 1 : \E i \in 1 .. Len(StepParts[j]) : y = off[j - 1] + i
  BY <1>1, <1>2, <1>3 DEF Joins
<1>5. PICK r \in Nat, n \in Nat : /\ InputEnd + off[j - 1] = r /\ Len(StepParts[j]) = n + 1 /\ IsPart(r, n, j)
  BY <1>1, PartWords
<1>6. PICK b \in Nat : b = off[j - 1] /\ r = F + b
  <2>1. LastStep - 1 \in Nat
    BY MiddleJoins
  <2>2. j - 1 \in 0 .. LastStep - 1
    BY <2>1
  <2>3. off[j - 1] \in Nat
    BY <1>1, <2>2 DEF Joins
  <2> QED
    BY <1>2, <1>5, <2>3
<1>7. PICK i \in 1 .. n + 1 : y = b + i
  BY <1>4, <1>5, <1>6
<1>8. p = r + i /\ p - 1 = r + (i - 1) /\ r >= F /\ i - 1 \in 0 .. n
  BY <1>3, <1>6, <1>7
<1>9. StepsDone(r) = j
  <2>1. LastStep - 1 \in Nat
    BY MiddleJoins
  <2>2. j - 1 \in 0 .. LastStep - 1 /\ (j - 1) + 1 = j
    BY <2>1
  <2>3. StepsDone(InputEnd + off[j - 1]) = (j - 1) + 1
    BY <1>1, <2>2, PartDone
  <2> QED
    BY <1>5, <2>2, <2>3
<1>10. (\A k \in 0 .. n : StepsDone(r + k) = j) /\ StepsDone(r + n + 1) = j + 1
  <2>1. IsPart(r, n, StepsDone(r))
    BY <1>5, <1>9
  <2>2. (\A k \in 0 .. n : StepsDone(r + k) = StepsDone(r)) /\ StepsDone(r + n + 1) = StepsDone(r) + 1
    BY <2>1, PartQuiet
  <2> QED
    BY <1>9, <2>2
<1>11. StepsDone(p - 1) = j
  BY <1>8, <1>10
<1>12. CASE i \in 1 .. n
  <2>1. StepsDone(p) = j
    BY <1>8, <1>10, <1>12
  <2>2. \E x \in WritesAt(j + 1) : Same(Image[r + i], x)
    BY <1>5, <1>12 DEF IsPart
  <2> QED
    BY <1>8, <1>11, <2>1, <2>2
<1>13. CASE i = n + 1
  <2>1. p = r + n + 1 /\ p - 1 = r + n
    BY <1>8, <1>13
  <2>2. StepsDone(p) = j + 1 /\ Same(Image[p], PRG)
    BY <1>5, <1>10, <2>1 DEF IsPart
  <2>3. ASSUME NEW x \in WritesAt(j + 1)
        PROVE  \E q \in InputEnd + 1 .. p - 1 : StepsDone(q) = j /\ Same(Image[q], x)
    <3>1. PICK k \in 1 .. n : Same(Image[r + k], x)
      BY <1>5 DEF IsPart
    <3>2. r + k \in F + 1 .. p - 1 /\ k \in 0 .. n
      BY <1>8, <2>1
    <3>3. StepsDone(r + k) = j
      BY <1>10, <3>2
    <3> QED
      BY <1>2, <3>1, <3>2, <3>3
  <2> QED
    BY <1>11, <2>2, <2>3
<1> QED
  BY <1>12, <1>13

\* The words after the last step program nothing.
LEMMA DoneOutputs == \A r \in StepsEnd .. Len(Image) : StepsDone(r) = LastStep
<1>1. PICK off : Joins(Middle, StepParts, LastStep - 1, OpSet, off)
  BY MiddleJoins
<1>2. LastStep \in Nat /\ LastStep - 1 \in Nat /\ LastStep - 1 \in 0 .. LastStep - 1 /\ (LastStep - 1) + 1 = LastStep
  BY LastStepIs, MiddleJoins
<1>3. StepsDone(StepsEnd) = LastStep
  <2>1. InputEnd + off[LastStep - 1] = StepsEnd
    BY <1>1 DEF Joins, StepsEnd
  <2>2. StepsDone(InputEnd + off[LastStep - 1]) = (LastStep - 1) + 1
    BY <1>1, <1>2, PartDone
  <2> QED
    BY <1>2, <2>1, <2>2
<1>4. PICK N \in Nat \ {0}, L \in Nat \ {0}, E \in Nat :
          /\ N = LANES * DIGIT /\ L = LANES /\ E = StepsEnd /\ Len(Image) = E + (N + L)
          /\ Slots = 0 .. N - 1 /\ Lane = 0 .. L - 1
  <2>1. StepsEnd \in Nat /\ Len(Image) = StepsEnd + (LANES * DIGIT) + LANES
    BY ImageLayout
  <2>2. LANES * DIGIT \in Nat \ {0} /\ LANES \in Nat \ {0}
    BY Division
  <2>3. Len(Image) = StepsEnd + ((LANES * DIGIT) + LANES)
    BY <2>1, <2>2
  <2> QED
    BY <2>1, <2>2, <2>3, Zenon DEF Slots, Lane
<1>5. ASSUME NEW k \in 1 .. N + L PROVE Image[E + k].code # "PRG_NAND"
  <2>1. CASE k <= N
    <3>1. PICK g \in Slots : k = 1 + g
      <4>1. k - 1 \in 0 .. N - 1 /\ k = 1 + (k - 1)
        BY <1>4, <2>1
      <4> QED
        BY <1>4, <4>1
    <3>2. E + k = E + 1 + g
      BY <1>4, <3>1 DEF Slots
    <3>3. Image[StepsEnd + 1 + g].code = SlotOp("PUSH_OUT", g).code
      BY <3>1, ImageLayout DEF Same
    <3>4. SlotOp("PUSH_OUT", g).code = "PUSH_OUT"
      BY DEF SlotOp, Op
    <3> QED
      BY <1>4, <3>2, <3>3, <3>4
  <2>2. CASE ~(k <= N)
    <3>1. PICK l \in Lane : k = N + 1 + l
      <4>1. k - (N + 1) \in 0 .. L - 1 /\ k = N + 1 + (k - (N + 1))
        BY <1>4, <2>2
      <4> QED
        BY <1>4, <4>1
    <3>2. E + k = E + N + 1 + l
      BY <1>4, <3>1 DEF Lane
    <3>3. Image[StepsEnd + (LANES * DIGIT) + 1 + l].code = "RAISE"
      BY ImageLayout DEF Same, Op
    <3> QED
      BY <1>4, <3>2, <3>3
  <2> QED
    BY <2>1, <2>2
<1>6. \A k \in 0 .. N + L : StepsDone(E + k) = StepsDone(E)
  <2>1. PICK K \in Nat : K = N + L
    OBVIOUS
  <2>2. \A k \in 1 .. K : Image[E + k].code # "PRG_NAND"
    BY <1>5, <2>1
  <2>3. \A k \in 0 .. K : StepsDone(E + k) = StepsDone(E)
    BY <2>2, DoneStays
  <2> QED
    BY <2>1, <2>3
<1>7. ASSUME NEW r \in StepsEnd .. Len(Image) PROVE StepsDone(r) = LastStep
  <2>1. r - E \in 0 .. N + L /\ E + (r - E) = r
    BY <1>4
  <2>2. StepsDone(E + (r - E)) = StepsDone(E)
    BY <1>6, <2>1
  <2> QED
    BY <1>3, <1>4, <2>1, <2>2
<1> QED
  BY <1>7

LEMMA DoneRises ==
    ASSUME NEW p \in Nat, NEW q \in 0 .. p
    PROVE  StepsDone(q) \in Nat /\ StepsDone(p) \in Nat /\ StepsDone(q) <= StepsDone(p)
<1>1. PICK Y, U : /\ Y = {k \in 1 .. q : Image[k].code = "PRG_NAND"}
                  /\ U = {k \in 1 .. p : Image[k].code = "PRG_NAND"}
  OBVIOUS
<1>2. Y \subseteq U /\ U \subseteq 1 .. p
  BY <1>1
<1>3. IsFiniteSet(1 .. p)
  BY FS_Interval
<1>4. IsFiniteSet(U)
  BY <1>2, <1>3, FS_Subset
<1>5. Cardinality(Y) \in Nat /\ Cardinality(U) \in Nat /\ Cardinality(Y) <= Cardinality(U)
  BY <1>2, <1>4, FS_Subset, FS_CardinalityType
<1> QED
  BY <1>1, <1>5 DEF StepsDone

\* A signal as a page reads it.
ReadOf(cont, sig) == cont[sig.cell] # sig.inv

\* After r words, write k of cell c is in the page buffer and not yet programmed.
Pending(c, k, r) ==
    /\ Plan[c].writes[k].step = StepsDone(r) + 1
    /\ \E q \in InputEnd + 1 .. r : StepsDone(q) = StepsDone(r) /\ Same(Image[q], WriteOp(c, Plan[c].writes[k]))

\* What the buffer holds beside the page: the writes of the step under way.
Shows(buf, cont, r) ==
    \A c \in Cell :
        /\ \A k \in DOMAIN Plan[c].writes : Pending(c, k, r) => (buf[c] <=> ReadOf(cont, Plan[c].writes[k].src))
        /\ (\A k \in DOMAIN Plan[c].writes : ~Pending(c, k, r)) => (buf[c] <=> cont[c])

\* A cell has one write in a step.
LEMMA OneWrite ==
    ASSUME NEW c \in Cell, NEW j \in DOMAIN Plan[c].writes, NEW k \in DOMAIN Plan[c].writes,
           Plan[c].writes[j].step = Plan[c].writes[k].step
    PROVE  j = k
BY ScheduleSettled DEF Plan, Settled, InTime

\* A cell that is complete has no write left.
LEMMA CompleteShows ==
    ASSUME NEW buf, NEW cont, NEW r, StepsDone(r) \in Nat, Shows(buf, cont, r),
           NEW c \in Cell, Plan[c].complete <= StepsDone(r)
    PROVE  buf[c] <=> cont[c]
<1>1. ASSUME NEW k \in DOMAIN Plan[c].writes PROVE ~Pending(c, k, r)
  <2>1. PICK s \in Nat, m \in Nat : s = Plan[c].writes[k].step /\ m = Plan[c].complete /\ s <= m
    BY WriteOf
  <2>2. PICK d \in Nat : d = StepsDone(r) /\ m <= d
    BY <2>1
  <2>3. s # d + 1
    BY <2>1, <2>2
  <2> QED
    BY <2>1, <2>2, <2>3 DEF Pending
<1> QED
  BY <1>1 DEF Shows

\* The word that starts or ends a step: the buffer is the page.
LEMMA ProgramShows ==
    ASSUME NEW buf, NEW cont, NEW p \in InputEnd .. StepsEnd, Image[p].code = "PRG_NAND",
           \A c \in Cell : buf[c] <=> cont[c]
    PROVE  Shows(buf, cont, p)
<1>1. PICK F \in Nat \ {0}, E \in Nat : F = InputEnd /\ E = StepsEnd
  BY ImageLayout, DoneInputs
<1>2. p \in Nat /\ p - 1 \in Nat /\ (p - 1) + 1 = p
  BY <1>1
<1>3. StepsDone(p) = StepsDone(p - 1) + 1 /\ StepsDone(p - 1) \in Nat
  BY <1>2, DoneNext
<1>4. ASSUME NEW c \in Cell, NEW k \in DOMAIN Plan[c].writes PROVE ~Pending(c, k, p)
  <2>1. ASSUME NEW q \in InputEnd + 1 .. p, StepsDone(q) = StepsDone(p) PROVE Image[q].code = "PRG_NAND"
    <3>1. q \in Nat /\ (q = p \/ q \in 0 .. p - 1)
      BY <1>1, <1>2
    <3>2. q \in 0 .. p - 1 => StepsDone(q) <= StepsDone(p - 1) /\ StepsDone(q) \in Nat
      BY <1>2, DoneRises
    <3> QED
      BY <1>3, <2>1, <3>1, <3>2
  <2>2. WriteOp(c, Plan[c].writes[k]).code # "PRG_NAND"
    BY DEF WriteOp, Op
  <2> QED
    BY <2>1, <2>2 DEF Pending, Same
<1> QED
  BY <1>4 DEF Shows

\* A MOV or INV_MOV reads a source that is complete, so that the buffer shows it.
LEMMA WriteShows ==
    ASSUME NEW buf, NEW cont, NEW new, NEW p \in InputEnd + 1 .. StepsEnd, Image[p].code # "PRG_NAND",
           cont \in [Cell -> BOOLEAN], Shows(buf, cont, p - 1),
           new[Image[p].dest] <=> (buf[Image[p].from] <=> Image[p].code = "MOV"),
           \A c \in Cell : c # Image[p].dest => (new[c] <=> buf[c])
    PROVE  /\ Image[p].code \in {"MOV", "INV_MOV"} /\ Image[p].dest \in Cell /\ Image[p].from \in Cell
           /\ Shows(new, cont, p) /\ StepsDone(p) = StepsDone(p - 1)
           /\ buf[Image[p].from] <=> cont[Image[p].from]
<1>1. /\ StepsDone(p - 1) \in 1 .. LastStep - 1 /\ StepsDone(p) = StepsDone(p - 1)
      /\ \E x \in WritesAt(StepsDone(p - 1) + 1) : Same(Image[p], x)
  BY MiddleWord, PRGType DEF Same
<1>2. PICK F \in Nat \ {0}, E \in Nat : F = InputEnd /\ E = StepsEnd
  BY ImageLayout, DoneInputs
<1>3. p - 1 \in Nat /\ p \in Nat /\ LastStep \in Nat
  BY <1>2, LastStepIs
<1>4. PICK d \in Nat : d = StepsDone(p - 1) /\ d = StepsDone(p)
  BY <1>1, <1>3
<1>5. PICK x \in WritesAt(d + 1) : Same(Image[p], x)
  BY <1>1, <1>4
<1>16. PICK c \in Cell : \E k \in DOMAIN Plan[c].writes :
          x = WriteOp(c, Plan[c].writes[k]) /\ Plan[c].writes[k].step = d + 1
  BY <1>5 DEF WritesAt, WritesOf
<1>6. PICK k \in DOMAIN Plan[c].writes : x = WriteOp(c, Plan[c].writes[k]) /\ Plan[c].writes[k].step = d + 1
  BY <1>16
<1>7. PICK w : w = Plan[c].writes[k]
  OBVIOUS
<1>8. /\ Image[p].dest = c /\ Image[p].from = w.src.cell /\ Image[p].code \in {"MOV", "INV_MOV"}
      /\ w.src.inv <=> Image[p].code = "INV_MOV"
  BY <1>5, <1>6, <1>7 DEF Same, WriteOp, Op
<1>9. /\ w.src.cell \in Cell /\ w.src.inv \in BOOLEAN /\ Plan[w.src.cell].complete <= d
  <2>1. /\ w.src \in Source /\ w.src.cell \in Cell
        /\ Plan[w.src.cell].complete \in Nat /\ Plan[w.src.cell].complete < w.step
    BY <1>7, WriteOf
  <2>2. w.step = d + 1
    BY <1>6, <1>7
  <2> QED
    BY <2>1, <2>2 DEF Source
<1>10. buf[w.src.cell] <=> cont[w.src.cell]
  BY <1>4, <1>9, CompleteShows
<1>11. new[c] <=> ReadOf(cont, w.src)
  <2>1. new[c] <=> (cont[w.src.cell] <=> ~w.src.inv)
    BY <1>8, <1>10
  <2>2. cont[w.src.cell] \in BOOLEAN
    BY <1>9
  <2> QED
    BY <1>9, <2>1, <2>2 DEF ReadOf
<1>12. ASSUME NEW b \in Cell, NEW j \in DOMAIN Plan[b].writes
       PROVE  /\ Pending(b, j, p - 1) => Pending(b, j, p)
              /\ Pending(b, j, p) => Pending(b, j, p - 1) \/ (b = c /\ j = k)
              /\ Pending(c, k, p)
  <2>1. \A q \in InputEnd + 1 .. p - 1 : q \in InputEnd + 1 .. p
    BY <1>2
  <2>2. \A q \in InputEnd + 1 .. p : q \in InputEnd + 1 .. p - 1 \/ q = p
    BY <1>2
  <2>3. Pending(b, j, p - 1) => Pending(b, j, p)
    BY <1>4, <2>1 DEF Pending
  <2>4. Pending(c, k, p)
    <3>1. p \in InputEnd + 1 .. p
      BY <1>2
    <3>2. Same(Image[p], WriteOp(c, Plan[c].writes[k]))
      BY <1>5, <1>6
    <3> QED
      BY <1>4, <1>6, <3>1, <3>2 DEF Pending
  <2>5. ASSUME Pending(b, j, p), ~Pending(b, j, p - 1) PROVE b = c /\ j = k
    <3>1. Same(Image[p], WriteOp(b, Plan[b].writes[j])) /\ Plan[b].writes[j].step = d + 1
      BY <1>4, <2>2, <2>5 DEF Pending
    <3>2. b = c
      BY <1>8, <3>1 DEF Same, WriteOp, Op
    <3> QED
      BY <1>6, <3>1, <3>2, OneWrite
  <2> QED
    BY <2>3, <2>4, <2>5
<1>13. ASSUME NEW b \in Cell, NEW j \in DOMAIN Plan[b].writes, Pending(b, j, p)
       PROVE  new[b] <=> ReadOf(cont, Plan[b].writes[j].src)
  <2>1. CASE b = c
    <3>1. Plan[c].writes[j].step = Plan[c].writes[k].step
      BY <1>4, <1>6, <1>13, <2>1 DEF Pending
    <3>2. j = k
      BY <2>1, <3>1, OneWrite
    <3> QED
      BY <1>7, <1>11, <2>1, <3>2
  <2>2. CASE b # c
    <3>1. Pending(b, j, p - 1)
      BY <1>12, <1>13, <2>2
    <3>2. new[b] <=> buf[b]
      BY <1>8, <2>2
    <3> QED
      BY <3>1, <3>2 DEF Shows
  <2> QED
    BY <2>1, <2>2
<1>14. ASSUME NEW b \in Cell, \A j \in DOMAIN Plan[b].writes : ~Pending(b, j, p) PROVE new[b] <=> cont[b]
  <2>1. b # c
    BY <1>12, <1>14
  <2>2. \A j \in DOMAIN Plan[b].writes : ~Pending(b, j, p - 1)
    BY <1>12, <1>14
  <2>3. new[b] <=> buf[b]
    BY <1>8, <2>1
  <2> QED
    BY <2>2, <2>3 DEF Shows
<1>15. Shows(new, cont, p)
  BY <1>13, <1>14 DEF Shows
<1> QED
  BY <1>4, <1>8, <1>9, <1>10, <1>15

\* The PRG_NAND that ends a step finds in the buffer every signal of that step.
LEMMA StepShows ==
    ASSUME NEW buf, NEW cont, NEW p \in InputEnd + 1 .. StepsEnd, Image[p].code = "PRG_NAND",
           Shows(buf, cont, p - 1), NEW c \in Cell
    PROVE  /\ StepsDone(p - 1) \in 1 .. LastStep - 1 /\ StepsDone(p) = StepsDone(p - 1) + 1
           /\ (cont[c] /\ buf[c]) <=> /\ cont[c]
                                      /\ \A k \in DOMAIN Plan[c].writes :
                                            Plan[c].writes[k].step = StepsDone(p) => ReadOf(cont, Plan[c].writes[k].src)
<1>1. /\ StepsDone(p - 1) \in 1 .. LastStep - 1 /\ StepsDone(p) = StepsDone(p - 1) + 1
      /\ \A x \in WritesAt(StepsDone(p - 1) + 1) :
            \E q \in InputEnd + 1 .. p - 1 : StepsDone(q) = StepsDone(p - 1) /\ Same(Image[q], x)
  <2>1. ~\E x \in WritesAt(StepsDone(p - 1) + 1) : Same(Image[p], x)
    BY WriteType DEF Same
  <2> QED
    BY <2>1, MiddleWord
<1>2. ASSUME NEW k \in DOMAIN Plan[c].writes PROVE Pending(c, k, p - 1) <=> Plan[c].writes[k].step = StepsDone(p)
  <2>1. Pending(c, k, p - 1) => Plan[c].writes[k].step = StepsDone(p)
    BY <1>1 DEF Pending
  <2>2. ASSUME Plan[c].writes[k].step = StepsDone(p) PROVE Pending(c, k, p - 1)
    <3>1. Plan[c].writes[k].step = StepsDone(p - 1) + 1
      BY <1>1, <2>2
    <3>2. WriteOp(c, Plan[c].writes[k]) \in WritesAt(StepsDone(p - 1) + 1)
      BY <3>1 DEF WritesAt, WritesOf
    <3> QED
      BY <1>1, <3>1, <3>2 DEF Pending
  <2> QED
    BY <2>1, <2>2
<1>3. CASE \E k \in DOMAIN Plan[c].writes : Pending(c, k, p - 1)
  <2>1. PICK k \in DOMAIN Plan[c].writes : Pending(c, k, p - 1)
    BY <1>3
  <2>2. \A j \in DOMAIN Plan[c].writes : Plan[c].writes[j].step = StepsDone(p) => j = k
    BY <1>2, <2>1, OneWrite
  <2>3. buf[c] <=> ReadOf(cont, Plan[c].writes[k].src)
    BY <2>1 DEF Shows
  <2>4. Plan[c].writes[k].step = StepsDone(p)
    BY <1>2, <2>1
  <2> QED
    BY <1>1, <2>2, <2>3, <2>4
<1>4. CASE \A k \in DOMAIN Plan[c].writes : ~Pending(c, k, p - 1)
  BY <1>1, <1>2, <1>4 DEF Shows
<1> QED
  BY <1>3, <1>4

\* When the last step is done nothing is left in the buffer.
LEMMA EndShows ==
    ASSUME NEW buf, NEW cont, Shows(buf, cont, StepsEnd), NEW c \in Cell
    PROVE  buf[c] <=> cont[c]
<1>1. StepsDone(StepsEnd) = LastStep
  <2>1. StepsEnd \in StepsEnd .. Len(Image)
    BY Division, ImageLayout
  <2> QED
    BY <2>1, DoneOutputs
<1>2. Plan[c].complete <= StepsDone(StepsEnd) /\ StepsDone(StepsEnd) \in Nat
  BY <1>1, LastStepIs
<1> QED
  BY <1>2, CompleteShows

\* The PRG_NAND before word p + 1: the writes after it are of cells that p + 1 must not read.
Recent(q, p) ==
    /\ Image[q].code = "PRG_NAND"
    /\ \A k \in q + 1 .. p :
          /\ Image[k].code \notin {"PRG_NAND", "GET_IN"}
          /\ Image[k].code \in {"MOV", "INV_MOV"} => Image[k].dest \in Cell /\ Plan[Image[k].dest].complete > StepsDone(p)

LEMMA RecentWrite ==
    ASSUME NEW p \in InputEnd + 1 .. StepsEnd, Image[p].code # "PRG_NAND"
    PROVE  /\ Image[p].code \in {"MOV", "INV_MOV"} /\ Image[p].dest \in Cell /\ Image[p].from \in Cell
           /\ StepsDone(p) = StepsDone(p - 1)
           /\ Plan[Image[p].dest].complete > StepsDone(p) /\ Plan[Image[p].from].complete <= StepsDone(p)
<1>1. /\ StepsDone(p - 1) \in 1 .. LastStep - 1 /\ StepsDone(p) = StepsDone(p - 1)
      /\ \E x \in WritesAt(StepsDone(p - 1) + 1) : Same(Image[p], x)
  BY MiddleWord, PRGType DEF Same
<1>2. PICK d \in Nat : d = StepsDone(p) /\ d = StepsDone(p - 1)
  BY <1>1, LastStepIs
<1>3. PICK x \in WritesAt(d + 1) : Same(Image[p], x)
  BY <1>1, <1>2
<1>4. PICK c \in Cell : \E k \in DOMAIN Plan[c].writes :
          x = WriteOp(c, Plan[c].writes[k]) /\ Plan[c].writes[k].step = d + 1
  BY <1>3 DEF WritesAt, WritesOf
<1>5. PICK k \in DOMAIN Plan[c].writes : x = WriteOp(c, Plan[c].writes[k]) /\ Plan[c].writes[k].step = d + 1
  BY <1>4
<1>6. PICK w : w = Plan[c].writes[k] /\ w.step = d + 1
  BY <1>5
<1>7. /\ Image[p].dest = c /\ Image[p].from = w.src.cell /\ Image[p].code \in {"MOV", "INV_MOV"}
  BY <1>3, <1>5, <1>6 DEF Same, WriteOp, Op
<1>8. /\ w.src.cell \in Cell /\ Plan[w.src.cell].complete \in Nat /\ Plan[w.src.cell].complete < w.step
      /\ Plan[c].complete \in Nat /\ w.step <= Plan[c].complete
  BY <1>6, WriteOf
<1>9. Plan[w.src.cell].complete <= d /\ Plan[c].complete > d
  BY <1>6, <1>8
<1> QED
  BY <1>2, <1>7, <1>8, <1>9

LEMMA StepsRecent == \A p \in InputEnd .. StepsEnd : \E q \in InputEnd .. p : Recent(q, p)
<1>1. PICK F \in Nat \ {0}, M \in Nat : F = InputEnd /\ M = Len(Middle) /\ StepsEnd = F + M
  BY DoneInputs, MiddleJoins DEF StepsEnd
<1> DEFINE H == {m \in 0 .. M : \E q \in F .. F + m : Recent(q, F + m)}
<1>2. 0 \in H
  <2>1. Image[F].code = "PRG_NAND" /\ F \in F .. F + 0 /\ F + 0 = F
    BY <1>1, ImageLayout, PRGType DEF Same
  <2>2. Recent(F, F)
    BY <2>1 DEF Recent
  <2> QED
    BY <1>1, <2>1, <2>2
<1>3. ASSUME NEW m \in 1 .. M, m - 1 \in H PROVE m \in H
  <2>1. PICK p \in InputEnd + 1 .. StepsEnd : p = F + m /\ p - 1 = F + (m - 1)
    <3>1. F + m \in F + 1 .. F + M /\ (F + m) - 1 = F + (m - 1)
      BY <1>1
    <3> QED
      BY <1>1, <3>1
  <2>2. PICK q \in F .. p - 1 : Recent(q, p - 1)
    BY <1>3, <2>1
  <2>3. CASE Image[p].code = "PRG_NAND"
    <3>1. p \in F .. p /\ Recent(p, p)
      BY <1>1, <2>1, <2>3 DEF Recent
    <3> QED
      BY <2>1, <3>1
  <2>4. CASE Image[p].code # "PRG_NAND"
    <3>1. /\ Image[p].code \in {"MOV", "INV_MOV"} /\ Image[p].dest \in Cell
          /\ StepsDone(p) = StepsDone(p - 1) /\ Plan[Image[p].dest].complete > StepsDone(p)
      BY <2>4, RecentWrite
    <3>2. q \in F .. p /\ \A k \in q + 1 .. p : k \in q + 1 .. p - 1 \/ k = p
      BY <1>1, <2>1
    <3>3. Recent(q, p)
      BY <2>2, <3>1, <3>2 DEF Recent
    <3> QED
      BY <2>1, <3>2, <3>3
  <2> QED
    BY <2>3, <2>4
<1>4. \A m \in 0 .. M : m \in H
  <2> HIDE DEF H
  <2> QED
    BY <1>2, <1>3, Climb
<1>5. ASSUME NEW p \in InputEnd .. StepsEnd PROVE \E q \in InputEnd .. p : Recent(q, p)
  <2>1. p - F \in 0 .. M /\ F + (p - F) = p
    BY <1>1
  <2> QED
    BY <1>1, <1>4, <2>1
<1> QED
  BY <1>5

\* The six kinds of words by their number, and what the outputs read.
LEMMA WordAt ==
    ASSUME NEW p \in 1 .. Len(Image)
    PROVE  \/ p = 1 /\ Image[p].code = "CAP_IN"
           \/ \E g \in Slots : p = 2 + g /\ Same(Image[p], SlotOp("GET_IN", g))
           \/ p = InputEnd /\ Same(Image[p], PRG)
           \/ p \in InputEnd + 1 .. StepsEnd /\ Image[p].code \in {"PRG_NAND", "MOV", "INV_MOV"}
           \/ \E g \in Slots : p = StepsEnd + 1 + g /\ Same(Image[p], SlotOp("PUSH_OUT", g))
           \/ \E l \in Lane : p = StepsEnd + (LANES * DIGIT) + 1 + l /\ Same(Image[p], Op("RAISE", l, IsJmp(l).cell))
<1>1. PICK N \in Nat \ {0}, L \in Nat \ {0}, F \in Nat, E \in Nat :
          /\ N = LANES * DIGIT /\ L = LANES /\ F = InputEnd /\ F = 2 + N /\ E = StepsEnd /\ F <= E
          /\ Len(Image) = E + N + L /\ Slots = 0 .. N - 1 /\ Lane = 0 .. L - 1
  BY Division, ImageLayout DEF Slots, Lane, InputEnd
<1>2. CASE p = 1
  BY <1>2, ImageLayout
<1>3. CASE p \in 2 .. F - 1
  <2>1. PICK g \in 0 .. N - 1 : p = 2 + g
    <3>1. p \in 2 .. N + 1
      BY <1>1, <1>3
    <3>2. p - 2 \in 0 .. N - 1 /\ p = 2 + (p - 2)
      BY <3>1
    <3> QED
      BY <3>2
  <2>2. Same(Image[2 + g], SlotOp("GET_IN", g))
    BY <1>1, <2>1, ImageLayout
  <2> QED
    BY <1>1, <2>1, <2>2
<1>4. CASE p = F
  BY <1>1, <1>4, ImageLayout
<1>5. CASE p \in F + 1 .. E
  <2>1. p \in InputEnd + 1 .. StepsEnd
    BY <1>1, <1>5
  <2>2. Image[p].code # "PRG_NAND" => Image[p].code \in {"MOV", "INV_MOV"}
    BY <2>1, RecentWrite
  <2> QED
    BY <2>1, <2>2
<1>6. CASE p \in E + 1 .. E + N
  <2>1. PICK g \in 0 .. N - 1 : p = E + 1 + g
    <3>1. p - (E + 1) \in 0 .. N - 1 /\ p = E + 1 + (p - (E + 1))
      BY <1>6
    <3> QED
      BY <3>1
  <2>2. Same(Image[StepsEnd + 1 + g], SlotOp("PUSH_OUT", g))
    BY <1>1, <2>1, ImageLayout
  <2>3. p = StepsEnd + 1 + g /\ g \in Slots
    BY <1>1, <2>1
  <2>4. Same(Image[p], SlotOp("PUSH_OUT", g))
    BY <2>2, <2>3
  <2> QED
    BY <2>3, <2>4, Zenon
<1>7. CASE p \in E + N + 1 .. E + N + L
  <2>1. PICK l \in 0 .. L - 1 : p = E + N + 1 + l
    <3>1. p - (E + N + 1) \in 0 .. L - 1 /\ p = E + N + 1 + (p - (E + N + 1))
      BY <1>7
    <3> QED
      BY <3>1
  <2>2. Same(Image[StepsEnd + (LANES * DIGIT) + 1 + l], Op("RAISE", l, IsJmp(l).cell))
    BY <1>1, <2>1, ImageLayout
  <2>3. p = StepsEnd + (LANES * DIGIT) + 1 + l /\ l \in Lane
    BY <1>1, <2>1
  <2>4. Same(Image[p], Op("RAISE", l, IsJmp(l).cell))
    BY <2>2, <2>3
  <2> QED
    BY <2>3, <2>4, Zenon
<1>8. p = 1 \/ p \in 2 .. F - 1 \/ p = F \/ p \in F + 1 .. E \/ p \in E + 1 .. E + N \/ p \in E + N + 1 .. E + N + L
  <2>1. p \in 1 .. E + N + L
    BY <1>1
  <2>2. F <= E /\ F >= 2
    BY <1>1
  <2> QED
    BY <2>1, <2>2
<1> QED
  BY <1>2, <1>3, <1>4, <1>5, <1>6, <1>7, <1>8

\* What rom_init guarantees of an image, and NandCpu assumes of its ROM: every
\* word has operands that fit its opcode and names the next one as its
\* successor, the last one the first, and only the last word is a RAISE of the
\* last lane, which ends the round (LastRaise of NandCpu).
THEOREM ImageRuns ==
    /\ Image # <<>>
    /\ Image \in Seq([code : {"MOV", "INV_MOV", "GET_IN"}, dest : Cell, from : Cell, next : Nat]
                      \cup [code : {"CAP_IN", "PRG_NAND", "ERASE"}, dest : Cell, from : Cell, next : Nat]
                      \cup [code : {"PUSH_OUT", "RAISE"}, dest : Nat, from : Cell, next : Nat])
    /\ \A i \in 1 .. Len(Image) :
          /\ Image[i].next = i % Len(Image)
          /\ (Image[i].code = "RAISE" /\ Image[i].dest % LANES = LANES - 1) <=> i = Len(Image)
<1> DEFINE I == [code : {"MOV", "INV_MOV", "GET_IN"}, dest : Cell, from : Cell, next : Nat]
                \cup [code : {"CAP_IN", "PRG_NAND", "ERASE"}, dest : Cell, from : Cell, next : Nat]
                \cup [code : {"PUSH_OUT", "RAISE"}, dest : Nat, from : Cell, next : Nat]
<1>1. PICK E \in Nat, N \in Nat \ {0}, L \in Nat \ {0}, F \in Nat :
          /\ E = StepsEnd /\ N = LANES * DIGIT /\ L = LANES /\ F = InputEnd /\ Lane = 0 .. L - 1
          /\ F = 2 + N /\ F <= E /\ Len(Image) = E + N + L /\ Slots = 0 .. N - 1
  BY Division, ImageLayout DEF InputEnd, Slots, Lane
<1>2. PICK im \in Seq(WordSet) : im = Image
  BY ImageLayout
<1>3. PICK n \in Nat \ {0} : n = Len(im) /\ n = Len(Image)
  <2>1. E + N + L \in Nat \ {0}
    OBVIOUS
  <2>2. Len(Image) \in Nat \ {0}
    BY <1>1, <2>1
  <2> QED
    BY <1>2, <2>2
<1>4. n = E + N + L
  BY <1>1, <1>3
<1>5. \A i \in 1 .. n : im[i].next = i % n /\ im[i].dest \in Targets(im[i].code)
  BY <1>2, <1>3, ImageLayout, Zenon
<1>6. im # <<>>
  BY <1>3
<1>7. im \in Seq(I)
  <2>1. ASSUME NEW i \in 1 .. n PROVE im[i] \in I
    <3>1. PICK w \in WordSet : w = im[i] /\ w.dest \in Targets(w.code)
      <4>1. im[i] \in WordSet
        BY <1>3, LenProperties
      <4> QED
        BY <1>5, <4>1
    <3>2. w.code \in {"PUSH_OUT", "RAISE"} => w.dest \in Nat
      BY <1>1, <3>1 DEF Targets
    <3>3. w.code \notin {"PUSH_OUT", "RAISE"} => w.dest \in Cell
      BY <3>1 DEF Targets
    <3> QED
      BY <3>1, <3>2, <3>3 DEF WordSet, Codes
  <2>2. im = [i \in 1 .. n |-> im[i]]
    BY <1>3, LenProperties
  <2> HIDE DEF I
  <2>3. im \in [1 .. n -> I]
    BY <2>1, <2>2
  <2> QED
    BY <1>3, <2>3, IsASeq
<1>8. ASSUME NEW i \in 1 .. n
      PROVE  (im[i].code = "RAISE" /\ im[i].dest % L = L - 1) <=> i = n
  <2>1. i \in 1 .. Len(Image)
    BY <1>3
  <2>2. \/ i = 1 /\ im[i].code = "CAP_IN"
        \/ \E g \in 0 .. N - 1 : i = 2 + g /\ im[i].code = "GET_IN"
        \/ i = F /\ im[i].code = "PRG_NAND"
        \/ i \in F + 1 .. E /\ im[i].code \in {"PRG_NAND", "MOV", "INV_MOV"}
        \/ \E g \in 0 .. N - 1 : i = E + 1 + g /\ im[i].code = "PUSH_OUT"
        \/ \E l \in 0 .. L - 1 : i = E + N + 1 + l /\ im[i].code = "RAISE" /\ im[i].dest = l
    <3>1. \A g, dest, from : SlotOp("GET_IN", g).code = "GET_IN" /\ SlotOp("PUSH_OUT", g).code = "PUSH_OUT"
                             /\ Op("RAISE", dest, from).code = "RAISE" /\ Op("RAISE", dest, from).dest = dest
      BY DEF SlotOp, Op
    <3>2. PRG.code = "PRG_NAND"
      BY PRGType
    <3>3. \/ i = 1 /\ im[i].code = "CAP_IN"
          \/ \E g \in Slots : i = 2 + g /\ Same(im[i], SlotOp("GET_IN", g))
          \/ i = InputEnd /\ Same(im[i], PRG)
          \/ i \in InputEnd + 1 .. StepsEnd /\ im[i].code \in {"PRG_NAND", "MOV", "INV_MOV"}
          \/ \E g \in Slots : i = StepsEnd + 1 + g /\ Same(im[i], SlotOp("PUSH_OUT", g))
          \/ \E l \in Lane : i = StepsEnd + (LANES * DIGIT) + 1 + l /\ Same(im[i], Op("RAISE", l, IsJmp(l).cell))
      BY <1>2, <2>1, WordAt
    <3>4. CASE i = InputEnd /\ Same(im[i], PRG)
      BY <1>1, <3>2, <3>4 DEF Same
    <3>5. CASE \E g \in Slots : i = 2 + g /\ Same(im[i], SlotOp("GET_IN", g))
      BY <1>1, <3>1, <3>5 DEF Same
    <3>6. CASE \E g \in Slots : i = StepsEnd + 1 + g /\ Same(im[i], SlotOp("PUSH_OUT", g))
      BY <1>1, <3>1, <3>6 DEF Same
    <3>7. CASE \E l \in Lane : i = StepsEnd + (LANES * DIGIT) + 1 + l /\ Same(im[i], Op("RAISE", l, IsJmp(l).cell))
      <4>1. PICK l \in Lane : i = StepsEnd + (LANES * DIGIT) + 1 + l /\ im[i].code = "RAISE" /\ im[i].dest = l
        BY <3>1, <3>7 DEF Same
      <4>2. l \in 0 .. L - 1 /\ i = E + N + 1 + l
        BY <1>1, <4>1
      <4> QED
        BY <4>1, <4>2
    <3> QED
      BY <1>1, <3>3, <3>4, <3>5, <3>6, <3>7
  <2>3. CASE im[i].code # "RAISE"
    <3>1. \/ i = 1 \/ i = F \/ i \in F + 1 .. E
          \/ (\E g \in 0 .. N - 1 : i = 2 + g) \/ \E g \in 0 .. N - 1 : i = E + 1 + g
      BY <2>2, <2>3
    <3>2. F = 2 + N /\ F <= E
      BY <1>1
    <3>3. i < E + N + L
      BY <3>1, <3>2
    <3> QED
      BY <1>4, <2>3, <3>3
  <2>4. CASE im[i].code = "RAISE"
    <3>1. PICK l \in 0 .. L - 1 : i = E + N + 1 + l /\ im[i].dest = l
      BY <2>2, <2>4
    <3>2. \A K \in Nat \ {0} : \A x \in 0 .. K - 1 : x % K = x
      OBVIOUS
    <3>3. l % L = l
      BY <3>2
    <3>4. l = L - 1 <=> i = n
      BY <1>4, <3>1
    <3> QED
      BY <2>4, <3>1, <3>3, <3>4
  <2> QED
    BY <2>3, <2>4
<1> QED
  BY <1>1, <1>2, <1>3, <1>5, <1>6, <1>7, <1>8

\* The cells a PUSH_OUT or RAISE reads, as any cell, are complete by then.
LEMMA OutputWord ==
    ASSUME NEW p \in 1 .. Len(Image), Image[p].code \in {"PUSH_OUT", "RAISE"}
    PROVE  p - 1 \in StepsEnd .. Len(Image) /\ Image[p].from \in Cell
<1>1. PICK N \in Nat \ {0}, L \in Nat \ {0}, F \in Nat, E \in Nat :
          /\ N = LANES * DIGIT /\ L = LANES /\ F = InputEnd /\ F = 2 + N /\ E = StepsEnd /\ F <= E
          /\ Len(Image) = E + N + L /\ Slots = 0 .. N - 1 /\ Lane = 0 .. L - 1
  BY Division, ImageLayout DEF Slots, Lane, InputEnd
<1>2. \/ \E g \in Slots : p = StepsEnd + 1 + g
      \/ \E l \in Lane : p = StepsEnd + (LANES * DIGIT) + 1 + l
  BY WordAt, PRGType DEF Same, SlotOp, Op
<1>3. p >= E + 1
  <2>1. \A g \in Slots : StepsEnd + 1 + g >= E + 1
    BY <1>1
  <2>2. \A l \in 0 .. L - 1 : E + N + 1 + l >= E + 1
    OBVIOUS
  <2>3. \A l \in Lane : StepsEnd + (LANES * DIGIT) + 1 + l >= E + 1
    BY <1>1, <2>2
  <2>4. CASE \E g \in Slots : p = StepsEnd + 1 + g
    BY <2>1, <2>4
  <2>5. CASE \E l \in Lane : p = StepsEnd + (LANES * DIGIT) + 1 + l
    BY <2>3, <2>5
  <2> QED
    BY <1>2, <2>4, <2>5
<1>4. p - 1 \in StepsEnd .. Len(Image)
  <2>1. p \in 1 .. E + N + L
    BY <1>1
  <2>2. p - 1 \in E .. E + N + L
    BY <1>3, <2>1
  <2> QED
    BY <1>1, <2>2
<1>5. Image[p].from \in Cell
  BY ImageLayout
<1> QED
  BY <1>4, <1>5

\* No word reads a cell that was edited after the last PRG_NAND.
LEMMA ReadsRecent ==
    ASSUME NEW p \in 1 .. Len(Image), Image[p].code \in {"MOV", "INV_MOV", "PUSH_OUT", "RAISE"}
    PROVE  \E q \in InputEnd .. p - 1 :
              /\ Image[q].code = "PRG_NAND"
              /\ \A k \in q .. p - 1 : /\ Image[k].code # "GET_IN"
                                       /\ Image[k].code \in {"MOV", "INV_MOV"} => Image[k].dest # Image[p].from
<1>1. PICK F \in Nat \ {0}, E \in Nat : F = InputEnd /\ E = StepsEnd /\ F <= E /\ Len(Image) \in Nat /\ LastStep \in Nat
  BY DoneInputs, ImageLayout, Division, LastStepIs
<1>2. CASE Image[p].code \in {"MOV", "INV_MOV"}
  <2>1. p \in InputEnd + 1 .. StepsEnd
    BY <1>2, WordAt, PRGType DEF Same, SlotOp, Op
  <2>2. /\ StepsDone(p) = StepsDone(p - 1) /\ Plan[Image[p].from].complete <= StepsDone(p) /\ Image[p].from \in Cell
    BY <1>2, <2>1, RecentWrite
  <2>3. p - 1 \in InputEnd .. StepsEnd
    BY <1>1, <2>1
  <2>4. PICK q \in InputEnd .. p - 1 : Recent(q, p - 1)
    BY <2>3, StepsRecent
  <2>5. PICK d \in Nat, m \in Nat : d = StepsDone(p - 1) /\ m = Plan[Image[p].from].complete /\ m <= d
    <3>1. p - 1 \in Nat
      BY <1>1, <2>3
    <3>2. StepsDone(p - 1) \in Nat
      BY <3>1, DoneNext
    <3>3. Plan[Image[p].from].complete \in Nat
      BY <2>2, ScheduleSettled DEF Plan, Settled, Entry
    <3> QED
      BY <2>2, <3>2, <3>3
  <2>6. ASSUME NEW k \in q .. p - 1
        PROVE  /\ Image[k].code # "GET_IN"
               /\ Image[k].code \in {"MOV", "INV_MOV"} => Image[k].dest # Image[p].from
    <3>1. CASE k = q
      BY <2>4, <3>1 DEF Recent
    <3>2. CASE k # q
      <4>1. k \in q + 1 .. p - 1
        BY <1>1, <3>2
      <4>2. /\ Image[k].code # "GET_IN"
            /\ Image[k].code \in {"MOV", "INV_MOV"} => Plan[Image[k].dest].complete > StepsDone(p - 1)
        BY <2>4, <4>1 DEF Recent
      <4> QED
        BY <2>5, <4>2
    <3> QED
      BY <3>1, <3>2
  <2> QED
    BY <2>4, <2>6 DEF Recent
<1>3. CASE Image[p].code \in {"PUSH_OUT", "RAISE"}
  <2>1. p - 1 \in StepsEnd .. Len(Image) /\ Image[p].from \in Cell
    BY <1>3, OutputWord
  <2>2. PICK q \in InputEnd .. StepsEnd : Recent(q, StepsEnd)
    <3>1. StepsEnd \in InputEnd .. StepsEnd
      BY <1>1
    <3> QED
      BY <3>1, StepsRecent
  <2>3. StepsDone(StepsEnd) = LastStep
    <3>1. StepsEnd \in StepsEnd .. Len(Image)
      BY Division, ImageLayout
    <3> QED
      BY <3>1, DoneOutputs
  <2>4. ASSUME NEW k \in q .. p - 1
        PROVE  Image[k].code \notin {"GET_IN", "MOV", "INV_MOV"}
    <3>1. CASE k = q
      BY <2>2, <3>1 DEF Recent
    <3>2. CASE k \in q + 1 .. StepsEnd
      <4>1. /\ Image[k].code # "GET_IN"
            /\ Image[k].code \in {"MOV", "INV_MOV"} => Image[k].dest \in Cell /\ Plan[Image[k].dest].complete > LastStep
        BY <2>2, <2>3, <3>2 DEF Recent
      <4>2. \A c \in Cell : Plan[c].complete \in Nat /\ Plan[c].complete <= LastStep
        BY LastStepIs, ScheduleSettled DEF Plan, Settled, Entry
      <4>3. \A c \in Cell : ~(Plan[c].complete > LastStep)
        BY <1>1, <4>2
      <4> QED
        BY <4>1, <4>3
    <3>3. CASE k \in StepsEnd + 1 .. Len(Image)
      <4>1. k \in 1 .. Len(Image) /\ k # 1 /\ k # F /\ ~(k \in F + 1 .. E) /\ k > F
        BY <1>1, <3>3
      <4>2. ~\E g \in Slots : k = 2 + g
        BY <1>1, <4>1, Division DEF Slots, InputEnd
      <4>3. \/ \E g \in Slots : Same(Image[k], SlotOp("PUSH_OUT", g))
            \/ \E l \in Lane : Same(Image[k], Op("RAISE", l, IsJmp(l).cell))
        BY <1>1, <4>1, <4>2, WordAt
      <4> QED
        BY <4>3 DEF Same, SlotOp, Op
    <3>4. k = q \/ k \in q + 1 .. E \/ k \in E + 1 .. Len(Image)
      BY <1>1, <2>1
    <3> QED
      BY <1>1, <3>1, <3>2, <3>3, <3>4
  <2>5. q \in InputEnd .. p - 1
    BY <1>1, <2>1
  <2> QED
    BY <2>2, <2>4, <2>5 DEF Recent
<1> QED
  BY <1>2, <1>3

\* The cells that GET_IN g writes.
SlotA(g) == A(g \div DIGIT, g % DIGIT).cell
SlotB(g) == B(g \div DIGIT, g % DIGIT).cell
SlotNo(c) == (c[1] * DIGIT) + c[4]

\* The buffer after g GET_INs.
Loaded(buf, j, g) == \A c \in Cell : buf[c] <=> (SlotNo(c) < g => Inputs(j)[c])

LEMMA InputCell ==
    ASSUME NEW c \in Cell
    PROVE  /\ SlotNo(c) \in Slots
           /\ c[2] = "a" => c = SlotA(SlotNo(c))
           /\ c[2] = "b" => c = SlotB(SlotNo(c))
<1>1. c[1] \in Lane /\ c[4] \in Bits
  BY CellNamed DEF Named
<1>2. PICK D \in Nat \ {0}, L \in Nat \ {0}, N \in Nat :
          /\ D = DIGIT /\ L = LANES /\ N = LANES * DIGIT /\ N = L * D
          /\ Lane = 0 .. L - 1 /\ Bits = 0 .. D - 1 /\ Slots = 0 .. N - 1
  BY Division DEF Lane, Bits, Slots
<1>3. PICK l \in 0 .. L - 1, i \in 0 .. D - 1 : l = c[1] /\ i = c[4]
  BY <1>1, <1>2
<1>4. l * D \in Nat /\ (l + 1) * D <= L * D /\ (l + 1) * D = (l * D) + D
  <2>1. \A x, y, z \in Nat : x <= y => x * z <= y * z
    OBVIOUS
  <2>2. l + 1 \in Nat /\ l + 1 <= L /\ l * D \in Nat
    OBVIOUS
  <2> QED
    BY <2>1, <2>2
<1>5. PICK g \in Nat : g = (l * D) + i
  BY <1>4
<1>6. g \in 0 .. N - 1
  BY <1>2, <1>4, <1>5
<1>7. g \div D = l /\ g % D = i
  BY <1>5
<1>8. SlotNo(c) = g
  BY <1>2, <1>3, <1>5 DEF SlotNo
<1>9. ASSUME c[2] \in {"a", "b"} PROVE c = <<l, c[2], 0, i, 0>>
  <2>1. PICK m \in Lane : \/ IsBit(c, m) \/ IsSum(c, m) \/ IsAcc(c, m) \/ IsLone(c, m)
                          \/ \E n \in {1, 2} : IsGroup(c, m, n)
                          \/ \E n \in {0, 1, 2} : IsBorrow(c, m, n)
    BY Roles
  <2>2. \E k \in Bits : c \in {<<m, kind, 0, k, 0>> : kind \in {"a", "b", "hi", "lo", "x", "g"}}
    BY <1>9, <2>1 DEF IsBit, IsSum, IsAcc, IsLone, IsGroup, IsBorrow
  <2> QED
    BY <1>3, <2>2
<1>10. SlotA(g) = <<l, "a", 0, i, 0>> /\ SlotB(g) = <<l, "b", 0, i, 0>>
  BY <1>2, <1>7 DEF SlotA, SlotB, A, B, Sig
<1> QED
  BY <1>2, <1>6, <1>8, <1>9, <1>10

LEMMA SlotCell ==
    ASSUME NEW g \in Slots
    PROVE  /\ SlotA(g) \in Cell /\ SlotNo(SlotA(g)) = g /\ SlotA(g)[2] = "a"
           /\ SlotB(g) \in Cell /\ SlotNo(SlotB(g)) = g /\ SlotB(g)[2] = "b"
           /\ \A j : /\ Inputs(j)[SlotA(g)] = j.a[g \div DIGIT][(g % DIGIT) + 1]
                     /\ Inputs(j)[SlotB(g)] = j.b[g \div DIGIT][(g % DIGIT) + 1]
<1>1. PICK l \in Lane, i \in Bits : l = g \div DIGIT /\ i = g % DIGIT /\ g = (l * DIGIT) + i
  BY Division DEF Slots
<1>2. SlotA(g) = <<l, "a", 0, i, 0>> /\ SlotB(g) = <<l, "b", 0, i, 0>>
  BY <1>1 DEF SlotA, SlotB, A, B, Sig
<1>3. <<l, "a", 0, i, 0>> \in Cell /\ <<l, "b", 0, i, 0>> \in Cell
  BY CellOfBit
<1>4. \A j : /\ Inputs(j)[<<l, "a", 0, i, 0>>] = j.a[l][i + 1]
             /\ Inputs(j)[<<l, "b", 0, i, 0>>] = j.b[l][i + 1]
  BY <1>3 DEF Inputs
<1>5. SlotNo(<<l, "a", 0, i, 0>>) = g /\ SlotNo(<<l, "b", 0, i, 0>>) = g
  BY <1>1 DEF SlotNo
<1>6. SlotA(g) \in Cell /\ SlotNo(SlotA(g)) = g /\ SlotA(g)[2] = "a"
  BY <1>2, <1>3, <1>5
<1>7. SlotB(g) \in Cell /\ SlotNo(SlotB(g)) = g /\ SlotB(g)[2] = "b"
  BY <1>2, <1>3, <1>5
<1>8. \A j : /\ Inputs(j)[SlotA(g)] = j.a[g \div DIGIT][(g % DIGIT) + 1]
             /\ Inputs(j)[SlotB(g)] = j.b[g \div DIGIT][(g % DIGIT) + 1]
  BY <1>1, <1>2, <1>4
<1> QED
  BY <1>6, <1>7, <1>8

LEMMA LoadedFirst ==
    ASSUME NEW buf, NEW j, \A c \in Cell : buf[c] = TRUE
    PROVE  Loaded(buf, j, 0)
<1>1. \A c \in Cell : ~(SlotNo(c) < 0)
  BY InputCell, Division DEF Slots
<1> QED
  BY <1>1 DEF Loaded

\* One GET_IN: the next bits of both operands.
LEMMA LoadedNext ==
    ASSUME NEW buf, NEW new, NEW j \in Jobs, NEW g \in Slots, Loaded(buf, j, g),
           new[SlotA(g)] <=> j.a[g \div DIGIT][(g % DIGIT) + 1],
           new[SlotB(g)] <=> j.b[g \div DIGIT][(g % DIGIT) + 1],
           \A c \in Cell : c # SlotA(g) /\ c # SlotB(g) => (new[c] <=> buf[c])
    PROVE  Loaded(new, j, g + 1)
<1>1. SUFFICES ASSUME NEW c \in Cell PROVE new[c] <=> (SlotNo(c) < g + 1 => Inputs(j)[c])
  BY DEF Loaded
<1>2. SlotNo(c) \in Int /\ g \in Int
  BY InputCell, Division DEF Slots
<1>3. SlotNo(c) < g + 1 <=> SlotNo(c) < g \/ SlotNo(c) = g
  BY <1>2
<1>4. Inputs(j)[c] \in BOOLEAN
  BY InputTypes
<1>5. CASE c = SlotA(g)
  BY <1>2, <1>4, <1>5, SlotCell
<1>6. CASE c = SlotB(g)
  BY <1>2, <1>4, <1>6, SlotCell
<1>7. CASE c # SlotA(g) /\ c # SlotB(g)
  <2>1. new[c] <=> (SlotNo(c) < g => Inputs(j)[c])
    BY <1>7 DEF Loaded
  <2>2. SlotNo(c) = g => c[2] \notin {"a", "b"}
    BY <1>7, InputCell
  <2>3. c[2] \notin {"a", "b"} => Inputs(j)[c] = TRUE
    BY DEF Inputs
  <2> QED
    BY <1>3, <2>1, <2>2, <2>3
<1> QED
  BY <1>5, <1>6, <1>7

LEMMA LoadedAll ==
    ASSUME NEW buf, NEW j \in Jobs, NEW g, g = LANES * DIGIT, Loaded(buf, j, g), NEW c \in Cell
    PROVE  buf[c] <=> Inputs(j)[c]
<1>1. SlotNo(c) < g
  BY InputCell, Division DEF Slots
<1> QED
  BY <1>1 DEF Loaded

\* Loading leaves the round after its first program operation.
LEMMA LoadedRound ==
    ASSUME job' \in Jobs, resp' = NoResp, programs' = 1, content' \in [Cell -> BOOLEAN],
           \A c \in Cell : content'[c] <=> Inputs(job')[c]
    PROVE  RoundInv'
<1>1. LastStep \in Nat \ {0}
  BY LastStepIs
<1>2. FlowInv'
  BY <1>1 DEF FlowInv
<1>3. PageInv'
  <2>1. ASSUME NEW c \in Cell, NEW k \in DOMAIN Plan[c].writes PROVE ~(Plan[c].writes[k].step <= programs')
    <3>1. PICK s \in Source : s = Plan[c].writes[k].src /\ s.cell \in Cell
                              /\ Plan[s.cell].complete < Plan[c].writes[k].step /\ Plan[c].writes[k].step \in Nat
      BY WriteOf
    <3>2. Plan[s.cell].complete \in Nat \ {0}
      BY <3>1, ScheduleSettled DEF Plan, Settled, Entry
    <3> QED
      BY <3>1, <3>2
  <2> QED
    BY <2>1 DEF PageInv
<1> QED
  BY <1>2, <1>3 DEF RoundInv, AnswerType
============================================================================
