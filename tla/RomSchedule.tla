---------------------------- MODULE RomSchedule ----------------------------
(***************************************************************************)
(* Netlist::schedule of src/server/ROM.cpp: the work list that gives every *)
(* write of a netlist the step of the round at which it is programmed.     *)
(* It is the loop that RomImage states as a function, run here on any      *)
(* netlist, a circular one included, one cell or one reader at a time.     *)
(*                                                                         *)
(* A netlist gives each cell the sources of its writes in wiring order; a  *)
(* cell without writes is an input.  A write keeps its wiring position     *)
(* where the code moves it in std::stable_sort.                            *)
(***************************************************************************)
EXTENDS Integers, Sequences, FiniteSets, Functions

CONSTANT Netlists   \* netlists to schedule

ASSUME ScheduleAssumption ==
    \A sources \in Netlists : sources \in Seq(Seq(DOMAIN sources))

VARIABLES
    netlist,     \* cell -> sources of its writes
    completion,  \* Cell::complete, -1 until scheduled
    stepOf,      \* cell -> write -> Write::step, -1 until scheduled
    scanned,     \* cells the first loop has looked at
    pend,        \* cell -> writes whose source was not announced yet
    queue,       \* q
    taken,       \* the cell whose readers are being told, 0 for none
    untold,      \* <<cell, write>> entries of its readers still to be visited
    done,        \* cells taken from the queue
    maxStep,
    verdict      \* "running", then "returned" or "aborted" by the assert

vars == <<netlist, completion, stepOf, scanned, pend, queue, taken, untold, done, maxStep, verdict>>

Cells == DOMAIN netlist
N == Len(netlist)
Writes(c) == DOMAIN netlist[c]
IsInput(c) == netlist[c] = <<>>
SourceAt(c, w) == completion[netlist[c][w]]

\* readers[c], one entry for every write that reads c, and their order.
Readers(c) == UNION {{<<d, w>> : w \in {v \in Writes(d) : netlist[d][v] = c}} : d \in Cells}
IsNext(e, entries) == \A f \in entries : e[1] < f[1] \/ (e[1] = f[1] /\ e[2] <= f[2])

Loop == scanned = N /\ verdict = "running" /\ untold = {}
----------------------------------------------------------------------------
BeforeWired(c, v, w) == v <= w   \* mutant: not sorted

\* The order in which the writes of c are programmed: by completion of the
\* source, the order of wiring among equals.
Before(c, v, w) == SourceAt(c, v) < SourceAt(c, w) \/ (SourceAt(c, v) = SourceAt(c, w) /\ v <= w)
Turn(c, w) == Cardinality({v \in Writes(c) : Before(c, v, w)})
Ranked(c) == [r \in 1 .. Len(netlist[c]) |-> CHOOSE w \in Writes(c) : Turn(c, w) = r]

LaterOf(m, n) == IF m > n THEN m ELSE n

\* mutant: writes of one cell share a step
TimesShared(c, order) ==
    LET t[r \in 0 .. Len(order)] ==
            IF r = 0 THEN 1 ELSE LaterOf(SourceAt(c, order[r]) + 1, t[r - 1])
    IN  t

\* t of the placing loop after each write, in the given order.
Times(c, order) ==
    LET t[r \in 0 .. Len(order)] ==
            IF r = 0 THEN 1 ELSE LaterOf(SourceAt(c, order[r]), t[r - 1]) + 1
    IN  t

Place(c) ==
    LET order == Ranked(c)
        t == Times(c, order)
    IN  /\ stepOf' = [stepOf EXCEPT ![c] = [w \in Writes(c) |-> t[Turn(c, w)]]]
        /\ completion' = [completion EXCEPT ![c] = t[Len(order)]]
        /\ maxStep' = LaterOf(maxStep, t[Len(order)])
----------------------------------------------------------------------------
Init ==
    /\ netlist \in Netlists
    /\ completion = [c \in Cells |-> IF IsInput(c) THEN 1 ELSE -1]
    /\ stepOf = [c \in Cells |-> [w \in Writes(c) |-> -1]]
    /\ scanned = 0 /\ pend = [c \in Cells |-> 0] /\ queue = <<>>
    /\ taken = 0 /\ untold = {} /\ done = 0 /\ maxStep = 1
    /\ verdict = "running"

FaninDistinct(c) == Cardinality({netlist[c][w] : w \in Writes(c)})   \* mutant: sources, not writes
Fanin(c) == Len(netlist[c])

\* The first loop: count the writes of a cell and start from the inputs.
Scan ==
    /\ scanned < N
    /\ scanned' = scanned + 1
    /\ pend' = [pend EXCEPT ![scanned'] = Fanin(scanned')]
    /\ queue' = IF completion[scanned'] = 1 THEN Append(queue, scanned') ELSE queue
    /\ UNCHANGED <<netlist, completion, stepOf, taken, untold, done, maxStep, verdict>>

\* Take the next cell and, unless it is an input, place its writes.
Take ==
    /\ Loop /\ queue # <<>>
    /\ taken' = Head(queue)
    /\ queue' = Tail(queue)
    /\ done' = done + 1
    /\ untold' = Readers(taken')
    /\ IF completion[taken'] < 0 THEN Place(taken')
                                 ELSE UNCHANGED <<stepOf, completion, maxStep>>
    /\ UNCHANGED <<netlist, scanned, pend, verdict>>

ReadyEarly(n) == n <= 1   \* mutant: queued with one source still open
Ready(n) == n = 0

\* Tell one reader; the last source it waits for puts it into the queue.
Notify ==
    /\ \E e \in untold :
          /\ IsNext(e, untold)
          /\ untold' = untold \ {e}
          /\ pend' = [pend EXCEPT ![e[1]] = @ - 1]
          /\ queue' = IF Ready(pend'[e[1]]) THEN Append(queue, e[1]) ELSE queue
    /\ UNCHANGED <<netlist, completion, stepOf, scanned, taken, done, maxStep, verdict>>

\* mutant: built with NDEBUG
FinishReturns ==
    /\ Loop /\ queue = <<>>
    /\ verdict' = "returned"
    /\ UNCHANGED <<netlist, completion, stepOf, scanned, pend, queue, taken, untold, done, maxStep>>

\* mutant: loops until all cells are done
FinishWaits ==
    /\ Loop /\ done = N
    /\ verdict' = "returned"
    /\ UNCHANGED <<netlist, completion, stepOf, scanned, pend, queue, taken, untold, done, maxStep>>

\* assert(done == n && "combinational loop in netlist")
Finish ==
    /\ Loop /\ queue = <<>>
    /\ verdict' = IF done = N THEN "returned" ELSE "aborted"
    /\ UNCHANGED <<netlist, completion, stepOf, scanned, pend, queue, taken, untold, done, maxStep>>

Next == Scan \/ Take \/ Notify \/ Finish

Spec == Init /\ [][Next]_vars /\ WF_vars(Next)
----------------------------------------------------------------------------
TypeOK ==
    /\ netlist \in [Cells -> Seq(Cells)]
    /\ completion \in [Cells -> Int]
    /\ \A c \in Cells : stepOf[c] \in [Writes(c) -> Int] /\ pend[c] \in 0 .. Len(netlist[c])
    /\ scanned \in 0 .. N /\ done \in 0 .. N /\ maxStep \in Nat
    /\ queue \in Seq(Cells) /\ taken \in 0 .. N
    /\ untold \subseteq Cells \X Nat
    /\ verdict \in {"running", "returned", "aborted"}

Scheduled(c) == completion[c] > 0

\* A cell is placed once, after all its sources: pend counts a source once for
\* every write that reads it, the constant zero reading bin[0] twice.
SourcesFirst ==
    /\ \A c \in Cells : Scheduled(c) => \A w \in Writes(c) : SourceAt(c, w) > 0
    /\ Cardinality({queue[p] : p \in DOMAIN queue}) = Len(queue)
    /\ \A p \in 1 .. Len(queue) : queue[p] # taken /\ (Scheduled(queue[p]) => IsInput(queue[p]))

\* The two constraints of the comment on schedule: a write reads a complete
\* source, a cell is programmed once per step; and a cell is complete with its
\* last write, the round with its last cell.
Feasible ==
    \A c \in Cells : Scheduled(c) =>
        /\ \A w \in Writes(c) : stepOf[c][w] > SourceAt(c, w) /\ stepOf[c][w] <= completion[c]
        /\ \A v, w \in Writes(c) : stepOf[c][v] = stepOf[c][w] => v = w
        /\ completion[c] <= maxStep

\* The sequences that list each of 1 .. n once.
Orders(n) ==
    LET o[k \in 0 .. n] ==
            IF k = 0 THEN {<<>>} ELSE {Append(e[1], e[2]) : e \in {p \in o[k - 1] \X (1 .. n) : p[2] \notin Range(p[1])}}
    IN  o[n]

\* Sorting by completion makes every cell complete as early as any order of
\* its writes would ("depth is minimal").
Earliest ==
    verdict = "returned" =>
        \A c \in Cells : \A order \in Orders(Len(netlist[c])) :
            completion[c] <= Times(c, order)[Len(netlist[c])]

\* The assert fires for the circular netlists and for no other: cells that are
\* all placed are in an order of their sources (Feasible), and after an abort
\* every cell left over waits for another one of them.
LoopFound ==
    LET left == {c \in Cells : ~Scheduled(c)} IN
    /\ verdict = "returned" => left = {}
    /\ verdict = "aborted" => left # {} /\ \A c \in left : \E w \in Writes(c) : netlist[c][w] \in left

\* The work list always comes to an end.
Ends == <>(verdict # "running")
============================================================================
