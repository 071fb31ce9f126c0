----------------------------- MODULE RomWiring -----------------------------
(***************************************************************************)
(* The netlist of BorrowNetlist as RomSchedule sees it: cells numbered in  *)
(* the order of their addresses, each with the numbers of its sources.     *)
(***************************************************************************)
EXTENDS RomImage, RomSchedule

Numbered == CellOrder
NumberOf == [c \in Cell |-> CHOOSE m \in DOMAIN Numbered : Numbered[m] = c]
Wired(c) == [w \in DOMAIN InsOf(c) |-> NumberOf[InsOf(c)[w].cell]]
Circuit == [m \in DOMAIN Numbered |-> Wired(Numbered[m])]

\* The image is built from the schedule that the loop of schedule() finds: same
\* completion of every cell, same step of every write (RomImage's Schedule is
\* the function the other modules use for that loop).
MatchesImage ==
    verdict = "returned" /\ netlist = Circuit =>
        \A m \in Cells :
            LET cell == Schedule[Numbered[m]] IN
            /\ completion[m] = cell.complete
            /\ {<<InsOf(Numbered[m])[w], stepOf[m][w]>> : w \in Writes(m)} =
               {<<cell.writes[k].src, cell.writes[k].step>> : k \in DOMAIN cell.writes}
============================================================================
