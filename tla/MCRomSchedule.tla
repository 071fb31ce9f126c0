------------------------- MODULE MCRomSchedule -------------------------
(* RomSchedule on the netlist that build_lane wires, cells numbered in the *)
(* order of their addresses, and on all small netlists of four cells: cell *)
(* 1 is an input, cells 2 and 3 read up to two cells and cell 4 up to      *)
(* three, in any order and with repetitions, so that circles, chains,      *)
(* diamonds and a source read twice all occur.                             *)
EXTENDS RomWiring

UpTo(n) == UNION {[1 .. m -> 1 .. 4] : m \in 0 .. n}
Rising(n) == {f \in UpTo(n) : \A p \in 2 .. Len(f) : f[p - 1] <= f[p]}
Small == {<<<<>>, f, g, h>> : f, g \in Rising(2), h \in UpTo(3)}

MCNetlists == Small \cup {Circuit}
========================================================================
