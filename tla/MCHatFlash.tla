----------------------------- MODULE MCHatFlash -----------------------------
EXTENDS HatFlash

\* The wiring of HAT ver.4 (W25N_U2_PINS, W25N_U3_PINS).
MCPins == [u2 |-> [clk |-> 12, io0 |-> 19, io1 |-> 26, io2 |-> 20, io3 |-> 5],
           u3 |-> [clk |-> 4,  io0 |-> 15, io1 |-> 17, io2 |-> 18, io3 |-> 2]]

\* Every operation of a chip overlaps a quad send of the other; a block is a
\* page here, so that a write and an erase of two pages go through their loops.
MCCalls == [u2 |-> {<<"read", 0, 1>>, <<"write", 0, 2>>},
            u3 |-> {<<"write", 0, 1>>, <<"erase", 0, 2>>}]
=============================================================================
