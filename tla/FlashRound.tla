---------------------------- MODULE FlashRound ----------------------------
(***************************************************************************)
(* One round seen from the flash page: the inputs are programmed into a    *)
(* blank page, and every later program operation ANDs into each cell the   *)
(* signals that the schedule of RomImage writes to it at that step.  It    *)
(* lies between LaneSubtractor, which it implements, and NandCpu, which    *)
(* runs the same steps one instruction and one byte at a time.             *)
(***************************************************************************)
EXTENDS RomImage

CONSTANTS Jobs, NoJob, NoResp

ASSUME RoundAssumption == Jobs \subseteq [a : [Lane -> Word], b : [Lane -> Word]]

VARIABLES job,     \* the batch
          resp,    \* its answer
          programs,    \* program operations done in this round
          content    \* what the page holds: cell -> BOOLEAN

vars == <<job, resp, programs, content>>

Plan == Schedule
LastStep == Depth(Plan)

\* A signal is read from the page with its polarity.
Read(sig) == content[sig.cell] # sig.inv
----------------------------------------------------------------------------
Init == /\ job = NoJob /\ resp = NoResp /\ programs = 0
        /\ content = [c \in Cell |-> TRUE]

\* Step 1: the GET_INs program the operands into a page of ones.
Inputs(j) == [c \in Cell |-> CASE c[2] = "a" -> j.a[c[1]][c[4] + 1]
                               [] c[2] = "b" -> j.b[c[1]][c[4] + 1]
                               [] OTHER      -> TRUE]
Load == /\ job = NoJob \/ resp # NoResp
        /\ job' \in Jobs
        /\ resp' = NoResp
        /\ programs' = 1
        /\ content' = Inputs(job')

\* The MOVs and INV_MOVs of one step and the PRG_NAND that ends it.
ProgramStep ==
    /\ job # NoJob /\ resp = NoResp /\ programs < LastStep
    /\ programs' = programs + 1
    /\ content' = [c \in Cell |->
                    /\ content[c]
                    /\ \A i \in DOMAIN Plan[c].writes :
                          Plan[c].writes[i].step = programs' => Read(Plan[c].writes[i].src)]
    /\ UNCHANGED <<job, resp>>

\* The PUSH_OUTs and RAISEs of all lanes.
PushAndRaise ==
    /\ job # NoJob /\ resp = NoResp /\ programs = LastStep
    /\ resp' = [c   |-> [l \in Lane |-> [i \in 1 .. DIGIT |-> Read(Sum(l, i - 1))]],
                jmp |-> [l \in Lane |-> Read(IsJmp(l))]]
    /\ UNCHANGED <<job, programs, content>>

Next == Load \/ ProgramStep \/ PushAndRaise

Spec == Init /\ [][Next]_vars /\ WF_vars(ProgramStep \/ PushAndRaise)
----------------------------------------------------------------------------
TypeOK == /\ job \in Jobs \cup {NoJob}
          /\ programs \in 0 .. LastStep
          /\ content \in [Cell -> BOOLEAN]
          /\ resp # NoResp => /\ resp.c \in [Lane -> Word]
                              /\ resp.jmp \in [Lane -> BOOLEAN]

\* A cell that the schedule calls complete holds the AND of all its inputs,
\* whatever is programmed later: no write read its source too early and none
\* was lost (the two constraints in the comment on schedule()).
CompleteCellsHold ==
    programs > 0 =>
        \A c \in Cell : Plan[c].complete <= programs /\ InsOf(c) # <<>> =>
            (content[c] <=> \A i \in DOMAIN InsOf(c) : Read(InsOf(c)[i]))

\* The round computes b - a and its sign for every lane, and always ends.
Subtractor == INSTANCE LaneSubtractor
RefinesSubtractor == Subtractor!Spec
===========================================================================
