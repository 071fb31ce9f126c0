-------------------------- MODULE LaneSubtractor --------------------------
(***************************************************************************)
(* What one worker promises the server loop: a batch of up to LANES jobs   *)
(* (a, b) goes in, and for every lane the two's complement difference      *)
(* b - a and the flag "difference <= 0" come out.  This is the arithmetic  *)
(* of the Boost branch of process_requests (src/server/server.cpp), which  *)
(* the flash computer of the other branch must be indistinguishable from.  *)
(***************************************************************************)
EXTENDS Geometry

CONSTANTS Jobs,    \* the batches that may be submitted
          NoJob,   \* no batch was submitted yet
          NoResp   \* the batch is still being computed

VARIABLES job,     \* the batch: [a, b], each one word per lane
          resp     \* its answer: [c, jmp], each one value per lane

vars == <<job, resp>>

----------------------------------------------------------------------------
\* (int64_t)((uint64_t)b - (uint64_t)a): subtraction modulo 2^DIGIT, bit by
\* bit, the borrow running from the lowest bit up.
Difference(a, b) ==
    LET borrow[i \in 0 .. DIGIT] ==
            IF i = 0 THEN FALSE
            ELSE LET in == borrow[i - 1]
                 IN  IF a[i] = b[i] THEN in ELSE a[i]
    IN  [i \in 1 .. DIGIT |-> (a[i] # b[i]) # borrow[i - 1]]

\* c <= 0: the sign bit is set or all bits are clear.
NonPositive(c) == c[DIGIT] \/ \A i \in 1 .. DIGIT : ~c[i]

Answer(j) == [c   |-> [l \in Lane |-> Difference(j.a[l], j.b[l])],
              jmp |-> [l \in Lane |-> NonPositive(Difference(j.a[l], j.b[l]))]]
----------------------------------------------------------------------------
Init == job = NoJob /\ resp = NoResp

\* The server loads the lanes of a worker that is not computing.
Submit == /\ job = NoJob \/ resp # NoResp
          /\ job' \in Jobs
          /\ resp' = NoResp

Reply == /\ job # NoJob
         /\ resp = NoResp
         /\ resp' = Answer(job)
         /\ UNCHANGED job

Next == Submit \/ Reply

Spec == Init /\ [][Next]_vars /\ WF_vars(Reply)
============================================================================
