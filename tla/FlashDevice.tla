---------------------------- MODULE FlashDevice ----------------------------
(***************************************************************************)
(* What the code expects of a flash device, whichever driver is behind     *)
(* nandInterface: one operation at a time, pages taken one by one, a write *)
(* that can only program bits, and an answer that is "ok" only when all of *)
(* it is done.  The drivers of SpiFlash and HatFlash implement it.           *)
(*                                                                         *)
(* A page is the set of its programmed (zero) bits, so a blank page is {}  *)
(* and programming is union.                                               *)
(***************************************************************************)
VARIABLES pages,   \* page -> programmed bits
          op,      \* the operation in progress, and the last one's answer
          buffer,  \* the caller's read buffer: page -> programmed bits
          broken   \* the hardware did something the driver was not told of

vars == <<pages, op, buffer, broken>>

Idle == op.kind = "idle"

\* What an interrupted or failed operation may leave in one of its pages.
Partial(p, content) ==
    CASE op.kind = "write" -> /\ pages[p] \subseteq content
                              /\ content \subseteq pages[p] \cup op.data[p]
      [] op.kind = "erase" -> content \subseteq pages[p]
      [] OTHER             -> content = pages[p]

OnlyIn(todo) == /\ DOMAIN pages' = DOMAIN pages
                /\ \A p \in DOMAIN pages : pages'[p] # pages[p] => p \in todo
----------------------------------------------------------------------------
Init == Idle /\ op.answer = "none" /\ ~broken

Begin == /\ Idle /\ op'.kind # "idle"
         /\ ~op'.failed
         /\ UNCHANGED <<pages, buffer, broken>>

\* Refused at once, before anything is done.
Refuse == Idle /\ op'.kind = "idle" /\ op'.answer = "failed" /\ UNCHANGED <<pages, buffer, broken>>

\* One or more pages are done, in any order.
Advance ==
    /\ op'.kind = op.kind /\ op'.data = op.data /\ op'.failed = op.failed
    /\ op'.todo \subseteq op.todo /\ op'.todo # op.todo
    /\ LET done == op.todo \ op'.todo IN
         CASE op.kind = "write" ->
                 /\ pages' = [p \in DOMAIN pages |->
                                IF p \in done THEN pages[p] \cup op.data[p] ELSE pages[p]]
                 /\ UNCHANGED buffer
           [] op.kind = "erase" ->
                 /\ pages' = [p \in DOMAIN pages |-> IF p \in done THEN {} ELSE pages[p]]
                 /\ UNCHANGED buffer
           [] op.kind = "read" ->
                 /\ buffer' = [p \in DOMAIN buffer |-> IF p \in done THEN pages[p] ELSE buffer[p]]
                 /\ UNCHANGED pages
           [] OTHER -> UNCHANGED <<pages, buffer>>
    /\ UNCHANGED broken

\* A page fails: it may be half done, and the answer must say so.
Spoil == /\ ~Idle /\ op'.kind = op.kind /\ op'.failed
         /\ OnlyIn(op.todo)
         /\ \A p \in op.todo : Partial(p, pages'[p])
         /\ UNCHANGED <<buffer, broken>>

\* "ok" means that every page is done and none failed.
End == /\ ~Idle /\ op'.kind = "idle"
       /\ op'.answer = "ok" => op.todo = {} /\ ~op.failed
       /\ UNCHANGED <<pages, buffer, broken>>

\* Power fails or the process dies: the pages of the operation may be half
\* done, the others keep their content.  The next process starts afresh.
Abort == /\ op'.kind = "idle" /\ op'.answer = "none"
         /\ OnlyIn(op.todo)
         /\ \A p \in op.todo : Partial(p, pages'[p])

\* Nothing is promised once the hardware has failed behind the driver's back.
Break == broken'

Next == Begin \/ Refuse \/ Advance \/ Spoil \/ End \/ Abort \/ Break

Spec == Init /\ [][Next]_vars
============================================================================
