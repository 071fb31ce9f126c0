--------------------------- MODULE HatFlashProofs ---------------------------
(***************************************************************************)
(* Theorems about HatFlash for any number of chips, any wiring and span,   *)
(* any calls and any number of faults.  The discipline of the bus mutex    *)
(* keeps messages whole and the latches of chips in use high; each chip,   *)
(* with the thread that drives it, then implements FlashDevice.            *)
(***************************************************************************)
EXTENDS HatFlash, TLAPS

Step == {"idle", "exclusive", "shared", "next", "data"} \cup Message

\* The parts of the state that the bus depends on.
BusType ==
    /\ cpu \in [Device -> [op : {"idle", "read", "write", "erase"}, at : Step, pos : Nat, end : Nat,
                           answer : {"none", "ok", "failed"}]]
    /\ mode \in [Device -> {"none", "fdx", "qtx"}]
    /\ sm \in [Device -> {"off", "fdx", "qtx"}]
    /\ cs \in [Device -> {"high", "low"}]
    /\ low \subseteq Device /\ opened \subseteq Device
    /\ readers \subseteq opened /\ writer \in opened \cup {None}

\* The steps at which a thread is inside the scope of a guard.
InExclusive(d) == cpu[d].op = "write" /\ cpu[d].at \in {"06h", "32h", "data"}
InShared(d) == \/ cpu[d].op = "write" /\ cpu[d].at \in {"10h", "0Fh"}
               \/ cpu[d].op = "read" /\ cpu[d].at \in {"13h", "0Fh", "03h", "next"}
               \/ cpu[d].op = "erase" /\ cpu[d].at \in {"06h", "D8h", "0Fh", "next"}
Outside(d) == \/ cpu[d].op = "idle" /\ cpu[d].at = "idle"
              \/ cpu[d].op = "write" /\ cpu[d].at \in {"exclusive", "shared", "next"}
              \/ cpu[d].op \in {"read", "erase"} /\ cpu[d].at = "shared"

\* A thread holds the mutex exactly as its step says, and a writer is alone.
LockHeld ==
    /\ \A d \in Device : /\ InExclusive(d) \/ InShared(d) \/ Outside(d)
                         /\ InExclusive(d) <=> writer = d
                         /\ InShared(d) <=> d \in readers
    /\ writer # None => readers = {}
    /\ \A d \in Device : cpu[d].op # "idle" => d \in opened

\* A message is under way only inside a guard, and mode never claims the full
\* duplex program for an SM that runs another one.
Messages == \A d \in Device :
    /\ cs[d] = "low" => cpu[d].at \in Message \cup {"data"}
    /\ Sending(d) => cs[d] = "low"
    /\ mode[d] = "fdx" => sm[d] = "fdx"
    /\ cs[d] = "low" => sm[d] = IF Sending(d) THEN "qtx" ELSE "fdx"

BusInv == BusType /\ LockHeld /\ Messages /\ HoldHigh

\* NoGarble follows: whoever is in a message holds the mutex, and a sender is
\* the only one that does.
LEMMA BusInvKeepsWhole == BusInv => NoGarble
<1> SUFFICES ASSUME BusInv, NEW d \in Device PROVE
        /\ Sending(d) => \A e \in Device \ {d} : {Pins[e].clk, Pins[e].io0} \cap Span(d) # {} => cs[e] = "high"
        /\ cs[d] = "low" => sm[d] = IF Sending(d) THEN "qtx" ELSE "fdx"
  BY DEF NoGarble
<1>1. ASSUME Sending(d), NEW e \in Device \ {d} PROVE cs[e] = "high"
  <2>1. InExclusive(d)
    BY <1>1 DEF BusInv, LockHeld, Sending, InShared, Outside
  <2>2. writer = d /\ writer # None /\ readers = {}
    BY <2>1, HatCalls DEF BusInv, LockHeld, None
  <2>3. ~InExclusive(e) /\ ~InShared(e)
    BY <2>2 DEF BusInv, LockHeld
  <2>4. cpu[e].at \notin Message \cup {"data"}
    BY <2>3 DEF BusInv, LockHeld, Outside, Message
  <2> QED
    BY <2>4 DEF BusInv, Messages, BusType
<1> QED
  BY <1>1 DEF BusInv, Messages
-----------------------------------------------------------------------------
(* The bus: one lemma per action *)

\* A step of d leaves the others alone: what it has to keep is its own.
Own(d) ==
    /\ InExclusive(d) \/ InShared(d) \/ Outside(d)
    /\ InExclusive(d) <=> writer = d
    /\ InShared(d) <=> d \in readers
    /\ cpu[d].op # "idle" => d \in opened
    /\ cs[d] = "low" => cpu[d].at \in Message \cup {"data"}
    /\ Sending(d) => cs[d] = "low"
    /\ mode[d] = "fdx" => sm[d] = "fdx"
    /\ cs[d] = "low" => sm[d] = IF Sending(d) THEN "qtx" ELSE "fdx"
    /\ d \in opened /\ d \in low => Sending(d)

LEMMA OwnSteps ==
    ASSUME BusInv, NEW d \in Device, BusType', Own(d)', writer' # None => readers' = {}, opened \subseteq opened',
           \A e \in Device \ {d} : /\ cpu'[e] = cpu[e] /\ mode'[e] = mode[e]
                                   /\ sm'[e] = sm[e] /\ cs'[e] = cs[e]
                                   /\ writer' = e <=> writer = e
                                   /\ e \in readers' <=> e \in readers
                                   /\ e \in opened' => e \in opened
                                   /\ e \in low' /\ e \in opened => e \in low
    PROVE  BusInv'
<1>1. \A e \in Device : Own(e)
  BY DEF BusInv, BusType, LockHeld, Messages, HoldHigh, Own
<1>2. ASSUME NEW e \in Device \ {d} PROVE Own(e)'
  BY <1>1, <1>2 DEF Own, InExclusive, InShared, Outside, Sending
<1>3. \A e \in Device : Own(e)'
  BY <1>2
<1>4. LockHeld'
  BY <1>3 DEF Own, LockHeld
<1>5. Messages'
  BY <1>3 DEF Own, Messages
<1>6. HoldHigh'
  BY <1>3 DEF Own, HoldHigh, BusType
<1> QED
  BY <1>4, <1>5, <1>6 DEF BusInv

LEMMA OwnHolds == ASSUME BusInv, NEW d \in Device PROVE BusType /\ Own(d) /\ (writer # None => readers = {})
BY DEF BusInv, BusType, LockHeld, Messages, HoldHigh, Own

LEMMA OpenKeepsBus == ASSUME BusInv, NEW d \in Device, Open(d) PROVE BusInv'
<1>1. BusType'
  BY DEF Open, Registered, BusInv, BusType, LockUnchanged
<1>2. Own(d)'
  BY OwnHolds, <1>1 DEF Open, Registered, BusType, LockUnchanged, Own, InExclusive, InShared, Outside, Sending, Message
<1> QED
  BY <1>1, <1>2, OwnSteps, OwnHolds DEF Open, Registered, BusType, LockUnchanged

LEMMA CallKeepsBus == ASSUME BusInv, NEW d \in Device, Call(d) PROVE BusInv'
<1>1. PICK call \in Calls[d] :
        cpu' = [cpu EXCEPT ![d] = [IdleCpu EXCEPT !.op = call[1], !.at = FirstStep(call[1]),
                                                  !.pos = call[2], !.end = call[2] + call[3]]]
  BY DEF Call
<1>2. call[1] \in {"read", "write", "erase"} /\ call[2] \in Nat /\ call[2] + call[3] \in Nat
  BY HatCalls
<1>3. FirstStep(call[1]) = IF call[1] = "write" THEN "exclusive" ELSE "shared"
  BY DEF FirstStep
<1>4. BusType'
  BY <1>1, <1>2, <1>3, OwnHolds DEF Call, BusType, LockUnchanged, BusUnchanged, Step, IdleCpu
<1>5. cpu'[d].op = call[1] /\ cpu'[d].at = IF call[1] = "write" THEN "exclusive" ELSE "shared"
  BY <1>1, <1>3, OwnHolds DEF BusType, IdleCpu
<1>6. cpu[d].op = "idle" /\ cpu[d].at = "idle"
  BY OwnHolds DEF Call, Own, InExclusive, InShared, Outside
<1>7. Own(d)'
  BY <1>2, <1>5, <1>6, OwnHolds DEF Call, BusType, Own, InExclusive, InShared, Outside, Sending, Message, LockUnchanged, BusUnchanged
<1> QED
  BY <1>1, <1>4, <1>7, OwnSteps, OwnHolds DEF Call, BusType, LockUnchanged, BusUnchanged

\* A thread that goes on to its next step.
LEMMA GotoLets ==
    ASSUME NEW d \in Device, NEW step \in Step, BusType, Goto(d, step)
    PROVE  /\ cpu' \in [Device -> [op : {"idle", "read", "write", "erase"}, at : Step, pos : Nat, end : Nat,
                                   answer : {"none", "ok", "failed"}]]
           /\ cpu'[d].at = step /\ cpu'[d].op = cpu[d].op
           /\ \A e \in Device \ {d} : cpu'[e] = cpu[e]
<1>1. cpu' = [cpu EXCEPT ![d] = [cpu[d] EXCEPT !.at = step]]
  BY DEF Goto
<1>2. [cpu[d] EXCEPT !.at = step] \in [op : {"idle", "read", "write", "erase"}, at : Step, pos : Nat, end : Nat,
                                       answer : {"none", "ok", "failed"}]
  BY DEF BusType
<1> QED
  BY <1>1, <1>2 DEF BusType

LEMMA LockKeepsBus == ASSUME BusInv, NEW d \in Device, Lock(d) PROVE BusInv'
<1>1. CASE LockExclusive(d)
  <2>0. cpu[d].op = "write" /\ d \in opened /\ d \notin readers
    BY <1>1, OwnHolds DEF LockExclusive, Own, InExclusive, InShared, Outside
  <2>1. BusType'
    <3>1. Goto(d, "06h") /\ "06h" \in Step /\ BusType
      BY <1>1, OwnHolds DEF LockExclusive, Step, Message
    <3>2. cpu' \in [Device -> [op : {"idle", "read", "write", "erase"}, at : Step, pos : Nat, end : Nat,
                               answer : {"none", "ok", "failed"}]]
      BY <3>1, GotoLets
    <3> QED
      BY <1>1, <2>0, <3>1, <3>2 DEF LockExclusive, BusType, BusUnchanged
  <2>2. Own(d)'
    BY <1>1, <2>0, OwnHolds DEF LockExclusive, Goto, BusType, BusUnchanged, Own, InExclusive, InShared, Outside, Sending, Message
  <2> QED
    BY <1>1, <2>1, <2>2, OwnSteps, OwnHolds, HatCalls DEF LockExclusive, Goto, BusType, BusUnchanged, None
<1>2. CASE LockShared(d)
  <2>1. cpu[d].op \in {"read", "write", "erase"} /\ d \in opened
    BY <1>2, OwnHolds DEF LockShared, Own, InExclusive, InShared, Outside, BusType
  <2>2. FirstMessage(cpu[d].op) = IF cpu[d].op = "read" THEN "13h" ELSE IF cpu[d].op = "write" THEN "10h" ELSE "06h"
    BY <2>1 DEF FirstMessage
  <2>3. BusType'
    BY <1>2, <2>1, <2>2, OwnHolds DEF LockShared, Goto, BusType, BusUnchanged, Step, Message
  <2>4. Own(d)'
    BY <1>2, <2>1, <2>2, OwnHolds, HatCalls DEF LockShared, Goto, BusType, BusUnchanged, Own, InExclusive, InShared, Outside, Sending, Message, None
  <2> QED
    BY <1>2, <2>3, <2>4, OwnSteps, OwnHolds DEF LockShared, Goto, BusType, BusUnchanged
<1> QED
  BY <1>1, <1>2 DEF Lock

LEMMA SelectKeepsBus == ASSUME BusInv, NEW d \in Device, Select(d) PROVE BusInv'
<1>1. BusType'
  BY OwnHolds DEF Select, BusType, LockUnchanged
<1>2. Own(d)'
  BY OwnHolds DEF Select, BusType, LockUnchanged, Own, InExclusive, InShared, Outside, Sending, Message
<1> QED
  BY <1>1, <1>2, OwnSteps, OwnHolds DEF Select, BusType, LockUnchanged

LEMMA CommandKeepsBus == ASSUME BusInv, NEW d \in Device, Command(d) PROVE BusInv'
<1>1. \/ cpu[d].at = "06h" /\ Goto(d, IF cpu[d].op = "write" THEN "32h" ELSE "D8h")
      \/ cpu[d].at \in {"10h", "D8h", "13h"} /\ Goto(d, "0Fh")
  BY DEF Command
<1>2. BusType'
  <2>1. PICK step \in Step : Goto(d, step)
    BY <1>1 DEF Step, Message
  <2>2. cpu' \in [Device -> [op : {"idle", "read", "write", "erase"}, at : Step, pos : Nat, end : Nat,
                             answer : {"none", "ok", "failed"}]]
    BY <2>1, OwnHolds, GotoLets
  <2> QED
    BY <2>2, OwnHolds DEF Command, Deselect, BusType, LockUnchanged
<1>3. Own(d)'
  BY <1>1, OwnHolds DEF Command, Deselect, Goto, BusType, LockUnchanged, Own, InExclusive, InShared, Outside, Sending, Message
<1> QED
  BY <1>1, <1>2, <1>3, OwnSteps, OwnHolds DEF Command, Deselect, Goto, BusType, LockUnchanged

LEMMA QuadDataKeepsBus == ASSUME BusInv, NEW d \in Device, QuadData(d) PROVE BusInv'
<1>1. Toggled(d) \subseteq Device /\ d \in Toggled(d) /\ \A e \in Device \ {d} : e \in Toggled(d) => e \notin opened
  BY DEF Toggled
<1>2. BusType'
  <2>1. low' \subseteq Device
    BY <1>1, OwnHolds DEF QuadData, BusType
  <2> QED
    <3>1. Goto(d, "data") /\ "data" \in Step
      BY DEF QuadData, Step
    <3>2. cpu' \in [Device -> [op : {"idle", "read", "write", "erase"}, at : Step, pos : Nat, end : Nat,
                               answer : {"none", "ok", "failed"}]]
      BY <3>1, OwnHolds, GotoLets
    <3> QED
      BY <2>1, <3>2, OwnHolds DEF QuadData, BusType, LockUnchanged
<1>3. Own(d)'
  BY <1>1, OwnHolds DEF QuadData, Goto, BusType, LockUnchanged, Own, InExclusive, InShared, Outside, Sending, Message
<1> QED
  BY <1>1, <1>2, <1>3, OwnSteps, OwnHolds DEF QuadData, Goto, BusType, LockUnchanged

\* A thread at the end of an operation holds nothing.
LEMMA AnswerLets ==
    ASSUME NEW d \in Device, NEW ok \in BOOLEAN, BusType, Answer(d, ok)
    PROVE  /\ cpu' \in [Device -> [op : {"idle", "read", "write", "erase"}, at : Step, pos : Nat, end : Nat,
                                   answer : {"none", "ok", "failed"}]]
           /\ cpu'[d].op = "idle" /\ cpu'[d].at = "idle"
           /\ \A e \in Device \ {d} : cpu'[e] = cpu[e]
BY DEF Answer, IdleCpu, BusType, Step

LEMMA ReleaseLets ==
    ASSUME BusInv, NEW d \in Device, Release(d)
    PROVE  /\ readers' \subseteq opened /\ writer' \in opened \cup {None}
           /\ d \notin readers' /\ writer' # d
           /\ writer' # None => readers' = {}
           /\ \A e \in Device \ {d} : (writer' = e <=> writer = e) /\ (e \in readers' <=> e \in readers)
BY OwnHolds, HatCalls DEF Release, BusType, None

\* The same for every step that answers and releases.
LEMMA AnswerKeepsBus ==
    ASSUME BusInv, NEW d \in Device, NEW ok \in BOOLEAN, Answer(d, ok), Release(d),
           Deselect(d) \/ (cs' = cs /\ cs[d] = "high"),
           \/ mode' = mode /\ sm' = sm
           \/ mode' = ModeReset(d) /\ sm' = [sm EXCEPT ![d] = "off"],
           low' = low \/ low' = low \ opened, ~Sending(d) \/ low' = low \ opened, UNCHANGED opened
    PROVE  BusInv'
<1>1. BusType'
  <2>1. /\ cpu' \in [Device -> [op : {"idle", "read", "write", "erase"}, at : Step, pos : Nat, end : Nat,
                                answer : {"none", "ok", "failed"}]]
        /\ readers' \subseteq opened /\ writer' \in opened \cup {None}
    BY OwnHolds, AnswerLets, ReleaseLets
  <2>2. /\ cs' \in [Device -> {"high", "low"}] /\ mode' \in [Device -> {"none", "fdx", "qtx"}]
        /\ sm' \in [Device -> {"off", "fdx", "qtx"}] /\ low' \subseteq Device
    BY OwnHolds DEF BusType, Deselect, ModeReset
  <2> QED
    BY <2>1, <2>2, OwnHolds DEF BusType
<1>2. Own(d)'
  BY AnswerLets, ReleaseLets, OwnHolds DEF BusType, Deselect, ModeReset, Own, InExclusive, InShared, Outside, Sending, Message
<1> QED
  BY <1>1, <1>2, AnswerLets, ReleaseLets, OwnSteps, OwnHolds DEF BusType, Deselect, ModeReset

LEMMA QuadDoneKeepsBus == ASSUME BusInv, NEW d \in Device, QuadDone(d) PROVE BusInv'
<1>1. low' = low \ opened /\ Release(d) /\ Deselect(d) /\ UNCHANGED <<mode, sm, opened>> /\ cpu[d].at = "data"
  BY DEF QuadDone, Restored
<1>2. CASE Answer(d, FALSE)
  BY <1>1, <1>2, AnswerKeepsBus
<1>3. CASE Goto(d, "shared")
  <2>1. BusType'
    BY <1>1, <1>3, ReleaseLets, OwnHolds DEF Goto, BusType, Deselect, Step
  <2>2. Own(d)'
    BY <1>1, <1>3, ReleaseLets, OwnHolds DEF Goto, BusType, Deselect, Own, InExclusive, InShared, Outside, Sending, Message
  <2> QED
    BY <1>1, <1>3, <2>1, <2>2, ReleaseLets, OwnSteps, OwnHolds DEF Goto, BusType, Deselect
<1> QED
  BY <1>2, <1>3 DEF QuadDone

LEMMA ReadBufKeepsBus == ASSUME BusInv, NEW d \in Device, ReadBuf(d) PROVE BusInv'
<1>1. /\ Deselect(d) /\ mode' = ModeReset(d) /\ sm' = [sm EXCEPT ![d] = "off"]
      /\ UNCHANGED <<low, opened>> /\ cpu[d].at = "03h" /\ ~Sending(d)
  BY DEF ReadBuf, Sending
<1>2. CASE Answer(d, FALSE) /\ Release(d)
  BY <1>1, <1>2, AnswerKeepsBus
<1>3. CASE Advance(d, 1) /\ LockUnchanged
  <2>1. BusType'
    BY <1>1, <1>3, OwnHolds DEF Advance, BusType, Deselect, ModeReset, LockUnchanged, Step
  <2>2. Own(d)'
    BY <1>1, <1>3, OwnHolds DEF Advance, BusType, Deselect, ModeReset, LockUnchanged, Own, InExclusive, InShared, Outside, Sending, Message
  <2> QED
    BY <1>1, <1>3, <2>1, <2>2, OwnSteps, OwnHolds DEF Advance, BusType, Deselect, ModeReset, LockUnchanged
<1> QED
  BY <1>2, <1>3 DEF ReadBuf

LEMMA PollKeepsBus == ASSUME BusInv, NEW d \in Device, Poll(d) PROVE BusInv'
<1>1. Deselect(d) /\ UNCHANGED <<mode, sm, low, opened>> /\ cpu[d].at = "0Fh" /\ ~Sending(d)
  BY DEF Poll, Sending
<1>2. CASE Answer(d, FALSE) /\ Release(d)
  BY <1>1, <1>2, AnswerKeepsBus
<1>3. CASE UNCHANGED cpu /\ LockUnchanged
  <2>1. BusType'
    BY <1>1, <1>3, OwnHolds DEF BusType, Deselect, LockUnchanged
  <2>2. Own(d)'
    BY <1>1, <1>3, OwnHolds DEF BusType, Deselect, LockUnchanged, Own, InExclusive, InShared, Outside, Sending
  <2> QED
    BY <1>1, <1>3, <2>1, <2>2, OwnSteps, OwnHolds DEF BusType, Deselect, LockUnchanged
<1>4. CASE cpu[d].op = "read" /\ Goto(d, "03h") /\ LockUnchanged
  <2>1. BusType'
    BY <1>1, <1>4, OwnHolds DEF Goto, BusType, Deselect, LockUnchanged, Step, Message
  <2>2. Own(d)'
    BY <1>1, <1>4, OwnHolds DEF Goto, BusType, Deselect, LockUnchanged, Own, InExclusive, InShared, Outside, Sending, Message
  <2> QED
    BY <1>1, <1>4, <2>1, <2>2, OwnSteps, OwnHolds DEF Goto, BusType, Deselect, LockUnchanged
<1>5. CASE cpu[d].op = "erase" /\ Advance(d, BLOCK_PAGES) /\ LockUnchanged
  <2>1. BusType'
    BY <1>1, <1>5, OwnHolds, ChipGeometry DEF Advance, BusType, Deselect, LockUnchanged, Step
  <2>2. Own(d)'
    BY <1>1, <1>5, OwnHolds DEF Advance, BusType, Deselect, LockUnchanged, Own, InExclusive, InShared, Outside, Sending, Message
  <2> QED
    BY <1>1, <1>5, <2>1, <2>2, OwnSteps, OwnHolds DEF Advance, BusType, Deselect, LockUnchanged
<1>6. CASE cpu[d].op = "write" /\ Advance(d, 1) /\ Release(d)
  <2>1. BusType'
    BY <1>1, <1>6, ReleaseLets, OwnHolds DEF Advance, BusType, Deselect, Step
  <2>2. Own(d)'
    BY <1>1, <1>6, ReleaseLets, OwnHolds DEF Advance, BusType, Deselect, Own, InExclusive, InShared, Outside, Sending, Message
  <2> QED
    BY <1>1, <1>6, <2>1, <2>2, ReleaseLets, OwnSteps, OwnHolds DEF Advance, BusType, Deselect
<1>7. cpu[d].op \in {"read", "write", "erase"}
  BY <1>1, OwnHolds DEF Own, InExclusive, InShared, Outside
<1> QED
  BY <1>2, <1>3, <1>4, <1>5, <1>6, <1>7 DEF Poll

LEMMA NextPartKeepsBus == ASSUME BusInv, NEW d \in Device, NextPart(d) PROVE BusInv'
<1>1. cpu[d].at = "next" /\ UNCHANGED <<mode, sm, cs, low, opened>> /\ ~Sending(d) /\ cs[d] = "high"
  BY OwnHolds DEF NextPart, BusUnchanged, Sending, Own, Message, BusType
<1>2. CASE Answer(d, TRUE) /\ Release(d)
  BY <1>1, <1>2, AnswerKeepsBus
<1>3. CASE Goto(d, IF cpu[d].op = "write" THEN "exclusive" ELSE FirstMessage(cpu[d].op)) /\ LockUnchanged
  <2>1. cpu[d].op \in {"read", "write", "erase"}
    BY <1>1, OwnHolds DEF Own, InExclusive, InShared, Outside
  <2>2. Goto(d, CASE cpu[d].op = "write" -> "exclusive" [] cpu[d].op = "read" -> "13h" [] OTHER -> "06h")
    BY <1>3, <2>1 DEF FirstMessage
  <2>3. BusType'
    BY <1>1, <1>3, <2>1, <2>2, OwnHolds DEF Goto, BusType, LockUnchanged, Step, Message
  <2>4. Own(d)'
    BY <1>1, <1>3, <2>1, <2>2, OwnHolds DEF Goto, BusType, LockUnchanged, Own, InExclusive, InShared, Outside, Sending, Message
  <2> QED
    BY <1>1, <1>3, <2>3, <2>4, OwnSteps, OwnHolds DEF Goto, BusType, LockUnchanged
<1> QED
  BY <1>2, <1>3 DEF NextPart
-----------------------------------------------------------------------------
LEMMA InitBus == Init => BusInv
BY HatCalls DEF Init, IdleCpu, BusInv, BusType, LockHeld, Messages, HoldHigh, InExclusive, InShared, Outside, Sending, Step, None

LEMMA StepKeepsBus == BusInv /\ [Next]_vars => BusInv'
<1> SUFFICES ASSUME BusInv, [Next]_vars PROVE BusInv'
  OBVIOUS
<1>1. ASSUME NEW d \in Device, ChipStep(d) PROVE BusInv'
  BY <1>1 DEF ChipStep, BusUnchanged, LockUnchanged, BusInv, BusType, LockHeld, Messages, HoldHigh, InExclusive, InShared, Outside, Sending
<1>2. CASE UNCHANGED vars
  BY <1>2 DEF vars, BusInv, BusType, LockHeld, Messages, HoldHigh, InExclusive, InShared, Outside, Sending
<1>3. CASE Next
  BY <1>1, <1>3, OpenKeepsBus, CallKeepsBus, LockKeepsBus, SelectKeepsBus, CommandKeepsBus, QuadDataKeepsBus,
     QuadDoneKeepsBus, ReadBufKeepsBus, PollKeepsBus, NextPartKeepsBus DEF Next, Thread
<1> QED
  BY <1>2, <1>3

\* A message reaches its own chip and no other (W25NFlashDevice.hpp and the wide
\* OUT of w25n_pio.c), whatever operations overlap and whatever transfers fail.
THEOREM MessagesStayWhole == Spec => []NoGarble
<1>1. Spec => []BusInv
  BY InitBus, StepKeepsBus, PTL DEF Spec
<1> QED
  BY <1>1, BusInvKeepsWhole, PTL

\* The latches of /WP and /HOLD are high at every chip in use but the sender's
\* (restore_wp_hold of w25n_pio.c).
THEOREM LatchesStayHigh == Spec => []HoldHigh
<1>1. Spec => []BusInv
  BY InitBus, StepKeepsBus, PTL DEF Spec
<1>2. BusInv => HoldHigh
  BY DEF BusInv
<1> QED
  BY <1>1, <1>2, PTL
-----------------------------------------------------------------------------
(* The data: what a chip holds at each step of the thread that drives it *)

HatPage == 0 .. NumPages - 1
ChipState == [cells : [HatPage -> SUBSET Bit], buf : SUBSET Bit, wel : BOOLEAN,
              busy : {"no", "read", "program", "erase"}, target : Nat,
              fail : BOOLEAN, protected : BOOLEAN, ecc : BOOLEAN]

DataType ==
    /\ chip \in [Device -> ChipState]
    /\ buffer \in [Device -> [HatPage -> SUBSET Bit]]
    /\ unseen \in [Device -> BOOLEAN]

\* An operation stays inside its pages, and an erase on the border of blocks.
InRange(d) ==
    /\ cpu[d].pos <= cpu[d].end /\ cpu[d].end <= NumPages
    /\ cpu[d].op # "idle" /\ cpu[d].at # "next" => cpu[d].pos < cpu[d].end
    /\ cpu[d].op = "erase" => cpu[d].pos % BLOCK_PAGES = 0 /\ cpu[d].end % BLOCK_PAGES = 0
    /\ chip[d].busy # "no" => chip[d].target \in HatPage
    /\ d \in opened => ~chip[d].protected

\* A chip that no wait was given up on does what its thread thinks it does.
Works(d) == CASE cpu[d].op = "read" -> "read" [] cpu[d].op = "write" -> "program" [] OTHER -> "erase"
InTune(d) ==
    /\ ~Free(d) => cpu[d].op # "idle" /\ cpu[d].at = "0Fh" /\ chip[d].target = cpu[d].pos /\ chip[d].busy = Works(d)
    /\ cpu[d].at \in {"32h", "data", "10h", "D8h"} => chip[d].wel
    /\ cpu[d].op = "write" /\ cpu[d].at = "shared" => chip[d].wel
    /\ cpu[d].op = "write" /\ cpu[d].at \in {"shared", "10h"} => chip[d].buf = Bit
    /\ ~Free(d) /\ cpu[d].op = "write" => chip[d].buf = Bit
    /\ cpu[d].op = "read" /\ (cpu[d].at = "03h" \/ (cpu[d].at = "0Fh" /\ Free(d))) => chip[d].buf = chip[d].cells[cpu[d].pos]

OwnData(d) == InRange(d) /\ (unseen[d] \/ InTune(d))

HatInv == BusInv /\ DataType /\ \A d \in Device : OwnData(d)

(* The kinds of steps of FlashDevice *)

Failed(d) == cpu[d].op \in {"write", "erase"} /\ cpu[d].at = "0Fh" /\ chip[d].fail
SameData(d) == chip'[d].cells = chip[d].cells /\ buffer'[d] = buffer[d] /\ unseen'[d] = unseen[d]

LEMMA Stutters ==
    ASSUME NEW d \in Device, SameData(d), cpu'[d].op = cpu[d].op, cpu'[d].answer = cpu[d].answer,
           ToDo(d)' = ToDo(d), Failed(d)' <=> Failed(d)
    PROVE  DeviceStep(d)
BY DEF DeviceStep, AsDevice!vars, SameData, Failed

LEMMA Breaks == ASSUME NEW d \in Device, unseen'[d] PROVE DeviceStep(d)
BY DEF DeviceStep, AsDevice!Next, AsDevice!Break

LEMMA Begins ==
    ASSUME NEW d \in Device, SameData(d), cpu[d].op = "idle", cpu'[d].op # "idle", ~Failed(d)'
    PROVE  DeviceStep(d)
BY DEF DeviceStep, AsDevice!Next, AsDevice!Begin, AsDevice!Idle, SameData, Failed

LEMMA Ends ==
    ASSUME NEW d \in Device, SameData(d), cpu[d].op # "idle", cpu'[d].op = "idle",
           cpu'[d].answer = "ok" => ToDo(d) = {} /\ ~Failed(d)
    PROVE  DeviceStep(d)
BY DEF DeviceStep, AsDevice!Next, AsDevice!End, AsDevice!Idle, SameData, Failed

LEMMA Advances ==
    ASSUME NEW d \in Device, NEW done, cpu'[d].op = cpu[d].op, Failed(d)' <=> Failed(d), unseen'[d] = unseen[d],
           ToDo(d)' \subseteq ToDo(d), ToDo(d)' # ToDo(d), ToDo(d) \ ToDo(d)' = done,
           \/ /\ cpu[d].op = "write" /\ buffer'[d] = buffer[d]
              /\ chip'[d].cells = [p \in DOMAIN chip[d].cells |->
                                      IF p \in done THEN chip[d].cells[p] \cup Data[p] ELSE chip[d].cells[p]]
           \/ /\ cpu[d].op = "erase" /\ buffer'[d] = buffer[d]
              /\ chip'[d].cells = [p \in DOMAIN chip[d].cells |-> IF p \in done THEN {} ELSE chip[d].cells[p]]
           \/ /\ cpu[d].op = "read" /\ chip'[d].cells = chip[d].cells
              /\ buffer'[d] = [p \in DOMAIN buffer[d] |-> IF p \in done THEN chip[d].cells[p] ELSE buffer[d][p]]
    PROVE  DeviceStep(d)
<1>1. AsDevice(d)!Advance
  BY DEF AsDevice!Advance, Failed
<1> QED
  BY <1>1 DEF DeviceStep, AsDevice!Next

LEMMA Spoils ==
    ASSUME NEW d \in Device, cpu[d].op # "idle", cpu'[d].op = cpu[d].op, Failed(d)', buffer'[d] = buffer[d],
           unseen'[d] = unseen[d], DOMAIN chip'[d].cells = DOMAIN chip[d].cells,
           \A p \in DOMAIN chip[d].cells : chip'[d].cells[p] # chip[d].cells[p] => p \in ToDo(d),
           \A p \in ToDo(d) : AsDevice(d)!Partial(p, chip'[d].cells[p])
    PROVE  DeviceStep(d)
<1>1. AsDevice(d)!Spoil
  BY DEF AsDevice!Spoil, AsDevice!Idle, AsDevice!OnlyIn, Failed
<1> QED
  BY <1>1 DEF DeviceStep, AsDevice!Next

(* Pages and blocks *)

\* Sums and blocks of multiples of the block size.
LEMMA Blocks ==
    ASSUME NEW B \in Nat \ {0}, NEW a \in Nat, NEW b \in Nat, a % B = 0, b % B = 0
    PROVE  (a + b) % B = 0 /\ (a < b => a + B <= b) /\ (a + B) % B = 0
<1>0. \A m \in Nat : m % B = 0 => \E k \in Nat : m = k * B
  <2> TAKE m \in Nat
  <2>1. m \div B \in Nat /\ m = ((m \div B) * B) + (m % B) /\ (m \div B) * B \in Nat
    OBVIOUS
  <2>2. \A x, y \in Nat : x = y + 0 => x = y
    OBVIOUS
  <2>3. ASSUME m % B = 0 PROVE m = (m \div B) * B
    <3>1. m = ((m \div B) * B) + 0
      BY <2>1, <2>3, Zenon
    <3> QED
      BY <2>1, <2>2, <3>1, Zenon
  <2> QED
    BY <2>1, <2>3, Zenon
<1>1. PICK q \in Nat : a = q * B
  BY <1>0
<1>2. PICK r \in Nat : b = r * B
  BY <1>0
<1>3. a + b = (q + r) * B /\ a + B = (q + 1) * B
  <2>1. (q * B) + (r * B) = (q + r) * B /\ (q * B) + B = (q + 1) * B
    OBVIOUS
  <2> QED
    BY <1>1, <1>2, <2>1
<1>4. (a + b) % B = 0 /\ (a + B) % B = 0
  <2>1. \A k \in Nat : (k * B) % B = 0
    OBVIOUS
  <2>2. q + r \in Nat /\ q + 1 \in Nat
    OBVIOUS
  <2>3. ((q + r) * B) % B = 0 /\ ((q + 1) * B) % B = 0
    BY <2>1, <2>2
  <2> QED
    BY <1>3, <2>3
<1>5. ASSUME a < b PROVE a + B <= b
  <2>1. q * B < r * B
    BY <1>1, <1>2, <1>5
  <2>2. q < r
    BY <2>1
  <2>3. (q + 1) * B <= r * B
    BY <2>2
  <2> QED
    BY <1>1, <1>2, <1>3, <2>3
<1> QED
  BY <1>4, <1>5

\* The pages of the block that starts at a.
LEMMA BlockOf ==
    ASSUME NEW B \in Nat \ {0}, NEW a \in Nat, a % B = 0, NEW p \in Nat
    PROVE  p \div B = a \div B <=> a <= p /\ p < a + B
<1>1. PICK q \in Nat : a = q * B /\ a \div B = q
  <2>1. a \div B \in Nat /\ a % B \in 0 .. B - 1 /\ a = ((a \div B) * B) + (a % B)
    OBVIOUS
  <2> QED
    BY <2>1
<1>2. p \div B \in Nat /\ p % B \in 0 .. B - 1 /\ p = ((p \div B) * B) + (p % B)
  OBVIOUS
<1>3. PICK r \in Nat, s \in 0 .. B - 1 : p = (r * B) + s /\ p \div B = r
  BY <1>2
<1>4. CASE r = q
  BY <1>1, <1>3, <1>4
<1>5. CASE r < q
  <2>1. (r + 1) * B <= q * B
    BY <1>5
  <2> QED
    BY <1>1, <1>3, <1>5, <2>1
<1>6. CASE r > q
  <2>1. (q + 1) * B <= r * B
    BY <1>6
  <2> QED
    BY <1>1, <1>3, <1>6, <2>1
<1> QED
  BY <1>4, <1>5, <1>6

(* The operators of the chip *)

LEMMA ChipMessages ==
    ASSUME NEW c \in ChipState, NEW page \in HatPage
    PROVE  /\ Latched(c) = [c EXCEPT !.wel = TRUE] /\ Latched(c) \in ChipState
           /\ Loaded(c, Bit) \in ChipState /\ (c.wel => Loaded(c, Bit) = [c EXCEPT !.buf = Bit])
           /\ \A what \in {"program", "erase"} :
                 /\ Started(c, what, page) \in ChipState
                 /\ c.wel => Started(c, what, page) = [c EXCEPT !.busy = what, !.target = page, !.fail = FALSE]
           /\ Reading(c, page) = [c EXCEPT !.busy = "read", !.target = page] /\ Reading(c, page) \in ChipState
<1>1. page \in Nat
  BY DEF HatPage
<1>2. Latched(c) = [c EXCEPT !.wel = TRUE] /\ Latched(c) \in ChipState
  BY DEF Latched, ChipState
<1>3. Loaded(c, Bit) \in ChipState /\ (c.wel => Loaded(c, Bit) = [c EXCEPT !.buf = Bit])
  BY DEF Loaded, ChipState
<1>4. Reading(c, page) = [c EXCEPT !.busy = "read", !.target = page] /\ Reading(c, page) \in ChipState
  BY <1>1 DEF Reading, ChipState
<1>5. ASSUME NEW what \in {"program", "erase"}
      PROVE  /\ Started(c, what, page) \in ChipState
             /\ c.wel => Started(c, what, page) = [c EXCEPT !.busy = what, !.target = page, !.fail = FALSE]
  BY <1>1 DEF Started, ChipState
<1> QED
  BY <1>2, <1>3, <1>4, <1>5

LEMMA ChipEnds ==
    ASSUME NEW c \in ChipState, NEW cells \in [HatPage -> SUBSET Bit]
    PROVE  /\ Ended(c, cells) \in ChipState /\ [Ended(c, cells) EXCEPT !.fail = TRUE] \in ChipState
           /\ Ended(c, cells).cells = cells /\ Ended(c, cells).busy = "no"
           /\ Ended(c, cells).protected = c.protected /\ Ended(c, cells).fail = c.fail
           /\ [Ended(c, cells) EXCEPT !.fail = TRUE].cells = cells
           /\ [Ended(c, cells) EXCEPT !.fail = TRUE].busy = "no"
           /\ [Ended(c, cells) EXCEPT !.fail = TRUE].fail
           /\ [Ended(c, cells) EXCEPT !.fail = TRUE].protected = c.protected
BY DEF Ended, ChipState

\* What a step of d has to keep, and what it is to its CPU.
Kept(d) == DataType' /\ OwnData(d)' /\ DeviceStep(d)

LEMMA HatFacts ==
    ASSUME HatInv, NEW d \in Device
    PROVE  BusType /\ Own(d) /\ DataType /\ InRange(d) /\ (unseen[d] \/ InTune(d)) /\ chip[d] \in ChipState
BY OwnHolds DEF HatInv, OwnData, DataType

LEMMA OpenKeepsData == ASSUME HatInv, BusInv', NEW d \in Device, Open(d) PROVE Kept(d)
<1>1. /\ cpu' = cpu /\ buffer' = buffer /\ unseen' = unseen /\ opened' = opened \cup {d}
      /\ chip' = [chip EXCEPT ![d] = Unlocked(chip[d])] /\ cpu[d].op = "idle"
  BY DEF Open, Registered
<1>2. Unlocked(chip[d]) \in ChipState /\ Unlocked(chip[d]) = [chip[d] EXCEPT !.protected = FALSE, !.ecc = FALSE]
  BY HatFacts DEF Unlocked, ChipState
<1>3. /\ chip'[d].cells = chip[d].cells /\ chip'[d].busy = chip[d].busy /\ chip'[d].target = chip[d].target
      /\ chip'[d].wel = chip[d].wel /\ chip'[d].buf = chip[d].buf /\ ~chip'[d].protected
      /\ chip'[d].fail = chip[d].fail
  BY <1>1, <1>2, HatFacts DEF ChipState, DataType
<1>4. DataType'
  BY <1>1, <1>2, HatFacts DEF DataType
<1>5. OwnData(d)'
  BY <1>1, <1>3, HatFacts DEF OwnData, InRange, InTune, Free, Works
<1>6. DeviceStep(d)
  <2>1. ToDo(d)' = ToDo(d)
    BY <1>1 DEF ToDo
  <2> QED
    BY <1>1, <1>3, <2>1, Stutters DEF SameData, Failed
<1> QED
  BY <1>4, <1>5, <1>6 DEF Kept

LEMMA CallKeepsData == ASSUME HatInv, BusInv', NEW d \in Device, Call(d) PROVE Kept(d)
<1>1. PICK call \in Calls[d] :
        cpu' = [cpu EXCEPT ![d] = [IdleCpu EXCEPT !.op = call[1], !.at = FirstStep(call[1]),
                                                  !.pos = call[2], !.end = call[2] + call[3]]]
  BY DEF Call
<1>2. /\ call[1] \in {"read", "write", "erase"} /\ call[2] \in Nat /\ call[3] \in Nat \ {0}
      /\ call[2] + call[3] <= NumPages
      /\ call[1] = "erase" => call[2] % BLOCK_PAGES = 0 /\ call[3] % BLOCK_PAGES = 0
  BY HatCalls
<1>3. FirstStep(call[1]) = IF call[1] = "write" THEN "exclusive" ELSE "shared"
  BY DEF FirstStep
<1>4. /\ cpu'[d].op = call[1] /\ cpu'[d].at = FirstStep(call[1])
      /\ cpu'[d].pos = call[2] /\ cpu'[d].end = call[2] + call[3]
  BY <1>1, HatFacts DEF BusType, IdleCpu
<1>5. /\ chip' = chip /\ buffer' = buffer /\ unseen' = unseen /\ opened' = opened /\ cpu[d].op = "idle"
  BY DEF Call, ChipsUnchanged, BusUnchanged
<1>6. DataType'
  BY <1>5, HatFacts DEF DataType
<1>7. OwnData(d)'
  <2>1. call[1] = "erase" => (call[2] + call[3]) % BLOCK_PAGES = 0
    BY <1>2, ChipGeometry, Blocks
  <2>2. InRange(d)'
    BY <1>2, <1>4, <1>5, <2>1, HatFacts DEF InRange
  <2>3. unseen[d] \/ InTune(d)'
    BY <1>2, <1>3, <1>4, <1>5, HatFacts DEF InTune, Free
  <2> QED
    BY <1>5, <2>2, <2>3 DEF OwnData
<1>8. DeviceStep(d)
  BY <1>2, <1>3, <1>4, <1>5, Begins DEF SameData, Failed
<1> QED
  BY <1>6, <1>7, <1>8 DEF Kept

LEMMA GotoIs ==
    ASSUME BusType, NEW d \in Device, NEW step, Goto(d, step)
    PROVE  /\ cpu'[d].op = cpu[d].op /\ cpu'[d].at = step /\ cpu'[d].pos = cpu[d].pos
           /\ cpu'[d].end = cpu[d].end /\ cpu'[d].answer = cpu[d].answer
BY DEF Goto, BusType

\* A step that touches neither chip nor status.
LEMMA MovesKeepData ==
    ASSUME HatInv, NEW d \in Device, NEW step, ChipsUnchanged, Goto(d, step), opened' = opened,
           cpu[d].op # "idle", cpu[d].at # "0Fh", step # "0Fh",
           cpu[d].at # "next" \/ step = "next" \/ cpu[d].pos < cpu[d].end,
           unseen[d] \/ InTune(d)'
    PROVE  Kept(d)
<1>1. /\ cpu'[d].op = cpu[d].op /\ cpu'[d].at = step /\ cpu'[d].pos = cpu[d].pos
      /\ cpu'[d].end = cpu[d].end /\ cpu'[d].answer = cpu[d].answer
  BY HatFacts, GotoIs
<1>2. DataType'
  BY HatFacts DEF DataType, ChipsUnchanged
<1>3. OwnData(d)'
  BY <1>1, HatFacts DEF OwnData, InRange, ChipsUnchanged
<1>4. ToDo(d)' = ToDo(d)
  BY <1>1 DEF ToDo
<1>5. DeviceStep(d)
  BY <1>1, <1>4, Stutters DEF SameData, Failed, ChipsUnchanged
<1> QED
  BY <1>2, <1>3, <1>5 DEF Kept

LEMMA LockKeepsData == ASSUME HatInv, NEW d \in Device, Lock(d) PROVE Kept(d)
<1>1. BusType /\ Own(d) /\ (unseen[d] \/ InTune(d)) /\ opened' = opened /\ ChipsUnchanged
  BY HatFacts DEF Lock, LockExclusive, LockShared, BusUnchanged
<1>2. CASE LockExclusive(d)
  <2>1. cpu[d].at = "exclusive" /\ Goto(d, "06h") /\ cpu[d].op = "write"
    BY <1>1, <1>2 DEF LockExclusive, Own, InExclusive, InShared, Outside
  <2>2. unseen[d] \/ InTune(d)'
    BY <1>1, <2>1, GotoIs DEF InTune, Free, ChipsUnchanged
  <2> QED
    BY <1>1, <2>1, <2>2, MovesKeepData
<1>3. CASE LockShared(d)
  <2>1. cpu[d].at = "shared" /\ Goto(d, FirstMessage(cpu[d].op)) /\ cpu[d].op \in {"read", "write", "erase"}
    BY <1>1, <1>3 DEF LockShared, Own, InExclusive, InShared, Outside
  <2>2. FirstMessage(cpu[d].op) = IF cpu[d].op = "read" THEN "13h" ELSE IF cpu[d].op = "write" THEN "10h" ELSE "06h"
    BY <2>1 DEF FirstMessage
  <2>3. PICK step : step = FirstMessage(cpu[d].op)
    OBVIOUS
  <2>4. /\ Goto(d, step) /\ step # "0Fh" /\ step # "next" /\ step \notin {"32h", "data", "D8h", "03h", "shared"}
        /\ step = "10h" => cpu[d].op = "write"
    BY <2>1, <2>2, <2>3
  <2>5. unseen[d] \/ InTune(d)'
    BY <1>1, <2>1, <2>4, GotoIs DEF InTune, Free, ChipsUnchanged
  <2> QED
    BY <1>1, <2>1, <2>4, <2>5, MovesKeepData
<1> QED
  BY <1>2, <1>3 DEF Lock

LEMMA SelectKeepsData == ASSUME HatInv, NEW d \in Device, Select(d) PROVE Kept(d)
<1>1. UNCHANGED <<chip, buffer, unseen, cpu, opened>>
  BY DEF Select, ChipsUnchanged
<1>2. DataType' /\ OwnData(d)'
  BY <1>1, HatFacts DEF DataType, OwnData, InRange, InTune, Free, Works
<1>3. ToDo(d)' = ToDo(d)
  BY <1>1 DEF ToDo, Free
<1>4. DeviceStep(d)
  BY <1>1, <1>3, Stutters DEF SameData, Failed
<1> QED
  BY <1>2, <1>4 DEF Kept

LEMMA QuadDataKeepsData == ASSUME HatInv, NEW d \in Device, QuadData(d) PROVE Kept(d)
<1>1. /\ BusType /\ (unseen[d] \/ InTune(d)) /\ opened' = opened /\ ChipsUnchanged
      /\ cpu[d].at = "32h" /\ Goto(d, "data") /\ cpu[d].op = "write"
  BY HatFacts DEF QuadData, Own, InExclusive, InShared, Outside
<1>2. unseen[d] \/ InTune(d)'
  BY <1>1, GotoIs DEF InTune, Free, ChipsUnchanged
<1> QED
  BY <1>1, <1>2, MovesKeepData

LEMMA AnswerIs ==
    ASSUME BusType, NEW d \in Device, NEW ok \in BOOLEAN, Answer(d, ok)
    PROVE  /\ cpu'[d].op = "idle" /\ cpu'[d].at = "idle" /\ cpu'[d].pos = 0 /\ cpu'[d].end = 0
           /\ cpu'[d].answer = IF ok THEN "ok" ELSE "failed"
BY DEF Answer, IdleCpu, BusType

\* An operation that ends between two messages.
LEMMA AnswerKeepsData ==
    ASSUME HatInv, NEW d \in Device, NEW ok \in BOOLEAN, Answer(d, ok), chip' = chip, buffer' = buffer,
           unseen' = unseen, opened' = opened, cpu[d].op # "idle", Free(d) \/ cpu[d].at # "0Fh",
           ok => cpu[d].at = "next" /\ cpu[d].pos >= cpu[d].end
    PROVE  Kept(d)
<1>1. /\ cpu'[d].op = "idle" /\ cpu'[d].at = "idle" /\ cpu'[d].pos = 0 /\ cpu'[d].end = 0
      /\ cpu'[d].answer = IF ok THEN "ok" ELSE "failed"
  BY HatFacts, AnswerIs
<1>2. DataType'
  BY HatFacts DEF DataType
<1>3. OwnData(d)'
  <2>1. InRange(d)'
    BY <1>1, HatFacts, HatGeometry DEF InRange
  <2>2. unseen[d] \/ InTune(d)'
    BY <1>1, HatFacts DEF InTune, Free
  <2> QED
    BY <2>1, <2>2 DEF OwnData
<1>4. DeviceStep(d)
  <2>1. ok => ToDo(d) = {} /\ ~Failed(d)
    <3>1. cpu[d].pos \in Nat /\ cpu[d].end \in Nat
      BY HatFacts DEF BusType
    <3>2. \A m, k \in Nat : m >= k => m .. k - 1 = {}
      OBVIOUS
    <3>3. ok => ToDo(d) = cpu[d].pos .. cpu[d].end - 1 /\ ~Failed(d)
      BY DEF ToDo, Failed
    <3> QED
      BY <3>1, <3>2, <3>3
  <2> QED
    BY <1>1, <2>1, Ends DEF SameData
<1> QED
  BY <1>2, <1>3, <1>4 DEF Kept

LEMMA NextPartKeepsData == ASSUME HatInv, NEW d \in Device, NextPart(d) PROVE Kept(d)
<1>1. /\ BusType /\ Own(d) /\ (unseen[d] \/ InTune(d)) /\ opened' = opened /\ ChipsUnchanged
      /\ cpu[d].at = "next" /\ cpu[d].op \in {"read", "write", "erase"}
      /\ cpu[d].pos \in Nat /\ cpu[d].end \in Nat
  BY HatFacts DEF NextPart, BusUnchanged, Own, InExclusive, InShared, Outside, BusType
<1>2. CASE MoreToDo(d)
  <2>1. PICK step : step = IF cpu[d].op = "write" THEN "exclusive" ELSE IF cpu[d].op = "read" THEN "13h" ELSE "06h"
    OBVIOUS
  <2>2. Goto(d, step) /\ cpu[d].pos < cpu[d].end
    BY <1>1, <1>2, <2>1 DEF NextPart, MoreToDo, FirstMessage
  <2>3. /\ step # "0Fh" /\ step # "next" /\ step \notin {"32h", "data", "D8h", "03h", "shared", "10h"}
    BY <2>1
  <2>4. unseen[d] \/ InTune(d)'
    BY <1>1, <2>2, <2>3, GotoIs DEF InTune, Free, ChipsUnchanged
  <2> QED
    BY <1>1, <2>2, <2>3, <2>4, MovesKeepData
<1>3. CASE ~MoreToDo(d)
  <2>1. Answer(d, TRUE) /\ cpu[d].pos >= cpu[d].end
    <3>1. Answer(d, TRUE)
      BY <1>3 DEF NextPart
    <3>2. cpu[d].pos >= cpu[d].end
      BY <1>1, <1>3 DEF MoreToDo
    <3> QED
      BY <3>1, <3>2
  <2> QED
    BY <1>1, <2>1, AnswerKeepsData DEF ChipsUnchanged
<1> QED
  BY <1>2, <1>3

\* A message without data.
LEMMA CommandKeepsData == ASSUME HatInv, NEW d \in Device, Command(d) PROVE Kept(d)
<1>1. /\ BusType /\ Own(d) /\ DataType /\ InRange(d) /\ (unseen[d] \/ InTune(d)) /\ chip[d] \in ChipState
      /\ opened' = opened /\ buffer' = buffer /\ unseen' = unseen
  BY HatFacts DEF Command
<1>2. PICK after, step :
        /\ Reaches(d, after) /\ Goto(d, step)
        /\ \/ cpu[d].at = "06h" /\ after = Latched(chip[d]) /\ step = IF cpu[d].op = "write" THEN "32h" ELSE "D8h"
           \/ cpu[d].at = "10h" /\ after = Started(chip[d], "program", cpu[d].pos) /\ step = "0Fh"
           \/ cpu[d].at = "D8h" /\ after = Started(chip[d], "erase", cpu[d].pos) /\ step = "0Fh"
           \/ cpu[d].at = "13h" /\ after = Reading(chip[d], cpu[d].pos) /\ step = "0Fh"
  BY DEF Command
<1>3. /\ cpu'[d].op = cpu[d].op /\ cpu'[d].at = step /\ cpu'[d].pos = cpu[d].pos
      /\ cpu'[d].end = cpu[d].end /\ cpu'[d].answer = cpu[d].answer
  BY <1>1, <1>2, GotoIs
<1>4. /\ cpu[d].op # "idle" /\ cpu[d].at \notin {"next", "0Fh"}
      /\ cpu[d].pos \in Nat /\ cpu[d].end \in Nat /\ cpu[d].pos \in HatPage
      /\ cpu[d].at = "10h" => cpu[d].op = "write"
      /\ cpu[d].at = "D8h" => cpu[d].op = "erase"
      /\ cpu[d].at = "13h" => cpu[d].op = "read"
      /\ cpu[d].at = "06h" => cpu[d].op \in {"write", "erase"}
  <2>1. /\ cpu[d].op # "idle" /\ cpu[d].at \notin {"next", "0Fh"}
        /\ cpu[d].at = "10h" => cpu[d].op = "write"
        /\ cpu[d].at = "D8h" => cpu[d].op = "erase"
        /\ cpu[d].at = "13h" => cpu[d].op = "read"
        /\ cpu[d].at = "06h" => cpu[d].op \in {"write", "erase"}
    BY <1>1, <1>2 DEF Own, InExclusive, InShared, Outside
  <2>2. cpu[d].pos \in Nat /\ cpu[d].end \in Nat
    BY <1>1 DEF BusType
  <2>3. cpu[d].pos < cpu[d].end /\ cpu[d].end <= NumPages
    BY <1>1, <2>1 DEF InRange
  <2> QED
    BY <2>1, <2>2, <2>3, HatGeometry DEF HatPage
<1>5. after \in ChipState
  <2>1. /\ Latched(chip[d]) \in ChipState /\ Reading(chip[d], cpu[d].pos) \in ChipState
        /\ \A what \in {"program", "erase"} : Started(chip[d], what, cpu[d].pos) \in ChipState
    BY <1>1, <1>4, ChipMessages
  <2> QED
    BY <1>2, <2>1
<1>6. DataType' /\ chip'[d] = (IF Free(d) THEN after ELSE chip[d])
  BY <1>1, <1>2, <1>5 DEF DataType, Reaches
<1>7. /\ after.cells = chip[d].cells /\ after.protected = chip[d].protected
      /\ after.target = chip[d].target \/ after.target = cpu[d].pos
      /\ after.busy = chip[d].busy \/ after.target = cpu[d].pos
  BY <1>1, <1>2 DEF Latched, Started, Reading, ChipState
<1>8. InRange(d)'
  <2>1. chip'[d].busy # "no" => chip'[d].target \in HatPage
    BY <1>1, <1>4, <1>6, <1>7 DEF InRange
  <2> QED
    BY <1>1, <1>3, <1>4, <1>6, <1>7, <2>1 DEF InRange
<1>9. CASE unseen[d]
  BY <1>1, <1>6, <1>8, <1>9, Breaks DEF Kept, OwnData
<1>10. CASE ~unseen[d]
  <2>1. InTune(d) /\ Free(d) /\ chip'[d] = after
    BY <1>1, <1>4, <1>6, <1>10 DEF InTune
  <2>2. CASE cpu[d].at = "06h"
    <3>1. after = [chip[d] EXCEPT !.wel = TRUE]
      BY <1>1, <1>2, <1>4, <2>2, ChipMessages
    <3>2. after.wel /\ after.busy = "no"
      BY <1>1, <2>1, <3>1 DEF ChipState, Free
    <3>3. step \in {"32h", "D8h"}
      BY <1>2, <2>2
    <3>4. InTune(d)'
      BY <1>3, <2>1, <3>2, <3>3 DEF InTune, Free
    <3>5. ToDo(d)' = ToDo(d)
      BY <1>3, <2>2, <3>3 DEF ToDo
    <3>6. DeviceStep(d)
      BY <1>1, <1>3, <1>7, <2>1, <2>2, <3>3, <3>5, Stutters DEF SameData, Failed
    <3> QED
      BY <1>6, <1>8, <3>4, <3>6 DEF Kept, OwnData
  <2>3. CASE cpu[d].at \in {"10h", "D8h"}
    <3>1. PICK what \in {"program", "erase"} : after = Started(chip[d], what, cpu[d].pos) /\ what = Works(d)
      BY <1>2, <1>4, <2>3 DEF Works
    <3>2. chip[d].wel
      BY <2>1, <2>3 DEF InTune
    <3>3. after = [chip[d] EXCEPT !.busy = what, !.target = cpu[d].pos, !.fail = FALSE]
      <4>1. \A x \in {"program", "erase"} :
               chip[d].wel => Started(chip[d], x, cpu[d].pos) = [chip[d] EXCEPT !.busy = x, !.target = cpu[d].pos, !.fail = FALSE]
        BY <1>1, <1>4, ChipMessages, ZenonT(30)
      <4> QED
        BY <3>1, <3>2, <4>1
    <3>4. after.busy = what /\ after.target = cpu[d].pos /\ ~after.fail /\ after.buf = chip[d].buf
      BY <1>1, <3>3 DEF ChipState
    <3>5. step = "0Fh" /\ Works(d)' = Works(d)
      BY <1>2, <1>3, <2>3 DEF Works
    <3>6. cpu[d].op = "write" => chip[d].buf = Bit
      BY <1>4, <2>1, <2>3 DEF InTune
    <3>7. InTune(d)'
      BY <1>3, <1>4, <2>1, <2>3, <3>1, <3>4, <3>5, <3>6 DEF InTune, Free
    <3>8. ToDo(d)' = ToDo(d)
      BY <1>3, <2>1, <2>3, <3>1, <3>4 DEF ToDo, Free
    <3>9. DeviceStep(d)
      BY <1>1, <1>3, <1>7, <2>1, <2>3, <3>4, <3>8, Stutters DEF SameData, Failed
    <3> QED
      BY <1>6, <1>8, <3>7, <3>9 DEF Kept, OwnData
  <2>4. CASE cpu[d].at = "13h"
    <3>1. after = [chip[d] EXCEPT !.busy = "read", !.target = cpu[d].pos]
      BY <1>1, <1>2, <1>4, <2>4, ChipMessages
    <3>2. after.busy = "read" /\ after.target = cpu[d].pos
      BY <1>1, <3>1 DEF ChipState
    <3>3. step = "0Fh" /\ cpu[d].op = "read"
      BY <1>2, <1>4, <2>4
    <3>4. InTune(d)'
      BY <1>3, <2>1, <3>2, <3>3 DEF InTune, Free, Works
    <3>5. ToDo(d)' = ToDo(d)
      BY <1>3, <3>3 DEF ToDo
    <3>6. DeviceStep(d)
      BY <1>1, <1>3, <1>7, <2>1, <3>3, <3>5, Stutters DEF SameData, Failed
    <3> QED
      BY <1>6, <1>8, <3>4, <3>6 DEF Kept, OwnData
  <2> QED
    BY <1>2, <2>2, <2>3, <2>4
<1> QED
  BY <1>9, <1>10

LEMMA PageAt ==
    ASSUME HatInv, NEW d \in Device, cpu[d].op # "idle", cpu[d].at # "next"
    PROVE  cpu[d].pos \in HatPage /\ cpu[d].pos \in Nat /\ cpu[d].end \in Nat /\ cpu[d].pos + 1 <= cpu[d].end
<1>1. cpu[d].pos \in Nat /\ cpu[d].end \in Nat /\ cpu[d].pos < cpu[d].end /\ cpu[d].end <= NumPages
  BY HatFacts DEF BusType, InRange
<1> QED
  BY <1>1, HatGeometry DEF HatPage

LEMMA QuadDoneKeepsData == ASSUME HatInv, NEW d \in Device, QuadDone(d) PROVE Kept(d)
<1>1. /\ BusType /\ DataType /\ InRange(d) /\ (unseen[d] \/ InTune(d)) /\ chip[d] \in ChipState
      /\ opened' = opened /\ buffer' = buffer /\ unseen' = unseen
      /\ cpu[d].at = "data" /\ cpu[d].op = "write"
  BY HatFacts DEF QuadDone, Own, InExclusive, InShared, Outside
<1>2. CASE Answer(d, FALSE) /\ chip' = chip
  BY <1>1, <1>2, AnswerKeepsData
<1>3. CASE Reaches(d, Loaded(chip[d], Data[cpu[d].pos])) /\ Goto(d, "shared")
  <2>1. /\ cpu'[d].op = cpu[d].op /\ cpu'[d].at = "shared" /\ cpu'[d].pos = cpu[d].pos
        /\ cpu'[d].end = cpu[d].end /\ cpu'[d].answer = cpu[d].answer
    BY <1>1, <1>3, GotoIs
  <2>2. cpu[d].pos \in HatPage /\ Data[cpu[d].pos] = Bit
    BY <1>1, PageAt DEF Data, HatPage
  <2>3. PICK after : after = Loaded(chip[d], Bit)
    OBVIOUS
  <2>4. after \in ChipState /\ (chip[d].wel => after = [chip[d] EXCEPT !.buf = Bit])
    BY <1>1, <2>2, <2>3, ChipMessages
  <2>5. /\ after.cells = chip[d].cells /\ after.protected = chip[d].protected /\ after.wel = chip[d].wel
        /\ after.target = chip[d].target /\ after.busy = chip[d].busy
        /\ chip[d].wel => after.buf = Bit
    BY <1>1, <2>3 DEF Loaded, ChipState
  <2>6. DataType' /\ chip'[d] = (IF Free(d) THEN after ELSE chip[d])
    BY <1>1, <1>3, <2>2, <2>3, <2>4 DEF DataType, Reaches
  <2>7. InRange(d)'
    BY <1>1, <2>1, <2>5, <2>6 DEF InRange
  <2>8. unseen[d] \/ InTune(d)'
    BY <1>1, <2>1, <2>5, <2>6 DEF InTune, Free
  <2>9. ToDo(d)' = ToDo(d)
    BY <1>1, <2>1 DEF ToDo
  <2>10. DeviceStep(d)
    BY <1>1, <2>1, <2>5, <2>6, <2>9, Stutters DEF SameData, Failed
  <2> QED
    BY <1>1, <2>6, <2>7, <2>8, <2>10 DEF Kept, OwnData
<1> QED
  BY <1>2, <1>3 DEF QuadDone

LEMMA AdvanceIs ==
    ASSUME BusType, NEW d \in Device, NEW done \in Nat, Advance(d, done)
    PROVE  /\ cpu'[d].op = cpu[d].op /\ cpu'[d].at = "next" /\ cpu'[d].pos = cpu[d].pos + done
           /\ cpu'[d].end = cpu[d].end /\ cpu'[d].answer = cpu[d].answer
BY DEF Advance, BusType

LEMMA ReadBufKeepsData == ASSUME HatInv, NEW d \in Device, ReadBuf(d) PROVE Kept(d)
<1>1. /\ BusType /\ DataType /\ InRange(d) /\ (unseen[d] \/ InTune(d)) /\ chip[d] \in ChipState
      /\ opened' = opened /\ chip' = chip /\ unseen' = unseen
      /\ cpu[d].at = "03h" /\ cpu[d].op = "read"
  BY HatFacts DEF ReadBuf, Own, InExclusive, InShared, Outside
<1>2. CASE Answer(d, FALSE) /\ buffer' = buffer
  BY <1>1, <1>2, AnswerKeepsData
<1>3. CASE /\ Advance(d, 1)
           /\ buffer' = IF Free(d) THEN [buffer EXCEPT ![d][cpu[d].pos] = chip[d].buf] ELSE buffer
  <2>1. /\ cpu'[d].op = cpu[d].op /\ cpu'[d].at = "next" /\ cpu'[d].pos = cpu[d].pos + 1
        /\ cpu'[d].end = cpu[d].end /\ cpu'[d].answer = cpu[d].answer
    BY <1>1, <1>3, AdvanceIs
  <2>2. cpu[d].pos \in HatPage /\ cpu[d].pos \in Nat /\ cpu[d].end \in Nat /\ cpu[d].pos + 1 <= cpu[d].end
    BY <1>1, PageAt
  <2>3. /\ buffer[d] \in [HatPage -> SUBSET Bit] /\ chip[d].buf \in SUBSET Bit
        /\ buffer' \in [Device -> [HatPage -> SUBSET Bit]]
        /\ Free(d) => buffer'[d] = [buffer[d] EXCEPT ![cpu[d].pos] = chip[d].buf]
    <3>1. buffer \in [Device -> [HatPage -> SUBSET Bit]] /\ chip[d].buf \in SUBSET Bit
      BY <1>1 DEF DataType, ChipState
    <3>2. [buffer[d] EXCEPT ![cpu[d].pos] = chip[d].buf] \in [HatPage -> SUBSET Bit]
      BY <2>2, <3>1
    <3>3. Free(d) => buffer' = [buffer EXCEPT ![d] = [buffer[d] EXCEPT ![cpu[d].pos] = chip[d].buf]]
      BY <1>3
    <3> QED
      BY <1>3, <3>1, <3>2, <3>3
  <2>4. DataType'
    BY <1>1, <2>3 DEF DataType
  <2>5. InRange(d)'
    BY <1>1, <2>1, <2>2 DEF InRange
  <2>6. CASE unseen[d]
    BY <1>1, <2>4, <2>5, <2>6, Breaks DEF Kept, OwnData
  <2>7. CASE ~unseen[d]
    <3>1. InTune(d) /\ Free(d) /\ chip[d].buf = chip[d].cells[cpu[d].pos]
      BY <1>1, <2>7 DEF InTune
    <3>2. InTune(d)'
      BY <1>1, <2>1, <3>1 DEF InTune, Free
    <3>3. ToDo(d) = cpu[d].pos .. cpu[d].end - 1 /\ ToDo(d)' = cpu[d].pos + 1 .. cpu[d].end - 1
      BY <1>1, <2>1 DEF ToDo
    <3>4. ToDo(d)' \subseteq ToDo(d) /\ ToDo(d)' # ToDo(d) /\ ToDo(d) \ ToDo(d)' = {cpu[d].pos}
      BY <2>2, <3>3
    <3>5. buffer'[d] = [p \in DOMAIN buffer[d] |-> IF p \in {cpu[d].pos} THEN chip[d].cells[p] ELSE buffer[d][p]]
      BY <2>2, <2>3, <3>1
    <3>6. DeviceStep(d)
      BY <1>1, <2>1, <3>4, <3>5, Advances DEF Failed
    <3> QED
      BY <1>1, <2>4, <2>5, <3>2, <3>6 DEF Kept, OwnData
  <2> QED
    BY <2>6, <2>7
<1>4. PICK ok \in BOOLEAN :
         /\ IF ok /\ Free(d) THEN buffer' = [buffer EXCEPT ![d][cpu[d].pos] = chip[d].buf] ELSE UNCHANGED buffer
         /\ IF ok THEN Advance(d, 1) ELSE Answer(d, FALSE)
  BY DEF ReadBuf
<1> QED
  BY <1>2, <1>3, <1>4

LEMMA PollKeepsData == ASSUME HatInv, NEW d \in Device, Poll(d) PROVE Kept(d)
<1>1. /\ BusType /\ DataType /\ InRange(d) /\ (unseen[d] \/ InTune(d)) /\ chip[d] \in ChipState
      /\ opened' = opened /\ chip' = chip /\ buffer' = buffer
      /\ cpu[d].at = "0Fh" /\ cpu[d].op \in {"read", "write", "erase"}
  BY HatFacts DEF Poll, Own, InExclusive, InShared, Outside
<1>2. cpu[d].pos \in HatPage /\ cpu[d].pos \in Nat /\ cpu[d].end \in Nat /\ cpu[d].pos + 1 <= cpu[d].end
  BY <1>1, PageAt
<1>3. CASE cpu' = cpu /\ unseen' = unseen
  <2>1. DataType' /\ OwnData(d)'
    BY <1>1, <1>3 DEF DataType, OwnData, InRange, InTune, Free, Works
  <2>2. ToDo(d)' = ToDo(d)
    BY <1>1, <1>3 DEF ToDo, Free
  <2> QED
    BY <1>1, <1>3, <2>1, <2>2, Stutters DEF Kept, SameData, Failed
<1>4. CASE unseen' = [unseen EXCEPT ![d] = TRUE] /\ Answer(d, FALSE)
  <2>1. unseen'[d] /\ DataType'
    BY <1>1, <1>4 DEF DataType
  <2>2. cpu'[d].op = "idle" /\ cpu'[d].pos = 0 /\ cpu'[d].end = 0
    BY <1>1, <1>4, AnswerIs
  <2>3. InRange(d)'
    BY <1>1, <2>2, HatGeometry DEF InRange
  <2> QED
    BY <2>1, <2>3, Breaks DEF Kept, OwnData
<1>5. CASE Free(d) /\ unseen' = unseen /\ Answer(d, FALSE)
  BY <1>1, <1>5, AnswerKeepsData
<1>6. CASE Free(d) /\ unseen' = unseen /\ cpu[d].op = "read" /\ Goto(d, "03h")
  <2>1. /\ cpu'[d].op = cpu[d].op /\ cpu'[d].at = "03h" /\ cpu'[d].pos = cpu[d].pos
        /\ cpu'[d].end = cpu[d].end /\ cpu'[d].answer = cpu[d].answer
    BY <1>1, <1>6, GotoIs
  <2>2. DataType' /\ InRange(d)' /\ (unseen[d] \/ InTune(d)')
    BY <1>1, <1>6, <2>1 DEF DataType, InRange, InTune, Free
  <2>3. ToDo(d)' = ToDo(d)
    BY <1>6, <2>1 DEF ToDo
  <2>4. DeviceStep(d)
    BY <1>1, <1>6, <2>1, <2>3, Stutters DEF SameData, Failed
  <2> QED
    BY <1>6, <2>2, <2>4 DEF Kept, OwnData
<1>7. CASE /\ Free(d) /\ unseen' = unseen /\ ~chip[d].fail
           /\ \/ cpu[d].op = "write" /\ Advance(d, 1)
              \/ cpu[d].op = "erase" /\ Advance(d, BLOCK_PAGES)
  <2>1. PICK k \in Nat \ {0} : Advance(d, k) /\ k = IF cpu[d].op = "write" THEN 1 ELSE BLOCK_PAGES
    BY <1>7, ChipGeometry
  <2>2. /\ cpu'[d].op = cpu[d].op /\ cpu'[d].at = "next" /\ cpu'[d].pos = cpu[d].pos + k
        /\ cpu'[d].end = cpu[d].end /\ cpu'[d].answer = cpu[d].answer
    BY <1>1, <2>1, AdvanceIs
  <2>3. cpu[d].pos + k <= cpu[d].end /\ (cpu[d].op = "erase" => (cpu[d].pos + k) % BLOCK_PAGES = 0)
    <3>1. CASE cpu[d].op = "write"
      BY <1>2, <2>1, <3>1
    <3>2. CASE cpu[d].op = "erase"
      <4>1. cpu[d].pos % BLOCK_PAGES = 0 /\ cpu[d].end % BLOCK_PAGES = 0 /\ cpu[d].pos < cpu[d].end /\ k = BLOCK_PAGES
        BY <1>1, <1>2, <2>1, <3>2 DEF InRange
      <4> QED
        BY <1>2, <4>1, ChipGeometry, Blocks
    <3> QED
      BY <1>7, <3>1, <3>2
  <2>4. DataType'
    BY <1>1, <1>7 DEF DataType
  <2>5. InRange(d)'
    BY <1>1, <2>2, <2>3 DEF InRange
  <2>6. unseen[d] \/ InTune(d)'
    BY <1>1, <1>7, <2>2 DEF InTune, Free
  <2>7. ToDo(d)' = ToDo(d)
    BY <1>1, <1>7, <2>1, <2>2 DEF ToDo, Free
  <2>8. DeviceStep(d)
    BY <1>1, <1>7, <2>2, <2>7, Stutters DEF SameData, Failed
  <2> QED
    BY <1>7, <2>4, <2>5, <2>6, <2>8 DEF Kept, OwnData
<1> QED
  BY <1>1, <1>3, <1>4, <1>5, <1>6, <1>7 DEF Poll, ReportedFailed

\* What a chip leaves in its cells when it ends well, and when it is cut short.
LEMMA ChipWorks ==
    ASSUME NEW c \in ChipState, c.busy # "no", c.target \in HatPage
    PROVE  /\ Completed(c) \in ChipState
           /\ Completed(c).busy = "no" /\ Completed(c).protected = c.protected
           /\ c.busy = "read" => /\ Completed(c).cells = c.cells /\ Completed(c).buf = c.cells[c.target]
                                 /\ Completed(c).wel = c.wel /\ Completed(c).fail = c.fail
           /\ ~c.protected /\ c.busy # "read" => Completed(c).fail = c.fail
           /\ ~c.protected /\ c.busy = "program" =>
                 Completed(c).cells = [p \in HatPage |-> IF p = c.target THEN c.cells[p] \cup c.buf ELSE c.cells[p]]
           /\ ~c.protected /\ c.busy = "erase" =>
                 Completed(c).cells = [p \in HatPage |-> IF p \in Block(c, c.target) THEN {} ELSE c.cells[p]]
<1>1. c.cells \in [HatPage -> SUBSET Bit] /\ c.buf \in SUBSET Bit /\ DOMAIN c.cells = HatPage
  BY DEF ChipState
<1>2. CASE c.busy = "read"
  <2>1. Completed(c) = [c EXCEPT !.buf = c.cells[c.target], !.busy = "no"] /\ c.cells[c.target] \in SUBSET Bit
    BY <1>1, <1>2 DEF Completed
  <2>2. Completed(c) \in ChipState
    BY <2>1 DEF ChipState
  <2> QED
    BY <1>2, <2>1, <2>2 DEF ChipState
<1>3. CASE c.busy # "read" /\ c.protected
  <2>1. Completed(c) = [Ended(c, c.cells) EXCEPT !.fail = TRUE]
    BY <1>3 DEF Completed
  <2>2. /\ [Ended(c, c.cells) EXCEPT !.fail = TRUE] \in ChipState
        /\ [Ended(c, c.cells) EXCEPT !.fail = TRUE].busy = "no"
        /\ [Ended(c, c.cells) EXCEPT !.fail = TRUE].protected = c.protected
    BY <1>1, ChipEnds
  <2>3. Completed(c) \in ChipState /\ Completed(c).busy = "no" /\ Completed(c).protected = c.protected
    BY <2>1, <2>2, Zenon
  <2> QED
    BY <1>3, <2>3
<1>4. CASE c.busy = "program" /\ ~c.protected
  <2>1. PICK cells : cells = [p \in HatPage |-> IF p = c.target THEN c.cells[p] \cup c.buf ELSE c.cells[p]]
    OBVIOUS
  <2>2. cells \in [HatPage -> SUBSET Bit] /\ cells = [c.cells EXCEPT ![c.target] = @ \cup c.buf]
    BY <1>1, <2>1
  <2>3. Completed(c) = Ended(c, cells)
    BY <1>4, <2>2 DEF Completed
  <2>4. Ended(c, cells) \in ChipState /\ Ended(c, cells).cells = cells /\ Ended(c, cells).busy = "no"
        /\ Ended(c, cells).protected = c.protected /\ Ended(c, cells).fail = c.fail
    BY <2>2, ChipEnds, ZenonT(30)
  <2> QED
    BY <1>4, <2>1, <2>3, <2>4
<1>5. CASE c.busy = "erase" /\ ~c.protected
  <2>1. PICK cells : cells = [p \in HatPage |-> IF p \in Block(c, c.target) THEN {} ELSE c.cells[p]]
    OBVIOUS
  <2>2. cells \in [HatPage -> SUBSET Bit] /\ cells = Erased(c, Block(c, c.target))
    BY <1>1, <2>1 DEF Erased
  <2>3. Completed(c) = Ended(c, cells)
    BY <1>5, <2>2 DEF Completed
  <2>4. Ended(c, cells) \in ChipState /\ Ended(c, cells).cells = cells /\ Ended(c, cells).busy = "no"
        /\ Ended(c, cells).protected = c.protected /\ Ended(c, cells).fail = c.fail
    BY <2>2, ChipEnds
  <2> QED
    BY <1>5, <2>1, <2>3, <2>4
<1> QED
  BY <1>2, <1>3, <1>4, <1>5 DEF ChipState

LEMMA CutShortLeaves ==
    ASSUME NEW c \in ChipState, c.target \in HatPage, NEW cells \in CutShort(c)
    PROVE  /\ cells \in [HatPage -> SUBSET Bit]
           /\ c.busy = "program" => \A p \in HatPage : /\ c.cells[p] \subseteq cells[p] /\ cells[p] \subseteq c.cells[p] \cup c.buf
                                                       /\ p # c.target => cells[p] = c.cells[p]
           /\ c.busy = "erase" => \A p \in HatPage : /\ cells[p] \subseteq c.cells[p]
                                                     /\ p \notin Block(c, c.target) => cells[p] = c.cells[p]
<1>1. c.cells \in [HatPage -> SUBSET Bit] /\ c.buf \in SUBSET Bit /\ DOMAIN c.cells = HatPage
  BY DEF ChipState
<1>2. CASE c.busy = "program"
  <2>1. PICK part \in SUBSET c.buf : cells = [c.cells EXCEPT ![c.target] = @ \cup part]
    BY <1>2 DEF CutShort
  <2> QED
    BY <1>1, <1>2, <2>1
<1>3. CASE c.busy = "erase"
  <2>1. PICK gone \in SUBSET Block(c, c.target) : cells = Erased(c, gone)
    BY <1>3 DEF CutShort
  <2> QED
    BY <1>1, <1>3, <2>1 DEF Erased
<1>4. CASE c.busy \notin {"program", "erase"}
  <2>1. cells = c.cells
    BY <1>4 DEF CutShort
  <2> QED
    BY <1>1, <1>4, <2>1
<1> QED
  BY <1>2, <1>3, <1>4


LEMMA ChipStepKeepsData == ASSUME HatInv, NEW d \in Device, ChipStep(d) PROVE Kept(d)
<1>1. /\ BusType /\ Own(d) /\ DataType /\ InRange(d) /\ (unseen[d] \/ InTune(d)) /\ chip[d] \in ChipState
      /\ opened' = opened /\ cpu' = cpu /\ buffer' = buffer /\ unseen' = unseen
      /\ ~Free(d) /\ chip[d].target \in HatPage
  BY HatFacts DEF ChipStep, BusUnchanged, InRange, Free
<1>2. PICK after :
        /\ chip' = [chip EXCEPT ![d] = after]
        /\ \/ after = Completed(chip[d])
           \/ /\ chip[d].busy # "read"
              /\ \E cells \in CutShort(chip[d]) : after = [Ended(chip[d], cells) EXCEPT !.fail = TRUE]
  BY DEF ChipStep
<1>3. after \in ChipState /\ after.busy = "no" /\ after.protected = chip[d].protected
  <2>1. CASE after = Completed(chip[d])
    BY <1>1, <2>1, ChipWorks DEF Free
  <2>2. ASSUME NEW cells \in CutShort(chip[d]), after = [Ended(chip[d], cells) EXCEPT !.fail = TRUE]
        PROVE  after \in ChipState /\ after.busy = "no" /\ after.protected = chip[d].protected
    <3>1. cells \in [HatPage -> SUBSET Bit]
      BY <1>1, CutShortLeaves
    <3>2. /\ [Ended(chip[d], cells) EXCEPT !.fail = TRUE] \in ChipState
          /\ [Ended(chip[d], cells) EXCEPT !.fail = TRUE].busy = "no"
          /\ [Ended(chip[d], cells) EXCEPT !.fail = TRUE].protected = chip[d].protected
      BY <1>1, <3>1, ChipEnds
    <3> QED
      BY <2>2, <3>2, Zenon
  <2> QED
    BY <1>2, <2>1, <2>2
<1>4. DataType' /\ chip'[d] = after
  BY <1>1, <1>2, <1>3 DEF DataType
<1>5. InRange(d)'
  BY <1>1, <1>3, <1>4 DEF InRange
<1>6. CASE unseen[d]
  BY <1>1, <1>4, <1>5, <1>6, Breaks DEF Kept, OwnData
<1>7. CASE ~unseen[d]
  <2>1. /\ cpu[d].op \in {"read", "write", "erase"} /\ cpu[d].at = "0Fh" /\ chip[d].target = cpu[d].pos
        /\ chip[d].busy = Works(d) /\ (cpu[d].op = "write" => chip[d].buf = Bit) /\ ~chip[d].protected
    <3>1. InTune(d) /\ d \in opened
      BY <1>1, <1>7 DEF InTune, Own
    <3> QED
      BY <1>1, <3>1 DEF InTune, InRange, Own, InExclusive, InShared, Outside
  <2>2. cpu[d].pos \in HatPage /\ cpu[d].pos \in Nat /\ cpu[d].end \in Nat /\ cpu[d].pos + 1 <= cpu[d].end
        /\ cpu[d].end <= NumPages
    BY <1>1, <2>1, PageAt DEF InRange
  <2>3. cpu[d].op = "erase" =>
          /\ cpu[d].pos + BLOCK_PAGES <= cpu[d].end
          /\ \A p \in HatPage : p \in Block(chip[d], chip[d].target) <=> p \in cpu[d].pos .. cpu[d].pos + BLOCK_PAGES - 1
    <3>1. SUFFICES ASSUME cpu[d].op = "erase"
                   PROVE  /\ cpu[d].pos + BLOCK_PAGES <= cpu[d].end
                          /\ \A p \in HatPage : p \in Block(chip[d], chip[d].target) <=> p \in cpu[d].pos .. cpu[d].pos + BLOCK_PAGES - 1
      OBVIOUS
    <3>2. cpu[d].pos % BLOCK_PAGES = 0 /\ cpu[d].end % BLOCK_PAGES = 0
      BY <1>1, <3>1 DEF InRange
    <3>3. cpu[d].pos + BLOCK_PAGES <= cpu[d].end
      BY <2>2, <3>2, ChipGeometry, Blocks, SMTT(30)
    <3>4. ASSUME NEW p \in HatPage
          PROVE  p \in Block(chip[d], chip[d].target) <=> p \in cpu[d].pos .. cpu[d].pos + BLOCK_PAGES - 1
      <4>1. p \in Nat /\ BLOCK_PAGES \in Nat \ {0}
        BY ChipGeometry DEF HatPage
      <4>2. p \div BLOCK_PAGES = cpu[d].pos \div BLOCK_PAGES <=> cpu[d].pos <= p /\ p < cpu[d].pos + BLOCK_PAGES
        BY <2>2, <3>2, <4>1, BlockOf
      <4>3. p \in Block(chip[d], chip[d].target) <=> p \div BLOCK_PAGES = cpu[d].pos \div BLOCK_PAGES
        BY <1>1, <2>1 DEF Block, ChipState
      <4> QED
        BY <2>2, <4>1, <4>2, <4>3
    <3> QED
      BY <3>3, <3>4
  <2>4. /\ ToDo(d) = cpu[d].pos .. cpu[d].end - 1
        /\ cpu[d].op = "read" => ToDo(d)' = cpu[d].pos .. cpu[d].end - 1
        /\ cpu[d].op = "write" => ToDo(d)' = cpu[d].pos + 1 .. cpu[d].end - 1
        /\ cpu[d].op = "erase" => ToDo(d)' = cpu[d].pos + BLOCK_PAGES .. cpu[d].end - 1
    BY <1>1, <1>3, <1>4, <2>1 DEF ToDo, Free
  <2>5. CASE after = Completed(chip[d])
    <3>1. InTune(d)'
      <4>1. cpu[d].op = "read" => after.buf = after.cells[cpu[d].pos]
        BY <1>1, <2>1, <2>5, ChipWorks DEF Works, Free
      <4> QED
        BY <1>1, <1>3, <1>4, <2>1, <4>1 DEF InTune, Free
    <3>2. after.fail = chip[d].fail
      BY <1>1, <2>1, <2>5, ChipWorks DEF Works, Free
    <3>3. Failed(d)' <=> Failed(d)
      BY <1>1, <1>4, <3>2 DEF Failed
    <3>4. CASE cpu[d].op = "read"
      <4>1. after.cells = chip[d].cells
        BY <1>1, <2>1, <2>5, <3>4, ChipWorks DEF Works, Free
      <4>2. DeviceStep(d)
        BY <1>1, <1>4, <2>4, <3>3, <3>4, <4>1, Stutters DEF SameData
      <4> QED
        BY <1>1, <1>4, <1>5, <3>1, <4>2 DEF Kept, OwnData
    <3>5. CASE cpu[d].op = "write"
      <4>1. after.cells = [p \in HatPage |-> IF p = cpu[d].pos THEN chip[d].cells[p] \cup Bit ELSE chip[d].cells[p]]
        <5>1. chip[d].busy = "program" /\ chip[d].target = cpu[d].pos /\ chip[d].buf = Bit /\ ~chip[d].protected
          BY <2>1, <3>5 DEF Works
        <5>2. Completed(chip[d]).cells = [p \in HatPage |-> IF p = chip[d].target THEN chip[d].cells[p] \cup chip[d].buf
                                                                               ELSE chip[d].cells[p]]
          BY <1>1, <5>1, ChipWorks
        <5> QED
          BY <2>5, <5>1, <5>2
      <4>2. ToDo(d)' \subseteq ToDo(d) /\ ToDo(d)' # ToDo(d) /\ ToDo(d) \ ToDo(d)' = {cpu[d].pos}
        BY <2>2, <2>4, <3>5
      <4>3. DOMAIN chip[d].cells = HatPage /\ \A p \in HatPage : Data[p] = Bit
        BY <1>1 DEF ChipState, Data, HatPage
      <4>4. chip'[d].cells = [p \in DOMAIN chip[d].cells |->
                                 IF p \in {cpu[d].pos} THEN chip[d].cells[p] \cup Data[p] ELSE chip[d].cells[p]]
        BY <1>4, <4>1, <4>3
      <4>5. DeviceStep(d)
        BY <1>1, <3>3, <3>5, <4>2, <4>4, Advances
      <4> QED
        BY <1>1, <1>4, <1>5, <3>1, <4>5 DEF Kept, OwnData
    <3>6. CASE cpu[d].op = "erase"
      <4>1. after.cells = [p \in HatPage |-> IF p \in Block(chip[d], chip[d].target) THEN {} ELSE chip[d].cells[p]]
        BY <1>1, <2>1, <2>5, <3>6, ChipWorks DEF Works, Free
      <4>2. PICK done : done = cpu[d].pos .. cpu[d].pos + BLOCK_PAGES - 1
        OBVIOUS
      <4>3. ToDo(d)' \subseteq ToDo(d) /\ ToDo(d)' # ToDo(d) /\ ToDo(d) \ ToDo(d)' = done
        BY <2>2, <2>3, <2>4, <3>6, <4>2, ChipGeometry, SMTT(30)
      <4>4. chip'[d].cells = [p \in DOMAIN chip[d].cells |-> IF p \in done THEN {} ELSE chip[d].cells[p]]
        BY <1>1, <1>4, <2>3, <3>6, <4>1, <4>2 DEF ChipState
      <4>5. DeviceStep(d)
        <5>1. cpu'[d].op = cpu[d].op /\ unseen'[d] = unseen[d] /\ buffer'[d] = buffer[d]
          BY <1>1
        <5> QED
          BY <3>3, <3>6, <4>3, <4>4, <5>1, Advances
      <4> QED
        BY <1>1, <1>4, <1>5, <3>1, <4>5 DEF Kept, OwnData
    <3> QED
      BY <2>1, <3>4, <3>5, <3>6
  <2>6. ASSUME chip[d].busy # "read", NEW cells \in CutShort(chip[d]),
               after = [Ended(chip[d], cells) EXCEPT !.fail = TRUE]
        PROVE  Kept(d)
    <3>1. /\ cells \in [HatPage -> SUBSET Bit] /\ cpu[d].op \in {"write", "erase"}
          /\ cpu[d].op = "write" => \A p \in HatPage : /\ chip[d].cells[p] \subseteq cells[p] /\ cells[p] \subseteq chip[d].cells[p] \cup Bit
                                                       /\ p # cpu[d].pos => cells[p] = chip[d].cells[p]
          /\ cpu[d].op = "erase" => \A p \in HatPage : /\ cells[p] \subseteq chip[d].cells[p]
                                                       /\ p \notin Block(chip[d], chip[d].target) => cells[p] = chip[d].cells[p]
      BY <1>1, <2>1, <2>6, CutShortLeaves DEF Works
    <3>2. after.cells = cells /\ after.fail
      <4>1. /\ [Ended(chip[d], cells) EXCEPT !.fail = TRUE].cells = cells
            /\ [Ended(chip[d], cells) EXCEPT !.fail = TRUE].fail
        BY <1>1, <3>1, ChipEnds, ZenonT(30)
      <4> QED
        BY <2>6, <4>1, Zenon
    <3>3. InTune(d)'
      BY <1>1, <1>3, <1>4, <2>1, <3>1 DEF InTune, Free
    <3>4. DOMAIN chip[d].cells = HatPage /\ DOMAIN chip'[d].cells = HatPage /\ \A p \in HatPage : Data[p] = Bit
      BY <1>1, <1>4, <3>1, <3>2 DEF ChipState, Data, HatPage
    <3>5. ASSUME NEW p \in HatPage, cells[p] # chip[d].cells[p] PROVE p \in ToDo(d)
      <4>1. CASE cpu[d].op = "write"
        BY <2>2, <2>4, <3>1, <3>5, <4>1
      <4>2. CASE cpu[d].op = "erase"
        <5>1. p \in cpu[d].pos .. cpu[d].pos + BLOCK_PAGES - 1 /\ cpu[d].pos + BLOCK_PAGES <= cpu[d].end
          BY <2>3, <3>1, <3>5, <4>2
        <5> QED
          BY <2>2, <2>4, <5>1, ChipGeometry
      <4> QED
        BY <3>1, <4>1, <4>2
    <3>6. ASSUME NEW p \in ToDo(d) PROVE AsDevice(d)!Partial(p, cells[p])
      <4>1. p \in HatPage
        BY <2>2, <2>4, HatGeometry DEF HatPage
      <4>2. CASE cpu[d].op = "write"
        BY <3>1, <3>4, <4>1, <4>2 DEF AsDevice!Partial
      <4>3. CASE cpu[d].op = "erase"
        BY <3>1, <4>1, <4>3 DEF AsDevice!Partial
      <4> QED
        BY <3>1, <4>2, <4>3
    <3>7. chip'[d].cells = cells /\ Failed(d)'
      BY <1>1, <1>4, <2>1, <3>1, <3>2 DEF Failed
    <3>8. DeviceStep(d)
      BY <1>1, <2>1, <3>4, <3>5, <3>6, <3>7, Spoils
    <3> QED
      BY <1>1, <1>4, <1>5, <3>3, <3>8 DEF Kept, OwnData
  <2> QED
    BY <1>2, <2>5, <2>6
<1> QED
  BY <1>6, <1>7
-----------------------------------------------------------------------------
(* The others *)

\* Every step is of one chip and its thread, and leaves the others' data alone.
LEMMA OthersData ==
    ASSUME NEW d \in Device,
           Open(d) \/ Call(d) \/ Lock(d) \/ Thread(d) \/ ChipStep(d), BusType, DataType, BusType', DataType'
    PROVE  \A e \in Device \ {d} : /\ chip'[e] = chip[e] /\ buffer'[e] = buffer[e] /\ unseen'[e] = unseen[e]
                                   /\ cpu'[e] = cpu[e] /\ (e \in opened' => e \in opened)
<1> TAKE e \in Device \ {d}
<1>1. CASE Open(d)
  BY <1>1 DEF Open, Registered, DataType, BusType
<1>10. CASE Call(d)
  BY <1>10, ZenonT(30) DEF Call, ChipsUnchanged, BusUnchanged, DataType, BusType
<1>2. CASE Lock(d)
  BY <1>2 DEF Lock, LockExclusive, LockShared, Goto, ChipsUnchanged, BusUnchanged, DataType, BusType
<1>3. CASE Select(d) \/ QuadData(d)
  BY <1>3 DEF Select, QuadData, Goto, ChipsUnchanged, DataType, BusType
<1>4. CASE Command(d)
  BY <1>4 DEF Command, Reaches, Goto, DataType, BusType
<1>5. CASE QuadDone(d)
  BY <1>5 DEF QuadDone, Reaches, Goto, Answer, DataType, BusType
<1>6. CASE ReadBuf(d)
  BY <1>6 DEF ReadBuf, Advance, Answer, DataType, BusType
<1>7. CASE Poll(d)
  BY <1>7 DEF Poll, Goto, Advance, Answer, DataType, BusType
<1>8. CASE NextPart(d)
  BY <1>8 DEF NextPart, Goto, Answer, ChipsUnchanged, BusUnchanged, DataType, BusType
<1>9. CASE ChipStep(d)
  BY <1>9 DEF ChipStep, BusUnchanged, DataType, BusType
<1> QED
  BY <1>1, <1>2, <1>3, <1>4, <1>5, <1>6, <1>7, <1>8, <1>9, <1>10 DEF Thread

LEMMA InitData == Init => HatInv
<1> SUFFICES ASSUME Init PROVE HatInv
  OBVIOUS
<1>1. BusInv
  BY InitBus
<1>2. DataType
  BY DEF Init, NewChip, DataType, ChipState, HatPage
<1>3. \A d \in Device : OwnData(d)
  BY HatGeometry, ChipGeometry DEF Init, NewChip, IdleCpu, OwnData, InRange, InTune, Free
<1> QED
  BY <1>1, <1>2, <1>3 DEF HatInv

LEMMA StepKeepsData == HatInv /\ [Next]_vars => HatInv' /\ \A d \in Device : DeviceStep(d)
<1> SUFFICES ASSUME HatInv, [Next]_vars PROVE HatInv' /\ \A d \in Device : DeviceStep(d)
  OBVIOUS
<1>1. BusInv'
  BY StepKeepsBus DEF HatInv
<1>2. ASSUME NEW e \in Device, chip'[e] = chip[e], buffer'[e] = buffer[e], unseen'[e] = unseen[e],
             cpu'[e] = cpu[e], e \in opened' => e \in opened
      PROVE  OwnData(e)' /\ DeviceStep(e)
  <2>1. OwnData(e)'
    BY <1>2 DEF HatInv, OwnData, InRange, InTune, Free, Works
  <2>2. ToDo(e)' = ToDo(e)
    BY <1>2 DEF ToDo, Free
  <2>3. DeviceStep(e)
    BY <1>2, <2>2, Stutters DEF SameData, Failed
  <2> QED
    BY <2>1, <2>3
<1>3. CASE UNCHANGED vars
  <2>1. chip' = chip /\ buffer' = buffer /\ unseen' = unseen /\ cpu' = cpu /\ opened' = opened
    BY <1>3 DEF vars
  <2>2. DataType'
    BY <2>1 DEF HatInv, DataType
  <2> QED
    BY <1>1, <1>2, <2>1, <2>2 DEF HatInv
<1>4. ASSUME NEW d \in Device, Open(d) \/ Call(d) \/ Lock(d) \/ Thread(d) \/ ChipStep(d)
      PROVE  HatInv' /\ \A e \in Device : DeviceStep(e)
  <2>1. Kept(d)
    BY <1>1, <1>4, OpenKeepsData, CallKeepsData, LockKeepsData, SelectKeepsData, CommandKeepsData, QuadDataKeepsData,
       QuadDoneKeepsData, ReadBufKeepsData, PollKeepsData, NextPartKeepsData, ChipStepKeepsData DEF Thread
  <2>2. DataType' /\ OwnData(d)' /\ DeviceStep(d)
    BY <2>1 DEF Kept
  <2>3. \A e \in Device \ {d} : OwnData(e)' /\ DeviceStep(e)
    <3>1. BusType /\ DataType /\ BusType' /\ DataType'
      BY <1>1, <2>2 DEF HatInv, BusInv
    <3>2. \A e \in Device \ {d} : /\ chip'[e] = chip[e] /\ buffer'[e] = buffer[e] /\ unseen'[e] = unseen[e]
                                  /\ cpu'[e] = cpu[e] /\ (e \in opened' => e \in opened)
      BY <1>4, <3>1, OthersData
    <3> QED
      BY <1>2, <3>2
  <2> QED
    BY <1>1, <2>2, <2>3 DEF HatInv
<1> QED
  BY <1>3, <1>4 DEF Next
-----------------------------------------------------------------------------

\* The chips, their threads and the bus stay well formed: a thread's position
\* stays inside its operation and a chip holds a page for each of its pages.
THEOREM TypeCorrect == Spec => []TypeOK
<1>1. Spec => []HatInv
  BY InitData, StepKeepsData, PTL DEF Spec
<1>2. HatInv => TypeOK
  <2> SUFFICES ASSUME HatInv PROVE TypeOK
    OBVIOUS
  <2>1. ASSUME NEW d \in Device
        PROVE  /\ chip[d].cells \in [0 .. NumPages - 1 -> SUBSET Bit] /\ cpu[d].pos \in 0 .. cpu[d].end
               /\ mode[d] \in {"none", "fdx", "qtx"} /\ sm[d] \in {"off", "fdx", "qtx"} /\ cs[d] \in {"high", "low"}
    <3>1. chip[d].cells \in [0 .. NumPages - 1 -> SUBSET Bit]
      BY HatFacts DEF ChipState, HatPage
    <3>2. cpu[d].pos \in 0 .. cpu[d].end
      BY HatFacts DEF BusType, InRange
    <3> QED
      BY <3>1, <3>2, HatFacts DEF BusType
  <2> QED
    BY <2>1 DEF TypeOK, HatInv, BusInv, BusType
<1> QED
  BY <1>1, <1>2, PTL

\* Each chip is the device its CPU expects, whatever the threads of the other
\* chips do and whatever fails: pages change only as the operation says, and
\* "ok" means that all of it is done (W25NFlashDevice.cpp and w25n_pio.c).
THEOREM ImplementsDevices == Spec => RefinesDevices
<1>1. Init => \A d \in Device : AsDevice(d)!Init
  BY DEF Init, AsDevice!Init, AsDevice!Idle, IdleCpu
<1>2. Spec => []HatInv
  BY InitData, StepKeepsData, PTL DEF Spec
<1>3. HatInv /\ [Next]_vars => \A d \in Device : DeviceStep(d)
  BY StepKeepsData
<1> QED
  BY <1>1, <1>2, <1>3, PTL DEF Spec, RefinesDevices
=============================================================================
