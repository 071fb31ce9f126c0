-------------------------- MODULE ClientTracker --------------------------
(***************************************************************************)
(* ClientTracker::touch of src/server/server.cpp: a table of MAXC slots    *)
(* that says how many clients sent a request within the last second.  A    *)
(* slot is [key, live]; live ends when the second is over.  The table is   *)
(* a sequence, as the slots in use are the first n.                        *)
(***************************************************************************)
EXTENDS Naturals, Sequences, FiniteSets, FiniteSetsExt

CONSTANT MAXC

ASSUME TrackerAssumption == MAXC \in Nat \ {0}

Slot(key, live) == [key |-> key, live |-> live]
Known(ent) == {ent[i].key : i \in DOMAIN ent}
Live(ent) == {i \in DOMAIN ent : ent[i].live}
Remembered(ent) == {ent[i].key : i \in Live(ent)}

\* mutant: the first slot is taken over although its second is not over
FirstSlot(ent) == DOMAIN ent

\* Slots that a new client may take over.
Expired(ent) == DOMAIN ent \ Live(ent)

\* The table after a request of c.  A client that finds no slot is counted
\* below but not remembered.
Touched(ent, c) ==
    IF c \in Known(ent)
    THEN [i \in DOMAIN ent |-> IF ent[i].key = c THEN Slot(c, TRUE) ELSE ent[i]]
    ELSE IF Expired(ent) # {} THEN [ent EXCEPT ![Min(Expired(ent))] = Slot(c, TRUE)]
    ELSE IF Len(ent) < MAXC THEN Append(ent, Slot(c, TRUE))
    ELSE ent

\* What touch returns.
Active(ent, c) == Cardinality(Remembered(ent) \cup {c})

\* A second passes without a request of c.
Expire(ent, c) == [i \in DOMAIN ent |-> IF ent[i].key = c THEN Slot(c, FALSE) ELSE ent[i]]
==========================================================================
