------------------------- MODULE FlashServiceProofs -------------------------
(***************************************************************************)
(* Theorems about FlashService for any number of clients, workers, lanes,  *)
(* retries, losses and slots of the tracker.  Timeouts come at any time,   *)
(* but for the theorems that assume ~Spurious: there a timer only fires    *)
(* when no answer to the call is under way.                                *)
(***************************************************************************)
EXTENDS FlashService, FiniteSetTheorems, SequenceTheorems, WellFoundedInduction, TLAPS

(* Sequences without repetitions *)

LEMMA PopHead ==
    ASSUME NEW S, NEW s \in Seq(S), s # <<>>
    PROVE  /\ Head(s) \in S /\ Head(s) \in ToSet(s) /\ Tail(s) \in Seq(S)
           /\ ToSet(Tail(s)) \subseteq ToSet(s)
           /\ IsInjective(s) => IsInjective(Tail(s)) /\ Head(s) \notin ToSet(Tail(s))
<1>1. Len(s) \in Nat \ {0} /\ Tail(s) \in Seq(S) /\ Len(Tail(s)) = Len(s) - 1
  OBVIOUS
<1>2. DOMAIN s = 1 .. Len(s) /\ DOMAIN Tail(s) = 1 .. Len(s) - 1
  BY <1>1
<1>3. \A i \in 1 .. Len(s) - 1 : Tail(s)[i] = s[i + 1]
  BY <1>1
<1>4. Head(s) = s[1]
  BY <1>1
<1> QED
  BY <1>1, <1>2, <1>3, <1>4 DEF ToSet, IsInjective

LEMMA PushLast ==
    ASSUME NEW S, NEW s \in Seq(S), NEW d \in S
    PROVE  /\ Append(s, d) \in Seq(S)
           /\ ToSet(Append(s, d)) = ToSet(s) \cup {d}
           /\ IsInjective(s) /\ d \notin ToSet(s) => IsInjective(Append(s, d))
<1>1. Append(s, d) \in Seq(S) /\ Len(s) \in Nat /\ Len(Append(s, d)) = Len(s) + 1
  OBVIOUS
<1>2. DOMAIN s = 1 .. Len(s) /\ DOMAIN Append(s, d) = 1 .. Len(s) + 1
  BY <1>1
<1>3. \A i \in 1 .. Len(s) : Append(s, d)[i] = s[i]
  BY <1>1
<1>4. Append(s, d)[Len(s) + 1] = d
  BY <1>1
<1>5. ToSet(Append(s, d)) = ToSet(s) \cup {d}
  BY <1>1, <1>2, <1>3, <1>4 DEF ToSet
<1>6. ASSUME IsInjective(s), d \notin ToSet(s) PROVE IsInjective(Append(s, d))
  BY <1>1, <1>2, <1>3, <1>4, <1>6 DEF ToSet, IsInjective
<1> QED
  BY <1>1, <1>5, <1>6

LEMMA EmptyQueue == ToSet(<<>>) = {} /\ IsInjective(<<>>)
BY DEF ToSet, IsInjective

LEMMA ShorterRest ==
    ASSUME NEW S, NEW s \in Seq(S), NEW k \in 0 .. Len(s)
    PROVE  /\ SubSeq(s, k + 1, Len(s)) \in Seq(S)
           /\ ToSet(SubSeq(s, k + 1, Len(s))) \subseteq ToSet(s)
           /\ k = 0 => SubSeq(s, k + 1, Len(s)) = s
           /\ k = Len(s) => SubSeq(s, k + 1, Len(s)) = <<>>
           /\ k < Len(s) => /\ SubSeq(s, k + 1, Len(s)) # <<>>
                            /\ Head(SubSeq(s, k + 1, Len(s))) = s[k + 1]
                            /\ Tail(SubSeq(s, k + 1, Len(s))) = SubSeq(s, k + 2, Len(s))
<1> DEFINE rest == SubSeq(s, k + 1, Len(s))
<1>1. Len(s) \in Nat /\ k \in Nat /\ k <= Len(s) /\ \A i \in 1 .. Len(s) : s[i] \in S
  OBVIOUS
<1>2. /\ rest \in Seq(S) /\ Len(rest) = Len(s) - k
      /\ \A i \in 1 .. Len(s) - k : rest[i] = s[k + i]
  <2>1. \A i \in k + 1 .. Len(s) : s[i] \in S
    BY <1>1
  <2> QED
    BY <1>1, <2>1
<1>3. ToSet(rest) \subseteq ToSet(s)
  BY <1>1, <1>2 DEF ToSet
<1>4. ASSUME k = 0 PROVE rest = s
  <2>1. Len(rest) = Len(s) /\ \A i \in 1 .. Len(s) : rest[i] = s[i]
    BY <1>1, <1>2, <1>4
  <2> QED
    BY <1>2, <2>1, SeqEqual
<1>5. ASSUME k = Len(s) PROVE rest = <<>>
  BY <1>1, <1>2, <1>5
<1>6. ASSUME k < Len(s) PROVE /\ rest # <<>> /\ Head(rest) = s[k + 1]
                              /\ Tail(rest) = SubSeq(s, k + 2, Len(s))
  <2> DEFINE next == SubSeq(s, k + 2, Len(s))
  <2>1. /\ next \in Seq(S) /\ Len(next) = Len(s) - k - 1
        /\ \A i \in 1 .. Len(s) - k - 1 : next[i] = s[k + 1 + i]
    <3>1. \A i \in k + 2 .. Len(s) : s[i] \in S
      BY <1>1
    <3> QED
      BY <1>1, <1>6, <3>1
  <2>2. /\ rest # <<>> /\ Head(rest) = s[k + 1]
    <3> HIDE DEF rest
    <3>1. Len(rest) \in Nat \ {0} /\ rest[1] = s[k + 1]
      BY <1>1, <1>2, <1>6
    <3> QED
      BY <1>2, <3>1
  <2> HIDE DEF rest, next
  <2>3. /\ Tail(rest) \in Seq(S) /\ Len(Tail(rest)) = Len(s) - k - 1
        /\ \A i \in 1 .. Len(s) - k - 1 : Tail(rest)[i] = rest[i + 1]
    BY <1>1, <1>2, <1>6, <2>2
  <2>4. \A i \in 1 .. Len(s) - k - 1 : Tail(rest)[i] = next[i]
    BY <1>1, <1>2, <1>6, <2>1, <2>3
  <2>5. Tail(rest) = next
    BY <2>1, <2>3, <2>4, SeqEqual
  <2> QED
    BY <2>2, <2>5 DEF next, rest
<1> QED
  BY <1>2, <1>3, <1>4, <1>5, <1>6

(* Queues that share no element and repeat none *)

Apart(P, Q) == \A p, q \in P : /\ IsInjective(Q[p])
                               /\ p # q => ToSet(Q[p]) \cap ToSet(Q[q]) = {}

LEMMA ApartPop ==
    ASSUME NEW P, NEW D, NEW Q \in [P -> Seq(D)], NEW R \in [P -> Seq(D)], NEW p \in P,
           Apart(P, Q), Q[p] # <<>>, R[p] = Tail(Q[p]), \A q \in P \ {p} : R[q] = Q[q]
    PROVE  /\ Apart(P, R)
           /\ \A q \in P : Head(Q[p]) \notin ToSet(R[q])
<1>1. /\ Head(Q[p]) \in ToSet(Q[p]) /\ ToSet(R[p]) \subseteq ToSet(Q[p])
      /\ IsInjective(R[p]) /\ Head(Q[p]) \notin ToSet(R[p])
  BY PopHead DEF Apart
<1>2. \A q \in P : ToSet(R[q]) \subseteq ToSet(Q[q]) /\ IsInjective(R[q])
  BY <1>1 DEF Apart
<1>3. Apart(P, R)
  BY <1>2 DEF Apart
<1>4. \A q \in P \ {p} : Head(Q[p]) \notin ToSet(R[q])
  BY <1>1 DEF Apart
<1> QED
  BY <1>1, <1>3, <1>4

LEMMA ApartPush ==
    ASSUME NEW P, NEW D, NEW Q \in [P -> Seq(D)], NEW R, NEW p \in P, NEW d \in D,
           Apart(P, Q), \A q \in P : d \notin ToSet(Q[q]),
           R[p] = Append(Q[p], d), \A q \in P \ {p} : R[q] = Q[q]
    PROVE  Apart(P, R)
<1>1. ToSet(R[p]) = ToSet(Q[p]) \cup {d} /\ IsInjective(R[p])
  BY PushLast DEF Apart
<1> QED
  BY <1>1 DEF Apart

LEMMA ApartMove ==
    ASSUME NEW P, NEW D, NEW Q \in [P -> Seq(D)], NEW R, NEW p \in P, NEW t \in P \ {p},
           Apart(P, Q), Q[p] # <<>>, R[p] = Tail(Q[p]), R[t] = Append(Q[t], Head(Q[p])),
           \A q \in P \ {p, t} : R[q] = Q[q]
    PROVE  Apart(P, R)
<1> DEFINE M == [Q EXCEPT ![p] = Tail(Q[p])]
<1>1. Head(Q[p]) \in D /\ Tail(Q[p]) \in Seq(D)
  BY PopHead
<1>2. M \in [P -> Seq(D)] /\ M[p] = Tail(Q[p]) /\ \A q \in P \ {p} : M[q] = Q[q]
  BY <1>1
<1>3. Apart(P, M) /\ \A q \in P : Head(Q[p]) \notin ToSet(M[q])
  <2> HIDE DEF M
  <2>1. M \in [P -> Seq(D)] /\ M[p] = Tail(Q[p]) /\ \A q \in P \ {p} : M[q] = Q[q]
    BY <1>2
  <2> QED
    BY <2>1, ApartPop, Zenon
<1>4. R[t] = Append(M[t], Head(Q[p])) /\ \A q \in P \ {t} : R[q] = M[q]
  BY <1>2
<1> QED
  <2> HIDE DEF M
  <2>1. ToSet(R[t]) = ToSet(M[t]) \cup {Head(Q[p])} /\ IsInjective(R[t])
    BY <1>1, <1>2, <1>3, <1>4, PushLast DEF Apart
  <2>2. \A q \in P \ {t} : /\ IsInjective(R[q]) /\ ToSet(R[q]) \cap ToSet(R[t]) = {}
                           /\ ToSet(R[t]) \cap ToSet(R[q]) = {}
    BY <1>3, <1>4, <2>1 DEF Apart
  <2>3. \A q, r \in P \ {t} : q # r => ToSet(R[q]) \cap ToSet(R[r]) = {}
    BY <1>3, <1>4 DEF Apart
  <2> SUFFICES ASSUME NEW x \in P, NEW y \in P
               PROVE  IsInjective(R[x]) /\ (x # y => ToSet(R[x]) \cap ToSet(R[y]) = {})
    BY DEF Apart
  <2> QED
    BY <2>1, <2>2, <2>3

LEMMA ApartDrop ==
    ASSUME NEW P, NEW Q, NEW R, NEW p \in P, Apart(P, Q), R[p] = <<>>, \A q \in P \ {p} : R[q] = Q[q]
    PROVE  Apart(P, R)
BY EmptyQueue DEF Apart
-----------------------------------------------------------------------------
(* Types *)

LEMMA DatagramParts ==
    ASSUME NEW d \in Datagrams
    PROVE  /\ d = <<d[1], d[2], d[3]>> /\ d[1] \in Clients
           /\ d[2] \in 1 .. MaxCalls[d[1]] /\ d[3] \in 0 .. MaxRetries /\ d # None
BY DEF Datagrams, None

LEMMA DatagramMade ==
    ASSUME NEW c \in Clients, NEW k \in 1 .. MaxCalls[c], NEW a \in 0 .. MaxRetries
    PROVE  <<c, k, a>> \in Datagrams
BY DEF Datagrams

Slots == [key : Clients, live : BOOLEAN]

ClientType ==
    /\ at \in [Clients -> {"idle", "sending", "waiting", "draining", "exited"}]
    /\ calls \in [Clients -> Nat] /\ attempt \in [Clients -> 0 .. MaxRetries]
    /\ resp \in [Clients -> Datagrams \cup {None}]
    /\ \A c \in Clients : calls[c] <= MaxCalls[c] /\ (at[c] # "idle" => calls[c] > 0)

NetType == inbox \in [Clients -> Seq(Datagrams)] /\ socket \in Seq(Datagrams) /\ losses \in 0 .. MaxLosses

WorkerType ==
    /\ wat \in [Workers -> {"select", "first", "fill", "linger", "joining", "compute", "reply", "gone"}]
    /\ batch \in [Workers -> Seq(Datagrams)] /\ sent \in [Workers -> Nat]
    /\ crowded \in [Workers -> BOOLEAN]

\* A batch is empty until a worker takes its first request, has room for
\* another whenever one is taken, and is answered from the start.
BatchInv == \A w \in Workers :
    /\ sent[w] <= Len(batch[w]) /\ Len(batch[w]) <= LANES
    /\ wat[w] \in {"select", "first", "gone"} => batch[w] = <<>>
    /\ wat[w] = "joining" => Len(batch[w]) < LANES
    /\ wat[w] # "reply" => sent[w] = 0

TrackerType == ent \in Seq(Slots) /\ Len(ent) <= MAXC /\ recent \subseteq Clients

ServerType == isboost \in BOOLEAN /\ server_running \in BOOLEAN /\ g_num_cpus \in 1 .. Cardinality(Workers)

TypeInv == ClientType /\ NetType /\ WorkerType /\ BatchInv /\ TrackerType /\ ServerType

LEMMA TypeInvTypes == TypeInv => TypeOK
<1> SUFFICES ASSUME TypeInv PROVE TypeOK
  OBVIOUS
<1>1. \A c \in Clients : calls[c] \in 0 .. MaxCalls[c]
  BY ServiceAssumption DEF TypeInv, ClientType
<1>2. \A i \in DOMAIN ent : ent[i] \in Slots
  BY DEF TypeInv, TrackerType
<1>3. \A w \in Workers : sent[w] \in 0 .. LANES
  BY ServiceAssumption DEF TypeInv, WorkerType, BatchInv
<1>4. sent \in [Workers -> 0 .. LANES]
  BY <1>3 DEF TypeInv, WorkerType
<1>5. \A w \in Workers : batch[w] \in Seq(Datagrams) /\ Len(batch[w]) <= LANES
  BY DEF TypeInv, WorkerType, BatchInv
<1>6. \A c \in Clients : (resp[c] = None \/ resp[c] \in Datagrams) /\ inbox[c] \in Seq(Datagrams)
  BY DEF TypeInv, ClientType, NetType
<1> QED
  BY <1>1, <1>2, <1>4, <1>5, <1>6 DEF TypeOK, TypeInv, ClientType, NetType, WorkerType, TrackerType, ServerType, Slots

LEMMA SmallestIn == ASSUME NEW T \in SUBSET Nat, T # {} PROVE Min(T) \in T /\ \A y \in T : Min(T) <= y
<1>1. PICK x \in T : \A y \in T : <<y, x>> \notin OpToRel(<, Nat)
  BY NatLessThanWellFounded, WFMin, Zenon
<1>2. ASSUME NEW y \in T PROVE x <= y
  <2>1. <<y, x>> \in Nat \X Nat /\ <<y, x>>[1] = y /\ <<y, x>>[2] = x
    OBVIOUS
  <2>2. ~(y < x)
    BY <1>1, <2>1, Zenon DEF OpToRel
  <2> QED
    BY <2>2
<1> QED
  BY <1>2 DEF Min

(* The tracker's table *)

LEMMA AppendFacts ==
    ASSUME NEW S, NEW s \in Seq(S), NEW d \in S
    PROVE  /\ Append(s, d) \in Seq(S) /\ Len(Append(s, d)) = Len(s) + 1
           /\ DOMAIN Append(s, d) = 1 .. Len(s) + 1
           /\ \A i \in 1 .. Len(s) : Append(s, d)[i] = s[i]
           /\ Append(s, d)[Len(s) + 1] = d
OBVIOUS

LEMMA TouchedTable ==
    ASSUME NEW e \in Seq(Slots), Len(e) <= MAXC, NEW c \in Clients
    PROVE  /\ Touched(e, c) \in Seq(Slots) /\ Len(Touched(e, c)) <= MAXC
<1> DEFINE new == Slot(c, TRUE)
<1>0. new \in Slots
  BY DEF Slot, Slots
<1>1. new \in Slots /\ Len(e) \in Nat /\ DOMAIN e = 1 .. Len(e) /\ \A i \in 1 .. Len(e) : e[i] \in Slots
  <2>1. \A i \in 1 .. Len(e) : e[i] \in Slots
    BY ElementOfSeq
  <2>2. Len(e) \in Nat /\ DOMAIN e = 1 .. Len(e)
    OBVIOUS
  <2> QED
    BY <1>0, <2>1, <2>2
<1>2. Touched(e, c) =
        IF c \in Known(e) THEN [i \in DOMAIN e |-> IF e[i].key = c THEN new ELSE e[i]]
        ELSE IF Expired(e) # {} THEN [e EXCEPT ![Min(Expired(e))] = new]
        ELSE IF Len(e) < MAXC THEN Append(e, new)
        ELSE e
  BY DEF Touched
<1> HIDE DEF new
<1>3. CASE c \in Known(e)
  <2> DEFINE t == [i \in 1 .. Len(e) |-> IF e[i].key = c THEN new ELSE e[i]]
  <2>1. t \in [1 .. Len(e) -> Slots]
    BY <1>1
  <2>2. Touched(e, c) = t
    BY <1>1, <1>2, <1>3
  <2> HIDE DEF t
  <2>3. t \in Seq(Slots) /\ Len(t) = Len(e)
    BY <1>1, <2>1
  <2> QED
    BY <2>2, <2>3
<1>4. CASE c \notin Known(e) /\ Expired(e) # {}
  <2> DEFINE m == Min(Expired(e))
  <2>1. m \in 1 .. Len(e)
    <3>1. Expired(e) \in SUBSET (1 .. Len(e)) /\ Expired(e) \in SUBSET Nat
      BY <1>1 DEF Expired
    <3> QED
      BY <1>4, <3>1, SmallestIn
  <2>2. Touched(e, c) = [e EXCEPT ![m] = new]
    BY <1>2, <1>4
  <2> HIDE DEF m
  <2> QED
    BY <1>1, <2>1, <2>2, ExceptSeq
<1>5. CASE c \notin Known(e) /\ Expired(e) = {} /\ Len(e) < MAXC
  <2>1. Append(e, new) \in Seq(Slots) /\ Len(Append(e, new)) = Len(e) + 1
    BY <1>1, AppendFacts
  <2> QED
    BY <1>1, <1>2, <1>5, <2>1, TrackerAssumption
<1>6. CASE c \notin Known(e) /\ Expired(e) = {} /\ ~(Len(e) < MAXC)
  BY <1>2, <1>6
<1> QED
  BY <1>3, <1>4, <1>5, <1>6

\* A slot per client, and none for a client that is gone; all of them as long
\* as there is room.
Counted(e, seen) ==
    /\ \A i, j \in DOMAIN e : e[i].key = e[j].key => i = j
    /\ Remembered(e) \subseteq seen
    /\ Len(e) < MAXC => Remembered(e) = seen

LEMMA TouchedCounts ==
    ASSUME NEW e \in Seq(Slots), NEW seen, NEW c \in Clients, Counted(e, seen)
    PROVE  Counted(Touched(e, c), seen \cup {c})
<1> DEFINE new == Slot(c, TRUE)
<1>1. new \in Slots /\ Len(e) \in Nat /\ DOMAIN e = 1 .. Len(e) /\ new.key = c /\ new.live
  BY DEF Slot, Slots
<1>2. Touched(e, c) =
        IF c \in Known(e) THEN [i \in DOMAIN e |-> IF e[i].key = c THEN new ELSE e[i]]
        ELSE IF Expired(e) # {} THEN [e EXCEPT ![Min(Expired(e))] = new]
        ELSE IF Len(e) < MAXC THEN Append(e, new)
        ELSE e
  BY DEF Touched
<1>3. \A i \in DOMAIN e : e[i].key \in Known(e)
  BY DEF Known
<1> HIDE DEF new
<1>4. CASE c \in Known(e)
  <2> DEFINE t == [i \in DOMAIN e |-> IF e[i].key = c THEN new ELSE e[i]]
  <2>1. PICK k \in DOMAIN e : e[k].key = c
    BY <1>4 DEF Known
  <2>2. Touched(e, c) = t /\ DOMAIN t = DOMAIN e /\ Len(t) = Len(e)
    BY <1>1, <1>2, <1>4
  <2>3. \A i \in DOMAIN e : t[i].key = e[i].key /\ (t[i].live <=> e[i].live \/ e[i].key = c)
    BY <1>1
  <2> HIDE DEF t
  <2>4. Remembered(t) = Remembered(e) \cup {c}
    BY <2>1, <2>2, <2>3 DEF Remembered, Live
  <2> QED
    BY <2>2, <2>3, <2>4 DEF Counted
<1>5. CASE c \notin Known(e) /\ Expired(e) # {}
  <2> DEFINE m == Min(Expired(e))
             t == [e EXCEPT ![m] = new]
  <2>1. m \in DOMAIN e /\ ~e[m].live
    <3>1. Expired(e) \subseteq DOMAIN e /\ \A i \in Expired(e) : ~e[i].live
      BY DEF Expired, Live
    <3>2. Expired(e) \in SUBSET Nat
      BY <1>1, <3>1
    <3>3. m \in Expired(e)
      BY <1>5, <3>2, SmallestIn
    <3> QED
      BY <3>1, <3>3
  <2>2. Touched(e, c) = t
    BY <1>2, <1>5
  <2> HIDE DEF m
  <2>3. DOMAIN t = DOMAIN e /\ Len(t) = Len(e) /\ t[m] = new /\ \A i \in DOMAIN e : i # m => t[i] = e[i]
    BY <1>1, <2>1, ExceptSeq
  <2> HIDE DEF t
  <2>4. Remembered(t) = Remembered(e) \cup {c}
    BY <1>1, <2>1, <2>3 DEF Remembered, Live
  <2>5. \A i, j \in DOMAIN t : t[i].key = t[j].key => i = j
    <3>1. \A i \in DOMAIN e : i # m => t[i].key = e[i].key /\ t[i].key # c
      BY <1>3, <1>5, <2>3
    <3>2. t[m].key = c
      BY <1>1, <2>3
    <3> QED
      BY <2>1, <2>3, <3>1, <3>2 DEF Counted
  <2> QED
    BY <2>2, <2>3, <2>4, <2>5 DEF Counted
<1>6. CASE c \notin Known(e) /\ Expired(e) = {} /\ Len(e) < MAXC
  <2> DEFINE t == Append(e, new)
  <2>1. Touched(e, c) = t
    BY <1>2, <1>6
  <2>2. /\ Len(t) = Len(e) + 1 /\ DOMAIN t = 1 .. Len(e) + 1 /\ t[Len(e) + 1] = new
        /\ \A i \in 1 .. Len(e) : t[i] = e[i]
    BY <1>1, AppendFacts
  <2> HIDE DEF t
  <2>3. Remembered(t) = Remembered(e) \cup {c}
    <3>1. Live(t) = Live(e) \cup {Len(e) + 1}
      BY <1>1, <2>2 DEF Live
    <3>2. \A i \in Live(e) : t[i].key = e[i].key
      BY <1>1, <2>2 DEF Live
    <3> QED
      BY <1>1, <2>2, <3>1, <3>2 DEF Remembered
  <2>4. \A i, j \in DOMAIN t : t[i].key = t[j].key => i = j
    <3>1. \A i \in 1 .. Len(e) : t[i].key = e[i].key /\ t[i].key # c
      BY <1>1, <1>3, <1>6, <2>2
    <3>2. t[Len(e) + 1].key = c
      BY <1>1, <2>2
    <3> QED
      BY <1>1, <2>2, <3>1, <3>2 DEF Counted
  <2> QED
    BY <1>6, <2>1, <2>3, <2>4 DEF Counted
<1>7. CASE c \notin Known(e) /\ Expired(e) = {} /\ ~(Len(e) < MAXC)
  BY <1>2, <1>7 DEF Counted
<1> QED
  BY <1>4, <1>5, <1>6, <1>7

LEMMA ExpiredTable ==
    ASSUME NEW e \in Seq(Slots), NEW c \in Clients
    PROVE  Expire(e, c) \in Seq(Slots) /\ Len(Expire(e, c)) = Len(e)
<1> DEFINE new == Slot(c, FALSE)
           t == [i \in 1 .. Len(e) |-> IF e[i].key = c THEN new ELSE e[i]]
<1>1. new \in Slots
  BY DEF Slot, Slots
<1>2. Len(e) \in Nat /\ DOMAIN e = 1 .. Len(e) /\ \A i \in 1 .. Len(e) : e[i] \in Slots
  OBVIOUS
<1>3. Expire(e, c) = t
  BY <1>2 DEF Expire
<1> HIDE DEF new
<1>4. t \in [1 .. Len(e) -> Slots]
  BY <1>1, <1>2
<1> HIDE DEF t
<1> QED
  BY <1>2, <1>3, <1>4

LEMMA ExpiredCounts ==
    ASSUME NEW e \in Seq(Slots), NEW seen, NEW c \in Clients, Counted(e, seen)
    PROVE  Counted(Expire(e, c), seen \ {c})
<1> DEFINE new == Slot(c, FALSE)
           t == [i \in DOMAIN e |-> IF e[i].key = c THEN new ELSE e[i]]
<1>1. new.key = c /\ ~new.live
  BY DEF Slot
<1>2. Expire(e, c) = t /\ DOMAIN t = DOMAIN e
  BY DEF Expire
<1>3. Len(t) = Len(e)
  BY <1>2, ExpiredTable
<1> HIDE DEF new
<1>4. \A i \in DOMAIN e : t[i].key = e[i].key /\ (t[i].live <=> e[i].live /\ e[i].key # c)
  BY <1>1
<1> HIDE DEF t
<1>5. Remembered(t) = Remembered(e) \ {c}
  BY <1>2, <1>4 DEF Remembered, Live
<1> QED
  BY <1>2, <1>3, <1>4, <1>5 DEF Counted
-----------------------------------------------------------------------------
(* Every action keeps the types *)

LEMMA TakeKeepsTypes ==
    ASSUME TypeInv, NEW w \in Workers, socket # <<>>, TakeRequest(w)
    PROVE  /\ Head(socket) \in Datagrams /\ Sender(Head(socket)) \in Clients
           /\ socket' \in Seq(Datagrams)
           /\ batch' \in [Workers -> Seq(Datagrams)] /\ Len(batch'[w]) = Len(batch[w]) + 1
           /\ batch'[w] = Append(batch[w], Head(socket))
           /\ \A v \in Workers \ {w} : batch'[v] = batch[v]
           /\ crowded' \in [Workers -> BOOLEAN]
           /\ TrackerType'
<1>1. Head(socket) \in Datagrams /\ Tail(socket) \in Seq(Datagrams)
  BY PopHead DEF TypeInv, NetType
<1>2. Sender(Head(socket)) \in Clients
  BY <1>1, DatagramParts DEF Sender
<1>3. Append(batch[w], Head(socket)) \in Seq(Datagrams)
      /\ Len(Append(batch[w], Head(socket))) = Len(batch[w]) + 1
  BY <1>1, AppendFacts DEF TypeInv, WorkerType
<1>4. crowded' \in [Workers -> BOOLEAN]
  BY DEF TakeRequest, Touch, TypeInv, WorkerType
<1>5. TrackerType'
  BY <1>2, TouchedTable DEF TakeRequest, Touch, TypeInv, TrackerType
<1> QED
  BY <1>1, <1>2, <1>3, <1>4, <1>5 DEF TakeRequest, TypeInv, WorkerType

LEMMA RetryKeepsType ==
    ASSUME ClientType, NEW c \in Clients, at[c] # "idle", Retry(c), UNCHANGED <<calls, resp>>
    PROVE  ClientType'
<1>1. CASE /\ attempt[c] < MaxRetries
           /\ attempt' = [attempt EXCEPT ![c] = @ + 1]
           /\ at' = [at EXCEPT ![c] = "sending"]
  <2>1. attempt[c] + 1 \in 0 .. MaxRetries
    BY <1>1, ServiceAssumption DEF ClientType
  <2>2. attempt' \in [Clients -> 0 .. MaxRetries]
    BY <1>1, <2>1 DEF ClientType
  <2> QED
    BY <1>1, <2>2 DEF ClientType
<1>2. CASE at' = [at EXCEPT ![c] = "exited"] /\ UNCHANGED attempt
  BY <1>2 DEF ClientType
<1> QED
  BY <1>1, <1>2 DEF Retry

LEMMA ClientStepKeepsTypes ==
    ASSUME TypeInv, NEW c \in Clients, Call(c) \/ ClientStep(c)
    PROVE  TypeInv'
<1> USE ServiceAssumption
<1>1. CASE Call(c)
  BY <1>1 DEF Call, TypeInv, ClientType, NetType, WorkerType, BatchInv, TrackerType, ServerType, workerVars, tracker, server
<1>2. CASE Send(c)
  <2>1. Datagram(c) \in Datagrams
    <3>1. calls[c] \in 1 .. MaxCalls[c] /\ attempt[c] \in 0 .. MaxRetries
      <4>1. at[c] # "idle" /\ calls[c] \in Nat /\ MaxCalls[c] \in Nat
        BY <1>2 DEF Send, TypeInv, ClientType
      <4>2. calls[c] > 0 /\ calls[c] <= MaxCalls[c] /\ attempt[c] \in 0 .. MaxRetries
        BY <4>1 DEF TypeInv, ClientType
      <4> QED
        BY <4>1, <4>2
    <3> QED
      BY <3>1, DatagramMade DEF Datagram
  <2>2. Append(socket, Datagram(c)) \in Seq(Datagrams)
    BY <2>1, AppendFacts DEF TypeInv, NetType
  <2>3. ClientType'
    <3>1. CASE Retry(c)
      BY <1>2, <3>1, RetryKeepsType DEF Send, TypeInv
    <3>2. CASE at' = [at EXCEPT ![c] = "waiting"] /\ UNCHANGED attempt
      BY <1>2, <3>2 DEF Send, TypeInv, ClientType
    <3> QED
      BY <1>2, <3>1, <3>2 DEF Send
  <2>4. NetType'
    <3>1. socket' \in Seq(Datagrams)
      BY <1>2, <2>2 DEF Send, TypeInv, NetType
    <3>2. losses' \in 0 .. MaxLosses
      BY <1>2 DEF Send, Lose, MayLose, TypeInv, NetType
    <3> QED
      BY <1>2, <3>1, <3>2 DEF Send, TypeInv, NetType
  <2> QED
    BY <1>2, <2>3, <2>4 DEF Send, TypeInv, WorkerType, BatchInv, TrackerType, ServerType, workerVars, tracker, server
<1>3. CASE Receive(c)
  <2>1. Head(inbox[c]) \in Datagrams /\ Tail(inbox[c]) \in Seq(Datagrams)
    BY <1>3, PopHead DEF Receive, TypeInv, NetType
  <2> QED
    BY <1>3, <2>1 DEF Receive, TypeInv, ClientType, NetType, WorkerType, BatchInv, TrackerType, ServerType, workerVars, tracker, server
<1>4. CASE Timeout(c)
  <2>1. ClientType'
    BY <1>4, RetryKeepsType DEF Timeout, TypeInv
  <2> QED
    BY <1>4, <2>1 DEF Timeout, TypeInv, NetType, WorkerType, BatchInv, TrackerType, ServerType, workerVars, tracker, server
<1>5. CASE Drain(c)
  <2>1. Tail(inbox[c]) \in Seq(Datagrams)
    BY <1>5, PopHead DEF Drain, TypeInv, NetType
  <2> QED
    BY <1>5, <2>1 DEF Drain, TypeInv, ClientType, NetType, WorkerType, BatchInv, TrackerType, ServerType, clientVars, workerVars, tracker, server
<1>6. CASE Return(c)
  BY <1>6 DEF Return, TypeInv, ClientType, NetType, WorkerType, BatchInv, TrackerType, ServerType, workerVars, tracker, server
<1> QED
  BY <1>1, <1>2, <1>3, <1>4, <1>5, <1>6 DEF ClientStep

LEMMA WorkerStepKeepsTypes ==
    ASSUME TypeInv, NEW w \in Workers, WorkerStep(w) \/ Fail(w)
    PROVE  TypeInv'
<1> USE ServiceAssumption
<1>1. CASE Select(w)
  BY <1>1 DEF Select, Go, TypeInv, ClientType, NetType, WorkerType, BatchInv, TrackerType, ServerType, clientVars, tracker, server
<1>2. CASE First(w)
  <2>1. CASE socket = <<>>
    BY <1>2, <2>1 DEF First, Go, TypeInv, ClientType, NetType, WorkerType, BatchInv, TrackerType, ServerType, clientVars, tracker, server
  <2>2. CASE socket # <<>>
    <3>1. TakeRequest(w) /\ Go(w, "first", IF isboost THEN "compute" ELSE "fill")
      BY <1>2, <2>2 DEF First
    <3>2. Len(batch[w]) = 0
      BY <3>1 DEF Go, TypeInv, BatchInv
    <3>3. BatchInv' /\ WorkerType'
      BY <1>2, <2>2, <3>1, <3>2, TakeKeepsTypes DEF First, Go, TypeInv, WorkerType, BatchInv
    <3> QED
      BY <1>2, <2>2, <3>1, <3>3, TakeKeepsTypes DEF First, TypeInv, ClientType, NetType, ServerType, clientVars, server
  <2> QED
    BY <2>1, <2>2
<1>3. CASE Fill(w)
  <2>1. CASE Go(w, "fill", "linger") /\ UNCHANGED <<socket, batch, tracker, crowded>>
    BY <1>3, <2>1 DEF Fill, Go, TypeInv, ClientType, NetType, WorkerType, BatchInv, TrackerType, ServerType, clientVars, tracker, server
  <2>2. CASE Room(w) /\ socket # <<>> /\ Go(w, "fill", "fill") /\ TakeRequest(w)
    <3>1. BatchInv' /\ WorkerType'
      BY <1>3, <2>2, TakeKeepsTypes DEF Fill, Go, Room, TypeInv, WorkerType, BatchInv
    <3> QED
      BY <1>3, <2>2, <3>1, TakeKeepsTypes DEF Fill, TypeInv, ClientType, NetType, ServerType, clientVars, server
  <2> QED
    BY <1>3, <2>1, <2>2 DEF Fill
<1>4. CASE Linger(w)
  BY <1>4 DEF Linger, Room, Go, TypeInv, ClientType, NetType, WorkerType, BatchInv, TrackerType, ServerType, clientVars, tracker, server
<1>5. CASE Join(w)
  <2>1. CASE socket = <<>>
    BY <1>5, <2>1 DEF Join, Go, TypeInv, ClientType, NetType, WorkerType, BatchInv, TrackerType, ServerType, clientVars, tracker, server
  <2>2. CASE socket # <<>>
    <3>1. TakeRequest(w)
      BY <1>5, <2>2 DEF Join
    <3>2. BatchInv' /\ WorkerType'
      BY <1>5, <2>2, <3>1, TakeKeepsTypes DEF Join, Go, TypeInv, WorkerType, BatchInv
    <3> QED
      BY <1>5, <2>2, <3>1, <3>2, TakeKeepsTypes DEF Join, TypeInv, ClientType, NetType, ServerType, clientVars, server
  <2> QED
    BY <2>1, <2>2
<1>6. CASE Depart(w)
  BY <1>6 DEF Depart, Go, TypeInv, ClientType, NetType, WorkerType, BatchInv, TrackerType, ServerType, clientVars, tracker, server
<1>7. CASE Compute(w)
  BY <1>7 DEF Compute, Go, TypeInv, ClientType, NetType, WorkerType, BatchInv, TrackerType, ServerType, clientVars, tracker, server
<1>8. CASE Reply(w)
  <2>1. sent[w] \in Nat /\ sent[w] + 1 \in 1 .. Len(batch[w]) /\ InLane(w) \in Datagrams
    BY <1>8, ElementOfSeq DEF Reply, InLane, TypeInv, WorkerType
  <2>2. AddressOf(w) \in Clients
    BY <2>1, DatagramParts DEF AddressOf, InLane, Sender
  <2>3. Append(inbox[AddressOf(w)], InLane(w)) \in Seq(Datagrams)
    BY <2>1, <2>2, AppendFacts DEF TypeInv, NetType
  <2>4. NetType'
    <3>1. inbox' \in [Clients -> Seq(Datagrams)]
      BY <1>8, <2>2, <2>3 DEF Reply, TypeInv, NetType
    <3>2. losses' \in 0 .. MaxLosses
      BY <1>8 DEF Reply, Lose, MayLose, TypeInv, NetType
    <3> QED
      BY <1>8, <3>1, <3>2 DEF Reply, TypeInv, NetType
  <2>5. WorkerType' /\ BatchInv'
    BY <1>8, <2>1 DEF Reply, Go, TypeInv, WorkerType, BatchInv
  <2> QED
    BY <1>8, <2>4, <2>5 DEF Reply, TypeInv, ClientType, TrackerType, ServerType, clientVars, tracker, server
<1>9. CASE Served(w)
  BY <1>9 DEF Served, Go, TypeInv, ClientType, NetType, WorkerType, BatchInv, TrackerType, ServerType, clientVars, tracker, server
<1>10. CASE Fail(w)
  BY <1>10 DEF Fail, Go, TypeInv, ClientType, NetType, WorkerType, BatchInv, TrackerType, ServerType, clientVars, tracker, server
<1> QED
  BY <1>1, <1>2, <1>3, <1>4, <1>5, <1>6, <1>7, <1>8, <1>9, <1>10 DEF WorkerStep

LEMMA StepKeepsTypes == TypeInv /\ [Next]_vars => TypeInv'
<1> SUFFICES ASSUME TypeInv, [Next]_vars PROVE TypeInv'
  OBVIOUS
<1>1. ASSUME NEW c \in Clients, Forget(c) PROVE TypeInv'
  <2>1. TrackerType'
    BY <1>1, ExpiredTable DEF Forget, TypeInv, TrackerType
  <2> QED
    BY <1>1, <2>1 DEF Forget, TypeInv, ClientType, NetType, WorkerType, BatchInv, ServerType, clientVars, server
<1>2. CASE Close
  <2>1. NetType' /\ ServerType'
    <3>1. /\ socket' = <<>> /\ server_running' = FALSE
          /\ UNCHANGED <<inbox, losses, isboost, g_num_cpus>>
      BY <1>2 DEF Close
    <3>2. <<>> \in Seq(Datagrams)
      BY EmptySeq
    <3> QED
      BY <3>1, <3>2 DEF TypeInv, NetType, ServerType
  <2> QED
    BY <1>2, <2>1 DEF Close, TypeInv, ClientType, WorkerType, BatchInv, TrackerType, clientVars, workerVars, tracker
<1>3. CASE Toggle
  BY <1>3 DEF Toggle, TypeInv, ClientType, NetType, WorkerType, BatchInv, TrackerType, ServerType, clientVars, workerVars, tracker
<1>4. CASE UNCHANGED vars
  BY <1>4 DEF vars, TypeInv, ClientType, NetType, WorkerType, BatchInv, TrackerType, ServerType, clientVars, workerVars, tracker, server
<1> QED
  BY <1>1, <1>2, <1>3, <1>4, ClientStepKeepsTypes, WorkerStepKeepsTypes DEF Next

LEMMA InitTypes == Init => TypeInv
<1> SUFFICES ASSUME Init PROVE TypeInv
  OBVIOUS
<1>1. PICK crew \in Crews : /\ wat = [w \in Workers |-> IF w \in crew THEN "select" ELSE "gone"]
                            /\ g_num_cpus = Cardinality(crew)
  BY DEF Init
<1>2. crew \subseteq Workers /\ crew # {} /\ IsFiniteSet(Workers)
  BY ServiceAssumption
<1>3. Cardinality(crew) \in 1 .. Cardinality(Workers)
  BY <1>2, FS_Subset, FS_EmptySet, FS_CardinalityType
<1>4. ServerType
  BY <1>1, <1>3 DEF Init, ServerType
<1>5. WorkerType /\ BatchInv
  BY <1>1, ServiceAssumption DEF Init, WorkerType, BatchInv
<1>6. ClientType /\ NetType /\ TrackerType
  BY ServiceAssumption, TrackerAssumption DEF Init, ClientType, NetType, TrackerType
<1> QED
  BY <1>4, <1>5, <1>6 DEF TypeInv

LEMMA TypesHold == Spec => []TypeInv
BY InitTypes, StepKeepsTypes, PTL DEF Spec

\* In particular a batch never outgrows its LANES entries (p[] of
\* process_requests), nor the table its slots (touch).
THEOREM TypeCorrect == Spec => []TypeOK
BY TypesHold, TypeInvTypes, PTL
-----------------------------------------------------------------------------
(* Answers go to those who asked *)

\* What is in a client's socket, and what it has accepted, is its own.
LEMMA StepKeepsOwn == TypeInv /\ OwnAnswers /\ [Next]_vars => OwnAnswers'
<1> SUFFICES ASSUME TypeInv, OwnAnswers, [Next]_vars PROVE OwnAnswers'
  OBVIOUS
<1> DEFINE Own(c) == /\ resp[c] # None => Sender(resp[c]) = c
                     /\ \A m \in 1 .. Len(inbox[c]) : Sender(inbox[c][m]) = c
<1>1. \A c \in Clients : Own(c)
  BY DEF OwnAnswers
<1>2. CASE UNCHANGED <<resp, inbox>>
  BY <1>1, <1>2 DEF OwnAnswers
<1>3. ASSUME NEW c \in Clients, Call(c) PROVE OwnAnswers'
  BY <1>1, <1>3 DEF Call, OwnAnswers, TypeInv, ClientType
<1>4. ASSUME NEW c \in Clients, inbox[c] # <<>>
      PROVE  /\ Sender(Head(inbox[c])) = c
             /\ \A m \in 1 .. Len(Tail(inbox[c])) : Sender(Tail(inbox[c])[m]) = c
  <2>1. inbox[c] \in Seq(Datagrams) /\ Len(inbox[c]) \in Nat \ {0} /\ Len(Tail(inbox[c])) = Len(inbox[c]) - 1
    BY <1>4 DEF TypeInv, NetType
  <2>2. Head(inbox[c]) = inbox[c][1] /\ \A m \in 1 .. Len(inbox[c]) - 1 : Tail(inbox[c])[m] = inbox[c][m + 1]
    BY <1>4, <2>1
  <2> QED
    BY <1>1, <2>1, <2>2
<1>5. ASSUME NEW c \in Clients, Receive(c) PROVE OwnAnswers'
  BY <1>1, <1>4, <1>5 DEF Receive, OwnAnswers, TypeInv, ClientType, NetType
<1>6. ASSUME NEW c \in Clients, Drain(c) PROVE OwnAnswers'
  BY <1>1, <1>4, <1>6 DEF Drain, OwnAnswers, TypeInv, ClientType, NetType, clientVars
<1>7. ASSUME NEW w \in Workers, Reply(w) PROVE OwnAnswers'
  <2> DEFINE c == AddressOf(w)
             d == InLane(w)
  <2>1. sent[w] + 1 \in 1 .. Len(batch[w]) /\ d \in Datagrams
    BY <1>7, ElementOfSeq DEF Reply, InLane, TypeInv, WorkerType
  <2>2. c \in Clients /\ Sender(d) = c
    BY <2>1, DatagramParts DEF AddressOf, InLane, Sender
  <2> HIDE DEF c, d
  <2>3. \A m \in 1 .. Len(Append(inbox[c], d)) : Sender(Append(inbox[c], d)[m]) = c
    <3>1. inbox[c] \in Seq(Datagrams) /\ Len(inbox[c]) \in Nat
      BY <2>2 DEF TypeInv, NetType
    <3> QED
      BY <1>1, <2>1, <2>2, <3>1, AppendFacts
  <2>4. inbox' = [inbox EXCEPT ![c] = Append(inbox[c], d)] \/ UNCHANGED inbox
    BY <1>7 DEF Reply, c, d
  <2>5. UNCHANGED resp
    BY <1>7 DEF Reply, clientVars
  <2> QED
    BY <1>1, <2>2, <2>3, <2>4, <2>5 DEF OwnAnswers, TypeInv, NetType
<1>8. ASSUME NEW c \in Clients, Send(c) \/ Timeout(c) \/ Return(c) \/ Forget(c) PROVE UNCHANGED <<resp, inbox>>
  BY <1>8 DEF Send, Timeout, Return, Forget, clientVars
<1>9. ASSUME NEW w \in Workers, Select(w) \/ First(w) \/ Fill(w) \/ Linger(w) \/ Join(w)
                               \/ Depart(w) \/ Compute(w) \/ Served(w) \/ Fail(w)
      PROVE  UNCHANGED <<resp, inbox>>
  BY <1>9 DEF Select, First, Fill, Linger, Join, Depart, Compute, Served, Fail, clientVars
<1>10. CASE Close \/ Toggle \/ UNCHANGED vars
  BY <1>2, <1>10 DEF Close, Toggle, vars, clientVars
<1> QED
  BY <1>2, <1>3, <1>5, <1>6, <1>7, <1>8, <1>9, <1>10 DEF Next, ClientStep, WorkerStep

\* No answer goes to another client: the addr[] of process_requests keeps a
\* request's address with its lane, and every thread has a socket of its own
\* (client.hpp), however workers, retries and timeouts interleave.
THEOREM AnswersAreOwn == Spec => []OwnAnswers
<1>1. Init => OwnAnswers
  BY DEF Init, OwnAnswers
<1> QED
  BY <1>1, TypesHold, StepKeepsOwn, PTL DEF Spec
-----------------------------------------------------------------------------
(* The tracker *)

LEMMA StepKeepsCount == TypeInv /\ CountsClients /\ [Next]_vars => CountsClients'
<1> SUFFICES ASSUME TypeInv, CountsClients, [Next]_vars PROVE CountsClients'
  OBVIOUS
<1>1. Counted(ent, recent)
  BY DEF CountsClients, Counted
<1>2. Counted(ent, recent)' => CountsClients'
  BY DEF CountsClients, Counted
<1>3. CASE UNCHANGED <<ent, recent>>
  BY <1>1, <1>2, <1>3
<1>4. ASSUME NEW w \in Workers, socket # <<>>, TakeRequest(w) PROVE CountsClients'
  <2>1. Sender(Head(socket)) \in Clients
    BY <1>4, TakeKeepsTypes
  <2>2. Counted(Touched(ent, Sender(Head(socket))), recent \cup {Sender(Head(socket))})
    BY <1>1, <2>1, TouchedCounts DEF TypeInv, TrackerType
  <2> QED
    BY <1>2, <1>4, <2>2 DEF TakeRequest, Touch
<1>5. ASSUME NEW c \in Clients, Forget(c) PROVE CountsClients'
  <2>1. Counted(Expire(ent, c), recent \ {c})
    BY <1>1, ExpiredCounts DEF TypeInv, TrackerType
  <2> QED
    BY <1>2, <1>5, <2>1 DEF Forget
<1>6. ASSUME NEW c \in Clients, Call(c) \/ ClientStep(c) PROVE UNCHANGED <<ent, recent>>
  BY <1>6 DEF Call, ClientStep, Send, Receive, Timeout, Drain, Return, workerVars, tracker
<1>7. ASSUME NEW w \in Workers, WorkerStep(w) \/ Fail(w) PROVE CountsClients'
  <2>1. CASE First(w) \/ Fill(w) \/ Join(w)
    BY <1>3, <1>4, <2>1 DEF First, Fill, Join, tracker
  <2>2. CASE Select(w) \/ Linger(w) \/ Depart(w) \/ Compute(w) \/ Reply(w) \/ Served(w) \/ Fail(w)
    BY <1>3, <2>2 DEF Select, Linger, Depart, Compute, Reply, Served, Fail, tracker
  <2> QED
    BY <1>7, <2>1, <2>2 DEF WorkerStep
<1>8. CASE Close \/ Toggle \/ UNCHANGED vars
  BY <1>3, <1>8 DEF Close, Toggle, vars, workerVars, tracker
<1> QED
  BY <1>3, <1>5, <1>6, <1>7, <1>8 DEF Next

\* ClientTracker::touch counts each client of the last second once and no
\* other, and all of them while the table has room.
THEOREM CountsAreRight == Spec => []CountsClients
<1>1. Init => CountsClients
  BY DEF Init, CountsClients, Remembered, Live
<1> QED
  BY <1>1, TypesHold, StepKeepsCount, PTL DEF Spec
-----------------------------------------------------------------------------
(* Requests are taken once *)

Places == Clients \cup Workers \cup {None}
Queues == [q \in Places |-> QueueOf(q)]

LEMMA QueuesAre ==
    /\ Queues[None] = socket
    /\ \A c \in Clients : Queues[c] = inbox[c]
    /\ \A w \in Workers : Queues[w] = Unanswered(w)
    /\ \A q \in Places : Queues[q] = QueueOf(q)
BY NamesApart DEF Queues, Places, QueueOf, None

LEMMA QueuesBecome ==
    /\ Queues'[None] = socket'
    /\ \A c \in Clients : Queues'[c] = inbox'[c]
    /\ \A w \in Workers : Queues'[w] = Unanswered(w)'
BY NamesApart DEF Queues, Places, QueueOf, None

LEMMA QueuesType == TypeInv => Queues \in [Places -> Seq(Datagrams)]
<1> SUFFICES ASSUME TypeInv PROVE Queues \in [Places -> Seq(Datagrams)]
  OBVIOUS
<1>1. \A w \in Workers : Unanswered(w) \in Seq(Datagrams)
  BY ShorterRest DEF Unanswered, TypeInv, WorkerType, BatchInv
<1>2. \A q \in Places : Queues[q] \in Seq(Datagrams)
  BY <1>1, QueuesAre DEF Places, TypeInv, NetType
<1> QED
  BY <1>2 DEF Queues

LEMMA TakenOnceIsApart == TakenOnce <=> Apart(Places, Queues)
<1>1. TakenOnce <=> \A p, q \in Places : /\ IsInjective(QueueOf(p))
                                         /\ p # q => ToSet(QueueOf(p)) \cap ToSet(QueueOf(q)) = {}
  BY DEF TakenOnce, Places
<1> QED
  BY <1>1, QueuesAre DEF Apart

\* The datagrams that a client has sent: all attempts before its current one,
\* and that one unless it is still to be sent.
Issued(d) == \/ d[2] < calls[d[1]]
             \/ /\ d[2] = calls[d[1]]
                /\ d[3] < attempt[d[1]] \/ (d[3] = attempt[d[1]] /\ at[d[1]] # "sending")

FlowInv == Apart(Places, Queues) /\ \A q \in Places : \A d \in ToSet(Queues[q]) : Issued(d)

\* What was sent stays sent.
LEMMA IssuedStays ==
    ASSUME TypeInv, [Next]_vars, NEW d \in Datagrams, Issued(d)
    PROVE  Issued(d)'
<1>1. d[1] \in Clients /\ d[2] \in Nat /\ d[3] \in Nat
  BY DatagramParts, ServiceAssumption
<1>2. /\ calls \in [Clients -> Nat] /\ attempt \in [Clients -> Nat] /\ DOMAIN at = Clients
  BY ServiceAssumption DEF TypeInv, ClientType
<1>3. CASE UNCHANGED <<at, calls, attempt>>
  BY <1>3 DEF Issued
<1>4. ASSUME NEW c \in Clients, Call(c) PROVE Issued(d)'
  BY <1>1, <1>2, <1>4 DEF Call, Issued
<1>5. ASSUME NEW c \in Clients, UNCHANGED calls, Retry(c) PROVE Issued(d)'
  BY <1>1, <1>2, <1>5 DEF Retry, Issued
<1>6. ASSUME NEW c \in Clients, UNCHANGED <<calls, attempt>>,
             at' = [at EXCEPT ![c] = "waiting"] \/ at' = [at EXCEPT ![c] = "draining"] \/ at' = [at EXCEPT ![c] = "idle"]
      PROVE  Issued(d)'
  BY <1>1, <1>2, <1>6 DEF Issued
<1>7. ASSUME NEW c \in Clients, ClientStep(c) PROVE Issued(d)'
  BY <1>3, <1>5, <1>6, <1>7 DEF ClientStep, Send, Receive, Timeout, Drain, Return, clientVars
<1>8. ASSUME NEW w \in Workers, WorkerStep(w) \/ Fail(w) PROVE Issued(d)'
  BY <1>3, <1>8 DEF WorkerStep, Select, First, Fill, Linger, Join, Depart, Compute, Reply, Served, Fail, clientVars
<1>9. ASSUME NEW c \in Clients, Forget(c) PROVE Issued(d)'
  BY <1>3, <1>9 DEF Forget, clientVars
<1>10. CASE Close \/ Toggle \/ UNCHANGED vars
  BY <1>3, <1>10 DEF Close, Toggle, vars, clientVars
<1> QED
  BY <1>4, <1>7, <1>8, <1>9, <1>10 DEF Next

\* What is in a queue after a step was in one before.
LEMMA FlowIssued ==
    ASSUME TypeInv, [Next]_vars, FlowInv, Apart(Places, Queues'),
           \A q \in Places : \A d \in ToSet(Queues'[q]) : \E p \in Places : d \in ToSet(Queues[p])
    PROVE  FlowInv'
<1>1. ASSUME NEW p \in Places, NEW d \in ToSet(Queues[p]) PROVE d \in Datagrams /\ Issued(d)
  BY <1>1, QueuesType, ElementOfSeq DEF FlowInv, ToSet
<1>2. \A q \in Places : \A d \in ToSet(Queues'[q]) : Issued(d)'
  BY <1>1, IssuedStays
<1>3. Apart(Places, Queues)'
  OBVIOUS
<1> QED
  BY <1>2, <1>3 DEF FlowInv

LEMMA FlowSame ==
    ASSUME TypeInv, [Next]_vars, FlowInv, \A q \in Places : Queues'[q] = Queues[q]
    PROVE  FlowInv'
<1>1. Apart(Places, Queues')
  BY DEF FlowInv, Apart
<1>2. \A q \in Places : \A d \in ToSet(Queues'[q]) : \E p \in Places : d \in ToSet(Queues[p])
  OBVIOUS
<1> QED
  BY <1>1, <1>2, FlowIssued

LEMMA FlowPop ==
    ASSUME TypeInv, [Next]_vars, FlowInv, NEW p \in Places, Queues[p] # <<>>, Queues'[p] = Tail(Queues[p]),
           \A q \in Places \ {p} : Queues'[q] = Queues[q]
    PROVE  FlowInv'
<1>1. Queues \in [Places -> Seq(Datagrams)] /\ Queues[p] \in Seq(Datagrams) /\ Tail(Queues[p]) \in Seq(Datagrams)
      /\ ToSet(Tail(Queues[p])) \subseteq ToSet(Queues[p])
  BY QueuesType, PopHead
<1>2. \A q \in Places : Queues'[q] \in Seq(Datagrams)
  BY <1>1
<1>3. Queues' \in [Places -> Seq(Datagrams)]
  BY <1>2 DEF Queues
<1>4. Apart(Places, Queues)
  BY DEF FlowInv
<1>5. Apart(Places, Queues')
  BY <1>1, <1>3, <1>4, ApartPop
<1>6. \A q \in Places : \A d \in ToSet(Queues'[q]) : \E r \in Places : d \in ToSet(Queues[r])
  BY <1>1
<1> QED
  BY <1>5, <1>6, FlowIssued

LEMMA FlowMove ==
    ASSUME TypeInv, [Next]_vars, FlowInv, NEW p \in Places, NEW t \in Places \ {p}, Queues[p] # <<>>,
           Queues'[p] = Tail(Queues[p]), Queues'[t] = Append(Queues[t], Head(Queues[p])),
           \A q \in Places \ {p, t} : Queues'[q] = Queues[q]
    PROVE  FlowInv'
<1>1. /\ Queues \in [Places -> Seq(Datagrams)] /\ Queues[p] \in Seq(Datagrams)
      /\ ToSet(Tail(Queues[p])) \subseteq ToSet(Queues[p])
      /\ Head(Queues[p]) \in ToSet(Queues[p]) /\ Head(Queues[p]) \in Datagrams
  BY QueuesType, PopHead
<1>2. Apart(Places, Queues)
  BY DEF FlowInv
<1>3. Apart(Places, Queues')
  BY <1>1, <1>2, ApartMove
<1>4. ToSet(Queues'[t]) = ToSet(Queues[t]) \cup {Head(Queues[p])}
  BY <1>1, PushLast
<1>5. \A q \in Places : \A d \in ToSet(Queues'[q]) : \E r \in Places : d \in ToSet(Queues[r])
  BY <1>1, <1>4
<1> QED
  BY <1>3, <1>5, FlowIssued

\* What a step does to the queues.
Kept(S) == \A q \in Places \ S : Queues'[q] = Queues[q]
Pops(p) == Queues[p] # <<>> /\ Queues'[p] = Tail(Queues[p]) /\ Kept({p})
Moves(p, t) == /\ Queues[p] # <<>> /\ Queues'[p] = Tail(Queues[p])
               /\ Queues'[t] = Append(Queues[t], Head(Queues[p])) /\ Kept({p, t})
Sends(c) == /\ Queues'[None] = Append(Queues[None], Datagram(c)) /\ Kept({None})
            /\ at[c] = "sending" /\ at' = [at EXCEPT ![c] = "waiting"] /\ UNCHANGED <<calls, attempt>>
Replies(w) == /\ Queues[w] # <<>> /\ Sender(Head(Queues[w])) \in Clients
              /\ \/ Pops(w) /\ losses' = losses + 1
                 \/ Moves(w, Sender(Head(Queues[w])))
Closes == Queues'[None] = <<>> /\ Kept({None})

LEMMA TakeMoves ==
    ASSUME TypeInv, NEW w \in Workers, socket # <<>>, TakeRequest(w), wat[w] # "reply", UNCHANGED <<inbox, sent>>
    PROVE  Moves(None, w)
<1>1. sent[w] = 0 /\ batch[w] \in Seq(Datagrams) /\ Append(batch[w], Head(socket)) \in Seq(Datagrams)
      /\ batch'[w] = Append(batch[w], Head(socket))
  BY TakeKeepsTypes DEF TypeInv, BatchInv, WorkerType
<1>2. Unanswered(w) = batch[w]
  BY <1>1, ShorterRest DEF Unanswered
<1>3. Unanswered(w)' = batch'[w]
  BY <1>1, ShorterRest DEF Unanswered
<1>4. \A v \in Workers \ {w} : Unanswered(v)' = Unanswered(v)
  BY TakeKeepsTypes DEF Unanswered
<1>5. socket' = Tail(socket)
  BY DEF TakeRequest
<1>6. Queues[None] # <<>> /\ Queues'[None] = Tail(Queues[None]) /\ Queues'[w] = Append(Queues[w], Head(Queues[None]))
  BY <1>1, <1>2, <1>3, <1>5, QueuesAre, QueuesBecome
<1>7. \A q \in Places \ {None, w} : Queues'[q] = Queues[q]
  BY <1>4, QueuesAre, QueuesBecome DEF Places
<1> QED
  BY <1>6, <1>7 DEF Moves, Kept

LEMMA ReplyMoves == ASSUME TypeInv, NEW w \in Workers, Reply(w) PROVE Replies(w)
<1>1. sent[w] \in 0 .. Len(batch[w]) /\ sent[w] < Len(batch[w]) /\ batch[w] \in Seq(Datagrams)
      /\ sent' = [sent EXCEPT ![w] = @ + 1] /\ UNCHANGED <<batch, socket>> /\ InLane(w) \in Datagrams
  <2>1. sent[w] + 1 \in 1 .. Len(batch[w])
    BY DEF Reply, TypeInv, WorkerType
  <2> QED
    BY <2>1, ElementOfSeq DEF Reply, InLane, TypeInv, WorkerType
<1>2. /\ Unanswered(w) # <<>> /\ Head(Unanswered(w)) = InLane(w)
      /\ Tail(Unanswered(w)) = SubSeq(batch[w], sent[w] + 2, Len(batch[w]))
  BY <1>1, ShorterRest DEF Unanswered, InLane
<1>3. Unanswered(w)' = Tail(Unanswered(w))
  <2>1. sent'[w] = sent[w] + 1 /\ sent'[w] + 1 = sent[w] + 2
    BY <1>1 DEF TypeInv, WorkerType
  <2> QED
    BY <1>1, <1>2, <2>1 DEF Unanswered
<1>4. \A v \in Workers \ {w} : Unanswered(v)' = Unanswered(v)
  BY <1>1 DEF Unanswered, TypeInv, WorkerType
<1>5. AddressOf(w) \in Clients /\ AddressOf(w) = Sender(InLane(w))
  BY <1>1, DatagramParts DEF AddressOf, InLane, Sender
<1>6. Queues[w] # <<>> /\ Queues'[w] = Tail(Queues[w]) /\ Head(Queues[w]) = InLane(w)
  BY <1>2, <1>3, QueuesAre, QueuesBecome
<1>7. CASE UNCHANGED inbox /\ Lose
  <2>1. \A q \in Places \ {w} : Queues'[q] = Queues[q]
    BY <1>1, <1>4, <1>7, QueuesAre, QueuesBecome DEF Places
  <2> QED
    BY <1>5, <1>6, <1>7, <2>1 DEF Replies, Pops, Kept, Lose
<1>8. CASE inbox' = [inbox EXCEPT ![AddressOf(w)] = Append(@, InLane(w))]
  <2>1. Queues'[AddressOf(w)] = Append(Queues[AddressOf(w)], Head(Queues[w]))
    BY <1>2, <1>5, <1>8, QueuesAre, QueuesBecome DEF TypeInv, NetType
  <2>2. \A c \in Clients \ {AddressOf(w)} : inbox'[c] = inbox[c]
    BY <1>8 DEF TypeInv, NetType
  <2>3. \A q \in Places \ {w, AddressOf(w)} : Queues'[q] = Queues[q]
    BY <1>1, <1>4, <2>2, QueuesAre, QueuesBecome DEF Places
  <2> QED
    BY <1>5, <1>6, <2>1, <2>3 DEF Replies, Moves, Kept
<1> QED
  BY <1>7, <1>8 DEF Reply

LEMMA ReadPops ==
    ASSUME TypeInv, NEW c \in Clients, inbox[c] # <<>>, inbox' = [inbox EXCEPT ![c] = Tail(@)],
           UNCHANGED <<socket, batch, sent>>
    PROVE  Pops(c)
<1>1. c \in Places /\ Queues[c] # <<>> /\ Queues'[c] = Tail(Queues[c])
  BY QueuesAre, QueuesBecome DEF Places, TypeInv, NetType
<1>2. \A w \in Workers : Unanswered(w)' = Unanswered(w)
  BY DEF Unanswered
<1>3. \A e \in Clients \ {c} : inbox'[e] = inbox[e]
  BY DEF TypeInv, NetType
<1>4. \A q \in Places \ {c} : Queues'[q] = Queues[q]
  BY <1>2, <1>3, QueuesAre, QueuesBecome DEF Places
<1> QED
  BY <1>1, <1>4 DEF Pops, Kept

LEMMA NetSteps ==
    ASSUME TypeInv, [Next]_vars
    PROVE  \/ Kept({})
           \/ \E c \in Clients : (Receive(c) \/ Drain(c)) /\ Pops(c)
           \/ \E c \in Clients : Sends(c)
           \/ \E w \in Workers : Moves(None, w) \/ Replies(w)
           \/ Close /\ Closes
<1>1. ASSUME UNCHANGED <<inbox, socket>>, \A w \in Workers : Unanswered(w)' = Unanswered(w)
      PROVE  Kept({})
  BY <1>1, QueuesAre, QueuesBecome DEF Places, Kept
<1>2. ASSUME UNCHANGED <<inbox, socket, batch, sent>> PROVE Kept({})
  BY <1>1, <1>2 DEF Unanswered
<1>4. ASSUME NEW c \in Clients, Receive(c) \/ Drain(c) PROVE Pops(c)
  BY <1>4, ReadPops DEF Receive, Drain, workerVars
<1>5. ASSUME NEW c \in Clients, Call(c) \/ Timeout(c) \/ Return(c) \/ Forget(c) PROVE Kept({})
  BY <1>2, <1>5 DEF Call, Timeout, Return, Forget, workerVars
<1>6. ASSUME NEW c \in Clients, Send(c) PROVE Kept({}) \/ Sends(c)
  <2>1. /\ UNCHANGED <<inbox, batch, sent>> /\ at[c] = "sending"
        /\ \/ UNCHANGED socket
           \/ /\ socket' = Append(socket, Datagram(c)) /\ at' = [at EXCEPT ![c] = "waiting"]
              /\ UNCHANGED <<calls, attempt>>
    BY <1>6 DEF Send, workerVars
  <2>2. CASE UNCHANGED socket
    BY <1>2, <2>1, <2>2
  <2>3. \A w \in Workers : Unanswered(w)' = Unanswered(w)
    BY <2>1 DEF Unanswered
  <2>4. \A q \in Places \ {None} : Queues'[q] = Queues[q]
    BY <2>1, <2>3, QueuesAre, QueuesBecome DEF Places
  <2> QED
    BY <2>1, <2>2, <2>4, QueuesAre, QueuesBecome DEF Sends, Kept
<1>7. ASSUME NEW w \in Workers, First(w) \/ Fill(w) \/ Join(w) PROVE Kept({}) \/ Moves(None, w)
  <2>1. UNCHANGED <<inbox, sent>> /\ wat[w] # "reply"
    BY <1>7 DEF First, Fill, Join, Go
  <2>2. CASE UNCHANGED <<socket, batch>>
    BY <1>2, <2>1, <2>2
  <2>3. CASE socket # <<>> /\ TakeRequest(w)
    BY <2>1, <2>3, TakeMoves
  <2> QED
    BY <1>7, <2>2, <2>3 DEF First, Fill, Join
<1>8. ASSUME NEW w \in Workers, Compute(w) PROVE Kept({})
  <2>1. sent[w] = 0
    BY <1>8 DEF Compute, Go, TypeInv, BatchInv
  <2>2. sent'[w] = sent[w] /\ \A v \in Workers : sent'[v] = sent[v]
    BY <1>8, <2>1 DEF Compute, TypeInv, WorkerType
  <2>3. UNCHANGED <<inbox, socket, batch>>
    BY <1>8 DEF Compute
  <2> QED
    BY <1>1, <2>2, <2>3 DEF Unanswered
<1>9. ASSUME NEW w \in Workers, Served(w) PROVE Kept({})
  <2>1. batch[w] \in Seq(Datagrams) /\ sent[w] = Len(batch[w]) /\ batch'[w] = <<>> /\ sent'[w] = 0
    BY <1>9 DEF Served, TypeInv, WorkerType
  <2>2. Len(batch[w]) \in Nat
    BY <2>1
  <2>3. Unanswered(w) = <<>> /\ Unanswered(w)' = <<>>
    BY <2>1, <2>2, ShorterRest DEF Unanswered
  <2>4. \A v \in Workers \ {w} : Unanswered(v)' = Unanswered(v)
    BY <1>9 DEF Served, TypeInv, WorkerType, Unanswered
  <2>5. UNCHANGED <<inbox, socket>>
    BY <1>9 DEF Served
  <2> QED
    BY <1>1, <2>3, <2>4, <2>5
<1>10. ASSUME NEW w \in Workers, Select(w) \/ Linger(w) \/ Depart(w) \/ Fail(w) PROVE Kept({})
  BY <1>2, <1>10 DEF Select, Linger, Depart, Fail
<1>11. ASSUME NEW w \in Workers, WorkerStep(w) \/ Fail(w) PROVE Kept({}) \/ Moves(None, w) \/ Replies(w)
  BY <1>7, <1>8, <1>9, <1>10, <1>11, ReplyMoves DEF WorkerStep
<1>12. CASE Close
  <2>1. socket' = <<>> /\ UNCHANGED <<inbox, batch, sent>>
    BY <1>12 DEF Close, workerVars
  <2>2. \A w \in Workers : Unanswered(w)' = Unanswered(w)
    BY <2>1 DEF Unanswered
  <2> QED
    BY <1>12, <2>1, <2>2, QueuesAre, QueuesBecome DEF Places, Closes, Kept
<1>13. CASE Toggle \/ UNCHANGED vars
  BY <1>2, <1>13 DEF Toggle, vars, workerVars
<1> QED
  BY <1>4, <1>5, <1>6, <1>11, <1>12, <1>13 DEF Next, ClientStep

\* The datagram of the attempt that a client is in.
LEMMA CurrentDatagram ==
    ASSUME TypeInv, NEW c \in Clients, at[c] # "idle"
    PROVE  Datagram(c) \in Datagrams
<1>1. calls[c] \in Nat /\ calls[c] > 0 /\ calls[c] <= MaxCalls[c] /\ MaxCalls[c] \in Nat
  BY ServiceAssumption DEF TypeInv, ClientType
<1>2. calls[c] \in 1 .. MaxCalls[c]
  BY <1>1
<1>3. attempt[c] \in 0 .. MaxRetries
  BY DEF TypeInv, ClientType
<1> QED
  BY <1>2, <1>3, DatagramMade DEF Datagram

LEMMA SendKeepsFlow ==
    ASSUME TypeInv, [Next]_vars, FlowInv, NEW c \in Clients, Sends(c)
    PROVE  FlowInv'
<1>1. \E d \in Datagrams : d = Datagram(c) /\ ~Issued(d) /\ Issued(d)'
  <2>1. at[c] = "sending" /\ calls[c] \in Nat /\ attempt[c] \in 0 .. MaxRetries
    BY DEF Sends, TypeInv, ClientType
  <2>3. Datagram(c) \in Datagrams
    BY <2>1, CurrentDatagram
  <2>4. ~Issued(Datagram(c))
    BY <2>1, ServiceAssumption DEF Issued, Datagram
  <2>5. at'[c] = "waiting" /\ calls' = calls /\ attempt' = attempt
    BY DEF Sends, TypeInv, ClientType
  <2>6. \A d \in Datagrams : d = Datagram(c) => Issued(d)'
    BY <2>1, <2>5 DEF Issued, Datagram
  <2> QED
    BY <2>3, <2>4, <2>6
<1>2. PICK d \in Datagrams : d = Datagram(c) /\ ~Issued(d) /\ Issued(d)'
  BY <1>1
<1>3. Queues'[None] = Append(Queues[None], d) /\ \A q \in Places \ {None} : Queues'[q] = Queues[q]
  BY <1>2 DEF Sends, Kept
<1>4. Queues \in [Places -> Seq(Datagrams)] /\ None \in Places /\ Apart(Places, Queues)
  BY QueuesType DEF FlowInv, Places
<1>5. \A q \in Places : d \notin ToSet(Queues[q])
  BY <1>2 DEF FlowInv
<1>6. Apart(Places, Queues')
  BY <1>2, <1>3, <1>4, <1>5, ApartPush
<1>7. ToSet(Queues'[None]) = ToSet(Queues[None]) \cup {d}
  BY <1>2, <1>3, <1>4, PushLast
<1>8. ASSUME NEW p \in Places, NEW e \in ToSet(Queues[p]) PROVE Issued(e)'
  <2>1. e \in Datagrams /\ Issued(e)
    BY <1>8, QueuesType, ElementOfSeq DEF FlowInv, ToSet
  <2> QED
    BY <2>1, IssuedStays
<1>9. ASSUME NEW q \in Places, NEW e \in ToSet(Queues'[q]) PROVE Issued(e)'
  BY <1>2, <1>3, <1>4, <1>7, <1>8
<1>10. Apart(Places, Queues)'
  BY <1>6
<1> QED
  BY <1>9, <1>10 DEF FlowInv

LEMMA StepKeepsFlow == TypeInv /\ FlowInv /\ [Next]_vars => FlowInv'
<1> SUFFICES ASSUME TypeInv, FlowInv, [Next]_vars PROVE FlowInv'
  OBVIOUS
<1>1. None \in Places /\ Clients \subseteq Places /\ Workers \subseteq Places
      /\ \A w \in Workers : w # None /\ w \notin Clients
  BY NamesApart DEF Places, None
<1>2. CASE Kept({})
  BY <1>2, FlowSame DEF Kept
<1>3. ASSUME NEW p \in Places, Pops(p) PROVE FlowInv'
  BY <1>3, FlowPop DEF Pops, Kept
<1>4. ASSUME NEW p \in Places, NEW t \in Places, t # p, Moves(p, t) PROVE FlowInv'
  BY <1>4, FlowMove DEF Moves, Kept
<1>5. ASSUME NEW w \in Workers, Moves(None, w) \/ Replies(w) PROVE FlowInv'
  <2>1. CASE Moves(None, w)
    BY <1>1, <1>4, <2>1
  <2>2. CASE Replies(w)
    <3>1. PICK c \in Clients : Pops(w) \/ Moves(w, c)
      BY <2>2 DEF Replies
    <3> QED
      BY <1>1, <1>3, <1>4, <3>1
  <2> QED
    BY <1>5, <2>1, <2>2
<1>6. CASE Closes
  <2>1. Queues'[None] = <<>> /\ \A q \in Places \ {None} : Queues'[q] = Queues[q]
    BY <1>6 DEF Closes, Kept
  <2>2. Apart(Places, Queues)
    BY DEF FlowInv
  <2>3. Apart(Places, Queues')
    BY <1>1, <2>1, <2>2, ApartDrop
  <2>4. \A q \in Places : \A d \in ToSet(Queues'[q]) : \E p \in Places : d \in ToSet(Queues[p])
    BY <2>1, EmptyQueue
  <2> QED
    BY <2>3, <2>4, FlowIssued
<1> QED
  BY <1>1, <1>2, <1>3, <1>5, <1>6, NetSteps, SendKeepsFlow

LEMMA InitFlow == Init => FlowInv
<1> SUFFICES ASSUME Init PROVE FlowInv
  OBVIOUS
<1>1. \A w \in Workers : Unanswered(w) = <<>>
  <2>1. \A w \in Workers : batch[w] = <<>> /\ sent[w] = 0
    BY DEF Init
  <2>2. <<>> \in Seq(Datagrams) /\ 0 \in 0 .. Len(<<>>)
    OBVIOUS
  <2> QED
    BY <2>1, <2>2, ShorterRest DEF Unanswered
<1>2. \A q \in Places : Queues[q] = <<>>
  BY <1>1, QueuesAre DEF Init, Places
<1> QED
  BY <1>2, EmptyQueue DEF FlowInv, Apart

\* Every request sent is in the server's socket, in one worker's batch or in
\* its client's socket, in one place at most: recvfrom takes it out of the
\* socket that the workers share, and flashClient never sends the same twice.
THEOREM RequestsTakenOnce == Spec => []TakenOnce
<1>1. FlowInv => TakenOnce
  BY TakenOnceIsApart DEF FlowInv
<1> QED
  BY <1>1, TypesHold, InitFlow, StepKeepsFlow, PTL DEF Spec
-----------------------------------------------------------------------------
(* Patience: a timer that fires only when the answer cannot come any more. *)

\* No worker is left, or something of the current call is still to arrive.
Gone == \A w \in Workers : wat[w] = "gone"
Hope(c) == OnItsWay(c) \/ inbox[c] # <<>>

\* Every attempt that was given up is a datagram lost.
LossInv ==
    /\ ~server_running => Gone
    /\ \A c \in Clients : ~Gone =>
         /\ at[c] = "sending" => losses >= attempt[c]
         /\ at[c] = "waiting" => losses > attempt[c] \/ (losses >= attempt[c] /\ Hope(c))
         /\ at[c] = "exited" => losses > MaxRetries

\* The one datagram of a client that may be under way belongs to the attempt it
\* waits for.
OnlyCurrent(c) == \A q \in Places : \A d \in ToSet(Queues[q]) : Sender(d) = c => at[c] = "waiting" /\ d = Datagram(c)
PatienceInv == \A c \in Clients :
    /\ OnlyCurrent(c)
    /\ at[c] = "draining" => resp[c] # None
    /\ resp[c] # None => CallOf(resp[c]) = <<c, calls[c]>>

LEMMA HeadOrTail ==
    ASSUME NEW S, NEW s \in Seq(S), s # <<>>, NEW d \in ToSet(s) PROVE d = Head(s) \/ d \in ToSet(Tail(s))
<1>1. PICK i \in 1 .. Len(s) : d = s[i]
  BY DEF ToSet
<1>2. Len(s) \in Nat /\ Len(s) > 0 /\ Head(s) = s[1] /\ Tail(s) \in Seq(S) /\ Len(Tail(s)) = Len(s) - 1
  OBVIOUS
<1>3. CASE i = 1
  BY <1>1, <1>2, <1>3
<1>4. CASE i # 1
  <2>1. i - 1 \in 1 .. Len(s) - 1 /\ Tail(s)[i - 1] = s[i]
    BY <1>2, <1>4
  <2>2. DOMAIN Tail(s) = 1 .. Len(s) - 1
    BY <1>2
  <2> QED
    BY <1>1, <2>1, <2>2 DEF ToSet
<1> QED
  BY <1>3, <1>4

LEMMA InFlightIs ==
    /\ \A d : d \in InFlight <=> \E q \in Workers \cup {None} : d \in ToSet(Queues[q])
    /\ \A d : d \in InFlight' <=> \E q \in Workers \cup {None} : d \in ToSet(Queues'[q])
BY QueuesAre, QueuesBecome DEF InFlight

LEMMA NamesDiffer == /\ None \notin Clients \cup Workers /\ \A w \in Workers : w \notin Clients
                     /\ Clients \subseteq Places /\ Workers \subseteq Places /\ None \in Places
BY NamesApart DEF Places, None

\* A step of anybody else leaves a client where it is.
LEMMA ClientSame ==
    ASSUME TypeInv, [Next]_vars, NEW c \in Clients, ~Call(c), ~ClientStep(c)
    PROVE  at'[c] = at[c] /\ calls'[c] = calls[c] /\ attempt'[c] = attempt[c] /\ resp'[c] = resp[c]
<1>1. CASE UNCHANGED clientVars
  BY <1>1 DEF clientVars
<1>2. ASSUME NEW e \in Clients, Call(e) \/ ClientStep(e)
      PROVE  at'[c] = at[c] /\ calls'[c] = calls[c] /\ attempt'[c] = attempt[c] /\ resp'[c] = resp[c]
  <2>1. e # c
    BY <1>2
  <2>2. /\ DOMAIN at = Clients /\ DOMAIN calls = Clients /\ DOMAIN attempt = Clients /\ DOMAIN resp = Clients
    BY DEF TypeInv, ClientType
  <2> QED
    BY <1>2, <2>1, <2>2 DEF Call, ClientStep, Send, Receive, Timeout, Drain, Return, Retry, clientVars, TypeInv, ClientType
<1>3. ASSUME NEW w \in Workers, WorkerStep(w) \/ Fail(w) PROVE UNCHANGED clientVars
  BY <1>3 DEF WorkerStep, Select, First, Fill, Linger, Join, Depart, Compute, Reply, Served, Fail
<1>4. ASSUME NEW e \in Clients, Forget(e) PROVE UNCHANGED clientVars
  BY <1>4 DEF Forget
<1>5. CASE Close \/ Toggle \/ UNCHANGED vars
  BY <1>1, <1>5 DEF Close, Toggle, vars
<1> QED
  BY <1>1, <1>2, <1>3, <1>4, <1>5 DEF Next

LEMMA LossesGrow == ASSUME TypeInv, [Next]_vars PROVE losses \in Nat /\ (losses' = losses \/ losses' = losses + 1)
<1>1. losses \in Nat
  BY ServiceAssumption DEF TypeInv, NetType
<1>2. ASSUME NEW c \in Clients, Call(c) \/ ClientStep(c) \/ Forget(c) PROVE losses' = losses \/ losses' = losses + 1
  BY <1>2 DEF Call, ClientStep, Send, Receive, Timeout, Drain, Return, Forget, Lose
<1>3. ASSUME NEW w \in Workers, WorkerStep(w) \/ Fail(w) PROVE losses' = losses \/ losses' = losses + 1
  BY <1>3 DEF WorkerStep, Select, First, Fill, Linger, Join, Depart, Compute, Reply, Served, Fail, Lose
<1>4. CASE Close \/ Toggle \/ UNCHANGED vars
  BY <1>1, <1>4 DEF Close, Toggle, vars
<1> QED
  BY <1>1, <1>2, <1>3, <1>4 DEF Next

\* A worker that has left its loop does not come back, and the socket is closed
\* by nobody but the last.
LEMMA GoneStays ==
    ASSUME TypeInv, [Next]_vars
    PROVE  (Gone => Gone') /\ (server_running /\ ~server_running' => Gone')
<1>1. ASSUME NEW w \in Workers, WorkerStep(w) \/ Fail(w)
      PROVE  server_running' = server_running /\ wat[w] # "gone"
  BY <1>1 DEF WorkerStep, Select, First, Fill, Linger, Join, Depart, Compute, Reply, Served, Fail, Go, server
<1>2. ASSUME NEW c \in Clients, Call(c) \/ ClientStep(c) \/ Forget(c) PROVE UNCHANGED <<wat, server_running>>
  BY <1>2 DEF Call, ClientStep, Send, Receive, Timeout, Drain, Return, Forget, workerVars, server
<1>3. CASE Close
  BY <1>3 DEF Close, workerVars, Gone
<1>4. CASE Toggle \/ UNCHANGED vars
  BY <1>4 DEF Toggle, vars, workerVars, server, Gone
<1> QED
  BY <1>1, <1>2, <1>3, <1>4 DEF Next, Gone

LEMMA HopeStays ==
    ASSUME TypeInv, [Next]_vars, NEW c \in Clients, Hope(c), calls'[c] = calls[c], ~ClientStep(c)
    PROVE  Hope(c)' \/ losses' = losses + 1 \/ Gone'
<1>1. Queues \in [Places -> Seq(Datagrams)]
  BY QueuesType
<1>2. Queues[c] = inbox[c] /\ Queues'[c] = inbox'[c]
  BY QueuesAre, QueuesBecome
<1>3. ~Receive(c) /\ ~Drain(c)
  BY DEF ClientStep
<1>4. \A s \in Seq(Datagrams) : \A x \in Datagrams : Append(s, x) # <<>> /\ ToSet(Append(s, x)) = ToSet(s) \cup {x}
  BY PushLast, AppendFacts
<1>5. \A w \in Workers : Replies(w) /\ ~(losses' = losses + 1) => Moves(w, Sender(Head(Queues[w])))
  BY DEF Replies
<1>6. CASE inbox[c] # <<>>
  <2>1. Queues[c] # <<>> /\ Queues[c] \in Seq(Datagrams)
    BY <1>1, <1>2, <1>6, NamesDiffer
  <2>2. ASSUME NEW p \in Places, NEW t \in Places, Moves(p, t), p # c PROVE Queues'[c] # <<>>
    <3>1. Head(Queues[p]) \in Datagrams
      BY <1>1, <2>2, PopHead DEF Moves
    <3> QED
      BY <1>4, <2>1, <2>2, <3>1, NamesDiffer DEF Moves, Kept
  <2>3. ASSUME NEW w \in Workers, Moves(None, w) \/ Replies(w) PROVE Queues'[c] # <<>> \/ losses' = losses + 1
    BY <1>5, <2>2, <2>3, NamesDiffer DEF Replies
  <2>4. ASSUME NEW e \in Clients, Pops(e), e # c PROVE Queues'[c] # <<>>
    BY <2>1, <2>4, NamesDiffer DEF Pops, Kept
  <2>5. ASSUME Kept({}) \/ (\E e \in Clients : Sends(e)) \/ Closes PROVE Queues'[c] # <<>>
    BY <2>1, <2>5, NamesDiffer DEF Kept, Sends, Closes
  <2>6. Queues'[c] # <<>> \/ losses' = losses + 1
    BY <1>3, <2>3, <2>4, <2>5, NetSteps
  <2> QED
    BY <1>2, <2>6 DEF Hope
<1>7. CASE OnItsWay(c)
  <2>0. PICK d \in InFlight : CallOf(d) = <<c, calls[c]>>
    BY <1>7 DEF OnItsWay
  <2>1. PICK q \in Workers \cup {None} : d \in ToSet(Queues[q]) /\ CallOf(d) = <<c, calls[c]>>
    BY <2>0, InFlightIs
  <2>2. q \in Places /\ q \notin Clients /\ Queues[q] \in Seq(Datagrams) /\ Sender(d) = c
    BY <1>1, <2>1, NamesDiffer DEF CallOf, Sender
  <2>3. ASSUME NEW p \in Workers \cup {None}, d \in ToSet(Queues'[p]) PROVE Hope(c)'
    <3>1. d \in InFlight'
      BY <2>3, InFlightIs
    <3> QED
      BY <2>1, <3>1 DEF Hope, OnItsWay
  <2>4. ASSUME Queues'[q] = Queues[q] PROVE Hope(c)'
    BY <2>1, <2>3, <2>4
  <2>5. ASSUME Queues[q] # <<>>, Queues'[q] = Tail(Queues[q]), d # Head(Queues[q]) PROVE Hope(c)'
    BY <2>1, <2>2, <2>3, <2>5, HeadOrTail
  <2>6. ASSUME NEW x \in Datagrams, Queues'[q] = Append(Queues[q], x) PROVE Hope(c)'
    BY <1>4, <2>1, <2>2, <2>3, <2>6
  <2>7. ASSUME NEW p \in Places, NEW t \in Places, Moves(p, t), p \notin Clients, p = q => t = c \/ t \in Workers
        PROVE  Hope(c)'
    <3>1. Head(Queues[p]) \in Datagrams
      BY <1>1, <2>7, PopHead DEF Moves
    <3>2. CASE p = q /\ d = Head(Queues[q])
      <4>1. d \in ToSet(Queues'[t])
        BY <1>1, <1>4, <2>7, <3>1, <3>2 DEF Moves
      <4>2. CASE t = c
        BY <1>2, <4>1, <4>2, EmptyQueue DEF Hope
      <4>3. CASE t \in Workers
        BY <2>3, <4>1, <4>3
      <4> QED
        BY <2>7, <3>2, <4>2, <4>3
    <3>3. CASE p = q /\ d # Head(Queues[q])
      BY <2>5, <2>7, <3>3 DEF Moves
    <3>4. CASE p # q /\ t = q
      BY <2>6, <2>7, <3>1, <3>4 DEF Moves
    <3>5. CASE p # q /\ t # q
      BY <2>2, <2>4, <2>7, <3>5 DEF Moves, Kept
    <3> QED
      BY <3>2, <3>3, <3>4, <3>5
  <2>8. ASSUME NEW w \in Workers, Moves(None, w) \/ Replies(w) PROVE Hope(c)' \/ losses' = losses + 1
    <3>1. CASE Moves(None, w)
      BY <2>7, <3>1, NamesDiffer
    <3>2. CASE Replies(w)
      <4>1. SUFFICES ASSUME ~(losses' = losses + 1) PROVE Hope(c)'
        OBVIOUS
      <4>2. PICK t \in Clients : t = Sender(Head(Queues[w])) /\ Moves(w, t)
        BY <1>5, <3>2, <4>1 DEF Replies
      <4>3. w = q /\ d = Head(Queues[w]) => t = c
        BY <2>2, <4>2
      <4>4. CASE w = q /\ d # Head(Queues[q])
        BY <2>5, <4>2, <4>4 DEF Moves
      <4>5. CASE w # q
        BY <2>7, <4>2, <4>5, NamesDiffer
      <4> QED
        BY <2>7, <4>2, <4>3, <4>4, <4>5, NamesDiffer
    <3> QED
      BY <2>8, <3>1, <3>2
  <2>9. ASSUME NEW e \in Clients, Pops(e) PROVE Hope(c)'
    BY <2>2, <2>4, <2>9 DEF Pops, Kept
  <2>10. ASSUME NEW e \in Clients, Sends(e) PROVE Hope(c)'
    <3>1. CASE q = None
      <4>2. Datagram(e) \in Datagrams
        BY <2>10, CurrentDatagram DEF Sends
      <4> QED
        BY <2>6, <2>10, <3>1, <4>2 DEF Sends
    <3>2. CASE q # None
      BY <2>2, <2>4, <2>10, <3>2 DEF Sends, Kept
    <3> QED
      BY <3>1, <3>2
  <2>11. CASE Kept({})
    BY <2>2, <2>4, <2>11 DEF Kept
  <2>12. CASE Close
    BY <2>12 DEF Close, Gone, workerVars
  <2> QED
    BY <2>8, <2>9, <2>10, <2>11, <2>12, NetSteps
<1> QED
  BY <1>6, <1>7 DEF Hope

LEMMA StepKeepsLosses ==
    ASSUME ~Spurious, TypeInv, LossInv, [Next]_vars
    PROVE  LossInv'
<1>1. ~server_running' => Gone'
  BY GoneStays DEF LossInv
<1>2. SUFFICES ASSUME NEW c \in Clients, ~Gone'
               PROVE  /\ at'[c] = "sending" => losses' >= attempt'[c]
                      /\ at'[c] = "waiting" => losses' > attempt'[c] \/ (losses' >= attempt'[c] /\ Hope(c)')
                      /\ at'[c] = "exited" => losses' > MaxRetries
  BY <1>1 DEF LossInv
<1>3. ~Gone /\ server_running
  BY <1>2, GoneStays DEF LossInv
<1>4. /\ at[c] = "sending" => losses >= attempt[c]
      /\ at[c] = "waiting" => losses > attempt[c] \/ (losses >= attempt[c] /\ Hope(c))
      /\ at[c] = "exited" => losses > MaxRetries
  BY <1>3 DEF LossInv
<1>5. /\ losses \in Nat /\ losses' \in Nat /\ (losses' = losses \/ losses' = losses + 1)
      /\ attempt[c] \in Nat /\ attempt[c] <= MaxRetries /\ MaxRetries \in Nat
      /\ DOMAIN at = Clients /\ DOMAIN attempt = Clients /\ DOMAIN calls = Clients
  BY LossesGrow, ServiceAssumption DEF TypeInv, ClientType
<1>6. ASSUME Retry(c), losses' > attempt[c]
      PROVE  /\ at'[c] = "sending" => losses' >= attempt'[c]
             /\ at'[c] = "exited" => losses' > MaxRetries
             /\ at'[c] # "waiting"
  BY <1>5, <1>6 DEF Retry
<1>7. CASE Call(c)
  BY <1>5, <1>7 DEF Call
<1>8. CASE Send(c)
  <2>1. at[c] = "sending" /\ losses >= attempt[c]
    BY <1>4, <1>8 DEF Send
  <2>2. CASE /\ socket' = Append(socket, Datagram(c)) /\ at' = [at EXCEPT ![c] = "waiting"]
             /\ UNCHANGED <<calls, attempt, losses>>
    <3>1. at'[c] = "waiting" /\ losses' = losses /\ attempt'[c] = attempt[c] /\ calls'[c] = calls[c]
      BY <1>5, <2>2
    <3>2. Datagram(c) \in ToSet(socket')
      <4>2. Datagram(c) \in Datagrams /\ socket \in Seq(Datagrams)
        BY <2>1, CurrentDatagram DEF TypeInv, NetType
      <4> QED
        BY <2>2, <4>2, PushLast
    <3>3. PICK d : d = Datagram(c)
      OBVIOUS
    <3>4. d \in InFlight' /\ CallOf(d) = <<c, calls[c]>>
      BY <3>2, <3>3 DEF InFlight, Datagram, CallOf
    <3>5. Hope(c)'
      BY <3>1, <3>4 DEF Hope, OnItsWay
    <3> QED
      BY <2>1, <3>1, <3>5
  <2>3. CASE Lose /\ at' = [at EXCEPT ![c] = "waiting"] /\ UNCHANGED attempt
    BY <1>5, <2>1, <2>3 DEF Lose
  <2>4. CASE Lose /\ Retry(c)
    <3>1. losses' > attempt[c]
      BY <1>5, <2>1, <2>4 DEF Lose
    <3> QED
      BY <1>6, <2>4, <3>1
  <2> QED
    BY <1>3, <1>8, <2>2, <2>3, <2>4 DEF Send
<1>9. CASE Timeout(c)
  <2>1. at[c] = "waiting" /\ ~Hope(c) /\ Retry(c) /\ losses' = losses
    BY <1>9 DEF Timeout, Hope
  <2>2. losses' > attempt[c]
    BY <1>4, <2>1
  <2> QED
    BY <1>6, <2>1, <2>2
<1>10. CASE Receive(c) \/ Drain(c) \/ Return(c)
  BY <1>5, <1>10 DEF Receive, Drain, Return, clientVars
<1>11. CASE ~Call(c) /\ ~ClientStep(c)
  <2>1. at'[c] = at[c] /\ calls'[c] = calls[c] /\ attempt'[c] = attempt[c]
    BY <1>11, ClientSame
  <2>2. Hope(c) => Hope(c)' \/ losses' = losses + 1
    BY <1>2, <1>11, <2>1, HopeStays
  <2> QED
    BY <1>4, <1>5, <2>1, <2>2
<1> QED
  BY <1>7, <1>8, <1>9, <1>10, <1>11 DEF ClientStep

\* Where the datagrams of a step come from.
LEMMA FlowComes ==
    ASSUME TypeInv, [Next]_vars, NEW q \in Places, NEW d \in ToSet(Queues'[q])
    PROVE  (\E p \in Places : d \in ToSet(Queues[p])) \/ \E c \in Clients : Sends(c) /\ d = Datagram(c)
<1>0. \A r \in Seq(Datagrams) : \A x \in Datagrams : ToSet(Append(r, x)) = ToSet(r) \cup {x}
  BY PushLast
<1>1. Queues \in [Places -> Seq(Datagrams)]
  BY QueuesType
<1>2. ASSUME Queues'[q] = Queues[q] PROVE \E p \in Places : d \in ToSet(Queues[p])
  BY <1>2
<1>3. ASSUME NEW p \in Places, Queues[p] # <<>>, Queues'[p] = Tail(Queues[p]), p = q
      PROVE  \E r \in Places : d \in ToSet(Queues[r])
  BY <1>1, <1>3, PopHead
<1>4. ASSUME NEW p \in Places, NEW t \in Places, Moves(p, t) PROVE \E r \in Places : d \in ToSet(Queues[r])
  <2>1. CASE t = q
    <3>1. Head(Queues[p]) \in Datagrams /\ Head(Queues[p]) \in ToSet(Queues[p])
      BY <1>1, <1>4, PopHead DEF Moves
    <3>2. Queues'[q] = Append(Queues[q], Head(Queues[p]))
      BY <1>4, <2>1 DEF Moves
    <3>3. ToSet(Queues'[q]) = ToSet(Queues[q]) \cup {Head(Queues[p])}
      BY <1>0, <1>1, <3>1, <3>2
    <3> QED
      BY <3>1, <3>3
  <2>2. CASE t # q
    BY <1>2, <1>3, <1>4, <2>2 DEF Moves, Kept
  <2> QED
    BY <2>1, <2>2
<1>5. ASSUME NEW p \in Places, Pops(p) PROVE \E r \in Places : d \in ToSet(Queues[r])
  BY <1>2, <1>3, <1>5 DEF Pops, Kept
<1>6. ASSUME NEW w \in Workers, Moves(None, w) \/ Replies(w) PROVE \E r \in Places : d \in ToSet(Queues[r])
  BY <1>4, <1>5, <1>6, NamesDiffer DEF Replies
<1>7. ASSUME NEW c \in Clients, Sends(c) PROVE (\E p \in Places : d \in ToSet(Queues[p])) \/ d = Datagram(c)
  <2>1. CASE q = None
    <3>1. Datagram(c) \in Datagrams
      BY <1>7, CurrentDatagram DEF Sends
    <3>2. Queues'[q] = Append(Queues[q], Datagram(c))
      BY <1>7, <2>1 DEF Sends
    <3>3. ToSet(Queues'[q]) = ToSet(Queues[q]) \cup {Datagram(c)}
      BY <1>0, <1>1, <3>1, <3>2
    <3> QED
      BY <3>3
  <2>2. CASE q # None
    BY <1>2, <1>7, <2>2 DEF Sends, Kept
  <2> QED
    BY <2>1, <2>2
<1>8. CASE Closes
  BY <1>2, <1>8, EmptyQueue DEF Closes, Kept
<1>9. CASE Kept({})
  BY <1>2, <1>9 DEF Kept
<1> QED
  BY <1>5, <1>6, <1>7, <1>8, <1>9, NamesDiffer, NetSteps

LEMMA StepKeepsPatience ==
    ASSUME ~Spurious, TypeInv, FlowInv, OwnAnswers, PatienceInv, [Next]_vars
    PROVE  PatienceInv'
<1> SUFFICES ASSUME NEW c \in Clients
             PROVE  /\ OnlyCurrent(c)'
                    /\ at'[c] = "draining" => resp'[c] # None
                    /\ resp'[c] # None => CallOf(resp'[c]) = <<c, calls'[c]>>
  BY DEF PatienceInv
<1>1. /\ \A q \in Places : \A d \in ToSet(Queues[q]) : Sender(d) = c => at[c] = "waiting" /\ d = Datagram(c)
      /\ at[c] = "draining" => resp[c] # None
      /\ resp[c] # None => CallOf(resp[c]) = <<c, calls[c]>>
  BY DEF PatienceInv, OnlyCurrent
<1>2. /\ DOMAIN at = Clients /\ DOMAIN attempt = Clients /\ DOMAIN calls = Clients /\ DOMAIN resp = Clients
      /\ Queues \in [Places -> Seq(Datagrams)] /\ Queues[c] = inbox[c] /\ c \in Places
  BY QueuesType, QueuesAre, NamesDiffer DEF TypeInv, ClientType
<1>3. ASSUME NEW e \in Clients, Sends(e), Sender(Datagram(e)) = c
      PROVE  at'[c] = "waiting" /\ Datagram(e) = Datagram(c)'
  <2>1. e = c
    BY <1>3 DEF Sender, Datagram
  <2> QED
    BY <1>2, <1>3, <2>1 DEF Sends, Datagram
\* Nothing of the client was under way, so nothing but what it sends is.
<1>4. ASSUME \A q \in Places : \A d \in ToSet(Queues[q]) : Sender(d) # c PROVE OnlyCurrent(c)'
  <2>1. ASSUME NEW q \in Places, NEW d \in ToSet(Queues'[q]), Sender(d) = c
        PROVE  at'[c] = "waiting" /\ d = Datagram(c)'
    <3>1. PICK e \in Clients : Sends(e) /\ d = Datagram(e)
      BY <1>4, <2>1, FlowComes
    <3> QED
      BY <1>3, <2>1, <3>1
  <2> QED
    BY <2>1 DEF OnlyCurrent
<1>5. at[c] # "waiting" => OnlyCurrent(c)'
  BY <1>1, <1>4
<1>6. CASE Call(c)
  <2>1. at[c] = "idle" /\ at'[c] = "sending" /\ resp'[c] = None
    BY <1>2, <1>6 DEF Call
  <2> QED
    BY <1>5, <2>1
<1>7. ASSUME Retry(c), UNCHANGED <<calls, resp>>
      PROVE  at'[c] \in {"sending", "exited"} /\ resp'[c] = resp[c] /\ calls'[c] = calls[c]
  BY <1>2, <1>7 DEF Retry
<1>8. CASE Send(c)
  <2>1. at[c] = "sending" /\ at'[c] # "draining" /\ resp'[c] = resp[c] /\ calls'[c] = calls[c]
    BY <1>2, <1>7, <1>8 DEF Send
  <2> QED
    BY <1>1, <1>5, <2>1
<1>9. CASE Receive(c)
  <2>1. /\ inbox[c] # <<>> /\ inbox' = [inbox EXCEPT ![c] = Tail(@)] /\ UNCHANGED <<socket, batch, sent, calls>>
        /\ at'[c] = "draining" /\ resp'[c] = Head(inbox[c])
    BY <1>2, <1>9 DEF Receive, workerVars
  <2>2. Pops(c)
    BY <2>1, ReadPops
  <2>3. PICK first \in Datagrams : first = Head(Queues[c]) /\ first \in ToSet(Queues[c])
    BY <1>2, <2>1, PopHead
  <2>4. Sender(first) = c
    <3>1. \E i \in 1 .. Len(inbox[c]) : first = inbox[c][i]
      BY <1>2, <2>3 DEF ToSet
    <3> QED
      BY <3>1 DEF OwnAnswers
  <2>5. first = Datagram(c)
    BY <1>1, <1>2, <2>3, <2>4
  <2>6. \A q \in Places : first \notin ToSet(Queues'[q])
    <3>1. Queues' \in [Places -> Seq(Datagrams)]
      <4>1. \A q \in Places : Queues'[q] \in Seq(Datagrams)
        <5>1. Queues'[c] = Tail(Queues[c]) /\ Queues[c] \in Seq(Datagrams) /\ Queues[c] # <<>>
          BY <1>2, <2>2 DEF Pops
        <5>2. Queues'[c] \in Seq(Datagrams)
          BY <5>1, PopHead
        <5>3. \A q \in Places \ {c} : Queues'[q] \in Seq(Datagrams)
          BY <1>2, <2>2 DEF Pops, Kept
        <5> QED
          BY <5>2, <5>3
      <4> QED
        BY <4>1 DEF Queues
    <3>2. Apart(Places, Queues)
      BY DEF FlowInv
    <3> QED
      BY <1>2, <2>2, <2>3, <3>1, <3>2, ApartPop DEF Pops, Kept
  <2>7. ASSUME NEW q \in Places, NEW d \in ToSet(Queues'[q]), Sender(d) = c PROVE FALSE
    <3>1. \E p \in Places : d \in ToSet(Queues[p])
      BY <1>2, <2>2, <2>7, PopHead DEF Pops, Kept
    <3>2. d = first
      BY <1>1, <2>5, <2>7, <3>1
    <3> QED
      BY <2>6, <2>7, <3>2
  <2>8. OnlyCurrent(c)'
    BY <2>7 DEF OnlyCurrent
  <2>9. CallOf(first) = <<c, calls'[c]>> /\ first # None
    BY <2>1, <2>3, <2>5, DatagramParts DEF CallOf, Datagram
  <2> QED
    BY <1>2, <2>1, <2>3, <2>8, <2>9
<1>10. CASE Timeout(c)
  <2>1. at[c] = "waiting" /\ inbox[c] = <<>> /\ ~OnItsWay(c) /\ Retry(c) /\ UNCHANGED <<calls, resp>>
    BY <1>10 DEF Timeout
  <2>2. ASSUME NEW q \in Places, NEW d \in ToSet(Queues[q]), Sender(d) = c PROVE FALSE
    <3>1. d = Datagram(c)
      BY <1>1, <2>2
    <3>2. CASE q \in Workers \cup {None}
      <4>1. d \in InFlight
        BY <2>2, <3>2, InFlightIs
      <4> QED
        BY <2>1, <3>1, <4>1 DEF OnItsWay, CallOf, Datagram
    <3>3. CASE q \in Clients
      <4>1. Queues[q] = inbox[q] /\ inbox[q] \in Seq(Datagrams)
        BY <1>2, <3>3, QueuesAre DEF TypeInv, NetType
      <4>2. \E i \in 1 .. Len(inbox[q]) : d = inbox[q][i]
        BY <2>2, <4>1 DEF ToSet
      <4>3. q = c
        BY <2>2, <3>3, <4>2 DEF OwnAnswers
      <4> QED
        BY <2>1, <2>2, <4>1, <4>3, EmptyQueue
    <3> QED
      BY <3>2, <3>3 DEF Places
  <2> QED
    BY <1>1, <1>4, <1>7, <2>1, <2>2
<1>11. CASE Drain(c) \/ Return(c)
  <2>1. at[c] = "draining" /\ resp'[c] = resp[c] /\ calls'[c] = calls[c]
    BY <1>11 DEF Drain, Return, clientVars
  <2> QED
    BY <1>1, <1>5, <2>1
<1>12. CASE ~Call(c) /\ ~ClientStep(c)
  <2>1. at'[c] = at[c] /\ calls'[c] = calls[c] /\ attempt'[c] = attempt[c] /\ resp'[c] = resp[c]
    BY <1>12, ClientSame
  <2>2. Datagram(c)' = Datagram(c)
    BY <2>1 DEF Datagram
  <2>3. OnlyCurrent(c)'
    <3>1. ASSUME NEW q \in Places, NEW d \in ToSet(Queues'[q]), Sender(d) = c
          PROVE  at'[c] = "waiting" /\ d = Datagram(c)'
      <4>1. CASE \E p \in Places : d \in ToSet(Queues[p])
        BY <1>1, <2>1, <2>2, <3>1, <4>1
      <4>2. CASE \E e \in Clients : Sends(e) /\ d = Datagram(e)
        BY <1>3, <3>1, <4>2
      <4> QED
        BY <3>1, <4>1, <4>2, FlowComes
    <3> QED
      BY <3>1 DEF OnlyCurrent
  <2> QED
    BY <1>1, <2>1, <2>3
<1> QED
  BY <1>6, <1>8, <1>9, <1>10, <1>11, <1>12 DEF ClientStep

PatientInv == TypeInv /\ FlowInv /\ OwnAnswers /\ PatienceInv /\ LossInv

LEMMA PatientInvHolds == ASSUME ~Spurious PROVE Spec => []PatientInv
<1>1. Init => PatientInv
  <2> SUFFICES ASSUME Init PROVE PatientInv
    OBVIOUS
  <2>1. TypeInv /\ FlowInv
    BY InitTypes, InitFlow
  <2>2. /\ \A c \in Clients : at[c] = "idle" /\ resp[c] = None /\ inbox[c] = <<>>
        /\ server_running /\ socket = <<>> /\ \A w \in Workers : batch[w] = <<>> /\ sent[w] = 0
    BY DEF Init
  <2>3. OwnAnswers
    BY <2>2 DEF OwnAnswers
  <2>4. \A q \in Places : Queues[q] = <<>>
    <3>1. \A w \in Workers : Unanswered(w) = <<>>
      <4>1. <<>> \in Seq(Datagrams) /\ 0 \in 0 .. Len(<<>>)
        OBVIOUS
      <4> QED
        BY <2>2, <4>1, ShorterRest DEF Unanswered
    <3> QED
      BY <2>2, <3>1, QueuesAre DEF Places
  <2>5. PatienceInv
    BY <2>2, <2>4, EmptyQueue DEF PatienceInv, OnlyCurrent
  <2>6. LossInv
    BY <2>2 DEF LossInv
  <2> QED
    BY <2>1, <2>3, <2>5, <2>6 DEF PatientInv
<1>2. PatientInv /\ [Next]_vars => PatientInv'
  BY StepKeepsTypes, StepKeepsFlow, StepKeepsOwn, StepKeepsPatience, StepKeepsLosses DEF PatientInv
<1> QED
  BY <1>1, <1>2, PTL DEF Spec

\* The retries of flashClient (include/client.hpp) with a timer that is long enough:
\* it gives up only after the network has lost more datagrams than it may send again,
\* or when no worker is left, for any number of clients, workers and calls.
THEOREM RetriesSuffice == ASSUME ~Spurious PROVE Spec => []GivesUpLate
<1>1. PatientInv => GivesUpLate
  BY DEF PatientInv, LossInv, GivesUpLate, Gone
<1> QED
  BY <1>1, PatientInvHolds, PTL

\* With such a timer a call never takes an old answer for its own, though a datagram
\* carries nothing that tells two requests apart: what FreshAnswer loses in the run
\* that expects a violation is lost by early timeouts only.
THEOREM PatientAnswersFresh == ASSUME ~Spurious PROVE Spec => []FreshAnswer
<1>1. PatientInv => FreshAnswer
  BY DEF PatientInv, PatienceInv, FreshAnswer
<1> QED
  BY <1>1, PatientInvHolds, PTL
----------------------------------------------------------------------------
(* The steps of the service are steps of RemoteSubtract.                   *)

\* How far a call of the client is, and what the last one returned.
Status == [c \in Clients |-> IF at[c] \in {"idle", "exited"} THEN at[c] ELSE "pending"]
Answer == [c \in Clients |-> IF at[c] = "idle" /\ resp[c] # None THEN CallOf(resp[c]) ELSE None]

\* A step of one client changes only its own status and answer.
LEMMA StatusOfOne ==
    ASSUME TypeInv, NEW c \in Clients, NEW s, NEW a,
           \A e \in Clients \ {c} : at'[e] = at[e] /\ resp'[e] = resp[e],
           (IF at'[c] \in {"idle", "exited"} THEN at'[c] ELSE "pending") = s,
           (IF at'[c] = "idle" /\ resp'[c] # None THEN CallOf(resp'[c]) ELSE None) = a
    PROVE  Status' = [Status EXCEPT ![c] = s] /\ Answer' = [Answer EXCEPT ![c] = a]
<1>1. Status' = [Status EXCEPT ![c] = s]
  <2>1. \A e \in Clients : Status'[e] = [Status EXCEPT ![c] = s][e]
    BY DEF Status
  <2> QED
    BY <2>1 DEF Status
<1>2. Answer' = [Answer EXCEPT ![c] = a]
  <2>1. \A e \in Clients : Answer'[e] = [Answer EXCEPT ![c] = a][e]
    BY DEF Answer, CallOf
  <2> QED
    BY <2>1 DEF Answer
<1> QED
  BY <1>1, <1>2

\* A step that leaves every client where it is, or within its call, is not seen.
LEMMA Unseen ==
    ASSUME TypeInv,
           \A c \in Clients : \/ at'[c] = at[c] /\ resp'[c] = resp[c]
                              \/ /\ at[c] \in {"sending", "waiting", "draining"}
                                 /\ at'[c] \in {"sending", "waiting", "draining"}
    PROVE  Status' = Status /\ Answer' = Answer
<1>1. Status' = Status
  BY DEF Status
<1>2. Answer' = Answer
  BY DEF Answer, CallOf
<1> QED
  BY <1>1, <1>2

LEMMA StepIsRpc ==
    ASSUME TypeInv, PatienceInv, [Next]_vars
    PROVE  [Rpc!Next]_(Rpc!vars)
<1>1. (Rpc!Next \/ (Status' = Status /\ calls' = calls /\ Answer' = Answer)) => [Rpc!Next]_(Rpc!vars)
  BY DEF Rpc!vars, Status, Answer
<1>2. /\ DOMAIN at = Clients /\ DOMAIN calls = Clients /\ DOMAIN resp = Clients
      /\ \A c \in Clients : at[c] \in {"idle", "sending", "waiting", "draining", "exited"}
  BY DEF TypeInv, ClientType
<1>3. ASSUME NEW c \in Clients, Call(c) PROVE Rpc!Next
  <2>1. /\ at[c] = "idle" /\ calls[c] < MaxCalls[c] /\ calls' = [calls EXCEPT ![c] = @ + 1]
        /\ at'[c] = "sending" /\ resp'[c] = None
        /\ \A e \in Clients \ {c} : at'[e] = at[e] /\ resp'[e] = resp[e]
    BY <1>2, <1>3 DEF Call
  <2>2. Status' = [Status EXCEPT ![c] = "pending"] /\ Answer' = [Answer EXCEPT ![c] = None]
    BY <2>1, StatusOfOne
  <2>3. Status[c] = "idle"
    BY <2>1 DEF Status
  <2>4. Rpc!Call(c)
    BY <2>1, <2>2, <2>3 DEF Rpc!Call, Status, Answer
  <2> QED
    BY <2>4 DEF Rpc!Next
<1>4. ASSUME NEW c \in Clients, Return(c) PROVE Rpc!Next
  <2>1. /\ at[c] = "draining" /\ at'[c] = "idle" /\ calls' = calls /\ resp' = resp
        /\ \A e \in Clients \ {c} : at'[e] = at[e]
    BY <1>2, <1>4 DEF Return
  <2>2. resp[c] # None /\ CallOf(resp[c]) = <<c, calls[c]>>
    BY <2>1 DEF PatienceInv
  <2>3. CallOf(resp'[c]) = <<c, calls[c]>>
    BY <2>1, <2>2 DEF CallOf
  <2>4. Status' = [Status EXCEPT ![c] = "idle"] /\ Answer' = [Answer EXCEPT ![c] = <<c, calls[c]>>]
    BY <2>1, <2>2, <2>3, StatusOfOne
  <2>5. Status[c] = "pending"
    BY <2>1 DEF Status
  <2>6. Rpc!Return(c)
    BY <2>1, <2>4, <2>5 DEF Rpc!Return, Status, Answer
  <2> QED
    BY <2>6 DEF Rpc!Next
<1>5. ASSUME NEW c \in Clients, at[c] \in {"sending", "waiting"}, Retry(c), UNCHANGED <<calls, resp>>
      PROVE  Rpc!Next \/ (Status' = Status /\ calls' = calls /\ Answer' = Answer)
  <2>1. CASE at' = [at EXCEPT ![c] = "sending"]
    BY <1>2, <1>5, <2>1, Unseen
  <2>2. CASE at' = [at EXCEPT ![c] = "exited"]
    <3>1. Status' = [Status EXCEPT ![c] = "exited"] /\ Answer' = [Answer EXCEPT ![c] = None]
      BY <1>2, <1>5, <2>2, StatusOfOne
    <3>2. Answer' = Answer /\ Status[c] = "pending"
      BY <1>5, <3>1 DEF Status, Answer
    <3>3. Rpc!GiveUp(c)
      BY <1>5, <3>1, <3>2 DEF Rpc!GiveUp, Status, Answer
    <3> QED
      BY <3>3 DEF Rpc!Next
  <2> QED
    BY <1>5, <2>1, <2>2 DEF Retry
<1>6. ASSUME NEW c \in Clients, Send(c)
      PROVE  Rpc!Next \/ (Status' = Status /\ calls' = calls /\ Answer' = Answer)
  <2>1. at[c] = "sending" /\ UNCHANGED <<calls, resp>>
    BY <1>6 DEF Send
  <2>2. CASE at' = [at EXCEPT ![c] = "waiting"]
    BY <1>2, <2>1, <2>2, Unseen
  <2>3. CASE Retry(c)
    BY <1>5, <2>1, <2>3
  <2> QED
    BY <1>6, <2>2, <2>3 DEF Send
<1>7. ASSUME NEW c \in Clients, Timeout(c)
      PROVE  Rpc!Next \/ (Status' = Status /\ calls' = calls /\ Answer' = Answer)
  BY <1>5, <1>7 DEF Timeout
<1>8. ASSUME NEW c \in Clients, Receive(c) \/ Drain(c) PROVE Status' = Status /\ calls' = calls /\ Answer' = Answer
  <2>1. CASE Receive(c)
    BY <1>2, <2>1, Unseen DEF Receive
  <2>2. CASE Drain(c)
    BY <2>2, Unseen DEF Drain, clientVars
  <2> QED
    BY <1>8, <2>1, <2>2
<1>9. ASSUME UNCHANGED <<at, calls, resp>> PROVE Status' = Status /\ calls' = calls /\ Answer' = Answer
  BY <1>9, Unseen
<1>10. CASE \/ \E c \in Clients : Forget(c)
            \/ \E w \in Workers : WorkerStep(w) \/ Fail(w)
            \/ Close \/ Toggle \/ UNCHANGED vars
  <2>1. UNCHANGED <<at, calls, resp>>
    BY <1>10 DEF Forget, WorkerStep, Select, First, Fill, Linger, Join, Depart, Compute, Reply, Served,
                 Fail, Close, Toggle, clientVars, vars
  <2> QED
    BY <1>1, <1>9, <2>1
<1> QED
  BY <1>1, <1>3, <1>4, <1>6, <1>7, <1>8, <1>10 DEF Next, ClientStep

\* A timer that never fires while the answer is under way makes the service what
\* RemoteSubtract promises, step by step: flashClient (include/client.hpp) returns only
\* from a pending call and only with the answer to that call, and exits only within
\* one.  That every call ends is a matter of fairness and is left to the run.
THEOREM PatientKeepsPromise == ASSUME ~Spurious PROVE Spec => Rpc!Init /\ [][Rpc!Next]_(Rpc!vars)
<1>1. Init => Rpc!Init
  BY DEF Init, Rpc!Init
<1>2. PatientInv /\ [Next]_vars => [Rpc!Next]_(Rpc!vars)
  BY StepIsRpc DEF PatientInv
<1> QED
  BY <1>1, <1>2, PatientInvHolds, PTL DEF Spec
=============================================================================
