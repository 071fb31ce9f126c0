-------------------------- MODULE RomScheduleProofs --------------------------
(***************************************************************************)
(* Theorems about RomSchedule for every netlist, circular ones included:   *)
(* types, the order in which cells are placed, the constraints on the      *)
(* steps, that no other order of a cell's writes completes it earlier,     *)
(* when the assert fires, and that on the netlist of build_lane the steps  *)
(* are those of the image.                                                 *)
(***************************************************************************)
EXTENDS RomWiring, RomImageProofs

(* The placing loop *)

\* t after each of the writes whose sources are complete at s[1], s[2], ...
IsLoop(t, s, k) == t = [r \in 0 .. k |-> IF r = 0 THEN 1 ELSE LaterOf(s[r], t[r - 1]) + 1]

LEMMA LoopRuns == ASSUME NEW s, NEW L \in Nat PROVE \E t : IsLoop(t, s, L)
<1> DEFINE Rung == {k \in 0 .. L : \E t : IsLoop(t, s, k)}
<1>1. 0 \in Rung
  <2>1. PICK t : t = [r \in 0 .. 0 |-> 1]
    OBVIOUS
  <2>2. IsLoop(t, s, 0)
    BY <2>1 DEF IsLoop
  <2> QED
    BY <2>2
<1>2. ASSUME NEW m \in 1 .. L, m - 1 \in Rung PROVE m \in Rung
  <2>1. m - 1 \in 0 .. L /\ m \in Nat \ {0} /\ m # 0
    OBVIOUS
  <2>2. PICK t : IsLoop(t, s, m - 1)
    BY <1>2
  <2>3. PICK u : u = [r \in 0 .. m |-> IF r = m THEN LaterOf(s[m], t[m - 1]) + 1 ELSE t[r]]
    OBVIOUS
  <2>4. \A r \in 0 .. m : u[r] = IF r = 0 THEN 1 ELSE LaterOf(s[r], u[r - 1]) + 1
    <3> TAKE r \in 0 .. m
    <3>1. CASE r = m
      <4>1. m - 1 \in 0 .. m /\ m - 1 # m
        BY <2>1
      <4>2. u[m - 1] = t[m - 1] /\ u[m] = LaterOf(s[m], t[m - 1]) + 1
        BY <2>1, <2>3, <4>1
      <4> QED
        BY <2>1, <3>1, <4>2
    <3>2. CASE r # m
      <4>1. r \in 0 .. m - 1 /\ u[r] = t[r] /\ (r # 0 => r - 1 \in 0 .. m /\ r - 1 # m)
        BY <2>1, <2>3, <3>2
      <4>2. r # 0 => u[r - 1] = t[r - 1]
        BY <2>3, <4>1
      <4>3. t[r] = IF r = 0 THEN 1 ELSE LaterOf(s[r], t[r - 1]) + 1
        BY <2>2, <4>1 DEF IsLoop
      <4> QED
        BY <4>1, <4>2, <4>3
    <3> QED
      BY <3>1, <3>2
  <2>5. IsLoop(u, s, m)
    BY <2>3, <2>4 DEF IsLoop
  <2> QED
    BY <2>5
<1>3. \A k \in 0 .. L : k \in Rung
  <2> HIDE DEF Rung
  <2> QED
    BY <1>1, <1>2, Climb
<1> QED
  BY <1>3

\* The times rise, each later than its source.
LEMMA LoopRises ==
    ASSUME NEW L \in Nat, NEW s \in [1 .. L -> Int], NEW t, IsLoop(t, s, L)
    PROVE  /\ t \in [0 .. L -> Nat \ {0}] /\ t[0] = 1
           /\ \A r \in 1 .. L : t[r] > s[r] /\ t[r] > t[r - 1]
           /\ \A r \in 1 .. L : t[r] = s[r] + 1 \/ t[r] = t[r - 1] + 1
<1>1. DOMAIN t = 0 .. L /\ t[0] = 1
  BY DEF IsLoop
<1>2. ASSUME NEW r \in 1 .. L PROVE t[r] = LaterOf(s[r], t[r - 1]) + 1
  BY DEF IsLoop
<1> DEFINE Rung == {k \in 0 .. L : t[k] \in Nat \ {0}}
<1>3. ASSUME NEW m \in 1 .. L, m - 1 \in Rung PROVE m \in Rung
  <2>1. t[m - 1] \in Nat \ {0} /\ s[m] \in Int /\ t[m] = LaterOf(s[m], t[m - 1]) + 1
    BY <1>2, <1>3
  <2>2. t[m] \in Nat \ {0}
    BY <2>1 DEF LaterOf
  <2> QED
    BY <2>2
<1>4. \A r \in 0 .. L : t[r] \in Nat \ {0}
  <2>1. 0 \in Rung
    BY <1>1
  <2>2. \A k \in 0 .. L : k \in Rung
    <3> HIDE DEF Rung
    <3> QED
      BY <1>3, <2>1, Climb
  <2> QED
    BY <2>2
<1>5. t \in [0 .. L -> Nat \ {0}]
  <2>1. t = [r \in 0 .. L |-> t[r]]
    BY DEF IsLoop
  <2> QED
    BY <1>4, <2>1
<1>6. ASSUME NEW r \in 1 .. L
      PROVE t[r] > s[r] /\ t[r] > t[r - 1] /\ (t[r] = s[r] + 1 \/ t[r] = t[r - 1] + 1)
  <2>1. s[r] \in Int /\ t[r - 1] \in Nat /\ t[r] = LaterOf(s[r], t[r - 1]) + 1
    BY <1>2, <1>4
  <2> QED
    BY <2>1 DEF LaterOf
<1> QED
  BY <1>1, <1>5, <1>6

LEMMA LoopMonotone ==
    ASSUME NEW L \in Nat, NEW s \in [1 .. L -> Int], NEW t, IsLoop(t, s, L)
    PROVE  \A i, j \in 0 .. L : i <= j => t[j] - t[i] >= j - i
<1> SUFFICES ASSUME NEW i \in 0 .. L PROVE \A j \in 0 .. L : i <= j => t[j] - t[i] >= j - i
  OBVIOUS
<1>1. /\ t \in [0 .. L -> Nat]
      /\ \A r \in 1 .. L : t[r] > t[r - 1]
  BY LoopRises
<1> DEFINE Rung == {j \in 0 .. L : i <= j => t[j] - t[i] >= j - i}
<1>2. 0 \in Rung
  BY <1>1
<1>3. ASSUME NEW m \in 1 .. L, m - 1 \in Rung PROVE m \in Rung
  <2>1. t[m] > t[m - 1] /\ t[m] \in Nat /\ t[m - 1] \in Nat /\ t[i] \in Nat
    BY <1>1
  <2>2. i <= m - 1 => t[m - 1] - t[i] >= (m - 1) - i
    BY <1>3
  <2>3. i \in Nat /\ m \in Nat /\ m \in 0 .. L
    OBVIOUS
  <2>4. i <= m => t[m] - t[i] >= m - i
    <3>1. CASE i = m
      BY <2>1, <2>3, <3>1
    <3>2. CASE i # m
      BY <2>1, <2>2, <2>3, <3>2
    <3> QED
      BY <3>1, <3>2
  <2> QED
    BY <2>3, <2>4
<1>4. \A k \in 0 .. L : k \in Rung
  <2> HIDE DEF Rung
  <2> QED
    BY <1>2, <1>3, Climb
<1> QED
  BY <1>4

LEMMA TimesAre ==
    ASSUME NEW c, NEW order, NEW L \in Nat, L = Len(order),
           NEW s, \A r \in 1 .. L : s[r] = SourceAt(c, order[r])
    PROVE  IsLoop(Times(c, order), s, L)
<1>1. PICK t : IsLoop(t, s, L)
  BY LoopRuns
<1> DEFINE Looped(u) == u = [r \in 0 .. Len(order) |->
                                IF r = 0 THEN 1 ELSE LaterOf(SourceAt(c, order[r]), u[r - 1]) + 1]
<1>2. Looped(t)
  <2>1. t = [r \in 0 .. L |-> IF r = 0 THEN 1 ELSE LaterOf(s[r], t[r - 1]) + 1]
    BY <1>1 DEF IsLoop
  <2>2. \A r \in 0 .. L : LaterOf(s[r], t[r - 1]) = LaterOf(SourceAt(c, order[r]), t[r - 1]) \/ r = 0
    BY DEF LaterOf
  <2>3. \A r \in 0 .. L : t[r] = IF r = 0 THEN 1 ELSE LaterOf(SourceAt(c, order[r]), t[r - 1]) + 1
    BY <2>1, <2>2
  <2> QED
    BY <2>1, <2>3
<1>3. Times(c, order) = CHOOSE u : Looped(u)
  BY DEF Times
<1>4. \E u : Looped(u)
  BY <1>2
<1>5. Looped(Times(c, order))
  <2> HIDE DEF Looped
  <2> QED
    BY <1>3, <1>4, Zenon
<1>6. \A u : Looped(u) => u = [r \in 0 .. L |-> IF r = 0 THEN 1 ELSE LaterOf(s[r], u[r - 1]) + 1]
  OBVIOUS
<1> QED
  BY <1>5, <1>6 DEF IsLoop

(* The order of the writes *)

TurnSet(c, w) == {v \in Writes(c) : Before(c, v, w)}

LEMMA TurnsRise ==
    ASSUME NEW c, NEW L \in Nat, Writes(c) = 1 .. L, \A w \in 1 .. L : SourceAt(c, w) \in Int
    PROVE  /\ \A w \in 1 .. L : Turn(c, w) \in 1 .. L
           /\ \A v, w \in 1 .. L : v = w \/ (Turn(c, v) < Turn(c, w) /\ Before(c, v, w))
                                        \/ (Turn(c, w) < Turn(c, v) /\ Before(c, w, v))
<1>1. \A w \in 1 .. L : Turn(c, w) = Cardinality(TurnSet(c, w))
  BY DEF Turn, TurnSet
<1>2. \A w \in 1 .. L : /\ IsFiniteSet(TurnSet(c, w)) /\ Cardinality(TurnSet(c, w)) \in Nat
                        /\ Cardinality(TurnSet(c, w)) <= L /\ w \in TurnSet(c, w)
  <2> TAKE w \in 1 .. L
  <2>1. TurnSet(c, w) \subseteq 1 .. L
    BY DEF TurnSet
  <2>2. IsFiniteSet(1 .. L) /\ Cardinality(1 .. L) = L
    BY FS_Interval
  <2>3. IsFiniteSet(TurnSet(c, w)) /\ Cardinality(TurnSet(c, w)) <= L
    BY <2>1, <2>2, FS_Subset
  <2>4. w \in TurnSet(c, w)
    BY DEF TurnSet, Before
  <2> QED
    BY <2>3, <2>4, FS_CardinalityType
<1>3. \A w \in 1 .. L : Cardinality(TurnSet(c, w)) # 0
  BY <1>2, FS_EmptySet
<1>4. ASSUME NEW v \in 1 .. L, NEW w \in 1 .. L, v # w, Before(c, v, w)
      PROVE  Cardinality(TurnSet(c, v)) < Cardinality(TurnSet(c, w))
  <2>1. ~Before(c, w, v)
    BY <1>4 DEF Before
  <2>2. ASSUME NEW u \in TurnSet(c, v) PROVE u \in TurnSet(c, w)
    <3>1. u \in 1 .. L /\ Before(c, u, v)
      BY DEF TurnSet
    <3>2. /\ SourceAt(c, u) \in Int /\ SourceAt(c, v) \in Int /\ SourceAt(c, w) \in Int
      BY <3>1
    <3>3. Before(c, u, w)
      BY <1>4, <3>1, <3>2 DEF Before
    <3> QED
      BY <3>1, <3>3 DEF TurnSet
  <2>3. w \in TurnSet(c, w) /\ w \notin TurnSet(c, v)
    BY <1>2, <2>1 DEF TurnSet
  <2>4. TurnSet(c, v) \in SUBSET TurnSet(c, w) /\ TurnSet(c, v) # TurnSet(c, w)
    BY <2>2, <2>3
  <2>5. /\ Cardinality(TurnSet(c, v)) <= Cardinality(TurnSet(c, w))
        /\ Cardinality(TurnSet(c, w)) = Cardinality(TurnSet(c, v)) => TurnSet(c, w) = TurnSet(c, v)
    BY <1>2, <2>4, FS_Subset
  <2> QED
    BY <1>2, <2>4, <2>5
<1>5. \A v, w \in 1 .. L : v = w \/ Before(c, v, w) \/ Before(c, w, v)
  BY DEF Before
<1>6. \A w \in 1 .. L : Turn(c, w) \in 1 .. L
  BY <1>1, <1>2, <1>3
<1> QED
  BY <1>1, <1>4, <1>5, <1>6

LEMMA Ranking ==
    ASSUME NEW c, NEW L \in Nat, L = Len(netlist[c]), Writes(c) = 1 .. L, \A w \in 1 .. L : SourceAt(c, w) \in Int
    PROVE  /\ Len(Ranked(c)) = L
           /\ \A r \in 1 .. L : Ranked(c)[r] \in 1 .. L /\ Turn(c, Ranked(c)[r]) = r
           /\ \A w \in 1 .. L : Turn(c, w) \in 1 .. L /\ Ranked(c)[Turn(c, w)] = w
<1>1. /\ \A w \in 1 .. L : Turn(c, w) \in 1 .. L
      /\ \A v, w \in 1 .. L : Turn(c, v) = Turn(c, w) => v = w
  <2>1. /\ \A w \in 1 .. L : Turn(c, w) \in 1 .. L
        /\ \A v, w \in 1 .. L : v = w \/ Turn(c, v) < Turn(c, w) \/ Turn(c, w) < Turn(c, v)
    BY TurnsRise
  <2> QED
    BY <2>1, SMTT(30)
<1>2. \A r \in 1 .. L : \E w \in 1 .. L : Turn(c, w) = r
  <2>1. PICK f : f = [w \in 1 .. L |-> Turn(c, w)]
    OBVIOUS
  <2>2. f \in [1 .. L -> 1 .. L] /\ \A v, w \in 1 .. L : f[v] = f[w] => v = w
    BY <1>1, <2>1
  <2>3. f \in Injection(1 .. L, 1 .. L)
    BY <2>2 DEF Injection, IsInjective
  <2>4. IsFiniteSet(1 .. L)
    BY FS_Interval
  <2>5. f \in Surjection(1 .. L, 1 .. L)
    BY <2>3, <2>4, FS_Injection
  <2> QED
    BY <2>1, <2>5 DEF Surjection
<1>3. Ranked(c) = [r \in 1 .. L |-> CHOOSE w \in 1 .. L : Turn(c, w) = r]
  BY DEF Ranked
<1>4. \A r \in 1 .. L : Ranked(c)[r] \in 1 .. L /\ Turn(c, Ranked(c)[r]) = r
  <2> TAKE r \in 1 .. L
  <2>1. Ranked(c)[r] = CHOOSE w \in 1 .. L : Turn(c, w) = r
    BY <1>3
  <2> QED
    BY <1>2, <2>1
<1>5. Len(Ranked(c)) = L
  <2>1. Ranked(c) \in [1 .. L -> 1 .. L]
    BY <1>3, <1>4
  <2> QED
    BY <2>1, IsASeq, LenProperties
<1> QED
  BY <1>1, <1>4, <1>5

(* The orders of a cell's writes *)

\* The sequences of k of the numbers 1 .. n, none of them twice.
Listings(n, k) == {p \in [1 .. k -> 1 .. n] : \A i, j \in 1 .. k : p[i] = p[j] => i = j}
Extended(S, n) == {Append(e[1], e[2]) : e \in {p \in S \X (1 .. n) : p[2] \notin Range(p[1])}}
AreOrders(o, n, k) == o = [i \in 0 .. k |-> IF i = 0 THEN {<<>>} ELSE Extended(o[i - 1], n)]

LEMMA OrdersRun == ASSUME NEW n, NEW L \in Nat PROVE \E o : AreOrders(o, n, L)
<1> DEFINE Rung == {k \in 0 .. L : \E o : AreOrders(o, n, k)}
<1>1. 0 \in Rung
  <2>1. PICK o : o = [i \in 0 .. 0 |-> {<<>>}]
    OBVIOUS
  <2>2. AreOrders(o, n, 0)
    BY <2>1 DEF AreOrders
  <2> QED
    BY <2>2
<1>2. ASSUME NEW m \in 1 .. L, m - 1 \in Rung PROVE m \in Rung
  <2>1. m - 1 \in 0 .. L /\ m \in Nat \ {0} /\ m # 0
    OBVIOUS
  <2>2. PICK o : AreOrders(o, n, m - 1)
    BY <1>2
  <2>3. PICK u : u = [i \in 0 .. m |-> IF i = m THEN Extended(o[m - 1], n) ELSE o[i]]
    OBVIOUS
  <2>4. \A i \in 0 .. m : u[i] = IF i = 0 THEN {<<>>} ELSE Extended(u[i - 1], n)
    <3> TAKE i \in 0 .. m
    <3>1. CASE i = m
      <4>1. m - 1 \in 0 .. m /\ m - 1 # m
        BY <2>1
      <4>2. u[m - 1] = o[m - 1] /\ u[m] = Extended(o[m - 1], n)
        BY <2>1, <2>3, <4>1
      <4> QED
        BY <2>1, <3>1, <4>2
    <3>2. CASE i # m
      <4>1. i \in 0 .. m - 1 /\ u[i] = o[i] /\ (i # 0 => i - 1 \in 0 .. m /\ i - 1 # m)
        BY <2>1, <2>3, <3>2
      <4>2. i # 0 => u[i - 1] = o[i - 1]
        BY <2>3, <4>1
      <4>3. o[i] = IF i = 0 THEN {<<>>} ELSE Extended(o[i - 1], n)
        BY <2>2, <4>1 DEF AreOrders
      <4> QED
        BY <4>1, <4>2, <4>3
    <3> QED
      BY <3>1, <3>2
  <2>5. AreOrders(u, n, m)
    BY <2>3, <2>4 DEF AreOrders
  <2> QED
    BY <2>5
<1>3. \A k \in 0 .. L : k \in Rung
  <2> HIDE DEF Rung
  <2> QED
    BY <1>1, <1>2, Climb
<1> QED
  BY <1>3

LEMMA ExtendedLists ==
    ASSUME NEW n \in Nat, NEW k \in Nat, NEW S, S \subseteq Listings(n, k)
    PROVE  Extended(S, n) \subseteq Listings(n, k + 1)
<1> SUFFICES ASSUME NEW p \in S, NEW w \in 1 .. n, w \notin Range(p)
             PROVE  Append(p, w) \in Listings(n, k + 1)
  BY DEF Extended
<1>1. p \in [1 .. k -> 1 .. n] /\ \A i, j \in 1 .. k : p[i] = p[j] => i = j
  BY DEF Listings
<1>2. \A i \in 1 .. k : p[i] # w
  BY <1>1 DEF Range
<1>3. /\ Append(p, w) \in [1 .. k + 1 -> 1 .. n] /\ Append(p, w)[k + 1] = w
      /\ \A i \in 1 .. k : Append(p, w)[i] = p[i]
  <2>1. p \in Seq(1 .. n) /\ Len(p) = k
    BY <1>1, IsASeq, LenProperties
  <2>2. /\ Append(p, w) \in Seq(1 .. n) /\ Len(Append(p, w)) = k + 1
        /\ Append(p, w)[k + 1] = w /\ \A i \in 1 .. k : Append(p, w)[i] = p[i]
    BY <2>1, AppendProperties
  <2> QED
    BY <2>2, LenProperties
<1>4. ASSUME NEW i \in 1 .. k + 1, NEW j \in 1 .. k + 1, Append(p, w)[i] = Append(p, w)[j] PROVE i = j
  <2>1. (i = k + 1 \/ i \in 1 .. k) /\ (j = k + 1 \/ j \in 1 .. k)
    OBVIOUS
  <2> QED
    BY <1>1, <1>2, <1>3, <1>4, <2>1
<1> QED
  BY <1>3, <1>4 DEF Listings

LEMMA OrdersList == ASSUME NEW n \in Nat PROVE Orders(n) \subseteq Listings(n, n)
<1> DEFINE Made(o) == o = [k \in 0 .. n |->
                             IF k = 0 THEN {<<>>}
                             ELSE {Append(e[1], e[2]) : e \in {p \in o[k - 1] \X (1 .. n) : p[2] \notin Range(p[1])}}]
<1>1. \A o : Made(o) <=> AreOrders(o, n, n)
  BY DEF AreOrders, Extended
<1>2. PICK o : Orders(n) = o[n] /\ AreOrders(o, n, n)
  <2>1. \E o : Made(o)
    BY <1>1, OrdersRun
  <2>2. Orders(n) = (CHOOSE o : Made(o))[n]
    BY DEF Orders
  <2>3. Made(CHOOSE o : Made(o))
    <3> HIDE DEF Made
    <3> QED
      BY <2>1, Zenon
  <2> QED
    BY <1>1, <2>2, <2>3
<1>3. o[0] = {<<>>} /\ \A k \in 1 .. n : o[k] = Extended(o[k - 1], n)
  <2>1. ASSUME NEW k \in 0 .. n PROVE o[k] = IF k = 0 THEN {<<>>} ELSE Extended(o[k - 1], n)
    BY <1>2 DEF AreOrders
  <2> QED
    BY <2>1
<1> DEFINE Rung == {k \in 0 .. n : o[k] \subseteq Listings(n, k)}
<1>4. 0 \in Rung
  <2>1. <<>> \in [1 .. 0 -> 1 .. n] /\ \A i \in 1 .. 0 : FALSE
    <3>1. <<>> \in Seq(1 .. n) /\ Len(<<>>) = 0
      BY EmptySeq
    <3> QED
      BY <3>1, LenProperties
  <2>2. <<>> \in Listings(n, 0)
    BY <2>1 DEF Listings
  <2>3. o[0] \subseteq Listings(n, 0)
    BY <1>3, <2>2
  <2> QED
    BY <2>3
<1>5. ASSUME NEW m \in 1 .. n, m - 1 \in Rung PROVE m \in Rung
  <2>1. o[m - 1] \subseteq Listings(n, m - 1) /\ m - 1 \in Nat /\ (m - 1) + 1 = m
    BY <1>5
  <2>2. Extended(o[m - 1], n) \subseteq Listings(n, (m - 1) + 1)
    BY <2>1, ExtendedLists
  <2>3. o[m] \subseteq Listings(n, m)
    BY <1>3, <2>1, <2>2
  <2> QED
    BY <2>3
<1>6. \A k \in 0 .. n : k \in Rung
  <2> HIDE DEF Rung
  <2> QED
    BY <1>4, <1>5, Climb
<1> QED
  BY <1>2, <1>6

\* Some write that is among the last ones in the one order is among the first
\* r in the other.
LEMMA LateOneFirst ==
    ASSUME NEW L \in Nat, NEW turn \in [1 .. L -> 1 .. L], \A v, w \in 1 .. L : turn[v] = turn[w] => v = w,
           NEW p \in Listings(L, L), NEW r \in 1 .. L
    PROVE  \E j \in 1 .. r : turn[p[j]] >= r
<1> SUFFICES ASSUME \A j \in 1 .. r : ~(turn[p[j]] >= r) PROVE FALSE
  OBVIOUS
<1>1. p \in [1 .. L -> 1 .. L] /\ \A i, j \in 1 .. L : p[i] = p[j] => i = j
  BY DEF Listings
<1>2. \A j \in 1 .. r : j \in 1 .. L /\ p[j] \in 1 .. L /\ turn[p[j]] \in 1 .. r - 1
  <2> TAKE j \in 1 .. r
  <2>1. j \in 1 .. L /\ r \in 1 .. L
    OBVIOUS
  <2>2. p[j] \in 1 .. L
    BY <1>1, <2>1
  <2>3. turn[p[j]] \in 1 .. L /\ ~(turn[p[j]] >= r)
    BY <2>2
  <2> QED
    BY <2>1, <2>2, <2>3
<1>3. PICK g : g = [j \in 1 .. r |-> turn[p[j]]]
  OBVIOUS
<1>4. g \in [1 .. r -> 1 .. r - 1]
  BY <1>2, <1>3
<1>5. /\ IsFiniteSet(1 .. r) /\ Cardinality(1 .. r) = r
      /\ IsFiniteSet(1 .. r - 1) /\ Cardinality(1 .. r - 1) = r - 1
  <2>1. 1 \in Int /\ r \in Int /\ r - 1 \in Int /\ r >= 1
    OBVIOUS
  <2>2. /\ IsFiniteSet(1 .. r) /\ Cardinality(1 .. r) = IF 1 > r THEN 0 ELSE r - 1 + 1
        /\ IsFiniteSet(1 .. r - 1) /\ Cardinality(1 .. r - 1) = IF 1 > r - 1 THEN 0 ELSE r - 1 - 1 + 1
    BY <2>1, FS_Interval
  <2> QED
    BY <2>1, <2>2
<1>6. PICK i \in 1 .. r, j \in 1 .. r : i # j /\ g[i] = g[j]
  <2>1. Cardinality(1 .. r - 1) < Cardinality(1 .. r)
    BY <1>5
  <2> QED
    BY <1>4, <1>5, <2>1, FS_PigeonHole, ZenonT(30)
<1>7. turn[p[i]] = turn[p[j]] /\ i \in 1 .. L /\ j \in 1 .. L /\ p[i] \in 1 .. L /\ p[j] \in 1 .. L
  BY <1>2, <1>3, <1>6
<1> QED
  BY <1>1, <1>6, <1>7

\* The last time of the loop is set by one of its writes, or by their number.
HasCause(t, s, L) == t[L] = 1 + L \/ \E r \in 1 .. L : t[L] = s[r] + 1 + (L - r)

LEMMA LoopCause ==
    ASSUME NEW L \in Nat, NEW s \in [1 .. L -> Int], NEW t, IsLoop(t, s, L)
    PROVE  HasCause(t, s, L)
<1>1. /\ t \in [0 .. L -> Nat] /\ t[0] = 1
      /\ \A r \in 1 .. L : t[r] = s[r] + 1 \/ t[r] = t[r - 1] + 1
  BY LoopRises
<1> DEFINE Rung == {k \in 0 .. L : t[k] = 1 + k \/ \E r \in 1 .. k : t[k] = s[r] + 1 + (k - r)}
<1>2. 0 \in Rung
  BY <1>1
<1>3. ASSUME NEW m \in 1 .. L, m - 1 \in Rung PROVE m \in Rung
  <2>1. m \in 0 .. L /\ m - 1 \in 0 .. L /\ t[m] \in Nat /\ t[m - 1] \in Nat /\ s[m] \in Int
    BY <1>1
  <2>2. CASE t[m] = s[m] + 1
    <3>1. m \in 1 .. m /\ t[m] = s[m] + 1 + (m - m)
      BY <2>1, <2>2
    <3> QED
      BY <2>1, <3>1
  <2>3. CASE t[m] = t[m - 1] + 1
    <3>1. CASE t[m - 1] = 1 + (m - 1)
      <4>1. t[m] = 1 + m
        BY <2>1, <2>3, <3>1
      <4> QED
        BY <2>1, <4>1
    <3>2. ASSUME NEW r \in 1 .. m - 1, t[m - 1] = s[r] + 1 + ((m - 1) - r) PROVE m \in Rung
      <4>1. r \in 1 .. m /\ s[r] \in Int /\ r \in Int /\ m \in Int
        BY <2>1
      <4>2. t[m] = s[r] + 1 + (m - r)
        <5>1. t[m] = (s[r] + 1 + ((m - 1) - r)) + 1
          BY <2>3, <3>2
        <5>2. \A a, b, c \in Int : (a + 1 + ((b - 1) - c)) + 1 = a + 1 + (b - c)
          OBVIOUS
        <5> QED
          BY <4>1, <5>1, <5>2
      <4>3. \E q \in 1 .. m : t[m] = s[q] + 1 + (m - q)
        BY <4>1, <4>2
      <4> QED
        BY <2>1, <4>3
    <3> QED
      BY <1>3, <3>1, <3>2
  <2> QED
    BY <1>1, <2>2, <2>3
<1>4. \A k \in 0 .. L : k \in Rung
  <2> HIDE DEF Rung
  <2> QED
    BY <1>2, <1>3, Climb
<1>5. L \in Rung
  BY <1>4
<1> QED
  BY <1>5 DEF HasCause

\* A ranking of the writes by the completion of their sources.
Sorts(f, turn, src, L) ==
    /\ f \in [1 .. L -> 1 .. L] /\ turn \in [1 .. L -> 1 .. L]
    /\ \A w \in 1 .. L : f[turn[w]] = w
    /\ \A q, r \in 1 .. L : q <= r => src[f[q]] <= src[f[r]]
\* The loop over the writes in the order p ends with the times t.
Runs(t, p, src, L) == \E s \in [1 .. L -> Int] : (\A r \in 1 .. L : s[r] = src[p[r]]) /\ IsLoop(t, s, L)

LEMMA SortedEarliest ==
    ASSUME NEW L \in Nat, NEW src \in [1 .. L -> Int], NEW f, NEW turn, Sorts(f, turn, src, L),
           NEW t, Runs(t, f, src, L), NEW p \in Listings(L, L), NEW u, Runs(u, p, src, L)
    PROVE  t[L] <= u[L]
<1>a. PICK s \in [1 .. L -> Int] : (\A r \in 1 .. L : s[r] = src[f[r]]) /\ IsLoop(t, s, L)
  BY DEF Runs
<1>b. PICK z \in [1 .. L -> Int] : (\A r \in 1 .. L : z[r] = src[p[r]]) /\ IsLoop(u, z, L)
  BY DEF Runs
<1>1. /\ t \in [0 .. L -> Nat] /\ u \in [0 .. L -> Nat] /\ u[0] = 1
      /\ \A r \in 1 .. L : u[r] > z[r]
      /\ \A i, j \in 0 .. L : i <= j => u[j] - u[i] >= j - i
  <2>1. t \in [0 .. L -> Nat]
    BY <1>a, LoopRises
  <2>2. u \in [0 .. L -> Nat] /\ u[0] = 1 /\ \A r \in 1 .. L : u[r] > z[r]
    BY <1>b, LoopRises, ZenonT(30)
  <2>3. \A i, j \in 0 .. L : i <= j => u[j] - u[i] >= j - i
    BY <1>b, LoopMonotone
  <2> QED
    BY <2>1, <2>2, <2>3
<1>2. t[L] \in Nat /\ u[L] \in Nat /\ L \in 0 .. L /\ 0 \in 0 .. L
  BY <1>1
<1>3. CASE t[L] = 1 + L
  <2>1. u[L] - u[0] >= L - 0
    BY <1>1, <1>2
  <2> QED
    BY <1>1, <1>2, <1>3, <2>1
<1>4. ASSUME NEW r \in 1 .. L, t[L] = s[r] + 1 + (L - r) PROVE t[L] <= u[L]
  <2>1. PICK j \in 1 .. r : turn[p[j]] >= r
    <3>1. turn \in [1 .. L -> 1 .. L] /\ \A v, w \in 1 .. L : turn[v] = turn[w] => v = w
      BY DEF Sorts
    <3> QED
      BY <3>1, LateOneFirst
  <2>2. j \in 1 .. L /\ p[j] \in 1 .. L /\ turn[p[j]] \in 1 .. L /\ j <= r
    BY <2>1 DEF Listings, Sorts
  <2>3. s[r] <= z[j]
    <3>1. f[turn[p[j]]] = p[j]
      BY <2>2 DEF Sorts
    <3>2. src[f[r]] <= src[f[turn[p[j]]]]
      BY <2>1, <2>2 DEF Sorts
    <3>3. s[r] = src[f[r]] /\ z[j] = src[p[j]]
      BY <1>a, <1>b, <2>2
    <3> QED
      BY <3>1, <3>2, <3>3
  <2>4. u[j] \in Nat /\ z[j] \in Int /\ s[r] \in Int /\ j \in 0 .. L
    <3>1. j \in 0 .. L
      BY <2>2
    <3>2. u[j] \in Nat
      BY <1>1, <3>1
    <3>3. z[j] \in Int
      BY <2>2
    <3>4. s[r] \in Int
      OBVIOUS
    <3> QED
      BY <3>1, <3>2, <3>3, <3>4
  <2>5. u[j] > z[j]
    BY <1>1, <2>2
  <2>6. u[L] - u[j] >= L - j
    BY <1>1, <1>2, <2>2, <2>4
  <2>7. r \in Int /\ j \in Int /\ L \in Int /\ t[L] \in Int /\ u[L] \in Int /\ u[j] \in Int
    <3>1. r \in Int /\ j \in Int /\ L \in Int
      OBVIOUS
    <3>2. t[L] \in Int /\ u[L] \in Int
      BY <1>2
    <3>3. u[j] \in Int
      BY <2>4
    <3> QED
      BY <3>1, <3>2, <3>3
  <2>8. \A a, b, c, d, e, k, l, m \in Int :
           a = b + 1 + (l - m) /\ b <= c /\ d > c /\ e - d >= l - k /\ k <= m => a <= e
    OBVIOUS
  <2> QED
    BY <1>4, <2>2, <2>3, <2>4, <2>5, <2>6, <2>7, <2>8
<1> QED
  <2>1. HasCause(t, s, L)
    BY <1>a, LoopCause
  <2>2. t[L] = 1 + L \/ \E r \in 1 .. L : t[L] = s[r] + 1 + (L - r)
    BY <2>1 DEF HasCause
  <2>3. CASE t[L] = 1 + L
    BY <1>3, <2>3
  <2>4. ASSUME NEW r \in 1 .. L, t[L] = s[r] + 1 + (L - r) PROVE t[L] <= u[L]
    BY <1>4, <2>4, Zenon
  <2> QED
    BY <2>2, <2>3, <2>4, Zenon

(* The netlist *)

SourcesOf(c) == [w \in Writes(c) |-> SourceAt(c, w)]
\* No order of the writes completes the cell before val.
Best(src, L, val) == \A p \in Listings(L, L) : \A u : Runs(u, p, src, L) => val <= u[L]

LEMMA Wiring ==
    ASSUME netlist \in Netlists
    PROVE  /\ N \in Nat /\ Cells = 1 .. N /\ netlist \in [Cells -> Seq(Cells)]
           /\ \A c \in Cells : /\ Len(netlist[c]) \in Nat /\ Writes(c) = 1 .. Len(netlist[c])
                               /\ IsInput(c) <=> Len(netlist[c]) = 0
                               /\ \A w \in Writes(c) : netlist[c][w] \in Cells
<1>1. netlist \in Seq(Seq(Cells))
  BY ScheduleAssumption DEF Cells
<1>2. N \in Nat /\ Cells = 1 .. N /\ netlist \in [Cells -> Seq(Cells)]
  BY <1>1, LenProperties DEF Cells, N
<1>3. ASSUME NEW c \in Cells
      PROVE  /\ Len(netlist[c]) \in Nat /\ Writes(c) = 1 .. Len(netlist[c])
             /\ IsInput(c) <=> Len(netlist[c]) = 0
             /\ \A w \in Writes(c) : netlist[c][w] \in Cells
  <2>1. netlist[c] \in Seq(Cells)
    BY <1>2
  <2>2. /\ Len(netlist[c]) \in Nat /\ Writes(c) = 1 .. Len(netlist[c])
        /\ netlist[c] \in [1 .. Len(netlist[c]) -> Cells]
    BY <2>1, LenProperties DEF Writes
  <2>3. netlist[c] = <<>> <=> Len(netlist[c]) = 0
    BY <2>1, EmptySeq
  <2> QED
    BY <2>2, <2>3 DEF IsInput
<1> QED
  BY <1>2, <1>3

\* What placing the writes of a cell gives it.
PlacedWell(c, val, st) ==
    /\ val \in Nat \ {0} /\ st \in [Writes(c) -> Int]
    /\ \A w \in Writes(c) : st[w] > SourceAt(c, w) /\ st[w] <= val
    /\ \A v, w \in Writes(c) : st[v] = st[w] => v = w
    /\ Best(SourcesOf(c), Len(netlist[c]), val)

LEMMA RankingSorts ==
    ASSUME NEW c, NEW L \in Nat, L = Len(netlist[c]), Writes(c) = 1 .. L, \A w \in 1 .. L : SourceAt(c, w) \in Int,
           NEW turn, turn = [w \in 1 .. L |-> Turn(c, w)]
    PROVE  Sorts(Ranked(c), turn, SourcesOf(c), L)
<1>1. /\ Len(Ranked(c)) = L
      /\ \A r \in 1 .. L : Ranked(c)[r] \in 1 .. L /\ Turn(c, Ranked(c)[r]) = r
      /\ \A w \in 1 .. L : Turn(c, w) \in 1 .. L /\ Ranked(c)[Turn(c, w)] = w
  BY Ranking
<1>2. Ranked(c) \in [1 .. L -> 1 .. L] /\ turn \in [1 .. L -> 1 .. L] /\ \A w \in 1 .. L : Ranked(c)[turn[w]] = w
  BY <1>1 DEF Ranked
<1>3. ASSUME NEW q \in 1 .. L, NEW r \in 1 .. L, q <= r
      PROVE  SourcesOf(c)[Ranked(c)[q]] <= SourcesOf(c)[Ranked(c)[r]]
  <2>1. Ranked(c)[q] \in 1 .. L /\ Ranked(c)[r] \in 1 .. L /\ Turn(c, Ranked(c)[q]) = q /\ Turn(c, Ranked(c)[r]) = r
    BY <1>1
  <2>2. \A v, w \in 1 .. L : v = w \/ (Turn(c, v) < Turn(c, w) /\ Before(c, v, w))
                                  \/ (Turn(c, w) < Turn(c, v) /\ Before(c, w, v))
    BY TurnsRise
  <2>3. Ranked(c)[q] = Ranked(c)[r] \/ Before(c, Ranked(c)[q], Ranked(c)[r])
    BY <1>3, <2>1, <2>2
  <2>4. SourceAt(c, Ranked(c)[q]) <= SourceAt(c, Ranked(c)[r])
    BY <2>1, <2>3 DEF Before
  <2> QED
    BY <2>1, <2>4 DEF SourcesOf
<1> QED
  BY <1>2, <1>3 DEF Sorts

LEMMA TimesRun ==
    ASSUME NEW c, NEW L \in Nat, L = Len(netlist[c]), Writes(c) = 1 .. L, \A w \in 1 .. L : SourceAt(c, w) \in Int,
           NEW p \in [1 .. L -> 1 .. L]
    PROVE  Runs(Times(c, p), p, SourcesOf(c), L)
<1>1. PICK s : s = [r \in 1 .. L |-> SourceAt(c, p[r])]
  OBVIOUS
<1>2. \A r \in 1 .. L : p[r] \in 1 .. L /\ s[r] = SourceAt(c, p[r]) /\ SourceAt(c, p[r]) \in Int
  BY <1>1
<1>3. s \in [1 .. L -> Int]
  BY <1>1, <1>2
<1>4. \A r \in 1 .. L : s[r] = SourcesOf(c)[p[r]]
  BY <1>2 DEF SourcesOf
<1>5. L = Len(p)
  BY IsASeq, LenProperties
<1>6. IsLoop(Times(c, p), s, L)
  BY <1>2, <1>5, TimesAre
<1> QED
  BY <1>3, <1>4, <1>6 DEF Runs

LEMMA PlaceGives ==
    ASSUME netlist \in Netlists, completion \in [Cells -> Int], NEW c \in Cells
    PROVE  LET order == Ranked(c)
               t == Times(c, order)
           IN  PlacedWell(c, t[Len(order)], [w \in Writes(c) |-> t[Turn(c, w)]])
<1> DEFINE L == Len(netlist[c])
           order == Ranked(c)
           t == Times(c, order)
           st == [w \in Writes(c) |-> t[Turn(c, w)]]
<1>1. L \in Nat /\ Writes(c) = 1 .. L /\ \A w \in 1 .. L : netlist[c][w] \in Cells
  BY Wiring
<1>2. \A w \in 1 .. L : SourceAt(c, w) \in Int
  BY <1>1 DEF SourceAt
<1>3. /\ Len(order) = L
      /\ \A r \in 1 .. L : order[r] \in 1 .. L /\ Turn(c, order[r]) = r
      /\ \A w \in 1 .. L : Turn(c, w) \in 1 .. L /\ order[Turn(c, w)] = w
  BY <1>1, <1>2, Ranking
<1>4. PICK turn : turn = [w \in 1 .. L |-> Turn(c, w)]
  OBVIOUS
<1>5. Sorts(order, turn, SourcesOf(c), L)
  <2> HIDE DEF L
  <2> QED
    BY <1>1, <1>2, <1>4, RankingSorts DEF L
<1>6. Runs(t, order, SourcesOf(c), L)
  <2>1. order \in [1 .. L -> 1 .. L]
    BY <1>5 DEF Sorts
  <2> HIDE DEF L, order
  <2> QED
    BY <1>1, <1>2, <2>1, TimesRun DEF L
<1>7. PICK s \in [1 .. L -> Int] : (\A r \in 1 .. L : s[r] = SourcesOf(c)[order[r]]) /\ IsLoop(t, s, L)
  BY <1>6 DEF Runs
<1>8. /\ t \in [0 .. L -> Nat \ {0}] /\ t[0] = 1
      /\ \A r \in 1 .. L : t[r] > s[r] /\ t[r] > t[r - 1]
      /\ \A i, j \in 0 .. L : i <= j => t[j] - t[i] >= j - i
  <2> HIDE DEF L, order, t
  <2>1. t \in [0 .. L -> Nat \ {0}] /\ t[0] = 1 /\ \A r \in 1 .. L : t[r] > s[r] /\ t[r] > t[r - 1]
    BY <1>1, <1>7, LoopRises
  <2>2. \A i, j \in 0 .. L : i <= j => t[j] - t[i] >= j - i
    BY <1>1, <1>7, LoopMonotone
  <2> QED
    BY <2>1, <2>2
<1> HIDE DEF L, order, t
<1>9. /\ t[L] \in Nat \ {0} /\ st \in [Writes(c) -> Int]
      /\ \A k \in 0 .. L : t[k] \in Int
  <2>1. t \in [0 .. L -> Nat \ {0}]
    BY <1>8
  <2>2. \A k \in 0 .. L : t[k] \in Nat \ {0} /\ t[k] \in Int
    BY <2>1
  <2>3. \A w \in Writes(c) : Turn(c, w) \in 0 .. L
    BY <1>1, <1>3
  <2>4. L \in 0 .. L
    BY <1>1
  <2>5. \A w \in Writes(c) : t[Turn(c, w)] \in Int
    BY <2>2, <2>3
  <2> QED
    BY <2>2, <2>4, <2>5
<1>10. ASSUME NEW w \in Writes(c) PROVE st[w] > SourceAt(c, w) /\ st[w] <= t[L]
  <2>1. PICK k \in 1 .. L : k = Turn(c, w)
    BY <1>1, <1>3
  <2>2. w \in 1 .. L /\ order[k] = w /\ st[w] = t[k]
    BY <1>1, <1>3, <2>1
  <2>3. s[k] = SourceAt(c, w) /\ s[k] \in Int
    BY <1>1, <1>7, <2>2 DEF SourcesOf
  <2>4. k \in 0 .. L /\ L \in 0 .. L /\ k <= L
    BY <1>1
  <2>5. t[k] > s[k] /\ t[L] - t[k] >= L - k /\ t[k] \in Int /\ t[L] \in Int
    <3>1. t[k] > s[k]
      BY <1>8
    <3>2. t[L] - t[k] >= L - k
      BY <1>8, <2>4
    <3>3. t[k] \in Int /\ t[L] \in Int
      BY <1>9, <2>4
    <3> QED
      BY <3>1, <3>2, <3>3
  <2>6. \A i, j, m, n \in Int : i - j >= m - n /\ n <= m => j <= i
    OBVIOUS
  <2>7. k \in Int /\ L \in Int /\ k <= L
    BY <2>4
  <2>8. t[k] <= t[L]
    BY <2>5, <2>6, <2>7
  <2> QED
    BY <2>2, <2>3, <2>5, <2>8
<1>11. ASSUME NEW v \in Writes(c), NEW w \in Writes(c), st[v] = st[w] PROVE v = w
  <2>1. PICK i \in 1 .. L, j \in 1 .. L : i = Turn(c, v) /\ j = Turn(c, w)
    BY <1>1, <1>3
  <2>2. order[i] = v /\ st[v] = t[i] /\ order[j] = w /\ st[w] = t[j]
    BY <1>1, <1>3, <2>1
  <2>3. i \in 0 .. L /\ j \in 0 .. L /\ t[i] \in Int /\ t[j] \in Int /\ t[i] = t[j]
    BY <1>1, <1>8, <1>11, <2>2
  <2>4. (i <= j => t[j] - t[i] >= j - i) /\ (j <= i => t[i] - t[j] >= i - j)
    BY <1>8, <2>3
  <2>5. i = j
    BY <2>3, <2>4
  <2> QED
    BY <2>2, <2>5
<1>12. Best(SourcesOf(c), L, t[L])
  <2> SUFFICES ASSUME NEW p \in Listings(L, L), NEW u, Runs(u, p, SourcesOf(c), L) PROVE t[L] <= u[L]
    BY DEF Best
  <2>1. SourcesOf(c) \in [1 .. L -> Int]
    BY <1>1, <1>2 DEF SourcesOf
  <2> QED
    BY <1>1, <1>5, <1>6, <2>1, SortedEarliest
<1>13. PlacedWell(c, t[L], st)
  <2> HIDE DEF st
  <2> QED
    BY <1>9, <1>10, <1>11, <1>12 DEF PlacedWell, L
<1>14. Len(order) = L
  BY <1>3
<1> QED
  BY <1>13, <1>14 DEF order, t

LEMMA BestIsEarliest ==
    ASSUME netlist \in Netlists, completion \in [Cells -> Int], NEW c \in Cells,
           Best(SourcesOf(c), Len(netlist[c]), completion[c]), NEW order \in Orders(Len(netlist[c]))
    PROVE  completion[c] <= Times(c, order)[Len(netlist[c])]
<1> DEFINE L == Len(netlist[c])
<1>1. L \in Nat /\ Writes(c) = 1 .. L /\ \A w \in 1 .. L : netlist[c][w] \in Cells
  BY Wiring
<1>2. \A w \in 1 .. L : SourceAt(c, w) \in Int
  BY <1>1 DEF SourceAt
<1>3. order \in Listings(L, L) /\ order \in [1 .. L -> 1 .. L]
  BY <1>1, OrdersList DEF Listings
<1>4. Runs(Times(c, order), order, SourcesOf(c), L)
  <2> HIDE DEF L
  <2> QED
    BY <1>1, <1>2, <1>3, TimesRun DEF L
<1> QED
  BY <1>3, <1>4 DEF Best

(* The queue *)

Distinct(q) == \A i, j \in DOMAIN q : q[i] = q[j] => i = j

LEMMA QueueAppend ==
    ASSUME NEW S, NEW q \in Seq(S), NEW x \in S
    PROVE  /\ Append(q, x) \in Seq(S) /\ Range(Append(q, x)) = Range(q) \cup {x}
           /\ Distinct(q) /\ x \notin Range(q) => Distinct(Append(q, x))
<1>1. /\ Append(q, x) \in Seq(S) /\ Len(Append(q, x)) = Len(q) + 1
      /\ \A i \in 1 .. Len(q) : Append(q, x)[i] = q[i]
      /\ Append(q, x)[Len(q) + 1] = x
  BY AppendProperties
<1>2. Len(q) \in Nat /\ DOMAIN q = 1 .. Len(q) /\ DOMAIN Append(q, x) = 1 .. Len(q) + 1
  BY <1>1, LenProperties
<1>3. \A i \in DOMAIN Append(q, x) : i \in DOMAIN q \/ i = Len(q) + 1
  BY <1>2
<1>4. \A i \in DOMAIN q : i \in DOMAIN Append(q, x) /\ Append(q, x)[i] = q[i] /\ i # Len(q) + 1
  BY <1>1, <1>2
<1>5. Len(q) + 1 \in DOMAIN Append(q, x)
  BY <1>2
<1>6. Range(Append(q, x)) = Range(q) \cup {x}
  BY <1>1, <1>3, <1>4, <1>5 DEF Range
<1>7. ASSUME Distinct(q), x \notin Range(q) PROVE Distinct(Append(q, x))
  <2> SUFFICES ASSUME NEW i \in DOMAIN Append(q, x), NEW j \in DOMAIN Append(q, x),
                      Append(q, x)[i] = Append(q, x)[j]
               PROVE  i = j
    BY DEF Distinct
  <2>1. \A k \in DOMAIN q : q[k] # x
    BY <1>7 DEF Range
  <2> QED
    BY <1>1, <1>3, <1>4, <1>7, <2>1 DEF Distinct
<1> QED
  BY <1>1, <1>6, <1>7

LEMMA QueueTail ==
    ASSUME NEW S, NEW q \in Seq(S), q # <<>>, Distinct(q)
    PROVE  /\ Head(q) \in Range(q) /\ Head(q) \in S /\ Tail(q) \in Seq(S) /\ Distinct(Tail(q))
           /\ Range(Tail(q)) = Range(q) \ {Head(q)}
<1>1. /\ Len(q) \in Nat \ {0} /\ DOMAIN q = 1 .. Len(q) /\ Head(q) = q[1] /\ Head(q) \in S
      /\ Tail(q) \in Seq(S) /\ Len(Tail(q)) = Len(q) - 1
      /\ \A i \in 1 .. Len(Tail(q)) : Tail(q)[i] = q[i + 1]
  BY EmptySeq, LenProperties, HeadTailProperties
<1>2. DOMAIN Tail(q) = 1 .. Len(q) - 1
  BY <1>1, LenProperties
<1>3. \A i \in DOMAIN Tail(q) : i + 1 \in DOMAIN q /\ i + 1 # 1 /\ i \in Int /\ Tail(q)[i] = q[i + 1]
  BY <1>1, <1>2
<1>4. \A i \in DOMAIN q : i = 1 \/ (i - 1 \in DOMAIN Tail(q) /\ Tail(q)[i - 1] = q[i])
  <2> TAKE i \in DOMAIN q
  <2>1. i \in Int /\ (i = 1 \/ i - 1 \in 1 .. Len(q) - 1)
    BY <1>1
  <2>2. i \in Int /\ (i - 1) + 1 = i
    BY <2>1
  <2>3. CASE i - 1 \in 1 .. Len(q) - 1
    <3>1. i - 1 \in DOMAIN Tail(q)
      BY <1>2, <2>3
    <3>2. Tail(q)[i - 1] = q[(i - 1) + 1]
      BY <1>3, <3>1
    <3> QED
      BY <2>2, <3>1, <3>2
  <2> QED
    BY <2>1, <2>3
<1>5. Distinct(Tail(q))
  <2> SUFFICES ASSUME NEW i \in DOMAIN Tail(q), NEW j \in DOMAIN Tail(q), Tail(q)[i] = Tail(q)[j]
               PROVE  i = j
    BY DEF Distinct
  <2>1. i \in Int /\ j \in Int /\ i + 1 = j + 1
    BY <1>3 DEF Distinct
  <2> QED
    BY <2>1
<1>6. 1 \in DOMAIN q
  BY <1>1
<1>7. Head(q) \in Range(q)
  BY <1>1, <1>6 DEF Range
<1>8. Head(q) \notin Range(Tail(q))
  <2>1. \A i \in DOMAIN Tail(q) : Tail(q)[i] # q[1]
    BY <1>3, <1>6 DEF Distinct
  <2> QED
    BY <1>1, <2>1 DEF Range
<1>9. \A y : y \in Range(Tail(q)) => y \in Range(q)
  BY <1>3 DEF Range
<1>10. \A y : y \in Range(q) => y = Head(q) \/ y \in Range(Tail(q))
  <2> TAKE y
  <2> SUFFICES ASSUME NEW i \in DOMAIN q, y = q[i] PROVE y = Head(q) \/ y \in Range(Tail(q))
    BY DEF Range
  <2>1. CASE i = 1
    BY <1>1, <2>1
  <2>2. CASE i # 1
    <3>1. i - 1 \in DOMAIN Tail(q) /\ Tail(q)[i - 1] = y
      BY <1>4, <2>2
    <3> QED
      BY <3>1, Zenon DEF Range
  <2> QED
    BY <2>1, <2>2
<1>11. Range(Tail(q)) = Range(q) \ {Head(q)}
  BY <1>8, <1>9, <1>10
<1> QED
  BY <1>1, <1>5, <1>7, <1>11

LEMMA QueueCount ==
    ASSUME NEW S, NEW q \in Seq(S), Distinct(q)
    PROVE  Cardinality({q[i] : i \in DOMAIN q}) = Len(q)
<1> DEFINE T == {q[i] : i \in DOMAIN q}
<1>1. Len(q) \in Nat /\ DOMAIN q = 1 .. Len(q) /\ q \in [1 .. Len(q) -> T]
  BY LenProperties
<1>2. q \in Bijection(1 .. Len(q), T)
  BY <1>1 DEF Bijection, Injection, Surjection, IsInjective, Distinct
<1>3. IsFiniteSet(1 .. Len(q)) /\ Cardinality(1 .. Len(q)) = Len(q)
  BY <1>1, FS_Interval
<1>4. Cardinality(T) = Cardinality(1 .. Len(q))
  <2> HIDE DEF T
  <2> QED
    BY <1>2, <1>3, FS_Bijection DEF ExistsBijection
<1> QED
  BY <1>3, <1>4

(* The inductive invariant *)

Queued == Range(queue)
\* The cells whose readers were told, or are being told.
Told == {c \in 1 .. scanned : Scheduled(c) /\ c \notin Queued}
\* The writes of c whose source was not announced to c yet.
Open(c) == {w \in Writes(c) : netlist[c][w] \notin Told \/ <<c, w>> \in untold}

TypeInv ==
    /\ netlist \in Netlists /\ completion \in [Cells -> Int] /\ DOMAIN stepOf = Cells
    /\ \A c \in Cells : stepOf[c] \in [Writes(c) -> Int]
    /\ pend \in [Cells -> Int] /\ queue \in Seq(Cells)
    /\ scanned \in 0 .. N /\ maxStep \in Nat \ {0} /\ verdict \in {"running", "returned", "aborted"}

\* Nothing is placed before all cells were counted.
ScanInv ==
    scanned < N => /\ taken = 0 /\ untold = {} /\ verdict = "running" /\ Told = {}
                   /\ \A c \in Cells : Scheduled(c) => IsInput(c)

CellInv ==
    /\ \A c \in Cells : IF IsInput(c) THEN completion[c] = 1 ELSE completion[c] = -1 \/ Scheduled(c)
    /\ \A c \in Cells : Scheduled(c) =>
           /\ \A w \in Writes(c) : SourceAt(c, w) > 0
           /\ PlacedWell(c, completion[c], stepOf[c])
           /\ completion[c] <= maxStep

\* pend is what it counts, and a cell whose count is down to zero is in the
\* queue or was taken from it.
WaitInv ==
    /\ \A c \in Cells : pend[c] = IF c <= scanned THEN Cardinality(Open(c)) ELSE 0
    /\ \A c \in 1 .. scanned : Open(c) = {} <=> c \in Queued \cup Told

QueueInv ==
    /\ Distinct(queue)
    /\ \A c \in Queued : c <= scanned /\ (Scheduled(c) => IsInput(c))

ToldInv ==
    /\ done = Cardinality(Told)
    /\ taken = 0 \/ taken \in Told
    /\ untold \subseteq Readers(taken)

VerdictInv == LoopFound /\ (verdict # "running" => scanned = N /\ queue = <<>> /\ untold = {})

IInv == TypeInv /\ ScanInv /\ CellInv /\ WaitInv /\ QueueInv /\ ToldInv /\ VerdictInv

LEMMA WritesFinite ==
    ASSUME netlist \in Netlists, NEW c \in Cells, NEW W \in SUBSET Writes(c)
    PROVE  /\ IsFiniteSet(W) /\ Cardinality(W) \in 0 .. Len(netlist[c])
           /\ Cardinality(W) = 0 <=> W = {}
           /\ Cardinality(Writes(c)) = Len(netlist[c])
<1>1. Writes(c) = 1 .. Len(netlist[c]) /\ Len(netlist[c]) \in Nat
  BY Wiring
<1>2. IsFiniteSet(Writes(c)) /\ Cardinality(Writes(c)) = Len(netlist[c])
  BY <1>1, FS_Interval
<1>3. IsFiniteSet(W) /\ Cardinality(W) <= Len(netlist[c])
  BY <1>2, FS_Subset
<1>4. Cardinality(W) \in Nat /\ (Cardinality(W) = 0 <=> W = {})
  BY <1>3, FS_CardinalityType, FS_EmptySet
<1> QED
  BY <1>1, <1>2, <1>3, <1>4

LEMMA ToldFinite ==
    ASSUME TypeInv
    PROVE  IsFiniteSet(Told) /\ Told \subseteq Cells /\ Cardinality(Told) \in 0 .. N /\ (Cardinality(Told) = N <=> Told = Cells)
<1>1. N \in Nat /\ Cells = 1 .. N /\ scanned \in 0 .. N
  BY Wiring DEF TypeInv
<1>2. Told \subseteq Cells
  BY <1>1 DEF Told
<1>3. IsFiniteSet(Cells) /\ Cardinality(Cells) = N
  BY <1>1, FS_Interval
<1>4. IsFiniteSet(Told) /\ Cardinality(Told) <= N /\ (Cardinality(Told) = N => Told = Cells)
  BY <1>2, <1>3, FS_Subset
<1>5. Cardinality(Told) \in Nat
  BY <1>4, FS_CardinalityType
<1> QED
  BY <1>1, <1>2, <1>3, <1>4, <1>5

LEMMA InputPlaced ==
    ASSUME netlist \in Netlists, NEW c \in Cells, IsInput(c), NEW st \in [Writes(c) -> Int]
    PROVE  PlacedWell(c, 1, st)
<1>1. Len(netlist[c]) = 0 /\ Writes(c) = {}
  <2>1. Len(netlist[c]) = 0 /\ Writes(c) = 1 .. Len(netlist[c])
    BY Wiring
  <2> QED
    BY <2>1
<1>2. Best(SourcesOf(c), 0, 1)
  <2> SUFFICES ASSUME NEW u, NEW s \in [1 .. 0 -> Int], IsLoop(u, s, 0) PROVE 1 <= u[0]
    BY DEF Best, Runs
  <2> QED
    BY DEF IsLoop
<1> QED
  BY <1>1, <1>2 DEF PlacedWell

LEMMA InitInv == Init => IInv
<1> SUFFICES ASSUME Init PROVE IInv
  OBVIOUS
<1>1. /\ N \in Nat /\ Cells = 1 .. N
      /\ \A c \in Cells : /\ Writes(c) = 1 .. Len(netlist[c]) /\ Len(netlist[c]) \in Nat
                          /\ IsInput(c) <=> Len(netlist[c]) = 0
  BY Wiring DEF Init
<1>2. TypeInv
  <2>1. /\ completion = [c \in Cells |-> IF IsInput(c) THEN 1 ELSE -1] /\ pend = [c \in Cells |-> 0]
        /\ stepOf = [c \in Cells |-> [w \in Writes(c) |-> -1]] /\ netlist \in Netlists
        /\ queue = <<>> /\ scanned = 0 /\ maxStep = 1 /\ verdict = "running"
    BY DEF Init
  <2>2. completion \in [Cells -> Int] /\ pend \in [Cells -> Int]
    BY <2>1
  <2>3. DOMAIN stepOf = Cells /\ \A c \in Cells : stepOf[c] \in [Writes(c) -> Int]
    BY <2>1
  <2>4. queue \in Seq(Cells)
    BY <2>1, EmptySeq
  <2> QED
    BY <1>1, <2>1, <2>2, <2>3, <2>4 DEF TypeInv
<1>3. Told = {} /\ Queued = {}
  BY DEF Init, Told, Queued, Range
<1>4. ScanInv
  BY <1>3 DEF Init, ScanInv, Scheduled
<1>5. CellInv
  <2>1. ASSUME NEW c \in Cells PROVE IF IsInput(c) THEN completion[c] = 1 ELSE completion[c] = -1 /\ ~Scheduled(c)
    BY DEF Init, Scheduled
  <2>2. ASSUME NEW c \in Cells, IsInput(c)
        PROVE  /\ \A w \in Writes(c) : SourceAt(c, w) > 0
               /\ PlacedWell(c, completion[c], stepOf[c])
               /\ completion[c] <= maxStep
    <3>1. PlacedWell(c, 1, stepOf[c])
      BY <1>2, <2>2, InputPlaced DEF TypeInv
    <3>2. Writes(c) = {}
      BY <1>1, <2>2
    <3> QED
      BY <2>1, <2>2, <3>1, <3>2 DEF Init
  <2> QED
    BY <2>1, <2>2 DEF CellInv
<1>6. WaitInv
  BY <1>1 DEF Init, WaitInv
<1>7. QueueInv
  BY <1>3 DEF Init, QueueInv, Distinct
<1>8. ToldInv
  BY <1>3, FS_EmptySet DEF Init, ToldInv
<1>9. VerdictInv
  BY DEF Init, VerdictInv, LoopFound
<1> QED
  BY <1>2, <1>4, <1>5, <1>6, <1>7, <1>8, <1>9 DEF IInv

LEMMA QueuedCells == ASSUME queue \in Seq(Cells) PROVE Queued \subseteq Cells
<1>1. queue \in [1 .. Len(queue) -> Cells] /\ DOMAIN queue = 1 .. Len(queue)
  BY LenProperties
<1> QED
  BY <1>1 DEF Queued, Range

LEMMA NetlistStays ==
    ASSUME netlist' = netlist
    PROVE  /\ Cells' = Cells /\ N' = N
           /\ \A c : /\ Writes(c)' = Writes(c) /\ Readers(c)' = Readers(c)
                     /\ IsInput(c)' <=> IsInput(c)
BY DEF Cells, N, Writes, Readers, IsInput

\* What holds of a cell once it is scheduled.
CellDone(c) ==
    /\ \A w \in Writes(c) : SourceAt(c, w) > 0
    /\ PlacedWell(c, completion[c], stepOf[c])
    /\ completion[c] <= maxStep

LEMMA CellStays ==
    ASSUME TypeInv, netlist' = netlist, NEW c \in Cells, CellDone(c),
           completion'[c] = completion[c], stepOf'[c] = stepOf[c], maxStep' \in Nat, maxStep' >= maxStep,
           \A w \in Writes(c) : completion'[netlist[c][w]] = completion[netlist[c][w]]
    PROVE  CellDone(c)'
<1>1. Writes(c)' = Writes(c) /\ Len(netlist'[c]) = Len(netlist[c])
  BY DEF Writes
<1>2. \A w \in Writes(c) : SourceAt(c, w)' = SourceAt(c, w)
  BY DEF SourceAt
<1>3. SourcesOf(c)' = SourcesOf(c)
  BY <1>1, <1>2 DEF SourcesOf
<1>4. PlacedWell(c, completion[c], stepOf[c])'
  <2>1. PlacedWell(c, completion[c], stepOf[c])
    BY DEF CellDone
  <2> QED
    BY <1>1, <1>2, <1>3, <2>1 DEF PlacedWell
<1>5. completion[c] \in Int /\ completion[c] <= maxStep /\ maxStep \in Nat
  BY DEF CellDone, TypeInv
<1>6. completion'[c] <= maxStep'
  BY <1>5
<1>7. \A w \in Writes(c)' : SourceAt(c, w)' > 0
  BY <1>1, <1>2 DEF CellDone
<1> QED
  BY <1>4, <1>6, <1>7 DEF CellDone

LEMMA ScanStep == IInv /\ Scan => IInv'
<1> SUFFICES ASSUME IInv, Scan PROVE IInv'
  OBVIOUS
<1> USE DEF IInv
<1>1. /\ N \in Nat /\ Cells = 1 .. N /\ scanned \in 0 .. N /\ scanned < N
      /\ \A c \in Cells : /\ Writes(c) = 1 .. Len(netlist[c]) /\ Len(netlist[c]) \in Nat
                          /\ IsInput(c) <=> Len(netlist[c]) = 0
                          /\ \A w \in Writes(c) : netlist[c][w] \in Cells
  BY Wiring DEF TypeInv, Scan
<1>0. PICK x : x = scanned + 1
  OBVIOUS
<1>2. /\ x \in Cells /\ x \in Int /\ scanned' = x
      /\ pend' = [pend EXCEPT ![x] = Fanin(x)]
      /\ queue' = IF completion[x] = 1 THEN Append(queue, x) ELSE queue
      /\ netlist' = netlist /\ completion' = completion /\ stepOf' = stepOf /\ taken' = taken
      /\ untold' = untold /\ done' = done /\ maxStep' = maxStep /\ verdict' = verdict
  BY <1>0, <1>1 DEF Scan
<1>3. /\ taken = 0 /\ untold = {} /\ verdict = "running" /\ Told = {}
      /\ \A c \in Cells : (Scheduled(c) => IsInput(c)) /\ (IsInput(c) <=> completion[c] = 1) /\ (Scheduled(c) <=> IsInput(c))
  BY <1>1 DEF ScanInv, CellInv, Scheduled
<1>4. /\ Cells' = Cells /\ N' = N
      /\ \A c : /\ Writes(c)' = Writes(c) /\ Readers(c)' = Readers(c) /\ (IsInput(c)' <=> IsInput(c))
                /\ Scheduled(c)' <=> Scheduled(c)
  BY <1>2, NetlistStays DEF Scheduled
<1>5. x \notin Queued
  BY <1>0, <1>1 DEF QueueInv
<1>6. /\ queue' \in Seq(Cells) /\ Distinct(queue')
      /\ Queued' = IF IsInput(x) THEN Queued \cup {x} ELSE Queued
  <2>1. queue \in Seq(Cells) /\ Distinct(queue)
    BY DEF TypeInv, QueueInv
  <2>2. CASE IsInput(x)
    <3>1. queue' = Append(queue, x)
      BY <1>2, <1>3, <2>2
    <3>2. Append(queue, x) \in Seq(Cells) /\ Range(Append(queue, x)) = Range(queue) \cup {x} /\ Distinct(Append(queue, x))
      BY <1>2, <1>5, <2>1, QueueAppend DEF Queued
    <3> QED
      BY <2>2, <3>1, <3>2 DEF Queued
  <2>3. CASE ~IsInput(x)
    <3>1. queue' = queue
      BY <1>2, <1>3, <2>3
    <3> QED
      BY <2>1, <2>3, <3>1 DEF Queued
  <2> QED
    BY <2>2, <2>3
<1>7. \A c \in 1 .. scanned' : c \in Cells /\ (c = x \/ c \in 1 .. scanned)
  BY <1>0, <1>1, <1>2
<1>8. \A c \in 1 .. scanned : c \in 1 .. scanned' /\ c # x /\ c \in Cells
  BY <1>0, <1>1, <1>2
<1>9. Told' = {}
  <2> SUFFICES ASSUME NEW c \in 1 .. scanned', Scheduled(c)', c \notin Queued' PROVE FALSE
    BY DEF Told
  <2>1. c \in Cells /\ IsInput(c) /\ Scheduled(c)
    BY <1>3, <1>4, <1>7
  <2>2. CASE c = x
    BY <1>6, <2>1, <2>2
  <2>3. CASE c # x
    <3>1. c \in 1 .. scanned /\ c \notin Queued
      BY <1>6, <1>7, <2>3
    <3>2. c \in Told
      BY <2>1, <3>1 DEF Told
    <3> QED
      BY <1>3, <3>2
  <2> QED
    BY <2>2, <2>3
<1>10. \A c : Open(c) = Writes(c) /\ Open(c)' = Writes(c)
  BY <1>2, <1>3, <1>4, <1>9 DEF Open
<1>11. TypeInv'
  <2>1. pend' \in [Cells -> Int]
    BY <1>1, <1>2 DEF TypeInv, Fanin
  <2>2. x \in 0 .. N
    BY <1>1, <1>2
  <2> QED
    BY <1>2, <1>4, <1>6, <2>1, <2>2 DEF TypeInv
<1>12. ScanInv'
  BY <1>2, <1>3, <1>4, <1>9 DEF ScanInv
<1>13. CellInv'
  <2>1. ASSUME NEW c \in Cells, Scheduled(c) PROVE CellDone(c)'
    <3>1. CellDone(c) /\ maxStep \in Nat
      BY <2>1 DEF CellInv, CellDone, TypeInv
    <3> QED
      BY <1>2, <3>1, CellStays
  <2>2. ASSUME NEW c \in Cells PROVE (IF IsInput(c) THEN completion[c] = 1 ELSE completion[c] = -1 \/ Scheduled(c))'
    BY <1>2, <1>4 DEF CellInv
  <2> QED
    BY <1>4, <2>1, <2>2 DEF CellInv, CellDone
<1>14. WaitInv'
  <2>1. ASSUME NEW c \in Cells PROVE pend'[c] = IF c <= scanned' THEN Cardinality(Open(c)') ELSE 0
    <3>1. CASE c = x
      <4>1. Cardinality(Writes(x)) = Len(netlist[x])
        BY <1>2, WritesFinite DEF TypeInv
      <4> QED
        BY <1>2, <1>10, <3>1, <4>1 DEF TypeInv, Fanin
    <3>2. CASE c # x
      <4>1. c <= scanned' <=> c <= scanned
        BY <1>0, <1>1, <1>2, <3>2
      <4> QED
        BY <1>2, <1>10, <3>2, <4>1 DEF TypeInv, WaitInv
    <3> QED
      BY <3>1, <3>2
  <2>2. ASSUME NEW c \in 1 .. scanned' PROVE Open(c)' = {} <=> c \in Queued' \cup Told'
    <3>1. CASE c = x
      <4>1. Writes(x) = {} <=> IsInput(x)
        <5>1. Writes(x) = 1 .. Len(netlist[x]) /\ Len(netlist[x]) \in Nat /\ (IsInput(x) <=> Len(netlist[x]) = 0)
          BY <1>1, <1>2
        <5>2. \A n \in Nat : 1 .. n = {} <=> n = 0
          OBVIOUS
        <5> QED
          BY <5>1, <5>2
      <4> QED
        BY <1>5, <1>6, <1>9, <1>10, <3>1, <4>1
    <3>2. CASE c # x
      <4>1. c \in 1 .. scanned
        BY <1>7, <3>2
      <4>2. Open(c) = {} <=> c \in Queued \cup Told
        BY <4>1 DEF WaitInv
      <4> QED
        BY <1>3, <1>6, <1>9, <1>10, <3>2, <4>2
    <3> QED
      BY <3>1, <3>2
  <2> QED
    BY <1>4, <2>1, <2>2 DEF WaitInv
<1>15. QueueInv'
  <2>1. ASSUME NEW c \in Queued' PROVE c <= scanned' /\ (Scheduled(c)' => IsInput(c)')
    <3>1. CASE c = x
      BY <1>2, <1>3, <1>4, <3>1
    <3>2. CASE c # x
      <4>1. c \in Queued
        BY <1>6, <3>2
      <4>2. c \in Cells
        BY <4>1, QueuedCells DEF TypeInv
      <4>3. c <= scanned /\ c \in Int
        <5>1. c <= scanned
          BY <4>1 DEF QueueInv
        <5> QED
          BY <1>1, <4>2, <5>1
      <4>4. c <= scanned'
        BY <1>0, <1>1, <1>2, <4>3
      <4> QED
        BY <1>3, <1>4, <4>2, <4>4
    <3> QED
      BY <3>1, <3>2
  <2> QED
    BY <1>6, <2>1 DEF QueueInv
<1>16. ToldInv'
  BY <1>2, <1>3, <1>4, <1>9 DEF ToldInv
<1>17. VerdictInv'
  BY <1>2, <1>3 DEF VerdictInv, LoopFound
<1> QED
  BY <1>11, <1>12, <1>13, <1>14, <1>15, <1>16, <1>17

LEMMA TakeStep == IInv /\ Take => IInv'
<1> SUFFICES ASSUME IInv, Take PROVE IInv'
  OBVIOUS
<1> USE DEF IInv
<1>1. /\ N \in Nat /\ Cells = 1 .. N
      /\ \A c \in Cells : \A w \in Writes(c) : netlist[c][w] \in Cells
  BY Wiring DEF TypeInv
<1>2. PICK x : x = Head(queue)
  OBVIOUS
<1>3. /\ scanned = N /\ verdict = "running" /\ untold = {} /\ queue # <<>>
      /\ taken' = x /\ queue' = Tail(queue) /\ done' = done + 1 /\ untold' = Readers(x)'
      /\ IF completion[x] < 0 THEN Place(x) ELSE stepOf' = stepOf /\ completion' = completion /\ maxStep' = maxStep
      /\ netlist' = netlist /\ scanned' = scanned /\ pend' = pend /\ verdict' = verdict
  <2>1. Readers(taken') = Readers(x)
    BY <1>2 DEF Take
  <2>2. Readers(x)' = Readers(x)
    BY NetlistStays DEF Take
  <2> QED
    BY <1>2, <2>1, <2>2 DEF Take, Loop
<1>4. /\ x \in Queued /\ x \in Cells /\ queue' \in Seq(Cells) /\ Distinct(queue')
      /\ Queued' = Queued \ {x} /\ Queued \subseteq Cells
  BY <1>2, <1>3, QueueTail, QueuedCells DEF Queued, QueueInv, TypeInv
<1>5. /\ Cells' = Cells /\ N' = N
      /\ \A c : Writes(c)' = Writes(c) /\ Readers(c)' = Readers(c) /\ (IsInput(c)' <=> IsInput(c))
  BY <1>3, NetlistStays
<1>6. x \notin Told /\ \A w \in Writes(x) : netlist[x][w] \in Told /\ netlist[x][w] # x
  <2>1. Open(x) = {}
    BY <1>1, <1>3, <1>4 DEF WaitInv
  <2> QED
    BY <1>4, <2>1 DEF Open, Told
<1>7. \A w \in Writes(x) : SourceAt(x, w) > 0
  BY <1>6 DEF Told, Scheduled, SourceAt
<1>8. /\ completion' \in [Cells -> Int] /\ DOMAIN stepOf' = Cells /\ stepOf'[x] \in [Writes(x) -> Int]
      /\ maxStep' \in Nat \ {0} /\ maxStep' >= maxStep /\ CellDone(x)'
      /\ completion'[x] > 0 /\ (IsInput(x) => completion'[x] = 1)
      /\ \A c \in Cells : c # x => completion'[c] = completion[c] /\ stepOf'[c] = stepOf[c]
  <2>1. CASE completion[x] < 0
    <3> DEFINE order == Ranked(x)
               t == Times(x, order)
               st == [w \in Writes(x) |-> t[Turn(x, w)]]
               val == t[Len(order)]
    <3>1. /\ stepOf' = [stepOf EXCEPT ![x] = st] /\ completion' = [completion EXCEPT ![x] = val]
          /\ maxStep' = LaterOf(maxStep, val)
      BY <1>3, <2>1 DEF Place
    <3>2. PlacedWell(x, val, st)
      BY <1>4, PlaceGives DEF TypeInv
    <3> HIDE DEF st, val
    <3>3. val \in Nat \ {0} /\ st \in [Writes(x) -> Int]
      BY <3>2 DEF PlacedWell
    <3>4. /\ completion' \in [Cells -> Int] /\ DOMAIN stepOf' = Cells
          /\ completion'[x] = val /\ stepOf'[x] = st
          /\ \A c \in Cells : c # x => completion'[c] = completion[c] /\ stepOf'[c] = stepOf[c]
      BY <1>4, <3>1, <3>3 DEF TypeInv
    <3>5. maxStep' \in Nat \ {0} /\ maxStep' >= maxStep /\ maxStep' >= val
      <4>1. maxStep \in Nat \ {0}
        BY DEF TypeInv
      <4> QED
        BY <3>1, <3>3, <4>1 DEF LaterOf
    <3>6. ~IsInput(x)
      BY <1>4, <2>1 DEF CellInv
    <3>7. \A w \in Writes(x) : SourceAt(x, w)' = SourceAt(x, w)
      BY <1>1, <1>3, <1>4, <1>6, <3>4 DEF SourceAt
    <3>8. SourcesOf(x)' = SourcesOf(x) /\ Writes(x)' = Writes(x) /\ Len(netlist'[x]) = Len(netlist[x])
      BY <1>3, <1>5, <3>7 DEF SourcesOf
    <3>9. PlacedWell(x, completion[x], stepOf[x])'
      BY <3>2, <3>4, <3>7, <3>8 DEF PlacedWell
    <3>10. CellDone(x)'
      BY <1>7, <3>3, <3>4, <3>5, <3>7, <3>8, <3>9 DEF CellDone
    <3> QED
      BY <3>3, <3>4, <3>5, <3>6, <3>10
  <2>2. CASE ~(completion[x] < 0)
    <3>1. stepOf' = stepOf /\ completion' = completion /\ maxStep' = maxStep
      BY <1>3, <2>2
    <3>2. Scheduled(x) /\ CellDone(x)
      BY <1>4, <2>2 DEF CellInv, CellDone, Scheduled
    <3>3. CellDone(x)'
      BY <1>3, <1>4, <3>1, <3>2, CellStays DEF TypeInv
    <3> QED
      BY <1>4, <3>1, <3>2, <3>3 DEF TypeInv, Scheduled, CellInv
  <2> QED
    BY <2>1, <2>2
<1>9. \A c \in Cells : Scheduled(c)' <=> Scheduled(c) \/ c = x
  BY <1>4, <1>8 DEF Scheduled
<1>10. Told' = Told \cup {x}
  BY <1>1, <1>3, <1>4, <1>9 DEF Told
<1>11. \A c \in Cells : Open(c)' = Open(c)
  <2> TAKE c \in Cells
  <2>1. \A w \in Writes(c) : <<c, w>> \in Readers(x) <=> netlist[c][w] = x
    BY DEF Readers
  <2>2. \A w \in Writes(c) : <<c, w>> \in untold' <=> netlist[c][w] = x
    BY <1>3, <1>5, <2>1
  <2> QED
    BY <1>3, <1>5, <1>6, <1>10, <2>2 DEF Open
<1>12. TypeInv'
  <2>1. \A c \in Cells : stepOf'[c] \in [Writes(c) -> Int]
    BY <1>8 DEF TypeInv
  <2> QED
    BY <1>3, <1>4, <1>5, <1>8, <2>1 DEF TypeInv
<1>13. ScanInv'
  BY <1>1, <1>3, <1>5 DEF ScanInv
<1>14. CellInv'
  <2>1. ASSUME NEW c \in Cells, Scheduled(c)' PROVE CellDone(c)'
    <3>1. CASE c = x
      BY <1>8, <3>1
    <3>2. CASE c # x
      <4>1. Scheduled(c) /\ CellDone(c)
        BY <1>9, <2>1, <3>2 DEF CellInv, CellDone
      <4>2. ASSUME NEW w \in Writes(c) PROVE completion'[netlist[c][w]] = completion[netlist[c][w]]
        <5>1. netlist[c][w] \in Cells /\ completion[netlist[c][w]] > 0
          BY <1>1, <4>1 DEF CellDone, SourceAt
        <5>2. CASE netlist[c][w] # x
          BY <1>8, <5>1, <5>2
        <5>3. CASE netlist[c][w] = x
          <6>1. completion' = completion
            BY <1>3, <5>1, <5>3 DEF TypeInv
          <6> QED
            BY <6>1
        <5> QED
          BY <5>2, <5>3
      <4> QED
        BY <1>3, <1>8, <3>2, <4>1, <4>2, CellStays
    <3> QED
      BY <3>1, <3>2
  <2>2. ASSUME NEW c \in Cells
        PROVE  (IF IsInput(c) THEN completion[c] = 1 ELSE completion[c] = -1 \/ Scheduled(c))'
    <3>1. CASE c = x
      BY <1>5, <1>8, <1>9, <2>2, <3>1
    <3>2. CASE c # x
      BY <1>5, <1>8, <1>9, <2>2, <3>2 DEF CellInv
    <3> QED
      BY <3>1, <3>2
  <2> QED
    BY <1>5, <2>1, <2>2 DEF CellInv, CellDone
<1>15. WaitInv'
  <2>1. ASSUME NEW c \in 1 .. scanned PROVE Open(c)' = {} <=> c \in Queued' \cup Told'
    BY <1>1, <1>3, <1>4, <1>10, <1>11 DEF WaitInv
  <2>2. ASSUME NEW c \in Cells PROVE pend'[c] = IF c <= scanned' THEN Cardinality(Open(c)') ELSE 0
    BY <1>3, <1>11 DEF WaitInv
  <2> QED
    BY <1>3, <1>5, <2>1, <2>2 DEF WaitInv
<1>16. QueueInv'
  BY <1>3, <1>4, <1>5, <1>9 DEF QueueInv
<1>17. ToldInv'
  <2>1. Cardinality(Told') = Cardinality(Told) + 1
    BY <1>6, <1>10, ToldFinite, FS_AddElement
  <2> QED
    BY <1>3, <1>10, <2>1 DEF ToldInv
<1>18. VerdictInv'
  BY <1>3 DEF VerdictInv, LoopFound
<1> QED
  BY <1>12, <1>13, <1>14, <1>15, <1>16, <1>17, <1>18

LEMMA NotifyStep == IInv /\ Notify => IInv'
<1> SUFFICES ASSUME IInv, Notify PROVE IInv'
  OBVIOUS
<1> USE DEF IInv
<1>1. /\ N \in Nat /\ Cells = 1 .. N
      /\ \A c \in Cells : \A w \in Writes(c) : netlist[c][w] \in Cells
  BY Wiring DEF TypeInv
<1>2. PICK e \in untold :
          /\ untold' = untold \ {e}
          /\ pend' = [pend EXCEPT ![e[1]] = @ - 1]
          /\ queue' = IF Ready(pend'[e[1]]) THEN Append(queue, e[1]) ELSE queue
          /\ netlist' = netlist /\ completion' = completion /\ stepOf' = stepOf /\ scanned' = scanned
          /\ taken' = taken /\ done' = done /\ maxStep' = maxStep /\ verdict' = verdict
  BY DEF Notify
<1>a. PICK d \in Cells : \E v \in Writes(d) : e = <<d, v>> /\ netlist[d][v] = taken
  BY <1>2 DEF ToldInv, Readers
<1>3. PICK v \in Writes(d) : e = <<d, v>> /\ netlist[d][v] = taken
  BY <1>a
<1>4. e[1] = d /\ scanned = N /\ verdict = "running" /\ taken \in Told
  <2>1. untold # {} /\ scanned \in 0 .. N /\ e[1] = d
    BY <1>2, <1>3 DEF TypeInv
  <2>2. ~(scanned < N)
    BY <2>1 DEF ScanInv
  <2>3. scanned = N
    BY <1>1, <2>1, <2>2
  <2>4. verdict = "running"
    BY <2>1 DEF VerdictInv
  <2>5. taken \in Cells
    BY <1>1, <1>3
  <2> QED
    BY <1>1, <2>1, <2>3, <2>4, <2>5 DEF ToldInv
<1>5. /\ Cells' = Cells /\ N' = N
      /\ \A c : /\ Writes(c)' = Writes(c) /\ Readers(c)' = Readers(c) /\ (IsInput(c)' <=> IsInput(c))
                /\ Scheduled(c)' <=> Scheduled(c)
  BY <1>2, NetlistStays DEF Scheduled
<1>6. v \in Open(d) /\ d \notin Queued /\ d \notin Told /\ ~Scheduled(d)
  <2>1. v \in Open(d)
    BY <1>2, <1>3 DEF Open
  <2>2. d \in 1 .. scanned
    BY <1>1, <1>3, <1>4
  <2> QED
    BY <2>1, <2>2 DEF WaitInv, Told
<1>7. /\ pend'[d] = Cardinality(Open(d)) - 1 /\ pend' \in [Cells -> Int]
      /\ \A c \in Cells : c # d => pend'[c] = pend[c]
  <2>1. pend \in [Cells -> Int]
    BY DEF TypeInv
  <2>2. pend[d] = Cardinality(Open(d))
    BY <1>1, <1>3, <1>4 DEF WaitInv
  <2> QED
    BY <1>2, <1>3, <1>4, <2>1, <2>2
<1>8. /\ IsFiniteSet(Open(d)) /\ Cardinality(Open(d) \ {v}) = Cardinality(Open(d)) - 1
      /\ Cardinality(Open(d) \ {v}) = 0 <=> Open(d) \ {v} = {}
  <2>1. Open(d) \in SUBSET Writes(d) /\ Open(d) \ {v} \in SUBSET Writes(d)
    BY DEF Open
  <2>2. IsFiniteSet(Open(d))
    BY <1>3, <2>1, WritesFinite DEF TypeInv
  <2>3. Cardinality(Open(d) \ {v}) = 0 <=> Open(d) \ {v} = {}
    BY <1>3, <2>1, WritesFinite DEF TypeInv
  <2>4. Cardinality(Open(d) \ {v}) = Cardinality(Open(d)) - 1
    BY <1>6, <2>2, FS_RemoveElement
  <2> QED
    BY <2>2, <2>3, <2>4
<1>9. /\ queue' \in Seq(Cells) /\ Distinct(queue')
      /\ Queued' = IF Open(d) \ {v} = {} THEN Queued \cup {d} ELSE Queued
  <2>1. queue \in Seq(Cells) /\ Distinct(queue)
    BY DEF TypeInv, QueueInv
  <2>2. Ready(pend'[d]) <=> Open(d) \ {v} = {}
    BY <1>7, <1>8 DEF Ready
  <2>3. CASE Open(d) \ {v} = {}
    <3>1. queue' = Append(queue, d)
      BY <1>2, <1>4, <2>2, <2>3
    <3>2. Append(queue, d) \in Seq(Cells) /\ Range(Append(queue, d)) = Range(queue) \cup {d} /\ Distinct(Append(queue, d))
      BY <1>3, <1>6, <2>1, QueueAppend DEF Queued
    <3> QED
      BY <2>3, <3>1, <3>2 DEF Queued
  <2>4. CASE Open(d) \ {v} # {}
    <3>1. queue' = queue
      BY <1>2, <1>4, <2>2, <2>4
    <3> QED
      BY <2>1, <2>4, <3>1 DEF Queued
  <2> QED
    BY <2>3, <2>4
<1>10. Told' = Told
  <2>1. \A c \in 1 .. scanned : c \in Told' <=> (Scheduled(c) /\ c \notin Queued')
    BY <1>2, <1>5 DEF Told
  <2>2. \A c : Scheduled(c) => (c \in Queued' <=> c \in Queued)
    BY <1>6, <1>9
  <2>3. Told' \subseteq 1 .. scanned /\ Told \subseteq 1 .. scanned
    BY <1>2 DEF Told
  <2>4. \A c \in 1 .. scanned : c \in Told' <=> c \in Told
    BY <2>1, <2>2 DEF Told
  <2> QED
    BY <2>3, <2>4
<1>11. \A c \in Cells : Open(c)' = IF c = d THEN Open(d) \ {v} ELSE Open(c)
  <2> TAKE c \in Cells
  <2>1. \A w \in Writes(c) : <<c, w>> \in untold' <=> <<c, w>> \in untold /\ ~(c = d /\ w = v)
    BY <1>2, <1>3
  <2>2. netlist[d][v] \in Told
    BY <1>3, <1>4
  <2>3. \A w \in Writes(c) : w \in Open(c)' <=> netlist[c][w] \notin Told \/ <<c, w>> \in untold'
    BY <1>2, <1>5, <1>10 DEF Open
  <2>4. \A w \in Writes(c) : w \in Open(c)' <=> w \in Open(c) /\ ~(c = d /\ w = v)
    BY <2>1, <2>2, <2>3 DEF Open
  <2>5. Open(c)' \subseteq Writes(c) /\ Open(c) \subseteq Writes(c)
    BY <1>5 DEF Open
  <2> QED
    BY <2>4, <2>5
<1>12. TypeInv'
  <2>1. \A c \in Cells : stepOf'[c] \in [Writes(c)' -> Int]
    BY <1>2, <1>5 DEF TypeInv
  <2> QED
    BY <1>2, <1>5, <1>7, <1>9, <2>1 DEF TypeInv
<1>13. ScanInv'
  BY <1>1, <1>2, <1>4, <1>5 DEF ScanInv
<1>14. CellInv'
  <2>1. ASSUME NEW c \in Cells, Scheduled(c) PROVE CellDone(c)'
    <3>1. CellDone(c) /\ maxStep \in Nat
      BY <2>1 DEF CellInv, CellDone, TypeInv
    <3> QED
      BY <1>2, <3>1, CellStays
  <2>2. ASSUME NEW c \in Cells PROVE (IF IsInput(c) THEN completion[c] = 1 ELSE completion[c] = -1 \/ Scheduled(c))'
    BY <1>2, <1>5 DEF CellInv
  <2> QED
    BY <1>5, <2>1, <2>2 DEF CellInv, CellDone
<1>15. WaitInv'
  <2>1. ASSUME NEW c \in Cells PROVE pend'[c] = IF c <= scanned' THEN Cardinality(Open(c)') ELSE 0
    <3>1. CASE c = d
      <4>1. Open(d)' = Open(d) \ {v}
        BY <1>11
      <4>2. d <= scanned'
        BY <1>1, <1>2, <1>4
      <4> QED
        BY <1>7, <1>8, <3>1, <4>1, <4>2
    <3>2. CASE c # d
      BY <1>2, <1>7, <1>11, <3>2 DEF WaitInv
    <3> QED
      BY <3>1, <3>2
  <2>2. ASSUME NEW c \in 1 .. scanned PROVE Open(c)' = {} <=> c \in Queued' \cup Told'
    <3>1. c \in Cells
      BY <1>1, <1>4
    <3>2. CASE c = d
      BY <1>6, <1>9, <1>10, <1>11, <3>1, <3>2
    <3>3. CASE c # d
      BY <1>9, <1>10, <1>11, <3>1, <3>3 DEF WaitInv
    <3> QED
      BY <3>2, <3>3
  <2> QED
    BY <1>2, <1>5, <2>1, <2>2 DEF WaitInv
<1>16. QueueInv'
  BY <1>1, <1>2, <1>3, <1>4, <1>5, <1>6, <1>9 DEF QueueInv
<1>17. ToldInv'
  BY <1>2, <1>5, <1>10 DEF ToldInv
<1>18. VerdictInv'
  BY <1>2, <1>4 DEF VerdictInv, LoopFound
<1> QED
  BY <1>12, <1>13, <1>14, <1>15, <1>16, <1>17, <1>18

LEMMA FinishStep == IInv /\ Finish => IInv'
<1> SUFFICES ASSUME IInv, Finish PROVE IInv'
  OBVIOUS
<1> USE DEF IInv
<1>1. /\ scanned = N /\ untold = {} /\ queue = <<>> /\ verdict = "running"
      /\ verdict' = IF done = N THEN "returned" ELSE "aborted"
      /\ netlist' = netlist /\ completion' = completion /\ stepOf' = stepOf /\ scanned' = scanned /\ pend' = pend
      /\ queue' = queue /\ taken' = taken /\ untold' = untold /\ done' = done /\ maxStep' = maxStep
  BY DEF Finish, Loop
<1>2. /\ N \in Nat /\ Cells = 1 .. N
      /\ \A c \in Cells : \A w \in Writes(c) : netlist[c][w] \in Cells
  BY Wiring DEF TypeInv
<1>3. /\ Cells' = Cells /\ N' = N
      /\ \A c : /\ Writes(c)' = Writes(c) /\ Readers(c)' = Readers(c) /\ (IsInput(c)' <=> IsInput(c))
                /\ Scheduled(c)' <=> Scheduled(c)
  BY <1>1, NetlistStays DEF Scheduled
<1>4. Queued = {} /\ Queued' = {} /\ Told' = Told
  BY <1>1, <1>3 DEF Queued, Range, Told
<1>5. \A c \in Cells : Open(c)' = Open(c)
  BY <1>1, <1>3, <1>4 DEF Open
<1>6. TypeInv'
  BY <1>1, <1>3 DEF TypeInv
<1>7. ScanInv'
  BY <1>1, <1>2, <1>3 DEF ScanInv
<1>8. CellInv'
  <2>1. ASSUME NEW c \in Cells, Scheduled(c) PROVE CellDone(c)'
    <3>1. CellDone(c) /\ maxStep \in Nat
      BY <2>1 DEF CellInv, CellDone, TypeInv
    <3> QED
      BY <1>1, <3>1, CellStays
  <2>2. ASSUME NEW c \in Cells PROVE (IF IsInput(c) THEN completion[c] = 1 ELSE completion[c] = -1 \/ Scheduled(c))'
    BY <1>1, <1>3 DEF CellInv
  <2> QED
    BY <1>3, <2>1, <2>2 DEF CellInv, CellDone
<1>9. WaitInv'
  BY <1>1, <1>2, <1>3, <1>4, <1>5 DEF WaitInv
<1>10. QueueInv'
  BY <1>1, <1>4 DEF QueueInv
<1>11. ToldInv'
  BY <1>1, <1>3, <1>4 DEF ToldInv
<1>12. VerdictInv'
  <2> DEFINE left == {c \in Cells : ~Scheduled(c)}
  <2>1. left = Cells \ Told
    BY <1>1, <1>2, <1>4 DEF Told
  <2>2. done = N <=> Told = Cells
    BY ToldFinite DEF ToldInv
  <2>3. Told \subseteq Cells
    BY ToldFinite
  <2>4. done = N <=> left = {}
    BY <2>1, <2>2, <2>3
  <2>5. ASSUME NEW c \in left PROVE \E w \in Writes(c) : netlist[c][w] \in left
    <3>1. c \in 1 .. scanned /\ c \notin Queued \cup Told
      BY <1>1, <1>2, <1>4, <2>1
    <3>2. Open(c) # {}
      BY <3>1 DEF WaitInv
    <3>3. PICK w \in Writes(c) : netlist[c][w] \notin Told
      BY <1>1, <3>2 DEF Open
    <3> QED
      BY <1>2, <2>1, <3>3
  <2>6. left' = left
    BY <1>3
  <2>7. LoopFound'
    BY <1>1, <1>3, <2>4, <2>5, <2>6 DEF LoopFound
  <2> QED
    BY <1>1, <1>3, <2>7 DEF VerdictInv
<1> QED
  BY <1>6, <1>7, <1>8, <1>9, <1>10, <1>11, <1>12

LEMMA StutterStep == IInv /\ UNCHANGED vars => IInv'
<1> SUFFICES ASSUME IInv, UNCHANGED vars PROVE IInv'
  OBVIOUS
<1> USE DEF IInv
<1>1. /\ netlist' = netlist /\ completion' = completion /\ stepOf' = stepOf /\ scanned' = scanned /\ pend' = pend
      /\ queue' = queue /\ taken' = taken /\ untold' = untold /\ done' = done /\ maxStep' = maxStep
      /\ verdict' = verdict
  BY DEF vars
<1>2. /\ Cells' = Cells /\ N' = N
      /\ \A c : /\ Writes(c)' = Writes(c) /\ Readers(c)' = Readers(c) /\ (IsInput(c)' <=> IsInput(c))
                /\ Scheduled(c)' <=> Scheduled(c)
  BY <1>1, NetlistStays DEF Scheduled
<1>3. Queued' = Queued /\ Told' = Told
  BY <1>1, <1>2 DEF Queued, Told
<1>4. \A c : Open(c)' = Open(c)
  BY <1>1, <1>2, <1>3 DEF Open
<1>5. TypeInv'
  BY <1>1, <1>2 DEF TypeInv
<1>6. ScanInv'
  BY <1>1, <1>2, <1>3 DEF ScanInv
<1>7. CellInv'
  <2>1. ASSUME NEW c \in Cells, Scheduled(c) PROVE CellDone(c)'
    <3>1. CellDone(c) /\ maxStep \in Nat
      BY <2>1 DEF CellInv, CellDone, TypeInv
    <3> QED
      BY <1>1, <3>1, CellStays
  <2>2. ASSUME NEW c \in Cells PROVE (IF IsInput(c) THEN completion[c] = 1 ELSE completion[c] = -1 \/ Scheduled(c))'
    BY <1>1, <1>2 DEF CellInv
  <2> QED
    BY <1>2, <2>1, <2>2 DEF CellInv, CellDone
<1>8. WaitInv'
  BY <1>1, <1>2, <1>3, <1>4 DEF WaitInv
<1>9. QueueInv'
  BY <1>1, <1>2, <1>3 DEF QueueInv
<1>10. ToldInv'
  BY <1>1, <1>2, <1>3 DEF ToldInv
<1>11. VerdictInv'
  <2>1. {c \in Cells : ~Scheduled(c)}' = {c \in Cells : ~Scheduled(c)}
    BY <1>2
  <2> QED
    BY <1>1, <1>2, <2>1 DEF VerdictInv, LoopFound
<1> QED
  BY <1>5, <1>6, <1>7, <1>8, <1>9, <1>10, <1>11

LEMMA IInvHolds == Spec => []IInv
<1>1. IInv /\ [Next]_vars => IInv'
  BY ScanStep, TakeStep, NotifyStep, FinishStep, StutterStep DEF Next
<1> QED
  BY InitInv, <1>1, PTL DEF Spec

LEMMA InvTypeOK == IInv => TypeOK
<1> SUFFICES ASSUME IInv PROVE TypeOK
  OBVIOUS
<1> USE DEF IInv
<1>1. /\ N \in Nat /\ Cells = 1 .. N /\ netlist \in [Cells -> Seq(Cells)]
      /\ \A c \in Cells : Writes(c) = 1 .. Len(netlist[c]) /\ Len(netlist[c]) \in Nat
  BY Wiring DEF TypeInv
<1>2. ASSUME NEW c \in Cells PROVE pend[c] \in 0 .. Len(netlist[c])
  <2>1. Open(c) \in SUBSET Writes(c)
    BY DEF Open
  <2>2. Cardinality(Open(c)) \in 0 .. Len(netlist[c])
    BY <2>1, WritesFinite DEF TypeInv
  <2>3. 0 \in 0 .. Len(netlist[c])
    BY <1>1
  <2> QED
    BY <2>2, <2>3 DEF WaitInv
<1>3. done \in 0 .. N /\ Told \subseteq Cells
  BY ToldFinite DEF ToldInv
<1>4. taken \in 0 .. N
  <2>1. taken = 0 \/ taken \in 1 .. N
    BY <1>1, <1>3 DEF ToldInv
  <2> QED
    BY <1>1, <2>1
<1>5. untold \subseteq Cells \X Nat
  <2> SUFFICES ASSUME NEW e \in Readers(taken) PROVE e \in Cells \X Nat
    BY DEF ToldInv
  <2>1. PICK d \in Cells : \E w \in Writes(d) : e = <<d, w>>
    BY DEF Readers
  <2>2. PICK w \in Writes(d) : e = <<d, w>>
    BY <2>1
  <2>3. w \in Nat
    BY <1>1
  <2> QED
    BY <2>2, <2>3
<1>6. queue \in Seq(Cells) /\ completion \in [Cells -> Int] /\ scanned \in 0 .. N /\ maxStep \in Nat
      /\ verdict \in {"running", "returned", "aborted"} /\ \A c \in Cells : stepOf[c] \in [Writes(c) -> Int]
  BY DEF TypeInv
<1> QED
  BY <1>1, <1>2, <1>3, <1>4, <1>5, <1>6 DEF TypeOK

\* All variables keep their types; a count of open sources never exceeds the
\* writes of its cell nor drops below zero, and no cell is taken twice.
THEOREM TypeCorrect == Spec => []TypeOK
BY IInvHolds, InvTypeOK, PTL

LEMMA InvSourcesFirst == IInv => SourcesFirst
<1> SUFFICES ASSUME IInv PROVE SourcesFirst
  OBVIOUS
<1> USE DEF IInv
<1>1. Cardinality({queue[p] : p \in DOMAIN queue}) = Len(queue)
  BY QueueCount DEF TypeInv, QueueInv
<1>2. \A p \in 1 .. Len(queue) : queue[p] \in Queued /\ queue[p] \in Cells
  BY QueuedCells, LenProperties DEF TypeInv, Queued, Range
<1>3. taken \notin Queued
  <2>1. taken \in Told \/ taken \notin Cells
    BY Wiring DEF ToldInv, TypeInv
  <2> QED
    BY <2>1, QueuedCells DEF Told, TypeInv
<1>4. \A p \in 1 .. Len(queue) : queue[p] # taken /\ (Scheduled(queue[p]) => IsInput(queue[p]))
  BY <1>2, <1>3 DEF QueueInv
<1>5. \A c \in Cells : Scheduled(c) => \A w \in Writes(c) : SourceAt(c, w) > 0
  BY DEF CellInv
<1> QED
  BY <1>1, <1>4, <1>5 DEF SourcesFirst

\* A cell is placed once, after every cell it reads.
THEOREM SourcesComeFirst == Spec => []SourcesFirst
BY IInvHolds, InvSourcesFirst, PTL

LEMMA InvFeasible == IInv => Feasible
BY DEF IInv, CellInv, PlacedWell, Feasible

\* The steps given to the writes meet both constraints of the comment on
\* schedule, whatever the netlist.
THEOREM ScheduleFeasible == Spec => []Feasible
BY IInvHolds, InvFeasible, PTL

LEMMA InvEarliest == IInv => Earliest
<1> SUFFICES ASSUME IInv, verdict = "returned", NEW c \in Cells, NEW order \in Orders(Len(netlist[c]))
             PROVE  completion[c] <= Times(c, order)[Len(netlist[c])]
  BY DEF Earliest
<1>1. Scheduled(c)
  BY DEF IInv, VerdictInv, LoopFound
<1>2. Best(SourcesOf(c), Len(netlist[c]), completion[c])
  BY <1>1 DEF IInv, CellInv, PlacedWell
<1> QED
  BY <1>2, BestIsEarliest DEF IInv, TypeInv

\* Sorting the writes by the completion of their sources makes every cell
\* complete as early as any order of them.
THEOREM DepthMinimal == Spec => []Earliest
BY IInvHolds, InvEarliest, PTL

LEMMA InvLoopFound == IInv => LoopFound
BY DEF IInv, VerdictInv

\* The assert at the end of schedule fires for a circular netlist and for no
\* other.
THEOREM LoopsFound == Spec => []LoopFound
BY IInvHolds, InvLoopFound, PTL
-----------------------------------------------------------------------------
(* The schedule of the image *)

LEMMA LoopOnce ==
    ASSUME NEW L \in Nat, NEW r, NEW s, NEW t, NEW u, IsLoop(t, r, L), IsLoop(u, s, L), \A k \in 1 .. L : r[k] = s[k]
    PROVE  t = u
<1> DEFINE Rung == {k \in 0 .. L : t[k] = u[k]}
<1>1. /\ \A k \in 0 .. L : t[k] = IF k = 0 THEN 1 ELSE LaterOf(r[k], t[k - 1]) + 1
      /\ \A k \in 0 .. L : u[k] = IF k = 0 THEN 1 ELSE LaterOf(s[k], u[k - 1]) + 1
  BY DEF IsLoop
<1>2. 0 \in Rung
  BY <1>1
<1>3. ASSUME NEW k \in 1 .. L, k - 1 \in Rung PROVE k \in Rung
  <2>1. k \in 0 .. L /\ k # 0 /\ r[k] = s[k] /\ t[k - 1] = u[k - 1]
    BY <1>3
  <2>2. t[k] = LaterOf(r[k], t[k - 1]) + 1 /\ u[k] = LaterOf(s[k], u[k - 1]) + 1
    BY <1>1, <2>1
  <2> QED
    BY <2>1, <2>2
<1>4. \A k \in 0 .. L : k \in Rung
  <2> HIDE DEF Rung
  <2> QED
    BY <1>2, <1>3, Climb
<1>5. t = [k \in 0 .. L |-> t[k]] /\ u = [k \in 0 .. L |-> u[k]]
  BY DEF IsLoop
<1> QED
  BY <1>4, <1>5

\* The steps of a cell are those of the placing loop over its writes in order.
TimedCell(c) ==
    \E s, t : /\ IsLoop(t, s, Len(netlist[c])) /\ completion[c] = t[Len(netlist[c])]
              /\ \A w \in Writes(c) : s[Turn(c, w)] = SourceAt(c, w) /\ stepOf[c][w] = t[Turn(c, w)]
TimedInv == \A c \in Cells : Scheduled(c) => TimedCell(c)

LEMMA TimedStays ==
    ASSUME netlist' = netlist, NEW c, TimedCell(c), completion'[c] = completion[c], stepOf'[c] = stepOf[c],
           \A w \in Writes(c) : completion'[netlist[c][w]] = completion[netlist[c][w]]
    PROVE  TimedCell(c)'
<1>1. Writes(c)' = Writes(c) /\ Len(netlist'[c]) = Len(netlist[c])
  BY DEF Writes
<1>2. \A w \in Writes(c) : SourceAt(c, w)' = SourceAt(c, w)
  BY DEF SourceAt
<1>3. ASSUME NEW w \in Writes(c) PROVE Turn(c, w)' = Turn(c, w)
  <2>1. \A v \in Writes(c) : Before(c, v, w)' <=> Before(c, v, w)
    BY <1>2 DEF Before
  <2>2. {v \in Writes(c) : Before(c, v, w)}' = {v \in Writes(c) : Before(c, v, w)}
    BY <1>1, <2>1
  <2> QED
    BY <2>2 DEF Turn
<1>4. PICK s, t : /\ IsLoop(t, s, Len(netlist[c])) /\ completion[c] = t[Len(netlist[c])]
                  /\ \A w \in Writes(c) : s[Turn(c, w)] = SourceAt(c, w) /\ stepOf[c][w] = t[Turn(c, w)]
  BY DEF TimedCell
<1>5. /\ IsLoop(t, s, Len(netlist'[c])) /\ completion'[c] = t[Len(netlist'[c])]
      /\ \A w \in Writes(c)' : s[Turn(c, w)'] = SourceAt(c, w)' /\ stepOf'[c][w] = t[Turn(c, w)']
  BY <1>1, <1>2, <1>3, <1>4
<1> QED
  BY <1>5 DEF TimedCell

LEMMA PlaceTimes ==
    ASSUME netlist \in Netlists, completion \in [Cells -> Int], NEW c \in Cells
    PROVE  LET order == Ranked(c)
               t == Times(c, order)
           IN  /\ Len(order) = Len(netlist[c])
               /\ \E s : /\ IsLoop(t, s, Len(netlist[c]))
                         /\ \A w \in Writes(c) : s[Turn(c, w)] = SourceAt(c, w)
<1>1. PICK L \in Nat : L = Len(netlist[c]) /\ Writes(c) = 1 .. L /\ \A w \in 1 .. L : netlist[c][w] \in Cells
  BY Wiring
<1>2. \A w \in 1 .. L : SourceAt(c, w) \in Int
  BY <1>1 DEF SourceAt
<1>3. PICK order : order = Ranked(c)
  OBVIOUS
<1>4. Len(order) = L /\ \A w \in 1 .. L : Turn(c, w) \in 1 .. L /\ order[Turn(c, w)] = w
  BY <1>1, <1>2, <1>3, Ranking
<1>5. PICK s : s = [r \in 1 .. L |-> SourceAt(c, order[r])]
  OBVIOUS
<1>6. IsLoop(Times(c, order), s, L)
  BY <1>4, <1>5, TimesAre
<1>7. \A w \in Writes(c) : s[Turn(c, w)] = SourceAt(c, w)
  BY <1>1, <1>4, <1>5
<1> QED
  BY <1>1, <1>3, <1>4, <1>6, <1>7

LEMMA InitTimed == Init => TimedInv
<1> SUFFICES ASSUME Init, NEW c \in Cells, Scheduled(c) PROVE TimedCell(c)
  BY DEF TimedInv
<1>1. IsInput(c) /\ completion[c] = 1
  BY DEF Init, Scheduled
<1>2. Len(netlist[c]) = 0 /\ Writes(c) = {}
  BY <1>1 DEF IsInput, Writes
<1>3. PICK s, t : IsLoop(t, s, 0)
  BY LoopRuns
<1>4. t[0] = 1
  BY <1>3 DEF IsLoop
<1> QED
  BY <1>1, <1>2, <1>3, <1>4 DEF TimedCell

LEMMA NextTimed == IInv /\ TimedInv /\ [Next]_vars => TimedInv'
<1> SUFFICES ASSUME IInv, TimedInv, [Next]_vars PROVE TimedInv'
  OBVIOUS
<1>0. netlist' = netlist /\ Cells' = Cells
  BY DEF Next, vars, Scan, Take, Notify, Finish, Cells
<1>1. ASSUME completion' = completion, stepOf' = stepOf PROVE TimedInv'
  <2>1. ASSUME NEW c \in Cells, Scheduled(c) PROVE TimedCell(c)'
    BY <1>0, <1>1, <2>1, TimedStays DEF TimedInv
  <2> QED
    BY <1>0, <1>1, <2>1 DEF TimedInv, Scheduled
<1>2. CASE Take
  <2>1. PICK x : x = Head(queue)
    OBVIOUS
  <2>2. /\ scanned = N /\ verdict = "running" /\ untold = {} /\ queue # <<>>
        /\ IF completion[x] < 0 THEN Place(x) ELSE stepOf' = stepOf /\ completion' = completion
    BY <1>2, <2>1 DEF Take, Loop
  <2>3. /\ x \in Queued /\ x \in Cells
    BY <2>1, <2>2, QueueTail, QueuedCells DEF Queued, QueueInv, TypeInv, IInv
  <2>4. /\ N \in Nat /\ Cells = 1 .. N
        /\ \A c \in Cells : \A w \in Writes(c) : netlist[c][w] \in Cells
    BY Wiring DEF TypeInv, IInv
  <2>5. \A w \in Writes(x) : netlist[x][w] # x
    <3>1. Open(x) = {}
      BY <2>2, <2>3, <2>4 DEF WaitInv, IInv
    <3> QED
      BY <2>3, <3>1 DEF Open, Told
  <2>6. CASE completion[x] < 0
    <3>1. PICK order, t : order = Ranked(x) /\ t = Times(x, order)
      OBVIOUS
    <3>2. PICK st, val : st = [w \in Writes(x) |-> t[Turn(x, w)]] /\ val = t[Len(order)]
      OBVIOUS
    <3>3. stepOf' = [stepOf EXCEPT ![x] = st] /\ completion' = [completion EXCEPT ![x] = val]
      BY <2>2, <2>6, <3>1, <3>2 DEF Place
    <3>4. /\ completion'[x] = val /\ stepOf'[x] = st
          /\ \A c \in Cells : c # x => completion'[c] = completion[c] /\ stepOf'[c] = stepOf[c]
      BY <2>3, <3>3 DEF TypeInv, IInv
    <3>5. Len(order) = Len(netlist[x]) /\ \E s : /\ IsLoop(t, s, Len(netlist[x]))
                                                 /\ \A w \in Writes(x) : s[Turn(x, w)] = SourceAt(x, w)
      BY <2>3, <3>1, PlaceTimes DEF TypeInv, IInv
    <3>6. TimedCell(x)'
      <4>1. Writes(x)' = Writes(x) /\ Len(netlist'[x]) = Len(netlist[x])
        BY <1>0 DEF Writes
      <4>2. \A w \in Writes(x) : SourceAt(x, w)' = SourceAt(x, w)
        BY <1>0, <2>3, <2>4, <2>5, <3>4 DEF SourceAt
      <4>3. ASSUME NEW w \in Writes(x) PROVE Turn(x, w)' = Turn(x, w)
        <5>1. \A v \in Writes(x) : Before(x, v, w)' <=> Before(x, v, w)
          BY <4>2 DEF Before
        <5>2. {v \in Writes(x) : Before(x, v, w)}' = {v \in Writes(x) : Before(x, v, w)}
          BY <4>1, <5>1
        <5> QED
          BY <5>2 DEF Turn
      <4>4. PICK s : IsLoop(t, s, Len(netlist[x])) /\ \A w \in Writes(x) : s[Turn(x, w)] = SourceAt(x, w)
        BY <3>5
      <4>5. \A w \in Writes(x) : st[w] = t[Turn(x, w)]
        BY <3>2
      <4>6. /\ IsLoop(t, s, Len(netlist'[x])) /\ completion'[x] = t[Len(netlist'[x])]
            /\ \A w \in Writes(x)' : s[Turn(x, w)'] = SourceAt(x, w)' /\ stepOf'[x][w] = t[Turn(x, w)']
        BY <3>2, <3>4, <3>5, <4>1, <4>2, <4>3, <4>4, <4>5
      <4> QED
        BY <4>6 DEF TimedCell
    <3>7. ASSUME NEW c \in Cells, Scheduled(c)', c # x PROVE TimedCell(c)'
      <4>1. Scheduled(c) /\ TimedCell(c)
        BY <3>4, <3>7 DEF TimedInv, Scheduled
      <4>2. ASSUME NEW w \in Writes(c) PROVE completion'[netlist[c][w]] = completion[netlist[c][w]]
        <5>1. netlist[c][w] \in Cells /\ completion[netlist[c][w]] > 0
          BY <2>4, <4>1 DEF IInv, CellInv, SourceAt
        <5> QED
          BY <2>6, <2>3, <3>4, <5>1 DEF IInv, TypeInv
      <4> QED
        BY <1>0, <3>4, <3>7, <4>1, <4>2, TimedStays
    <3> QED
      BY <1>0, <3>6, <3>7 DEF TimedInv
  <2> QED
    BY <1>1, <2>2, <2>6
<1>3. CASE Scan \/ Notify \/ Finish \/ UNCHANGED vars
  BY <1>1, <1>3 DEF Scan, Notify, Finish, vars
<1> QED
  BY <1>2, <1>3 DEF Next

LEMMA TimedHolds == Spec => []TimedInv
BY InitTimed, NextTimed, IInvHolds, PTL DEF Spec

LEMMA StepsRun ==
    ASSUME NEW settled, NEW ins, NEW L \in Nat, L = Len(ins), NEW s, \A k \in 1 .. L : s[k] = At(settled, ins[k])
    PROVE  IsLoop(Steps(settled, ins), s, L)
<1>1. PICK t : IsLoop(t, s, L)
  BY LoopRuns
<1> DEFINE Looped(u) == u = [k \in 0 .. Len(ins) |-> IF k = 0 THEN 1 ELSE MaxOf(At(settled, ins[k]), u[k - 1]) + 1]
<1>2. Looped(t)
  <2>1. t = [r \in 0 .. L |-> IF r = 0 THEN 1 ELSE LaterOf(s[r], t[r - 1]) + 1]
    BY <1>1 DEF IsLoop
  <2>2. \A r \in 0 .. L : LaterOf(s[r], t[r - 1]) = MaxOf(At(settled, ins[r]), t[r - 1]) \/ r = 0
    BY DEF LaterOf, MaxOf
  <2>3. \A r \in 0 .. L : t[r] = IF r = 0 THEN 1 ELSE MaxOf(At(settled, ins[r]), t[r - 1]) + 1
    BY <2>1, <2>2
  <2> QED
    BY <2>1, <2>3
<1>3. Steps(settled, ins) = CHOOSE u : Looped(u)
  BY DEF Steps
<1>4. \E u : Looped(u)
  BY <1>2
<1>5. Looped(Steps(settled, ins))
  <2> HIDE DEF Looped
  <2> QED
    BY <1>3, <1>4, Zenon
<1>6. \A u : Looped(u) => u = [r \in 0 .. L |-> IF r = 0 THEN 1 ELSE LaterOf(s[r], u[r - 1]) + 1]
  <2> TAKE u
  <2>1. SUFFICES ASSUME Looped(u) PROVE u = [r \in 0 .. L |-> IF r = 0 THEN 1 ELSE LaterOf(s[r], u[r - 1]) + 1]
    OBVIOUS
  <2>2. \A r \in 0 .. L : LaterOf(s[r], u[r - 1]) = MaxOf(At(settled, ins[r]), u[r - 1]) \/ r = 0
    BY DEF LaterOf, MaxOf
  <2> QED
    BY <2>1, <2>2
<1> QED
  BY <1>5, <1>6 DEF IsLoop

\* The cell with number m is scheduled like this entry of Schedule.
Agrees(m, cell) ==
    /\ completion[m] = cell.complete
    /\ {<<InsOf(Numbered[m])[w], stepOf[m][w]>> : w \in Writes(m)} =
       {<<cell.writes[k].src, cell.writes[k].step>> : k \in DOMAIN cell.writes}

\* The sources of a cell of the circuit.
LEMMA Sources ==
    ASSUME netlist \in Netlists, netlist = Circuit, NEW m \in Cells
    PROVE  /\ Numbered[m] \in Cell /\ InsOf(Numbered[m]) \in Seq(Source)
           /\ Writes(m) = DOMAIN InsOf(Numbered[m]) /\ Len(netlist[m]) = Len(InsOf(Numbered[m]))
           /\ \A w \in Writes(m) : /\ InsOf(Numbered[m])[w].cell \in Cell
                                   /\ netlist[m][w] \in Cells
                                   /\ Numbered[netlist[m][w]] = InsOf(Numbered[m])[w].cell
<1>1. PICK n \in Nat : n = Len(Numbered) /\ DOMAIN Numbered = 1 .. n /\ \A i \in 1 .. n : Numbered[i] \in Cell
  BY CellsListed, LenProperties DEF Lists, Numbered
<1>2. PICK c : c = Numbered[m]
  OBVIOUS
<1>3. m \in DOMAIN Numbered /\ Cells = DOMAIN Numbered /\ netlist[m] = Wired(c)
  BY <1>2 DEF Cells, Circuit
<1>4. c \in Cell
  BY <1>1, <1>2, <1>3
<1>5. InsOf(c) \in Seq(Source)
  BY <1>4, WiredSources
<1>a. PICK ins \in Seq(Source) : ins = InsOf(c)
  BY <1>5
<1>6. PICK L \in Nat : ins = InsOf(c) /\ L = Len(ins) /\ DOMAIN ins = 1 .. L /\ \A w \in 1 .. L : ins[w] \in Source
  BY <1>a
<1>7. netlist[m] = [w \in 1 .. L |-> NumberOf[ins[w].cell]]
  BY <1>3, <1>6 DEF Wired
<1>8. Writes(m) = 1 .. L /\ Len(netlist[m]) = L
  <2>1. Len(netlist[m]) \in Nat /\ Writes(m) = 1 .. Len(netlist[m])
    BY Wiring
  <2>2. Writes(m) = 1 .. L
    BY <1>7 DEF Writes
  <2>3. \A i, j \in Nat : 1 .. i = 1 .. j => i = j
    <3> TAKE i, j \in Nat
    <3>1. SUFFICES ASSUME 1 .. i = 1 .. j PROVE i = j
      OBVIOUS
    <3>2. \A k \in Nat : (1 <= k /\ k <= i) <=> (1 <= k /\ k <= j)
      BY <3>1
    <3> QED
      BY <3>2
  <2> QED
    BY <2>1, <2>2, <2>3
<1>9. ASSUME NEW d \in Cell PROVE NumberOf[d] \in Cells /\ Numbered[NumberOf[d]] = d
  <2>1. \E i \in DOMAIN Numbered : Numbered[i] = d
    BY <1>1, CellsListed DEF Lists, Numbered
  <2>2. NumberOf[d] = CHOOSE i \in DOMAIN Numbered : Numbered[i] = d
    BY DEF NumberOf
  <2> QED
    BY <1>3, <2>1, <2>2
<1>10. ASSUME NEW w \in Writes(m) PROVE ins[w].cell \in Cell /\ netlist[m][w] = NumberOf[ins[w].cell]
  BY <1>6, <1>7, <1>8 DEF Source
<1> QED
  BY <1>2, <1>4, <1>5, <1>6, <1>8, <1>9, <1>10

\* A cell whose sources agree with `settled' is placed as the next pass of
\* Schedule places it.
LEMMA CellAgrees ==
    ASSUME netlist \in Netlists, netlist = Circuit, NEW m \in Cells, TimedCell(m), NEW settled,
           \A w \in Writes(m) : /\ SourceAt(m, w) \in Nat
                                /\ SourceAt(m, w) = At(settled, InsOf(Numbered[m])[w])
    PROVE  Agrees(m, PlacedAfter(settled, Sorted(settled, InsOf(Numbered[m]))))
<1>a. /\ InsOf(Numbered[m]) \in Seq(Source) /\ Writes(m) = DOMAIN InsOf(Numbered[m])
      /\ Len(netlist[m]) = Len(InsOf(Numbered[m]))
  BY Sources
<1>b. PICK ins \in Seq(Source) : ins = InsOf(Numbered[m])
  BY <1>a
<1>1. PICK L \in Nat : /\ ins = InsOf(Numbered[m]) /\ L = Len(ins) /\ DOMAIN ins = 1 .. L
                       /\ Writes(m) = 1 .. L /\ Len(netlist[m]) = L
  BY <1>a, <1>b
<1>2. \A w \in 1 .. L : SourceAt(m, w) = At(settled, ins[w]) /\ At(settled, ins[w]) \in Nat
  BY <1>1
<1>3. \A w \in 1 .. L : Turn(m, w) = Rank(settled, ins, w)
  <2> TAKE w \in 1 .. L
  <2>1. PICK T, R : /\ T = {v \in Writes(m) : Before(m, v, w)}
                    /\ R = {j \in DOMAIN ins : \/ At(settled, ins[j]) < At(settled, ins[w])
                                               \/ At(settled, ins[j]) = At(settled, ins[w]) /\ j <= w}
    OBVIOUS
  <2>2. \A v \in 1 .. L : v \in T <=> v \in R
    BY <1>1, <1>2, <2>1 DEF Before
  <2>3. T = R
    BY <1>1, <2>1, <2>2
  <2> QED
    BY <2>1, <2>3 DEF Turn, Rank
<1>4. PICK xs : xs = Sorted(settled, ins)
  OBVIOUS
<1>5. /\ DOMAIN xs = 1 .. L /\ xs = [k \in 1 .. L |-> xs[k]]
      /\ \A w \in 1 .. L : Rank(settled, ins, w) \in 1 .. L /\ xs[Rank(settled, ins, w)] = ins[w]
      /\ \A k \in 1 .. L : \E w \in 1 .. L : Rank(settled, ins, w) = k
  <2>1. Timed(settled, ins, L)
    BY <1>1, <1>2 DEF Timed
  <2>2. Shuffles(xs, ins, L) /\ ByRank(xs, settled, ins, L)
    BY <1>4, <2>1, SortedIs
  <2>3. DOMAIN xs = 1 .. L /\ xs = [k \in 1 .. L |-> xs[k]]
    BY <2>2 DEF Shuffles
  <2> QED
    BY <2>2, <2>3 DEF ByRank
<1>6. Len(xs) = L
  <2>1. xs \in [1 .. L -> Range(xs)]
    BY <1>5 DEF Range
  <2> QED
    BY <2>1, IsASeq, LenProperties
<1>7. PICK s, t : /\ IsLoop(t, s, L) /\ completion[m] = t[L]
                  /\ \A w \in 1 .. L : s[Turn(m, w)] = SourceAt(m, w) /\ stepOf[m][w] = t[Turn(m, w)]
  BY <1>1 DEF TimedCell
<1>8. ASSUME NEW k \in 1 .. L PROVE s[k] = At(settled, xs[k])
  <2>1. PICK w \in 1 .. L : Rank(settled, ins, w) = k
    BY <1>5
  <2>2. xs[k] = ins[w] /\ Turn(m, w) = k
    BY <1>3, <1>5, <2>1
  <2> QED
    BY <1>2, <1>7, <2>2
<1>9. PICK u : u = Steps(settled, xs)
  OBVIOUS
<1>10. IsLoop(u, s, L)
  BY <1>6, <1>8, <1>9, StepsRun
<1>11. t = u
  BY <1>7, <1>10, LoopOnce
<1>12. PICK cell : cell = PlacedAfter(settled, xs)
  OBVIOUS
<1>13. cell.complete = u[L] /\ cell.writes = [k \in 1 .. L |-> [src |-> xs[k], step |-> u[k]]]
  BY <1>5, <1>6, <1>9, <1>12 DEF PlacedAfter, Placed
<1>14. DOMAIN cell.writes = 1 .. L /\ \A k \in 1 .. L : cell.writes[k].src = xs[k] /\ cell.writes[k].step = u[k]
  BY <1>13
<1>c. ASSUME NEW w \in 1 .. L, NEW k \in 1 .. L, Rank(settled, ins, w) = k PROVE xs[k] = ins[w] /\ u[k] = stepOf[m][w]
  <2>1. Turn(m, w) = k
    BY <1>3, <1>c
  <2>2. stepOf[m][w] = t[k]
    BY <1>7, <2>1
  <2> QED
    BY <1>5, <1>11, <1>c, <2>2
<1>15. \A w \in 1 .. L : \E k \in 1 .. L : xs[k] = ins[w] /\ u[k] = stepOf[m][w]
  <2> TAKE w \in 1 .. L
  <2>1. PICK k \in 1 .. L : Rank(settled, ins, w) = k
    BY <1>5
  <2> QED
    BY <1>c, <2>1
<1>16. \A k \in 1 .. L : \E w \in 1 .. L : xs[k] = ins[w] /\ u[k] = stepOf[m][w]
  <2> TAKE k \in 1 .. L
  <2>1. PICK w \in 1 .. L : Rank(settled, ins, w) = k
    BY <1>5
  <2> QED
    BY <1>c, <2>1
<1>17. {<<ins[w], stepOf[m][w]>> : w \in 1 .. L} = {<<xs[k], u[k]>> : k \in 1 .. L}
  <2>1. PICK f, g : f = [w \in 1 .. L |-> <<ins[w], stepOf[m][w]>>] /\ g = [k \in 1 .. L |-> <<xs[k], u[k]>>]
    OBVIOUS
  <2>2. ASSUME NEW w \in 1 .. L PROVE \E k \in 1 .. L : f[w] = g[k]
    BY <1>15, <2>1
  <2>3. ASSUME NEW k \in 1 .. L PROVE \E w \in 1 .. L : f[w] = g[k]
    BY <1>16, <2>1
  <2>4. {f[w] : w \in 1 .. L} = {g[k] : k \in 1 .. L}
    <3>1. ASSUME NEW w \in 1 .. L PROVE f[w] \in {g[k] : k \in 1 .. L}
      BY <2>2
    <3>2. ASSUME NEW k \in 1 .. L PROVE g[k] \in {f[w] : w \in 1 .. L}
      <4>1. PICK w \in 1 .. L : f[w] = g[k]
        BY <2>3
      <4> QED
        BY <4>1
    <3> QED
      BY <3>1, <3>2
  <2> QED
    BY <2>1, <2>4
<1>18. {<<xs[k], u[k]>> : k \in 1 .. L} = {<<cell.writes[k].src, cell.writes[k].step>> : k \in DOMAIN cell.writes}
  BY <1>14
<1>19. completion[m] = cell.complete
  BY <1>7, <1>11, <1>13
<1>20. {<<InsOf(Numbered[m])[w], stepOf[m][w]>> : w \in Writes(m)} = {<<ins[w], stepOf[m][w]>> : w \in 1 .. L}
  BY <1>1
<1>21. Agrees(m, cell)
  BY <1>17, <1>18, <1>19, <1>20, Zenon DEF Agrees
<1> QED
  BY <1>1, <1>4, <1>12, <1>21

LEMMA PassesAgree ==
    ASSUME IInv, TimedInv, netlist = Circuit, verdict = "returned", NEW u, AreRounds(u)
    PROVE  \A n \in 0 .. Passes : \A m \in Cells : Numbered[m] \in DOMAIN u[n] => Agrees(m, u[n][Numbered[m]])
<1>0. netlist \in Netlists /\ completion \in [Cells -> Int] /\ Passes \in Nat
  BY DEF IInv, TypeInv, Passes
<1>1. ASSUME NEW m \in Cells PROVE Scheduled(m) /\ TimedCell(m)
  <2>1. Scheduled(m)
    BY DEF IInv, VerdictInv, LoopFound
  <2> QED
    BY <2>1 DEF TimedInv
<1> DEFINE Rung == {n \in 0 .. Passes : \A m \in Cells : Numbered[m] \in DOMAIN u[n] => Agrees(m, u[n][Numbered[m]])}
<1>2. 0 \in Rung
  <2>1. u[0] = [c \in InputCells |-> [complete |-> 1, writes |-> <<>>]]
    BY <1>0 DEF AreRounds
  <2>2. ASSUME NEW m \in Cells, Numbered[m] \in DOMAIN u[0] PROVE Agrees(m, u[0][Numbered[m]])
    <3>1. PICK c : c = Numbered[m]
      OBVIOUS
    <3>2. u[0][c] = [complete |-> 1, writes |-> <<>>] /\ c[2] \in {"a", "b"}
      BY <2>1, <2>2, <3>1 DEF InputCells
    <3>3. InsOf(c) = <<>>
      BY <3>2 DEF InsOf
    <3>4. Writes(m) = {} /\ Len(netlist[m]) = 0
      BY <1>0, <3>1, <3>3, Sources
    <3>5. completion[m] = 1
      <4>1. IsInput(m)
        BY <1>0, <3>4, Wiring
      <4> QED
        BY <4>1 DEF IInv, CellInv
    <3>6. DOMAIN u[0][c].writes = {}
      BY <3>2
    <3>7. u[0][c].complete = 1
      BY <3>2
    <3> QED
      BY <3>1, <3>4, <3>5, <3>6, <3>7 DEF Agrees
  <2> QED
    BY <1>0, <2>2
<1>3. ASSUME NEW n \in 1 .. Passes, n - 1 \in Rung PROVE n \in Rung
  <2>1. PICK settled : settled = u[n - 1]
    OBVIOUS
  <2>2. u[n] = Pass(settled)
    BY <1>0, <2>1 DEF AreRounds
  <2>3. \A m \in Cells : Numbered[m] \in DOMAIN settled => Agrees(m, settled[Numbered[m]])
    BY <1>3, <2>1
  <2>4. ASSUME NEW m \in Cells, Numbered[m] \in DOMAIN u[n] PROVE Agrees(m, u[n][Numbered[m]])
    <3>1. PICK c : c = Numbered[m]
      OBVIOUS
    <3>2. c \in DOMAIN settled \cup ReadyCells(settled)
          /\ u[n][c] = IF c \in ReadyCells(settled) THEN PlacedAfter(settled, Sorted(settled, InsOf(c))) ELSE settled[c]
      BY <2>2, <2>4, <3>1 DEF Pass
    <3>3. CASE c \notin ReadyCells(settled)
      BY <2>3, <3>1, <3>2, <3>3
    <3>4. CASE c \in ReadyCells(settled)
      <4>1. ASSUME NEW w \in Writes(m)
            PROVE  SourceAt(m, w) \in Nat /\ SourceAt(m, w) = At(settled, InsOf(c)[w])
        <5>1. PICK d : d = netlist[m][w]
          OBVIOUS
        <5>2. d \in Cells /\ Numbered[d] = InsOf(c)[w].cell /\ w \in DOMAIN InsOf(c)
          BY <1>0, <3>1, <5>1, Sources
        <5>3. Numbered[d] \in DOMAIN settled
          BY <3>4, <5>2 DEF ReadyCells, Range
        <5>4. completion[d] = settled[Numbered[d]].complete
          BY <2>3, <5>2, <5>3 DEF Agrees
        <5>5. completion[d] \in Nat
          BY <1>0, <1>1, <5>2 DEF Scheduled
        <5> QED
          BY <5>1, <5>2, <5>4, <5>5 DEF SourceAt, At
      <4>2. Agrees(m, PlacedAfter(settled, Sorted(settled, InsOf(c))))
        BY <1>0, <1>1, <3>1, <4>1, CellAgrees
      <4> QED
        BY <3>1, <3>2, <3>4, <4>2
    <3> QED
      BY <3>3, <3>4
  <2> QED
    BY <2>4
<1>4. \A n \in 0 .. Passes : n \in Rung
  <2> HIDE DEF Rung
  <2> QED
    BY <1>0, <1>2, <1>3, Climb
<1> QED
  BY <1>4

\* When the loop of schedule() returns on the netlist of build_lane, it has found the
\* schedule the image is built from, for every word length and number of lanes.
THEOREM ScheduleIsImage == Spec => []MatchesImage
<1>1. IInv /\ TimedInv => MatchesImage
  <2>1. SUFFICES ASSUME IInv, TimedInv, verdict = "returned", netlist = Circuit, NEW m \in Cells
                 PROVE  Agrees(m, Schedule[Numbered[m]])
    BY DEF MatchesImage, Agrees
  <2>2. PICK u : AreRounds(u) /\ Schedule = u[Passes]
    BY ScheduleIs
  <2>3. Numbered[m] \in DOMAIN Schedule
    BY <2>1, ScheduleSettled, Sources DEF IInv, TypeInv
  <2>4. Passes \in 0 .. Passes
    BY DEF Passes
  <2> QED
    BY <2>1, <2>2, <2>3, <2>4, PassesAgree
<1> QED
  BY <1>1, IInvHolds, TimedHolds, PTL

\* The assert of schedule() never fires on the netlist of build_lane, whatever the
\* word length and the number of lanes: a cell left over would wait for another one
\* of lower level.
THEOREM CircuitReturns == Spec => [](netlist = Circuit => verdict # "aborted")
<1>1. IInv /\ netlist = Circuit => verdict # "aborted"
  <2> SUFFICES ASSUME IInv, netlist = Circuit, verdict = "aborted" PROVE FALSE
    OBVIOUS
  <2> DEFINE left == {m \in Cells : ~Scheduled(m)}
             Levels == {Level(Numbered[m]) : m \in left}
  <2>1. netlist \in Netlists
    BY DEF IInv, TypeInv
  <2>2. left # {} /\ \A m \in left : \E w \in Writes(m) : netlist[m][w] \in left
    BY DEF IInv, VerdictInv, LoopFound
  <2>3. \A m \in left : Numbered[m] \in Cell /\ Level(Numbered[m]) \in Nat
    BY <2>1, Sources, LevelBound
  <2>4. PICK x \in Levels : \A y \in Levels : x <= y
    <3>1. Levels \in SUBSET Nat /\ Levels # {}
      BY <2>2, <2>3
    <3> HIDE DEF Levels
    <3> QED
      BY <3>1, Smallest
  <2>5. PICK m \in left : x = Level(Numbered[m])
    BY <2>4
  <2>6. PICK w \in Writes(m) : netlist[m][w] \in left
    BY <2>2, <2>5
  <2>7. PICK c, d : c = Numbered[m] /\ d = Numbered[netlist[m][w]]
    OBVIOUS
  <2>8. c \in Cell /\ w \in DOMAIN InsOf(c) /\ d = InsOf(c)[w].cell
    BY <2>1, <2>5, <2>7, Sources
  <2>9. Level(d) \in Nat /\ Level(c) \in Nat /\ Level(d) < Level(c)
    <3>1. InsOf(c) # <<>> /\ InsOf(c)[w] \in Range(InsOf(c))
      BY <2>8 DEF Range
    <3>2. Fed(InsOf(c), Level(c))
      BY <2>8, <3>1, NetlistFed
    <3> QED
      BY <2>8, <3>1, <3>2, LevelBound DEF Fed, Below, Source
  <2>10. Level(d) \in Levels
    BY <2>6, <2>7
  <2> HIDE DEF left, Levels
  <2> QED
    BY <2>3, <2>4, <2>5, <2>7, <2>9, <2>10
<1> QED
  BY <1>1, IInvHolds, PTL

=============================================================================
