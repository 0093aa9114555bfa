------------------------ MODULE RelaySerializerProofs ------------------------
(***************************************************************************)
(* Theorems about RelaySerializer, for every set of relays, every table of *)
(* groups and every use of the layer.                                      *)
(***************************************************************************)
EXTENDS RelaySerializer, RelayUpperBaseProofs, WellFoundedInduction

(* Induction over the numbers, for sets in place of predicates.             *)
LEMMA SetInduction ==
    ASSUME NEW T, 0 \in T, \A n \in Nat : n \in T => n + 1 \in T
    PROVE  Nat \subseteq T
<1> SUFFICES ASSUME Nat \ T # {} PROVE FALSE
  OBVIOUS
<1> DEFINE R == {ss \in Nat \X Nat : ss[1] < ss[2]}
<1>1. IsWellFoundedOn(R, Nat)
  BY NatLessThanWellFounded DEF OpToRel
<1>2. PICK x \in Nat \ T : \A y \in Nat \ T : <<y, x>> \notin R
  <2>1. (Nat \ T) \subseteq Nat OBVIOUS
  <2> HIDE DEF R
  <2> QED BY <2>1, <1>1, WFMin
<1>3. x # 0 /\ x - 1 \in Nat /\ x - 1 < x
  BY <1>2
<1>4. x - 1 \in T
  BY <1>2, <1>3
<1> QED BY <1>2, <1>3, <1>4

(* What process() does entry by entry exists: a function on 0..n defined    *)
(* from its value before an entry.                                          *)
IsStep(s, n, B) == s \in [B \X (1..n) -> B]
IsRun(f, n, B, b0, s) ==
    f \in [0..n -> B] /\ f[0] = b0 /\ \A i \in 1..n : f[i] = s[<<f[i - 1], i>>]

LEMMA Recursion ==
    ASSUME NEW n \in Nat, NEW B, NEW b0 \in B, NEW s, IsStep(s, n, B)
    PROVE  \E f : IsRun(f, n, B, b0, s)
<1> DEFINE Good(f, k) == /\ f \in [0..k -> B] /\ f[0] = b0
                         /\ \A i \in 1..k : f[i] = s[<<f[i - 1], i>>]
           T == {k \in Nat : k <= n => \E f : Good(f, k)}
<1> USE DEF IsStep
<1>1. 0 \in T
  <2>1. Good([i \in 0..0 |-> b0], 0)
    OBVIOUS
  <2> QED BY <2>1
<1>2. ASSUME NEW k \in Nat, k \in T PROVE k + 1 \in T
  <2>1. SUFFICES ASSUME k + 1 <= n PROVE \E f : Good(f, k + 1)
    OBVIOUS
  <2>2. PICK f : Good(f, k)
    BY <1>2, <2>1
  <2> DEFINE v == s[<<f[k], k + 1>>]
             h == [i \in 0..(k + 1) |-> IF i = k + 1 THEN v ELSE f[i]]
  <2>3. k + 1 \in 1..n /\ f[k] \in B
    BY <2>1, <2>2
  <2>4. v \in B
    BY <2>3
  <2>5. h \in [0..(k + 1) -> B] /\ h[0] = b0 /\ h[k + 1] = v
    BY <2>2, <2>4
  <2>6. \A i \in 0..k : h[i] = f[i]
    OBVIOUS
  <2>7. ASSUME NEW i \in 1..(k + 1) PROVE h[i] = s[<<h[i - 1], i>>]
    <3>1. CASE i = k + 1
      <4>1. h[i - 1] = f[k]
        BY <2>6, <3>1
      <4> HIDE DEF h
      <4> QED BY <2>5, <3>1, <4>1
    <3>2. CASE i # k + 1
      <4>1. i \in 1..k /\ i \in 0..k /\ i - 1 \in 0..k
        BY <3>2
      <4> HIDE DEF h
      <4> QED BY <2>2, <2>6, <4>1
    <3> QED BY <3>1, <3>2
  <2> HIDE DEF h
  <2> QED BY <2>5, <2>7
<1>3. n \in T
  <2> HIDE DEF T
  <2> QED BY <1>1, <1>2, SetInduction
<1> QED BY <1>3 DEF IsRun
-----------------------------------------------------------------------------
(* What process() keeps while it goes through the entries of a group.       *)
BatchType == [load : Nat, taken : SUBSET Relay, delayed : SUBSET Relay]
Entry     == [relay : Relay, on : BOOLEAN, current : Nat]
NoBatch   == [load |-> 0, taken |-> {}, delayed |-> {}]

LEMMA GroupType ==
    ASSUME NEW g \in Offered
    PROVE  /\ g.max \in Nat /\ Len(g.entries) \in Nat
           /\ DOMAIN g.entries = 1..Len(g.entries)
           /\ \A i \in 1..Len(g.entries) :
                 /\ g.entries[i].relay \in Relay /\ g.entries[i].on \in BOOLEAN
                 /\ g.entries[i].current \in Nat
                 /\ g.entries[i] \in Entries(g) /\ g.entries[i] \in Entry
<1> DEFINE n == Len(g.entries)
<1>1. g.max \in Nat /\ g.entries \in Seq(Entry)
  BY OfferedAssumption DEF Entry
<1>2. n \in Nat /\ DOMAIN g.entries = 1..n /\ \A i \in 1..n : g.entries[i] \in Entry
  BY <1>1
<1>3. \A i \in 1..n : g.entries[i] \in Entries(g)
  BY <1>2 DEF Entries
<1>4. \A e \in Entry : e.relay \in Relay /\ e.on \in BOOLEAN /\ e.current \in Nat
  BY DEF Entry
<1> HIDE DEF n
<1> QED BY <1>1, <1>2, <1>3, <1>4 DEF n

LEMMA ConsiderType ==
    ASSUME NEW t, NEW g \in Offered, NEW batch \in BatchType,
           NEW e \in Entry
    PROVE  Consider(t, g, batch, e) \in BatchType
<1>1. e.relay \in Relay /\ e.current \in Nat
  BY DEF Entry
<1>2. [batch EXCEPT !.load = batch.load + e.current,
                    !.taken = batch.taken \cup {e.relay}] \in BatchType
  <2>1. batch.load + e.current \in Nat
    BY <1>1 DEF BatchType
  <2>2. batch.taken \cup {e.relay} \in SUBSET Relay
    BY <1>1 DEF BatchType
  <2> QED BY <2>1, <2>2 DEF BatchType
<1>3. [batch EXCEPT !.delayed = batch.delayed \cup {e.relay}] \in BatchType
  BY <1>1 DEF BatchType
<1> QED BY <1>2, <1>3 DEF Consider

(* The batches of process() after each entry, and the sums of Load.         *)
BatchSteps(t, g, f) ==
    /\ f \in [0..Len(g.entries) -> BatchType]
    /\ f[0] = NoBatch
    /\ \A i \in 1..Len(g.entries) : f[i] = Consider(t, g, f[i - 1], g.entries[i])
    /\ Batch(t, g) = f[Len(g.entries)]
Drawn(l, e) == IF e.relay \in Moving(l, e.on) THEN e.current ELSE 0
LoadSteps(l, g, h) ==
    /\ h \in [0..Len(g.entries) -> Nat]
    /\ h[0] = 0
    /\ \A i \in 1..Len(g.entries) : h[i] = h[i - 1] + Drawn(l, g.entries[i])
    /\ Load(l, g) = h[Len(g.entries)]

LEMMA BatchStepsExist ==
    ASSUME NEW t, NEW g \in Offered
    PROVE  \E f : BatchSteps(t, g, f)
<1> DEFINE n == Len(g.entries)
           s == [x \in BatchType \X (1..n) |-> Consider(t, g, x[1], g.entries[x[2]])]
           F(h) == [i \in 0..n |-> IF i = 0 THEN NoBatch
                                   ELSE Consider(t, g, h[i - 1], g.entries[i])]
           P(h) == h = F(h)
           c == CHOOSE h : P(h)
<1>1. n \in Nat /\ \A i \in 1..n : g.entries[i] \in Entry
  BY GroupType
<1>2. NoBatch \in BatchType
  BY DEF NoBatch, BatchType
<1>3. IsStep(s, n, BatchType)
  BY <1>1, ConsiderType DEF IsStep
<1>4. PICK f : IsRun(f, n, BatchType, NoBatch, s)
  <2> HIDE DEF n, s
  <2>1. n \in Nat
    BY <1>1
  <2> QED BY <1>2, <1>3, <2>1, Recursion
<1>5. \A i \in 1..n : f[i - 1] \in BatchType
  BY <1>1, <1>4 DEF IsRun
<1>6. \A i \in 1..n : f[i] = Consider(t, g, f[i - 1], g.entries[i])
  BY <1>4, <1>5 DEF IsRun
<1>7. P(f)
  <2> HIDE DEF n
  <2> QED BY <1>1, <1>4, <1>6 DEF IsRun
<1>8. P(c)
  <2> HIDE DEF P
  <2> QED BY <1>7
<1>9. Batch(t, g) = c[n]
  BY DEF Batch, NoBatch
<1> HIDE DEF c
<1>10. c[0] = NoBatch /\ \A i \in 1..n : c[i] = Consider(t, g, c[i - 1], g.entries[i])
  <2> HIDE DEF n
  <2> QED BY <1>1, <1>8
<1>11. \A i \in 0..n : c[i] \in BatchType
  <2> DEFINE T == {i \in Nat : i <= n => c[i] \in BatchType}
  <2>1. 0 \in T
    BY <1>2, <1>10
  <2>2. ASSUME NEW i \in Nat, i \in T PROVE i + 1 \in T
    <3>1. SUFFICES ASSUME i + 1 <= n PROVE c[i + 1] \in BatchType
      OBVIOUS
    <3>2. c[i] \in BatchType /\ i + 1 \in 1..n /\ (i + 1) - 1 = i
      BY <1>1, <2>2, <3>1
    <3>3. c[i + 1] = Consider(t, g, c[i], g.entries[i + 1])
      BY <1>10, <3>2
    <3> QED BY <1>1, <3>2, <3>3, ConsiderType
  <2>3. Nat \subseteq T
    <3> HIDE DEF T
    <3> QED BY <2>1, <2>2, SetInduction
  <2> QED BY <1>1, <2>3
<1>12. c \in [0..n -> BatchType]
  <2> HIDE DEF n
  <2>1. c = [i \in 0..n |-> c[i]]
    BY <1>8
  <2> QED BY <1>11, <2>1
<1> QED BY <1>9, <1>10, <1>12 DEF BatchSteps

LEMMA LoadStepsExist ==
    ASSUME NEW l, NEW g \in Offered
    PROVE  \E h : LoadSteps(l, g, h)
<1> DEFINE n == Len(g.entries)
           s == [x \in Nat \X (1..n) |-> x[1] + Drawn(l, g.entries[x[2]])]
           F(h) == [i \in 0..n |-> IF i = 0 THEN 0
                                   ELSE h[i - 1] + Drawn(l, g.entries[i])]
           P(h) == h = F(h)
           c == CHOOSE h : P(h)
<1>1. n \in Nat /\ \A i \in 1..n : Drawn(l, g.entries[i]) \in Nat
  BY GroupType DEF Drawn
<1>3. IsStep(s, n, Nat)
  BY <1>1 DEF IsStep
<1>4. PICK f : IsRun(f, n, Nat, 0, s)
  <2> HIDE DEF n, s
  <2>1. n \in Nat /\ 0 \in Nat
    BY <1>1
  <2> QED BY <1>3, <2>1, Recursion
<1>5. \A i \in 1..n : f[i - 1] \in Nat
  BY <1>1, <1>4 DEF IsRun
<1>6. \A i \in 1..n : f[i] = f[i - 1] + Drawn(l, g.entries[i])
  BY <1>4, <1>5 DEF IsRun
<1>7. P(f)
  <2> HIDE DEF n
  <2> QED BY <1>1, <1>4, <1>6 DEF IsRun
<1>8. P(c)
  <2> HIDE DEF P
  <2> QED BY <1>7
<1>9. Load(l, g) = c[n]
  BY DEF Load, Drawn
<1> HIDE DEF c
<1>10. c[0] = 0 /\ \A i \in 1..n : c[i] = c[i - 1] + Drawn(l, g.entries[i])
  <2> HIDE DEF n
  <2> QED BY <1>1, <1>8
<1>11. \A i \in 0..n : c[i] \in Nat
  <2> DEFINE T == {i \in Nat : i <= n => c[i] \in Nat}
  <2>1. 0 \in T
    BY <1>10
  <2>2. ASSUME NEW i \in Nat, i \in T PROVE i + 1 \in T
    <3>1. SUFFICES ASSUME i + 1 <= n PROVE c[i + 1] \in Nat
      OBVIOUS
    <3>2. c[i] \in Nat /\ i + 1 \in 1..n /\ (i + 1) - 1 = i
      BY <1>1, <2>2, <3>1
    <3>3. c[i + 1] = c[i] + Drawn(l, g.entries[i + 1])
      BY <1>10, <3>2
    <3>4. Drawn(l, g.entries[i + 1]) \in Nat
      BY <1>1, <3>2
    <3> QED BY <3>2, <3>3, <3>4
  <2>3. Nat \subseteq T
    <3> HIDE DEF T
    <3> QED BY <2>1, <2>2, SetInduction
  <2> QED BY <1>1, <2>3
<1>12. c \in [0..n -> Nat]
  <2> HIDE DEF n
  <2>1. c = [i \in 0..n |-> c[i]]
    BY <1>8
  <2> QED BY <1>11, <2>1
<1> QED BY <1>9, <1>10, <1>12 DEF LoadSteps
-----------------------------------------------------------------------------
(* After i entries f[i] keeps within the supply, has every matching relay   *)
(* considered so far taken or delayed, has counted exactly those taken, and *)
(* has no current left for any delayed one.                                 *)
BatchSoFar(t, g, f, i) ==
    /\ f[i].load <= g.max
    /\ \A k \in 1..i :
          /\ Matches(t, g.entries[k]) => g.entries[k].relay \in f[i].taken \cup f[i].delayed
          /\ f[k - 1].load <= f[k].load
          /\ f[k].load # f[k - 1].load =>
                Matches(t, g.entries[k]) /\ g.entries[k].relay \in f[i].taken
    /\ \A r \in f[i].taken : \E k \in 1..i :
          /\ g.entries[k].relay = r /\ Matches(t, g.entries[k])
          /\ f[k].load = f[k - 1].load + g.entries[k].current
    /\ \A r \in f[i].delayed : \E k \in 1..i :
          /\ g.entries[k].relay = r /\ Matches(t, g.entries[k])
          /\ f[i].load + g.entries[k].current > g.max

LEMMA BatchStep ==
    ASSUME NEW t, NEW g \in Offered, NEW f, BatchSteps(t, g, f),
           NEW i \in 0..(Len(g.entries) - 1), BatchSoFar(t, g, f, i)
    PROVE  BatchSoFar(t, g, f, i + 1)
<1> DEFINE n == Len(g.entries)
           e == g.entries[i + 1]
           b == f[i]
           c == f[i + 1]
<1>1. /\ n \in Nat /\ i \in 0..n /\ i + 1 \in 1..n /\ i + 1 \in 0..n /\ (i + 1) - 1 = i
      /\ i \in Nat
  BY GroupType
<1>2. /\ e \in Entry /\ e.current \in Nat /\ g.max \in Nat
      /\ \A k \in 1..n : g.entries[k].current \in Nat
  BY <1>1, GroupType
<1>3. b \in BatchType /\ c \in BatchType /\ c = Consider(t, g, b, e)
  BY <1>1 DEF BatchSteps
<1>4. b.load \in Nat /\ c.load \in Nat
  BY <1>3 DEF BatchType
<1>5. \A k \in 1..(i + 1) : k \in 1..i \/ k = i + 1
  BY <1>1
<1>6. \A k \in 1..i : k \in 1..(i + 1) /\ k \in 1..n
  BY <1>1
<1>7. i + 1 \in 1..(i + 1)
  BY <1>1
<1> HIDE DEF n, b, c, e
<1>8. /\ b.load <= g.max
      /\ \A k \in 1..i :
            /\ Matches(t, g.entries[k]) => g.entries[k].relay \in b.taken \cup b.delayed
            /\ f[k - 1].load <= f[k].load
            /\ f[k].load # f[k - 1].load =>
                  Matches(t, g.entries[k]) /\ g.entries[k].relay \in b.taken
      /\ \A r \in b.taken : \E k \in 1..i :
            /\ g.entries[k].relay = r /\ Matches(t, g.entries[k])
            /\ f[k].load = f[k - 1].load + g.entries[k].current
      /\ \A r \in b.delayed : \E k \in 1..i :
            /\ g.entries[k].relay = r /\ Matches(t, g.entries[k])
            /\ b.load + g.entries[k].current > g.max
  BY DEF BatchSoFar, b
<1>9. \/ ~Matches(t, e) /\ c = b
      \/ e.relay \in b.taken /\ c = b
      \/ /\ Matches(t, e) /\ b.load + e.current <= g.max
         /\ c.load = b.load + e.current
         /\ c.taken = b.taken \cup {e.relay} /\ c.delayed = b.delayed
      \/ /\ Matches(t, e) /\ ~(b.load + e.current <= g.max)
         /\ c.load = b.load /\ c.taken = b.taken
         /\ c.delayed = b.delayed \cup {e.relay}
  BY <1>2, <1>3 DEF Consider, Fits, BatchType
<1>10. c.load <= g.max /\ b.load <= c.load
  BY <1>2, <1>4, <1>8, <1>9
<1>11. b.taken \subseteq c.taken /\ b.delayed \subseteq c.delayed
  BY <1>9
<1>12. ASSUME NEW k \in 1..(i + 1)
       PROVE  /\ Matches(t, g.entries[k]) => g.entries[k].relay \in c.taken \cup c.delayed
              /\ f[k - 1].load <= f[k].load
              /\ f[k].load # f[k - 1].load =>
                    Matches(t, g.entries[k]) /\ g.entries[k].relay \in c.taken
  <2>1. CASE k \in 1..i
    BY <1>8, <1>11, <2>1
  <2>2. CASE k = i + 1
    <3>1. g.entries[k] = e /\ f[k] = c /\ f[k - 1] = b
      BY <1>1, <2>2 DEF e, c, b
    <3>2. Matches(t, e) => e.relay \in c.taken \cup c.delayed
      BY <1>9
    <3>3. c.load # b.load => Matches(t, e) /\ e.relay \in c.taken
      BY <1>9
    <3> QED BY <1>10, <3>1, <3>2, <3>3
  <2> QED BY <1>5, <2>1, <2>2
<1>13. ASSUME NEW r \in c.taken
       PROVE  \E k \in 1..(i + 1) :
                 /\ g.entries[k].relay = r /\ Matches(t, g.entries[k])
                 /\ f[k].load = f[k - 1].load + g.entries[k].current
  <2>1. CASE r \in b.taken
    BY <1>6, <1>8, <2>1
  <2>2. CASE r \notin b.taken
    <3>1. r = e.relay /\ Matches(t, e) /\ c.load = b.load + e.current
      BY <1>9, <2>2
    <3>2. g.entries[i + 1] = e /\ f[i + 1] = c /\ f[(i + 1) - 1] = b
      BY <1>1 DEF e, c, b
    <3> QED BY <1>7, <3>1, <3>2
  <2> QED BY <2>1, <2>2
<1>14. ASSUME NEW r \in c.delayed
       PROVE  \E k \in 1..(i + 1) :
                 /\ g.entries[k].relay = r /\ Matches(t, g.entries[k])
                 /\ c.load + g.entries[k].current > g.max
  <2>1. CASE r \in b.delayed
    <3>1. PICK k \in 1..i : /\ g.entries[k].relay = r /\ Matches(t, g.entries[k])
                            /\ b.load + g.entries[k].current > g.max
      BY <1>8, <2>1
    <3>2. g.entries[k].current \in Nat /\ k \in 1..(i + 1)
      BY <1>2, <1>6
    <3>3. c.load + g.entries[k].current > g.max
      BY <1>2, <1>4, <1>10, <3>1, <3>2
    <3> QED BY <3>1, <3>2, <3>3
  <2>2. CASE r \notin b.delayed
    <3>1. r = e.relay /\ Matches(t, e) /\ c.load = b.load /\ ~(b.load + e.current <= g.max)
      BY <1>9, <2>2
    <3>2. c.load + e.current > g.max
      BY <1>2, <1>4, <3>1
    <3>3. g.entries[i + 1] = e
      BY DEF e
    <3> QED BY <1>7, <3>1, <3>2, <3>3
  <2> QED BY <2>1, <2>2
<1> QED BY <1>10, <1>12, <1>13, <1>14 DEF BatchSoFar, c

LEMMA BatchInduction ==
    ASSUME NEW t, NEW g \in Offered, NEW f, BatchSteps(t, g, f)
    PROVE  BatchSoFar(t, g, f, Len(g.entries))
<1> DEFINE n == Len(g.entries)
           T == {i \in Nat : i <= n => BatchSoFar(t, g, f, i)}
<1>1. n \in Nat /\ g.max \in Nat
  BY GroupType
<1>2. 0 \in T
  <2>1. f[0].load = 0 /\ f[0].taken = {} /\ f[0].delayed = {}
    BY DEF BatchSteps, NoBatch
  <2>2. BatchSoFar(t, g, f, 0)
    BY <1>1, <2>1 DEF BatchSoFar
  <2> QED BY <2>2
<1>3. ASSUME NEW i \in Nat, i \in T PROVE i + 1 \in T
  <2>1. SUFFICES ASSUME i + 1 <= n PROVE BatchSoFar(t, g, f, i + 1)
    OBVIOUS
  <2>2. i \in 0..(n - 1) /\ BatchSoFar(t, g, f, i)
    BY <1>1, <1>3, <2>1
  <2> QED BY <2>2, BatchStep
<1>4. n \in T
  <2> HIDE DEF T, n
  <2> QED BY <1>1, <1>2, <1>3, SetInduction
<1> QED BY <1>4

(* What process() makes of group g: a batch within the supply, in which     *)
(* every matching relay is taken, or delayed for want of current.           *)
LEMMA BatchFacts ==
    ASSUME NEW t, NEW g \in Offered
    PROVE  LET B == Batch(t, g)
           IN  /\ B \in BatchType /\ B.load <= g.max
               /\ \A e \in Entries(g) : Matches(t, e) => e.relay \in B.taken \cup B.delayed
               /\ \A r \in B.taken : \E e \in Entries(g) : e.relay = r /\ Matches(t, e)
               /\ \A r \in B.delayed : \E e \in Entries(g) :
                     e.relay = r /\ Matches(t, e) /\ B.load + e.current > g.max
<1> DEFINE n == Len(g.entries)
<1>1. PICK f : BatchSteps(t, g, f)
  BY BatchStepsExist
<1>2. n \in Nat /\ \A k \in 1..n : g.entries[k] \in Entries(g)
  BY GroupType
<1>3. \A e \in Entries(g) : \E k \in 1..n : e = g.entries[k]
  BY GroupType DEF Entries
<1>4. BatchSoFar(t, g, f, n) /\ Batch(t, g) = f[n] /\ f[n] \in BatchType
  BY <1>1, <1>2, BatchInduction DEF BatchSteps
<1> DEFINE B == f[n]
<1>5. /\ B.load <= g.max
      /\ \A k \in 1..n : Matches(t, g.entries[k]) => g.entries[k].relay \in B.taken \cup B.delayed
      /\ \A r \in B.taken : \E k \in 1..n :
            g.entries[k].relay = r /\ Matches(t, g.entries[k])
      /\ \A r \in B.delayed : \E k \in 1..n :
            /\ g.entries[k].relay = r /\ Matches(t, g.entries[k])
            /\ B.load + g.entries[k].current > g.max
  BY <1>4 DEF BatchSoFar
<1> HIDE DEF B, n
<1>6. \A e \in Entries(g) : Matches(t, e) => e.relay \in B.taken \cup B.delayed
  BY <1>3, <1>5
<1>7. \A r \in B.taken : \E e \in Entries(g) : e.relay = r /\ Matches(t, e)
  BY <1>2, <1>5
<1>8. \A r \in B.delayed : \E e \in Entries(g) :
         e.relay = r /\ Matches(t, e) /\ B.load + e.current > g.max
  BY <1>2, <1>5
<1> QED BY <1>4, <1>5, <1>6, <1>7, <1>8 DEF B

(* The load of a layer on a group is that of a batch at most, and exactly   *)
(* that, if the layer moves none but, or just, the relays the batch took.   *)
LEMMA LoadOfBatch ==
    ASSUME NEW t, NEW g \in Offered, NEW l,
           \A e \in Entries(g) : e.relay \in Moving(l, e.on) =>
               Matches(t, e) /\ e.relay \in Batch(t, g).taken
    PROVE  /\ Load(l, g) <= Batch(t, g).load
           /\ (\A e \in Entries(g) : Matches(t, e) /\ e.relay \in Batch(t, g).taken
                   => e.relay \in Moving(l, e.on))
              => Load(l, g) = Batch(t, g).load
<1> DEFINE n == Len(g.entries)
<1>1. PICK f : BatchSteps(t, g, f)
  BY BatchStepsExist
<1>2. PICK h : LoadSteps(l, g, h)
  BY LoadStepsExist
<1>3. /\ n \in Nat
      /\ \A k \in 1..n : /\ g.entries[k] \in Entries(g) /\ g.entries[k].current \in Nat
                         /\ g.entries[k].on \in BOOLEAN
  BY GroupType
<1>4. /\ BatchSoFar(t, g, f, n) /\ Batch(t, g) = f[n]
      /\ \A i \in 0..n : f[i].load \in Nat
      /\ f[0].load = 0
  <2>1. BatchSoFar(t, g, f, n) /\ Batch(t, g) = f[n]
    BY <1>1, BatchInduction DEF BatchSteps
  <2>2. \A i \in 0..n : f[i] \in BatchType
    BY <1>1 DEF BatchSteps
  <2>3. \A b \in BatchType : b.load \in Nat
    BY DEF BatchType
  <2>4. f[0].load = 0
    BY <1>1 DEF BatchSteps, NoBatch
  <2> QED BY <2>1, <2>2, <2>3, <2>4
<1>5. /\ Load(l, g) = h[n] /\ h[0] = 0 /\ \A i \in 0..n : h[i] \in Nat
      /\ \A i \in 1..n : h[i] = h[i - 1] + Drawn(l, g.entries[i])
  BY <1>2, <1>3 DEF LoadSteps
<1>6. ASSUME NEW k \in 1..n, g.entries[k].relay \in Moving(l, g.entries[k].on)
      PROVE  f[k].load = f[k - 1].load + g.entries[k].current
  <2>1. Matches(t, g.entries[k]) /\ g.entries[k].relay \in f[n].taken
    BY <1>3, <1>4, <1>6
  <2>2. PICK j \in 1..n : /\ g.entries[j].relay = g.entries[k].relay
                          /\ Matches(t, g.entries[j])
                          /\ f[j].load = f[j - 1].load + g.entries[j].current
    BY <1>4, <2>1 DEF BatchSoFar
  <2>3. g.entries[j].on = g.entries[k].on
    BY <1>3, <2>1, <2>2 DEF Matches
  <2>4. j = k
    BY <2>2, <2>3, OneEntryAssumption, GroupType
  <2> QED BY <2>2, <2>4
<1>7. \A k \in 1..n : f[k - 1].load <= f[k].load
  BY <1>4 DEF BatchSoFar
<1> DEFINE Same == \A e \in Entries(g) : Matches(t, e) /\ e.relay \in Batch(t, g).taken
                      => e.relay \in Moving(l, e.on)
<1>8. ASSUME NEW k \in 1..n, Same, g.entries[k].relay \notin Moving(l, g.entries[k].on)
      PROVE  f[k].load = f[k - 1].load
  <2>1. ~(Matches(t, g.entries[k]) /\ g.entries[k].relay \in f[n].taken)
    BY <1>3, <1>4, <1>8
  <2> QED BY <1>4, <2>1 DEF BatchSoFar
<1> DEFINE T == {i \in Nat : i <= n => h[i] <= f[i].load /\ (Same => h[i] = f[i].load)}
<1> HIDE DEF Same
<1>9. 0 \in T
  BY <1>4, <1>5
<1>10. ASSUME NEW i \in Nat, i \in T PROVE i + 1 \in T
  <2>1. SUFFICES ASSUME i + 1 <= n
                 PROVE h[i + 1] <= f[i + 1].load /\ (Same => h[i + 1] = f[i + 1].load)
    OBVIOUS
  <2> DEFINE k == i + 1
             e == g.entries[k]
             d == Drawn(l, e)
             hk == h[k]
             hi == h[i]
             fk == f[k].load
             fi == f[i].load
  <2>2. k \in 1..n /\ i \in 0..n /\ k \in 0..n /\ k - 1 = i
    BY <1>3, <2>1
  <2>3. hi <= fi /\ (Same => hi = fi)
    BY <1>3, <1>10, <2>2
  <2>4. hk = hi + d /\ fi <= fk
    BY <1>5, <1>7, <2>2
  <2>5. hi \in Nat /\ fi \in Nat /\ fk \in Nat /\ e.current \in Nat
    BY <1>3, <1>4, <1>5, <2>2
  <2>6. CASE e.relay \in Moving(l, e.on)
    <3>1. d = e.current
      BY <2>6 DEF Drawn
    <3>2. fk = fi + e.current
      BY <1>6, <2>2, <2>6
    <3> HIDE DEF d, hk, hi, fk, fi, e, k
    <3>3. hk <= fk /\ (Same => hk = fk)
      BY <2>3, <2>4, <2>5, <3>1, <3>2
    <3> QED BY <3>3 DEF hk, fk, k
  <2>7. CASE e.relay \notin Moving(l, e.on)
    <3>1. d = 0
      BY <2>7 DEF Drawn
    <3>2. Same => fk = fi
      BY <1>8, <2>2, <2>7
    <3> HIDE DEF d, hk, hi, fk, fi, e, k
    <3>3. hk <= fk /\ (Same => hk = fk)
      BY <2>3, <2>4, <2>5, <3>1, <3>2
    <3> QED BY <3>3 DEF hk, fk, k
  <2> QED BY <2>6, <2>7
<1>11. n \in T
  <2> HIDE DEF T, n
  <2> QED BY <1>3, <1>9, <1>10, SetInduction
<1>12. h[n] <= f[n].load /\ (Same => h[n] = f[n].load)
  BY <1>11
<1> QED BY <1>4, <1>5, <1>12 DEF Same

(* A layer that moves less draws less, and one that moves nothing nothing.  *)
LEMMA LoadMonotone ==
    ASSUME NEW l, NEW m, NEW g \in Offered,
           \A on \in BOOLEAN : Moving(m, on) \subseteq Moving(l, on)
    PROVE  Load(m, g) <= Load(l, g)
<1> DEFINE n == Len(g.entries)
<1>1. PICK h : LoadSteps(l, g, h)
  BY LoadStepsExist
<1>2. PICK k : LoadSteps(m, g, k)
  BY LoadStepsExist
<1>3. n \in Nat /\ \A i \in 1..n : g.entries[i].current \in Nat /\ g.entries[i].on \in BOOLEAN
  BY GroupType
<1>4. \A i \in 1..n : /\ Drawn(l, g.entries[i]) \in Nat /\ Drawn(m, g.entries[i]) \in Nat
                      /\ Drawn(m, g.entries[i]) <= Drawn(l, g.entries[i])
  BY <1>3 DEF Drawn
<1> DEFINE T == {i \in Nat : i <= n => k[i] <= h[i]}
<1>5. 0 \in T
  BY <1>1, <1>2 DEF LoadSteps
<1>6. ASSUME NEW i \in Nat, i \in T PROVE i + 1 \in T
  <2>1. SUFFICES ASSUME i + 1 <= n PROVE k[i + 1] <= h[i + 1]
    OBVIOUS
  <2>2. i + 1 \in 1..n /\ i \in 0..n /\ (i + 1) - 1 = i
    BY <1>3, <2>1
  <2>3. /\ h[i] \in Nat /\ k[i] \in Nat
        /\ h[i + 1] = h[i] + Drawn(l, g.entries[i + 1])
        /\ k[i + 1] = k[i] + Drawn(m, g.entries[i + 1])
    BY <1>1, <1>2, <2>2 DEF LoadSteps
  <2>4. k[i] <= h[i]
    BY <1>3, <1>6, <2>2
  <2> QED BY <1>4, <2>2, <2>3, <2>4
<1>7. n \in T
  <2> HIDE DEF T, n
  <2> QED BY <1>3, <1>5, <1>6, SetInduction
<1> QED BY <1>1, <1>2, <1>7 DEF LoadSteps

LEMMA NoLoad ==
    ASSUME NEW l, NEW g \in Offered, ~LayerBusy(l)
    PROVE  Load(l, g) = 0
<1> DEFINE n == Len(g.entries)
<1>1. PICK h : LoadSteps(l, g, h)
  BY LoadStepsExist
<1>2. \A on \in BOOLEAN : Moving(l, on) = {}
  BY DEF LayerBusy, Busy, Moving
<1>3. n \in Nat /\ \A i \in 1..n : Drawn(l, g.entries[i]) = 0
  BY <1>2, GroupType DEF Drawn
<1> DEFINE T == {i \in Nat : i <= n => h[i] = 0}
<1>4. 0 \in T
  BY <1>1 DEF LoadSteps
<1>5. ASSUME NEW i \in Nat, i \in T PROVE i + 1 \in T
  <2>1. SUFFICES ASSUME i + 1 <= n PROVE h[i + 1] = 0
    OBVIOUS
  <2>2. i + 1 \in 1..n /\ (i + 1) - 1 = i /\ i <= n
    BY <1>3, <2>1
  <2>3. h[i + 1] = h[i] + Drawn(l, g.entries[i + 1])
    BY <1>1, <2>2 DEF LoadSteps
  <2> QED BY <1>3, <1>5, <2>2, <2>3
<1>6. n \in T
  <2> HIDE DEF T, n
  <2> QED BY <1>3, <1>4, <1>5, SetInduction
<1> QED BY <1>1, <1>6 DEF LoadSteps
-----------------------------------------------------------------------------
(* A relay and direction is in one group only, which addGroup ensures.      *)
GroupsApart ==
    \A g, h \in groups : \A e \in Entries(g) : \A d \in Entries(h) :
        e.relay = d.relay /\ e.on = d.on => g = h

(* What is delayed still has to be switched, when the lower layer is done.  *)
StillDiffers(u, l) == \A r \in u.dirty : ~(r \in Goal(l) <=> r \in u.target)

(* The inductive invariant for a client that leaves the layer to its job.   *)
SupplyInv ==
    /\ Unforced => ~up.bypass /\ StillDiffers(up, layer)
    /\ SupplyNotOverloaded

(* The four situations of a disciplined client: it has its idle(); a forced *)
(* request is under way; a request waits for the idle timer; the batches of *)
(* a request are under way, and but for the delayed relays the lower layer  *)
(* gets to where the client wanted it.                                      *)
AtRest(u, l, w) ==
    /\ ~u.timer /\ ~u.bypass /\ ~u.started /\ u.enable = {} /\ u.dirty = {}
    /\ ~l.armed /\ ~LayerBusy(l) /\ l.state = w
Forcing(u, l, w) ==
    /\ ~u.timer /\ u.bypass /\ ~u.started /\ u.enable = {} /\ u.dirty = {}
    /\ l.armed /\ Goal(l) = w
Waiting(u, l, w) ==
    /\ u.timer /\ ~u.bypass /\ ~u.started /\ u.dirty = {}
    /\ ~l.armed /\ ~LayerBusy(l) /\ Target(l.state, u.enable, u.set) = w
Switching(u, l, w) ==
    /\ ~u.timer /\ ~u.bypass /\ u.started /\ u.enable = {} /\ u.target = w
    /\ l.armed /\ \A r \in Relay \ u.dirty : r \in Goal(l) <=> r \in w
SwitchInv ==
    Disciplined => \/ idles > 0 /\ AtRest(up, layer, wanted)
                   \/ idles = 0 /\ \/ Forcing(up, layer, wanted)
                                   \/ Waiting(up, layer, wanted)
                                   \/ Switching(up, layer, wanted)
-----------------------------------------------------------------------------
(* What holds however the layer is used.                                    *)
UpType == [enable : SUBSET Relay, set : SUBSET Relay, dirty : SUBSET Relay,
           target : SUBSET Relay, timer : BOOLEAN, bypass : BOOLEAN, started : BOOLEAN]
SerializerInv == TypeOK /\ OwesIdle(layer) /\ NoWorkStranded /\ GroupsApart

LEMMA UpField ==
    ASSUME NEW u \in UpType
    PROVE  /\ \A b \in BOOLEAN : /\ [u EXCEPT !.timer = b] \in UpType
                                /\ [u EXCEPT !.bypass = b] \in UpType
                                /\ [u EXCEPT !.started = b] \in UpType
           /\ \A D \in SUBSET Relay : [u EXCEPT !.dirty = D] \in UpType
BY DEF UpType

LEMMA NewTransaction ==
    ASSUME NEW u \in UpType, NEW st \in SUBSET Relay, NEW t, t = StartNextTransaction(u, st)
    PROVE  /\ t \in UpType
           /\ t.timer = u.timer /\ t.bypass = u.bypass /\ t.started = u.started
           /\ t.dirty = {} => t.enable = {}
           /\ \/ t = u
              \/ /\ u.dirty = {} /\ t.enable = {}
                 /\ t.target = Target(st, u.enable, u.set)
                 /\ t.dirty = Differing(st, u.enable, u.set)
<1>1. Target(st, u.enable, u.set) \in SUBSET Relay
  BY DEF Target, UpType
<1>2. Differing(st, u.enable, u.set) \in SUBSET Relay
  BY DEF Differing, UpType
<1> QED BY <1>1, <1>2 DEF StartNextTransaction, UpType

(* process(): without anything left to do nothing changes below, else the   *)
(* lower layer owes an idle().                                              *)
LEMMA ProcessStep ==
    ASSUME NEW u \in UpType, NEW l \in Layer, groups \subseteq Offered,
           NEW p, p = SerializerProcess(u, l)
    PROVE  /\ p.up \in UpType /\ p.low \in Layer /\ p.started \in BOOLEAN
           /\ p.up.timer = u.timer /\ p.up.bypass = u.bypass
           /\ p.started => p.low.armed /\ p.low.state = l.state /\ p.low.dirty = l.dirty
           /\ ~p.started => p.low = l /\ p.up.enable = {} /\ p.up.dirty = {}
<1> DEFINE t == StartNextTransaction(u, l.state)
           D == Delayed(t)
           q == Requested(l, t.dirty \ D, t.target, FALSE)
<1>1. /\ t \in UpType /\ t.timer = u.timer /\ t.bypass = u.bypass
      /\ t.dirty = {} => t.enable = {}
  <2>1. l.state \in SUBSET Relay
    BY DEF Layer
  <2> QED BY <2>1, NewTransaction
<1>2. D \in SUBSET Relay
  <2>1. \A g \in groups : Batch(t, g) \in BatchType
    <3> HIDE DEF t
    <3> QED BY BatchFacts
  <2>2. \A g \in groups : Batch(t, g).delayed \subseteq Relay
    BY <2>1 DEF BatchType
  <2> HIDE DEF t
  <2> QED BY <2>2 DEF Delayed
<1>3. t.dirty \ D \in SUBSET Relay
  BY <1>1 DEF UpType
<1>4. q \in Layer /\ q.armed /\ q.state = l.state /\ q.dirty = l.dirty
  <2> HIDE DEF t, D
  <2> QED BY <1>3, RequestedType
<1>5. p = IF t.dirty = {} THEN [up |-> t, low |-> l, started |-> FALSE]
          ELSE [up |-> [t EXCEPT !.dirty = D], low |-> q, started |-> TRUE]
  BY DEF SerializerProcess
<1> HIDE DEF t, D, q
<1>6. /\ [t EXCEPT !.dirty = D] \in UpType
      /\ [t EXCEPT !.dirty = D].timer = t.timer /\ [t EXCEPT !.dirty = D].bypass = t.bypass
  BY <1>1, <1>2 DEF UpType
<1>7. CASE t.dirty = {}
  <2>1. p.up = t /\ p.low = l /\ p.started = FALSE
    BY <1>5, <1>7
  <2> QED BY <1>1, <1>7, <2>1
<1>8. CASE t.dirty # {}
  <2>1. p.up = [t EXCEPT !.dirty = D] /\ p.low = q /\ p.started = TRUE
    BY <1>5, <1>8
  <2> QED BY <1>1, <1>4, <1>6, <2>1
<1> QED BY <1>7, <1>8

(* startSetMulti leaves something to come: the idle timer, or the idle() of *)
(* the lower layer.                                                         *)
LEMMA SetMultiStep ==
    ASSUME NEW u \in UpType, NEW l \in Layer, NEW E \in SUBSET Relay, NEW S \in SUBSET E,
           NEW force \in BOOLEAN, NEW s, s = SetMulti(u, l, E, S, force)
    PROVE  /\ s.up \in UpType /\ s.low \in Layer
           /\ OwesIdle(l) => OwesIdle(s.low)
           /\ s.up.timer \/ s.low.armed
           /\ s.low = l \/ s.low.armed
<1>1. CASE force
  <2>1. s.up = [u EXCEPT !.bypass = TRUE] /\ s.low = Requested(l, E, S, TRUE)
    BY <1>1 DEF SetMulti, Bypassed
  <2>2. s.low \in Layer /\ s.low.armed
    <3>1. TRUE \in BOOLEAN
      OBVIOUS
    <3>2. Requested(l, E, S, TRUE) \in Layer /\ Requested(l, E, S, TRUE).armed
      BY <3>1, RequestedType
    <3> QED BY <2>1, <3>2
  <2> QED BY <2>1, <2>2, UpField DEF OwesIdle
<1>2. CASE ~force
  <2> DEFINE changed == Changing(l.state, E, S, FALSE)
             next    == SetNext(u.set, changed, S)
  <2>1. changed \in SUBSET Relay
    BY DEF Changing
  <2>2. next \in SUBSET Relay
    <3> HIDE DEF changed
    <3> QED BY <2>1 DEF SetNext, UpType
  <2>3. /\ s.up = [u EXCEPT !.enable = u.enable \cup changed, !.set = next, !.timer = TRUE]
        /\ s.low = l
    BY <1>2 DEF SetMulti, Collected
  <2> HIDE DEF changed, next
  <2>4. s.up \in UpType /\ s.up.timer
    BY <2>1, <2>2, <2>3 DEF UpType
  <2> QED BY <2>3, <2>4
<1> QED BY <1>1, <1>2

LEMMA FoundType ==
    ASSUME SerializerInv, NEW f \in Found
    PROVE  /\ f.up \in UpType /\ f.low \in Layer /\ OwesIdle(f.low)
           /\ f.idles \in 0..2 /\ f.wanted \subseteq Relay
<1> DEFINE u == [up EXCEPT !.bypass = FALSE]
<1>1. u \in UpType /\ layer \in Layer /\ idles \in 0..2 /\ wanted \subseteq Relay
  BY UpField DEF SerializerInv, TypeOK, UpType
<1>2. use.replies \subseteq Relay /\ use.forces \subseteq BOOLEAN
  BY UsesAssumption DEF SerializerInv, TypeOK
<1>3. Emit(idles, 1) \in 0..2
  BY <1>1, EmitType
<1>4. PICK l \in Outcomes(layer) :
         \/ f = [up |-> u, low |-> l, wanted |-> wanted,
                 idles |-> IF up.bypass THEN Emit(idles, 1) ELSE idles]
         \/ \E E \in SUBSET use.replies, force \in use.forces :
              \E S \in SUBSET E : f = RequestInSlot(l, E, S, force)
  BY FoundCases
<1>5. l \in Layer /\ OwesIdle(l)
  BY <1>1, OutcomeType
<1> HIDE DEF u
<1>6. CASE f = [up |-> u, low |-> l, wanted |-> wanted,
               idles |-> IF up.bypass THEN Emit(idles, 1) ELSE idles]
  BY <1>1, <1>3, <1>5, <1>6
<1>7. ASSUME NEW E \in SUBSET use.replies, NEW force \in use.forces, NEW S \in SUBSET E,
             f = RequestInSlot(l, E, S, force)
      PROVE  /\ f.up \in UpType /\ f.low \in Layer /\ OwesIdle(f.low)
             /\ f.idles \in 0..2 /\ f.wanted \subseteq Relay
  <2> DEFINE s == SetMulti(u, l, E, S, force)
             w == Target(wanted, E, S)
  <2>1. E \in SUBSET Relay /\ force \in BOOLEAN
    BY <1>2
  <2>2. s.up \in UpType /\ s.low \in Layer /\ OwesIdle(s.low)
    <3> HIDE DEF s
    <3> QED BY <1>1, <1>5, <2>1, SetMultiStep DEF s
  <2>3. w \subseteq Relay
    BY <1>1, <2>1 DEF Target
  <2>4. f = [up |-> s.up, low |-> s.low, wanted |-> w, idles |-> 0]
    BY <1>7 DEF RequestInSlot, u
  <2> HIDE DEF s, w
  <2> QED BY <2>2, <2>3, <2>4
<1> QED BY <1>4, <1>6, <1>7, Zenon

LEMMA InitSerializerInv == SerializerInit => SerializerInv
<1> SUFFICES ASSUME SerializerInit PROVE SerializerInv
  OBVIOUS
<1>1. layer \in Layer /\ OwesIdle(layer)
  BY InitLayerType DEF SerializerInit
<1>2. use.started \in BOOLEAN
  BY UsesAssumption DEF SerializerInit
<1>3. TypeOK
  BY <1>1, <1>2 DEF SerializerInit, TypeOK
<1>4. NoWorkStranded /\ GroupsApart
  BY DEF SerializerInit, NoWorkStranded, Busy, GroupsApart
<1> QED BY <1>1, <1>3, <1>4 DEF SerializerInv

(* What every step has to leave: the groups are dealt with by GroupAdded.   *)
StepType ==
    /\ layer' \in Layer /\ OwesIdle(layer')
    /\ up' \in UpType /\ (Busy(up'.enable, up'.dirty) => up'.timer \/ layer'.armed)
    /\ idles' \in 0..2 /\ wanted' \subseteq Relay

LEMMA StepTypeSuffices ==
    ASSUME SerializerInv, StepType, UNCHANGED <<use, groups>>
    PROVE  SerializerInv'
BY DEF SerializerInv, StepType, TypeOK, NoWorkStranded, GroupsApart, UpType

LEMMA RunProcessType ==
    ASSUME SerializerInv, NEW u \in UpType, NEW l \in Layer, OwesIdle(l),
           NEW p, p = SerializerProcess(u, l), NEW count \in 0..2, RunProcess(p, count),
           wanted' \subseteq Relay
    PROVE  StepType
<1>1. /\ p.up \in UpType /\ p.low \in Layer /\ p.started \in BOOLEAN
      /\ p.started => p.low.armed
      /\ ~p.started => p.low = l /\ p.up.enable = {} /\ p.up.dirty = {}
  <2>1. groups \subseteq Offered
    BY DEF SerializerInv, TypeOK
  <2> QED BY <2>1, ProcessStep
<1>2. up' = [p.up EXCEPT !.started = p.started] /\ layer' = p.low
      /\ idles' = IF p.started THEN count ELSE Emit(count, 1)
  BY DEF RunProcess
<1>3. up' \in UpType /\ up'.enable = p.up.enable /\ up'.dirty = p.up.dirty
  BY <1>1, <1>2 DEF UpType
<1>4. idles' \in 0..2
  BY <1>2, EmitType
<1>5. OwesIdle(layer') /\ (Busy(up'.enable, up'.dirty) => layer'.armed)
  BY <1>1, <1>2, <1>3 DEF OwesIdle, Busy
<1> QED BY <1>1, <1>2, <1>3, <1>4, <1>5 DEF StepType

LEMMA RequestType ==
    ASSUME SerializerInv, NEW E \in SUBSET Relay, NEW S \in SUBSET E, NEW force \in BOOLEAN,
           UpperStartSetMulti(E, S, force)
    PROVE  SerializerInv'
<1> DEFINE s == SetMulti(up, layer, E, S, force)
<1>1. up \in UpType /\ layer \in Layer /\ OwesIdle(layer) /\ wanted \subseteq Relay
  BY DEF SerializerInv, TypeOK, UpType
<1>2. s.up \in UpType /\ s.low \in Layer /\ OwesIdle(s.low) /\ (s.up.timer \/ s.low.armed)
  <2> HIDE DEF s
  <2> QED BY <1>1, SetMultiStep DEF s
<1>3. up' = s.up /\ layer' = s.low /\ idles' = 0 /\ wanted' = Target(wanted, E, S)
  BY DEF UpperStartSetMulti
<1>4. Target(wanted, E, S) \subseteq Relay
  BY <1>1 DEF Target
<1>5. StepType
  <2> HIDE DEF s
  <2> QED BY <1>2, <1>3, <1>4 DEF StepType
<1> QED BY <1>5, StepTypeSuffices DEF UpperStartSetMulti

LEMMA TimerType ==
    ASSUME SerializerInv, IdleTimerFires
    PROVE  SerializerInv'
<1> DEFINE p == SerializerProcess(TimerFired, layer)
<1>1. up \in UpType /\ layer \in Layer /\ OwesIdle(layer) /\ wanted \subseteq Relay
      /\ idles \in 0..2
  BY DEF SerializerInv, TypeOK, UpType
<1>2. TimerFired \in UpType
  BY <1>1, UpField DEF TimerFired
<1>3. CASE LayerBusy(layer)
  <2>1. up' = TimerFired /\ UNCHANGED <<layer, idles, wanted>>
    BY <1>3 DEF IdleTimerFires, OnIdleTimer
  <2>2. StepType
    BY <1>1, <1>2, <1>3, <2>1 DEF StepType, OwesIdle
  <2> QED BY <2>2, StepTypeSuffices DEF IdleTimerFires, OnIdleTimer
<1>4. CASE ~LayerBusy(layer)
  <2>1. RunProcess(p, idles) /\ wanted' = wanted
    BY <1>4 DEF IdleTimerFires, OnIdleTimer
  <2>2. StepType
    <3> HIDE DEF p
    <3> QED BY <1>1, <1>2, <2>1, RunProcessType DEF p
  <2> QED BY <2>2, StepTypeSuffices DEF IdleTimerFires, OnIdleTimer
<1> QED BY <1>3, <1>4

LEMMA GoesOnType ==
    ASSUME SerializerInv, LowLayerGoesOn
    PROVE  SerializerInv'
<1>1. layer \in Layer /\ layer' \in Outcomes(layer) /\ layer'.armed
  BY DEF LowLayerGoesOn, SerializerInv, TypeOK
<1>2. layer' \in Layer /\ OwesIdle(layer')
  BY <1>1, OutcomeType
<1>3. StepType
  BY <1>1, <1>2 DEF StepType, LowLayerGoesOn, SerializerInv, TypeOK, UpType
<1> QED BY <1>3, StepTypeSuffices DEF LowLayerGoesOn

LEMMA LowIdleType ==
    ASSUME SerializerInv, NEW f \in Found,
           OnLowLayerIdle(f, SerializerProcess(f.up, f.low))
    PROVE  SerializerInv'
<1> DEFINE p == SerializerProcess(f.up, f.low)
<1>1. /\ f.up \in UpType /\ f.low \in Layer /\ OwesIdle(f.low)
      /\ f.idles \in 0..2 /\ f.wanted \subseteq Relay
  BY FoundType
<1>2. CASE UpBusy(f.up)
  <2>1. RunProcess(p, f.idles) /\ wanted' = f.wanted
    BY <1>2 DEF OnLowLayerIdle
  <2>2. StepType
    <3> HIDE DEF p
    <3> QED BY <1>1, <2>1, RunProcessType DEF p
  <2> QED BY <2>2, StepTypeSuffices DEF OnLowLayerIdle
<1>3. CASE ~UpBusy(f.up)
  <2>1. up' = f.up /\ layer' = f.low /\ idles' = f.idles /\ wanted' = f.wanted
    BY <1>3 DEF OnLowLayerIdle
  <2>2. ~Busy(f.up.enable, f.up.dirty)
    BY <1>3 DEF UpBusy
  <2>3. StepType
    BY <1>1, <2>1, <2>2 DEF StepType
  <2> QED BY <2>3, StepTypeSuffices DEF OnLowLayerIdle
<1> QED BY <1>2, <1>3

LEMMA DirectType ==
    ASSUME SerializerInv, NEW E \in SUBSET use.direct, NEW S \in SUBSET E,
           NEW force \in use.forces, DirectRequest(E, S, force)
    PROVE  SerializerInv'
<1>1. E \in SUBSET Relay /\ force \in BOOLEAN /\ layer \in Layer
  BY UsesAssumption DEF SerializerInv, TypeOK
<1>2. layer' \in Layer /\ layer'.armed
  BY <1>1, RequestedType DEF DirectRequest
<1>3. StepType
  BY <1>2 DEF StepType, OwesIdle, DirectRequest, SerializerInv, TypeOK, UpType
<1> QED BY <1>3, StepTypeSuffices DEF DirectRequest

LEMMA ReconnectType ==
    ASSUME SerializerInv, Reconnect
    PROVE  SerializerInv'
<1>1. layer' \in Layer /\ OwesIdle(layer')
  BY InitLayerType DEF Reconnect, SetLowLayer, SerializerInv, TypeOK
<1>2. up' \in UpType /\ up'.enable = {} /\ up'.dirty = {}
  BY DEF Reconnect, SetLowLayer, ClearedMasks, SerializerInv, TypeOK, UpType
<1>3. wanted' \subseteq Relay /\ idles' \in 0..2
  BY <1>1 DEF Reconnect, SetLowLayer, SerializerInv, TypeOK, Layer
<1>4. StepType
  BY <1>1, <1>2, <1>3 DEF StepType, Busy
<1> QED BY <1>4, StepTypeSuffices DEF Reconnect, SetLowLayer

(* addGroup keeps the groups apart because a group is checked against all   *)
(* entries of those before it.                                              *)
LEMMA AddedType ==
    ASSUME SerializerInv, GroupAdded
    PROVE  SerializerInv'
<1>1. PICK g \in Offered :
         groups' = groups \cup ({g} \cap {h \in Offered : Suppliable(h)})
  BY DEF GroupAdded, AddGroup
<1>2. UNCHANGED <<layer, use, up, idles, wanted>>
  BY DEF GroupAdded, AddGroup
<1>3. CASE ~Suppliable(g)
  <2>1. groups' = groups
    BY <1>1, <1>3
  <2> QED BY <1>2, <2>1 DEF SerializerInv, TypeOK, NoWorkStranded, GroupsApart
<1>4. CASE Suppliable(g)
  <2>1. groups' = groups \cup {g}
    BY <1>1, <1>4
  <2>2. \A e \in Entries(g) : e.current <= g.max
    BY <1>4 DEF Suppliable
  <2>3. TypeOK'
    BY <1>2, <2>1, <2>2 DEF SerializerInv, TypeOK
  <2>4. \A e \in Entries(g), h \in groups : \A d \in Entries(h) :
           ~(e.relay = d.relay /\ e.on = d.on)
    BY <1>4 DEF Suppliable, Inserted
  <2>5. GroupsApart'
    BY <2>1, <2>4 DEF SerializerInv, GroupsApart
  <2> QED BY <1>2, <2>3, <2>5 DEF SerializerInv, NoWorkStranded
<1> QED BY <1>3, <1>4

LEMMA SerializerStep == SerializerInv /\ [SerializerNext]_upperVars => SerializerInv'
<1> SUFFICES ASSUME SerializerInv, [SerializerNext]_upperVars PROVE SerializerInv'
  OBVIOUS
<1>1. CASE UpperRequests
  <2>1. use.forces \subseteq BOOLEAN
    BY UsesAssumption DEF SerializerInv, TypeOK
  <2> QED BY <1>1, <2>1, RequestType, AskedRelays DEF SerializerInv, TypeOK
<1>2. CASE DirectRequests
  BY <1>2, DirectType DEF DirectRequests
<1>3. CASE IdleTimerFires
  BY <1>3, TimerType
<1>4. CASE LowLayerGoesOn
  BY <1>4, GoesOnType
<1>5. CASE LowLayerIdles
  BY <1>5, LowIdleType DEF LowLayerIdles
<1>6. CASE Reconnect
  BY <1>6, ReconnectType
<1>7. CASE GroupAdded
  BY <1>7, AddedType
<1>8. CASE UNCHANGED upperVars
  BY <1>8 DEF upperVars, SerializerInv, TypeOK, NoWorkStranded, GroupsApart
<1> QED BY <1>1, <1>2, <1>3, <1>4, <1>5, <1>6, <1>7, <1>8 DEF SerializerNext, LowLayerStep

LEMMA SerializerInvariant == SerializerSpec => []SerializerInv
BY InitSerializerInv, SerializerStep, PTL DEF SerializerSpec

(* The masks stay within the relays, and every group accepted can be        *)
(* supplied relay by relay.                                                 *)
THEOREM SerializerTypeCorrect == SerializerSpec => []TypeOK
<1>1. SerializerInv => TypeOK
  BY DEF SerializerInv
<1> QED BY <1>1, SerializerInvariant, PTL

(* However the layer is used, whatever is left to do in it, something is    *)
(* under way that makes process() run again.                                *)
THEOREM NothingStranded == SerializerSpec => []NoWorkStranded
<1>1. SerializerInv => NoWorkStranded
  BY DEF SerializerInv
<1> QED BY <1>1, SerializerInvariant, PTL
-----------------------------------------------------------------------------
(* One more batch of what the client wants, or nothing left of it.          *)
LEMMA ProcessSwitches ==
    ASSUME NEW u \in UpType, NEW l \in Layer, ~LayerBusy(l), groups \subseteq Offered,
           NEW w \in SUBSET Relay, NEW p, p = SerializerProcess(u, l),
           \/ u.dirty = {} /\ Target(l.state, u.enable, u.set) = w
           \/ u.enable = {} /\ u.target = w /\ \A r \in Relay \ u.dirty : r \in l.state <=> r \in w
    PROVE  /\ ~p.started => l.state = w
           /\ p.started => /\ p.up.enable = {} /\ p.up.target = w
                          /\ \A r \in Relay \ p.up.dirty : r \in Goal(p.low) <=> r \in w
<1> DEFINE t == StartNextTransaction(u, l.state)
           D == Delayed(t)
           q == Requested(l, t.dirty \ D, t.target, FALSE)
<1>1. /\ l.state \in SUBSET Relay /\ l.enable = {}
  BY DEF Layer, LayerBusy, Busy
<1>2. /\ t \in UpType
      /\ t.dirty = {} => t.enable = {}
      /\ \/ t = u
         \/ /\ u.dirty = {} /\ t.enable = {}
            /\ t.target = Target(l.state, u.enable, u.set)
            /\ t.dirty = Differing(l.state, u.enable, u.set)
  BY <1>1, NewTransaction
<1>3. p = IF t.dirty = {} THEN [up |-> t, low |-> l, started |-> FALSE]
          ELSE [up |-> [t EXCEPT !.dirty = D], low |-> q, started |-> TRUE]
  BY DEF SerializerProcess
<1>4. Goal(q) = (l.state \ (t.dirty \ D)) \cup (t.target \cap (t.dirty \ D))
  <2> HIDE DEF t, D
  <2>1. t.dirty \ D \in SUBSET Relay
    BY <1>2 DEF UpType
  <2> QED BY <1>1, <2>1, RequestedGoal
<1> HIDE DEF t, D, q
<1>5. ASSUME NEW r \in Relay, r \notin t.dirty PROVE r \in l.state <=> r \in w
  <2>1. CASE u.enable = {} /\ u.target = w /\ \A x \in Relay \ u.dirty : x \in l.state <=> x \in w
    <3>1. t = u
      BY <1>2, <2>1 DEF Differing, StartNextTransaction, t
    <3> QED BY <1>5, <2>1, <3>1
  <2>2. CASE u.dirty = {} /\ Target(l.state, u.enable, u.set) = w
    <3>1. CASE u.enable = {}
      BY <2>2, <3>1 DEF Target
    <3>2. CASE u.enable # {}
      <4>1. t.dirty = Differing(l.state, u.enable, u.set)
        BY <2>2, <3>2 DEF StartNextTransaction, t, UpType
      <4> QED BY <1>5, <2>2, <4>1, DifferingTarget
    <3> QED BY <3>1, <3>2
  <2> QED BY <2>1, <2>2
<1>6. ASSUME t.dirty # {} PROVE t.enable = {} /\ t.target = w
  <2>1. CASE u.enable = {} /\ u.target = w
    BY <2>1, <1>6 DEF StartNextTransaction, t
  <2>2. CASE u.dirty = {} /\ Target(l.state, u.enable, u.set) = w
    BY <1>2, <1>6, <2>2
  <2> QED BY <2>1, <2>2
<1>7. CASE t.dirty = {}
  <2>1. p.started = FALSE
    BY <1>3, <1>7
  <2>2. l.state = w
    BY <1>1, <1>5, <1>7
  <2> QED BY <2>1, <2>2
<1>8. CASE t.dirty # {}
  <2>1. p.up = [t EXCEPT !.dirty = D] /\ p.low = q /\ p.started = TRUE
    BY <1>3, <1>8
  <2>2. p.up.dirty = D /\ p.up.enable = t.enable /\ p.up.target = t.target
    BY <1>2, <2>1 DEF UpType
  <2>3. \A r \in Relay \ D : r \in Goal(q) <=> r \in w
    BY <1>4, <1>5, <1>6, <1>8
  <2> QED BY <1>6, <1>8, <2>1, <2>2, <2>3
<1> QED BY <1>7, <1>8

LEMMA RunProcessSwitches ==
    ASSUME SerializerInv, NEW u \in UpType, NEW l \in Layer, ~LayerBusy(l), ~l.armed,
           NEW w \in SUBSET Relay, NEW p, p = SerializerProcess(u, l),
           \/ u.dirty = {} /\ Target(l.state, u.enable, u.set) = w
           \/ u.enable = {} /\ u.target = w /\ \A r \in Relay \ u.dirty : r \in l.state <=> r \in w,
           ~u.timer, ~u.bypass, RunProcess(p, 0)
    PROVE  \/ idles' > 0 /\ AtRest(up', layer', w)
           \/ idles' = 0 /\ Switching(up', layer', w)
<1>1. /\ ~p.started => l.state = w
      /\ p.started => /\ p.up.enable = {} /\ p.up.target = w
                     /\ \A r \in Relay \ p.up.dirty : r \in Goal(p.low) <=> r \in w
  <2>1. groups \subseteq Offered
    BY DEF SerializerInv, TypeOK
  <2>2. CASE u.dirty = {} /\ Target(l.state, u.enable, u.set) = w
    BY <2>1, <2>2, ProcessSwitches
  <2>3. CASE /\ u.enable = {} /\ u.target = w
             /\ \A r \in Relay \ u.dirty : r \in l.state <=> r \in w
    BY <2>1, <2>3, ProcessSwitches
  <2> QED BY <2>2, <2>3
<1>2. /\ p.up \in UpType /\ p.started \in BOOLEAN
      /\ ~p.up.timer /\ ~p.up.bypass
      /\ p.started => p.low.armed
      /\ ~p.started => p.low = l /\ p.up.enable = {} /\ p.up.dirty = {}
  BY ProcessStep DEF SerializerInv, TypeOK
<1>3. up' = [p.up EXCEPT !.started = p.started] /\ layer' = p.low
      /\ idles' = IF p.started THEN 0 ELSE Emit(0, 1)
  BY DEF RunProcess
<1>4. /\ up'.started = p.started /\ up'.timer = p.up.timer /\ up'.bypass = p.up.bypass
      /\ up'.enable = p.up.enable /\ up'.dirty = p.up.dirty /\ up'.target = p.up.target
  BY <1>2, <1>3 DEF UpType
<1>5. CASE p.started
  <2>1. idles' = 0 /\ Switching(up', layer', w)
    BY <1>1, <1>2, <1>3, <1>4, <1>5 DEF Switching
  <2> QED BY <2>1
<1>6. CASE ~p.started
  <2>1. AtRest(up', layer', w)
    BY <1>1, <1>2, <1>3, <1>4, <1>6 DEF AtRest
  <2>2. idles' > 0
    BY <1>3, <1>6 DEF Emit
  <2> QED BY <2>1, <2>2
<1> QED BY <1>5, <1>6

LEMMA InitSwitch == SerializerInit => SwitchInv
BY InitLayerType DEF SerializerInit, SwitchInv, Disciplined, AtRest, InitLayer

LEMMA RequestSwitch ==
    ASSUME SerializerInv, SwitchInv, NEW E \in SUBSET Relay, NEW S \in SUBSET E,
           NEW force \in BOOLEAN, UpperStartSetMulti(E, S, force)
    PROVE  SwitchInv'
<1> SUFFICES ASSUME Disciplined
             PROVE  /\ idles' = 0
                    /\ \/ Forcing(up', layer', wanted')
                       \/ Waiting(up', layer', wanted')
  BY DEF SwitchInv, Disciplined, UpperStartSetMulti
<1> DEFINE s == SetMulti(up, layer, E, S, force)
           w == Target(wanted, E, S)
<1>1. /\ up \in UpType /\ layer \in Layer /\ AtRest(up, layer, wanted)
  BY DEF SerializerInv, TypeOK, UpType, SwitchInv, Disciplined, UpperStartSetMulti, MayRequest
<1>2. up' = s.up /\ layer' = s.low /\ idles' = 0 /\ wanted' = w
  BY DEF UpperStartSetMulti
<1>3. layer.enable = {} /\ layer.state = wanted
  BY <1>1 DEF AtRest, LayerBusy, Busy
<1>4. CASE force
  <2>1. s.up = [up EXCEPT !.bypass = TRUE] /\ s.low = Requested(layer, E, S, TRUE)
    BY <1>4 DEF SetMulti, Bypassed
  <2>2. Goal(Requested(layer, E, S, TRUE)) = w /\ Requested(layer, E, S, TRUE).armed
    <3>1. TRUE \in BOOLEAN
      OBVIOUS
    <3>2. Requested(layer, E, S, TRUE).armed
      BY <1>1, <3>1, RequestedType
    <3>3. Goal(Requested(layer, E, S, TRUE)) = (layer.state \ E) \cup (S \cap E)
      BY <1>1, <1>3, <3>1, RequestedGoal
    <3> QED BY <1>3, <3>2, <3>3 DEF Target
  <2>3. Forcing(s.up, s.low, w)
    <3>1. /\ s.up.timer = up.timer /\ s.up.bypass /\ s.up.started = up.started
          /\ s.up.enable = up.enable /\ s.up.dirty = up.dirty
      BY <1>1, <2>1 DEF UpType
    <3> HIDE DEF s, w
    <3> QED BY <1>1, <2>1, <2>2, <3>1 DEF Forcing, AtRest
  <2> QED BY <1>2, <2>3
<1>5. CASE ~force
  <2> DEFINE changed == Changing(layer.state, E, S, FALSE)
             next    == SetNext(up.set, changed, S)
  <2>1. /\ s.up = [up EXCEPT !.enable = up.enable \cup changed, !.set = next, !.timer = TRUE]
        /\ s.low = layer
    BY <1>5 DEF SetMulti, Collected
  <2>2. Target(layer.state, changed, next) = w
    BY <1>3, CollectedTarget
  <2>3. up.enable = {}
    BY <1>1 DEF AtRest
  <2> HIDE DEF changed, next, s, w
  <2>4. /\ s.up.timer /\ s.up.bypass = up.bypass /\ s.up.started = up.started
        /\ s.up.enable = changed /\ s.up.dirty = up.dirty /\ s.up.set = next
    BY <1>1, <2>1, <2>3 DEF UpType
  <2>5. Waiting(s.up, s.low, w)
    BY <1>1, <2>1, <2>2, <2>4 DEF Waiting, AtRest
  <2> QED BY <1>2, <2>5
<1> QED BY <1>4, <1>5

LEMMA TimerSwitch ==
    ASSUME SerializerInv, SwitchInv, IdleTimerFires
    PROVE  SwitchInv'
<1> SUFFICES ASSUME Disciplined
             PROVE  \/ idles' > 0 /\ AtRest(up', layer', wanted')
                    \/ idles' = 0 /\ Switching(up', layer', wanted')
  BY DEF SwitchInv, Disciplined, IdleTimerFires, OnIdleTimer
<1> DEFINE p == SerializerProcess(TimerFired, layer)
<1>1. /\ up \in UpType /\ layer \in Layer /\ wanted \in SUBSET Relay
  BY DEF SerializerInv, TypeOK, UpType
<1>2. idles = 0 /\ Waiting(up, layer, wanted)
  BY DEF SwitchInv, IdleTimerFires, OnIdleTimer, AtRest, Forcing, Switching
<1>3. /\ TimerFired \in UpType /\ ~TimerFired.timer /\ TimerFired.bypass = up.bypass
      /\ TimerFired.dirty = up.dirty /\ TimerFired.enable = up.enable
      /\ TimerFired.set = up.set
  BY <1>1 DEF TimerFired, UpType
<1>4. RunProcess(p, 0) /\ wanted' = wanted
  BY <1>2 DEF IdleTimerFires, OnIdleTimer, Waiting
<1> HIDE DEF p
<1> QED BY <1>1, <1>2, <1>3, <1>4, RunProcessSwitches DEF Waiting, p

LEMMA GoesOnSwitch ==
    ASSUME SerializerInv, SwitchInv, LowLayerGoesOn
    PROVE  SwitchInv'
<1>1. layer \in Layer /\ layer' \in Outcomes(layer) /\ layer'.armed /\ layer.armed
  BY DEF LowLayerGoesOn, SerializerInv, TypeOK
<1>2. Goal(layer') = Goal(layer)
  BY <1>1, OutcomeType
<1> QED BY <1>1, <1>2 DEF SwitchInv, Disciplined, LowLayerGoesOn, AtRest, Waiting, Forcing, Switching

LEMMA LowIdleSwitch ==
    ASSUME SerializerInv, SwitchInv, NEW f \in Found,
           OnLowLayerIdle(f, SerializerProcess(f.up, f.low))
    PROVE  SwitchInv'
<1> SUFFICES ASSUME Disciplined
             PROVE  \/ idles' > 0 /\ AtRest(up', layer', wanted')
                    \/ idles' = 0 /\ Switching(up', layer', wanted')
  BY DEF SwitchInv, Disciplined, OnLowLayerIdle
<1> DEFINE p == SerializerProcess(f.up, f.low)
           u == [up EXCEPT !.bypass = FALSE]
<1>1. /\ up \in UpType /\ layer \in Layer /\ wanted \in SUBSET Relay
  BY DEF SerializerInv, TypeOK, UpType
<1>2. PICK l \in Outcomes(layer) :
         /\ layer.armed /\ ~l.armed
         /\ f = [up |-> u, low |-> l, wanted |-> wanted,
                 idles |-> IF up.bypass THEN Emit(idles, 1) ELSE idles]
  BY FoundCases DEF Disciplined
<1>3. l \in Layer /\ ~LayerBusy(l) /\ l.state = Goal(layer)
  BY <1>1, <1>2, OutcomeType
<1>4. /\ u \in UpType /\ ~u.bypass /\ u.timer = up.timer /\ u.started = up.started
      /\ u.enable = up.enable /\ u.dirty = up.dirty /\ u.target = up.target
  BY <1>1 DEF UpType
<1>5. /\ f.up = u /\ f.low = l /\ f.wanted = wanted
      /\ f.idles = IF up.bypass THEN Emit(idles, 1) ELSE idles
  BY <1>2
<1> HIDE DEF u
<1>6. idles = 0 /\ (Forcing(up, layer, wanted) \/ Switching(up, layer, wanted))
  BY <1>2 DEF SwitchInv, AtRest, Waiting
<1>7. CASE Forcing(up, layer, wanted)
  <2>1. ~UpBusy(f.up)
    BY <1>4, <1>5, <1>7 DEF Forcing, UpBusy, Busy
  <2>2. up' = u /\ layer' = l /\ wanted' = wanted /\ idles' = Emit(0, 1)
    BY <1>5, <1>6, <1>7, <2>1 DEF OnLowLayerIdle, Forcing
  <2>3. AtRest(up', layer', wanted')
    BY <1>2, <1>3, <1>4, <1>7, <2>2 DEF AtRest, Forcing
  <2>4. idles' > 0
    BY <2>2 DEF Emit
  <2> QED BY <2>3, <2>4
<1>8. CASE Switching(up, layer, wanted)
  <2>1. UpBusy(f.up)
    BY <1>4, <1>5, <1>8 DEF Switching, UpBusy
  <2>2. RunProcess(p, 0) /\ wanted' = wanted
    BY <1>5, <1>6, <1>8, <2>1 DEF OnLowLayerIdle, Switching
  <2>3. p = SerializerProcess(u, l)
    BY <1>5
  <2>4. /\ u.enable = {} /\ u.target = wanted /\ ~u.timer
        /\ \A r \in Relay \ u.dirty : r \in l.state <=> r \in wanted
    BY <1>3, <1>4, <1>8 DEF Switching
  <2> HIDE DEF p
  <2> QED BY <1>1, <1>2, <1>3, <1>4, <2>2, <2>3, <2>4, RunProcessSwitches
<1> QED BY <1>6, <1>7, <1>8

LEMMA ReconnectSwitch ==
    ASSUME SerializerInv, SwitchInv, Reconnect
    PROVE  SwitchInv'
<1> SUFFICES ASSUME Disciplined PROVE idles' > 0 /\ AtRest(up', layer', wanted')
  BY DEF SwitchInv, Disciplined, Reconnect, SetLowLayer
<1>1. /\ up \in UpType /\ idles > 0 /\ AtRest(up, layer, wanted)
  BY DEF SerializerInv, TypeOK, UpType, SwitchInv, Reconnect, SetLowLayer, Quiet
<1>2. /\ up' = ClearedMasks(up) /\ layer' \in {layer, InitLayer} /\ wanted' = layer'.state
      /\ idles' = idles
  BY DEF Reconnect, SetLowLayer
<1>3. ~layer'.armed /\ ~LayerBusy(layer')
  BY <1>1, <1>2 DEF InitLayer, AtRest, LayerBusy, Busy
<1>4. /\ up'.timer = up.timer /\ up'.bypass = up.bypass /\ up'.started = up.started
      /\ up'.enable = {} /\ up'.dirty = {}
  BY <1>1, <1>2 DEF UpType, ClearedMasks
<1> QED BY <1>1, <1>2, <1>3, <1>4 DEF AtRest

LEMMA SwitchStep ==
    SerializerInv /\ SwitchInv /\ [SerializerNext]_upperVars => SwitchInv'
<1> SUFFICES ASSUME SerializerInv, SwitchInv, [SerializerNext]_upperVars PROVE SwitchInv'
  OBVIOUS
<1>1. CASE UpperRequests
  <2>1. use.forces \subseteq BOOLEAN
    BY UsesAssumption DEF SerializerInv, TypeOK
  <2> QED BY <1>1, <2>1, RequestSwitch, AskedRelays DEF SerializerInv, TypeOK
<1>2. CASE DirectRequests
  BY <1>2 DEF DirectRequests, DirectRequest, SwitchInv, Disciplined
<1>3. CASE IdleTimerFires
  BY <1>3, TimerSwitch
<1>4. CASE LowLayerGoesOn
  BY <1>4, GoesOnSwitch
<1>5. CASE LowLayerIdles
  BY <1>5, LowIdleSwitch DEF LowLayerIdles
<1>6. CASE Reconnect
  BY <1>6, ReconnectSwitch
<1>7. CASE GroupAdded
  BY <1>7 DEF GroupAdded, AddGroup, SwitchInv, Disciplined
<1>8. CASE UNCHANGED upperVars
  BY <1>8 DEF upperVars, SwitchInv, Disciplined
<1> QED BY <1>1, <1>2, <1>3, <1>4, <1>5, <1>6, <1>7, <1>8 DEF SerializerNext, LowLayerStep

(* When a client that waits for its idle() has it, all batches are done and *)
(* the relays are where it wanted them to be, also after forced requests.   *)
THEOREM IdleAfterSwitching == SerializerSpec => []IdleMeansSwitched
<1>1. SwitchInv /\ SerializerInv => IdleMeansSwitched
  <2> SUFFICES ASSUME SwitchInv, SerializerInv, Disciplined, idles > 0
               PROVE  layer.state = wanted
    BY DEF IdleMeansSwitched
  <2>1. idles # 0
    BY DEF SerializerInv, TypeOK
  <2> QED BY <2>1 DEF SwitchInv, AtRest
<1>2. SerializerInv /\ SwitchInv /\ [SerializerNext]_upperVars => SwitchInv'
  BY SwitchStep
<1> QED BY <1>1, <1>2, InitSwitch, SerializerInvariant, PTL DEF SerializerSpec
-----------------------------------------------------------------------------
(* A lower layer at work moves no relay it was not asked to move.           *)
LEMMA OutcomeMoves ==
    ASSUME NEW l \in Layer, NEW m \in Outcomes(l), NEW on \in BOOLEAN
    PROVE  Moving(m, on) \subseteq Moving(l, on)
<1>1. /\ m.enable = {} /\ m.state = Goal(l) /\ m.dirty \subseteq l.dirty \cup l.enable
  BY OutcomeType
<1>2. Goal(l) = (l.state \ l.enable) \cup (l.set \cap l.enable)
  BY DEF Goal, Target
<1>3. CASE on
  <2>1. Moving(m, on) = m.dirty \cap m.state
    BY <1>1, <1>3 DEF Moving
  <2>2. Moving(l, on) = (l.enable \cap l.set) \cup (l.dirty \cap l.state)
    BY <1>3 DEF Moving
  <2> QED BY <1>1, <1>2, <2>1, <2>2
<1>4. CASE ~on
  <2>1. Moving(m, on) = m.dirty \ m.state
    BY <1>1, <1>4 DEF Moving
  <2>2. Moving(l, on) = (l.enable \ l.set) \cup (l.dirty \ l.state)
    BY <1>4 DEF Moving
  <2> QED BY <1>1, <1>2, <2>1, <2>2
<1> QED BY <1>3, <1>4

(* A batch handed to an idle layer moves just the relays enabled, each to   *)
(* its target.                                                              *)
LEMMA BatchMoves ==
    ASSUME NEW l \in Layer, ~LayerBusy(l), NEW E \in SUBSET Relay, NEW T,
           \A r \in E : ~(r \in l.state <=> r \in T),
           NEW q, q = HandedDown(l, E, T)
    PROVE  \A on \in BOOLEAN : \A r : r \in Moving(q, on) <=> r \in E /\ (r \in T <=> on)
<1> SUFFICES ASSUME NEW on \in BOOLEAN, NEW r
             PROVE  r \in Moving(q, on) <=> r \in E /\ (r \in T <=> on)
  OBVIOUS
<1> DEFINE changed == Changing(l.state, E, T, FALSE)
           next == SetNext(l.set, changed, T)
<1>1. l.enable = {} /\ l.dirty = {}
  BY DEF LayerBusy, Busy
<1>2. changed = E
  BY DEF Changing
<1>3. q.enable = changed /\ q.set = next /\ q.dirty = {}
  BY <1>1 DEF Requested, HandedDown
<1>4. r \in E => (r \in next <=> r \in T)
  BY <1>2 DEF SetNext
<1> HIDE DEF changed, next
<1>5. CASE on
  <2>1. Moving(q, on) = q.enable \cap q.set
    BY <1>3, <1>5 DEF Moving
  <2> QED BY <1>2, <1>3, <1>4, <1>5, <2>1
<1>6. CASE ~on
  <2>1. Moving(q, on) = q.enable \ q.set
    BY <1>3, <1>6 DEF Moving
  <2> QED BY <1>2, <1>3, <1>4, <1>6, <2>1
<1> QED BY <1>5, <1>6

(* Entries for a relay and direction that are both in groups are the same.  *)
LEMMA SameEntry ==
    ASSUME groups \subseteq Offered, GroupsApart, NEW g \in groups, NEW h \in groups,
           NEW e \in Entries(g), NEW d \in Entries(h), e.relay = d.relay, e.on = d.on
    PROVE  g = h /\ e = d
<1>1. g = h
  BY DEF GroupsApart
<1>2. PICK i \in DOMAIN g.entries : e = g.entries[i]
  BY DEF Entries
<1>3. PICK j \in DOMAIN g.entries : d = g.entries[j]
  BY <1>1 DEF Entries
<1>4. i = j
  BY <1>2, <1>3, OneEntryAssumption
<1> QED BY <1>1, <1>2, <1>3, <1>4

(* One run of process(): the batch keeps within every supply, and a relay   *)
(* is left for later only for want of current.                              *)
LEMMA ProcessSupply ==
    ASSUME NEW u \in UpType, NEW l \in Layer, ~LayerBusy(l), groups \subseteq Offered,
           GroupsApart, StillDiffers(u, l), NEW p, p = SerializerProcess(u, l)
    PROVE  /\ StillDiffers(p.up, p.low)
           /\ \A g \in groups : Load(p.low, g) <= g.max
           /\ p.low.enable # {} =>
                \A g \in groups : \A e \in Entries(g) :
                    Matches(p.up, e) => Load(p.low, g) + e.current > g.max
<1> DEFINE t == StartNextTransaction(u, l.state)
           D == Delayed(t)
           E == t.dirty \ D
           q == Requested(l, E, t.target, FALSE)
<1>1. /\ l.state \in SUBSET Relay /\ l.enable = {}
      /\ Goal(l) = l.state
  BY DEF Layer, LayerBusy, Busy, Goal, Target
<1>2. /\ t \in UpType
      /\ \/ t = u
         \/ /\ t.target = Target(l.state, u.enable, u.set)
            /\ t.dirty = Differing(l.state, u.enable, u.set)
  BY <1>1, NewTransaction
<1>3. p = IF t.dirty = {} THEN [up |-> t, low |-> l, started |-> FALSE]
          ELSE [up |-> [t EXCEPT !.dirty = D], low |-> q, started |-> TRUE]
  BY DEF SerializerProcess
<1> HIDE DEF t
<1>4. ASSUME NEW r \in t.dirty PROVE ~(r \in l.state <=> r \in t.target)
  <2>1. CASE t = u
    BY <1>1, <1>4, <2>1 DEF StillDiffers
  <2>2. CASE /\ t.target = Target(l.state, u.enable, u.set)
             /\ t.dirty = Differing(l.state, u.enable, u.set)
    BY <1>4, <2>2, DifferingTarget
  <2> QED BY <1>2, <2>1, <2>2
<1>5. E \in SUBSET Relay
  BY <1>2 DEF UpType
<1>6. \A on \in BOOLEAN : \A r :
         r \in Moving(q, on) <=> r \in E /\ (r \in t.target <=> on)
  <2>1. \A r \in E : ~(r \in l.state <=> r \in t.target)
    BY <1>4
  <2> HIDE DEF E
  <2>2. q = HandedDown(l, E, t.target)
    BY DEF HandedDown
  <2> HIDE DEF q
  <2> QED BY <1>5, <2>1, <2>2, BatchMoves
<1>7. Goal(q) = (l.state \ E) \cup (t.target \cap E)
  <2> HIDE DEF E
  <2> QED BY <1>1, <1>5, RequestedGoal
<1>8. \A g \in groups : \A e \in Entries(g) : e.on \in BOOLEAN /\ e.current \in Nat /\ g.max \in Nat
  <2>1. \A g \in Offered : \A e \in Entries(g) : \E k \in 1..Len(g.entries) : e = g.entries[k]
    BY GroupType DEF Entries
  <2> QED BY <2>1, GroupType
<1>9. ASSUME NEW g \in groups, NEW e \in Entries(g), Matches(t, e)
      PROVE  e.relay \in E <=> e.relay \in Batch(t, g).taken
  <2>1. e.relay \in t.dirty /\ (e.relay \in t.target <=> e.on)
    BY <1>8, <1>9 DEF Matches
  <2>2. e.relay \in Batch(t, g).taken \cup Batch(t, g).delayed
    BY <1>9, BatchFacts
  <2>3. CASE e.relay \notin Batch(t, g).taken
    <3>1. e.relay \in D
      BY <2>2, <2>3 DEF Delayed
    <3> QED BY <2>3, <3>1
  <2>4. ASSUME e.relay \in Batch(t, g).taken, e.relay \in D PROVE FALSE
    <3>1. PICK h \in groups : e.relay \in Batch(t, h).delayed \ Batch(t, h).taken
      BY <2>4 DEF Delayed
    <3>2. PICK d \in Entries(h) : d.relay = e.relay /\ Matches(t, d)
      BY <3>1, BatchFacts
    <3>3. d.on = e.on
      BY <1>8, <1>9, <3>2 DEF Matches
    <3>4. g = h
      BY <3>2, <3>3, SameEntry
    <3> QED BY <2>4, <3>1, <3>4
  <2> HIDE DEF D
  <2> QED BY <2>1, <2>3, <2>4
<1>10. ASSUME NEW g \in groups
       PROVE  Load(q, g) = Batch(t, g).load /\ Load(q, g) <= g.max
  <2>1. \A e \in Entries(g) : e.relay \in Moving(q, e.on)
                            <=> Matches(t, e) /\ e.relay \in Batch(t, g).taken
    <3> SUFFICES ASSUME NEW e \in Entries(g)
                 PROVE  e.relay \in Moving(q, e.on)
                        <=> Matches(t, e) /\ e.relay \in Batch(t, g).taken
      OBVIOUS
    <3>1. e.relay \in Moving(q, e.on) <=> e.relay \in E /\ (e.relay \in t.target <=> e.on)
      BY <1>6, <1>8
    <3>2. e.relay \in E /\ (e.relay \in t.target <=> e.on) <=> e.relay \in E /\ Matches(t, e)
      BY <1>8 DEF Matches
    <3> QED BY <1>9, <3>1, <3>2
  <2> HIDE DEF q
  <2>2. Load(q, g) = Batch(t, g).load
    BY <2>1, LoadOfBatch
  <2> QED BY <2>2, BatchFacts
<1>11. CASE t.dirty = {}
  <2>1. p.up = t /\ p.low = l
    BY <1>3, <1>11
  <2>2. \A g \in groups : Load(l, g) <= g.max
    BY <1>8, NoLoad, GroupType
  <2> QED BY <1>1, <1>11, <2>1, <2>2 DEF StillDiffers
<1>12. CASE t.dirty # {}
  <2>1. p.up = [t EXCEPT !.dirty = D] /\ p.low = q
    <3> HIDE DEF D, E, q
    <3> QED BY <1>3, <1>12
  <2> HIDE DEF D, E, q
  <2>2. p.up.dirty = D /\ p.up.target = t.target
    BY <1>2, <2>1 DEF UpType
  <2>3. D \subseteq t.dirty /\ D \cap E = {}
    <3>1. ASSUME NEW r \in D PROVE r \in t.dirty
      <4>1. PICK h \in groups : r \in Batch(t, h).delayed
        BY <3>1 DEF D, Delayed
      <4>2. PICK d \in Entries(h) : d.relay = r /\ Matches(t, d)
        BY <4>1, BatchFacts
      <4> QED BY <4>2 DEF Matches
    <3> QED BY <3>1 DEF E
  <2>4. StillDiffers(p.up, p.low)
    BY <1>4, <1>7, <2>1, <2>2, <2>3 DEF StillDiffers
  <2>5. ASSUME NEW g \in groups, NEW e \in Entries(g), Matches(p.up, e)
        PROVE  Load(q, g) + e.current > g.max
    <3>1. e.relay \in D /\ (e.relay \in t.target) = e.on
      BY <2>2, <2>5 DEF Matches
    <3>2. PICK h \in groups : e.relay \in Batch(t, h).delayed
      BY <3>1 DEF D, Delayed
    <3>3. PICK d \in Entries(h) : /\ d.relay = e.relay /\ Matches(t, d)
                                  /\ Batch(t, h).load + d.current > h.max
      BY <3>2, BatchFacts
    <3>4. d.on = e.on
      BY <1>8, <3>1, <3>3 DEF Matches
    <3>5. h = g /\ d = e
      BY <3>3, <3>4, SameEntry
    <3> QED BY <1>10, <3>3, <3>5
  <2> QED BY <1>10, <2>1, <2>4, <2>5
<1> QED BY <1>11, <1>12

Within(l) == \A g \in groups : Load(l, g) <= g.max
Reason(u, l) ==
    l.enable # {} => \A g \in groups : \A e \in Entries(g) :
                         Matches(u, e) => Load(l, g) + e.current > g.max

LEMMA RunProcessSupply ==
    ASSUME SerializerInv, NEW u \in UpType, NEW l \in Layer, ~LayerBusy(l),
           StillDiffers(u, l), ~u.bypass,
           NEW p, p = SerializerProcess(u, l), NEW count, RunProcess(p, count)
    PROVE  /\ ~up'.bypass /\ StillDiffers(up', layer')
           /\ Within(layer') /\ Reason(up', layer')
<1>1. groups \subseteq Offered /\ GroupsApart
  BY DEF SerializerInv, TypeOK
<1>2. /\ p.up \in UpType /\ p.started \in BOOLEAN /\ p.up.bypass = u.bypass
  BY <1>1, ProcessStep
<1>3. StillDiffers(p.up, p.low) /\ Within(p.low) /\ Reason(p.up, p.low)
  BY <1>1, ProcessSupply DEF Within, Reason
<1>4. up' = [p.up EXCEPT !.started = p.started] /\ layer' = p.low
  BY DEF RunProcess
<1>5. up'.bypass = p.up.bypass /\ up'.dirty = p.up.dirty /\ up'.target = p.up.target
  BY <1>2, <1>4 DEF UpType
<1> QED BY <1>2, <1>3, <1>4, <1>5 DEF StillDiffers, Reason, Matches

(* Nothing pending, nothing left of a transaction: no load and no reason    *)
(* asked for.                                                               *)
LEMMA IdleSupply ==
    ASSUME SerializerInv, NEW l \in Layer, ~LayerBusy(l)
    PROVE  Within(l) /\ \A u : Reason(u, l)
<1>1. \A g \in groups : g \in Offered /\ g.max \in Nat
  BY GroupType DEF SerializerInv, TypeOK
<1>2. \A g \in groups : Load(l, g) = 0
  BY <1>1, NoLoad
<1>3. l.enable = {}
  BY DEF LayerBusy, Busy
<1> QED BY <1>1, <1>2, <1>3 DEF Within, Reason

LEMMA InitSupply == SerializerInit => SupplyInv
BY DEF SerializerInit, SupplyInv, StillDiffers, SupplyNotOverloaded

(* What every step keeps, and the reason it has for what it delays.         *)
StepSupply ==
    Unforced => /\ ~up'.bypass /\ StillDiffers(up', layer') /\ Within(layer')
                /\ layer.enable = {} => Reason(up', layer')

LEMMA RequestSupply ==
    ASSUME SerializerInv, SupplyInv, NEW E \in SUBSET Relay, NEW S \in SUBSET E,
           NEW force \in use.forces, UpperStartSetMulti(E, S, force)
    PROVE  StepSupply
<1> SUFFICES ASSUME Unforced
             PROVE  /\ ~up'.bypass /\ StillDiffers(up', layer') /\ Within(layer')
                    /\ layer.enable = {} => Reason(up', layer')
  BY DEF StepSupply
<1>1. ~force
  BY DEF Unforced
<1>2. layer' = layer /\ up' = Collected(up, layer, E, S)
  BY <1>1 DEF UpperStartSetMulti, SetMulti
<1>3. up \in UpType
  BY DEF SerializerInv, TypeOK, UpType
<1>4. up'.bypass = up.bypass /\ up'.dirty = up.dirty /\ up'.target = up.target
  BY <1>2, <1>3 DEF Collected, UpType
<1> QED BY <1>2, <1>4 DEF SupplyInv, SupplyNotOverloaded, StillDiffers, Within, Reason

LEMMA TimerSupply ==
    ASSUME SerializerInv, SupplyInv, IdleTimerFires
    PROVE  StepSupply
<1> SUFFICES ASSUME Unforced
             PROVE  /\ ~up'.bypass /\ StillDiffers(up', layer') /\ Within(layer')
                    /\ layer.enable = {} => Reason(up', layer')
  BY DEF StepSupply
<1> DEFINE p == SerializerProcess(TimerFired, layer)
<1>1. /\ up \in UpType /\ layer \in Layer
  BY DEF SerializerInv, TypeOK, UpType
<1>2. /\ TimerFired \in UpType /\ TimerFired.bypass = up.bypass
      /\ TimerFired.dirty = up.dirty /\ TimerFired.target = up.target
  BY <1>1 DEF TimerFired, UpType
<1>3. ~TimerFired.bypass /\ StillDiffers(TimerFired, layer)
  BY <1>2 DEF SupplyInv, StillDiffers
<1>4. CASE LayerBusy(layer)
  <2>1. up' = TimerFired /\ layer' = layer
    BY <1>4 DEF IdleTimerFires, OnIdleTimer
  <2> QED BY <1>3, <2>1 DEF SupplyInv, SupplyNotOverloaded, Within, Reason
<1>5. CASE ~LayerBusy(layer)
  <2>1. RunProcess(p, idles)
    BY <1>5 DEF IdleTimerFires, OnIdleTimer
  <2> HIDE DEF p
  <2> QED BY <1>1, <1>2, <1>3, <1>5, <2>1, RunProcessSupply DEF p
<1> QED BY <1>4, <1>5

LEMMA GoesOnSupply ==
    ASSUME SerializerInv, SupplyInv, LowLayerGoesOn
    PROVE  StepSupply
<1> SUFFICES ASSUME Unforced
             PROVE  /\ ~up'.bypass /\ StillDiffers(up', layer') /\ Within(layer')
                    /\ layer.enable = {} => Reason(up', layer')
  BY DEF StepSupply
<1>1. layer \in Layer /\ layer' \in Outcomes(layer) /\ up' = up
  BY DEF LowLayerGoesOn, SerializerInv, TypeOK
<1>2. layer' \in Layer /\ Goal(layer') = Goal(layer) /\ layer'.enable = {}
  BY <1>1, OutcomeType
<1>3. \A on \in BOOLEAN : Moving(layer', on) \subseteq Moving(layer, on)
  BY <1>1, OutcomeMoves
<1>4. ASSUME NEW g \in groups PROVE Load(layer', g) <= g.max
  <2> DEFINE new == Load(layer', g)
             old == Load(layer, g)
  <2>1. g \in Offered /\ g.max \in Nat
    BY GroupType DEF SerializerInv, TypeOK
  <2>2. new \in Nat /\ old \in Nat
    <3>1. \A l : Load(l, g) \in Nat
      BY <2>1, LoadStepsExist, GroupType DEF LoadSteps
    <3> QED BY <3>1
  <2>3. new <= old
    BY <1>3, <2>1, LoadMonotone
  <2>4. old <= g.max
    BY DEF SupplyInv, SupplyNotOverloaded
  <2> HIDE DEF new, old
  <2>5. new <= g.max
    BY <2>1, <2>2, <2>3, <2>4
  <2> QED BY <2>5 DEF new
<1> QED BY <1>1, <1>2, <1>4 DEF SupplyInv, StillDiffers, Within, Reason

LEMMA LowIdleSupply ==
    ASSUME SerializerInv, SupplyInv, NEW f \in Found,
           OnLowLayerIdle(f, SerializerProcess(f.up, f.low))
    PROVE  StepSupply
<1> SUFFICES ASSUME Unforced
             PROVE  /\ ~up'.bypass /\ StillDiffers(up', layer') /\ Within(layer')
                    /\ Reason(up', layer')
  BY DEF StepSupply
<1> DEFINE p == SerializerProcess(f.up, f.low)
           u == [up EXCEPT !.bypass = FALSE]
<1>1. up \in UpType /\ layer \in Layer /\ ~up.bypass
  BY DEF SerializerInv, TypeOK, UpType, SupplyInv
<1>2. PICK l \in Outcomes(layer) : ~l.armed /\ f.up = u /\ f.low = l
  <2>1. PICK l \in Outcomes(layer) :
           ~l.armed /\ f = [up |-> u, low |-> l, wanted |-> wanted,
                            idles |-> IF up.bypass THEN Emit(idles, 1) ELSE idles]
    BY <1>1, FoundCases
  <2> HIDE DEF u
  <2> QED BY <2>1
<1>3. l \in Layer /\ ~LayerBusy(l) /\ Goal(l) = Goal(layer)
  BY <1>1, <1>2, OutcomeType
<1>4. u \in UpType /\ ~u.bypass /\ u.dirty = up.dirty /\ u.target = up.target
  BY <1>1 DEF UpType
<1> HIDE DEF u
<1>5. StillDiffers(u, l)
  BY <1>3, <1>4 DEF SupplyInv, StillDiffers
<1>6. CASE UpBusy(f.up)
  <2>1. RunProcess(p, f.idles)
    BY <1>6 DEF OnLowLayerIdle
  <2>2. p = SerializerProcess(u, l)
    BY <1>2
  <2> HIDE DEF p
  <2> QED BY <1>3, <1>4, <1>5, <2>1, <2>2, RunProcessSupply
<1>7. CASE ~UpBusy(f.up)
  <2>1. up' = u /\ layer' = l
    BY <1>2, <1>7 DEF OnLowLayerIdle
  <2> QED BY <1>3, <1>4, <1>5, <2>1, IdleSupply
<1> QED BY <1>6, <1>7

LEMMA ReconnectSupply ==
    ASSUME SerializerInv, SupplyInv, Reconnect
    PROVE  StepSupply
<1>1. up' = ClearedMasks(up) /\ layer' \in {layer, InitLayer} /\ ~layer.armed
  BY DEF Reconnect, SetLowLayer, Quiet
<1>2. /\ up'.bypass = up.bypass /\ up'.dirty = {}
  BY <1>1 DEF ClearedMasks, SerializerInv, TypeOK
<1>3. layer' \in Layer /\ ~LayerBusy(layer')
  BY <1>1, InitLayerType DEF SerializerInv, TypeOK, OwesIdle
<1>4. Within(layer') /\ Reason(up', layer')
  BY <1>3, IdleSupply
<1> QED BY <1>2, <1>4 DEF SupplyInv, StepSupply, StillDiffers

LEMMA SupplyStep ==
    ASSUME SerializerInv, SupplyInv, [SerializerNext]_upperVars
    PROVE  SupplyInv' /\ StepSupply
<1>1. ASSUME StepSupply, UNCHANGED <<use, groups>>
      PROVE  SupplyInv' /\ StepSupply
  BY <1>1 DEF SupplyInv, StepSupply, Within, Unforced, SupplyNotOverloaded
<1>2. CASE UpperRequests
  <2>1. PICK E \in SUBSET Relay, S \in SUBSET Relay, force \in use.forces :
           S \in SUBSET E /\ UpperStartSetMulti(E, S, force)
    BY <1>2, AskedRelays DEF SerializerInv, TypeOK
  <2>2. StepSupply
    BY <2>1, RequestSupply
  <2> QED BY <1>1, <2>1, <2>2 DEF UpperStartSetMulti
<1>3. CASE DirectRequests
  <2>1. use.direct # {}
    BY <1>3 DEF DirectRequests, DirectRequest
  <2>2. ~Unforced /\ UNCHANGED <<use, groups>>
    BY <1>3, <2>1 DEF DirectRequests, DirectRequest, Unforced
  <2>3. StepSupply
    BY <2>2 DEF StepSupply
  <2> QED BY <1>1, <2>2, <2>3
<1>4. CASE IdleTimerFires
  BY <1>1, <1>4, TimerSupply DEF IdleTimerFires, OnIdleTimer
<1>5. CASE LowLayerGoesOn
  BY <1>1, <1>5, GoesOnSupply DEF LowLayerGoesOn
<1>6. CASE LowLayerIdles
  <2>1. PICK f \in Found : OnLowLayerIdle(f, SerializerProcess(f.up, f.low))
    BY <1>6 DEF LowLayerIdles
  <2>2. StepSupply
    BY <2>1, LowIdleSupply
  <2> QED BY <1>1, <2>1, <2>2 DEF OnLowLayerIdle
<1>7. CASE Reconnect
  BY <1>1, <1>7, ReconnectSupply DEF Reconnect, SetLowLayer
<1>8. CASE GroupAdded
  <2>1. UNCHANGED <<layer, use, up>> /\ ~layer.armed
    BY <1>8 DEF GroupAdded, AddGroup, Quiet
  <2>2. groups' \subseteq Offered /\ \A g \in groups' : g \in Offered /\ g.max \in Nat
    BY <1>8, GroupType DEF GroupAdded, AddGroup, SerializerInv, TypeOK
  <2>3. layer \in Layer /\ ~LayerBusy(layer)
    BY <2>1 DEF SerializerInv, TypeOK, OwesIdle
  <2>4. \A g \in groups' : Load(layer, g) <= g.max
    BY <2>2, <2>3, NoLoad
  <2>5. SupplyInv'
    BY <2>1, <2>2, <2>4 DEF SupplyInv, SupplyNotOverloaded, Unforced, StillDiffers
  <2>6. StepSupply
    BY <2>1, <2>3, IdleSupply DEF StepSupply, SupplyInv
  <2> QED BY <2>1, <2>5, <2>6
<1>9. CASE UNCHANGED upperVars
  <2>1. UNCHANGED <<layer, use, up, groups>>
    BY <1>9 DEF upperVars
  <2>2. layer.enable = {} => Reason(up', layer')
    BY <2>1 DEF Reason
  <2>3. StepSupply
    BY <2>1, <2>2 DEF StepSupply, SupplyInv, SupplyNotOverloaded, Within
  <2> QED BY <1>1, <2>1, <2>3
<1> QED BY <1>2, <1>3, <1>4, <1>5, <1>6, <1>7, <1>8, <1>9 DEF SerializerNext, LowLayerStep

LEMMA SupplyInvariant == SerializerSpec => [](SerializerInv /\ SupplyInv)
<1>1. SerializerInv /\ SupplyInv /\ [SerializerNext]_upperVars => SupplyInv'
  BY SupplyStep
<1> QED BY <1>1, InitSupply, SerializerInvariant, PTL DEF SerializerSpec

(* The relays of a group that move at the same time never draw more than    *)
(* their supply delivers, whatever is requested meanwhile.                  *)
THEOREM SuppliesKept == SerializerSpec => []SupplyNotOverloaded
<1>1. SupplyInv => SupplyNotOverloaded
  BY DEF SupplyInv
<1> QED BY <1>1, SupplyInvariant, PTL

(* No more batches than the load requires: a relay is left for a later      *)
(* batch only if this one leaves no current for it.                         *)
THEOREM NoNeedlessDelay == SerializerSpec => DelayedForAReason
<1>1. SerializerInv /\ SupplyInv /\ [SerializerNext]_upperVars =>
        [Unforced /\ layer.enable = {} /\ layer'.enable # {} =>
            \A g \in groups : \A e \in Entries(g) :
                Matches(up', e) => Load(layer', g) + e.current > g.max]_upperVars
  <2> SUFFICES ASSUME SerializerInv, SupplyInv, [SerializerNext]_upperVars,
                      Unforced, layer.enable = {}, layer'.enable # {}
               PROVE  \A g \in groups : \A e \in Entries(g) :
                         Matches(up', e) => Load(layer', g) + e.current > g.max
    OBVIOUS
  <2>1. StepSupply
    BY SupplyStep
  <2> QED BY <2>1 DEF StepSupply, Reason
<1> QED BY <1>1, SupplyInvariant, PTL DEF SerializerSpec, DelayedForAReason
=============================================================================
