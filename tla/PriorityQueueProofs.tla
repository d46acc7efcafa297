------------------------- MODULE PriorityQueueProofs -------------------------
(***************************************************************************)
(* The heap of commons/queue/priority_queue.go implements MinQueue, for any *)
(* priorities and any length.                                              *)
(*                                                                         *)
(* up and down are iterations of upOnce and downOnce.  What is true of the  *)
(* slice between two exchanges (UpOrder, DownOrder) is kept by each of      *)
(* them, and the place moves towards the top or the bottom, so that the     *)
(* last of as many steps as there are items is one at which nothing is left *)
(* to do.  That an exchange loses no item is counted per priority.          *)
(***************************************************************************)
EXTENDS PriorityQueue, SequenceTheorems, FiniteSetTheorems, NaturalsInduction, WellFoundedInduction, TLAPS

-----------------------------------------------------------------------------
(* Induction and recursion                                                 *)

\* A set that contains 0, and with every number the next one, contains all of them.
LEMMA Induction ==
  ASSUME NEW S, 0 \in S, \A n \in Nat : n \in S => n + 1 \in S
  PROVE  Nat \subseteq S
<1> DEFINE Bad == {n \in Nat : n \notin S}
<1> SUFFICES ASSUME Bad # {}
             PROVE  FALSE
  OBVIOUS
<1>1. PICK n \in Bad : \A m \in Bad : ~ (<<m, n>> \in OpToRel(<, Nat))
  <2>1. Bad \subseteq Nat
    OBVIOUS
  <2> HIDE DEF Bad
  <2> QED
    BY <2>1, NatLessThanWellFounded, WFMin
<1>2. n # 0 /\ n - 1 \in Nat /\ n - 1 < n
  OBVIOUS
<1>3. <<n - 1, n>> \in OpToRel(<, Nat)
  BY <1>2 DEF OpToRel
<1>4. n - 1 \in S
  BY <1>1, <1>2, <1>3
<1> QED
  BY <1>2, <1>4

\* f is s0 with T applied to it 0, 1, ... N times.
Iteration(f, N, V, T, s0) ==
  f \in [0 .. N -> V] /\ f[0] = s0 /\ \A n \in 1 .. N : f[n] = T[f[n - 1]]

\* What up and down compute step by step exists.
LEMMA Iterates ==
  ASSUME NEW N \in Nat, NEW V, NEW T \in [V -> V], NEW s0 \in V
  PROVE  \E f : Iteration(f, N, V, T, s0)
<1> DEFINE S == {m \in Nat : \E f : Iteration(f, m, V, T, s0)}
<1>1. 0 \in S
  <2>1. Iteration([n \in 0 .. 0 |-> s0], 0, V, T, s0)
    BY DEF Iteration
  <2> QED
    BY <2>1
<1>2. ASSUME NEW m \in Nat, m \in S
      PROVE  m + 1 \in S
  <2>1. PICK f : Iteration(f, m, V, T, s0)
    BY <1>2
  <2> DEFINE g == [n \in 0 .. m + 1 |-> IF n = m + 1 THEN T[f[m]] ELSE f[n]]
  <2>2. Iteration(g, m + 1, V, T, s0)
    <3>1. T[f[m]] \in V
      BY <2>1 DEF Iteration
    <3>2. g \in [0 .. m + 1 -> V]
      BY <2>1, <3>1 DEF Iteration
    <3>3. \A n \in 1 .. m + 1 : g[n] = T[g[n - 1]]
      BY <2>1 DEF Iteration
    <3> QED
      BY <2>1, <3>2, <3>3 DEF Iteration
  <2> HIDE DEF g
  <2> QED
    BY <2>2
<1>3. N \in S
  <2> HIDE DEF S
  <2> QED
    BY <1>1, <1>2, Induction
<1> QED
  BY <1>3

\* An invariant of the steps, given as the set I[n] of what step n may be, holds
\* at the last one.
LEMMA LastStep ==
  ASSUME NEW N \in Nat, NEW f, NEW I, f[0] \in I[0],
         \A n \in 1 .. N : f[n - 1] \in I[n - 1] => f[n] \in I[n]
  PROVE  f[N] \in I[N]
<1> DEFINE S == {m \in Nat : m <= N => f[m] \in I[m]}
<1>1. 0 \in S
  OBVIOUS
<1>2. ASSUME NEW m \in Nat, m \in S
      PROVE  m + 1 \in S
  <2> SUFFICES ASSUME m + 1 <= N PROVE f[m + 1] \in I[m + 1]
    OBVIOUS
  <2>1. m + 1 \in 1 .. N /\ (m + 1) - 1 = m
    OBVIOUS
  <2> QED
    BY <2>1, <1>2
<1>3. N \in S
  <2> HIDE DEF S
  <2> QED
    BY <1>1, <1>2, Induction
<1> QED
  BY <1>3

-----------------------------------------------------------------------------
(* Slices                                                                  *)

Slice(n) == {h \in Seq(Item) : Len(h) = n}

Pri(h, k) == h[k].Priority
Idx(h, k) == h[k].Index

\* Where a priority occurs; up and down keep how often it does.
Where(h, x) == {k \in DOMAIN h : Pri(h, k) = x}
Count(h, x) == Cardinality(Where(h, x))

SameItems(g, h) == \A x : Count(g, x) = Count(h, x)

InPlace(h, n) == \A k \in 1 .. n : Idx(h, k) = k - 1

\* Item k is not older than its parent.
Ordered(h, k) == Pri(h, k \div 2) <= Pri(h, k)

\* A slice of n items, as a function.
LEMMA SliceType ==
  ASSUME NEW n \in Nat, NEW h \in Slice(n)
  PROVE  /\ h \in Seq(Item) /\ Len(h) = n /\ DOMAIN h = 1 .. n /\ h \in [1 .. n -> Item]
         /\ \A k \in 1 .. n : h[k] \in Item
         /\ \A k \in 1 .. n : Pri(h, k) \in Priority /\ Pri(h, k) \in Int /\ Idx(h, k) \in Int
<1>1. h \in Seq(Item) /\ Len(h) = n
  BY DEF Slice
<1>2. DOMAIN h = 1 .. n /\ h \in [1 .. n -> Item]
  BY <1>1, LenProperties
<1>3. ASSUME NEW k \in 1 .. n
      PROVE  /\ h[k] \in Item /\ Pri(h, k) \in Priority
             /\ Pri(h, k) \in Int /\ Idx(h, k) \in Int
  <2>1. h[k] \in Item
    BY <1>2
  <2>2. h[k].Priority \in Priority /\ h[k].Index \in -1 .. MaxLen
    BY <2>1 DEF Item
  <2>3. Pri(h, k) \in Priority /\ Pri(h, k) \in Int
    BY <2>2, QueueAssumption, Zenon DEF Pri
  <2>4. Idx(h, k) \in Int
    BY <2>2, QueueAssumption DEF Idx
  <2> QED
    BY <2>1, <2>3, <2>4
<1> QED
  BY <1>1, <1>2, <1>3

\* A function on 1 .. n is a slice.
LEMMA IsSlice ==
  ASSUME NEW n \in Nat, NEW g \in [1 .. n -> Item]
  PROVE  g \in Slice(n)
<1>1. g \in Seq(Item)
  BY SeqDef
<1>2. Len(g) = n
  BY <1>1
<1> QED
  BY <1>1, <1>2 DEF Slice

\* Swap exchanges the items and sets their indices.
LEMMA SwapFacts ==
  ASSUME NEW n \in Nat, n <= MaxLen, NEW h \in Slice(n), NEW i \in 1 .. n, NEW j \in 1 .. n,
         NEW g, g = Swap(h, i, j)
  PROVE  /\ g \in Slice(n)
         /\ \A k \in 1 .. n : Pri(g, k) = IF k = i THEN Pri(h, j) ELSE
                                         IF k = j THEN Pri(h, i) ELSE Pri(h, k)
         /\ \A k \in 1 .. n : Idx(g, k) = IF k = i \/ k = j THEN k - 1 ELSE Idx(h, k)
         /\ \A k \in 1 .. n : k # i /\ k # j => g[k] = h[k]
<1> DEFINE a == [h[j] EXCEPT !.Index = i - 1]
           b == [h[i] EXCEPT !.Index = j - 1]
<1>1. h[i] \in Item /\ h[j] \in Item
  BY SliceType
<1>2. MaxLen \in Nat /\ i - 1 \in -1 .. MaxLen /\ j - 1 \in -1 .. MaxLen
  BY QueueAssumption
<1>3. a \in Item /\ a.Priority = Pri(h, j) /\ a.Index = i - 1
  BY <1>1, <1>2 DEF Item, Pri
<1>4. b \in Item /\ b.Priority = Pri(h, i) /\ b.Index = j - 1
  BY <1>1, <1>2 DEF Item, Pri
<1>5. h \in [1 .. n -> Item] /\ DOMAIN h = 1 .. n
  BY SliceType
<1>6. g = [k \in 1 .. n |-> IF k = j THEN b ELSE IF k = i THEN a ELSE h[k]]
  BY <1>5 DEF Swap
<1> HIDE DEF a, b
<1>7. g \in Slice(n)
  BY <1>3, <1>4, <1>5, <1>6, IsSlice
<1>8. ASSUME NEW k \in 1 .. n
      PROVE  /\ Pri(g, k) = IF k = i THEN Pri(h, j) ELSE
                            IF k = j THEN Pri(h, i) ELSE Pri(h, k)
             /\ Idx(g, k) = IF k = i \/ k = j THEN k - 1 ELSE Idx(h, k)
             /\ k # i /\ k # j => g[k] = h[k]
  <2>1. g[k] = IF k = j THEN b ELSE IF k = i THEN a ELSE h[k]
    BY <1>6
  <2>2. CASE k = j
    <3>1. Pri(g, k) = Pri(h, i) /\ Idx(g, k) = j - 1
      BY <1>4, <2>1, <2>2 DEF Pri, Idx
    <3> QED
      BY <3>1, <2>2
  <2>3. CASE k # j /\ k = i
    <3>1. Pri(g, k) = Pri(h, j) /\ Idx(g, k) = i - 1
      BY <1>3, <2>1, <2>3 DEF Pri, Idx
    <3> QED
      BY <3>1, <2>3
  <2>4. CASE k # j /\ k # i
    <3>1. g[k] = h[k]
      BY <2>1, <2>4
    <3>2. Pri(g, k) = Pri(h, k) /\ Idx(g, k) = Idx(h, k)
      BY <3>1 DEF Pri, Idx
    <3> QED
      BY <3>1, <3>2, <2>4
  <2> QED
    BY <2>2, <2>3, <2>4
<1> QED
  BY <1>7, <1>8

\* A priority occurs finitely often.
LEMMA WhereFinite ==
  ASSUME NEW n \in Nat, NEW h \in Slice(n), NEW x
  PROVE  IsFiniteSet(Where(h, x)) /\ Count(h, x) \in Nat
<1>1. Where(h, x) \in SUBSET (1 .. n)
  BY SliceType DEF Where
<1>2. IsFiniteSet(1 .. n)
  BY FS_Interval
<1> QED
  BY <1>1, <1>2, FS_Subset, FS_CardinalityType DEF Count

\* Two places that change their contents.
LEMMA SwapSameItems ==
  ASSUME NEW n \in Nat, n <= MaxLen, NEW h \in Slice(n), NEW i \in 1 .. n, NEW j \in 1 .. n,
         NEW g, g = Swap(h, i, j)
  PROVE  SameItems(g, h)
<1>1. /\ g \in Slice(n)
      /\ \A k \in 1 .. n : Pri(g, k) = IF k = i THEN Pri(h, j) ELSE
                                      IF k = j THEN Pri(h, i) ELSE Pri(h, k)
  BY SwapFacts
<1>2. DOMAIN g = 1 .. n /\ DOMAIN h = 1 .. n
  BY <1>1, SliceType
<1> SUFFICES ASSUME NEW x
             PROVE  Count(g, x) = Count(h, x)
  BY DEF SameItems
<1> DEFINE W == Where(h, x)
<1>3. IsFiniteSet(W) /\ Cardinality(W) \in Nat
  BY WhereFinite DEF Count
<1>4. CASE (i \in W) <=> (j \in W)
  <2>1. Where(g, x) = W
    BY <1>1, <1>2, <1>4 DEF Where
  <2> QED
    BY <2>1 DEF Count
<1>5. CASE i \in W /\ j \notin W
  <2>1. Where(g, x) = (W \ {i}) \cup {j}
    BY <1>1, <1>2, <1>5 DEF Where
  <2>2. IsFiniteSet(W \ {i}) /\ Cardinality(W \ {i}) = Cardinality(W) - 1
    BY <1>3, <1>5, FS_RemoveElement
  <2>3. Cardinality((W \ {i}) \cup {j}) = Cardinality(W \ {i}) + 1
    BY <2>2, <1>5, FS_AddElement
  <2> QED
    BY <1>3, <2>1, <2>2, <2>3 DEF Count
<1>6. CASE i \notin W /\ j \in W
  <2>1. Where(g, x) = (W \ {j}) \cup {i}
    BY <1>1, <1>2, <1>6 DEF Where
  <2>2. IsFiniteSet(W \ {j}) /\ Cardinality(W \ {j}) = Cardinality(W) - 1
    BY <1>3, <1>6, FS_RemoveElement
  <2>3. Cardinality((W \ {j}) \cup {i}) = Cardinality(W \ {j}) + 1
    BY <2>2, <1>6, FS_AddElement
  <2> QED
    BY <1>3, <2>1, <2>2, <2>3 DEF Count
<1> QED
  BY <1>4, <1>5, <1>6

-----------------------------------------------------------------------------
(* up                                                                      *)

State(n) == [h : Slice(n), at : 1 .. n]

\* Where up stops.
AtRest(s) == s.at = 1 \/ Pri(s.h, s.at \div 2) <= Pri(s.h, s.at)

\* Before and after every exchange only the item at s.at may be older than its
\* parent, and what is below it is not older than that parent.
UpOrder(s, n) ==
  /\ \A k \in 2 .. n : k # s.at => Ordered(s.h, k)
  /\ \A k \in 2 .. n : k \div 2 = s.at /\ s.at # 1 => Pri(s.h, s.at \div 2) <= Pri(s.h, k)

\* The parent of an item comes before it.
LEMMA Halves ==
  ASSUME NEW k \in Nat, k >= 2
  PROVE  k \div 2 \in Nat /\ 1 <= k \div 2 /\ k \div 2 < k
  OBVIOUS

\* One exchange of up, or none, keeps the order up relies on.
LEMMA UpOnceOrder ==
  ASSUME NEW n \in Nat, n <= MaxLen, NEW s \in State(n), UpOrder(s, n),
         NEW t, t = upOnce(s)
  PROVE  /\ t \in State(n) /\ UpOrder(t, n)
         /\ SameItems(t.h, s.h)
         /\ InPlace(s.h, n) => InPlace(t.h, n)
         /\ AtRest(s) => t = s
         /\ ~ AtRest(s) => t.at < s.at
<1> DEFINE h == s.h
           a == s.at
           p == a \div 2
           g == Swap(h, p, a)
<1>1. h \in Slice(n) /\ a \in 1 .. n
  BY DEF State
<1>2. \A k \in 1 .. n : Pri(h, k) \in Int
  BY <1>1, SliceType
<1>3. CASE AtRest(s)
  <2>1. t = s
    <3>1. a = 1 \/ ~ Less(h, a, p)
      <4>1. CASE a = 1
        BY <4>1
      <4>2. CASE a # 1
        <5>1. p \in 1 .. n
          BY <1>1, <4>2
        <5>2. Pri(h, p) <= Pri(h, a)
          BY <1>3, <4>2 DEF AtRest
        <5> QED
          BY <1>1, <1>2, <5>1, <5>2 DEF Less, Pri
      <4> QED
        BY <4>1, <4>2
    <3> QED
      BY <3>1 DEF upOnce
  <2> QED
    BY <1>3, <2>1 DEF SameItems
<1>4. CASE ~ AtRest(s)
  <2>1. a # 1 /\ a \in 2 .. n /\ p \in 1 .. n /\ p < a
    BY <1>1, <1>4, Halves DEF AtRest
  <2>2. Pri(h, a) < Pri(h, p)
    BY <1>1, <1>2, <1>4, <2>1 DEF AtRest
  <2>3. t = [h |-> g, at |-> p]
    BY <2>1, <2>2 DEF upOnce, Less, Pri
  <2>4. t.h = g /\ t.at = p
    BY <2>3
  <2>5. /\ g \in Slice(n)
        /\ \A k \in 1 .. n : Pri(g, k) = IF k = p THEN Pri(h, a) ELSE
                                        IF k = a THEN Pri(h, p) ELSE Pri(h, k)
        /\ \A k \in 1 .. n : Idx(g, k) = IF k = p \/ k = a THEN k - 1 ELSE Idx(h, k)
        /\ SameItems(g, h)
    <3> HIDE DEF h, a, p
    <3> QED
      BY <1>1, <2>1, SwapFacts, SwapSameItems
  <2> HIDE DEF g
  <2>6. t \in State(n)
    BY <2>1, <2>3, <2>5 DEF State
  <2>7. InPlace(h, n) => InPlace(g, n)
    BY <2>5 DEF InPlace
  <2>8. ASSUME NEW k \in 2 .. n, k # p
        PROVE  Ordered(g, k)
    <3> DEFINE q == k \div 2
    <3>1. q \in 1 .. n /\ q < k /\ k \in 1 .. n
      BY Halves
    <3>2. k # a => Pri(h, q) <= Pri(h, k)
      BY DEF UpOrder, Ordered
    <3>3. q = a => Pri(h, p) <= Pri(h, k)
      BY <2>1 DEF UpOrder
    <3>4. Pri(h, k) \in Int /\ Pri(h, q) \in Int /\ Pri(h, a) \in Int /\ Pri(h, p) \in Int
      BY <1>1, <1>2, <2>1, <3>1
    <3>5. /\ Pri(g, k) = IF k = a THEN Pri(h, p) ELSE Pri(h, k)
          /\ Pri(g, q) = IF q = p THEN Pri(h, a) ELSE IF q = a THEN Pri(h, p) ELSE Pri(h, q)
      BY <2>5, <2>8, <3>1
    <3>6. k = a => q = p
      OBVIOUS
    <3> HIDE DEF q, p, a, h
    <3>7. Pri(g, q) <= Pri(g, k)
      BY <2>1, <2>2, <3>1, <3>2, <3>3, <3>4, <3>5, <3>6
    <3> QED
      BY <3>7 DEF Ordered, q
  <2>9. ASSUME NEW k \in 2 .. n, k \div 2 = p, p # 1
        PROVE  Pri(g, p \div 2) <= Pri(g, k)
    <3> DEFINE r == p \div 2
    <3>1. r \in 1 .. n /\ r < p /\ p \in 2 .. n /\ k \in 1 .. n /\ p < k
      BY <2>1, <2>9, Halves
    <3>2. Pri(h, r) <= Pri(h, p)
      BY <2>1, <3>1 DEF UpOrder, Ordered
    <3>3. k # a => Pri(h, p) <= Pri(h, k)
      BY <2>9 DEF UpOrder, Ordered
    <3>4. Pri(h, k) \in Int /\ Pri(h, r) \in Int /\ Pri(h, p) \in Int
      BY <1>1, <1>2, <2>1, <3>1
    <3>5. Pri(g, k) = IF k = a THEN Pri(h, p) ELSE Pri(h, k)
      BY <2>5, <3>1
    <3>6. Pri(g, r) = Pri(h, r)
      BY <2>1, <2>5, <3>1
    <3> HIDE DEF r, p, a, h
    <3>7. Pri(g, r) <= Pri(g, k)
      BY <3>2, <3>3, <3>4, <3>5, <3>6
    <3> QED
      BY <3>7 DEF r
  <2>10. UpOrder(t, n)
    BY <2>4, <2>8, <2>9 DEF UpOrder
  <2> QED
    BY <1>4, <2>1, <2>4, <2>5, <2>6, <2>7, <2>10
<1> QED
  BY <1>3, <1>4

\* The steps that up goes through.
UpSteps(h, j) ==
  CHOOSE f : f = [n \in 0 .. Len(h) |-> IF n = 0 THEN [h |-> h, at |-> j] ELSE upOnce(f[n - 1])]

\* up makes a heap of a slice in which one item may be too old for its place.
LEMMA UpFacts ==
  ASSUME NEW n \in Nat, n <= MaxLen, NEW h \in Slice(n), NEW j \in 1 .. n,
         InPlace(h, n), UpOrder([h |-> h, at |-> j], n), NEW g, g = up(h, j)
  PROVE  g \in Slice(n) /\ SameItems(g, h) /\ InPlace(g, n) /\ \A k \in 2 .. n : Ordered(g, k)
<1> DEFINE s0 == [h |-> h, at |-> j]
           V == {s \in State(n) : UpOrder(s, n) /\ InPlace(s.h, n) /\ SameItems(s.h, h)}
           T == [s \in V |-> upOnce(s)]
           I == [m \in 0 .. n |-> {s \in V : s.at + m <= j \/ AtRest(s)}]
           F == UpSteps(h, j)
<1>1. s0 \in V
  <2>1. s0 \in State(n)
    BY DEF State
  <2>2. s0.h = h
    OBVIOUS
  <2> QED
    BY <2>1, <2>2 DEF SameItems
<1>2. ASSUME NEW s \in V
      PROVE  /\ upOnce(s) \in V
             /\ AtRest(s) => upOnce(s) = s
             /\ ~ AtRest(s) => upOnce(s).at < s.at
  <2> DEFINE t == upOnce(s)
  <2>1. s \in State(n) /\ UpOrder(s, n) /\ InPlace(s.h, n) /\ SameItems(s.h, h)
    OBVIOUS
  <2> HIDE DEF V, t
  <2>2. t = upOnce(s)
    BY DEF t
  <2>3. /\ t \in State(n) /\ UpOrder(t, n)
        /\ SameItems(t.h, s.h)
        /\ InPlace(s.h, n) => InPlace(t.h, n)
        /\ AtRest(s) => t = s
        /\ ~ AtRest(s) => t.at < s.at
    BY <2>1, <2>2, UpOnceOrder
  <2>4. SameItems(t.h, h)
    BY <2>1, <2>3 DEF SameItems
  <2>5. t \in V
    BY <2>1, <2>3, <2>4 DEF V
  <2> QED
    BY <2>2, <2>3, <2>5
<1>3. F = [k \in 0 .. n |-> IF k = 0 THEN s0 ELSE upOnce(F[k - 1])]
  <2>1. T \in [V -> V]
    <3> HIDE DEF V
    <3> QED
      BY <1>2
  <2>2. PICK f : Iteration(f, n, V, T, s0)
    <3> HIDE DEF V, T, s0
    <3> QED
      BY <1>1, <2>1, Iterates
  <2>3. f = [k \in 0 .. n |-> IF k = 0 THEN s0 ELSE upOnce(f[k - 1])]
    <3>1. ASSUME NEW k \in 1 .. n
          PROVE  f[k] = upOnce(f[k - 1])
      <4> HIDE DEF V
      <4>1. f[k - 1] \in V
        BY <2>2 DEF Iteration
      <4> QED
        BY <2>2, <4>1 DEF Iteration
    <3> HIDE DEF V, s0, T
    <3> QED
      BY <2>2, <3>1 DEF Iteration
  <2>4. Len(h) = n
    BY SliceType
  <2> HIDE DEF V, T
  <2> QED
    BY <2>3, <2>4, Zenon DEF UpSteps
<1>4. F[0] = s0 /\ \A k \in 1 .. n : F[k] = upOnce(F[k - 1])
  <2> HIDE DEF F, s0
  <2> QED
    BY <1>3
<1>5. F[0] \in I[0]
  <2>1. s0.at + 0 <= j
    OBVIOUS
  <2> HIDE DEF F, V, s0
  <2> QED
    BY <1>1, <1>4, <2>1
<1>6. ASSUME NEW m \in 1 .. n, F[m - 1] \in I[m - 1]
      PROVE  F[m] \in I[m]
  <2> DEFINE s == F[m - 1]
             t == F[m]
  <2>1. s \in V /\ (s.at + (m - 1) <= j \/ AtRest(s))
    BY <1>6
  <2>2. t = upOnce(s)
    BY <1>4
  <2>3. s.at \in Nat
    BY <2>1 DEF State
  <2>4. t \in V /\ t.at \in Nat
    BY <1>2, <2>1, <2>2 DEF State
  <2>5. t.at + m <= j \/ AtRest(t)
    <3> HIDE DEF s, t, F, V
    <3>1. CASE AtRest(s)
      BY <1>2, <2>1, <2>2, <3>1
    <3>2. CASE ~ AtRest(s)
      <4>1. t.at < s.at /\ s.at + (m - 1) <= j
        BY <1>2, <2>1, <2>2, <3>2
      <4> QED
        BY <4>1, <2>3, <2>4
    <3> QED
      BY <3>1, <3>2
  <2> QED
    BY <2>4, <2>5
<1>7. F[n] \in I[n]
  <2> HIDE DEF F, I
  <2> QED
    BY <1>5, <1>6, LastStep
<1>8. F[n] \in V /\ AtRest(F[n])
  <2>1. F[n] \in V /\ (F[n].at + n <= j \/ AtRest(F[n]))
    BY <1>7
  <2>2. F[n].at \in 1 .. n
    BY <2>1 DEF State
  <2> QED
    BY <2>1, <2>2
<1>9. g = F[n].h
  <2>1. up(h, j) = F[Len(h)].h
    BY Zenon DEF up, UpSteps
  <2> QED
    BY <2>1, SliceType
<1>10. ASSUME NEW k \in 2 .. n
       PROVE  Ordered(F[n].h, k)
  <2>1. UpOrder(F[n], n)
    BY <1>8
  <2> HIDE DEF F
  <2>2. k # F[n].at => Ordered(F[n].h, k)
    BY <2>1 DEF UpOrder
  <2>3. k = F[n].at => Ordered(F[n].h, k)
    BY <1>8 DEF AtRest, Ordered
  <2> QED
    BY <2>2, <2>3
<1>11. F[n].h \in Slice(n)
  BY <1>8 DEF State
<1> QED
  BY <1>8, <1>9, <1>10, <1>11

-----------------------------------------------------------------------------
(* down                                                                    *)

\* Where down stops.
Settled(s, m) == 2 * s.at > m \/ Pri(s.h, s.at) <= Pri(s.h, smallerChild(s.h, s.at, m))

\* Among the first m items only the children of the one at s.at may be older than
\* their parent, and they are not older than their grandparent.  The item that
\* down has moved away from i0 is not older than its parent.
DownOrder(s, m, i0) ==
  /\ \A k \in 2 .. m : k # s.at /\ k \div 2 # s.at => Ordered(s.h, k)
  /\ \A k \in 2 .. m : k \div 2 = s.at /\ s.at # 1 => Pri(s.h, s.at \div 2) <= Pri(s.h, k)
  /\ s.at # i0 => Ordered(s.h, s.at)

\* The child that down looks at is the older one.
LEMMA Children ==
  ASSUME NEW n \in Nat, NEW h \in Slice(n), NEW m \in 0 .. n, NEW a \in 1 .. n, 2 * a <= m,
         NEW c, c = smallerChild(h, a, m)
  PROVE  /\ c \in 2 .. m /\ c \div 2 = a /\ a < c
         /\ \A k \in 2 .. m : k \div 2 = a => Pri(h, c) <= Pri(h, k)
<1>1. c \in Nat /\ c <= m /\ (c = 2 * a \/ c = 2 * a + 1)
  BY DEF smallerChild
<1>2. c \in 2 .. m /\ c \div 2 = a /\ a < c
  BY <1>1
<1>3. ASSUME NEW k \in 2 .. m, k \div 2 = a
      PROVE  Pri(h, c) <= Pri(h, k)
  <2>1. k = 2 * a \/ k = 2 * a + 1
    BY <1>3
  <2>2. Pri(h, c) \in Int /\ Pri(h, k) \in Int /\ Pri(h, 2 * a) \in Int
    <3>1. \A l \in 1 .. n : Pri(h, l) \in Int
      BY SliceType
    <3>2. c \in 1 .. n /\ k \in 1 .. n /\ 2 * a \in 1 .. n
      BY <1>2
    <3> QED
      BY <3>1, <3>2
  <2>3. CASE 2 * a + 1 <= m /\ Less(h, 2 * a + 1, 2 * a)
    <3>1. c = 2 * a + 1 /\ Pri(h, 2 * a) > Pri(h, 2 * a + 1)
      BY <2>3 DEF smallerChild, Less, Pri
    <3> QED
      BY <2>1, <2>2, <3>1
  <2>4. CASE ~ (2 * a + 1 <= m /\ Less(h, 2 * a + 1, 2 * a))
    <3>1. c = 2 * a
      BY <2>4 DEF smallerChild
    <3>2. k = 2 * a + 1 => ~ (Pri(h, 2 * a) > Pri(h, k))
      BY <2>4 DEF Less, Pri
    <3> QED
      BY <2>1, <2>2, <3>1, <3>2
  <2> QED
    BY <2>3, <2>4
<1> QED
  BY <1>2, <1>3

\* One exchange of down, or none, keeps the order down relies on.
LEMMA DownOnceOrder ==
  ASSUME NEW n \in Nat, n <= MaxLen, NEW m \in 0 .. n, NEW s \in State(n),
         NEW i0 \in 1 .. n, s.at >= i0, DownOrder(s, m, i0),
         NEW t, t = downOnce(s, m)
  PROVE  /\ t \in State(n) /\ DownOrder(t, m, i0)
         /\ SameItems(t.h, s.h)
         /\ InPlace(s.h, n) => InPlace(t.h, n)
         /\ \A k \in m + 1 .. n : t.h[k] = s.h[k]
         /\ Settled(s, m) => t = s
         /\ ~ Settled(s, m) => t.at > s.at /\ t.at <= m
<1> DEFINE h == s.h
           a == s.at
           c == smallerChild(h, a, m)
           g == Swap(h, a, c)
<1>1. h \in Slice(n) /\ a \in 1 .. n
  BY DEF State
<1>2. \A k \in 1 .. n : Pri(h, k) \in Int
  BY <1>1, SliceType
<1>3. 2 * a <= m => /\ c \in 2 .. m /\ c \div 2 = a /\ a < c
                    /\ \A k \in 2 .. m : k \div 2 = a => Pri(h, c) <= Pri(h, k)
  <2> HIDE DEF h, a
  <2> QED
    BY <1>1, Children
<1>4. CASE Settled(s, m)
  <2>1. t = s
    <3>1. 2 * a > m \/ ~ Less(h, c, a)
      <4>1. CASE 2 * a > m
        BY <4>1
      <4>2. CASE ~ (2 * a > m)
        <5>1. Pri(h, a) <= Pri(h, c)
          BY <1>4, <4>2 DEF Settled
        <5>2. Pri(h, a) \in Int /\ Pri(h, c) \in Int
          BY <1>1, <1>2, <1>3, <4>2
        <5>3. ~ (Pri(h, a) > Pri(h, c))
          BY <5>1, <5>2
        <5> QED
          BY <5>3 DEF Less, Pri
      <4> QED
        BY <4>1, <4>2
    <3> QED
      BY <3>1 DEF downOnce
  <2> QED
    BY <1>4, <2>1 DEF SameItems
<1>5. CASE ~ Settled(s, m)
  <2>1. 2 * a <= m /\ c \in 2 .. m /\ c \div 2 = a /\ a < c /\ c \in 1 .. n /\ a <= m
    BY <1>1, <1>3, <1>5 DEF Settled
  <2>2. Pri(h, c) < Pri(h, a)
    <3>1. ~ (Pri(h, a) <= Pri(h, c))
      BY <1>5 DEF Settled
    <3>2. Pri(h, a) \in Int /\ Pri(h, c) \in Int
      BY <1>1, <1>2, <2>1
    <3> QED
      BY <3>1, <3>2
  <2>3. t = [h |-> g, at |-> c]
    <3>1. Less(h, c, a)
      BY <2>2 DEF Less, Pri
    <3>2. ~ (2 * a > m)
      BY <2>1
    <3> QED
      BY <3>1, <3>2 DEF downOnce
  <2>4. t.h = g /\ t.at = c
    BY <2>3
  <2>5. /\ g \in Slice(n)
        /\ \A k \in 1 .. n : Pri(g, k) = IF k = a THEN Pri(h, c) ELSE
                                        IF k = c THEN Pri(h, a) ELSE Pri(h, k)
        /\ \A k \in 1 .. n : Idx(g, k) = IF k = a \/ k = c THEN k - 1 ELSE Idx(h, k)
        /\ \A k \in 1 .. n : k # a /\ k # c => g[k] = h[k]
        /\ SameItems(g, h)
    <3> HIDE DEF h, a, c
    <3>1. SameItems(g, h)
      BY <1>1, <2>1, SwapSameItems
    <3>2. a \in 1 .. n /\ c \in 1 .. n
      BY <1>1, <2>1
    <3> QED
      BY <1>1, <3>1, <3>2, SwapFacts
  <2> HIDE DEF g, c
  <2>6. t \in State(n)
    BY <2>1, <2>3, <2>5 DEF State
  <2>7. InPlace(h, n) => InPlace(g, n)
    BY <2>5 DEF InPlace
  <2>8. ASSUME NEW k \in 2 .. m, k # c, k \div 2 # c
        PROVE  Ordered(g, k)
    <3> DEFINE q == k \div 2
    <3>1. q \in 1 .. n /\ q < k /\ k \in 1 .. n
      BY Halves
    <3>2. k # a /\ q # a => Pri(h, q) <= Pri(h, k)
      BY DEF DownOrder, Ordered
    <3>3. k = a => Pri(h, q) <= Pri(h, c)
      <4> SUFFICES ASSUME k = a PROVE Pri(h, a \div 2) <= Pri(h, c)
        OBVIOUS
      <4> QED
        BY <2>1 DEF DownOrder
    <3>4. q = a => Pri(h, c) <= Pri(h, k)
      BY <1>3, <2>1 DEF c
    <3>5. /\ Pri(g, k) = IF k = a THEN Pri(h, c) ELSE Pri(h, k)
          /\ Pri(g, q) = IF q = a THEN Pri(h, c) ELSE Pri(h, q)
      BY <2>5, <2>8, <3>1
    <3> HIDE DEF q, a, h
    <3>6. Pri(g, q) <= Pri(g, k)
      BY <3>1, <3>2, <3>3, <3>4, <3>5
    <3> QED
      BY <3>6 DEF Ordered, q
  <2>9. ASSUME NEW k \in 2 .. m, k \div 2 = c
        PROVE  Pri(g, c \div 2) <= Pri(g, k)
    <3>1. k \in 1 .. n /\ k # c /\ k # a /\ c < k
      BY <2>1, <2>9, Halves
    <3>2. Pri(h, c) <= Pri(h, k)
      BY <2>1, <2>9, <3>1 DEF DownOrder, Ordered
    <3>3. Pri(g, k) = Pri(h, k) /\ Pri(g, a) = Pri(h, c)
      BY <1>1, <2>5, <3>1
    <3> QED
      BY <2>1, <3>2, <3>3
  <2>10. Ordered(g, c)
    <3>1. Pri(g, c) = Pri(h, a) /\ Pri(g, a) = Pri(h, c)
      BY <1>1, <2>1, <2>5
    <3>2. Pri(h, a) \in Int /\ Pri(h, c) \in Int
      BY <1>1, <1>2, <2>1
    <3>3. Pri(g, a) <= Pri(g, c)
      BY <2>2, <3>1, <3>2
    <3> QED
      BY <2>1, <3>3 DEF Ordered
  <2>11. DownOrder(t, m, i0)
    BY <2>4, <2>8, <2>9, <2>10 DEF DownOrder
  <2>12. \A k \in m + 1 .. n : g[k] = h[k]
    BY <2>1, <2>5
  <2> QED
    BY <1>5, <2>1, <2>4, <2>5, <2>6, <2>7, <2>11, <2>12
<1> QED
  BY <1>4, <1>5

\* The steps that down goes through.
DownSteps(h, i0, m) ==
  CHOOSE f : f = [k \in 0 .. Len(h) |-> IF k = 0 THEN [h |-> h, at |-> i0] ELSE downOnce(f[k - 1], m)]

\* down makes a heap of the first m items, if only the one at i0 may be too young for
\* its place; when it does not move it, only its own parent may be too young.
LEMMA DownFacts ==
  ASSUME NEW n \in Nat, n <= MaxLen, NEW m \in 0 .. n, NEW h \in Slice(n), NEW i0 \in 1 .. n,
         InPlace(h, n), DownOrder([h |-> h, at |-> i0], m, i0), NEW r, r = down(h, i0, m)
  PROVE  /\ r \in State(n) /\ SameItems(r.h, h) /\ InPlace(r.h, n)
         /\ \A k \in m + 1 .. n : r.h[k] = h[k]
         /\ r.at >= i0
         /\ r.at = i0 => r.h = h
         /\ \A k \in 2 .. m : k # i0 \/ r.at # i0 => Ordered(r.h, k)
<1> DEFINE s0 == [h |-> h, at |-> i0]
           V == {s \in State(n) : /\ DownOrder(s, m, i0) /\ InPlace(s.h, n) /\ SameItems(s.h, h)
                                  /\ s.at >= i0 /\ (s.at = i0 => s.h = h)
                                  /\ \A k \in m + 1 .. n : s.h[k] = h[k]}
           T == [s \in V |-> downOnce(s, m)]
           I == [k \in 0 .. n |-> {s \in V : s.at >= i0 + k \/ Settled(s, m)}]
           F == DownSteps(h, i0, m)
<1>1. s0 \in V
  <2>1. s0 \in State(n)
    BY DEF State
  <2>2. s0.h = h /\ s0.at = i0
    OBVIOUS
  <2> QED
    BY <2>1, <2>2 DEF SameItems
<1>2. ASSUME NEW s \in V
      PROVE  /\ downOnce(s, m) \in V
             /\ Settled(s, m) => downOnce(s, m) = s
             /\ ~ Settled(s, m) => downOnce(s, m).at > s.at
  <2> DEFINE t == downOnce(s, m)
  <2>1. /\ s \in State(n) /\ DownOrder(s, m, i0) /\ InPlace(s.h, n) /\ SameItems(s.h, h)
        /\ s.at >= i0 /\ (s.at = i0 => s.h = h)
        /\ \A k \in m + 1 .. n : s.h[k] = h[k]
    OBVIOUS
  <2> HIDE DEF V, t
  <2>2. t = downOnce(s, m)
    BY DEF t
  <2>3. /\ t \in State(n) /\ DownOrder(t, m, i0)
        /\ SameItems(t.h, s.h)
        /\ InPlace(s.h, n) => InPlace(t.h, n)
        /\ \A k \in m + 1 .. n : t.h[k] = s.h[k]
        /\ Settled(s, m) => t = s
        /\ ~ Settled(s, m) => t.at > s.at /\ t.at <= m
    BY <2>1, <2>2, DownOnceOrder
  <2>4. SameItems(t.h, h)
    BY <2>1, <2>3 DEF SameItems
  <2>5. s.at \in Int /\ t.at \in Int
    BY <2>1, <2>3 DEF State
  <2>6. t.at >= i0 /\ (t.at = i0 => t.h = h)
    <3>1. CASE Settled(s, m)
      BY <2>1, <2>3, <3>1
    <3>2. CASE ~ Settled(s, m)
      BY <2>1, <2>3, <2>5, <3>2
    <3> QED
      BY <3>1, <3>2
  <2>7. \A k \in m + 1 .. n : t.h[k] = h[k]
    BY <2>1, <2>3
  <2>8. t \in V
    BY <2>1, <2>3, <2>4, <2>6, <2>7 DEF V
  <2> QED
    BY <2>2, <2>3, <2>8
<1>3. F = [k \in 0 .. n |-> IF k = 0 THEN s0 ELSE downOnce(F[k - 1], m)]
  <2>1. T \in [V -> V]
    <3> HIDE DEF V
    <3> QED
      BY <1>2
  <2>2. PICK f : Iteration(f, n, V, T, s0)
    <3> HIDE DEF V, T, s0
    <3> QED
      BY <1>1, <2>1, Iterates
  <2>3. f = [k \in 0 .. n |-> IF k = 0 THEN s0 ELSE downOnce(f[k - 1], m)]
    <3>1. ASSUME NEW k \in 1 .. n
          PROVE  f[k] = downOnce(f[k - 1], m)
      <4> HIDE DEF V
      <4>1. f[k - 1] \in V
        BY <2>2 DEF Iteration
      <4> QED
        BY <2>2, <4>1 DEF Iteration
    <3> HIDE DEF V, s0, T
    <3> QED
      BY <2>2, <3>1 DEF Iteration
  <2>4. Len(h) = n
    BY SliceType
  <2> HIDE DEF V, T
  <2> QED
    BY <2>3, <2>4, Zenon DEF DownSteps
<1>4. F[0] = s0 /\ \A k \in 1 .. n : F[k] = downOnce(F[k - 1], m)
  <2> HIDE DEF F, s0
  <2> QED
    BY <1>3
<1>5. F[0] \in I[0]
  <2>1. s0.at >= i0 + 0
    OBVIOUS
  <2> HIDE DEF F, V, s0
  <2> QED
    BY <1>1, <1>4, <2>1
<1>6. ASSUME NEW k \in 1 .. n, F[k - 1] \in I[k - 1]
      PROVE  F[k] \in I[k]
  <2> DEFINE s == F[k - 1]
             t == F[k]
  <2>1. s \in V /\ (s.at >= i0 + (k - 1) \/ Settled(s, m))
    BY <1>6
  <2>2. t = downOnce(s, m)
    BY <1>4
  <2>3. s.at \in Nat
    BY <2>1 DEF State
  <2>4. t \in V /\ t.at \in Nat
    BY <1>2, <2>1, <2>2 DEF State
  <2>5. t.at >= i0 + k \/ Settled(t, m)
    <3> HIDE DEF s, t, F, V
    <3>1. CASE Settled(s, m)
      BY <1>2, <2>1, <2>2, <3>1
    <3>2. CASE ~ Settled(s, m)
      <4>1. t.at > s.at /\ s.at >= i0 + (k - 1)
        BY <1>2, <2>1, <2>2, <3>2
      <4> QED
        BY <4>1, <2>3, <2>4
    <3> QED
      BY <3>1, <3>2
  <2> QED
    BY <2>4, <2>5
<1>7. F[n] \in I[n]
  <2> HIDE DEF F, I
  <2> QED
    BY <1>5, <1>6, LastStep
<1>8. F[n] \in V /\ Settled(F[n], m)
  <2>1. F[n] \in V /\ (F[n].at >= i0 + n \/ Settled(F[n], m))
    BY <1>7
  <2>2. F[n].at \in 1 .. n
    BY <2>1 DEF State
  <2> QED
    BY <2>1, <2>2
<1>9. r = F[n]
  <2>1. down(h, i0, m) = F[Len(h)]
    BY Zenon DEF down, DownSteps
  <2> QED
    BY <2>1, SliceType
<1> HIDE DEF F
<1>10. /\ r \in State(n) /\ DownOrder(r, m, i0) /\ InPlace(r.h, n) /\ SameItems(r.h, h)
       /\ r.at >= i0 /\ (r.at = i0 => r.h = h)
       /\ \A k \in m + 1 .. n : r.h[k] = h[k]
       /\ Settled(r, m)
  BY <1>8, <1>9
<1>11. r.h \in Slice(n) /\ r.at \in 1 .. n
  BY <1>10 DEF State
<1>12. ASSUME NEW k \in 2 .. m, k \div 2 = r.at
       PROVE  Ordered(r.h, k)
  <2> DEFINE c == smallerChild(r.h, r.at, m)
  <2>1. 2 * r.at <= m
    BY <1>11, <1>12
  <2>2. c \in 2 .. m /\ \A l \in 2 .. m : l \div 2 = r.at => Pri(r.h, c) <= Pri(r.h, l)
    BY <1>11, <2>1, Children
  <2>3. Pri(r.h, r.at) <= Pri(r.h, c)
    BY <1>10, <1>11, <2>1 DEF Settled
  <2> HIDE DEF c
  <2>4. \A l \in 1 .. n : Pri(r.h, l) \in Int
    BY <1>11, SliceType
  <2>5. Pri(r.h, r.at) \in Int /\ Pri(r.h, c) \in Int /\ Pri(r.h, k) \in Int
    BY <1>11, <2>2, <2>4
  <2>6. Pri(r.h, c) <= Pri(r.h, k)
    BY <1>12, <2>2
  <2>7. Pri(r.h, r.at) <= Pri(r.h, k)
    BY <2>3, <2>5, <2>6
  <2> QED
    BY <1>12, <2>7 DEF Ordered
<1>13. ASSUME NEW k \in 2 .. m, k # i0 \/ r.at # i0
       PROVE  Ordered(r.h, k)
  <2>1. CASE k \div 2 = r.at
    BY <1>12, <2>1
  <2>2. CASE k \div 2 # r.at /\ k # r.at
    BY <1>10, <2>2 DEF DownOrder
  <2>3. CASE k = r.at
    BY <1>10, <1>13, <2>3 DEF DownOrder
  <2> QED
    BY <2>1, <2>2, <2>3
<1> QED
  BY <1>10, <1>13

-----------------------------------------------------------------------------
(* Fix, and the oldest item                                                *)

\* Fix makes a heap of a slice in which one item has any priority.
LEMMA FixFacts ==
  ASSUME NEW n \in Nat, n <= MaxLen, NEW h \in Slice(n), NEW i \in 1 .. n, InPlace(h, n),
         \A k \in 2 .. n : k # i /\ k \div 2 # i => Ordered(h, k),
         \A k \in 2 .. n : k \div 2 = i /\ i # 1 => Pri(h, i \div 2) <= Pri(h, k),
         NEW g, g = Fix(h, i)
  PROVE  g \in Slice(n) /\ SameItems(g, h) /\ InPlace(g, n) /\ \A k \in 2 .. n : Ordered(g, k)
<1> DEFINE r == down(h, i, n)
           s0 == [h |-> h, at |-> i]
<1>1. s0.h = h /\ s0.at = i
  OBVIOUS
<1>2. DownOrder(s0, n, i)
  <2> HIDE DEF s0
  <2> QED
    BY <1>1 DEF DownOrder
<1>3. /\ r \in State(n) /\ SameItems(r.h, h) /\ InPlace(r.h, n)
      /\ r.at >= i /\ (r.at = i => r.h = h)
      /\ \A k \in 2 .. n : k # i \/ r.at # i => Ordered(r.h, k)
  BY <1>2, DownFacts
<1>4. Len(h) = n
  BY SliceType
<1>5. g = IF r.at > i THEN r.h ELSE up(h, i)
  BY <1>4 DEF Fix
<1> HIDE DEF r
<1>6. r.h \in Slice(n) /\ r.at \in Int
  BY <1>3 DEF State
<1>7. CASE r.at > i
  BY <1>3, <1>5, <1>6, <1>7
<1>8. CASE ~ (r.at > i)
  <2>1. r.at = i /\ r.h = h
    BY <1>3, <1>6, <1>8
  <2>2. \A k \in 2 .. n : k # i => Ordered(h, k)
    BY <1>3, <2>1
  <2>3. UpOrder(s0, n)
    <3> HIDE DEF s0
    <3> QED
      BY <1>1, <2>2 DEF UpOrder
  <2>4. g = up(h, i)
    BY <1>5, <1>8
  <2> QED
    BY <2>3, <2>4, UpFacts
<1> QED
  BY <1>7, <1>8

\* The item at the front is an oldest one.
LEMMA RootIsOldest ==
  ASSUME NEW n \in Nat, NEW h \in Slice(n), \A k \in 2 .. n : Ordered(h, k), NEW i \in 1 .. n
  PROVE  Pri(h, 1) <= Pri(h, i)
<1> DEFINE S == {m \in Nat : \A k \in 1 .. n : k <= m + 1 => Pri(h, 1) <= Pri(h, k)}
<1>1. \A k \in 1 .. n : Pri(h, k) \in Int
  BY SliceType
<1>2. 0 \in S
  BY <1>1
<1>3. ASSUME NEW m \in Nat, m \in S
      PROVE  m + 1 \in S
  <2> SUFFICES ASSUME NEW k \in 1 .. n, k <= m + 2
               PROVE  Pri(h, 1) <= Pri(h, k)
    OBVIOUS
  <2>1. CASE k = 1
    BY <1>1, <2>1
  <2>2. CASE k # 1
    <3> DEFINE q == k \div 2
    <3>1. k \in 2 .. n /\ q \in 1 .. n /\ q < k
      BY <2>2, Halves
    <3>2. q <= m + 1
      BY <3>1
    <3>3. Pri(h, 1) <= Pri(h, q)
      BY <1>3, <3>1, <3>2
    <3>4. Pri(h, q) <= Pri(h, k)
      BY <3>1 DEF Ordered
    <3>5. Pri(h, 1) \in Int /\ Pri(h, q) \in Int /\ Pri(h, k) \in Int
      BY <1>1, <3>1
    <3> HIDE DEF q
    <3> QED
      BY <3>3, <3>4, <3>5
  <2> QED
    BY <2>1, <2>2
<1>4. n \in S
  <2> HIDE DEF S
  <2> QED
    BY <1>2, <1>3, Induction
<1> QED
  BY <1>4

-----------------------------------------------------------------------------
(* Bags                                                                    *)

\* The bag with c[x] copies of x.
BagOf(c) == [x \in {y \in Priority : c[y] > 0} |-> c[x]]

Counts(h) == [x \in Priority |-> Count(h, x)]

Items(h) == ToBag([i \in DOMAIN h |-> h[i].Priority])

\* One copy more.
LEMMA BagAdd ==
  ASSUME NEW c \in [Priority -> Nat], NEW d \in [Priority -> Nat], NEW p \in Priority,
         \A x \in Priority : d[x] = IF x = p THEN c[x] + 1 ELSE c[x]
  PROVE  BagOf(d) = BagOf(c) (+) SetToBag({p})
<1> DEFINE A == BagOf(c)
           B == SetToBag({p})
           S == {y \in Priority : c[y] > 0}
<1>1. DOMAIN A = S /\ \A x \in S : A[x] = c[x]
  BY DEF BagOf
<1>2. DOMAIN B = {p} /\ B[p] = 1
  BY DEF SetToBag
<1>3. {y \in Priority : d[y] > 0} = S \cup {p}
  OBVIOUS
<1>4. A (+) B = [x \in S \cup {p} |-> (IF x \in S THEN A[x] ELSE 0) + (IF x \in {p} THEN B[x] ELSE 0)]
  <2> HIDE DEF A, B, S
  <2> QED
    BY <1>1, <1>2, Zenon DEF (+)
<1>5. ASSUME NEW x \in S \cup {p}
      PROVE  d[x] = (IF x \in S THEN A[x] ELSE 0) + (IF x \in {p} THEN B[x] ELSE 0)
  <2> HIDE DEF A, B
  <2>1. CASE x = p
    <3>1. d[x] = c[x] + 1 /\ c[x] \in Nat
      BY <2>1
    <3>2. (IF x \in {p} THEN B[x] ELSE 0) = 1
      BY <1>2, <2>1
    <3>3. (IF x \in S THEN A[x] ELSE 0) = c[x]
      BY <1>1, <2>1
    <3> QED
      BY <3>1, <3>2, <3>3
  <2>2. CASE x # p
    <3>1. d[x] = c[x] /\ c[x] \in Nat /\ x \in S
      BY <2>2
    <3> QED
      BY <1>1, <2>2, <3>1
  <2> QED
    BY <2>1, <2>2
<1> HIDE DEF A, B, S
<1>6. BagOf(d) = [x \in S \cup {p} |-> d[x]]
  BY <1>3 DEF BagOf
<1> QED
  BY <1>4, <1>5, <1>6 DEF A, B

\* One copy less.
LEMMA BagSub ==
  ASSUME NEW c \in [Priority -> Nat], NEW d \in [Priority -> Nat], NEW p \in Priority, c[p] > 0,
         \A x \in Priority : d[x] = IF x = p THEN c[x] - 1 ELSE c[x]
  PROVE  BagOf(d) = BagOf(c) (-) SetToBag({p})
<1> DEFINE A == BagOf(c)
           B == SetToBag({p})
           S == {y \in Priority : c[y] > 0}
           C == [e \in DOMAIN A |-> IF e \in DOMAIN B THEN A[e] - B[e] ELSE A[e]]
<1>1. DOMAIN A = S /\ \A x \in S : A[x] = c[x]
  BY DEF BagOf
<1>2. DOMAIN B = {p} /\ B[p] = 1
  BY DEF SetToBag
<1>3. A (-) B = [e \in {x \in DOMAIN C : C[x] > 0} |-> C[e]]
  <2> HIDE DEF A, B
  <2> QED
    BY Zenon DEF (-)
<1>4. DOMAIN C = S /\ \A x \in S : C[x] = d[x]
  <2> HIDE DEF A, B
  <2> QED
    BY <1>1, <1>2
<1>5. {x \in DOMAIN C : C[x] > 0} = {y \in Priority : d[y] > 0}
  <2> HIDE DEF C
  <2> QED
    BY <1>4
<1>6. ASSUME NEW x \in {y \in Priority : d[y] > 0}
      PROVE  C[x] = d[x]
  <2> HIDE DEF C
  <2>1. x \in S
    OBVIOUS
  <2> QED
    BY <1>4, <2>1
<1> HIDE DEF C, A, B, S
<1> QED
  BY <1>3, <1>5, <1>6 DEF BagOf, A, B

\* The bag of the items of a slice, by their number.
LEMMA ItemsAreCounted ==
  ASSUME NEW n \in Nat, NEW h \in Slice(n)
  PROVE  /\ Counts(h) \in [Priority -> Nat]
         /\ Items(h) = BagOf(Counts(h))
         /\ \A x \in DOMAIN Items(h) : \E k \in 1 .. n : x = Pri(h, k)
         /\ \A k \in 1 .. n : Pri(h, k) \in DOMAIN Items(h) /\ Counts(h)[Pri(h, k)] > 0
<1> DEFINE f == [k \in DOMAIN h |-> h[k].Priority]
<1>1. DOMAIN h = 1 .. n /\ \A k \in 1 .. n : Pri(h, k) \in Priority
  BY SliceType
<1>2. \A x : Count(h, x) \in Nat /\ IsFiniteSet(Where(h, x))
  BY WhereFinite
<1>3. Counts(h) \in [Priority -> Nat]
  BY <1>2 DEF Counts
<1>4. DOMAIN f = 1 .. n /\ \A k \in 1 .. n : f[k] = Pri(h, k)
  BY <1>1 DEF Pri
<1> HIDE DEF f
<1>5. \A x : {k \in DOMAIN f : f[k] = x} = Where(h, x)
  BY <1>1, <1>4 DEF Where
<1>6. Items(h) = [x \in Range(f) |-> Count(h, x)]
  <2>1. Items(h) = [x \in Range(f) |-> Cardinality({k \in DOMAIN f : f[k] = x})]
    BY Zenon DEF Items, ToBag, f
  <2> QED
    BY <1>5, <2>1 DEF Count
<1>7. ASSUME NEW x
      PROVE  x \in Range(f) <=> \E k \in 1 .. n : x = Pri(h, k)
  BY <1>4 DEF Range
<1>8. ASSUME NEW x
      PROVE  Count(h, x) > 0 <=> \E k \in 1 .. n : x = Pri(h, k)
  <2>1. Count(h, x) = 0 <=> Where(h, x) = {}
    BY <1>2, FS_EmptySet DEF Count
  <2>2. Where(h, x) = {} <=> ~ \E k \in 1 .. n : x = Pri(h, k)
    BY <1>1 DEF Where
  <2> QED
    BY <1>2, <2>1, <2>2
<1>9. Range(f) = {y \in Priority : Counts(h)[y] > 0}
  BY <1>1, <1>7, <1>8 DEF Counts
<1>10. Items(h) = BagOf(Counts(h))
  BY <1>6, <1>9 DEF BagOf, Counts
<1>11. DOMAIN Items(h) = Range(f)
  BY <1>6
<1>12. \A k \in 1 .. n : Counts(h)[Pri(h, k)] > 0
  BY <1>1, <1>8 DEF Counts
<1> QED
  BY <1>3, <1>7, <1>10, <1>11, <1>12

-----------------------------------------------------------------------------
(* The operations on a slice that is a heap with its items in place        *)

GoodHeap(h, n) == h \in Slice(n) /\ InPlace(h, n) /\ \A k \in 2 .. n : Ordered(h, k)

\* A slice with one more item at its end.
LEMMA LongerSlice ==
  ASSUME NEW n \in Nat, NEW h \in Slice(n), NEW g \in Slice(n + 1),
         \A k \in 1 .. n : Pri(g, k) = Pri(h, k)
  PROVE  \A x : Count(g, x) = IF x = Pri(g, n + 1) THEN Count(h, x) + 1 ELSE Count(h, x)
<1> SUFFICES ASSUME NEW x
             PROVE  Count(g, x) = IF x = Pri(g, n + 1) THEN Count(h, x) + 1 ELSE Count(h, x)
  OBVIOUS
<1>1. DOMAIN h = 1 .. n /\ DOMAIN g = 1 .. n + 1
  BY SliceType
<1>2. IsFiniteSet(Where(h, x)) /\ n + 1 \notin Where(h, x)
  <2>1. n + 1 \notin Where(h, x)
    BY <1>1 DEF Where
  <2> QED
    BY <2>1, WhereFinite
<1>3. CASE x = Pri(g, n + 1)
  <2>1. Where(g, x) = Where(h, x) \cup {n + 1}
    BY <1>1, <1>3 DEF Where
  <2> QED
    BY <1>2, <1>3, <2>1, FS_AddElement DEF Count
<1>4. CASE x # Pri(g, n + 1)
  <2>1. Where(g, x) = Where(h, x)
    BY <1>1, <1>4 DEF Where
  <2> QED
    BY <1>4, <2>1 DEF Count
<1> QED
  BY <1>3, <1>4

\* The same items make the same bag.
LEMMA SameCounts ==
  ASSUME NEW g, NEW h, SameItems(g, h)
  PROVE  Counts(g) = Counts(h)
  BY DEF SameItems, Counts

\* heap.Push keeps the heap and adds one item.
LEMMA PushWorks ==
  ASSUME NEW n \in Nat, n < MaxLen, NEW h, GoodHeap(h, n), NEW p \in Priority,
         NEW g, g = up(Append(h, [Priority |-> p, Index |-> Len(h)]), Len(h) + 1)
  PROVE  GoodHeap(g, n + 1) /\ Items(g) = Items(h) (+) SetToBag({p})
<1> DEFINE e == [Priority |-> p, Index |-> n]
           l == Append(h, e)
           s0 == [h |-> l, at |-> n + 1]
<1>1. h \in Slice(n) /\ h \in Seq(Item) /\ Len(h) = n /\ \A k \in 1 .. n : h[k] \in Item
  BY SliceType DEF GoodHeap
<1>2. MaxLen \in Nat /\ n \in -1 .. MaxLen /\ n + 1 <= MaxLen /\ n + 1 \in Nat
  BY QueueAssumption
<1>3. e \in Item /\ e.Priority = p /\ e.Index = n
  BY <1>2 DEF Item
<1> HIDE DEF e
<1>4. /\ l \in Slice(n + 1)
      /\ \A k \in 1 .. n : l[k] = h[k]
      /\ l[n + 1] = e
  <2>1. l \in Seq(Item) /\ Len(l) = n + 1
    BY <1>1, <1>3
  <2> QED
    BY <1>1, <1>3, <2>1 DEF Slice
<1>5. g = up(l, n + 1)
  BY <1>1 DEF e
<1> HIDE DEF l
<1>6. /\ \A k \in 1 .. n : Pri(l, k) = Pri(h, k) /\ Idx(l, k) = Idx(h, k)
      /\ Pri(l, n + 1) = p /\ Idx(l, n + 1) = n
  BY <1>3, <1>4 DEF Pri, Idx
<1>7. InPlace(l, n + 1)
  <2> SUFFICES ASSUME NEW k \in 1 .. n + 1 PROVE Idx(l, k) = k - 1
    BY DEF InPlace
  <2>1. CASE k = n + 1
    BY <1>6, <2>1
  <2>2. CASE k # n + 1
    BY <1>6, <2>2 DEF GoodHeap, InPlace
  <2> QED
    BY <2>1, <2>2
<1>8. UpOrder(s0, n + 1)
  <2>1. s0.h = l /\ s0.at = n + 1
    OBVIOUS
  <2>2. ASSUME NEW k \in 2 .. n + 1, k # n + 1
        PROVE  Ordered(l, k)
    <3>1. k \in 2 .. n /\ k \in 1 .. n /\ k \div 2 \in 1 .. n
      BY <2>2, Halves
    <3> QED
      BY <1>6, <3>1 DEF GoodHeap, Ordered
  <2>3. ASSUME NEW k \in 2 .. n + 1
        PROVE  k \div 2 # n + 1
    BY Halves
  <2> HIDE DEF s0
  <2> QED
    BY <2>1, <2>2, <2>3 DEF UpOrder
<1>9. g \in Slice(n + 1) /\ SameItems(g, l) /\ InPlace(g, n + 1) /\ \A k \in 2 .. n + 1 : Ordered(g, k)
  <2>1. n + 1 \in 1 .. n + 1
    OBVIOUS
  <2> QED
    BY <1>2, <1>4, <1>5, <1>7, <1>8, <2>1, UpFacts
<1>10. Items(g) = BagOf(Counts(l)) /\ Items(h) = BagOf(Counts(h))
  BY <1>1, <1>2, <1>9, ItemsAreCounted, SameCounts
<1>11. BagOf(Counts(l)) = BagOf(Counts(h)) (+) SetToBag({p})
  <2>1. Counts(l) \in [Priority -> Nat] /\ Counts(h) \in [Priority -> Nat]
    BY <1>1, <1>2, <1>4, ItemsAreCounted
  <2>2. \A x : Count(l, x) = IF x = p THEN Count(h, x) + 1 ELSE Count(h, x)
    BY <1>1, <1>4, <1>6, LongerSlice
  <2>3. \A x \in Priority : Counts(l)[x] = IF x = p THEN Counts(h)[x] + 1 ELSE Counts(h)[x]
    BY <2>2 DEF Counts
  <2> QED
    BY <2>1, <2>3, BagAdd
<1> QED
  BY <1>9, <1>10, <1>11 DEF GoodHeap

\* heap.Pop keeps the heap and takes out one oldest item.
LEMMA PopWorks ==
  ASSUME NEW n \in Nat, n > 0, n <= MaxLen, NEW h, GoodHeap(h, n),
         NEW r, r = down(Swap(h, 1, n), 1, n - 1).h, NEW g, g = Front(r), NEW p, p = Last(r).Priority
  PROVE  /\ GoodHeap(g, n - 1) /\ p \in Priority
         /\ p \in DOMAIN Items(h) /\ \A q \in DOMAIN Items(h) : p <= q
         /\ Items(g) = Items(h) (-) SetToBag({p})
<1> DEFINE w == Swap(h, 1, n)
           s0 == [h |-> w, at |-> 1]
           d == down(w, 1, n - 1)
<1>1. h \in Slice(n) /\ 1 \in 1 .. n /\ n \in 1 .. n /\ n - 1 \in 0 .. n /\ n - 1 \in Nat
  BY DEF GoodHeap
<1>2. /\ w \in Slice(n)
      /\ \A k \in 1 .. n : Pri(w, k) = IF k = 1 THEN Pri(h, n) ELSE
                                      IF k = n THEN Pri(h, 1) ELSE Pri(h, k)
      /\ \A k \in 1 .. n : Idx(w, k) = IF k = 1 \/ k = n THEN k - 1 ELSE Idx(h, k)
  BY <1>1, SwapFacts
<1>3. SameItems(w, h)
  BY <1>1, SwapSameItems
<1> HIDE DEF w
<1>4. InPlace(w, n)
  BY <1>2 DEF GoodHeap, InPlace
<1>5. DownOrder(s0, n - 1, 1)
  <2>1. s0.h = w /\ s0.at = 1
    OBVIOUS
  <2>2. ASSUME NEW k \in 2 .. n - 1, k \div 2 # 1
        PROVE  Ordered(w, k)
    <3>1. k \in 1 .. n /\ k # 1 /\ k # n /\ k \div 2 \in 1 .. n /\ k \div 2 # n /\ k \in 2 .. n
      BY <2>2, Halves
    <3>2. Pri(w, k) = Pri(h, k) /\ Pri(w, k \div 2) = Pri(h, k \div 2)
      BY <1>2, <2>2, <3>1
    <3> QED
      BY <3>1, <3>2 DEF GoodHeap, Ordered
  <2> HIDE DEF s0
  <2> QED
    BY <2>1, <2>2 DEF DownOrder
<1>6. /\ d \in State(n) /\ SameItems(d.h, w) /\ InPlace(d.h, n)
      /\ \A k \in (n - 1) + 1 .. n : d.h[k] = w[k]
      /\ \A k \in 2 .. n - 1 : k # 1 \/ d.at # 1 => Ordered(d.h, k)
  BY <1>1, <1>2, <1>4, <1>5, DownFacts
<1>7. r = d.h
  BY DEF w
<1> HIDE DEF d
<1>8. /\ r \in Slice(n) /\ SameItems(r, w) /\ InPlace(r, n) /\ r[n] = w[n]
      /\ \A k \in 2 .. n - 1 : Ordered(r, k)
  BY <1>1, <1>6, <1>7 DEF State
<1>9. r \in Seq(Item) /\ Len(r) = n /\ \A k \in 1 .. n : r[k] \in Item
  BY <1>8, SliceType
<1>10. p = Pri(h, 1) /\ p = Pri(r, n)
  <2>1. p = r[n].Priority
    BY <1>9 DEF Last
  <2>2. r[n].Priority = Pri(w, n) /\ r[n].Priority = Pri(r, n)
    BY <1>8 DEF Pri
  <2>3. Pri(w, n) = Pri(h, 1)
    BY <1>1, <1>2
  <2> QED
    BY <2>1, <2>2, <2>3
<1>11. g \in Slice(n - 1) /\ \A k \in 1 .. n - 1 : g[k] = r[k]
  <2>1. g = SubSeq(r, 1, n - 1)
    BY <1>9 DEF Front
  <2>2. g \in Seq(Item) /\ Len(g) = n - 1 /\ \A k \in 1 .. n - 1 : g[k] = r[k]
    BY <1>1, <1>9, <2>1
  <2> QED
    BY <2>2 DEF Slice
<1>12. \A k \in 1 .. n - 1 : Pri(g, k) = Pri(r, k) /\ Idx(g, k) = Idx(r, k)
  BY <1>11 DEF Pri, Idx
<1>13. GoodHeap(g, n - 1)
  <2>1. InPlace(g, n - 1)
    BY <1>8, <1>12 DEF InPlace
  <2>2. ASSUME NEW k \in 2 .. n - 1
        PROVE  Ordered(g, k)
    <3>1. k \in 1 .. n - 1 /\ k \div 2 \in 1 .. n - 1
      BY Halves
    <3> QED
      BY <1>8, <1>12, <3>1 DEF Ordered
  <2> QED
    BY <1>11, <2>1, <2>2 DEF GoodHeap
<1>14. p \in Priority /\ p \in DOMAIN Items(h) /\ Counts(h)[p] > 0
  <2>1. Pri(h, 1) \in Priority
    BY <1>1, SliceType
  <2> QED
    BY <1>1, <1>10, <2>1, ItemsAreCounted
<1>15. ASSUME NEW q \in DOMAIN Items(h)
       PROVE  p <= q
  <2>1. PICK k \in 1 .. n : q = Pri(h, k)
    BY <1>1, ItemsAreCounted
  <2> QED
    BY <1>1, <1>10, <2>1, RootIsOldest DEF GoodHeap
<1>16. BagOf(Counts(g)) = BagOf(Counts(h)) (-) SetToBag({p})
  <2>1. Counts(g) \in [Priority -> Nat] /\ Counts(h) \in [Priority -> Nat]
    BY <1>1, <1>11, ItemsAreCounted
  <2>2. \A x : Count(r, x) = IF x = p THEN Count(g, x) + 1 ELSE Count(g, x)
    <3>1. r \in Slice((n - 1) + 1) /\ Pri(r, (n - 1) + 1) = p
      BY <1>1, <1>8, <1>10
    <3>2. \A k \in 1 .. n - 1 : Pri(r, k) = Pri(g, k)
      BY <1>12
    <3> QED
      BY <1>1, <1>11, <3>1, <3>2, LongerSlice
  <2>3. \A x : Count(r, x) = Count(h, x)
    BY <1>3, <1>8 DEF SameItems
  <2>4. \A x : Count(g, x) \in Nat
    BY <1>1, <1>11, WhereFinite
  <2>5. \A x \in Priority : Counts(g)[x] = IF x = p THEN Counts(h)[x] - 1 ELSE Counts(h)[x]
    BY <2>2, <2>3, <2>4 DEF Counts
  <2> QED
    BY <1>14, <2>1, <2>5, BagSub
<1>17. Items(g) = BagOf(Counts(g)) /\ Items(h) = BagOf(Counts(h))
  BY <1>1, <1>11, ItemsAreCounted
<1> QED
  BY <1>13, <1>14, <1>15, <1>16, <1>17

Reprioritized(h, i, p) == [h EXCEPT ![i].Priority = p]

\* Update changes one priority and keeps the heap, wherever the item has to go.
LEMMA UpdateWorks ==
  ASSUME NEW n \in Nat, n <= MaxLen, NEW h, GoodHeap(h, n), NEW i \in 1 .. n, NEW p \in Priority,
         NEW g, g = Fix(Reprioritized(h, i, p), i)
  PROVE  /\ GoodHeap(g, n)
         /\ Pri(h, i) \in Priority /\ Pri(h, i) \in DOMAIN Items(h)
         /\ Items(g) = (Items(h) (-) SetToBag({Pri(h, i)})) (+) SetToBag({p})
<1> DEFINE e == [h[i] EXCEPT !.Priority = p]
           w == [h EXCEPT ![i].Priority = p]
           o == Pri(h, i)
<1>1. h \in Slice(n) /\ DOMAIN h = 1 .. n /\ h \in [1 .. n -> Item] /\ h[i] \in Item
  BY SliceType DEF GoodHeap
<1>2. e \in Item /\ e.Priority = p /\ e.Index = Idx(h, i)
  BY <1>1 DEF Item, Idx
<1>3. w = [k \in 1 .. n |-> IF k = i THEN e ELSE h[k]]
  BY <1>1
<1>4. g = Fix(w, i)
  BY DEF Reprioritized
<1> HIDE DEF e, w
<1>5. w \in Slice(n)
  BY <1>1, <1>2, <1>3, IsSlice
<1>6. /\ \A k \in 1 .. n : k # i => Pri(w, k) = Pri(h, k) /\ Idx(w, k) = Idx(h, k)
      /\ Pri(w, i) = p /\ Idx(w, i) = Idx(h, i)
  <2>1. ASSUME NEW k \in 1 .. n, k # i
        PROVE  Pri(w, k) = Pri(h, k) /\ Idx(w, k) = Idx(h, k)
    <3>1. w[k] = h[k]
      BY <1>3, <2>1
    <3> QED
      BY <3>1 DEF Pri, Idx
  <2>2. w[i] = e
    BY <1>3
  <2> QED
    BY <1>2, <2>1, <2>2 DEF Pri, Idx
<1>7. InPlace(w, n)
  BY <1>6 DEF GoodHeap, InPlace
<1>8. ASSUME NEW k \in 2 .. n, k # i, k \div 2 # i
      PROVE  Ordered(w, k)
  <2>1. k \in 1 .. n /\ k \div 2 \in 1 .. n
    BY Halves
  <2> QED
    BY <1>6, <1>8, <2>1 DEF GoodHeap, Ordered
<1>9. ASSUME NEW k \in 2 .. n, k \div 2 = i, i # 1
      PROVE  Pri(w, i \div 2) <= Pri(w, k)
  <2> DEFINE q == i \div 2
  <2>1. k \in 1 .. n /\ i < k /\ i \in 2 .. n /\ q \in 1 .. n /\ q < i
    BY <1>9, Halves
  <2>2. Pri(h, q) <= Pri(h, i)
    BY <2>1 DEF GoodHeap, Ordered
  <2>3. Pri(h, i) <= Pri(h, k)
    BY <1>9 DEF GoodHeap, Ordered
  <2>4. \A l \in 1 .. n : Pri(h, l) \in Int
    BY <1>1, SliceType
  <2>5. Pri(h, q) \in Int /\ Pri(h, i) \in Int /\ Pri(h, k) \in Int
    BY <2>1, <2>4
  <2>6. Pri(w, q) = Pri(h, q) /\ Pri(w, k) = Pri(h, k)
    BY <1>6, <2>1
  <2> HIDE DEF q
  <2>7. Pri(w, q) <= Pri(w, k)
    BY <2>2, <2>3, <2>5, <2>6
  <2> QED
    BY <2>7 DEF q
<1>10. g \in Slice(n) /\ SameItems(g, w) /\ InPlace(g, n) /\ \A k \in 2 .. n : Ordered(g, k)
  BY <1>4, <1>5, <1>7, <1>8, <1>9, FixFacts
<1>11. o \in Priority /\ o \in DOMAIN Items(h) /\ Counts(h)[o] > 0
  BY <1>1, SliceType, ItemsAreCounted
<1> DEFINE c == [x \in Priority |-> Cardinality(Where(h, x) \ {i})]
<1>12. ASSUME NEW x
       PROVE  /\ Cardinality(Where(h, x) \ {i}) \in Nat
              /\ Cardinality(Where(h, x) \ {i}) = IF x = o THEN Count(h, x) - 1 ELSE Count(h, x)
              /\ Count(w, x) = IF x = p THEN Cardinality(Where(h, x) \ {i}) + 1
                                        ELSE Cardinality(Where(h, x) \ {i})
  <2> DEFINE H == Where(h, x)
             W == Where(w, x)
  <2>1. IsFiniteSet(H) /\ IsFiniteSet(W) /\ Cardinality(H) \in Nat /\ Cardinality(W) \in Nat
    BY <1>1, <1>5, WhereFinite DEF Count
  <2>2. DOMAIN w = 1 .. n
    BY <1>3
  <2>3. (i \in H <=> x = o) /\ (i \in W <=> x = p)
    BY <1>1, <1>6, <2>2 DEF Where
  <2>4. H \ {i} = W \ {i}
    BY <1>1, <1>6, <2>2 DEF Where
  <2> HIDE DEF H, W, o
  <2>5. IsFiniteSet(H \ {i}) /\ Cardinality(H \ {i}) \in Nat
    BY <2>1, FS_RemoveElement, FS_CardinalityType
  <2>6. Cardinality(H \ {i}) = IF x = o THEN Cardinality(H) - 1 ELSE Cardinality(H)
    BY <2>1, <2>3, FS_RemoveElement
  <2>7. Cardinality(W \ {i}) = IF x = p THEN Cardinality(W) - 1 ELSE Cardinality(W)
    BY <2>1, <2>3, FS_RemoveElement
  <2>8. Cardinality(W) = IF x = p THEN Cardinality(H \ {i}) + 1 ELSE Cardinality(H \ {i})
    BY <2>1, <2>4, <2>5, <2>7
  <2> QED
    BY <2>5, <2>6, <2>8 DEF Count, H, W
<1>13. c \in [Priority -> Nat] /\ Counts(h) \in [Priority -> Nat] /\ Counts(w) \in [Priority -> Nat]
  BY <1>1, <1>5, <1>12, ItemsAreCounted
<1>14. \A x \in Priority : c[x] = IF x = o THEN Counts(h)[x] - 1 ELSE Counts(h)[x]
  BY <1>12 DEF Counts
<1>15. \A x \in Priority : Counts(w)[x] = IF x = p THEN c[x] + 1 ELSE c[x]
  BY <1>12 DEF Counts
<1> HIDE DEF c, o
<1>16. BagOf(c) = BagOf(Counts(h)) (-) SetToBag({o})
  BY <1>11, <1>13, <1>14, BagSub
<1>17. BagOf(Counts(w)) = BagOf(c) (+) SetToBag({p})
  BY <1>13, <1>15, BagAdd
<1>18. Items(g) = BagOf(Counts(w)) /\ Items(h) = BagOf(Counts(h))
  BY <1>1, <1>10, ItemsAreCounted, SameCounts
<1> QED
  BY <1>10, <1>11, <1>16, <1>17, <1>18 DEF GoodHeap, o

-----------------------------------------------------------------------------
(* Theorems                                                                *)

\* The slice is a heap, its items know their places, and it is not too long.
HeapInv == TypeOK /\ HeapOrder /\ IndexIsPosition

\* The invariant in the terms used above.
LEMMA HeapInvGood ==
  ASSUME TypeOK
  PROVE  /\ Len(heap) \in Nat /\ Len(heap) <= MaxLen /\ heap \in Slice(Len(heap))
         /\ HeapOrder /\ IndexIsPosition <=> GoodHeap(heap, Len(heap))
<1>1. Len(heap) \in Nat /\ heap \in Slice(Len(heap)) /\ DOMAIN heap = 1 .. Len(heap)
  BY LenProperties DEF TypeOK, Slice
<1>2. HeapOrder <=> \A k \in 2 .. Len(heap) : Ordered(heap, k)
  BY DEF HeapOrder, Ordered, Pri
<1>3. IndexIsPosition <=> InPlace(heap, Len(heap))
  BY <1>1 DEF IndexIsPosition, InPlace, Idx
<1> QED
  BY <1>1, <1>2, <1>3 DEF TypeOK, GoodHeap

\* A heap in the next state.
LEMMA NextHeapGood ==
  ASSUME NEW n \in Nat, n <= MaxLen, GoodHeap(heap', n), out' \subseteq Priority
  PROVE  HeapInv'
<1>1. heap' \in Seq(Item) /\ Len(heap') = n /\ DOMAIN heap' = 1 .. n
  BY SliceType DEF GoodHeap
<1>2. HeapOrder'
  BY <1>1 DEF GoodHeap, HeapOrder, Ordered, Pri
<1>3. IndexIsPosition'
  BY <1>1 DEF GoodHeap, IndexIsPosition, InPlace, Idx
<1> QED
  BY <1>1, <1>2, <1>3 DEF HeapInv, TypeOK

\* The operators of module Bags are the same through the instance.
LEMMA SameBags ==
  /\ \A a : Abstract!SetToBag(a) = SetToBag(a) /\ Abstract!BagToSet(a) = DOMAIN a
  /\ \A a, b : Abstract!(+)(a, b) = a (+) b /\ Abstract!(-)(a, b) = a (-) b
  /\ \A a, b : Abstract!BagIn(a, b) <=> a \in DOMAIN b
  /\ Abstract!EmptyBag = EmptyBag
<1>1. \A a : Abstract!SetToBag(a) = SetToBag(a) /\ Abstract!BagToSet(a) = DOMAIN a
  BY DEF Abstract!SetToBag, SetToBag, Abstract!BagToSet
<1>2. \A a, b : Abstract!(+)(a, b) = a (+) b
  BY DEF Abstract!(+), (+)
<1>3. \A a, b : Abstract!(-)(a, b) = a (-) b
  BY DEF Abstract!(-), (-)
<1>4. \A a, b : Abstract!BagIn(a, b) <=> a \in DOMAIN b
  BY DEF Abstract!BagIn, Abstract!BagToSet
<1>5. Abstract!EmptyBag = EmptyBag
  BY DEF Abstract!EmptyBag, EmptyBag, Abstract!SetToBag, SetToBag
<1> QED
  BY <1>1, <1>2, <1>3, <1>4, <1>5

AbstractItems == ToBag([i \in DOMAIN heap |-> heap[i].Priority])

\* Every operation keeps the invariant and does to the bag what MinQueue says.
LEMMA HeapStep ==
  ASSUME HeapInv, [Next]_vars
  PROVE  HeapInv' /\ [Abstract!Next]_<<AbstractItems, out>>
<1> DEFINE n == Len(heap)
<1>1. n \in Nat /\ n <= MaxLen /\ GoodHeap(heap, n) /\ out \subseteq Priority /\ MaxLen \in Nat
  BY HeapInvGood, QueueAssumption DEF HeapInv, TypeOK
<1>2. AbstractItems = Items(heap) /\ AbstractItems' = Items(heap')
  BY DEF AbstractItems, Items
<1>3. ASSUME NEW p \in Priority, Push(p)
      PROVE  HeapInv' /\ Abstract!Next
  <2>1. n < MaxLen /\ heap' = up(Append(heap, [Priority |-> p, Index |-> Len(heap)]), Len(heap) + 1) /\ out' = {}
    BY <1>3 DEF Push
  <2>2. GoodHeap(heap', n + 1) /\ Items(heap') = Items(heap) (+) SetToBag({p})
    BY <1>1, <2>1, PushWorks
  <2>3. HeapInv'
    BY <1>1, <2>1, <2>2, NextHeapGood
  <2>4. Abstract!Push(p)
    <3>1. AbstractItems' = Abstract!(+)(AbstractItems, Abstract!SetToBag({p}))
      BY <1>2, <2>2, SameBags
    <3> QED
      BY <2>1, <3>1 DEF Abstract!Push, AbstractItems
  <2> QED
    BY <2>3, <2>4 DEF Abstract!Next
<1>4. ASSUME Pop
      PROVE  HeapInv' /\ Abstract!Next
  <2> DEFINE r == down(Swap(heap, 1, n), 1, n - 1).h
             p == Last(r).Priority
  <2>1. n > 0 /\ heap' = Front(r) /\ out' = {p}
    BY <1>4 DEF Pop
  <2>2. /\ GoodHeap(heap', n - 1) /\ p \in Priority
        /\ p \in DOMAIN Items(heap) /\ \A q \in DOMAIN Items(heap) : p <= q
        /\ Items(heap') = Items(heap) (-) SetToBag({p})
    BY <1>1, <2>1, PopWorks
  <2> HIDE DEF p, r
  <2>3. HeapInv'
    BY <1>1, <2>1, <2>2, NextHeapGood
  <2>4. Abstract!Pop(p)
    <3>1. AbstractItems' = Abstract!(-)(AbstractItems, Abstract!SetToBag({p}))
      BY <1>2, <2>2, SameBags
    <3>2. Abstract!BagIn(p, AbstractItems) /\ \A q \in Abstract!BagToSet(AbstractItems) : p <= q
      BY <1>2, <2>2, SameBags
    <3> QED
      BY <2>1, <3>1, <3>2 DEF Abstract!Pop, AbstractItems
  <2> QED
    BY <2>2, <2>3, <2>4 DEF Abstract!Next
<1>5. ASSUME NEW item \in ToSet(heap), NEW p \in Priority, Update(item, p)
      PROVE  HeapInv' /\ Abstract!Next
  <2> DEFINE i == item.Index + 1
  <2>1. DOMAIN heap = 1 .. n
    BY <1>1, SliceType DEF GoodHeap
  <2>2. PICK k \in 1 .. n : item = heap[k]
    BY <2>1 DEF ToSet
  <2>3. i = k
    BY <1>1, <2>2 DEF GoodHeap, InPlace, Idx
  <2>4. heap' = Fix([heap EXCEPT ![i].Priority = p], i) /\ out' = {}
    BY <1>5 DEF Update
  <2>5. heap' = Fix(Reprioritized(heap, k, p), k)
    BY <2>3, <2>4 DEF Reprioritized
  <2>6. /\ GoodHeap(heap', n)
        /\ Pri(heap, k) \in Priority /\ Pri(heap, k) \in DOMAIN Items(heap)
        /\ Items(heap') = (Items(heap) (-) SetToBag({Pri(heap, k)})) (+) SetToBag({p})
    BY <1>1, <2>5, UpdateWorks
  <2>7. HeapInv'
    BY <1>1, <2>4, <2>6, NextHeapGood
  <2>8. Abstract!Update(Pri(heap, k), p)
    <3>1. AbstractItems' = Abstract!(+)(Abstract!(-)(AbstractItems, Abstract!SetToBag({Pri(heap, k)})),
                                         Abstract!SetToBag({p}))
      BY <1>2, <2>6, SameBags
    <3>2. Abstract!BagIn(Pri(heap, k), AbstractItems)
      BY <1>2, <2>6, SameBags
    <3> QED
      BY <2>4, <3>1, <3>2 DEF Abstract!Update, AbstractItems
  <2> QED
    BY <2>6, <2>7, <2>8 DEF Abstract!Next
<1>6. CASE UNCHANGED vars
  BY <1>6 DEF vars, HeapInv, TypeOK, HeapOrder, IndexIsPosition, AbstractItems
<1> QED
  BY <1>3, <1>4, <1>5, <1>6 DEF Next

\* The slice that container/heap maintains is a heap whose items know their
\* places, and Push, Pop and Update are those of a bag from which Pop takes an
\* oldest item: for any priorities and any length.
THEOREM HeapImplementsQueue == Spec => MinQueueSpec
<1>1. Init => HeapInv /\ Abstract!Init
  <2> SUFFICES ASSUME Init PROVE HeapInv /\ Abstract!Init
    OBVIOUS
  <2>1. heap = <<>> /\ out = {} /\ Len(heap) = 0 /\ DOMAIN heap = {}
    BY DEF Init
  <2>2. HeapInv
    BY <2>1, QueueAssumption DEF HeapInv, TypeOK, HeapOrder, IndexIsPosition
  <2>3. ToBag([i \in DOMAIN heap |-> heap[i].Priority]) = EmptyBag
    BY <2>1 DEF ToBag, Range, EmptyBag, SetToBag
  <2> QED
    BY <2>1, <2>2, <2>3, SameBags DEF Abstract!Init
<1>2. HeapInv /\ [Next]_vars => HeapInv' /\ [Abstract!Next]_<<AbstractItems, out>>
  BY HeapStep
<1>3. HeapInv => HeapOrder /\ IndexIsPosition
  BY DEF HeapInv
<1> QED
  BY <1>1, <1>2, <1>3, PTL DEF Spec, MinQueueSpec, Abstract!Spec, AbstractItems
=============================================================================
