----------------------------- MODULE DataLemmas -----------------------------
(***************************************************************************)
(* Lemmas about data that several of the proofs need: induction over the   *)
(* natural numbers and the subsets of a set, stated with a set in place of *)
(* an operator; the greatest element of a set of numbers; that folds, sums *)
(* and functions defined by recursion exist; where the messages of a queue *)
(* lead; and what the operators of ClauseList keep true of a list.         *)
(***************************************************************************)
EXTENDS ClauseList, WellFoundedInduction, FiniteSetTheorems, SequenceTheorems, TLAPS

\* A set that holds 0 and with each number the next holds them all.
LEMMA SetInduction ==
    ASSUME NEW S, 0 \in S, \A n \in Nat : n \in S => n + 1 \in S
    PROVE  Nat \subseteq S
<1> DEFINE R == OpToRel(<, Nat)
<1> SUFFICES ASSUME Nat \ S # {}
             PROVE  FALSE
  OBVIOUS
<1>1. PICK x \in Nat \ S : \A y \in Nat \ S : <<y, x>> \notin R
  <2>1. IsWellFoundedOn(R, Nat)
    BY NatLessThanWellFounded
  <2>2. Nat \ S \subseteq Nat
    OBVIOUS
  <2> HIDE DEF R
  <2> QED
    BY <2>1, <2>2, WFMin
<1>2. x # 0 /\ x - 1 \in Nat
  OBVIOUS
<1>3. x - 1 \notin S
  BY <1>2
<1>4. <<x - 1, x>> \in R
  BY <1>2 DEF OpToRel
<1> QED
  BY <1>1, <1>2, <1>3, <1>4

LEMMA BoundedInduction ==
    ASSUME NEW n \in Nat, NEW S, 0 \in S, \A i \in 1 .. n : i - 1 \in S => i \in S
    PROVE  0 .. n \subseteq S
<1> DEFINE U == {i \in Nat : i <= n => i \in S}
<1>1. ASSUME NEW i \in Nat, i \in U
      PROVE  i + 1 \in U
  <2>1. i + 1 <= n => i + 1 \in 1 .. n /\ (i + 1) - 1 = i /\ i <= n
    OBVIOUS
  <2> QED
    BY <1>1, <2>1
<1>2. 0 \in U
  OBVIOUS
<1>3. Nat \subseteq U
  <2> HIDE DEF U
  <2> QED
    BY <1>1, <1>2, SetInduction
<1> QED
  BY <1>3

LEMMA LeastExists ==
    ASSUME NEW s \in SUBSET Nat, s # {}
    PROVE  \E x \in s : \A y \in s : x <= y
<1> DEFINE R == OpToRel(<, Nat)
<1>1. PICK x \in s : \A y \in s : <<y, x>> \notin R
  <2>1. IsWellFoundedOn(R, Nat)
    BY NatLessThanWellFounded
  <2> HIDE DEF R
  <2> QED
    BY <2>1, WFMin
<1>2. \A y \in s : ~ y < x
  BY <1>1 DEF OpToRel
<1> QED
  BY <1>2

LEMMA InitialParts ==
    ASSUME NEW n \in Nat, NEW i \in 1 .. n
    PROVE  /\ 1 .. i \in SUBSET (1 .. n) /\ i \in 1 .. i
           /\ (1 .. i) \ {i} = 1 .. (i - 1)
           /\ i - 1 \in 0 .. n /\ i \in 0 .. n
OBVIOUS

LEMMA MaxExists ==
    ASSUME NEW n \in Nat, NEW s \in SUBSET (1 .. n), s # {}
    PROVE  Max(s) \in s /\ \A y \in s : Max(s) >= y
<1> DEFINE HasMax(t) == \E x \in t : \A y \in t : x >= y
           S == {k \in Nat : \A t \in SUBSET (1 .. k) : t # {} => HasMax(t)}
<1>1. 0 \in S
  <2>1. 1 .. 0 = {}
    OBVIOUS
  <2> QED
    BY <2>1
<1>2. ASSUME NEW k \in Nat, k \in S
      PROVE  k + 1 \in S
  <2>1. ASSUME NEW t \in SUBSET (1 .. (k + 1)), t # {}
        PROVE  HasMax(t)
    <3>1. CASE k + 1 \in t
      BY <3>1
    <3>2. CASE k + 1 \notin t
      <4>1. t \in SUBSET (1 .. k)
        BY <3>2
      <4> QED
        BY <1>2, <2>1, <4>1
    <3> QED
      BY <3>1, <3>2
  <2> QED
    BY <2>1
<1>3. n \in S
  <2> HIDE DEF S
  <2> QED
    BY <1>1, <1>2, SetInduction
<1>4. HasMax(s)
  BY <1>3
<1> QED
  BY <1>4 DEF Max

\* g is the function that defines a fold over the set T: the value for a set is
\* what the step f makes of the value for the set without the element that pick
\* takes.  This is what FoldLeft and MapThenSumSet choose, with functions in
\* place of their operators.
IsFold(g, T, base, f, pick) ==
    \A s \in SUBSET T :
        g[s] = IF s = {} THEN base ELSE f[<<g[s \ {pick[s]}], pick[s]>>]

\* There is one.
LEMMA FoldExists ==
    ASSUME NEW T, IsFiniteSet(T), NEW W, NEW base \in W, NEW f \in [W \X T -> W],
           NEW pick, \A s \in SUBSET T : s # {} => pick[s] \in s
    PROVE  \E g \in [SUBSET T -> W] : IsFold(g, T, base, f, pick)
<1> DEFINE Part(k) == {s \in SUBSET T : Cardinality(s) <= k}
           Body(g, s) == IF s = {} THEN base ELSE f[<<g[s \ {pick[s]}], pick[s]>>]
           Good(k, g) == /\ g \in [Part(k) -> W]
                         /\ \A s \in Part(k) : g[s] = Body(g, s)
           S == {k \in Nat : \E g : Good(k, g)}
<1>1. \A s \in SUBSET T :
         IsFiniteSet(s) /\ Cardinality(s) \in Nat /\ Cardinality(s) <= Cardinality(T)
  BY FS_Subset, FS_CardinalityType
<1>2. ASSUME NEW s \in SUBSET T, s # {}
      PROVE  /\ s \ {pick[s]} \in SUBSET T
             /\ Cardinality(s \ {pick[s]}) = Cardinality(s) - 1
  BY <1>1, <1>2, FS_RemoveElement
<1>3. 0 \in S
  <2> DEFINE g == [s \in Part(0) |-> base]
  <2>1. ASSUME NEW s \in Part(0)
        PROVE  s = {}
    BY <1>1, FS_EmptySet
  <2>2. Good(0, g)
    BY <2>1
  <2> QED
    BY <2>2
<1>4. ASSUME NEW k \in Nat, k \in S
      PROVE  k + 1 \in S
  <2>1. PICK g : Good(k, g)
    BY <1>4
  <2> DEFINE h == [s \in Part(k + 1) |-> Body(g, s)]
  <2>2. ASSUME NEW s \in Part(k + 1), s # {}
        PROVE  s \ {pick[s]} \in Part(k) /\ pick[s] \in T
    <3>1. s \in SUBSET T /\ Cardinality(s) <= k + 1
      OBVIOUS
    <3>2. Cardinality(s \ {pick[s]}) <= k
      BY <3>1, <1>1, <1>2, <2>2
    <3> QED
      BY <3>1, <3>2, <1>2, <2>2
  <2>3. \A s \in Part(k) : s \in Part(k + 1)
    BY <1>1
  <2>4. ASSUME NEW s \in Part(k)
        PROVE  h[s] = g[s]
    <3>1. g[s] = Body(g, s)
      BY <2>1
    <3> HIDE DEF Body, Part
    <3> QED
      BY <3>1, <2>3
  <2>5. ASSUME NEW s \in Part(k + 1)
        PROVE  Body(g, s) = Body(h, s) /\ Body(g, s) \in W
    <3>1. CASE s = {}
      BY <3>1
    <3>2. CASE s # {}
      <4>1. g[s \ {pick[s]}] \in W /\ h[s \ {pick[s]}] = g[s \ {pick[s]}]
        BY <2>1, <2>2, <2>4, <3>2
      <4> QED
        BY <4>1, <2>2, <3>2
    <3> QED
      BY <3>1, <3>2
  <2>6. Good(k + 1, h)
    <3> HIDE DEF Body, Part
    <3> QED
      BY <2>5
  <2> HIDE DEF Good, h
  <2> QED
    BY <2>6
<1>5. Cardinality(T) \in S
  <2>1. Cardinality(T) \in Nat
    BY FS_CardinalityType
  <2> HIDE DEF S
  <2> QED
    BY <1>3, <1>4, <2>1, SetInduction
<1>6. PICK g : Good(Cardinality(T), g)
  BY <1>5
<1>7. Part(Cardinality(T)) = SUBSET T
  BY <1>1
<1>8. g \in [SUBSET T -> W] /\ \A s \in SUBSET T : g[s] = Body(g, s)
  BY <1>6, <1>7
<1> QED
  BY <1>8 DEF IsFold

-----------------------------------------------------------------------------
(***************************************************************************)
(* Sums over a finite set.                                                 *)
(***************************************************************************)
One(s) == CHOOSE x \in s : TRUE

\* g has the sums of f over the subsets of T.  This is what MapThenSumSet chooses.
Sums(g, T, f) ==
    \A s \in SUBSET T : g[s] = IF s = {} THEN 0 ELSE f[One(s)] + g[s \ {One(s)}]

LEMMA OneOf ==
    ASSUME NEW s, s # {}
    PROVE  One(s) \in s
  BY DEF One

LEMMA SumExists ==
    ASSUME NEW T, IsFiniteSet(T), NEW f \in [T -> Nat]
    PROVE  \E g \in [SUBSET T -> Nat] : Sums(g, T, f)
<1> DEFINE step == [t \in Nat \X T |-> f[t[2]] + t[1]]
           pick == [s \in SUBSET T |-> One(s)]
<1>1. step \in [Nat \X T -> Nat]
  OBVIOUS
<1>2. \A s \in SUBSET T : pick[s] = One(s) /\ (s # {} => pick[s] \in s)
  BY OneOf
<1>3. \A n \in Nat, t \in T : step[<<n, t>>] = f[t] + n
  OBVIOUS
<1> HIDE DEF step, pick
<1>4. PICK g \in [SUBSET T -> Nat] : IsFold(g, T, 0, step, pick)
  BY <1>1, <1>2, FoldExists
<1>5. ASSUME NEW s \in SUBSET T, s # {}
      PROVE  g[s] = f[One(s)] + g[s \ {One(s)}]
  <2>1. One(s) \in T /\ s \ {One(s)} \in SUBSET T
    BY <1>2, <1>5
  <2>2. g[s] = step[<<g[s \ {One(s)}], One(s)>>]
    BY <1>2, <1>4, <1>5 DEF IsFold
  <2> QED
    BY <1>3, <2>1, <2>2
<1>6. g[{}] = 0
  BY <1>4 DEF IsFold
<1> QED
  BY <1>5, <1>6 DEF Sums

\* What holds of the empty set, and of a set if it holds of the set without one of its
\* elements, holds of every subset.
LEMMA SubsetInduction ==
    ASSUME NEW T, IsFiniteSet(T), NEW U, {} \in U,
           \A s \in SUBSET T : s # {} /\ s \ {One(s)} \in U => s \in U
    PROVE  SUBSET T \subseteq U
<1> DEFINE S == {k \in Nat : \A s \in SUBSET T : Cardinality(s) = k => s \in U}
<1>1. \A s \in SUBSET T : IsFiniteSet(s) /\ Cardinality(s) \in Nat
  BY FS_Subset, FS_CardinalityType
<1>2. 0 \in S
  BY <1>1, FS_EmptySet
<1>3. ASSUME NEW k \in Nat, k \in S
      PROVE  k + 1 \in S
  <2>1. ASSUME NEW s \in SUBSET T, Cardinality(s) = k + 1
        PROVE  s \in U
    <3>1. s # {}
      BY <2>1, FS_EmptySet
    <3>2. One(s) \in s /\ IsFiniteSet(s)
      BY <1>1, <3>1, OneOf
    <3>3. Cardinality(s \ {One(s)}) = Cardinality(s) - 1
      BY <3>2, FS_RemoveElement
    <3>4. Cardinality(s \ {One(s)}) = k
      BY <2>1, <3>3
    <3>5. s \ {One(s)} \in SUBSET T
      OBVIOUS
    <3> QED
      BY <1>3, <3>1, <3>4, <3>5
  <2> QED
    BY <2>1
<1> HIDE DEF S
<1>4. Nat \subseteq S
  BY <1>2, <1>3, SetInduction
<1> QED
  BY <1>1, <1>4 DEF S

\* Of smaller numbers the sum is smaller.
LEMMA SumsCompared ==
    ASSUME NEW T, IsFiniteSet(T), NEW f \in [T -> Nat], NEW e \in [T -> Nat],
           NEW g \in [SUBSET T -> Nat], NEW h \in [SUBSET T -> Nat],
           Sums(g, T, f), Sums(h, T, e), \A t \in T : f[t] <= e[t]
    PROVE  g[T] <= h[T]
<1> DEFINE U == {s \in SUBSET T : g[s] <= h[s]}
<1>1. {} \in U
  <2>1. g[{}] = 0 /\ h[{}] = 0
    BY DEF Sums
  <2> QED
    BY <2>1
<1>2. ASSUME NEW s \in SUBSET T, s # {}, s \ {One(s)} \in U
      PROVE  s \in U
  <2>1. One(s) \in T
    BY <1>2, OneOf
  <2>2. /\ g[s] = f[One(s)] + g[s \ {One(s)}]
        /\ h[s] = e[One(s)] + h[s \ {One(s)}]
    BY <1>2 DEF Sums
  <2>3. g[s \ {One(s)}] \in Nat /\ h[s \ {One(s)}] \in Nat
    OBVIOUS
  <2> QED
    BY <1>2, <2>1, <2>2, <2>3
<1> HIDE DEF U
<1>3. SUBSET T \subseteq U
  BY <1>1, <1>2, SubsetInduction
<1> QED
  BY <1>3 DEF U

\* If one of the numbers grows by one, so does the sum.
OneMoreAt(e, T, f, t) == \A x \in T : e[x] = IF x = t THEN f[x] + 1 ELSE f[x]

LEMMA SumsOneMore ==
    ASSUME NEW T, IsFiniteSet(T), NEW f \in [T -> Nat], NEW e \in [T -> Nat],
           NEW g \in [SUBSET T -> Nat], NEW h \in [SUBSET T -> Nat], NEW t \in T,
           Sums(g, T, f), Sums(h, T, e), OneMoreAt(e, T, f, t)
    PROVE  h[T] = g[T] + 1
<1> DEFINE U == {s \in SUBSET T : h[s] = IF t \in s THEN g[s] + 1 ELSE g[s]}
<1>1. {} \in U
  BY DEF Sums
<1>2. ASSUME NEW s \in SUBSET T, s # {}, s \ {One(s)} \in U
      PROVE  s \in U
  <2>1. One(s) \in T /\ One(s) \in s
    BY <1>2, OneOf
  <2>2. /\ g[s] = f[One(s)] + g[s \ {One(s)}]
        /\ h[s] = e[One(s)] + h[s \ {One(s)}]
    BY <1>2 DEF Sums
  <2>3. g[s \ {One(s)}] \in Nat /\ h[s \ {One(s)}] \in Nat /\ f[One(s)] \in Nat
    BY <2>1
  <2>4. CASE One(s) = t
    <3>1. e[One(s)] = f[One(s)] + 1 /\ h[s \ {One(s)}] = g[s \ {One(s)}]
      BY <1>2, <2>1, <2>4 DEF OneMoreAt
    <3> QED
      BY <2>1, <2>2, <2>3, <2>4, <3>1
  <2>5. CASE One(s) # t
    <3>1. e[One(s)] = f[One(s)] /\ (t \in s <=> t \in s \ {One(s)})
      BY <2>1, <2>5 DEF OneMoreAt
    <3> QED
      BY <1>2, <2>2, <2>3, <3>1
  <2> QED
    BY <2>4, <2>5
<1> HIDE DEF U
<1>3. SUBSET T \subseteq U
  BY <1>1, <1>2, SubsetInduction
<1> QED
  BY <1>3 DEF U

-----------------------------------------------------------------------------
(***************************************************************************)
(* Recursion on numbers.                                                   *)
(***************************************************************************)
\* A function that is defined from each number to the next is defined.
Recurs(g, n, base, f) == g[0] = base /\ \A i \in 1 .. n : g[i] = f[<<g[i - 1], i>>]

LEMMA RecursionExists ==
    ASSUME NEW n \in Nat, NEW W, NEW base \in W, NEW f \in [W \X (1 .. n) -> W]
    PROVE  \E g \in [0 .. n -> W] : Recurs(g, n, base, f)
<1> DEFINE Value(g, i) == IF i = 0 THEN base ELSE f[<<g[i - 1], i>>]
           Good(k, g) == g \in [0 .. k -> W] /\ \A i \in 0 .. k : g[i] = Value(g, i)
           S == {k \in 0 .. n : \E g : Good(k, g)}
<1>1. 0 \in S
  <2> DEFINE g == [i \in 0 .. 0 |-> base]
  <2>1. Good(0, g)
    OBVIOUS
  <2> HIDE DEF g, Good
  <2> QED
    BY <2>1
<1>2. ASSUME NEW k \in 1 .. n, k - 1 \in S
      PROVE  k \in S
  <2>1. PICK g : Good(k - 1, g)
    BY <1>2
  <2>2. k - 1 \in 0 .. (k - 1) /\ g[k - 1] \in W /\ <<g[k - 1], k>> \in W \X (1 .. n)
    BY <2>1
  <2> DEFINE h == [i \in 0 .. k |-> IF i = k THEN f[<<g[k - 1], k>>] ELSE g[i]]
  <2>3. \A i \in 0 .. (k - 1) : h[i] = g[i]
    OBVIOUS
  <2>4. ASSUME NEW i \in 0 .. k
        PROVE  h[i] \in W /\ h[i] = Value(h, i)
    <3>1. CASE i = k
      <4>1. h[k] = f[<<g[k - 1], k>>] /\ h[k - 1] = g[k - 1] /\ k # 0
        OBVIOUS
      <4> HIDE DEF h
      <4> QED
        BY <2>2, <3>1, <4>1
    <3>2. CASE i # k
      <4>1. i \in 0 .. (k - 1) /\ (i # 0 => i - 1 \in 0 .. (k - 1))
        BY <3>2
      <4>2. g[i] = Value(g, i) /\ g[i] \in W
        BY <2>1, <4>1
      <4> HIDE DEF h
      <4> QED
        BY <2>3, <4>1, <4>2
    <3> QED
      BY <3>1, <3>2
  <2>5. Good(k, h)
    <3> HIDE DEF Value
    <3> QED
      BY <2>4
  <2> HIDE DEF h, Good
  <2> QED
    BY <2>5
<1>3. n \in S
  <2> HIDE DEF S
  <2> QED
    BY <1>1, <1>2, BoundedInduction
<1>4. PICK g : Good(n, g)
  BY <1>3
<1>5. 0 \in 0 .. n /\ \A i \in 1 .. n : i \in 0 .. n /\ i # 0
  OBVIOUS
<1>6. Recurs(g, n, base, f)
  BY <1>4, <1>5 DEF Recurs
<1> QED
  BY <1>4, <1>6

-----------------------------------------------------------------------------
(***************************************************************************)
(* Queues of messages.                                                     *)
(***************************************************************************)
\* Messages that are read one after the other: the first takes the reader from
\* state a to another one, and so on; the last takes it to b.  R holds the steps
\* <<from, message, to>>.
Path(R, ms, a, b) ==
    \E h : /\ h[0] = a /\ h[Len(ms)] = b
           /\ \A i \in 1 .. Len(ms) : <<h[i - 1], ms[i], h[i]>> \in R

\* Messages that change nothing, messages one after the other, a single message,
\* and messages of which the first is read.
LEMMA PathNowhere ==
    ASSUME NEW R, NEW M, NEW ms \in Seq(M), NEW a,
           \A i \in DOMAIN ms : <<a, ms[i], a>> \in R
    PROVE  Path(R, ms, a, a)
<1> DEFINE h == [i \in 0 .. Len(ms) |-> a]
<1>1. Len(ms) \in Nat /\ DOMAIN ms = 1 .. Len(ms)
  OBVIOUS
<1>2. h[0] = a /\ h[Len(ms)] = a
  BY <1>1
<1>3. ASSUME NEW i \in 1 .. Len(ms)
      PROVE  <<h[i - 1], ms[i], h[i]>> \in R
  BY <1>1
<1> HIDE DEF h
<1> QED
  BY <1>2, <1>3 DEF Path

LEMMA PathOn ==
    ASSUME NEW R, NEW M, NEW ms \in Seq(M), NEW ns \in Seq(M), NEW a, NEW b, NEW d,
           Path(R, ms, a, b), Path(R, ns, b, d)
    PROVE  Path(R, ms \o ns, a, d)
<1> DEFINE n == Len(ms)
           k == Len(ns)
           all == ms \o ns
<1>1. n \in Nat /\ k \in Nat
  OBVIOUS
<1>2. /\ Len(all) = n + k
      /\ \A i \in 1 .. n : all[i] = ms[i]
      /\ \A i \in 1 .. k : all[n + i] = ns[i]
  OBVIOUS
<1>3. PICK f : /\ f[0] = a /\ f[n] = b
               /\ \A i \in 1 .. n : <<f[i - 1], ms[i], f[i]>> \in R
  BY DEF Path
<1>4. PICK g : /\ g[0] = b /\ g[k] = d
               /\ \A i \in 1 .. k : <<g[i - 1], ns[i], g[i]>> \in R
  BY DEF Path
<1> DEFINE h == [i \in 0 .. (n + k) |-> IF i <= n THEN f[i] ELSE g[i - n]]
<1> HIDE DEF n, k, all
<1>5. \A i \in 0 .. n : h[i] = f[i]
  BY <1>1
<1>6. ASSUME NEW i \in 0 .. k
      PROVE  h[n + i] = g[i]
  <2>1. CASE i = 0
    BY <1>1, <1>3, <1>4, <2>1
  <2>2. CASE i # 0
    <3>1. n + i \in 0 .. (n + k) /\ ~ (n + i <= n) /\ (n + i) - n = i
      BY <1>1, <2>2
    <3> QED
      BY <3>1
  <2> QED
    BY <2>1, <2>2
<1>7. h[0] = a /\ h[n + k] = d
  <2>1. 0 \in 0 .. n /\ k \in 0 .. k
    BY <1>1
  <2> HIDE DEF h
  <2> QED
    BY <1>3, <1>4, <1>5, <1>6, <2>1
<1> HIDE DEF h
<1>8. ASSUME NEW i \in 1 .. (n + k)
      PROVE  <<h[i - 1], all[i], h[i]>> \in R
  <2>1. CASE i <= n
    <3>1. i \in 1 .. n /\ i - 1 \in 0 .. n /\ i \in 0 .. n
      BY <1>1, <2>1
    <3> QED
      BY <1>2, <1>3, <1>5, <3>1
  <2>2. CASE ~ (i <= n)
    <3> DEFINE j == i - n
    <3>1. j \in 1 .. k /\ j - 1 \in 0 .. k /\ j \in 0 .. k /\ n + j = i
          /\ n + (j - 1) = i - 1
      BY <1>1, <2>2
    <3> HIDE DEF j
    <3>2. h[i] = g[j] /\ h[i - 1] = g[j - 1] /\ all[i] = ns[j]
      BY <1>2, <1>6, <3>1
    <3> QED
      BY <1>4, <3>1, <3>2
  <2> QED
    BY <2>1, <2>2
<1>9. Path(R, all, a, d)
  BY <1>2, <1>7, <1>8 DEF Path
<1> QED
  BY <1>9 DEF all

LEMMA PathOneStep ==
    ASSUME NEW R, NEW m, NEW a, NEW b, <<a, m, b>> \in R
    PROVE  Path(R, <<m>>, a, b)
<1> DEFINE h == [i \in 0 .. 1 |-> IF i = 0 THEN a ELSE b]
<1>1. h[0] = a /\ h[1] = b
  OBVIOUS
<1>2. Len(<<m>>) = 1 /\ <<m>>[1] = m
  OBVIOUS
<1> HIDE DEF h
<1>3. ASSUME NEW i \in 1 .. Len(<<m>>)
      PROVE  <<h[i - 1], <<m>>[i], h[i]>> \in R
  <2>1. i = 1 /\ i - 1 = 0
    BY <1>2
  <2> QED
    BY <1>1, <1>2, <2>1
<1> QED
  BY <1>1, <1>2, <1>3 DEF Path

LEMMA PathFromHead ==
    ASSUME NEW R, NEW M, NEW ms \in Seq(M), ms # <<>>, NEW a, NEW b, Path(R, ms, a, b)
    PROVE  \E d : <<a, Head(ms), d>> \in R /\ Path(R, Tail(ms), d, b)
<1> DEFINE n == Len(ms)
<1>1. /\ n \in Nat \ {0} /\ Len(Tail(ms)) = n - 1 /\ Head(ms) = ms[1]
      /\ \A i \in 1 .. (n - 1) : Tail(ms)[i] = ms[i + 1]
  BY EmptySeq, LenProperties, HeadTailProperties
<1>2. PICK f : /\ f[0] = a /\ f[n] = b
               /\ \A i \in 1 .. n : <<f[i - 1], ms[i], f[i]>> \in R
  BY DEF Path
<1> DEFINE h == [i \in 0 .. (n - 1) |-> f[i + 1]]
<1> HIDE DEF n
<1>3. h[0] = f[1] /\ h[n - 1] = b
  BY <1>1, <1>2
<1>4. ASSUME NEW i \in 1 .. (n - 1)
      PROVE  <<h[i - 1], Tail(ms)[i], h[i]>> \in R
  <2>1. i + 1 \in 1 .. n /\ (i + 1) - 1 = i /\ h[i - 1] = f[i] /\ h[i] = f[i + 1]
    BY <1>1
  <2> HIDE DEF h
  <2>2. <<f[(i + 1) - 1], ms[i + 1], f[i + 1]>> \in R
    BY <1>2, <2>1
  <2> QED
    BY <1>1, <2>1, <2>2
<1> HIDE DEF h
<1>5. <<a, Head(ms), f[1]>> \in R
  <2>1. 1 \in 1 .. n /\ 1 - 1 = 0
    BY <1>1
  <2> QED
    BY <1>1, <1>2, <2>1
<1>6. Path(R, Tail(ms), f[1], b)
  BY <1>1, <1>3, <1>4 DEF Path
<1> QED
  BY <1>5, <1>6

-----------------------------------------------------------------------------
(***************************************************************************)
(* Clause lists.                                                           *)
(***************************************************************************)
Records(T, F, V) == [type : T, from : F, value : V]

\* No two clauses of the list would replace each other: it has one pact at
\* most, and one sum of gold of each giver.
NoRivals(cs) == \A i, j \in DOMAIN cs : Replaces(cs[i], cs[j]) => i = j

\* No clause is in the list twice.
Once(cs) == \A i, j \in DOMAIN cs : cs[i] = cs[j] => i = j

LEMMA ReplacementFacts ==
    ASSUME NEW T, NEW F, NEW V, NEW c \in Records(T, F, V), NEW old \in Records(T, F, V),
           Replaces(c, old)
    PROVE  /\ Replacement(c, old) \in Records(T, F, V)
           /\ Replacement(c, old).type = c.type
           /\ Replacement(c, old).from = old.from
           /\ Replacement(c, old) = c \/ IsPact(Replacement(c, old))
           /\ \A d : Replaces(Replacement(c, old), d) <=> Replaces(c, d)
           /\ \A d : Replaces(d, Replacement(c, old)) <=> Replaces(d, c)
<1>1. CASE IsPact(c)
  <2>1. Replacement(c, old) = [type |-> c.type, from |-> old.from, value |-> old.value]
    BY <1>1 DEF Records, Replacement
  <2> QED
    BY <1>1, <2>1 DEF Records, Replaces, IsPact
<1>2. CASE ~ IsPact(c)
  BY <1>2 DEF Records, Replaces, Replacement
<1> QED
  BY <1>1, <1>2

LEMMA ReplacesFacts ==
    ASSUME NEW a, NEW b, NEW d
    PROVE  /\ Replaces(a, b) => Replaces(b, a)
           /\ Replaces(a, b) /\ Replaces(b, d) => Replaces(a, d)
  BY DEF Replaces, IsPact

\* Each clause of the list new is c, or was in its place, or is a pact with the
\* giver of the clause that was.
KeepsGivers(cs, new, c) ==
    \A i \in DOMAIN new :
        \/ new[i] = c
        \/ /\ i \in DOMAIN cs
           /\ new[i].from = cs[i].from
           /\ new[i] = cs[i] \/ IsPact(new[i])

LEMMA WithClauseFacts ==
    ASSUME NEW T, NEW F, NEW V, NEW cs \in Seq(Records(T, F, V)), NEW c \in Records(T, F, V),
           NoRivals(cs)
    PROVE  /\ WithClause(cs, c) \in Seq(Records(T, F, V))
           /\ NoRivals(WithClause(cs, c))
           /\ KeepsGivers(cs, WithClause(cs, c), c)
           /\ Once(cs) /\ c \notin ToSet(cs) => Once(WithClause(cs, c))
<1> DEFINE new == WithClause(cs, c)
           R == Records(T, F, V)
<1>0. DOMAIN cs = 1 .. Len(cs) /\ \A i \in DOMAIN cs : cs[i] \in R
  OBVIOUS
<1>1. CASE \E old \in ToSet(cs) : Replaces(c, old)
  <2>1. new = [i \in DOMAIN cs |-> IF Replaces(c, cs[i]) THEN Replacement(c, cs[i]) ELSE cs[i]]
    BY <1>1 DEF WithClause
  <2>2. ASSUME NEW i \in DOMAIN cs
        PROVE  /\ new[i] \in R
               /\ new[i] = c \/ new[i] = cs[i] \/ IsPact(new[i])
               /\ new[i] = c \/ new[i].from = cs[i].from
               /\ Replaces(c, cs[i]) => /\ \A d : Replaces(new[i], d) <=> Replaces(c, d)
                                        /\ \A d : Replaces(d, new[i]) <=> Replaces(d, c)
               /\ ~ Replaces(c, cs[i]) => new[i] = cs[i]
    <3>1. CASE Replaces(c, cs[i])
      BY <1>0, <2>1, <3>1, ReplacementFacts
    <3>2. CASE ~ Replaces(c, cs[i])
      BY <1>0, <2>1, <3>2
    <3> QED
      BY <3>1, <3>2
  <2>3. new \in Seq(R)
    BY <1>0, <2>1, <2>2
  <2>4. ASSUME NEW i \in DOMAIN cs, NEW j \in DOMAIN cs, Replaces(new[i], new[j])
        PROVE  i = j
    <3>1. Replaces(cs[i], cs[j])
      <4>1. CASE Replaces(c, cs[i]) /\ Replaces(c, cs[j])
        BY <4>1, ReplacesFacts
      <4>2. CASE Replaces(c, cs[i]) /\ ~ Replaces(c, cs[j])
        BY <2>2, <2>4, <4>2
      <4>3. CASE ~ Replaces(c, cs[i]) /\ Replaces(c, cs[j])
        BY <2>2, <2>4, <4>3, ReplacesFacts
      <4>4. CASE ~ Replaces(c, cs[i]) /\ ~ Replaces(c, cs[j])
        BY <2>2, <2>4, <4>4
      <4> QED
        BY <4>1, <4>2, <4>3, <4>4
    <3> QED
      BY <3>1 DEF NoRivals
  <2>5. ASSUME Once(cs), NEW i \in DOMAIN cs, NEW j \in DOMAIN cs, new[i] = new[j]
        PROVE  i = j
    <3>1. CASE ~ Replaces(c, cs[i]) /\ ~ Replaces(c, cs[j])
      BY <2>2, <2>5, <3>1 DEF Once
    <3>2. CASE Replaces(c, cs[i]) \/ Replaces(c, cs[j])
      <4>1. \A d : Replaces(new[i], d) <=> Replaces(c, d)
        BY <2>2, <2>5, <3>2
      <4>2. Replaces(c, cs[i]) /\ Replaces(c, cs[j])
        BY <2>2, <2>5, <3>2, <4>1, ReplacesFacts
      <4> QED
        BY <2>4, <2>2, <4>2, ReplacesFacts
    <3> QED
      BY <3>1, <3>2
  <2> QED
    BY <2>1, <2>2, <2>3, <2>4, <2>5 DEF NoRivals, KeepsGivers, Once
<1>2. CASE ~ \E old \in ToSet(cs) : Replaces(c, old)
  <2>1. new = Append(cs, c)
    BY <1>2 DEF WithClause
  <2>2. \A i \in DOMAIN cs : ~ Replaces(c, cs[i]) /\ ~ Replaces(cs[i], c)
    BY <1>2, ReplacesFacts DEF ToSet
  <2>3. /\ new \in Seq(R) /\ DOMAIN new = 1 .. (Len(cs) + 1)
        /\ \A i \in 1 .. Len(cs) : new[i] = cs[i]
        /\ new[Len(cs) + 1] = c
    BY <2>1
  <2>4. ASSUME NEW i \in DOMAIN new, NEW j \in DOMAIN new, Replaces(new[i], new[j])
        PROVE  i = j
    BY <1>0, <2>2, <2>3, <2>4 DEF NoRivals
  <2>5. Once(cs) /\ c \notin ToSet(cs) => Once(new)
    BY <1>0, <2>3 DEF Once, ToSet
  <2> QED
    BY <1>0, <2>3, <2>4, <2>5 DEF NoRivals, KeepsGivers
<1> QED
  BY <1>1, <1>2

\* A list without its element at k.
LEMMA RemovedFacts ==
    ASSUME NEW C, NEW cs \in Seq(C), NEW k \in 1 .. Len(cs)
    PROVE  /\ RemoveAt(cs, k) \in Seq(C)
           /\ DOMAIN RemoveAt(cs, k) = 1 .. (Len(cs) - 1)
           /\ \A i \in 1 .. (Len(cs) - 1) :
                 RemoveAt(cs, k)[i] = cs[IF i < k THEN i ELSE i + 1]
<1> DEFINE new == RemoveAt(cs, k)
           Old(i) == IF i < k THEN i ELSE i + 1
<1>1. k \in 1 .. Len(cs) /\ DOMAIN cs = 1 .. Len(cs)
  OBVIOUS
<1>2. new = SubSeq(cs, 1, k - 1) \o SubSeq(cs, k + 1, Len(cs))
  BY DEF RemoveAt
<1> HIDE DEF new
<1>3. /\ new \in Seq(C) /\ DOMAIN new = 1 .. (Len(cs) - 1)
      /\ \A i \in 1 .. (Len(cs) - 1) : new[i] = cs[Old(i)]
  <2> DEFINE front == SubSeq(cs, 1, k - 1)
             rear  == SubSeq(cs, k + 1, Len(cs))
  <2>1. /\ front \in Seq(C) /\ Len(front) = k - 1
        /\ \A i \in 1 .. (k - 1) : front[i] = cs[i]
    <3>1. \A i \in 1 .. (k - 1) : 1 <= i /\ i <= Len(cs)
      BY <1>1
    <3> QED
      BY <1>1, <3>1, SubSeqProperties
  <2>2. /\ rear \in Seq(C) /\ Len(rear) = Len(cs) - k
        /\ \A i \in 1 .. (Len(cs) - k) : rear[i] = cs[k + i]
    <3>1. /\ \A i \in (k + 1) .. Len(cs) : cs[i] \in C
          /\ k + 1 \in Int /\ Len(cs) \in Int /\ Len(cs) - (k + 1) + 1 = Len(cs) - k
          /\ \A i \in 1 .. (Len(cs) - k) : (k + 1) + i - 1 = k + i
      BY <1>1
    <3>2. /\ rear \in Seq(C)
          /\ Len(rear) = IF k + 1 <= Len(cs) THEN Len(cs) - (k + 1) + 1 ELSE 0
          /\ \A i \in 1 .. (Len(cs) - (k + 1) + 1) : rear[i] = cs[(k + 1) + i - 1]
      BY <3>1, SubSeqProperties
    <3> HIDE DEF rear
    <3>3. Len(rear) = Len(cs) - k
      <4>1. Len(cs) \in Int /\ k \in Int /\ k <= Len(cs)
        BY <1>1
      <4>2. Len(rear) = IF k + 1 <= Len(cs) THEN Len(cs) - (k + 1) + 1 ELSE 0
        BY <3>2
      <4> QED
        BY <4>1, <4>2
    <3>4. \A i \in 1 .. (Len(cs) - k) : rear[i] = cs[k + i]
      BY <3>1, <3>2
    <3> QED
      BY <3>2, <3>3, <3>4
  <2> HIDE DEF front, rear
  <2>3. /\ front \o rear \in Seq(C) /\ Len(front \o rear) = Len(cs) - 1
        /\ \A i \in 1 .. (Len(cs) - 1) :
              (front \o rear)[i] = IF i <= k - 1 THEN front[i] ELSE rear[i - (k - 1)]
    <3>1. Len(front) + Len(rear) = Len(cs) - 1
      BY <1>1, <2>1, <2>2
    <3>2. front \in Seq(C) /\ rear \in Seq(C) /\ Len(front) = k - 1
      BY <2>1, <2>2
    <3>3. /\ front \o rear \in Seq(C) /\ Len(front \o rear) = Len(front) + Len(rear)
          /\ \A i \in 1 .. (Len(front) + Len(rear)) :
                (front \o rear)[i] = IF i <= Len(front) THEN front[i]
                                     ELSE rear[i - Len(front)]
      BY <3>2, ConcatProperties
    <3> QED
      BY <3>1, <3>2, <3>3
  <2>4. new = front \o rear
    BY <1>2 DEF front, rear
  <2>5. ASSUME NEW i \in 1 .. (Len(cs) - 1)
        PROVE  (front \o rear)[i] = cs[Old(i)]
    <3>1. CASE i < k
      BY <1>1, <2>1, <2>3, <3>1
    <3>2. CASE ~ i < k
      <4>1. i - (k - 1) \in 1 .. (Len(cs) - k) /\ k + (i - (k - 1)) = i + 1
        BY <1>1, <3>2
      <4> QED
        BY <1>1, <2>2, <2>3, <3>2, <4>1
    <3> QED
      BY <3>1, <3>2
  <2> QED
    BY <2>3, <2>4, <2>5
<1> QED
  BY <1>3 DEF new

LEMMA WithoutClauseFacts ==
    ASSUME NEW C, NEW cs \in Seq(C), NEW c \in ToSet(cs), NoRivals(cs)
    PROVE  /\ WithoutClause(cs, c) \in Seq(C)
           /\ NoRivals(WithoutClause(cs, c))
           /\ \A i \in DOMAIN WithoutClause(cs, c) :
                 \E j \in DOMAIN cs : WithoutClause(cs, c)[i] = cs[j]
           /\ Once(cs) => Once(WithoutClause(cs, c))
<1> DEFINE k == CHOOSE i \in DOMAIN cs : cs[i] = c
           new == WithoutClause(cs, c)
           Old(i) == IF i < k THEN i ELSE i + 1
<1>1. k \in 1 .. Len(cs) /\ DOMAIN cs = 1 .. Len(cs)
  BY DEF ToSet
<1>2. new = RemoveAt(cs, k)
  BY DEF WithoutClause
<1> HIDE DEF k, new
<1>3. /\ new \in Seq(C) /\ DOMAIN new = 1 .. (Len(cs) - 1)
      /\ \A i \in 1 .. (Len(cs) - 1) : new[i] = cs[Old(i)]
  BY <1>1, <1>2, RemovedFacts
<1>4. \A i \in 1 .. (Len(cs) - 1) : Old(i) \in DOMAIN cs
  BY <1>1
<1>5. \A i, j \in 1 .. (Len(cs) - 1) : Old(i) = Old(j) => i = j
  BY <1>1
<1> HIDE DEF Old
<1>6. NoRivals(new)
  BY <1>3, <1>4, <1>5, SMTT(30) DEF NoRivals
<1>7. Once(cs) => Once(new)
  BY <1>3, <1>4, <1>5, SMTT(30) DEF Once
<1> QED
  BY <1>3, <1>4, <1>6, <1>7 DEF new
=============================================================================
